------------------------------- MODULE Policy -------------------------------
(***************************************************************************)
(* The guardrails of a run: how the layers of belay.yaml make one rule set *)
(* (internal/config), how a run is pinned to it and to what the workspace  *)
(* declared beforehand (internal/cli, internal/state), and how the change  *)
(* is judged on every pass of the fix loop (internal/policy), whatever     *)
(* belay.yaml has become since.                                            *)
(***************************************************************************)
EXTENDS Naturals, FiniteSets, FiniteSetsExt

CONSTANTS
  Rules,     \* the rule sets a layer of belay.yaml may hold
  Starts,    \* the trees a run may be started on
  MaxEdits   \* bound: edits of the workspace

\* A source, a test, a path of the infrastructure and a manifest.
Paths == {"src", "test", "infra", "manifest"}

\* policy.Policy, a limit of 0 being none.
ASSUME PolicyAssumption ==
  Rules \subseteq [forbidden : SUBSET Paths, files : Nat, lines : Nat,
                   deps : BOOLEAN, tests : BOOLEAN, content : BOOLEAN]

\* A path's text has one line, three, text no run may leave, or a line too
\* long to look at; a directory the agent made a file of leaves its path
\* neither readable nor absent.  A manifest adds a dependency or is broken.
Contents(f) == {"absent", "short"} \cup
            CASE f = "src"      -> {"long", "secret", "bundle", "below-file"}
              [] f = "manifest" -> {"dependency", "broken"}
              [] OTHER          -> {}

VARIABLES
  yaml,      \* the layers of belay.yaml, the user's below the repository's
  pin,       \* the manifest's PolicyPin, or NoPin
  tree,      \* the workspace
  recorded,  \* blackboard: Code.ChangedFiles
  stage,     \* "agent", "write", "policy", "test", or how the run stands
  start,     \* history: the tree and the rules the run was started with
  edits      \* bound

policyVars == <<yaml, pin, tree, recorded, stage, start, edits>>

NoRules == [forbidden |-> {}, files |-> 0, lines |-> 0,
            deps |-> FALSE, tests |-> FALSE, content |-> FALSE]
NoPin   == [rules |-> NoRules, baseline |-> {}]

PolicyInit ==
  /\ yaml \in [user : Rules, repo : Rules]
  /\ pin = NoPin
  /\ tree \in Starts
  /\ recorded = {} /\ stage = "new"
  /\ start = [tree |-> tree, rules |-> {}]
  /\ edits = 0

-----------------------------------------------------------------------------
(***************************************************************************)
(* The rule set.                                                           *)
(***************************************************************************)
tighterCeiling(a, b) == IF a = 0 THEN b ELSE IF b = 0 THEN a ELSE Min({a, b})

tighten(p, later) ==
  [forbidden |-> p.forbidden \cup later.forbidden,
   files     |-> tighterCeiling(p.files, later.files),
   lines     |-> tighterCeiling(p.lines, later.lines),
   deps      |-> p.deps \/ later.deps,
   tests     |-> p.tests \/ later.tests,
   content   |-> p.content \/ later.content]

From == tighten(yaml.user, yaml.repo)

\* The dependencies the manifests declare; one that cannot be read is no
\* empty answer.
Declared(t) == IF t["manifest"] = "dependency" THEN {"dep"} ELSE {}
Surveys(t)  == t["manifest"] # "broken"

\* createRun: the baseline is taken before anything is spent, or the run is
\* refused.
createRun ==
  /\ stage = "new"
  /\ IF From # NoRules /\ ~Surveys(tree)
     THEN stage' = "refused" /\ UNCHANGED <<pin, start>>
     ELSE /\ stage' = "agent"
          /\ pin' = [rules    |-> From,
                     baseline |-> IF From = NoRules THEN {} ELSE Declared(tree)]
          /\ start' = [tree |-> tree, rules |-> {yaml.user, yaml.repo}]
  /\ UNCHANGED <<yaml, tree, recorded, edits>>

\* A person, or the agent: the repository's layer is a file of the workspace.
Reconfigure ==
  /\ stage \notin {"done", "refused"}
  /\ \E p \in Rules : yaml' = [yaml EXCEPT !.repo = p]
  /\ UNCHANGED <<pin, tree, recorded, stage, start, edits>>

\* bindPolicy: a resume walks the graph, and holds to the rules, of the pin.
\* Slip: the rules follow belay.yaml.
bindPolicyLive == IF pin = NoPin THEN NoPin ELSE [pin EXCEPT !.rules = From]
bindPolicy     == pin

-----------------------------------------------------------------------------
(***************************************************************************)
(* The verdict.                                                            *)
(***************************************************************************)
Present(f) == tree[f] \notin {"absent", "below-file"}
Lines(f) == IF ~Present(f) THEN 0 ELSE IF tree[f] = "long" THEN 3 ELSE 1
LinesOf(files) == UNION {{f} \X (1..Lines(f)) : f \in files}

\* scanChange: a deleted file has no lines and no text; one that cannot be
\* opened, or has a line belay cannot hold, is no verdict.
Scans(p, files) ==
  p.lines > 0 \/ p.content =>
    /\ \A f \in files : tree[f] # "below-file"
    /\ p.content => \A f \in files : tree[f] # "bundle"

newDependencies == Declared(tree) \ pin.baseline

\* Whoever touched a source touched a test, if only to delete it.
requiredTest(files) == "src" \in files => "test" \in files

Violations(p, files) ==
  UNION {IF files \cap p.forbidden # {} THEN {"forbidden_path"} ELSE {},
         IF p.files > 0 /\ Cardinality(files) > p.files THEN {"max_changed_files"} ELSE {},
         IF p.lines > 0 /\ Cardinality(LinesOf(files)) > p.lines
           THEN {"max_changed_lines"} ELSE {},
         IF p.deps /\ newDependencies # {} THEN {"no_new_dependencies"} ELSE {},
         IF p.tests /\ ~requiredTest(files) THEN {"required_tests"} ELSE {},
         IF p.content /\ \E f \in files : tree[f] = "secret" THEN {"forbidden_content"} ELSE {}}

\* Rule.Class: no repair undoes these.
ClassFail == {"forbidden_path", "max_changed_files", "max_changed_lines"}

Evaluates(p, files) == Scans(p, files) /\ (p.deps => Surveys(tree))

\* What the workspace says changed since the run began.
Truth == {f \in Paths : tree[f] # start.tree[f]}

\* Slip: the gate judges what is different now, and no more.
judgedNow == Truth
judged    == recorded \cup Truth

policyRun ==
  /\ stage = "policy"
  /\ LET p == bindPolicy.rules
         broken == Violations(p, judged)
     IN  stage' = IF pin = NoPin THEN "test"
               ELSE IF ~Evaluates(p, judged) \/ broken \cap ClassFail # {} THEN "failed"
               ELSE IF broken = {} THEN "test" ELSE "agent"
  /\ UNCHANGED <<yaml, pin, tree, recorded, start, edits>>

-----------------------------------------------------------------------------
(***************************************************************************)
(* The rest of the run.                                                    *)
(***************************************************************************)
\* The agent, a program it left behind while the gate waits its turn, or a
\* person who puts right what stopped the run.
Edit ==
  /\ stage \in {"agent", "write", "policy", "failed"} /\ edits < MaxEdits
  /\ \E f \in Paths : \E text \in Contents(f) \cup {start.tree[f]} :
       tree' = [tree EXCEPT ![f] = text]
  /\ edits' = edits + 1
  /\ UNCHANGED <<yaml, pin, recorded, stage, start>>

Replies ==
  /\ stage = "agent" /\ stage' = "write"
  /\ UNCHANGED <<yaml, pin, tree, recorded, start, edits>>

\* write: what an earlier pass recorded comes round with the fix node's reply.
Write ==
  /\ stage = "write"
  /\ recorded' = recorded \cup Truth
  /\ stage' = "policy"
  /\ UNCHANGED <<yaml, pin, tree, start, edits>>

RunTests ==
  /\ stage = "test"
  /\ stage' \in {"agent", "done"}
  /\ UNCHANGED <<yaml, pin, tree, recorded, start, edits>>

\* The node that failed is run again.
Resume ==
  /\ stage = "failed" /\ stage' = "policy"
  /\ pin' = bindPolicy
  /\ UNCHANGED <<yaml, tree, recorded, start, edits>>

PolicyNext == createRun \/ Reconfigure \/ policyRun \/ Edit \/ Replies \/ Write \/ RunTests \/ Resume

PolicySpec == PolicyInit /\ [][PolicyNext]_policyVars

-----------------------------------------------------------------------------
(***************************************************************************)
(* What a change that reached the tests has been held to.                  *)
(***************************************************************************)
Obeys(p) ==
  /\ Truth \cap p.forbidden = {}
  /\ p.files > 0 => Cardinality(Truth) <= p.files
  /\ p.lines > 0 => Cardinality(LinesOf(Truth)) <= p.lines
  /\ p.deps => Declared(tree) \subseteq Declared(start.tree)
  /\ p.content => \A f \in Truth : tree[f] \notin {"secret", "bundle"}

\* docs/config.md, policy; cli/resume.go, bindPolicy: a change that passes
\* obeys every layer as it stood when the run was started, measured against
\* the tree the run was started on, whatever was edited since, belay.yaml
\* included, and whoever did it; "we could not look" is never a pass.
RulesObeyed == stage \in {"test", "done"} => \A p \in start.rules : Obeys(p)

\* policy.go, "Two classes of violation": a forbidden path once recorded is
\* not undone by putting the file back, and the run gets past the gate no more.
ForbiddenIsForGood ==
  [][stage' = "test" /\ stage # "test" =>
       \A p \in start.rules : recorded \cap p.forbidden = {}]_policyVars

\* A change that passes obeys the rules its run was started with, and a
\* forbidden path is for good.
HeldToItsStart == []RulesObeyed /\ ForbiddenIsForGood

=============================================================================
