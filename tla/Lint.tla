-------------------------------- MODULE Lint --------------------------------
(***************************************************************************)
(* The lint gate of a run (internal/linter): asking git what the run       *)
(* changed, running the tool, and keeping of its findings those that       *)
(* belong to the change.  golangci-lint scopes itself to HEAD once git can *)
(* be asked, ruff is scoped by belay, and eslint is not scoped.            *)
(***************************************************************************)
EXTENDS Naturals, FiniteSets

CONSTANTS
  Linters,     \* subset of "golangci-lint", "ruff", "eslint"
  Sources,     \* the files of the linted directory
  Committed,   \* those HEAD held when the run began
  MaxRewrites, \* bound: edits of the agent between two gates
  MaxLints     \* bound: gates of the run

VARIABLES
  linter,
  repo,    \* what git makes of the directory
  change,  \* file -> what the run did to it, as git sees it
  found,   \* file -> the findings the tool has in it
  edited, gates,
  asking,  \* the command the gate runs next, or "agent"
  set,     \* the change set read so far
  scope,   \* whether the findings are to be scoped
  gate     \* the last verdict

lintVars == <<linter, repo, change, found, edited, gates, asking, set, scope, gate>>

\* A finding is on a line the change wrote, there worth failing the gate or
\* not, on a line it left, or says that the file could not be read.
Findings == {"new-line", "nit", "old-line", "unparsable"}
Repos    == {"whole", "none", "ignored", "new-ignored"}

NoSet == [lines |-> {}, touched |-> {}, whole |-> {}]

LintInit ==
  /\ linter \in Linters
  /\ repo \in Repos
  /\ change = [f \in Sources |-> IF f \in Committed THEN "same" ELSE "absent"]
  \* the debt the run was started with
  /\ found \in [Sources -> SUBSET {"old-line", "unparsable"}]
  /\ \A f \in Sources \ Committed : found[f] = {}
  /\ edited = 0 /\ gates = 0
  /\ asking = "agent" /\ set = NoSet /\ scope = FALSE
  /\ gate = "none"

-----------------------------------------------------------------------------
(***************************************************************************)
(* The agent.                                                              *)
(***************************************************************************)
\* The new files of this directory are ones git ignores.
IgnoresNew == repo \in {"ignored", "new-ignored"}

MayBecome(f) ==
  IF f \in Committed THEN {"rewritten", "cut"}
  ELSE IF IgnoresNew THEN {"hidden"} ELSE {"created", "hidden"}

MayHold(c) == CASE c = "cut"       -> {"old-line", "unparsable"}
                [] c = "rewritten" -> Findings
                [] OTHER           -> Findings \ {"old-line"}

Rewrite(f) ==
  /\ asking = "agent" /\ edited < MaxRewrites /\ gates < MaxLints /\ gate # "pass"
  /\ \E c \in MayBecome(f), k \in SUBSET Findings :
       /\ k \subseteq MayHold(c)
       /\ change' = [change EXCEPT ![f] = c]
       /\ found' = [found EXCEPT ![f] = k]
  /\ edited' = edited + 1
  /\ UNCHANGED <<linter, repo, gates, asking, set, scope, gate>>

\* An agent that commits its work leaves nothing for HEAD to differ in.
Commit ==
  /\ asking = "agent" /\ edited < MaxRewrites /\ gates < MaxLints /\ gate # "pass"
  /\ repo = "whole"
  /\ change' = [f \in Sources |->
                  IF change[f] \in {"rewritten", "cut", "created"} THEN "landed" ELSE change[f]]
  /\ edited' = edited + 1
  /\ UNCHANGED <<linter, repo, found, gates, asking, set, scope, gate>>

-----------------------------------------------------------------------------
(***************************************************************************)
(* What git says of the change.  Any command may fail, and a long answer   *)
(* is cut; scoping by less than the change would hide a finding, so then   *)
(* every finding counts.                                                   *)
(***************************************************************************)
Lint ==
  /\ asking = "agent" /\ gates < MaxLints /\ gate # "pass"
  /\ gates' = gates + 1
  /\ asking' = IF linter = "eslint" THEN "tool" ELSE "ls-tree"
  /\ set' = NoSet /\ scope' = FALSE
  /\ UNCHANGED <<linter, repo, change, found, edited, gate>>

Go(next, known) ==
  /\ asking' = next /\ set' = known
  /\ scope' = (next = "tool")
  /\ UNCHANGED <<linter, repo, change, found, edited, gates, gate>>

Unscoped ==
  /\ asking' = "tool" /\ set' = NoSet /\ scope' = FALSE
  /\ UNCHANGED <<linter, repo, change, found, edited, gates, gate>>

\* A git that is missing, out of time or broken.
GitFails == asking \in {"ls-tree", "check-ignore", "diff", "ls-files"} /\ Unscoped

\* HEAD holds the directory.
HeadHolds == repo \in {"whole", "new-ignored"}
LsTree == /\ asking = "ls-tree"
          /\ IF HeadHolds THEN Go("check-ignore", NoSet) ELSE Unscoped

\* A new file of the directory would be one git lists.
ListsNew == ~IgnoresNew
CheckIgnore == /\ asking = "check-ignore"
               /\ IF ListsNew THEN Go(IF linter = "ruff" THEN "diff" ELSE "tool", NoSet)
                  ELSE Unscoped

\* The tracked files, and of each whether a hunk of it gained lines.
Tracked(c) == {f \in Sources : change[f] = c}
DiffOf == [lines   |-> Tracked("rewritten"),
           touched |-> Tracked("rewritten") \cup Tracked("cut"),
           whole   |-> {}]

Diff ==
  /\ asking = "diff"
  /\ \/ Go("ls-files", DiffOf)
     \* cut at the capture limit, inside a hunk or between two files
     \/ DiffOf.touched # {} /\ Unscoped

\* The files the run made and git neither holds nor ignores.
Untracked == Tracked("created")
LsFiles ==
  /\ asking = "ls-files"
  /\ \/ Go("tool", [set EXCEPT !.whole = Untracked])
     \/ Untracked # {} /\ Unscoped

-----------------------------------------------------------------------------
(***************************************************************************)
(* The tool and its verdict.                                               *)
(***************************************************************************)
touches(f) == f \in set.whole \cup set.touched
coversFile(f, k) == touches(f)
covers(f, k) == f \in set.whole \/ (f \in set.lines /\ k \in {"new-line", "nit"})

\* A parser that gives up does so far from the edit that broke the file.
countsByLine(f, k) == covers(f, k)
counts(f, k) == IF k = "unparsable" THEN touches(f) ELSE covers(f, k)

\* golangci-lint's own --new-from-rev=HEAD, which reports what does not
\* compile wherever it is.
newFromRev(f, k) ==
  \/ k = "unparsable"
  \/ f \in Tracked("created")
  \/ f \in Tracked("rewritten") /\ k \in {"new-line", "nit"}

counted == {e \in Sources \X Findings :
              /\ e[2] \in found[e[1]]
              /\ scope => IF linter = "ruff" THEN counts(e[1], e[2])
                                           ELSE newFromRev(e[1], e[2])}

\* belay.Counts.AtOrAbove(fail_on).
Failing == {e \in counted : e[2] # "nit"}
newReport == IF Failing = {} THEN "pass" ELSE "fail"

\* What the tool may do: report, refuse its configuration with nothing on
\* its standard output, overrun the capture, or not come to an end.
ToolEnds == {"report", "empty", "truncated", "stopped"}

RunTool ==
  /\ asking = "tool"
  /\ \E end \in ToolEnds : gate' = IF end = "report" THEN newReport ELSE "error"
  /\ asking' = "agent" /\ edited' = 0
  /\ UNCHANGED <<linter, repo, change, found, gates, set, scope>>

LintNext ==
  \/ \E f \in Sources : Rewrite(f)
  \/ Commit \/ Lint \/ GitFails \/ LsTree \/ CheckIgnore \/ Diff \/ LsFiles \/ RunTool

LintSpec == LintInit /\ [][LintNext]_lintVars

-----------------------------------------------------------------------------
(***************************************************************************)
(* A passing gate has looked at all the run did, but for the two changes   *)
(* the sources say it cannot see -- a file git ignores by its name, work   *)
(* the agent committed -- and a failing gate that was scoped lays nothing  *)
(* at the run's door that was there before it.                             *)
(***************************************************************************)
\* What the run is answerable for: every finding on a line it wrote, and a
\* file it wrote in that cannot be read.
Answerable(f) ==
  CASE change[f] \in {"created", "rewritten"} -> found[f] \cap {"new-line", "unparsable"}
    [] change[f] = "cut"                      -> found[f] \cap {"unparsable"}
    [] change[f] = "hidden" /\ IgnoresNew     -> found[f] \cap {"new-line", "unparsable"}
    [] OTHER                                  -> {}

\* linter/scope.go, changes: no failure of git makes the change set smaller
\* than the change, and (linter.go, lint) no tool that did not report passes.
LintPassIsReal ==
  asking = "agent" /\ edited = 0 /\ gate = "pass" => \A f \in Sources : Answerable(f) = {}

\* linter/ruff.go, "Why only changed lines": findings committed before the
\* run never send it to the fix loop, where git can say what they are.
DebtIsNotTheRuns ==
  asking = "agent" /\ edited = 0 /\ gate = "fail" /\ scope /\ linter = "ruff" =>
    \E f \in Sources : Answerable(f) # {}

\* A passing gate has seen every finding of the run's own, and a scoped one
\* that fails has found one.
GateIsTheChanges == LintPassIsReal /\ DebtIsNotTheRuns

=============================================================================
