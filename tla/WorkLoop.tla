------------------------------ MODULE WorkLoop ------------------------------
(***************************************************************************)
(* The nodes that do a run's work (internal/nodes): code and fix have the  *)
(* agent edit the workspace, write finds out what it edited, policy, test  *)
(* and review judge it, and a failed verdict goes back to fix until the    *)
(* give-up.  How they are wired is part of it: the same nodes make the     *)
(* default run, a run with a policy, on a branch, one that fans out, and a *)
(* candidate's own.                                                        *)
(*                                                                         *)
(* What the dispatcher makes of a node is module RunSpec: its patch is     *)
(* applied once, whatever crashes.  What a crash does not undo is what the *)
(* agent did to the workspace, so an attempt cut short edits and is run    *)
(* again on the same blackboard.                                           *)
(***************************************************************************)
EXTENDS Naturals, FiniteSets, Sequences

CONSTANTS
  Files,        \* names a file can go by
  Fold(_),      \* what the file system makes of a name: two that fold alike are one file
  OnDisk,       \* the name each file has on disk
  Guarded,      \* what the policy asks a repair of, when changed
  Forbidden,    \* what no run may change and go on
  Graphs,       \* how runs may be wired
  GiveUps,      \* graph.give_up
  FailOn,       \* review.fail_on, as a rank of severity
  Severities,   \* the ranks an issue may have
  MaxCuts       \* bound: attempts of the agent cut short

ASSUME WorkLoopAssumption ==
  /\ OnDisk \subseteq Files
  /\ \A f, g \in OnDisk : Fold(f) = Fold(g) => f = g
  /\ Guarded \subseteq OnDisk /\ Forbidden \subseteq OnDisk
  /\ Graphs \subseteq [approval: BOOLEAN, policy: BOOLEAN, branch: BOOLEAN,
                       fanout: BOOLEAN, candidate: BOOLEAN, recorded: BOOLEAN,
                       mode: {"lint", "ai"}]
  /\ \A g \in Graphs : g.candidate => ~ (g.approval \/ g.branch \/ g.fanout)
  /\ GiveUps \subseteq Nat /\ MaxCuts \in Nat
  /\ FailOn \in Nat /\ Severities \subseteq Nat
  /\ \E s \in Severities : FailOn <= s /\ \A t \in Severities : t <= s

VARIABLES
  graph, giveUp,   \* the run's wiring and its pinned give-up
  node, status,    \* where the run is; running, completed or failed
  code,            \* blackboard: the change set, and what the agent left out of it
  test, review, policy,  \* blackboard: the last verdict of each gate
  fix,             \* blackboard: the repairs done, and whether that was the last
  tree,            \* the workspace: the files changed since the run began
  cuts,            \* bound: attempts cut short
  told,            \* history: every file an agent's reply ever named
  sender,          \* history: the gate that sent the run to fix
  judged,          \* history: the gates that judged the tree since its last edit
  mended           \* history: files of the change set a later write found unchanged

run   == <<graph, giveUp>>
gates == <<test, review, policy>>
seen  == <<cuts, told, sender, judged, mended>>
loopVars == <<run, node, status, code, gates, fix, tree, seen>>

-----------------------------------------------------------------------------
(***************************************************************************)
(* The wiring (wire.go): which nodes a run holds, and where each option    *)
(* sends the node it replaces.                                             *)
(***************************************************************************)
GraphEnd       == "end"
workNodes == {"code", "write", "policy", "test", "fix", "review"}

work(g) == {"code", "write", "test", "fix", "review"} \cup (IF g.policy THEN {"policy"} ELSE {})

\* fanOut: the work is the candidates', and fanout and join take its place.
Registered(g) ==
  IF g.candidate THEN work(g)
  ELSE {"plan", "approve"}
       \cup (IF g.branch THEN {"promote"} ELSE {})
       \cup (IF g.fanout THEN {"fanout", "join"} ELSE work(g))

Entry(g)      == IF g.candidate THEN "code" ELSE "plan"
WorkEntry(g)  == IF g.fanout THEN "fanout" ELSE "code"
OnPlanned(g)  == IF g.approval THEN "approve" ELSE WorkEntry(g)
OnVerified(g) == IF g.policy THEN "policy" ELSE "test"

\* Slip: a candidate's review is wired as its parent's is.
OnPassOfParent(g) == IF g.branch \/ g.candidate THEN "promote" ELSE GraphEnd

OnPass(g)     == IF g.branch THEN "promote" ELSE GraphEnd

-----------------------------------------------------------------------------
LoopInit ==
  /\ graph \in Graphs /\ giveUp \in GiveUps
  /\ node = Entry(graph) /\ status = "running"
  /\ code = [changed |-> {}, unreported |-> {}]
  /\ test = "none" /\ review = "none" /\ policy = "none"
  /\ fix = [attempts |-> 0, gaveUp |-> FALSE]
  /\ tree = {}
  /\ cuts = 0 /\ told = {} /\ sender = "none"
  /\ judged = {} /\ mended = {}

At(n) == status = "running" /\ node = n

Goto(next) == /\ node' = next
              /\ status' = IF next = GraphEnd THEN "completed" ELSE "running"

Fail == status' = "failed" /\ UNCHANGED node

-----------------------------------------------------------------------------
(***************************************************************************)
(* The nodes around the work, as they route.                               *)
(***************************************************************************)
PlanRun ==
  /\ At("plan")
  /\ Goto(OnPlanned(graph))
  /\ UNCHANGED <<run, code, gates, fix, tree, seen>>

ApproveRun ==
  /\ At("approve")
  /\ Goto(WorkEntry(graph))
  /\ UNCHANGED <<run, code, gates, fix, tree, seen>>

FanoutRun ==
  /\ At("fanout")
  /\ Goto("join")
  /\ UNCHANGED <<run, code, gates, fix, tree, seen>>

JoinRun ==
  /\ At("join")
  /\ Goto(OnPass(graph)) \/ Fail
  /\ UNCHANGED <<run, code, gates, fix, tree, seen>>

PromoteRun ==
  /\ At("promote")
  /\ Goto(GraphEnd) \/ Fail
  /\ UNCHANGED <<run, code, gates, fix, tree, seen>>

-----------------------------------------------------------------------------
(***************************************************************************)
(* What a repair is for, and how many there may be.                        *)
(***************************************************************************)
\* Slip: the tests are asked first.
detectCauseTestsFirst ==
  IF test = "fail" THEN "test"
  ELSE IF policy = "fail" THEN "policy"
  ELSE IF review = "fail" THEN "review" ELSE "none"

detectCause ==
  IF policy = "fail" THEN "policy"
  ELSE IF test = "fail" THEN "test"
  ELSE IF review = "fail" THEN "review" ELSE "none"

Exhausted == fix.attempts >= giveUp

AgentRuns ==
  \/ At("code")
  \/ At("fix") /\ ~ Exhausted /\ detectCause # "none"

-----------------------------------------------------------------------------
(***************************************************************************)
(* The agent.  It may leave the workspace changed in any way, and name any *)
(* files or none; a name no file of the repository can have is refused,    *)
(* with the node.                                                          *)
(***************************************************************************)
Edit == tree' \in SUBSET OnDisk /\ judged' = {}

Invoke(S) == Edit /\ told' = told \cup S

\* The reply is an error, or names an unusable path.
AgentFails ==
  /\ AgentRuns
  /\ Edit
  /\ Fail
  /\ UNCHANGED <<run, code, gates, fix, cuts, told, sender, mended>>

\* The attempt is killed or cancelled: the dispatcher runs the node again.
AgentCut ==
  /\ AgentRuns
  /\ cuts < MaxCuts
  /\ cuts' = cuts + 1
  /\ Edit
  /\ UNCHANGED <<run, node, status, code, gates, fix, told, sender, mended>>

\* A reply that names nothing leaves the recorded change set as it was.
recordChange(S) == IF S = {} THEN code ELSE [code EXCEPT !.changed = S]

CodeRun(S) ==
  /\ At("code")
  /\ Invoke(S)
  /\ code' = recordChange(S)
  /\ Goto("write")
  /\ UNCHANGED <<run, gates, fix, cuts, sender, mended>>

-----------------------------------------------------------------------------
(***************************************************************************)
(* write: the change set is what the workspace says, with the agent's      *)
(* report beside it.  A workspace nothing was recorded of can only be      *)
(* believed.                                                               *)
(***************************************************************************)
groundTruth == IF graph.recorded THEN tree ELSE {}

sameFile(r, t) == t # r /\ Fold(t) = Fold(r)

\* The reported names that are not another spelling of a file that changed,
\* and the changed files that were reported under one.
kept(reported)    == {r \in reported : ~ \E t \in groundTruth : sameFile(r, t)}
aliased(reported) == {t \in groundTruth : \E r \in reported : sameFile(r, t)}

\* Slip: what an earlier pass found unreported is forgotten.
unreportedNow(reported, before) == groundTruth \ (reported \cup aliased(reported))

unreported(reported, before) ==
  (groundTruth \ (reported \cup aliased(reported))) \cup (before \cap groundTruth)

WriteRun ==
  /\ At("write")
  /\ code' = [changed |-> groundTruth \cup kept(code.changed),
              unreported |-> unreported(code.changed, code.unreported)]
  /\ mended' = mended \cup (code.changed \ tree)
  /\ Goto(OnVerified(graph))
  /\ UNCHANGED <<run, gates, fix, tree, cuts, told, sender, judged>>

\* A claimed path that leaves the workspace, or is there and is no file,
\* refuses the whole set; one that is not there is a deletion.
WriteRefuses ==
  /\ At("write") /\ groundTruth \cup kept(code.changed) # {}
  /\ Fail
  /\ UNCHANGED <<run, code, gates, fix, tree, seen>>

\* A workspace that keeps a record and cannot answer is no verdict.
ChangesFail ==
  /\ At("write") \/ At("policy")
  /\ graph.recorded
  /\ Fail
  /\ UNCHANGED <<run, code, gates, fix, tree, seen>>

-----------------------------------------------------------------------------
(***************************************************************************)
(* The gates.                                                              *)
(***************************************************************************)
SendToFix(gate) == Goto("fix") /\ sender' = gate

Judge(gate) == judged' = judged \cup {gate}

\* Slip: a file is judged the first time it changes.
judgedOnce == IF policy = "none" THEN code.changed \cup groundTruth ELSE {}

judgedFiles == code.changed \cup groundTruth

Breaks(rule) == judgedFiles \cap rule # {}

PolicyRun ==
  /\ At("policy")
  /\ Judge("policy")
  /\ policy' = IF Breaks(Guarded \cup Forbidden) THEN "fail" ELSE "pass"
  /\ \/ ~ Breaks(Guarded \cup Forbidden) /\ Goto("test") /\ UNCHANGED sender
     \/ Breaks(Forbidden) /\ Fail /\ UNCHANGED sender
     \/ ~ Breaks(Forbidden) /\ Breaks(Guarded) /\ SendToFix("policy")
  /\ UNCHANGED <<run, code, test, review, fix, tree, cuts, told, mended>>

\* A suite that found no tests is no pass; a toolchain that is not there is
\* an error, and no failure for fix to repair.
ReportOK(total, failed) == total > 0 /\ failed = 0

TestRun(total, failed) ==
  /\ At("test")
  /\ Judge("test")
  /\ test' = IF ReportOK(total, failed) THEN "pass" ELSE "fail"
  /\ IF ReportOK(total, failed) THEN Goto("review") /\ UNCHANGED sender
                                ELSE SendToFix("test")
  /\ UNCHANGED <<run, code, review, policy, fix, tree, cuts, told, mended>>

TestErrors ==
  /\ At("test")
  /\ Fail
  /\ UNCHANGED <<run, code, gates, fix, tree, seen>>

(***************************************************************************)
(* review: the report of an adapter, and belay's own threshold over it.    *)
(***************************************************************************)
AtOrAbove(issues) == {s \in issues : s >= FailOn}

resolveGate(reported, issues) ==
  IF reported \in {"error", "none"} THEN "error"
  ELSE IF AtOrAbove(issues) # {} THEN "fail" ELSE "pass"

\* What SonarQube's gate and issues come to: a gate it failed over no issue
\* at the threshold is an issue of its own, of the highest severity.
Blocker == CHOOSE s \in Severities : \A t \in Severities : t <= s

\* Slip: only the issues count.
finalizeIssuesOnly(server, issues) ==
  IF server \in {"error", "none"}
    THEN [gate |-> "error", issues |-> issues]
    ELSE [gate |-> IF AtOrAbove(issues) # {} THEN "fail" ELSE "pass", issues |-> issues]

finalize(server, issues) ==
  LET all == IF server = "fail" /\ AtOrAbove(issues) = {} THEN issues \cup {Blocker}
                                                           ELSE issues
  IN  IF server \in {"error", "none"}
        THEN [gate |-> "error", issues |-> issues]
        ELSE [gate |-> IF AtOrAbove(all) # {} THEN "fail" ELSE "pass", issues |-> all]

runGate(server, issues) ==
  IF graph.mode = "ai" THEN finalize(server, issues)
                       ELSE [gate |-> server, issues |-> issues]

ReviewRun(server, issues) ==
  LET report == runGate(server, issues)
      gate   == resolveGate(report.gate, report.issues)
  IN  /\ At("review")
      /\ IF gate = "error"
           THEN /\ Fail
                /\ UNCHANGED <<review, sender, judged>>
           ELSE /\ review' = gate /\ Judge("review")
                /\ IF gate = "pass" THEN Goto(OnPass(graph)) /\ UNCHANGED sender
                                    ELSE SendToFix("review")
      /\ UNCHANGED <<run, code, test, policy, fix, tree, cuts, told, mended>>

-----------------------------------------------------------------------------
(***************************************************************************)
(* fix.                                                                    *)
(***************************************************************************)
GiveUp ==
  /\ At("fix") /\ Exhausted
  /\ fix' = [fix EXCEPT !.gaveUp = TRUE]
  /\ Fail
  /\ UNCHANGED <<run, code, gates, tree, seen>>

\* Nothing recorded as failing is an error.
NothingToFix ==
  /\ At("fix") /\ ~ Exhausted /\ detectCause = "none"
  /\ Fail
  /\ UNCHANGED <<run, code, gates, fix, tree, seen>>

\* Slip: a repair goes back to the gate that asked for it.
FixToSender(S) ==
  /\ At("fix") /\ ~ Exhausted /\ detectCause # "none"
  /\ Invoke(S)
  /\ code' = [code EXCEPT !.changed = @ \cup S]
  /\ fix' = [attempts |-> fix.attempts + 1, gaveUp |-> FALSE]
  /\ Goto(sender)
  /\ UNCHANGED <<run, gates, cuts, sender, mended>>

\* Slip: a repair that reports no file is not counted.
FixUncounted(S) ==
  /\ At("fix") /\ ~ Exhausted /\ detectCause # "none"
  /\ Invoke(S)
  /\ code' = [code EXCEPT !.changed = @ \cup S]
  /\ fix' = [attempts |-> fix.attempts + (IF S = {} THEN 0 ELSE 1), gaveUp |-> FALSE]
  /\ Goto("write")
  /\ UNCHANGED <<run, gates, cuts, sender, mended>>

FixRun(S) ==
  /\ At("fix") /\ ~ Exhausted /\ detectCause # "none"
  /\ Invoke(S)
  /\ code' = [code EXCEPT !.changed = @ \cup S]
  /\ fix' = [attempts |-> fix.attempts + 1, gaveUp |-> FALSE]
  /\ Goto("write")
  /\ UNCHANGED <<run, gates, cuts, sender, mended>>

-----------------------------------------------------------------------------
Work ==
  \/ PlanRun \/ ApproveRun \/ FanoutRun \/ JoinRun \/ PromoteRun
  \/ \E S \in SUBSET Files : CodeRun(S) \/ FixRun(S)
  \/ AgentFails \/ WriteRun \/ WriteRefuses \/ ChangesFail \/ PolicyRun
  \/ \E total, failed \in 0 .. 1 : failed <= total /\ TestRun(total, failed)
  \/ TestErrors
  \/ \E server \in {"pass", "fail", "error"}, issues \in SUBSET Severities :
       ReviewRun(server, issues)
  \/ GiveUp \/ NothingToFix

LoopNext == Work \/ AgentCut

LoopSpec == LoopInit /\ [][LoopNext]_loopVars /\ WF_loopVars(Work)

-----------------------------------------------------------------------------
(***************************************************************************)
(* Properties.                                                             *)
(***************************************************************************)
\* Whatever options wired the graph, no node routes to one the run does not
\* have: an unregistered node would fail the run after its work was paid for.
RoutesWired == status = "running" => node \in Registered(graph)

\* A run is done only when every gate it has passed the very tree it ends
\* with: no edit, of a repair or of an attempt that was cut short, came after
\* a verdict the run rests on.
VerdictsStand ==
  (status = "completed" \/ node = "promote") /\ ~ graph.fanout =>
    /\ test = "pass" /\ review = "pass" /\ {"test", "review"} \subseteq judged
    /\ graph.policy => policy = "pass" /\ "policy" \in judged

\* Where belay can tell what changed, no run is done with a change its policy
\* forbids or asks a repair of, whether or not the agent reported it.
PolicyHolds ==
  status = "completed" /\ graph.policy /\ graph.recorded =>
    tree \cap (Guarded \cup Forbidden) = {}

Verified == node \in {"policy", "test", "review", "promote"} /\ graph.recorded /\ ~ graph.fanout

Named(f) == \E r \in told : Fold(r) = Fold(f)

\* A file that changed is in the change set; one no reply has named by any
\* spelling is listed as unreported as long as it stays changed.
MissedFilesStayNamed ==
  Verified => /\ tree \subseteq code.changed
              /\ \A f \in tree \ mended : ~ Named(f) => f \in code.unreported

\* The prompt of a repair is about the verdict that asked for it, whatever
\* older verdicts the blackboard still holds, and a repair always has one.
FixRepairsItsSender == At("fix") => detectCause = sender

\* The server's failed gate is never passed over for want of an issue at the
\* threshold, and belay's threshold never passed over for the server's word.
ReviewIsStrict ==
  \A server \in {"pass", "fail", "error"}, issues \in SUBSET Severities :
    LET report == runGate(server, issues)
    IN  resolveGate(report.gate, report.issues) = "pass" =>
          /\ AtOrAbove(issues) = {}
          /\ server # "error"
          /\ graph.mode = "ai" => server = "pass"

\* A run is done on verdicts of the tree it ends with, read strictly and
\* within its policy, and comes there by nodes it has.
DoneIsJudged == VerdictsStand /\ PolicyHolds /\ ReviewIsStrict /\ RoutesWired

\* A repair is asked for what failed, of all the files that changed.
RepairIsAimed == FixRepairsItsSender /\ MissedFilesStayNamed

Ended == status # "running"

=============================================================================
