-------------------------------- MODULE Gate --------------------------------
(***************************************************************************)
(* The plan, the gate that waits for a person to approve it, and the       *)
(* person: internal/nodes/plan, internal/nodes/approve, and the commands   *)
(* belay resume and belay plan --regenerate, around the dispatcher.        *)
(*                                                                         *)
(* The blackboard is its plan block; the world is the plan file, as the    *)
(* document it holds.  A digest identifies its document, so it is one.     *)
(***************************************************************************)
EXTENDS Dispatcher

CONSTANTS Docs,        \* plans: text a person could approve
          MaxRequests  \* bound: new plans asked for

Unreadable == "missing"   \* a plan file that cannot be read
Empty      == "empty"     \* one with nothing, or no text, in it
Undigested == "none"

GateNames  == {"plan", "approve", "code"}
GateFields == {"plan"}
PlanFiles  == Docs \cup {Empty, Unreadable}
Plans      == [approved: BOOLEAN, digest: Docs \cup {Undigested},
               request: 0 .. MaxRequests, served: 0 .. MaxRequests]
NoPlan     == [plan |-> [approved |-> FALSE, digest |-> Undigested,
                         request |-> 0, served |-> 0]]

Pending(p) == p.request > p.served
served(p)  == IF p.served < p.request THEN p.request ELSE p.served

Returns(status, next, p, usage, w) ==
  [err |-> "none", status |-> status, next |-> next, patch |-> p, usage |-> usage,
   world |-> w]

Fails(usage, w) ==
  [err |-> "error", status |-> NoStatus, next |-> NoNode, patch |-> <<>>,
   usage |-> usage, world |-> w]

(***************************************************************************)
(* The plan node.  A new plan is never approved, whoever approved the last *)
(* one.  When a person asked for this plan and the backend gave none, the  *)
(* plan they wanted replaced stands, if it still can.                      *)
(***************************************************************************)
\* Slip: a request is never marked as answered.
PlanLeavingRequest(p, doc) == [p EXCEPT !.approved = FALSE, !.digest = doc]

PlanFor(p, doc) ==
  [p EXCEPT !.approved = FALSE, !.digest = doc, !.served = served(p)]

PlanNode(p, file) ==
  {Returns("ok", "approve", [plan |-> PlanFor(p, doc)], 1, doc) : doc \in Docs} \cup
  {IF p.request > 0 /\ file \in Docs
     THEN Returns("ok", "approve", [plan |-> PlanFor(p, file)], 1, file)
     ELSE Fails(1, file)}

(***************************************************************************)
(* The approve gate.  An edit is recorded by its digest, and only an edit  *)
(* is; a request for a new plan comes before everything else.              *)
(***************************************************************************)
EditPatch(p, file) ==
  IF file \notin Docs \/ file = p.digest THEN <<>>
                                         ELSE [plan |-> [p EXCEPT !.digest = file]]

ApproveNode(p, file) ==
  {CASE Pending(p)         -> Returns("ok", "plan", EditPatch(p, file), 0, file)
     [] OTHER -> IF file = Empty      THEN Returns("paused", NoNode, <<>>, 0, file)
            ELSE IF file = Unreadable THEN Fails(0, file)
            ELSE IF p.approved        THEN Returns("ok", "code", EditPatch(p, file), 0, file)
            ELSE Returns("paused", NoNode, EditPatch(p, file), 0, file)}

(***************************************************************************)
(* The code node, where graph.approval is on.  It looks for the approval   *)
(* itself, before it reads the plan, and what it refuses costs nothing;    *)
(* only then may its agent do the work, or fail.                           *)
(***************************************************************************)
Coded(file) == IF file \in Docs THEN {Returns("ok", End, <<>>, 1, file), Fails(1, file)}
                                ELSE {Fails(0, file)}

\* Slip: the gate is trusted to have asked.
CodeNodeTrusting(p, file) == Coded(file)

CodeNode(p, file) == IF p.approved THEN Coded(file) ELSE {Fails(0, file)}

GateResults(n, b, file) ==
  CASE n = "plan"    -> PlanNode(b["plan"], file)
    [] n = "approve" -> ApproveNode(b["plan"], file)
    [] n = "code"    -> CodeNode(b["plan"], file)

\* What the run of a plan makes of the dispatcher's constants.
ASSUME GateAssumption ==
  /\ Names = GateNames /\ Nodes = GateNames /\ Entry = NoNode
  /\ Fields = GateFields /\ Values = Plans /\ NewBoard = NoPlan
  /\ Worlds = PlanFiles
  /\ MaxRequests \in Nat
  /\ \A n \in Nodes, b \in Boards, w \in Worlds : NodeResults(n, b, w) = GateResults(n, b, w)

\* A person may edit, empty or delete the plan file.
FileEdits(file) == PlanFiles

(***************************************************************************)
(* The person.  The run waits for them when the manifest has it paused at  *)
(* the gate and the last thing a node of it did was the gate pausing.      *)
(* Only then does belay resume approve, or belay plan --regenerate take a  *)
(* request; each then dispatches the run as a resume.                      *)
(***************************************************************************)
VARIABLES command,   \* a command has written its decision and will dispatch
          approval   \* history: whether the plan in hand was shown to a person
                     \* by the gate's pause, then approved, and whether a new
                     \* one was asked for after that

gateVars == <<vars, command, approval>>

\* Slip: the manifest alone decides.
AwaitsByManifest == man.status = "paused" /\ man.node = "approve"

AwaitsApproval ==
  /\ man.status = "paused" /\ man.node = "approve"
  /\ FinishedAt(journal) # {}
  /\ journal[LastFinished(journal)].node = "approve"
  /\ journal[LastFinished(journal)].status = "paused"

SavePlan(p) == /\ board' = [plan |-> p]
               /\ committed' = [plan |-> p]
               /\ command' = TRUE
               /\ UNCHANGED <<log, hist, snaps, man, env, pc, at, repeats, exec, mem>>

\* approvePlan: an unanswered request for a new plan is withdrawn with it.
ApprovePlan ==
  /\ pc = "down" /\ ~ command /\ AwaitsApproval
  /\ SavePlan([board["plan"] EXCEPT !.approved = TRUE, !.served = board["plan"].request])
  /\ approval' = IF approval = "unseen" THEN "unseen" ELSE "approved"

\* requestRegeneration: a request still unanswered keeps its number.
RequestRegeneration ==
  LET p == board["plan"]
  IN  /\ pc = "down" /\ ~ command /\ AwaitsApproval
      /\ Pending(p) \/ larger(p.request, p.served) < MaxRequests
      /\ SavePlan([p EXCEPT !.approved = FALSE,
                            !.request = IF Pending(p) THEN @ ELSE larger(@, p.served) + 1])
      /\ approval' = IF approval = "approved" THEN "withdrawn" ELSE approval

\* belay run, or either command once it has written its decision.
Dispatch ==
  /\ \E cfg \in Configs :
       \/ Open(cfg, FALSE)
       \/ (command \/ ~ AwaitsApproval) /\ Open(cfg, TRUE)
  /\ command' = FALSE
  /\ UNCHANGED approval

CommandDies == /\ command
               /\ command' = FALSE
               /\ UNCHANGED <<vars, approval>>

\* The dispatcher at work: writing a plan makes it one nobody has seen, and
\* the gate's pause shows it.
Accepts(n) == /\ pc = "finish" /\ journal' # journal
              /\ closing.note = "accepted" /\ closing.node = n

DispatcherWorks ==
  /\ Advance \/ SnapshotFails \/ Cancel \/ Crash \/ OrphanWrites \/ PersonEdits
  /\ approval' = IF Accepts("plan") THEN "unseen"
                 ELSE IF approval = "unseen" /\ Accepts("approve") /\ closing.status = "paused"
                   THEN "shown"
                   ELSE approval
  /\ UNCHANGED command

GateInit == Init /\ command = FALSE /\ approval = "unseen"

GateNext == \/ Dispatch \/ ApprovePlan \/ RequestRegeneration \/ CommandDies
            \/ DispatcherWorks

GateSpec == GateInit /\ [][GateNext]_gateVars

-----------------------------------------------------------------------------
Starts(n) == /\ Len(journal') = Len(journal) + 1
             /\ Last(journal').event = "node_started"
             /\ Last(journal').node = n

WasApproved == approval \in {"approved", "withdrawn"}

\* No work begins on a plan nobody approved: since the plan in hand was
\* written, a person who was shown the gate's pause said go on.  Crashes,
\* half-finished gates and regenerated plans included.
NoWorkUnapproved == [][Starts("code") => WasApproved]_gateVars

\* The plan node is paid once for the run's first plan and once for each new
\* plan asked for, however often it or the gate was killed in between.
PlansPaidFor ==
  Cardinality({i \in Accepted(journal) : journal[i].node = "plan"})
    <= 1 + committed["plan"].request

\* code.go:253-257: while the blackboard holds the request for a new plan, no
\* work is done on the old one, though the gate may have handed it on from a
\* snapshot older than the request.
RequestOnRecordIsNotCoded ==
  [][Accepts("code") => ~ Pending(board["plan"])]_gateVars

\* cli/plan.go:361-364: a plan somebody has asked to replace is not coded, by
\* a resume that found it approved still.
ReplacedPlanNotCoded == [][Accepts("code") => approval # "withdrawn"]_gateVars

\* nodes/code/code.go:95-98: reaching the code node with a plan that is not
\* approved is a wiring bug, for the gate should have paused the run first.
CodeIsReachedApproved == pc = "run" /\ at.node = "code" => view["plan"].approved

\* What approve.go says of an edited plan: the gate never goes on with a
\* recorded digest that no longer describes the document the code node is
\* given.
HandedOnAsRecorded ==
  [][Accepts("approve") /\ closing.next = "code" => board["plan"].digest = world]_gateVars

=============================================================================
