----------------------------- MODULE Dispatcher -----------------------------
(***************************************************************************)
(* One run and the processes that dispatch it, one at a time               *)
(* (internal/graph).  A process opens the run, heals what an earlier one   *)
(* left, runs nodes until the run ends or pauses, and may die anywhere.    *)
(*                                                                         *)
(* There is one action per durable write, so a Crash falls between any two *)
(* of them.  A write that fails ends the dispatch with an error and does   *)
(* nothing else, so it too is a Crash, before the write or after it.       *)
(***************************************************************************)
EXTENDS Ledger, FiniteSets

CONSTANTS
  Nodes,          \* the names the registry knows
  Unpriced,       \* the nodes that cannot spend
  Supervisors,    \* the nodes whose spend is their candidate runs'
  Heeding,        \* the nodes that return once their context has ended
  Fields, Values, \* the blackboard
  NewBoard,       \* the blackboard a run is created with
  Worlds,         \* what nodes read and write outside the blackboard
  NewWorld,
  Edits(_),       \* what a person may make of a world, between dispatches
  NodeResults(_, _, _), \* what a node may return, given a blackboard and a world
  Configs,        \* the limits a configuration may set, read at every dispatch
  PauseOnCancel, PauseAfter, Entry, InterruptedFloor,   \* graph.Options
  MaxOpens        \* bound: dispatches of the run

(***************************************************************************)
(* Blackboards and results.  A patch sets each field it holds to a value,  *)
(* whatever the field held.  A result's status is NoStatus when the node   *)
(* never set one, and err says whether Run returned an error: none, one of *)
(* belay's own limits, or another.                                         *)
(***************************************************************************)
Boards  == [Fields -> Values]
Patches == UNION {[S -> Values] : S \in SUBSET Fields}
Results == [err: {"none", "limit", "error"}, status: Statuses \cup {NoStatus},
            next: Successors, patch: Patches, usage: Nat, world: Worlds]

Patched(b, p) == [f \in Fields |-> IF f \in DOMAIN p THEN p[f] ELSE b[f]]

ValidResult(r) == /\ r.status # NoStatus
                  /\ r.status = "ok" => r.next # NoNode

RunStatuses == {"running", "paused", "completed", "failed", "aborted"}
RunStatusFor(s) == IF s = "runnable" THEN "running" ELSE s

ASSUME DispatcherAssumption ==
  /\ Nodes \subseteq Names
  /\ Unpriced \subseteq Nodes
  /\ Supervisors \subseteq Nodes
  /\ Heeding \subseteq Nodes
  /\ NewBoard \in Boards
  /\ NewWorld \in Worlds
  /\ PauseOnCancel \in BOOLEAN
  /\ PauseAfter \in Nat
  /\ Entry \in Names \cup {NoNode}
  /\ InterruptedFloor \in Nat
  /\ MaxOpens \in Nat
  /\ Configs \subseteq [max_usd: Nat, max_steps: Nat]
  /\ \A w \in Worlds : Edits(w) \subseteq Worlds
  /\ \A n \in Nodes, b \in Boards, w \in Worlds : NodeResults(n, b, w) \subseteq Results

VARIABLES
  journal, torn,   \* journal.ndjson; whether it ends in part of a record
  board, hist,     \* state.json: the blackboard, and the Seqs History holds
  snaps,           \* the blackboard snapshots taken, by Seq
  man,             \* manifest.json: status, current node, step, spend
  world, orphan,   \* the workspace; the node whose process outlived its belay
  pc,              \* the dispatching process: down, or what it does next
  at, repeats,     \* its place: state, node and attempt; the Seq a re-run repeats
  view,            \* the blackboard it gave the node
  closing, patch,  \* what settle is writing: the node_finished, and the patch
  mem,             \* the rest of its memory
  opens,           \* bound: dispatches so far
  committed        \* history: the blackboard the accepted results add up to

log   == <<journal, torn>>
files == <<board, hist, snaps, man>>
env   == <<world, orphan, opens>>
exec  == <<view, closing, patch>>
vars  == <<log, files, env, pc, at, repeats, exec, mem, committed>>

(***************************************************************************)
(* The process's memory: the limits it loaded, whether it may advance a    *)
(* paused run, whether its context is cancelled, its ledger, the run's     *)
(* step count, the executions of this dispatch, and how the run is ending. *)
(***************************************************************************)
Idle == [cfg |-> [max_usd |-> 0, max_steps |-> 0], resuming |-> FALSE,
         canceled |-> FALSE, ledger |-> NewLedger, step |-> 0, steps |-> 0,
         ending |-> [event |-> NothingOwed, node |-> NoNode]]

PCs == {"down", "heal", "close", "owed", "check", "loop", "snapshot", "run",
        "patch", "finish", "persist", "end", "ended"}

Nowhere  == Start("runnable", NoNode, 0)
NoRecord == RunMarker(NothingOwed)

Init ==
  /\ journal = <<>> /\ torn = FALSE
  /\ board = NewBoard /\ hist = {} /\ snaps = <<>>
  /\ man = [status |-> "running", node |-> NoNode, step |-> 0, spent |-> 0]
  /\ world = NewWorld /\ orphan = NoNode /\ opens = 0
  /\ pc = "down" /\ at = Nowhere /\ repeats = 0
  /\ view = NewBoard /\ closing = NoRecord /\ patch = <<>> /\ mem = Idle
  /\ committed = NewBoard

\* The process returns, or dies: its memory is gone.
Exit == /\ pc' = "down" /\ at' = Nowhere /\ repeats' = 0
        /\ view' = NewBoard /\ closing' = NoRecord /\ patch' = <<>>
        /\ mem' = Idle

Continue(next) == pc' = next

AppendRecord(r) == journal' = Append(journal, r) /\ UNCHANGED torn

Persist(status, node, step, ledger) ==
  man' = [status |-> status, node |-> node, step |-> step, spent |-> ledger.total]

\* endRun: the marker to append, then the manifest to save.
EndRun(event, node) ==
  /\ pc' = "end"
  /\ mem' = [mem EXCEPT !.ending = [event |-> event, node |-> node]]

(***************************************************************************)
(* dispatch, up to the first write of its own: read the manifest, drop a   *)
(* torn tail, resolve where to resume, rebuild the ledger.  Everything is  *)
(* decided from the records as the last process left them.                 *)
(***************************************************************************)
StartOf(j) ==
  IF Entry # NoNode /\ ~ StartedANode(j)
    THEN Start(ResolveStart(j).state, Entry, 1)
    ELSE ResolveStart(j)

Open(cfg, resuming) ==
  /\ pc = "down" /\ opens < MaxOpens
  /\ Validate(journal)
  /\ opens' = opens + 1
  /\ torn' = FALSE
  /\ at' = StartOf(journal)
  /\ repeats' = IF at'.attempt > 1 THEN AttemptOneSeq(journal, at'.node) ELSE 0
  /\ mem' = [Idle EXCEPT !.cfg = cfg, !.resuming = resuming, !.step = man.step,
                         !.ledger = Rebuild(journal, man.spent, Supervisors)]
  /\ Continue("heal")
  /\ UNCHANGED <<journal, files, world, orphan, exec, committed>>

(***************************************************************************)
(* heal.                                                                   *)
(***************************************************************************)
\* Whether an attempt of n whose spend is unknown is charged an estimate.
estimable(n) == n \notin Unpriced \cup Supervisors

\* Slip: a run's own evidence of what a step costs is left out.
interruptedChargeFloorOnly(l) == InterruptedFloor

interruptedCharge(l) == larger(l.largest, InterruptedFloor)

cutShortCharge(l, n, reported) ==
  IF reported > 0 \/ ~ estimable(n) THEN reported ELSE interruptedCharge(l)

Last(j) == j[Len(j)]

\* Slip: the dead attempt is closed, and what it started left running.
HealWithoutReap ==
  /\ pc = "heal" /\ IsOpen(journal)
  /\ Continue("close")
  /\ UNCHANGED <<log, files, env, at, repeats, exec, mem, committed>>

\* Whatever the dead process left running is killed before the record that
\* would stop a later heal from looking for it.
HealReap ==
  /\ pc = "heal" /\ IsOpen(journal)
  /\ orphan' = NoNode
  /\ Continue("close")
  /\ UNCHANGED <<log, files, world, opens, at, repeats, exec, mem, committed>>

\* Slips: the dead attempt is re-run over its open record; it is closed with
\* a charge this process does not count.
HealWithoutClose ==
  /\ pc = "close"
  /\ Continue("check")
  /\ UNCHANGED <<log, files, env, at, repeats, exec, mem, committed>>

HealCloseUncounted ==
  LET last   == Last(journal)
      charge == IF estimable(last.node) THEN interruptedCharge(mem.ledger) ELSE 0
  IN  /\ pc = "close"
      /\ AppendRecord(InterruptedAttempt(last.node, last.attempt, charge, "crashed"))
      /\ Continue("check")
      /\ UNCHANGED <<files, env, at, repeats, exec, mem, committed>>

HealClose ==
  LET last   == Last(journal)
      charge == IF estimable(last.node) THEN interruptedCharge(mem.ledger) ELSE 0
  IN  /\ pc = "close"
      /\ AppendRecord(InterruptedAttempt(last.node, last.attempt, charge, "crashed"))
      /\ mem' = [mem EXCEPT !.ledger = ChargeTo(@, last.node, charge, Supervisors)]
      /\ Continue("check")
      /\ UNCHANGED <<files, env, at, repeats, exec, committed>>

Owes(j) == /\ j # <<>>
           /\ Last(j).event = "node_finished"
           /\ OwedRunMarker(Last(j)) # NothingOwed

HealOwed ==
  LET event == OwedRunMarker(Last(journal))
  IN  /\ pc = "heal" /\ Owes(journal)
      /\ AppendRecord(RunMarker(event))
      /\ at' = [at EXCEPT !.state = RunStateOf(event)]
      /\ Continue("owed")
      /\ UNCHANGED <<files, env, repeats, exec, mem, committed>>

HealPersist ==
  /\ pc = "owed"
  /\ Persist(RunStatusFor(at.state), at.node, mem.step, mem.ledger)
  /\ Continue("check")
  /\ UNCHANGED <<log, board, hist, snaps, env, at, repeats, exec, mem, committed>>

NothingToHeal ==
  /\ pc = "heal" /\ ~ IsOpen(journal) /\ ~ Owes(journal)
  /\ Continue("check")
  /\ UNCHANGED <<log, files, env, at, repeats, exec, mem, committed>>

(***************************************************************************)
(* checkStartState.                                                        *)
(***************************************************************************)
Refuse ==
  /\ pc = "check"
  /\ \/ at.state \in {"completed", "failed", "aborted"}
     \/ at.state = "paused" /\ ~ mem.resuming
  /\ Exit
  /\ UNCHANGED <<log, files, env, committed>>

ResumePaused ==
  /\ pc = "check" /\ at.state = "paused" /\ mem.resuming
  /\ AppendRecord(RunMarker("run_resumed"))
  /\ Continue("loop")
  /\ UNCHANGED <<files, env, at, repeats, exec, mem, committed>>

Proceed ==
  /\ pc = "check" /\ at.state = "runnable"
  /\ IF journal = <<>> THEN AppendRecord(RunMarker("run_started")) ELSE UNCHANGED log
  /\ Continue("loop")
  /\ UNCHANGED <<files, env, at, repeats, exec, mem, committed>>

(***************************************************************************)
(* loop, up to node_started: the guards, in the order the code asks them.  *)
(***************************************************************************)
spentBefore(l, n) == IF n \in Supervisors THEN Without(l, n) ELSE l

OverBudget(n) == /\ n \notin Unpriced
                 /\ OverCeiling(spentBefore(mem.ledger, n), mem.cfg.max_usd)

StepsSpent == mem.cfg.max_steps > 0 /\ mem.step >= mem.cfg.max_steps

\* The run-level record the loop ends on, or NothingOwed to run the node.
LoopVerdict ==
  CASE at.node = End                    -> "run_completed"
    [] at.node = NoNode                 -> "run_failed"
    [] OTHER -> IF \/ OverBudget(at.node)
                   \/ StepsSpent
                   \/ PauseOnCancel /\ mem.canceled
                  THEN "run_paused"
                  ELSE IF at.node \notin Nodes THEN "run_failed" ELSE NothingOwed

LoopEnds ==
  /\ pc = "loop" /\ LoopVerdict # NothingOwed
  /\ EndRun(LoopVerdict, at.node)
  /\ UNCHANGED <<log, files, env, at, repeats, exec, committed>>

StartNode ==
  /\ pc = "loop" /\ LoopVerdict = NothingOwed
  /\ AppendRecord(NodeStarted(at.node, at.attempt))
  /\ Continue("snapshot")
  /\ UNCHANGED <<files, env, at, repeats, exec, mem, committed>>

(***************************************************************************)
(* blackboardFor: the node is given its own snapshot at attempt 1, and at  *)
(* a later attempt the snapshot of the attempt it repeats.                 *)
(***************************************************************************)
SnapshotKey == IF at.attempt > 1 /\ repeats # 0 THEN repeats ELSE Len(journal)

TakeSnapshot ==
  /\ pc = "snapshot"
  /\ snaps' = [k \in DOMAIN snaps \cup {SnapshotKey} |->
                 IF k \in DOMAIN snaps THEN snaps[k] ELSE board]
  /\ view' = snaps'[SnapshotKey]
  /\ Continue("run")
  /\ UNCHANGED <<log, board, hist, man, env, at, repeats, closing, patch, mem, committed>>

\* notRun: the attempt is closed as one to run again, and charged nothing.
SnapshotFails ==
  /\ pc = "snapshot"
  /\ AppendRecord(InterruptedAttempt(at.node, at.attempt, 0, "notrun"))
  /\ Exit
  /\ UNCHANGED <<files, env, committed>>

(***************************************************************************)
(* execute and settle's verdict.  The deadline is asked first, then the    *)
(* caller's context, then the error, then the result.                      *)
(***************************************************************************)
Verdict(r, timedOut) ==
  IF timedOut THEN "timeout"
  ELSE IF mem.canceled THEN "canceled"
  ELSE IF r.err \in {"limit", "error"} THEN r.err
  ELSE IF ~ ValidResult(r) THEN "invalid"
  ELSE "accepted"

RunsAgain(why) == \/ why \in {"timeout", "limit"}
                  \/ why = "canceled" /\ PauseOnCancel

\* A supervisor reports a running total and is charged what is new in it.
Reported(r) == IF at.node \in Supervisors THEN Unrecorded(mem.ledger, at.node, r.usage)
                                          ELSE r.usage

\* Slip: a node that pauses names no node to resume at.
ResumePointerOkOnly(r) == IF r.status = "ok" THEN r.next ELSE NoNode

ResumePointer(r) == CASE r.status = "ok"     -> r.next
                      [] r.status = "paused" -> at.node
                      [] OTHER               -> NoNode

ClosingRecord(r, why) ==
  LET charge == IF why \in {"timeout", "canceled"}
                  THEN cutShortCharge(mem.ledger, at.node, Reported(r))
                  ELSE Reported(r)
  IN  CASE why = "accepted" -> NodeFinished(at.node, at.attempt, r.status,
                                            ResumePointer(r), charge, why)
        [] RunsAgain(why)   -> InterruptedAttempt(at.node, at.attempt, charge, why)
        [] OTHER -> NodeFinished(at.node, at.attempt,
                                 IF why = "canceled" THEN "aborted" ELSE "failed",
                                 NoNode, charge, why)

\* Slip: the completion is journalled before the patch is applied.
SettleJournalFirst(r, timedOut) ==
  LET why == Verdict(r, timedOut)
  IN  /\ closing' = ClosingRecord(r, why)
      /\ patch' = IF why = "accepted" THEN r.patch ELSE <<>>
      /\ mem' = [mem EXCEPT !.steps = @ + 1,
                            !.step = IF why = "accepted" THEN @ + 1 ELSE @,
                            !.ledger = ChargeTo(@, at.node, closing'.usage, Supervisors)]
      /\ Continue("finish")
      /\ world' = r.world
      /\ UNCHANGED <<log, files, orphan, opens, at, repeats, view, committed>>

\* An accepted execution becomes one of the run's steps now, and is charged
\* once its patch is applied; every other one is charged now.
Settle(r, timedOut) ==
  LET why == Verdict(r, timedOut)
      rec == ClosingRecord(r, why)
  IN  /\ closing' = rec
      /\ patch' = IF why = "accepted" THEN r.patch ELSE <<>>
      /\ mem' = IF why = "accepted"
                  THEN [mem EXCEPT !.steps = @ + 1, !.step = @ + 1]
                  ELSE [mem EXCEPT !.steps = @ + 1,
                                   !.ledger = ChargeTo(@, at.node, rec.usage, Supervisors)]
      /\ Continue(IF why = "accepted" THEN "patch" ELSE "finish")
      /\ world' = r.world
      /\ UNCHANGED <<log, files, orphan, opens, at, repeats, view, committed>>

(***************************************************************************)
(* Run is called and waited for.  Nothing stops a node but itself: its     *)
(* context ends at graph.node_timeout or with the caller's, and a node     *)
(* that heeds it, as node.go asks of every node, then returns something,   *)
(* if only an error.  One that does not heed it and hangs holds the        *)
(* dispatch for ever.                                                      *)
(***************************************************************************)
Silent == [err |-> "error", status |-> NoStatus, next |-> NoNode, patch |-> <<>>,
           usage |-> 0, world |-> world]

\* What a node may come back with, its context ended or not.
MayReturn(ended) == NodeResults(at.node, view, world) \cup
                    (IF ended /\ at.node \in Heeding THEN {Silent} ELSE {})

NodeReturns ==
  /\ pc = "run"
  /\ \E r \in MayReturn(mem.canceled) : Settle(r, FALSE)

\* Slip: the deadline is set on a context the node is not given, so a node
\* is late or not, and never told.
NodeTimesOutUntold ==
  /\ pc = "run" /\ at.node \notin Supervisors
  /\ \E r \in MayReturn(FALSE) : Settle(r, TRUE)

\* The deadline is asked for once the node has returned, and then counts
\* for more than what it returned.  A supervisor has none.
NodeTimesOut ==
  /\ pc = "run" /\ at.node \notin Supervisors
  /\ \E r \in MayReturn(TRUE) : Settle(r, TRUE)

\* The caller's context, cancelled at any moment of a dispatch.
Cancel ==
  /\ pc # "down" /\ ~ mem.canceled
  /\ mem' = [mem EXCEPT !.canceled = TRUE]
  /\ UNCHANGED <<log, files, env, pc, at, repeats, exec, committed>>

(***************************************************************************)
(* settle's writes: the patch, then node_finished, then the manifest or    *)
(* the end of the run.                                                     *)
(***************************************************************************)
ApplyPatch ==
  /\ pc = "patch"
  /\ board' = Patched(board, patch)
  /\ hist' = hist \cup {Len(journal)}
  /\ mem' = [mem EXCEPT !.ledger = ChargeTo(@, at.node, closing.usage, Supervisors)]
  /\ Continue("finish")
  /\ UNCHANGED <<log, snaps, man, env, at, repeats, exec, committed>>

\* The record that ends the run after closing, or NothingOwed to go on.
EndingOf(r) ==
  CASE Interrupted(r) \/ r.status = "paused"      -> "run_paused"
    [] r.status = "failed"                        -> "run_failed"
    [] r.status = "aborted" /\ ~ Interrupted(r)   -> "run_aborted"
    [] OTHER -> IF r.next = End THEN "run_completed" ELSE NothingOwed

FinishNode ==
  LET event == EndingOf(closing)
  IN  /\ pc = "finish"
      /\ AppendRecord(closing)
      /\ committed' = IF closing.note = "accepted" THEN Patched(committed, patch)
                                                   ELSE committed
      /\ IF event = NothingOwed
           THEN Continue("persist") /\ UNCHANGED mem
           ELSE EndRun(event, IF event = "run_completed" THEN End ELSE at.node)
      /\ UNCHANGED <<files, env, at, repeats, exec>>

\* The run goes on to the next node, or pauses before it when this dispatch
\* was asked to run only so many.
PersistRunning ==
  /\ pc = "persist"
  /\ Persist("running", closing.next, mem.step, mem.ledger)
  /\ at' = Start("runnable", closing.next, 1)
  /\ repeats' = 0
  /\ view' = NewBoard /\ closing' = NoRecord /\ patch' = <<>>
  /\ IF PauseAfter > 0 /\ mem.steps >= PauseAfter
       THEN EndRun("run_paused", closing.next)
       ELSE Continue("loop") /\ UNCHANGED mem
  /\ UNCHANGED <<log, board, hist, snaps, env, committed>>

\* Slip: the manifest says the run ended before the journal does.
EndManifestFirst ==
  /\ pc = "end"
  /\ Persist(RunStatusFor(RunStateOf(mem.ending.event)), mem.ending.node,
             mem.step, mem.ledger)
  /\ Continue("ended")
  /\ UNCHANGED <<log, board, hist, snaps, env, at, repeats, exec, mem, committed>>

EndMark ==
  /\ pc = "end"
  /\ AppendRecord(RunMarker(mem.ending.event))
  /\ Continue("ended")
  /\ UNCHANGED <<files, env, at, repeats, exec, mem, committed>>

EndPersist ==
  /\ pc = "ended"
  /\ Persist(RunStatusFor(RunStateOf(mem.ending.event)), mem.ending.node,
             mem.step, mem.ledger)
  /\ Exit
  /\ UNCHANGED <<log, board, hist, snaps, env, committed>>

(***************************************************************************)
(* The process dies.  A death while a record is being written may leave    *)
(* part of it behind; one while a node runs may leave what the node        *)
(* started running, and any part of its work done.                         *)
(***************************************************************************)
Appending ==
  \/ pc \in {"close", "snapshot", "finish", "end"}
  \/ pc = "heal" /\ Owes(journal)
  \/ pc = "check" /\ journal = <<>>
  \/ pc = "check" /\ at.state = "paused" /\ mem.resuming
  \/ pc = "loop" /\ LoopVerdict = NothingOwed

Crash ==
  /\ pc # "down"
  /\ torn' \in IF Appending THEN BOOLEAN ELSE {torn}
  /\ IF pc = "run"
       THEN /\ orphan' \in {orphan, at.node}
            /\ world' \in {world} \cup
                 {r.world : r \in NodeResults(at.node, view, world)}
       ELSE UNCHANGED <<orphan, world>>
  /\ Exit
  /\ UNCHANGED <<journal, files, opens, committed>>

\* A process that outlived its belay carries on with its node's work; and a
\* person is at work in the workspace between dispatches.
OrphanWrites ==
  /\ orphan # NoNode
  /\ \E b \in Boards : world' \in {r.world : r \in NodeResults(orphan, b, world)}
  /\ UNCHANGED <<log, files, orphan, opens, pc, at, repeats, exec, mem, committed>>

PersonEdits ==
  /\ pc = "down"
  /\ world' \in Edits(world)
  /\ UNCHANGED <<log, files, orphan, opens, pc, at, repeats, exec, mem, committed>>

\* What the process itself does, once started.
Advance ==
  \/ HealReap \/ HealClose \/ HealOwed \/ HealPersist \/ NothingToHeal
  \/ Refuse \/ ResumePaused \/ Proceed
  \/ LoopEnds \/ StartNode \/ TakeSnapshot \/ NodeReturns \/ NodeTimesOut
  \/ ApplyPatch \/ FinishNode \/ PersistRunning \/ EndMark \/ EndPersist

Next ==
  \/ \E cfg \in Configs, resuming \in BOOLEAN : Open(cfg, resuming)
  \/ Advance
  \/ SnapshotFails \/ Cancel \/ Crash \/ OrphanWrites \/ PersonEdits

Spec == Init /\ [][Next]_vars

\* The process is scheduled until it exits, and a node that may return does.
FairSpec == Spec /\ WF_vars(Advance)

-----------------------------------------------------------------------------
(***************************************************************************)
(* Properties.                                                             *)
(***************************************************************************)
Memories == [cfg: [max_usd: Nat, max_steps: Nat], resuming: BOOLEAN,
             canceled: BOOLEAN, ledger: Ledgers, step: Nat, steps: Nat,
             ending: [event: RunEvents, node: Successors]]

Places == [state: RunStates, node: Successors, attempt: Nat]

\* Every variable holds what the file or the memory it stands for can hold.
TypeOK ==
  /\ journal \in Seq(Record) /\ torn \in BOOLEAN
  /\ board \in Boards /\ hist \in SUBSET (1 .. Len(journal))
  /\ DOMAIN snaps \subseteq 1 .. Len(journal)
  /\ \A k \in DOMAIN snaps : snaps[k] \in Boards
  /\ man \in [status: RunStatuses, node: Successors, step: Nat, spent: Nat]
  /\ world \in Worlds /\ orphan \in Nodes \cup {NoNode} /\ opens \in Nat
  /\ pc \in PCs /\ at \in Places /\ repeats \in Nat
  /\ view \in Boards /\ closing \in Record /\ patch \in Patches
  /\ mem \in Memories /\ committed \in Boards

\* No crash, at any point of a dispatch or of the recovery from an earlier
\* one, leaves a journal the next Open would refuse (journal.Validate).
JournalValid == Validate(journal)

\* No record is ever written after part of one: Open drops a torn tail
\* before anything is appended (ndjson healing).
NoAppendOverTornTail == [][journal' # journal => ~ torn]_vars

\* Apply the patch, then journal the completion: an execution the journal
\* calls accepted has its patch and its History entry in state.json.
PatchBeforeJournal ==
  \A i \in FinishedAt(journal) : journal[i].note = "accepted" => i - 1 \in hist

\* A node is given the blackboard the accepted results add up to: never one
\* that holds the patch of an attempt that died before its completion was
\* journalled, so nothing relative to the view is applied twice.
ViewIsCommitted == pc = "run" => view = committed

\* What that asks of the nodes, for no snapshot undoes a patch that was
\* applied: a result the run goes on from sets every field that another
\* attempt of the visit, given the same blackboard, may have changed.
RunsOn(r)  == r.err = "none" /\ ValidResult(r) /\ r.status \in {"ok", "paused"}
Changed(b, r) == {f \in DOMAIN r.patch : r.patch[f] # b[f]}
ResultsSupersede ==
  \A n \in Nodes, b \in Boards, w1, w2 \in Worlds :
    \A r1 \in NodeResults(n, b, w1), r2 \in NodeResults(n, b, w2) :
      r1.err = "none" /\ ValidResult(r1) /\ RunsOn(r2) => Changed(b, r1) \subseteq DOMAIN r2.patch


\* An attempt after the first re-runs the attempt just before it, which was
\* closed as interrupted; any other start of a node is an attempt 1.
LastClosedBefore(i) == journal[ClosedBefore(journal, i)]
AttemptsCount ==
  \A i \in StartedAt(journal) :
    IF \/ \A k \in FinishedAt(journal) : k > i
       \/ ~ Interrupted(LastClosedBefore(i))
      THEN journal[i].attempt = 1
      ELSE /\ journal[i].node = LastClosedBefore(i).node
           /\ journal[i].attempt = LastClosedBefore(i).attempt + 1

\* What a process that died left running is dead before another node runs.
NoOrphanBesideANode == pc = "run" => orphan = NoNode

\* The loop always knows where it is: recovery never reaches the state that
\* ErrNoResumePoint stands for.
AlwaysAResumePoint == pc = "loop" => at.node # NoNode

\* The state a dispatch finds a run in, the marker it owes included.
StateOf(j) == IF Owes(j) THEN RunStateOf(OwedRunMarker(Last(j))) ELSE StartOf(j).state

\* A pause holds: only a dispatch asked to resume takes a run past it, also
\* when the process died before it could record the pause.
Paused(j) == /\ j # <<>>
             /\ \/ Last(j).event = "run_paused"
                \/ Last(j).event = "node_finished" /\ Last(j).status = "paused"
PauseHolds == [][Paused(journal) /\ ~ Paused(journal') => mem.resuming]_vars

\* The manifest never claims an end the journal does not.
ManifestNotAhead ==
  man.status \in {"completed", "failed", "aborted"} => StateOf(journal) = man.status

\* graph/dispatcher.go, heal: recovery always knows where it is.  An attempt
\* re-runs the one just before it, the loop has a node to go on at, and the
\* manifest claims no end the journal does not.
PlaceIsKept == AttemptsCount /\ AlwaysAResumePoint /\ ManifestNotAhead

\* The spend in memory is the spend a process that died here would leave
\* behind: a crash gives back no money, and charges none twice.
LedgerIsReplay ==
  pc \in {"check", "loop", "snapshot", "run", "persist", "end", "ended"} =>
    mem.ledger = Rebuild(journal, man.spent, Supervisors)

\* No node that spends is started once the run's journal records more than
\* the ceiling in force.  What a supervisor has spent itself is its
\* candidates' and is bounded by their own ceilings.
CeilingHonoured ==
  [][\A n \in Nodes \ Unpriced :
       /\ mem.cfg.max_usd > 0
       /\ journal' = Append(journal, NodeStarted(n, at.attempt))
       => spentBefore(Replayed(journal, Supervisors), n).total <= mem.cfg.max_usd]_vars

\* An attempt a kill cut short is charged at least what the costliest step
\* of the run cost before it, so being killed and resumed is never cheaper
\* than running on.
KillsAreCharged ==
  \A i \in FinishedAt(journal) :
    journal[i].note = "crashed" /\ estimable(journal[i].node) =>
      \A k \in FinishedAt(journal) :
        k < i /\ journal[k].node \notin Supervisors => journal[k].usage <= journal[i].usage

\* budget/ledger.go: what was spent outlives every death, each of which is
\* charged for what nobody can know it spent.
SpendIsKept == LedgerIsReplay /\ KillsAreCharged

Accepted(j) == {i \in FinishedAt(j) : j[i].note = "accepted"}

\* graph/node.go:137-139, Run "must respect ctx cancellation": where every
\* node does, every dispatch ends, though nodes hang: at the end of the graph,
\* at a limit, at a pause, or with an error.
DispatchEnds == (pc # "down") ~> (pc = "down")

\* The run the journal records is a run of RunSpec: what the crashes, the
\* recoveries and the interruptions leave is what nodes run once each, one
\* after another, would have left.
Run == INSTANCE RunSpec WITH node <- StartOf(journal).node, board <- committed,
                             status <- StateOf(journal)
RefinesRunSpec == Run!Spec

=============================================================================
