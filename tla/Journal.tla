------------------------------ MODULE Journal ------------------------------
(***************************************************************************)
(* A run's journal (internal/journal): the append-only record of what its  *)
(* dispatcher did, and the pure functions every resume is decided by.      *)
(*                                                                         *)
(* A journal is a sequence of records, and a record's seq is its position, *)
(* which is what journal.Validate demands of a file and journal.Append     *)
(* gives out.  Left out: timestamps, durations, encoding.  A record's note *)
(* is kept as the reason it gives, not as a sentence.                      *)
(***************************************************************************)
EXTENDS Naturals, Sequences

CONSTANT Names   \* the node names a journal may hold

NoNode    == "none"
End       == "END"
FirstNode == "plan"

\* Names are what Registry.Register accepts: never empty and never END.
ASSUME NamesAssumption == /\ NoNode \notin Names
                          /\ End \notin Names
                          /\ FirstNode \in Names

(***************************************************************************)
(* Records.                                                                *)
(***************************************************************************)
RunEvents   == {"run_started", "run_resumed", "run_paused", "run_completed",
                "run_failed", "run_aborted"}
Events      == RunEvents \cup {"node_started", "node_finished"}
Statuses    == {"ok", "failed", "paused", "aborted"}
NoStatus    == "none"
RunStates   == {"runnable", "paused", "completed", "failed", "aborted"}
Successors  == Names \cup {NoNode, End}

\* Why a node_finished was written: a Result the dispatcher accepted, or the
\* path that closed the attempt without one.
Notes == {"none", "accepted", "crashed", "timeout", "canceled", "limit",
          "error", "invalid", "notrun"}

Record == [event: Events, node: Names \cup {NoNode}, attempt: Nat,
           status: Statuses \cup {NoStatus}, next: Successors, usage: Nat,
           note: Notes]

NodeStarted(n, a) ==
  [event |-> "node_started", node |-> n, attempt |-> a, status |-> NoStatus,
   next |-> NoNode, usage |-> 0, note |-> "none"]

NodeFinished(n, a, st, nx, u, why) ==
  [event |-> "node_finished", node |-> n, attempt |-> a, status |-> st,
   next |-> nx, usage |-> u, note |-> why]

RunMarker(e) ==
  [event |-> e, node |-> NoNode, attempt |-> 0, status |-> NoStatus,
   next |-> NoNode, usage |-> 0, note |-> "none"]

\* The node_finished that closes an attempt the dispatcher will run again.
InterruptedAttempt(n, a, u, why) == NodeFinished(n, a, "aborted", n, u, why)

Interrupted(r) == /\ r.event = "node_finished"
                  /\ r.status = "aborted"
                  /\ r.next # NoNode
                  /\ r.next = r.node

(***************************************************************************)
(* Validation.  scan keeps the one open node_started and refuses any       *)
(* record but its node_finished while there is one, so whether a record is *)
(* acceptable depends on the record just before it and on nothing else.    *)
(***************************************************************************)
IsOpen(j) == j # <<>> /\ j[Len(j)].event = "node_started"

MayFollow(prev, r) ==
  IF r.event = "node_finished"
    THEN /\ prev.event = "node_started"
         /\ prev.node = r.node
         /\ prev.attempt = r.attempt
    ELSE prev.event # "node_started"

Validate(j) ==
  /\ j # <<>> => j[1].event # "node_finished"
  /\ \A i \in 1 .. Len(j) - 1 : MayFollow(j[i], j[i + 1])

(***************************************************************************)
(* Where a run resumes.                                                    *)
(***************************************************************************)
FinishedAt(j) == {i \in 1 .. Len(j) : j[i].event = "node_finished"}

LastFinished(j) ==
  CHOOSE i \in FinishedAt(j) : \A k \in FinishedAt(j) : k <= i

RunStateOf(e) ==
  CASE e = "run_paused"    -> "paused"
    [] e = "run_completed" -> "completed"
    [] e = "run_failed"    -> "failed"
    [] e = "run_aborted"   -> "aborted"
    [] OTHER               -> "runnable"

Start(s, n, a) == [state |-> s, node |-> n, attempt |-> a]

\* Slip: an attempt closed as interrupted is re-run under its own number.
ResolveStartSameAttempt(j) ==
  IF IsOpen(j)
    THEN Start("runnable", j[Len(j)].node, j[Len(j)].attempt + 1)
    ELSE LET state == IF j = <<>> THEN "runnable" ELSE RunStateOf(j[Len(j)].event)
         IN  IF FinishedAt(j) = {}
               THEN Start(state, FirstNode, 1)
               ELSE Start(state, j[LastFinished(j)].next, 1)

ResolveStart(j) ==
  IF IsOpen(j)
    THEN Start("runnable", j[Len(j)].node, j[Len(j)].attempt + 1)
    ELSE LET state == IF j = <<>> THEN "runnable" ELSE RunStateOf(j[Len(j)].event)
             last  == j[LastFinished(j)]
         IN  IF FinishedAt(j) = {}
               THEN Start(state, FirstNode, 1)
               ELSE Start(state, last.next,
                          IF Interrupted(last) THEN last.attempt + 1 ELSE 1)

\* Whether any record shows a node running: until one does, the dispatcher's
\* Entry option decides where the run begins.
StartedANode(j) ==
  \E i \in 1 .. Len(j) : j[i].event \in {"node_started", "node_finished"}

(***************************************************************************)
(* The seq of the attempt-1 node_started a re-run of n repeats, 0 for      *)
(* none.                                                                   *)
(***************************************************************************)
AttemptOnes(j, n) ==
  {i \in 1 .. Len(j) : j[i].event = "node_started" /\ j[i].node = n /\ j[i].attempt = 1}

\* Slip: the search runs forwards and stops at the node's first visit.
AttemptOneSeqFirst(j, n) ==
  IF AttemptOnes(j, n) = {}
    THEN 0
    ELSE CHOOSE i \in AttemptOnes(j, n) : \A k \in AttemptOnes(j, n) : i <= k

AttemptOneSeq(j, n) ==
  IF AttemptOnes(j, n) = {}
    THEN 0
    ELSE CHOOSE i \in AttemptOnes(j, n) : \A k \in AttemptOnes(j, n) : k <= i

(***************************************************************************)
(* The run-level record a node_finished that ended a run owes, or          *)
(* "run_started" (which is never owed) for none.                           *)
(***************************************************************************)
NothingOwed == "run_started"

\* Slips: a crash after a pause, or after a failure, owes nothing.
OwedUnlessPaused(r) ==
  IF Interrupted(r) THEN NothingOwed
  ELSE CASE r.status = "failed"   -> "run_failed"
         [] r.status = "aborted"  -> "run_aborted"
         [] OTHER                 -> NothingOwed

OwedUnlessFailed(r) ==
  IF Interrupted(r) THEN NothingOwed
  ELSE CASE r.status = "aborted"  -> "run_aborted"
         [] r.status = "paused"   -> "run_paused"
         [] OTHER                 -> NothingOwed

OwedRunMarker(r) ==
  IF Interrupted(r) THEN NothingOwed
  ELSE CASE r.status = "failed"   -> "run_failed"
         [] r.status = "aborted"  -> "run_aborted"
         [] r.status = "paused"   -> "run_paused"
         [] OTHER                 -> NothingOwed

(***************************************************************************)
(* The executions of nodes, and the node_finished that closed the one      *)
(* before.                                                                 *)
(***************************************************************************)
StartedAt(j) == {i \in 1 .. Len(j) : j[i].event = "node_started"}

ClosedBefore(j, i) ==
  CHOOSE k \in FinishedAt(j) : /\ k < i
                               /\ \A l \in FinishedAt(j) : l < i => l <= k

=============================================================================
