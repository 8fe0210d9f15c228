------------------------------- MODULE Queue -------------------------------
(***************************************************************************)
(* The goal queue (internal/queue, internal/cli/queue.go): one log that    *)
(* worker processes and a person's commands all append to, two locks, and  *)
(* one run per goal, in a copy of its own.                                 *)
(*                                                                         *)
(* Store.append reads, folds, checks and writes under the log lock, and a  *)
(* line it was cut short in is left out by every read and healed by the    *)
(* next append: an append happens at once or not at all.  A run is what    *)
(* its manifest and journal say to the queue, and one dispatch of it is a  *)
(* begin and an end; Dispatcher models what is in between.                 *)
(***************************************************************************)
EXTENDS Naturals, Sequences, FiniteSets

CONSTANTS Workers,     \* processes that may be belay queue start
          People,      \* terminals from which goals are added and approved
          MaxGoals,    \* bound: goals ever added
          MaxStarts,   \* bound: starts of the queue
          MaxCrashes   \* bound: worker processes that die

Goals   == 1 .. MaxGoals
Runs    == 1 .. MaxGoals    \* a claim names a new run, and a goal is claimed once
NoRun   == 0
Nobody  == "nobody"

ASSUME QueueAssumption == /\ MaxGoals \in Nat /\ MaxStarts \in Nat /\ MaxCrashes \in Nat
                          /\ Nobody \notin Workers

(***************************************************************************)
(* Goals and their moves.  The log is kept as what it folds to: a queue is *)
(* its entries, an entry's id its place, and how the last start stands.    *)
(***************************************************************************)
Settled == {"waiting", "finished", "failed", "stopped", "paused"}
States  == {"queued", "removed", "claimed", "approved"} \cup Settled
Entry   == [state: States, run: Runs \cup {NoRun}, no_approval: BOOLEAN]
Starts  == {"never", "working", "ended"}   \* Last: a start ended or unended

\* Slip: a claim is believed whatever became of the goal since.
MovesClaimAnything(from, event) ==
  CASE event = "removed"  -> from = "queued"
    [] event = "claimed"  -> TRUE
    [] event = "settled"  -> from \in {"claimed", "approved"}
    [] event = "approved" -> from = "waiting"

\* Entry.apply: the moves a goal can make, read back or about to be written.
Moves(from, event) ==
  CASE event \in {"removed", "claimed"} -> from = "queued"
    [] event = "settled"  -> from \in {"claimed", "approved"}
    [] event = "approved" -> from = "waiting"

(***************************************************************************)
(* The state.                                                              *)
(***************************************************************************)
VARIABLES queue,    \* the entries queue.ndjson folds to
          last,     \* and its last start
          lock,     \* who holds worker.lock
          worker,   \* each worker process: where it is, and what it decided
          run,      \* each goal's copy and run, on disk
          person,   \* each person's command: where it is
          starts, crashes, cut

\* starts and crashes count against their bounds.  cut: the last worker to
\* record starting died before it recorded stopping.
vars == <<queue, last, lock, worker, run, person, starts, crashes, cut>>
counts == <<starts, crashes, cut>>

\* missing: no directory.  copy: one without a manifest, whole or not, so not
\* a run.  gone: a run a person deleted.
Ended     == {"completed", "failed", "aborted"}
RunStates == Ended \cup {"missing", "copy", "gone", "running", "paused"}

\* asked: the last node to finish was the gate, pausing.  pause: what paused
\* the run, which its journal says only in words.
Pauses   == {"none", "gate", "limit", "canceled"}
RunFiles == [status: RunStates, asked: BOOLEAN, pause: Pauses, approved: BOOLEAN]
NoRunYet == [status |-> "missing", asked |-> FALSE, pause |-> "none", approved |-> FALSE]

Exists(r)    == run[r].status \in Ended \cup {"running", "paused"}
GateAsked(r) == run[r].status = "paused" /\ run[r].asked

Idle     == [pc |-> "idle", goal |-> 0, to |-> "none", stop |-> "none", cancelled |-> FALSE]
AtRest   == [pc |-> "idle", goal |-> 0, told |-> Nobody]
InState(s)    == {i \in DOMAIN queue : queue[i].state = s}
RunIn(w)      == queue[worker[w].goal].run

Init == /\ queue = <<>> /\ last = "never" /\ lock = Nobody
        /\ worker = [w \in Workers |-> Idle]
        /\ run = [r \in Runs |-> NoRunYet]
        /\ person = [p \in People |-> AtRest]
        /\ starts = 0 /\ crashes = 0 /\ cut = FALSE

\* change: under the log lock, refused unless the goal can make the move.
May(i, event)   == Moves(queue[i].state, event)
Change(i, s)    == queue' = [queue EXCEPT ![i].state = s]

(***************************************************************************)
(* A worker process.  Every step begins from the disk.                     *)
(***************************************************************************)
At(w, pc)      == worker[w].pc = pc
Goes(w, pc)    == worker' = [worker EXCEPT ![w].pc = pc]
Loops(w)       == worker' = [worker EXCEPT ![w] = [Idle EXCEPT !.pc = "loop",
                                                            !.cancelled = worker[w].cancelled]]
Ends(w, why)   == worker' = [worker EXCEPT ![w].pc = "ending", ![w].stop = why]

\* A step that cannot be done: an interruption if it was cancelled part way.
GivesUp(w) == Ends(w, IF worker[w].cancelled THEN "interrupted" ELSE "failed")

Runnable == InState("queued") \cup InState("claimed") \cup InState("approved")

StartTheQueue(w) ==
  /\ At(w, "idle") /\ Runnable # {} /\ starts < MaxStarts
  /\ worker' = [worker EXCEPT ![w] = [Idle EXCEPT !.pc = "starting"]]
  /\ starts' = starts + 1
  /\ UNCHANGED <<queue, last, lock, run, person, crashes, cut>>

\* Slip: the lock is a courtesy.
LockWorkerShared(w) ==
  /\ At(w, "starting")
  /\ lock' = w /\ Goes(w, "begin")
  /\ UNCHANGED <<queue, last, run, person, counts>>

LockWorker(w) ==
  /\ At(w, "starting")
  /\ IF lock = Nobody THEN lock' = w /\ Goes(w, "begin")
                      ELSE Goes(w, "idle") /\ UNCHANGED lock
  /\ UNCHANGED <<queue, last, run, person, counts>>

BeginWork(w) ==
  /\ At(w, "begin")
  /\ last' = "working" /\ Loops(w)
  /\ cut' = FALSE
  /\ UNCHANGED <<queue, lock, run, person, starts, crashes>>

First(goals) == CHOOSE i \in goals : \A j \in goals : i <= j

endedAs(status) ==
  CASE status = "completed" -> "finished"
    [] status = "failed"    -> "failed"
    [] status = "aborted"   -> "stopped"

Decision(pc, i, to) == [pc |-> pc, goal |-> i, to |-> to]

\* Slip: any pause is the gate's.
claimedNextByStatus(i, r) ==
  IF ~ Exists(r)                   THEN Decision("create", i, "none")
  ELSE IF run[r].status \in Ended  THEN Decision("settle", i, endedAs(run[r].status))
  ELSE IF run[r].status = "paused" THEN Decision("settle", i, "waiting")
  ELSE Decision("drive", i, "none")

claimedNext(i, r) ==
  IF ~ Exists(r)                  THEN Decision("create", i, "none")
  ELSE IF run[r].status \in Ended THEN Decision("settle", i, endedAs(run[r].status))
  ELSE IF GateAsked(r)            THEN Decision("settle", i, "waiting")
  ELSE Decision("drive", i, "none")

\* Slip: a run that is gone is made again.
approvedNextRemakes(i, r) ==
  IF ~ Exists(r)                  THEN Decision("create", i, "none")
  ELSE IF run[r].status \in Ended THEN Decision("settle", i, endedAs(run[r].status))
  ELSE Decision("drive", i, "none")

approvedNext(i, r) ==
  IF ~ Exists(r)                  THEN Decision("settle", i, "stopped")
  ELSE IF run[r].status \in Ended THEN Decision("settle", i, endedAs(run[r].status))
  ELSE Decision("drive", i, "none")

NextStep ==
  IF InState("claimed") # {}
    THEN LET i == First(InState("claimed")) IN claimedNext(i, queue[i].run)
  ELSE IF InState("approved") # {}
    THEN LET i == First(InState("approved")) IN approvedNext(i, queue[i].run)
  ELSE IF InState("queued") # {}
    THEN Decision("claim", First(InState("queued")), "none")
  ELSE Decision("ending", 0, "none")

Decide(w) ==
  LET d == NextStep
  IN  /\ At(w, "loop")
      /\ IF worker[w].cancelled THEN Ends(w, "interrupted")
         ELSE worker' = [worker EXCEPT ![w] = [@ EXCEPT !.pc = d.pc, !.goal = d.goal, !.to = d.to,
                           !.stop = IF d.pc = "ending" THEN "drained" ELSE "none"]]
      /\ UNCHANGED <<queue, last, lock, run, person, counts>>

\* The claim names the run and its copy before either exists.
NewRunID == Cardinality({i \in DOMAIN queue : queue[i].run # NoRun}) + 1

Claim(w) ==
  LET i == worker[w].goal
  IN  /\ At(w, "claim")
      /\ IF May(i, "claimed") /\ InState("claimed") = {}
           THEN /\ queue' = [queue EXCEPT ![i].state = "claimed", ![i].run = NewRunID]
                /\ Loops(w)
           ELSE GivesUp(w) /\ UNCHANGED queue
      /\ UNCHANGED <<last, lock, run, person, counts>>

\* create: look again, clear what a crash left, copy, and make the run, whose
\* manifest is written last.
LookAgain(w) ==
  /\ At(w, "create")
  /\ IF Exists(RunIn(w)) THEN GivesUp(w) ELSE Goes(w, "reclaim")
  /\ UNCHANGED <<queue, last, lock, run, person, counts>>

Reclaim(w) ==
  /\ At(w, "reclaim")
  /\ run' = [run EXCEPT ![RunIn(w)] = NoRunYet]
  /\ Goes(w, "copy")
  /\ UNCHANGED <<queue, last, lock, person, counts>>

Copy(w) ==
  /\ At(w, "copy")
  /\ run' = [run EXCEPT ![RunIn(w)].status = "copy"]
  /\ Goes(w, "make")
  /\ UNCHANGED <<queue, last, lock, person, counts>>

CreateRun(w) ==
  /\ At(w, "make")
  /\ IF Exists(RunIn(w)) THEN GivesUp(w) /\ UNCHANGED run
     ELSE Loops(w) /\ run' = [run EXCEPT ![RunIn(w)].status = "running"]
  /\ UNCHANGED <<queue, last, lock, person, counts>>

\* Drive: one dispatch of the run, always as a resume.
Drive(w) ==
  /\ At(w, "drive")
  /\ run' = [run EXCEPT ![RunIn(w)].status = "running"]
  /\ Goes(w, "driving")
  /\ UNCHANGED <<queue, last, lock, person, counts>>

Paused(f, asked, why) == [f EXCEPT !.status = "paused", !.asked = asked, !.pause = why]

\* goalOutcome: the state a dispatch that was not interrupted settles its goal in.
goalOutcome(f) == IF f.status \in Ended THEN endedAs(f.status)
                  ELSE IF f.asked THEN "waiting" ELSE "paused"

\* How a dispatch may leave the run.  An approval in the run, or a goal added
\* with --no-approval, lets it past the gate.  A limit met before the gate runs
\* again leaves the gate's pause the last a node did.
Leaves(f, no) ==
  {[NoRunYet EXCEPT !.status = s] : s \in Ended}
    \cup {Paused(f, asked, "limit") : asked \in {FALSE, f.asked}}
    \cup (IF no \/ f.approved THEN {} ELSE {Paused(f, TRUE, "gate")})

Dispatched(w) ==
  LET r == RunIn(w)
  IN  /\ At(w, "driving")
      /\ \E f \in Leaves(run[r], queue[worker[w].goal].no_approval) :
           /\ run' = [run EXCEPT ![r] = f]
           /\ worker' = [worker EXCEPT ![w].pc = "settle", ![w].to = goalOutcome(f)]
      /\ UNCHANGED <<queue, last, lock, person, counts>>

\* A Ctrl-C pauses the run and settles nothing.  A run stopped before its gate
\* ran again still ends in the gate's last pause.
DispatchInterrupted(w) ==
  LET r == RunIn(w)
  IN  /\ At(w, "driving") /\ worker[w].cancelled
      /\ \E asked \in {FALSE, run[r].asked} :
           run' = [run EXCEPT ![r] = Paused(@, asked, "canceled")]
      /\ Ends(w, "interrupted")
      /\ UNCHANGED <<queue, last, lock, person, counts>>

\* A copy or a run that cannot be made or driven.
StepFails(w) ==
  /\ worker[w].pc \in {"reclaim", "copy", "make", "drive", "driving"}
  /\ GivesUp(w)
  /\ UNCHANGED <<queue, last, lock, run, person, counts>>

\* Slip: a goal stopped at a limit is not settled, as though it would pass.
SettleExceptPaused(w) ==
  /\ At(w, "settle")
  /\ IF worker[w].to = "paused" THEN UNCHANGED queue ELSE Change(worker[w].goal, worker[w].to)
  /\ Loops(w)
  /\ UNCHANGED <<last, lock, run, person, counts>>

Settle(w) ==
  /\ At(w, "settle")
  /\ IF May(worker[w].goal, "settled")
       THEN Change(worker[w].goal, worker[w].to) /\ Loops(w)
       ELSE GivesUp(w) /\ UNCHANGED queue
  /\ UNCHANGED <<last, lock, run, person, counts>>

\* Slip: the queue is let go of before the stop is recorded.
EndWorkUnlocked(w) ==
  /\ At(w, "ending")
  /\ \/ lock = w /\ lock' = Nobody /\ UNCHANGED <<last, worker>>
     \/ lock # w /\ last' = "ended" /\ worker' = [worker EXCEPT ![w] = Idle] /\ UNCHANGED lock
  /\ UNCHANGED <<queue, run, person, counts>>

EndWork(w) ==
  /\ At(w, "ending")
  /\ last' = "ended" /\ Goes(w, "release")
  /\ UNCHANGED <<queue, lock, run, person, counts>>

Release(w) ==
  /\ At(w, "release")
  /\ lock' = Nobody /\ worker' = [worker EXCEPT ![w] = Idle]
  /\ UNCHANGED <<queue, last, run, person, counts>>

WorkerStep(w) ==
  \/ LockWorker(w) \/ BeginWork(w) \/ Decide(w) \/ Claim(w)
  \/ LookAgain(w) \/ Reclaim(w) \/ Copy(w) \/ CreateRun(w)
  \/ Drive(w) \/ Dispatched(w) \/ DispatchInterrupted(w)
  \/ StepFails(w) \/ Settle(w) \/ EndWork(w) \/ Release(w)

Cancel(w) ==
  /\ worker[w].pc \notin {"idle", "starting"} /\ ~ worker[w].cancelled
  /\ worker' = [worker EXCEPT ![w].cancelled = TRUE]
  /\ UNCHANGED <<queue, last, lock, run, person, counts>>

\* A kill or a power cut: the flock dies with its holder.
Crash(w) ==
  /\ worker[w].pc \notin {"idle", "starting"} /\ crashes < MaxCrashes
  /\ worker' = [worker EXCEPT ![w] = Idle]
  /\ lock' = IF lock = w THEN Nobody ELSE lock
  /\ crashes' = crashes + 1
  /\ cut' = (cut \/ worker[w].pc \notin {"begin", "release"})
  /\ UNCHANGED <<queue, last, run, person, starts>>

(***************************************************************************)
(* The person.                                                             *)
(***************************************************************************)
Add(p) ==
  LET i == Len(queue) + 1
  IN  /\ person[p].pc = "idle" /\ i \in Goals
      /\ \E no \in BOOLEAN :
           queue' = Append(queue, [state |-> "queued", run |-> NoRun, no_approval |-> no])
      /\ person' = [person EXCEPT ![p] = [AtRest EXCEPT !.pc = "telling", !.goal = i]]
      /\ UNCHANGED <<last, lock, worker, run, counts>>

Remove(i) ==
  /\ i \in DOMAIN queue /\ May(i, "removed")
  /\ Change(i, "removed")
  /\ UNCHANGED <<last, lock, worker, run, person, counts>>

\* belay queue approve: the run's approval first, the queue's second.
BeginApprove(p) ==
  /\ person[p].pc = "idle"
  /\ \E i \in InState("waiting") :
       person' = [person EXCEPT ![p] = [AtRest EXCEPT !.pc = "approving", !.goal = i]]
  /\ UNCHANGED <<queue, last, lock, worker, run, counts>>

\* Slip: the queue's record is all an approval writes.
ApproveRunSkipped(p) ==
  /\ person[p].pc = "approving"
  /\ person' = [person EXCEPT ![p].pc = "recording"]
  /\ UNCHANGED <<queue, last, lock, worker, run, counts>>

ApproveRun(p) ==
  LET r == queue[person[p].goal].run
  IN  /\ person[p].pc = "approving" /\ Exists(r)
      /\ run' = IF GateAsked(r) THEN [run EXCEPT ![r].approved = TRUE] ELSE run
      /\ person' = [person EXCEPT ![p].pc = "recording"]
      /\ UNCHANGED <<queue, last, lock, worker, counts>>

ApproveGoal(p) ==
  /\ person[p].pc = "recording" /\ May(person[p].goal, "approved")
  /\ Change(person[p].goal, "approved")
  /\ person' = [person EXCEPT ![p].pc = "telling"]
  /\ UNCHANGED <<last, lock, worker, run, counts>>

\* The command ends: refused, killed, or told to do no more.
CommandEnds(p) ==
  /\ person[p].pc # "idle"
  /\ person' = [person EXCEPT ![p] = AtRest]
  /\ UNCHANGED <<queue, last, lock, worker, run, counts>>

\* WorkerActive decides which worker, if any, the person is told takes it.
Tell(p) ==
  /\ person[p].pc = "telling" /\ lock # Nobody
  /\ person' = [person EXCEPT ![p] = [@ EXCEPT !.pc = "told", !.told = lock]]
  /\ UNCHANGED <<queue, last, lock, worker, run, counts>>

\* belay resume in the goal's copy, as the reports tell a person to: it
\* approves what the gate asked, and dispatches.
ResumeByHand(i) ==
  LET r == queue[i].run
      a == [run[r] EXCEPT !.approved = @ \/ GateAsked(r)]
  IN  /\ i \in InState("waiting") \cup InState("paused")
      /\ run[r].status = "paused"
      /\ \E f \in Leaves(a, queue[i].no_approval) : run' = [run EXCEPT ![r] = f]
      /\ UNCHANGED <<queue, last, lock, worker, person, counts>>

\* A person may delete the copy of a goal no worker is on.
DeleteCopy(i) ==
  LET r == queue[i].run
  IN  /\ i \in InState("waiting") \cup InState("approved")
      /\ Exists(r) /\ \A w \in Workers : worker[w].goal # i
      /\ run' = [run EXCEPT ![r] = [NoRunYet EXCEPT !.status = "gone"]]
      /\ UNCHANGED <<queue, last, lock, worker, person, counts>>

PersonStep(p) == \/ Add(p) \/ BeginApprove(p) \/ ApproveRun(p) \/ ApproveGoal(p)
                 \/ Tell(p) \/ CommandEnds(p)

Next == \/ \E w \in Workers : StartTheQueue(w) \/ WorkerStep(w) \/ Cancel(w) \/ Crash(w)
        \/ \E p \in People : PersonStep(p)
        \/ \E i \in Goals : Remove(i) \/ ResumeByHand(i) \/ DeleteCopy(i)

\* A worker process is scheduled, and a dispatch it makes ends.
Fairness == \A w \in Workers : WF_vars(WorkerStep(w))

Spec == Init /\ [][Next]_vars /\ Fairness

-----------------------------------------------------------------------------
TypeOK ==
  /\ queue \in Seq(Entry) /\ Len(queue) <= MaxGoals /\ last \in Starts
  /\ lock \in Workers \cup {Nobody}
  /\ \A w \in Workers : worker[w].goal \in Goals \cup {0}
  /\ run \in [Runs -> RunFiles]
  /\ \A p \in People : person[p].goal \in Goals \cup {0} /\ person[p].told \in Workers \cup {Nobody}
  /\ starts \in 0 .. MaxStarts /\ crashes \in 0 .. MaxCrashes /\ cut \in BOOLEAN

\* A run under way, interrupted, or half made belongs to a goal a worker has in
\* hand, so the next start picks it up: no crash and no Ctrl-C loses a goal.
NothingLost ==
  \A r \in Runs :
    \/ run[r].status \in {"copy", "running"}
    \/ run[r].status = "paused" /\ run[r].pause = "canceled"
    => \E i \in InState("claimed") \cup InState("approved") : queue[i].run = r

\* One run is driven at a time across every process, and at most one goal is
\* claimed.
OneAtATime ==
  /\ \A w, x \in Workers : At(w, "driving") /\ At(x, "driving") => w = x
  /\ \A i, j \in InState("claimed") : i = j

\* No start is reported cut off but one that was, and every one that was is.
CutOffIsReported == (\A w \in Workers : worker[w].pc \in {"idle", "starting", "begin"})
                      => (cut <=> last = "working")

\* A run once made is never cleared or made again: not its copy, not its spend,
\* not the plan in it.
NeverRemade == [][\A r \in Runs : Exists(r) \/ run[r].status = "gone"
                     => run'[r].status \notin {"missing", "copy"}]_vars

\* A goal taken back is never run, though a worker may have been about to.
RemovedIsNeverRun ==
  [][\A i \in InState("removed") : i \in InState("removed")']_vars

\* A worker is sent back to a parked run only with the approval in the run
\* itself, unless the run went on by hand.
ApprovalReachesTheRun ==
  [][\A w \in Workers :
       At(w, "drive") /\ worker'[w].pc = "driving" /\ queue[worker[w].goal].state = "approved"
         => run[RunIn(w)].approved \/ ~ run[RunIn(w)].asked]_vars

\* A start that is not killed works until it stops by itself, or a person gives
\* it more to do by approving a goal.
WorkEnds == \A w \in Workers :
  ~ At(w, "idle") ~> (At(w, "idle") \/ \E p \in People : person[p].pc = "approving")

\* What ADR-0017 says of a run belay paused at one of its own limits: its goal is
\* settled as paused, never parked for a plan to be approved.
LimitIsNotAPark ==
  [][\A i \in InState("claimed") \cup InState("approved") :
       queue'[i].state = "waiting" => run[queue[i].run].pause # "limit"]_vars

\* What belay queue add and approve tell a person when a worker is active: it
\* takes the goal.  So none is left when that worker stops with nothing to do.
PromiseKept ==
  [][\A w \in Workers : At(w, "ending") /\ worker[w].stop = "drained" /\ worker'[w].pc = "release"
       => \A p \in People : person[p].told = w => person[p].goal \notin Runnable]_vars

=============================================================================
