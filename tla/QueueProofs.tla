---------------------------- MODULE QueueProofs ----------------------------
(***************************************************************************)
(* What the worker lock and the fold's rules give for any number of        *)
(* processes, goals, crashes and commands; and, in the second part, what   *)
(* becomes of the runs of the queue's goals.                               *)
(***************************************************************************)
EXTENDS Queue, SequenceTheorems, FiniteSetTheorems, WellFoundedInduction, TLAPS

(***************************************************************************)
(* The inductive invariant.  Its heart is LockInv: past "starting" a       *)
(* process holds worker.lock.  StartInv says what each such process has on *)
(* record, which is what makes an unended start mean a dead one.  ShapeInv *)
(* keeps EXCEPT meaningful, and ClaimInv is the fold's.                    *)
(***************************************************************************)
Outside == {"idle", "starting"}
Resting == Outside \cup {"begin"}

IsWorker(r) == DOMAIN r = {"pc", "goal", "to", "stop", "cancelled"}
IsEntry(e)  == DOMAIN e = {"state", "run", "no_approval"}

WorkerInv == /\ worker = [w \in Workers |-> worker[w]]
             /\ \A w \in Workers : IsWorker(worker[w]) /\ worker[w].to # "claimed"

LockInv  == \A w \in Workers : worker[w].pc \notin Outside => lock = w

StartInv == /\ \A w \in Workers : worker[w].pc \notin Resting =>
                 ~ cut /\ last = (IF worker[w].pc = "release" THEN "ended" ELSE "working")
            /\ CutOffIsReported

QueueInv == /\ \E S : queue \in Seq(S)
            /\ \A i \in DOMAIN queue : IsEntry(queue[i])
            /\ \A i, j \in InState("claimed") : i = j

Inv == WorkerInv /\ LockInv /\ StartInv /\ QueueInv

LEMMA InitInv == Init => Inv
<1> SUFFICES ASSUME Init PROVE Inv
  OBVIOUS
<1>1. WorkerInv /\ LockInv /\ StartInv
  BY DEF Init, WorkerInv, LockInv, StartInv, CutOffIsReported, IsWorker, Idle, Outside, Resting
<1>2. QueueInv
  <2>1. queue \in Seq({}) /\ DOMAIN queue = {}
    BY DEF Init
  <2>2. QED
    BY <2>1 DEF QueueInv, InState
<1>3. QED
  BY <1>1, <1>2 DEF Inv

(***************************************************************************)
(* A step of one process that changes no other.  Moved(w, p): w goes to p. *)
(***************************************************************************)
Moved(w, p) == \E r : /\ IsWorker(r) /\ r.pc = p /\ r.to # "claimed"
                      /\ worker' = [worker EXCEPT ![w] = r]

LEMMA OneMoves ==
  ASSUME Inv, NEW w \in Workers, NEW p, Moved(w, p)
  PROVE  /\ WorkerInv'
         /\ worker'[w].pc = p
         /\ \A x \in Workers \ {w} : worker'[x] = worker[x]
<1>1. PICK r : IsWorker(r) /\ r.pc = p /\ r.to # "claimed" /\ worker' = [worker EXCEPT ![w] = r]
  BY DEF Moved
<1>2. QED
  BY <1>1 DEF Inv, WorkerInv

LEMMA GoesMoves ==
  ASSUME Inv, NEW w \in Workers, NEW p, Goes(w, p)
  PROVE  Moved(w, p)
<1> DEFINE r == [worker[w] EXCEPT !.pc = p]
<1>1. IsWorker(r) /\ r.pc = p /\ r.to # "claimed"
  BY DEF Inv, WorkerInv, IsWorker
<1>2. worker' = [worker EXCEPT ![w] = r]
  BY DEF Goes
<1>3. QED
  BY <1>1, <1>2 DEF Moved

LEMMA LoopsMoves ==
  ASSUME Inv, NEW w \in Workers, Loops(w)
  PROVE  Moved(w, "loop")
<1> DEFINE r == [Idle EXCEPT !.pc = "loop", !.cancelled = worker[w].cancelled]
<1>1. IsWorker(r) /\ r.pc = "loop" /\ r.to # "claimed"
  BY DEF Idle, IsWorker
<1>2. worker' = [worker EXCEPT ![w] = r]
  BY DEF Loops
<1>3. QED
  BY <1>1, <1>2 DEF Moved

LEMMA EndsMoves ==
  ASSUME Inv, NEW w \in Workers, NEW why, Ends(w, why)
  PROVE  Moved(w, "ending")
<1> DEFINE r == [worker[w] EXCEPT !.pc = "ending", !.stop = why]
<1>1. IsWorker(r) /\ r.pc = "ending" /\ r.to # "claimed"
  BY DEF Inv, WorkerInv, IsWorker
<1>2. worker' = [worker EXCEPT ![w] = r]
  BY DEF Ends
<1>3. QED
  BY <1>1, <1>2 DEF Moved

\* A process inside the lock goes on inside it, and nothing is recorded of
\* starts and stops.
Inside == {"loop", "claim", "create", "reclaim", "copy", "make", "drive", "driving", "settle",
           "ending"}

LEMMA GoesOnInside ==
  ASSUME Inv, NEW w \in Workers, NEW p \in Inside, Moved(w, p),
         worker[w].pc \in Inside, UNCHANGED <<lock, last, cut>>
  PROVE  WorkerInv' /\ LockInv' /\ StartInv'
<1>1. /\ WorkerInv'
      /\ worker'[w].pc = p
      /\ \A x \in Workers \ {w} : worker'[x] = worker[x]
  BY OneMoves
<1>2. LockInv'
  BY <1>1 DEF Inv, LockInv, Outside, Inside
<1>3. StartInv'
  BY <1>1 DEF Inv, LockInv, StartInv, CutOffIsReported, Outside, Resting, Inside
<1>4. QED
  BY <1>1, <1>2, <1>3

LEMMA QueueUntouched ==
  ASSUME QueueInv, UNCHANGED queue
  PROVE  QueueInv'
BY DEF QueueInv, InState, IsEntry

\* One goal changes state, and becomes claimed only when none is.
LEMMA GoalMoves ==
  ASSUME QueueInv, NEW i, NEW e, IsEntry(e), queue' = [queue EXCEPT ![i] = e],
         e.state = "claimed" => InState("claimed") = {}
  PROVE  QueueInv'
<1>1. PICK S : queue \in Seq(S)
  BY DEF QueueInv
<1>2. queue' \in Seq(S \cup {e}) /\ DOMAIN queue' = DOMAIN queue
  <2>1. Len(queue) \in Nat /\ queue \in [1 .. Len(queue) -> S]
    BY <1>1
  <2>2. queue' \in [1 .. Len(queue) -> S \cup {e}]
    BY <2>1
  <2>3. QED
    BY <2>1, <2>2, SeqDef
<1>3. \A j \in DOMAIN queue : queue'[j] = IF j = i THEN e ELSE queue[j]
  BY <1>1
<1>4. QED
  BY <1>2, <1>3 DEF QueueInv, InState

LEMMA SettledGoalMoves ==
  ASSUME QueueInv, NEW i, NEW s, s # "claimed", Change(i, s)
  PROVE  QueueInv'
<1>1. CASE i \in DOMAIN queue
  <2> DEFINE e == [queue[i] EXCEPT !.state = s]
  <2>1. IsEntry(e) /\ e.state # "claimed"
    BY <1>1 DEF QueueInv, IsEntry
  <2>2. queue' = [queue EXCEPT ![i] = e]
    BY <1>1 DEF Change
  <2>3. QED
    BY <2>1, <2>2, GoalMoves
<1>2. CASE i \notin DOMAIN queue
  <2>1. PICK S : queue \in Seq(S)
    BY DEF QueueInv
  <2>2. queue' = queue
    BY <1>2, <2>1 DEF Change
  <2>3. QED
    BY <2>2, QueueUntouched
<1>3. QED
  BY <1>1, <1>2

LEMMA endedAsSettles ==
  ASSUME NEW s \in Ended
  PROVE  endedAs(s) # "claimed"
BY DEF endedAs, Ended

\* What a worker decides to settle a goal in is never claimed.
LEMMA DecisionSettles ==
  /\ NextStep.pc \in Inside
  /\ NextStep.to # "claimed"
<1> DEFINE c == First(InState("claimed"))
           a == First(InState("approved"))
<1>1. claimedNext(c, queue[c].run).pc \in Inside /\ claimedNext(c, queue[c].run).to # "claimed"
  BY endedAsSettles DEF claimedNext, Decision, Inside
<1>2. approvedNext(a, queue[a].run).pc \in Inside /\ approvedNext(a, queue[a].run).to # "claimed"
  BY endedAsSettles DEF approvedNext, Decision, Inside
<1>3. QED
  BY <1>1, <1>2 DEF NextStep, Decision, Inside

-----------------------------------------------------------------------------
(***************************************************************************)
(* One step.                                                               *)
(***************************************************************************)
LEMMA StartTheQueueInv ==
  ASSUME Inv, NEW w \in Workers, StartTheQueue(w)
  PROVE  Inv'
<1> DEFINE r == [Idle EXCEPT !.pc = "starting"]
<1>1. IsWorker(r) /\ r.pc = "starting" /\ r.to # "claimed" /\ worker' = [worker EXCEPT ![w] = r]
  BY DEF StartTheQueue, Idle, IsWorker
<1>2. /\ WorkerInv'
      /\ worker'[w].pc = "starting"
      /\ \A x \in Workers \ {w} : worker'[x] = worker[x]
  BY <1>1, OneMoves DEF Moved
<1>3. LockInv' /\ StartInv'
  BY <1>2 DEF StartTheQueue, At, Inv, LockInv, StartInv, CutOffIsReported, Outside, Resting
<1>4. QED
  BY <1>2, <1>3, QueueUntouched DEF Inv, StartTheQueue

LEMMA LockWorkerInv ==
  ASSUME Inv, NEW w \in Workers, LockWorker(w)
  PROVE  Inv'
<1>1. QueueInv'
  BY QueueUntouched DEF Inv, LockWorker
<1>2. CASE lock = Nobody
  <2>1. /\ WorkerInv'
        /\ worker'[w].pc = "begin"
        /\ \A x \in Workers \ {w} : worker'[x] = worker[x]
    BY <1>2, GoesMoves, OneMoves DEF LockWorker
  <2>2. LockInv' /\ StartInv'
    BY <1>2, <2>1, QueueAssumption
       DEF LockWorker, At, Inv, LockInv, StartInv, CutOffIsReported, Outside, Resting, counts
  <2>3. QED
    BY <1>1, <2>1, <2>2 DEF Inv
<1>3. CASE lock # Nobody
  <2>1. /\ WorkerInv'
        /\ worker'[w].pc = "idle"
        /\ \A x \in Workers \ {w} : worker'[x] = worker[x]
    BY <1>3, GoesMoves, OneMoves DEF LockWorker
  <2>2. LockInv' /\ StartInv'
    BY <1>3, <2>1
       DEF LockWorker, At, Inv, LockInv, StartInv, CutOffIsReported, Outside, Resting, counts
  <2>3. QED
    BY <1>1, <2>1, <2>2 DEF Inv
<1>4. QED
  BY <1>2, <1>3

LEMMA BeginWorkInv ==
  ASSUME Inv, NEW w \in Workers, BeginWork(w)
  PROVE  Inv'
<1>1. /\ WorkerInv'
      /\ worker'[w].pc = "loop"
      /\ \A x \in Workers \ {w} : worker'[x] = worker[x]
  BY LoopsMoves, OneMoves DEF BeginWork
<1>2. LockInv' /\ StartInv'
  BY <1>1 DEF BeginWork, At, Inv, LockInv, StartInv, CutOffIsReported, Outside, Resting
<1>3. QED
  BY <1>1, <1>2, QueueUntouched DEF Inv, BeginWork

LEMMA DecideInv ==
  ASSUME Inv, NEW w \in Workers, Decide(w)
  PROVE  Inv'
<1>1. worker[w].pc \in Inside /\ UNCHANGED <<lock, last, cut>>
  BY DEF Decide, At, Inside, counts
<1>2. CASE worker[w].cancelled
  <2>1. Moved(w, "ending")
    BY <1>2, EndsMoves DEF Decide
  <2>2. QED
    BY <1>1, <2>1, GoesOnInside, QueueUntouched DEF Inv, Decide, Inside
<1>3. CASE ~ worker[w].cancelled
  <2> DEFINE d == NextStep
             r == [worker[w] EXCEPT !.pc = d.pc, !.goal = d.goal, !.to = d.to,
                     !.stop = IF d.pc = "ending" THEN "drained" ELSE "none"]
  <2>1. worker' = [worker EXCEPT ![w] = r]
    BY <1>3 DEF Decide
  <2>2. IsWorker(r) /\ r.pc = d.pc /\ r.to = d.to
    <3> HIDE DEF d
    <3> QED
      BY DEF Inv, WorkerInv, IsWorker
  <2>3. Moved(w, d.pc) /\ d.pc \in Inside
    BY <2>1, <2>2, DecisionSettles DEF Moved
  <2>4. QED
    BY <1>1, <2>3, GoesOnInside, QueueUntouched DEF Inv, Decide
<1>4. QED
  BY <1>2, <1>3

LEMMA ClaimInv ==
  ASSUME Inv, NEW w \in Workers, Claim(w)
  PROVE  Inv'
<1> DEFINE i == worker[w].goal
<1>1. worker[w].pc \in Inside /\ UNCHANGED <<lock, last, cut>>
  BY DEF Claim, At, Inside, counts
<1>2. CASE May(i, "claimed") /\ InState("claimed") = {}
  <2>1. Moved(w, "loop")
    BY <1>2, LoopsMoves DEF Claim
  <2>2. QueueInv'
    <3>1. CASE i \in DOMAIN queue
      <4> DEFINE e == [queue[i] EXCEPT !.state = "claimed", !.run = NewRunID]
      <4>1. IsEntry(e)
        BY <3>1 DEF Inv, QueueInv, IsEntry
      <4>2. queue' = [queue EXCEPT ![i] = e]
        BY <1>2, <3>1 DEF Claim
      <4>3. QED
        BY <1>2, <4>1, <4>2, GoalMoves DEF Inv
    <3>2. CASE i \notin DOMAIN queue
      <4>1. PICK S : queue \in Seq(S)
        BY DEF Inv, QueueInv
      <4>2. queue' = queue
        BY <1>2, <3>2, <4>1 DEF Claim
      <4>3. QED
        BY <4>2, QueueUntouched DEF Inv
    <3>3. QED
      BY <3>1, <3>2
  <2>3. QED
    BY <1>1, <2>1, <2>2, GoesOnInside DEF Inv, Inside
<1>3. CASE ~ (May(i, "claimed") /\ InState("claimed") = {})
  <2>1. Moved(w, "ending") /\ UNCHANGED queue
    BY <1>3, EndsMoves DEF Claim, GivesUp
  <2>2. QED
    BY <1>1, <2>1, GoesOnInside, QueueUntouched DEF Inv, Inside
<1>4. QED
  BY <1>2, <1>3

\* The steps that make and drive a run touch neither the queue nor the lock.
LEMMA RunStepInv ==
  ASSUME Inv, NEW w \in Workers,
         \/ LookAgain(w) \/ Reclaim(w) \/ Copy(w) \/ CreateRun(w) \/ Drive(w)
         \/ Dispatched(w) \/ DispatchInterrupted(w) \/ StepFails(w)
  PROVE  Inv'
<1>1. worker[w].pc \in Inside
  BY DEF LookAgain, Reclaim, Copy, CreateRun, Drive, Dispatched, DispatchInterrupted, StepFails,
         At, Inside
<1>2. UNCHANGED <<queue, lock, last, cut>>
  BY DEF LookAgain, Reclaim, Copy, CreateRun, Drive, Dispatched, DispatchInterrupted, StepFails,
         counts
<1>3. \E p \in Inside : Moved(w, p)
  <2>1. CASE LookAgain(w)
    BY <2>1, GoesMoves, EndsMoves DEF LookAgain, GivesUp, Inside
  <2>2. CASE Reclaim(w)
    BY <2>2, GoesMoves DEF Reclaim, Inside
  <2>3. CASE Copy(w)
    BY <2>3, GoesMoves DEF Copy, Inside
  <2>4. CASE CreateRun(w)
    BY <2>4, LoopsMoves, EndsMoves DEF CreateRun, GivesUp, Inside
  <2>5. CASE Drive(w)
    BY <2>5, GoesMoves DEF Drive, Inside
  <2>6. CASE Dispatched(w)
    <3>1. PICK f : worker' = [worker EXCEPT ![w].pc = "settle", ![w].to = goalOutcome(f)]
      BY <2>6 DEF Dispatched
    <3> DEFINE o == goalOutcome(f)
               r == [worker[w] EXCEPT !.pc = "settle", !.to = o]
    <3>2. o # "claimed"
      BY endedAsSettles DEF goalOutcome
    <3>3. worker' = [worker EXCEPT ![w] = r]
      BY <3>1
    <3> HIDE DEF o
    <3>4. IsWorker(r) /\ r.pc = "settle" /\ r.to # "claimed"
      BY <3>2 DEF Inv, WorkerInv, IsWorker
    <3>5. QED
      BY <3>3, <3>4 DEF Moved, Inside
  <2>7. CASE DispatchInterrupted(w)
    BY <2>7, EndsMoves DEF DispatchInterrupted, Inside
  <2>8. CASE StepFails(w)
    BY <2>8, EndsMoves DEF StepFails, GivesUp, Inside
  <2>9. QED
    BY <2>1, <2>2, <2>3, <2>4, <2>5, <2>6, <2>7, <2>8
<1>4. QED
  BY <1>1, <1>2, <1>3, GoesOnInside, QueueUntouched DEF Inv

LEMMA SettleInv ==
  ASSUME Inv, NEW w \in Workers, Settle(w)
  PROVE  Inv'
<1>1. worker[w].pc \in Inside /\ UNCHANGED <<lock, last, cut>>
  BY DEF Settle, At, Inside, counts
<1>2. CASE May(worker[w].goal, "settled")
  <2>1. Moved(w, "loop")
    BY <1>2, LoopsMoves DEF Settle
  <2>2. worker[w].to # "claimed" /\ Change(worker[w].goal, worker[w].to)
    BY <1>2 DEF Settle, Inv, WorkerInv
  <2>3. QueueInv'
    BY <2>2, SettledGoalMoves DEF Inv
  <2>4. QED
    BY <1>1, <2>1, <2>3, GoesOnInside DEF Inv, Inside
<1>3. CASE ~ May(worker[w].goal, "settled")
  <2>1. Moved(w, "ending") /\ UNCHANGED queue
    BY <1>3, EndsMoves DEF Settle, GivesUp
  <2>2. QED
    BY <1>1, <2>1, GoesOnInside, QueueUntouched DEF Inv, Inside
<1>4. QED
  BY <1>2, <1>3

LEMMA EndWorkInv ==
  ASSUME Inv, NEW w \in Workers, EndWork(w)
  PROVE  Inv'
<1>1. /\ WorkerInv'
      /\ worker'[w].pc = "release"
      /\ \A x \in Workers \ {w} : worker'[x] = worker[x]
  BY GoesMoves, OneMoves DEF EndWork
<1>2. LockInv' /\ StartInv'
  BY <1>1 DEF EndWork, At, Inv, LockInv, StartInv, CutOffIsReported, Outside, Resting, counts
<1>3. QED
  BY <1>1, <1>2, QueueUntouched DEF Inv, EndWork

\* Letting go of the lock, or dying.
LEMMA BecomesIdle ==
  ASSUME Inv, NEW w \in Workers, worker' = [worker EXCEPT ![w] = Idle]
  PROVE  /\ WorkerInv'
         /\ worker'[w].pc = "idle"
         /\ \A x \in Workers \ {w} : worker'[x] = worker[x]
<1>1. Moved(w, "idle")
  BY DEF Moved, Idle, IsWorker
<1>2. QED
  BY <1>1, OneMoves

LEMMA ReleaseInv ==
  ASSUME Inv, NEW w \in Workers, Release(w)
  PROVE  Inv'
<1>1. /\ WorkerInv'
      /\ worker'[w].pc = "idle"
      /\ \A x \in Workers \ {w} : worker'[x] = worker[x]
  BY BecomesIdle DEF Release
<1>2. LockInv' /\ StartInv'
  BY <1>1 DEF Release, At, Inv, LockInv, StartInv, CutOffIsReported, Outside, Resting, counts
<1>3. QED
  BY <1>1, <1>2, QueueUntouched DEF Inv, Release

LEMMA CrashInv ==
  ASSUME Inv, NEW w \in Workers, Crash(w)
  PROVE  Inv'
<1>1. /\ WorkerInv'
      /\ worker'[w].pc = "idle"
      /\ \A x \in Workers \ {w} : worker'[x] = worker[x]
  BY BecomesIdle DEF Crash
<1>2. LockInv'
  BY <1>1 DEF Crash, Inv, LockInv, Outside
<1>3. \A x \in Workers \ {w} : worker[x].pc \in Outside
  BY DEF Crash, Inv, LockInv, Outside
<1>4. StartInv'
  BY <1>1, <1>3 DEF Crash, Inv, LockInv, StartInv, CutOffIsReported, Outside, Resting
<1>5. QED
  BY <1>1, <1>2, <1>4, QueueUntouched DEF Inv, Crash

LEMMA CancelInv ==
  ASSUME Inv, NEW w \in Workers, Cancel(w)
  PROVE  Inv'
<1> DEFINE r == [worker[w] EXCEPT !.cancelled = TRUE]
<1>1. IsWorker(r) /\ r.pc = worker[w].pc /\ r.to # "claimed"
  BY DEF Inv, WorkerInv, IsWorker
<1>2. worker' = [worker EXCEPT ![w] = r]
  BY DEF Cancel
<1>3. /\ WorkerInv'
      /\ worker'[w].pc = worker[w].pc
      /\ \A x \in Workers \ {w} : worker'[x] = worker[x]
  BY <1>1, <1>2, OneMoves DEF Moved
<1>4. LockInv' /\ StartInv'
  BY <1>3 DEF Cancel, Inv, LockInv, StartInv, CutOffIsReported, counts
<1>5. QED
  BY <1>3, <1>4, QueueUntouched DEF Inv, Cancel

\* The workers' parts of the invariant, left alone by a person's command.
LEMMA WorkersUntouched ==
  ASSUME Inv, UNCHANGED <<worker, lock, last, cut>>
  PROVE  WorkerInv' /\ LockInv' /\ StartInv'
BY DEF Inv, WorkerInv, LockInv, StartInv, CutOffIsReported, IsWorker

LEMMA AddInv ==
  ASSUME Inv, NEW p \in People, Add(p)
  PROVE  Inv'
<1>1. PICK no \in BOOLEAN :
        queue' = Append(queue, [state |-> "queued", run |-> NoRun, no_approval |-> no])
  BY DEF Add
<1> DEFINE e == [state |-> "queued", run |-> NoRun, no_approval |-> no]
<1>2. PICK S : queue \in Seq(S)
  BY DEF Inv, QueueInv
<1>3. IsEntry(e) /\ e.state # "claimed"
  BY DEF IsEntry
<1> HIDE DEF e
<1>4. /\ queue' \in Seq(S \cup {e})
      /\ \A j \in DOMAIN queue' : queue'[j] = e \/ (j \in DOMAIN queue /\ queue'[j] = queue[j])
  BY <1>1, <1>2 DEF e
<1>5. QueueInv'
  BY <1>3, <1>4 DEF Inv, QueueInv, InState
<1>6. QED
  BY <1>5, WorkersUntouched DEF Inv, Add, counts

LEMMA PersonInv ==
  ASSUME Inv,
         \/ \E p \in People : \/ BeginApprove(p) \/ ApproveRun(p) \/ ApproveGoal(p)
                               \/ Tell(p) \/ CommandEnds(p)
         \/ \E i \in Goals : Remove(i) \/ ResumeByHand(i) \/ DeleteCopy(i)
  PROVE  Inv'
<1>1. UNCHANGED <<worker, lock, last, cut>>
  BY DEF BeginApprove, ApproveRun, ApproveGoal, Tell, CommandEnds, Remove, ResumeByHand, DeleteCopy,
         counts
<1>2. \/ UNCHANGED queue
      \/ \E i, s : s # "claimed" /\ Change(i, s)
  BY DEF BeginApprove, ApproveRun, ApproveGoal, Tell, CommandEnds, Remove, ResumeByHand, DeleteCopy
<1>3. QueueInv'
  BY <1>2, QueueUntouched, SettledGoalMoves DEF Inv
<1>4. QED
  BY <1>1, <1>3, WorkersUntouched DEF Inv

LEMMA StepInv ==
  ASSUME Inv, [Next]_vars
  PROVE  Inv'
<1>1. CASE \E w \in Workers : StartTheQueue(w) \/ WorkerStep(w) \/ Cancel(w) \/ Crash(w)
  BY <1>1, StartTheQueueInv, LockWorkerInv, BeginWorkInv, DecideInv, ClaimInv, RunStepInv, SettleInv,
     EndWorkInv, ReleaseInv, CancelInv, CrashInv DEF WorkerStep
<1>2. CASE \E p \in People : PersonStep(p)
  BY <1>2, AddInv, PersonInv DEF PersonStep
<1>3. CASE \E i \in Goals : Remove(i) \/ ResumeByHand(i) \/ DeleteCopy(i)
  BY <1>3, PersonInv
<1>4. CASE UNCHANGED vars
  BY <1>4, WorkersUntouched, QueueUntouched DEF Inv, vars
<1>5. QED
  BY <1>1, <1>2, <1>3, <1>4 DEF Next

THEOREM Inductive == Spec => []Inv
BY InitInv, StepInv, PTL DEF Spec

\* One run is driven at a time across every process on the machine, and at most
\* one goal is claimed: what worker.lock and the check in claim are for.
THEOREM OneGoalAtATime == Spec => []OneAtATime
<1>1. Inv => OneAtATime
  BY DEF Inv, LockInv, QueueInv, OneAtATime, At, Outside
<1>2. QED
  BY <1>1, Inductive, PTL

\* A start on record as unended, with no worker past its start, is one that was
\* cut off; and every one cut off is: what Report.PreviousCutOff says is true.
THEOREM CutOffIsAlwaysReported == Spec => []CutOffIsReported
<1>1. Inv => CutOffIsReported
  BY DEF Inv, StartInv
<1>2. QED
  BY <1>1, Inductive, PTL

(***************************************************************************)
(* Removed goals.                                                          *)
(***************************************************************************)
LEMMA MovesNeedNotBeRemoved ==
  ASSUME NEW from, NEW event \in {"removed", "claimed", "settled", "approved"}, Moves(from, event)
  PROVE  from # "removed"
BY DEF Moves

\* Every record about a goal is refused of a removed one, under the log lock.
LEMMA RemovedStays ==
  ASSUME Inv, [Next]_vars, NEW i \in InState("removed")
  PROVE  i \in InState("removed")'
<1> USE DEF InState
<1>1. PICK S : queue \in Seq(S)
  BY DEF Inv, QueueInv
<1>2. i \in DOMAIN queue /\ queue[i].state = "removed"
  OBVIOUS
<1>3. CASE UNCHANGED queue
  BY <1>2, <1>3
<1>4. ASSUME NEW j, NEW event \in {"removed", "claimed", "settled", "approved"},
             May(j, event),
             \/ \E s : queue' = [queue EXCEPT ![j].state = s]
             \/ \E s, r : queue' = [queue EXCEPT ![j].state = s, ![j].run = r]
      PROVE  i \in InState("removed")'
  <2>1. i # j
    BY <1>2, <1>4, MovesNeedNotBeRemoved DEF May
  <2>2. i \in DOMAIN queue' /\ queue'[i] = queue[i]
    BY <1>1, <1>2, <1>4, <2>1
  <2>3. QED
    BY <1>2, <2>2
<1>5. CASE \E p \in People : Add(p)
  BY <1>1, <1>2, <1>5 DEF Add
<1>6. CASE \E w \in Workers : Claim(w) \/ Settle(w)
  BY <1>3, <1>4, <1>6 DEF Claim, Settle, Change
<1>7. CASE \E j \in Goals : Remove(j)
  BY <1>4, <1>7 DEF Remove, Change
<1>8. CASE \E p \in People : ApproveGoal(p)
  BY <1>4, <1>8 DEF ApproveGoal, Change
<1>9. QED
  BY <1>3, <1>5, <1>6, <1>7, <1>8
     DEF Next, WorkerStep, PersonStep, StartTheQueue, Cancel, Crash, LockWorker, BeginWork, Decide,
         LookAgain, Reclaim, Copy, CreateRun, Drive, Dispatched, DispatchInterrupted, StepFails,
         EndWork, Release, BeginApprove, ApproveRun, Tell, CommandEnds, ResumeByHand, DeleteCopy, vars

\* A goal taken back with belay queue rm is never run, whatever a worker had
\* already decided about it when the removal was recorded.
THEOREM RemovedGoalsStayRemoved == Spec => RemovedIsNeverRun
<1>1. Inv /\ [Next]_vars => [\A i \in InState("removed") : i \in InState("removed")']_vars
  BY RemovedStays
<1>2. QED
  BY <1>1, Inductive, PTL DEF Spec, RemovedIsNeverRun

-----------------------------------------------------------------------------
(***************************************************************************)
(* The runs of the queue's goals: none is lost, and none is made twice.    *)
(*                                                                         *)
(* A run is one goal's, so what a worker does to the run it has in hand,   *)
(* or a person to that of a goal at rest, is done to no other.  What the   *)
(* worker saw of the goal and its run when it decided still holds when it  *)
(* acts: only the holder of the lock moves a goal that was claimed.        *)
(***************************************************************************)
Kept     == InState("claimed") \cup InState("approved")
RunOf(i) == run[queue[i].run]

\* Under way, interrupted, or half made.
Unsettled(r) == \/ run[r].status \in {"copy", "running"}
                \/ run[r].status = "paused" /\ run[r].pause = "canceled"

\* A claim gives a goal a run no goal had.
GoalsInv ==
  /\ queue \in Seq(Entry) /\ Len(queue) <= MaxGoals
  /\ \A i \in DOMAIN queue : /\ queue[i].run < NewRunID
                             /\ queue[i].state \in {"queued", "removed"} <=> queue[i].run = NoRun
  /\ \A i, j \in DOMAIN queue : queue[i].run = queue[j].run /\ queue[i].run # NoRun => i = j

FreshInv ==
  /\ run \in [Runs -> RunFiles]
  /\ \A r \in Runs : r >= NewRunID => run[r] = NoRunYet

\* A goal that is claimed has not been through its gate; one that is parked
\* has a run, or had one.
StandInv == \A i \in DOMAIN queue :
  /\ queue[i].state = "claimed" =>
       /\ RunOf(i).status # "gone"
       /\ RunOf(i).asked => RunOf(i).status = "paused" /\ RunOf(i).pause = "gate"
  /\ queue[i].state \in {"waiting", "approved"} => RunOf(i).status \notin {"missing", "copy"}

\* What a worker relies on of the goal it has in hand.
Hand(w) == LET i == worker[w].goal IN
  /\ At(w, "claim") => i \in DOMAIN queue
  /\ worker[w].pc \in {"create", "reclaim", "copy", "make"} => i \in InState("claimed")
  /\ worker[w].pc \in {"reclaim", "copy", "make"} => ~ Exists(queue[i].run)
  /\ worker[w].pc \in {"drive", "driving", "settle"} => i \in Kept
  /\ worker[w].pc \in {"drive", "driving"} /\ i \in InState("claimed") => ~ RunOf(i).asked
  /\ At(w, "settle") => /\ worker[w].to \in Settled
                        /\ RunOf(i).status \in Ended \cup {"paused", "gone"}
                        /\ ~ Unsettled(queue[i].run)

HandInv == \A w \in Workers : Hand(w)

RunInv == GoalsInv /\ FreshInv /\ StandInv /\ NothingLost /\ HandInv

-----------------------------------------------------------------------------
LEMMA FirstIsOne ==
  ASSUME NEW S \in SUBSET Nat, S # {}
  PROVE  First(S) \in S
<1>1. PICK x \in S : \A y \in S : ~ (<<y, x>> \in OpToRel(<, Nat))
  BY WFMin, NatLessThanWellFounded
<1>2. \A y \in S : x <= y
  <2> SUFFICES ASSUME NEW y \in S, ~ (x <= y) PROVE FALSE
    OBVIOUS
  <2>1. <<y, x>> \in Nat \X Nat /\ <<y, x>>[1] < <<y, x>>[2]
    OBVIOUS
  <2>2. QED
    BY <1>1, <2>1 DEF OpToRel
<1>3. QED
  BY <1>2 DEF First

\* The goals there are, and their runs.
LEMMA Goal ==
  ASSUME GoalsInv, FreshInv, NEW i \in DOMAIN queue
  PROVE  /\ i \in Nat /\ queue[i] \in Entry
         /\ queue[i].run # NoRun => queue[i].run \in Runs /\ RunOf(i) \in RunFiles
         /\ queue[i].state \notin {"queued", "removed"} => queue[i].run # NoRun
<1>1. i \in 1 .. Len(queue) /\ queue[i] \in Entry
  BY DEF GoalsInv
<1>2. queue[i].run \in Runs \cup {NoRun}
  BY <1>1 DEF Entry
<1>3. QED
  BY <1>1, <1>2 DEF GoalsInv, FreshInv, RunOf

LEMMA InitRunInv == Init => RunInv
<1> SUFFICES ASSUME Init PROVE RunInv
  OBVIOUS
<1>1. queue = <<>> /\ DOMAIN queue = {} /\ Len(queue) = 0 /\ queue \in Seq(Entry)
  BY DEF Init
<1>2. GoalsInv
  BY <1>1, QueueAssumption DEF GoalsInv
<1>3. FreshInv
  <2>1. NoRunYet \in RunFiles /\ run = [r \in Runs |-> NoRunYet]
    BY DEF Init, NoRunYet, RunFiles, RunStates, Pauses
  <2>2. QED
    BY <2>1 DEF FreshInv
<1>4. StandInv
  BY <1>1 DEF StandInv
<1>5. NothingLost
  BY DEF Init, NothingLost, NoRunYet
<1>6. HandInv
  BY DEF Init, HandInv, Hand, At, Idle
<1>7. QED
  BY <1>2, <1>3, <1>4, <1>5, <1>6 DEF RunInv

-----------------------------------------------------------------------------
(***************************************************************************)
(* Steps of a worker that leave the queue and the runs alone.              *)
(***************************************************************************)
Free == {"idle", "starting", "begin", "loop", "ending", "release"}

\* What a worker has in hand is a matter of its own variables, the queue and
\* the runs.
LEMMA SameHand ==
  ASSUME NEW w, Hand(w), UNCHANGED <<queue, run>>, worker'[w].pc = worker[w].pc,
         worker'[w].goal = worker[w].goal, worker'[w].to = worker[w].to
  PROVE  Hand(w)'
<1>1. /\ Kept' = Kept /\ InState("claimed")' = InState("claimed")
      /\ \A i : RunOf(i)' = RunOf(i)
      /\ \A r : Exists(r)' = Exists(r) /\ Unsettled(r)' = Unsettled(r)
  BY DEF Kept, InState, RunOf, Exists, Unsettled
<1>2. \A p : At(w, p)' = (worker[w].pc = p) /\ At(w, p) = (worker[w].pc = p)
  BY DEF At
<1>3. QED
  BY <1>1, <1>2 DEF Hand

LEMMA OthersHandsKept ==
  ASSUME RunInv, NEW w \in Workers, \A x \in Workers \ {w} : worker'[x] = worker[x],
         UNCHANGED <<queue, run>>, Hand(w)'
  PROVE  RunInv'
<1>1. GoalsInv' /\ FreshInv' /\ StandInv' /\ NothingLost'
  <2>1. NewRunID' = NewRunID /\ \A s : InState(s)' = InState(s)
    BY DEF NewRunID, InState
  <2>2. GoalsInv' /\ FreshInv'
    BY <2>1 DEF RunInv, GoalsInv, FreshInv
  <2>3. StandInv' /\ NothingLost'
    BY <2>1 DEF RunInv, StandInv, NothingLost, RunOf
  <2>4. QED
    BY <2>2, <2>3
<1>2. ASSUME NEW x \in Workers \ {w} PROVE Hand(x)'
  BY SameHand DEF RunInv, HandInv
<1>3. QED
  BY <1>1, <1>2 DEF RunInv, HandInv

LEMMA FreeHand ==
  ASSUME NEW w, worker[w].pc \in Free
  PROVE  Hand(w)
BY DEF Free, Hand, At

LEMMA FreeKeeps ==
  ASSUME Inv, RunInv, NEW w \in Workers, NEW p \in Free, Moved(w, p), UNCHANGED <<queue, run>>
  PROVE  RunInv'
<1>1. worker'[w].pc = p /\ \A x \in Workers \ {w} : worker'[x] = worker[x]
  BY OneMoves
<1>2. Hand(w)'
  BY <1>1 DEF Free, Hand, At
<1>3. QED
  BY <1>1, <1>2, OthersHandsKept

LEMMA IdleMoves ==
  ASSUME NEW w, worker' = [worker EXCEPT ![w] = Idle]
  PROVE  Moved(w, "idle")
BY DEF Moved, Idle, IsWorker

LEMMA StartMoves ==
  ASSUME NEW w, StartTheQueue(w)
  PROVE  Moved(w, "starting")
<1> DEFINE r == [Idle EXCEPT !.pc = "starting"]
<1>1. IsWorker(r) /\ r.pc = "starting" /\ r.to # "claimed" /\ worker' = [worker EXCEPT ![w] = r]
  BY DEF StartTheQueue, Idle, IsWorker
<1>2. QED
  BY <1>1 DEF Moved

LEMMA FreeSteps ==
  ASSUME Inv, RunInv, NEW w \in Workers,
         \/ StartTheQueue(w) \/ LockWorker(w) \/ BeginWork(w) \/ StepFails(w)
         \/ EndWork(w) \/ Release(w) \/ Crash(w)
  PROVE  RunInv'
<1>1. UNCHANGED <<queue, run>>
  BY DEF StartTheQueue, LockWorker, BeginWork, StepFails, EndWork, Release, Crash
<1>2. \E p \in Free : Moved(w, p)
  BY IdleMoves, StartMoves, GoesMoves, LoopsMoves, EndsMoves
     DEF LockWorker, BeginWork, StepFails, GivesUp, EndWork, Release, Crash, Free
<1>3. QED
  BY <1>1, <1>2, FreeKeeps

LEMMA ClaimedNextHolds ==
  ASSUME RunInv, NEW i \in InState("claimed")
  PROVE  LET d == claimedNext(i, queue[i].run) IN
         /\ d.goal = i
         /\ \/ d.pc = "create"
            \/ d.pc = "drive" /\ ~ RunOf(i).asked
            \/ /\ d.pc = "settle" /\ d.to \in Settled
               /\ RunOf(i).status \in Ended \cup {"paused", "gone"} /\ ~ Unsettled(queue[i].run)
<1>1. i \in DOMAIN queue /\ queue[i].state = "claimed"
  BY DEF InState
<1>2. RunOf(i) \in RunFiles
  BY <1>1, Goal DEF RunInv
<1>3. RunOf(i).asked => RunOf(i).status = "paused" /\ RunOf(i).pause = "gate"
  BY <1>1 DEF RunInv, StandInv
<1>4. CASE ~ Exists(queue[i].run)
  BY <1>4 DEF claimedNext, Decision
<1>5. CASE Exists(queue[i].run) /\ run[queue[i].run].status \in Ended
  BY <1>5 DEF claimedNext, Decision, endedAs, Settled, Ended, Unsettled, RunOf
<1>6. CASE Exists(queue[i].run) /\ run[queue[i].run].status \notin Ended /\ GateAsked(queue[i].run)
  BY <1>3, <1>6 DEF claimedNext, Decision, Settled, Unsettled, RunOf, GateAsked
<1>7. CASE Exists(queue[i].run) /\ run[queue[i].run].status \notin Ended /\ ~ GateAsked(queue[i].run)
  BY <1>2, <1>3, <1>7 DEF claimedNext, Decision, RunOf, GateAsked
<1>8. QED
  BY <1>4, <1>5, <1>6, <1>7

LEMMA ApprovedNextHolds ==
  ASSUME RunInv, NEW i \in InState("approved")
  PROVE  LET d == approvedNext(i, queue[i].run) IN
         /\ d.goal = i
         /\ \/ d.pc = "drive"
            \/ /\ d.pc = "settle" /\ d.to \in Settled
               /\ RunOf(i).status \in Ended \cup {"paused", "gone"} /\ ~ Unsettled(queue[i].run)
<1>1. i \in DOMAIN queue /\ queue[i].state = "approved"
  BY DEF InState
<1>2. RunOf(i).status \in RunStates \ {"missing", "copy"}
  <2>1. RunOf(i) \in RunFiles
    BY <1>1, Goal DEF RunInv
  <2>2. QED
    BY <1>1, <2>1 DEF RunInv, StandInv, RunFiles
<1>3. CASE ~ Exists(queue[i].run)
  BY <1>2, <1>3 DEF approvedNext, Decision, Exists, RunStates, Settled, Unsettled, RunOf
<1>4. CASE Exists(queue[i].run) /\ run[queue[i].run].status \in Ended
  BY <1>4 DEF approvedNext, Decision, endedAs, Settled, Ended, Unsettled, RunOf
<1>5. CASE Exists(queue[i].run) /\ run[queue[i].run].status \notin Ended
  BY <1>5 DEF approvedNext, Decision
<1>6. QED
  BY <1>3, <1>4, <1>5

\* A decision is what the worker will rely on.
LEMMA NextStepHolds ==
  ASSUME RunInv
  PROVE  LET d == NextStep IN
         \/ d.pc = "ending"
         \/ d.pc = "claim" /\ d.goal \in DOMAIN queue
         \/ d.pc = "create" /\ d.goal \in InState("claimed")
         \/ d.pc = "drive" /\ d.goal \in Kept /\ (d.goal \in InState("claimed") => ~ RunOf(d.goal).asked)
         \/ /\ d.pc = "settle" /\ d.goal \in Kept /\ d.to \in Settled
            /\ RunOf(d.goal).status \in Ended \cup {"paused", "gone"} /\ ~ Unsettled(queue[d.goal].run)
<1>1. \A s : InState(s) \in SUBSET Nat
  BY DEF RunInv, GoalsInv, InState
<1>2. CASE InState("claimed") # {}
  <2> DEFINE i == First(InState("claimed"))
  <2>1. i \in InState("claimed")
    BY <1>1, <1>2, FirstIsOne
  <2>2. NextStep = claimedNext(i, queue[i].run)
    BY <1>2 DEF NextStep
  <2> HIDE DEF i
  <2>3. QED
    BY <2>1, <2>2, ClaimedNextHolds DEF Kept
<1>3. CASE InState("claimed") = {} /\ InState("approved") # {}
  <2> DEFINE i == First(InState("approved"))
  <2>1. i \in InState("approved")
    BY <1>1, <1>3, FirstIsOne
  <2>2. NextStep = approvedNext(i, queue[i].run)
    BY <1>3 DEF NextStep
  <2> HIDE DEF i
  <2>3. QED
    BY <1>3, <2>1, <2>2, ApprovedNextHolds DEF Kept
<1>4. CASE InState("claimed") = {} /\ InState("approved") = {} /\ InState("queued") # {}
  <2>1. First(InState("queued")) \in InState("queued")
    BY <1>1, <1>4, FirstIsOne
  <2>2. NextStep = Decision("claim", First(InState("queued")), "none")
    BY <1>4 DEF NextStep
  <2>3. QED
    BY <2>1, <2>2 DEF Decision, InState
<1>5. CASE InState("claimed") = {} /\ InState("approved") = {} /\ InState("queued") = {}
  BY <1>5 DEF NextStep, Decision
<1>6. QED
  BY <1>2, <1>3, <1>4, <1>5

LEMMA DecideKeeps == ASSUME Inv, RunInv, NEW w \in Workers, Decide(w) PROVE RunInv'
<1>1. UNCHANGED <<queue, run>>
  BY DEF Decide
<1>2. CASE worker[w].cancelled
  BY <1>1, <1>2, EndsMoves, FreeKeeps DEF Decide, Free
<1>3. CASE ~ worker[w].cancelled
  <2> DEFINE d == NextStep
             r == [worker[w] EXCEPT !.pc = d.pc, !.goal = d.goal, !.to = d.to,
                     !.stop = IF d.pc = "ending" THEN "drained" ELSE "none"]
  <2>1. worker' = [worker EXCEPT ![w] = r]
    BY <1>3 DEF Decide
  <2>2. IsWorker(worker[w]) /\ worker = [x \in Workers |-> worker[x]]
    BY DEF Inv, WorkerInv
  <2>3. r.pc = d.pc /\ r.goal = d.goal /\ r.to = d.to
    <3> HIDE DEF d
    <3> QED
      BY <2>2 DEF IsWorker
  <2> HIDE DEF r
  <2>4. /\ worker'[w].pc = d.pc /\ worker'[w].goal = d.goal /\ worker'[w].to = d.to
        /\ \A x \in Workers \ {w} : worker'[x] = worker[x]
    BY <2>1, <2>2, <2>3
  <2> HIDE DEF d
  <2>5. Hand(w)'
    BY <1>1, <2>4, NextStepHolds DEF d, Hand, At, InState, Kept, RunOf, Exists, Unsettled
  <2>6. QED
    BY <1>1, <2>4, <2>5, OthersHandsKept
<1>4. QED
  BY <1>2, <1>3

\* What a worker goes to, it goes to with the same goal in hand.
LEMMA GoesWithItsGoal ==
  ASSUME Inv, NEW w \in Workers, NEW p, Goes(w, p)
  PROVE  /\ worker'[w].pc = p /\ worker'[w].goal = worker[w].goal /\ worker'[w].to = worker[w].to
         /\ \A x \in Workers \ {w} : worker'[x] = worker[x]
<1> DEFINE r == [worker[w] EXCEPT !.pc = p]
<1>1. r.pc = p /\ r.goal = worker[w].goal /\ r.to = worker[w].to
  BY DEF Inv, WorkerInv, IsWorker
<1>2. worker' = [worker EXCEPT ![w] = r]
  BY DEF Goes
<1> HIDE DEF r
<1>3. QED
  BY <1>1, <1>2 DEF Inv, WorkerInv

LEMMA LookAgainKeeps == ASSUME Inv, RunInv, NEW w \in Workers, LookAgain(w) PROVE RunInv'
<1>1. UNCHANGED <<queue, run>>
  BY DEF LookAgain
<1>2. CASE Exists(RunIn(w))
  BY <1>1, <1>2, EndsMoves, FreeKeeps DEF LookAgain, GivesUp, Free
<1>3. CASE ~ Exists(RunIn(w))
  <2>1. /\ worker'[w].pc = "reclaim" /\ worker'[w].goal = worker[w].goal
        /\ \A x \in Workers \ {w} : worker'[x] = worker[x]
    BY <1>3, GoesWithItsGoal DEF LookAgain
  <2>2. Hand(w)'
    BY <1>1, <1>3, <2>1 DEF LookAgain, RunInv, HandInv, Hand, At, RunIn, Exists, InState
  <2>3. QED
    BY <1>1, <2>1, <2>2, OthersHandsKept
<1>4. QED
  BY <1>2, <1>3

LEMMA CancelKeeps == ASSUME Inv, RunInv, NEW w \in Workers, Cancel(w) PROVE RunInv'
<1> DEFINE r == [worker[w] EXCEPT !.cancelled = TRUE]
<1>1. r.pc = worker[w].pc /\ r.goal = worker[w].goal /\ r.to = worker[w].to
  BY DEF Inv, WorkerInv, IsWorker
<1>2. worker' = [worker EXCEPT ![w] = r] /\ UNCHANGED <<queue, run>>
  BY DEF Cancel
<1> HIDE DEF r
<1>3. /\ worker'[w].pc = worker[w].pc /\ worker'[w].goal = worker[w].goal
      /\ worker'[w].to = worker[w].to /\ \A x \in Workers \ {w} : worker'[x] = worker[x]
  BY <1>1, <1>2 DEF Inv, WorkerInv
<1>4. Hand(w)'
  <2>1. Hand(w)
    BY DEF RunInv, HandInv
  <2>2. QED
    BY <1>2, <1>3, <2>1, SameHand
<1>5. QED
  BY <1>2, <1>3, <1>4, OthersHandsKept

-----------------------------------------------------------------------------
(***************************************************************************)
(* Steps of a worker that make and drive the run it has in hand.           *)
(***************************************************************************)
LEMMA NewRunIDType ==
  ASSUME GoalsInv
  PROVE  /\ NewRunID \in Nat
         /\ IsFiniteSet({i \in DOMAIN queue : queue[i].run # NoRun})
         /\ \A i \in DOMAIN queue : queue[i].run = NoRun => NewRunID <= Len(queue)
<1> DEFINE H == {i \in DOMAIN queue : queue[i].run # NoRun}
           L == 1 .. Len(queue)
<1>1. Len(queue) \in Nat /\ DOMAIN queue = L
  BY DEF GoalsInv
<1>2. IsFiniteSet(L) /\ Cardinality(L) = Len(queue)
  <2>1. 1 \in Int /\ Len(queue) \in Int /\ (1 > Len(queue) => Len(queue) = 0)
    BY <1>1
  <2> HIDE DEF L
  <2>2. IsFiniteSet(1 .. Len(queue))
        /\ Cardinality(1 .. Len(queue)) = IF 1 > Len(queue) THEN 0 ELSE Len(queue) - 1 + 1
    BY <2>1, FS_Interval
  <2>3. QED
    BY <1>1, <2>1, <2>2 DEF L
<1>3. IsFiniteSet(H) /\ Cardinality(H) \in Nat
  BY <1>1, <1>2, FS_Subset, FS_CardinalityType
<1>4. ASSUME NEW i \in DOMAIN queue, queue[i].run = NoRun PROVE Cardinality(H) + 1 <= Len(queue)
  <2>1. IsFiniteSet(L \ {i}) /\ Cardinality(L \ {i}) = Len(queue) - 1
    <3>1. i \in L
      BY <1>1
    <3> HIDE DEF L
    <3>2. QED
      BY <1>2, <3>1, FS_RemoveElement
  <2>2. H \in SUBSET (L \ {i})
    BY <1>1, <1>4
  <2>3. Cardinality(H) <= Cardinality(L \ {i})
    BY <2>1, <2>2, FS_Subset
  <2>4. QED
    BY <1>1, <1>3, <2>1, <2>3
<1>5. QED
  BY <1>3, <1>4 DEF NewRunID

\* Only the holder of the lock has a goal in hand.
LEMMA OthersAreFree ==
  ASSUME Inv, NEW w \in Workers, worker[w].pc \in Inside, NEW x \in Workers \ {w}
  PROVE  worker[x].pc \in Free
BY DEF Inv, LockInv, Outside, Inside, Free

\* What a step may do to one goal's run.
LEMMA OneRunChanges ==
  ASSUME RunInv, NEW i \in DOMAIN queue, queue[i].run # NoRun,
         NEW f \in RunFiles, run' = [run EXCEPT ![queue[i].run] = f], UNCHANGED queue,
         i \in InState("claimed") =>
           f.status # "gone" /\ (f.asked => f.status = "paused" /\ f.pause = "gate"),
         i \in InState("waiting") \cup InState("approved") => f.status \notin {"missing", "copy"},
         i \in Kept \/ ~ Unsettled(queue[i].run)'
  PROVE  GoalsInv' /\ FreshInv' /\ StandInv' /\ NothingLost'
<1> DEFINE r == queue[i].run
<1>1. r # NoRun /\ r \in Runs
  BY Goal DEF RunInv
<1>2. /\ run' \in [Runs -> RunFiles] /\ run'[r] = f
      /\ \A s \in Runs \ {r} : run'[s] = run[s]
  BY <1>1 DEF RunInv, FreshInv
<1>3. \A k \in DOMAIN queue \ {i} : queue[k].run # r
  BY <1>1 DEF RunInv, GoalsInv
<1>4. NewRunID' = NewRunID /\ (\A s : InState(s)' = InState(s)) /\ NewRunID \in Nat /\ r < NewRunID
  BY <1>1, NewRunIDType DEF NewRunID, InState, RunInv, GoalsInv
<1> HIDE DEF r
<1>5. GoalsInv'
  BY <1>4 DEF RunInv, GoalsInv
<1>6. FreshInv'
  BY <1>1, <1>2, <1>4 DEF RunInv, FreshInv, Runs
<1>7. StandInv'
  <2>1. ASSUME NEW k \in DOMAIN queue, k # i, queue[k].run # NoRun
        PROVE  run'[queue[k].run] = run[queue[k].run]
    BY <1>2, <1>3, <2>1, Goal DEF RunInv
  <2>2. ASSUME NEW k \in DOMAIN queue, queue[k].state \in {"claimed", "waiting", "approved"}
        PROVE  queue[k].run # NoRun
    BY <2>2, Goal DEF RunInv
  <2>3. run'[queue[i].run] = f
    BY <1>2 DEF r
  <2>4. QED
    BY <2>1, <2>2, <2>3 DEF RunInv, StandInv, InState, RunOf
<1>8. NothingLost'
  <2>1. ASSUME NEW s \in Runs, Unsettled(s)'
        PROVE  \E k \in InState("claimed") \cup InState("approved") : queue[k].run = s
    <3>1. CASE s = r
      BY <2>1, <3>1 DEF Kept, r
    <3>2. CASE s # r
      <4>1. Unsettled(s)
        BY <1>2, <2>1, <3>2 DEF Unsettled
      <4>2. QED
        BY <4>1 DEF RunInv, NothingLost, Unsettled
    <3>3. QED
      BY <3>1, <3>2
  <2>2. QED
    BY <1>4, <2>1 DEF NothingLost, Unsettled
<1>9. QED
  BY <1>5, <1>6, <1>7, <1>8

LEMMA RunInHandChanges ==
  ASSUME Inv, RunInv, NEW w \in Workers, worker[w].pc \in Inside, worker[w].goal \in Kept,
         NEW f \in RunFiles, run' = [run EXCEPT ![RunIn(w)] = f], UNCHANGED queue,
         \A x \in Workers \ {w} : worker'[x] = worker[x],
         worker[w].goal \in InState("claimed") =>
           f.status # "gone" /\ (f.asked => f.status = "paused" /\ f.pause = "gate"),
         worker[w].goal \in InState("approved") => f.status \notin {"missing", "copy"},
         Hand(w)'
  PROVE  RunInv'
<1>1. PICK i : i = worker[w].goal
  OBVIOUS
<1>2. /\ i \in DOMAIN queue /\ queue[i].run # NoRun /\ i \in Kept
      /\ i \notin InState("waiting")
  BY <1>1, Goal DEF Kept, InState, RunInv
<1>3. run' = [run EXCEPT ![queue[i].run] = f]
  BY <1>1 DEF RunIn
<1>4. GoalsInv' /\ FreshInv' /\ StandInv' /\ NothingLost'
  BY <1>1, <1>2, <1>3, OneRunChanges
<1>5. \A x \in Workers \ {w} : Hand(x)'
  BY OthersAreFree DEF Hand, At, Free
<1>6. QED
  BY <1>4, <1>5 DEF RunInv, HandInv

LEMMA MakingKeeps ==
  ASSUME Inv, RunInv, NEW w \in Workers, Reclaim(w) \/ Copy(w)
  PROVE  RunInv'
<1> DEFINE i == worker[w].goal
           f == IF At(w, "reclaim") THEN NoRunYet ELSE [run[RunIn(w)] EXCEPT !.status = "copy"]
<1>1. /\ worker[w].pc \in {"reclaim", "copy"} /\ i \in InState("claimed") /\ ~ Exists(queue[i].run)
      /\ UNCHANGED queue
  BY DEF Reclaim, Copy, At, RunInv, HandInv, Hand
<1>2. i \in DOMAIN queue /\ queue[i].state = "claimed" /\ queue[i].run \in Runs /\ RunOf(i) \in RunFiles
  BY <1>1, Goal DEF InState, RunInv
<1>3. run' = [run EXCEPT ![RunIn(w)] = f]
  BY <1>1 DEF Reclaim, Copy, At
<1>4. ~ RunOf(i).asked
  BY <1>1, <1>2 DEF RunInv, StandInv, Exists, RunOf
<1>5. f \in RunFiles /\ f.status \in {"missing", "copy"} /\ ~ f.asked
  BY <1>2, <1>4 DEF NoRunYet, RunFiles, RunStates, Pauses, RunIn, RunOf
<1>6. /\ worker'[w].pc \in {"copy", "make"} /\ worker'[w].goal = i
      /\ \A x \in Workers \ {w} : worker'[x] = worker[x]
  BY GoesWithItsGoal DEF Reclaim, Copy
<1> HIDE DEF f
<1>7. run'[queue[i].run] = f
  BY <1>2, <1>3 DEF RunIn, RunInv, FreshInv
<1>8. Hand(w)'
  BY <1>1, <1>5, <1>6, <1>7 DEF Hand, At, InState, Exists, Ended
<1>9. i \in Kept /\ i \notin InState("approved") /\ worker[w].pc \in Inside
  BY <1>1, <1>2 DEF Kept, InState, Inside
<1>10. QED
  BY <1>1, <1>3, <1>5, <1>6, <1>8, <1>9, RunInHandChanges

\* A run is made, or a dispatch of it begins.
LEMMA RunningKeeps ==
  ASSUME Inv, RunInv, NEW w \in Workers,
         (CreateRun(w) /\ ~ Exists(RunIn(w))) \/ Drive(w)
  PROVE  RunInv'
<1> DEFINE i == worker[w].goal
           f == [run[RunIn(w)] EXCEPT !.status = "running"]
<1>1. /\ worker[w].pc \in {"make", "drive"} /\ i \in Kept /\ UNCHANGED queue
      /\ run' = [run EXCEPT ![RunIn(w)] = f]
  BY DEF CreateRun, Drive, At, RunInv, HandInv, Hand, Kept
<1>2. i \in DOMAIN queue /\ queue[i].run \in Runs /\ RunOf(i) \in RunFiles
  BY <1>1, Goal DEF InState, Kept, RunInv
<1>3. i \in InState("claimed") => ~ RunOf(i).asked
  <2>1. CASE CreateRun(w) /\ ~ Exists(RunIn(w))
    BY <1>2, <2>1 DEF RunInv, StandInv, Exists, RunOf, RunIn, InState
  <2>2. CASE Drive(w)
    BY <2>2 DEF Drive, At, RunInv, HandInv, Hand
  <2>3. QED
    BY <2>1, <2>2
<1>4. f \in RunFiles /\ f.status = "running" /\ f.asked = RunOf(i).asked
  BY <1>2 DEF RunFiles, RunStates, RunIn, RunOf
<1>5. /\ worker'[w].pc = "loop" \/ (worker'[w].pc = "driving" /\ worker'[w].goal = i)
      /\ \A x \in Workers \ {w} : worker'[x] = worker[x]
  BY GoesWithItsGoal, LoopsMoves, OneMoves DEF CreateRun, Drive
<1> HIDE DEF f
<1>6. run'[queue[i].run] = f
  BY <1>1, <1>2 DEF RunIn, RunInv, FreshInv
<1>7. Hand(w)'
  BY <1>1, <1>3, <1>4, <1>5, <1>6 DEF Hand, At, InState, Kept, RunOf
<1>8. worker[w].pc \in Inside
  BY <1>1 DEF Inside
<1>9. QED
  BY <1>1, <1>3, <1>4, <1>5, <1>7, <1>8, RunInHandChanges

\* How a dispatch leaves a run: ended, or paused by the gate or a limit.
LEMMA LeavesSettled ==
  ASSUME NEW g \in RunFiles, NEW no \in BOOLEAN, NEW f \in Leaves(g, no)
  PROVE  /\ f \in RunFiles /\ f.status \in Ended \cup {"paused"}
         /\ f.status = "paused" => f.pause \in {"gate", "limit"}
         /\ f.asked => f.status = "paused" /\ (f.pause = "gate" \/ g.asked)
<1>1. CASE f \in {[NoRunYet EXCEPT !.status = s] : s \in Ended}
  BY <1>1 DEF NoRunYet, RunFiles, RunStates, Pauses, Ended
<1>2. CASE f \in {Paused(g, asked, "limit") : asked \in {FALSE, g.asked}}
  BY <1>2 DEF Paused, RunFiles, RunStates, Pauses
<1>3. CASE f = Paused(g, TRUE, "gate")
  BY <1>3 DEF Paused, RunFiles, RunStates, Pauses
<1>4. QED
  BY <1>1, <1>2, <1>3 DEF Leaves

LEMMA DispatchedKeeps == ASSUME Inv, RunInv, NEW w \in Workers, Dispatched(w) PROVE RunInv'
<1> DEFINE i == worker[w].goal
<1>1. /\ worker[w].pc = "driving" /\ i \in Kept /\ UNCHANGED queue
      /\ i \in InState("claimed") => ~ RunOf(i).asked
  BY DEF Dispatched, At, RunInv, HandInv, Hand
<1>2. /\ i \in DOMAIN queue /\ queue[i].run \in Runs /\ RunOf(i) \in RunFiles
      /\ queue[i].no_approval \in BOOLEAN
  BY <1>1, Goal DEF InState, Kept, RunInv, Entry
<1>3. PICK f \in Leaves(RunOf(i), queue[i].no_approval) :
        /\ run' = [run EXCEPT ![RunIn(w)] = f]
        /\ worker' = [worker EXCEPT ![w].pc = "settle", ![w].to = goalOutcome(f)]
  BY DEF Dispatched, RunIn, RunOf
<1>4. /\ f \in RunFiles /\ f.status \in Ended \cup {"paused"}
      /\ f.status = "paused" => f.pause \in {"gate", "limit"}
      /\ f.asked => f.status = "paused" /\ (f.pause = "gate" \/ RunOf(i).asked)
  BY <1>2, <1>3, LeavesSettled
<1>5. goalOutcome(f) \in Settled
  BY DEF goalOutcome, endedAs, Settled, Ended
<1>6. /\ worker'[w].pc = "settle" /\ worker'[w].goal = i /\ worker'[w].to = goalOutcome(f)
      /\ \A x \in Workers \ {w} : worker'[x] = worker[x]
  <2> DEFINE o == goalOutcome(f)
             r == [worker[w] EXCEPT !.pc = "settle", !.to = o]
  <2>1. worker' = [worker EXCEPT ![w] = r]
    BY <1>3
  <2> HIDE DEF o
  <2>2. r.pc = "settle" /\ r.goal = i /\ r.to = o
    BY DEF Inv, WorkerInv, IsWorker
  <2> HIDE DEF r
  <2>3. QED
    BY <2>1, <2>2 DEF Inv, WorkerInv, o
<1>7. run'[queue[i].run] = f
  BY <1>2, <1>3 DEF RunIn, RunInv, FreshInv
<1>8. Hand(w)'
  BY <1>1, <1>4, <1>5, <1>6, <1>7 DEF Hand, At, InState, Kept, RunOf, Unsettled, Ended
<1>9. worker[w].pc \in Inside
  BY <1>1 DEF Inside
<1>10. f.status \notin {"gone", "missing", "copy"}
  BY <1>4 DEF Ended
<1>11. QED
  BY <1>1, <1>3, <1>4, <1>6, <1>8, <1>9, <1>10, RunInHandChanges

LEMMA InterruptedKeeps == ASSUME Inv, RunInv, NEW w \in Workers, DispatchInterrupted(w) PROVE RunInv'
<1> DEFINE i == worker[w].goal
<1>1. /\ worker[w].pc = "driving" /\ i \in Kept /\ UNCHANGED queue
      /\ i \in InState("claimed") => ~ RunOf(i).asked
  BY DEF DispatchInterrupted, At, RunInv, HandInv, Hand
<1>2. i \in DOMAIN queue /\ queue[i].run \in Runs /\ RunOf(i) \in RunFiles
  BY <1>1, Goal DEF InState, Kept, RunInv
<1>3. PICK asked \in {FALSE, RunOf(i).asked} :
        run' = [run EXCEPT ![RunIn(w)] = Paused(RunOf(i), asked, "canceled")]
  BY DEF DispatchInterrupted, RunIn, RunOf
<1> DEFINE f == Paused(RunOf(i), asked, "canceled")
<1>4. f \in RunFiles /\ f.status = "paused" /\ (f.asked => RunOf(i).asked)
  BY <1>2, <1>3 DEF Paused, RunFiles, RunStates, Pauses
<1>5. worker'[w].pc = "ending" /\ \A x \in Workers \ {w} : worker'[x] = worker[x]
  BY EndsMoves, OneMoves DEF DispatchInterrupted
<1>6. Hand(w)' /\ worker[w].pc \in Inside
  BY <1>1, <1>5 DEF Hand, At, Inside
<1> HIDE DEF f
<1>7. run' = [run EXCEPT ![RunIn(w)] = f]
  BY <1>3 DEF f
<1>8. QED
  BY <1>1, <1>4, <1>5, <1>6, <1>7, RunInHandChanges

LEMMA CreateRunKeeps == ASSUME Inv, RunInv, NEW w \in Workers, CreateRun(w) PROVE RunInv'
<1>1. CASE Exists(RunIn(w))
  <2>1. Moved(w, "ending") /\ UNCHANGED <<queue, run>>
    BY <1>1, EndsMoves DEF CreateRun, GivesUp
  <2>2. QED
    BY <2>1, FreeKeeps DEF Free
<1>2. CASE ~ Exists(RunIn(w))
  BY <1>2, RunningKeeps
<1>3. QED
  BY <1>1, <1>2

-----------------------------------------------------------------------------
(***************************************************************************)
(* Steps that move a goal.                                                 *)
(***************************************************************************)
LEMMA GoalChanges ==
  ASSUME RunInv, NEW i \in DOMAIN queue, NEW s \in States \ {"queued", "claimed"},
         Change(i, s), UNCHANGED run,
         s = "removed" <=> queue[i].run = NoRun,
         s \in {"waiting", "approved"} => RunOf(i).status \notin {"missing", "copy"},
         s = "approved" \/ queue[i].run = NoRun \/ ~ Unsettled(queue[i].run)
  PROVE  GoalsInv' /\ FreshInv' /\ StandInv' /\ NothingLost'
<1> DEFINE e == [queue[i] EXCEPT !.state = s]
<1>1. queue \in Seq(Entry) /\ i \in 1 .. Len(queue) /\ queue[i] \in Entry
  BY DEF RunInv, GoalsInv
<1>2. e \in Entry /\ e.state = s /\ e.run = queue[i].run
  BY <1>1 DEF Entry
<1>3. queue' = [queue EXCEPT ![i] = e]
  BY DEF Change
<1> HIDE DEF e
<1>4. /\ queue' \in Seq(Entry) /\ Len(queue') = Len(queue) /\ DOMAIN queue' = DOMAIN queue
      /\ queue'[i] = e /\ \A k \in DOMAIN queue \ {i} : queue'[k] = queue[k]
  BY <1>1, <1>2, <1>3
<1>5. \A k \in DOMAIN queue : queue'[k].run = queue[k].run
  BY <1>2, <1>4
<1>6. NewRunID' = NewRunID
  BY <1>4, <1>5 DEF NewRunID
<1>7. GoalsInv'
  <2>1. \A k \in DOMAIN queue :
          queue'[k].state \in {"queued", "removed"} <=> queue'[k].run = NoRun
    BY <1>2, <1>4 DEF RunInv, GoalsInv
  <2>2. QED
    BY <1>4, <1>5, <1>6, <2>1 DEF RunInv, GoalsInv
<1>8. FreshInv'
  BY <1>6 DEF RunInv, FreshInv
<1>9. StandInv'
  BY <1>2, <1>4 DEF RunInv, StandInv, RunOf
<1>10. NothingLost'
  <2>1. ASSUME NEW r \in Runs, Unsettled(r)
        PROVE  \E k \in InState("claimed")' \cup InState("approved")' : queue'[k].run = r
    <3>1. PICK k \in Kept : queue[k].run = r
      BY <2>1 DEF RunInv, NothingLost, Unsettled, Kept
    <3>2. k \in DOMAIN queue /\ r # NoRun
      BY QueueAssumption DEF Kept, InState, Runs, NoRun
    <3>3. k = i => s = "approved"
      BY <2>1, <3>1, <3>2
    <3>4. k \in InState("claimed")' \cup InState("approved")'
      BY <1>2, <1>4, <3>1, <3>2, <3>3 DEF Kept, InState
    <3>5. QED
      BY <1>5, <3>1, <3>2, <3>4
  <2>2. QED
    BY <2>1 DEF NothingLost, Unsettled
<1>11. QED
  BY <1>7, <1>8, <1>9, <1>10

\* No worker but the lock's holder relies on a goal, and it on one that is not
\* moved under it.
LEMMA GoalMovesAside ==
  ASSUME RunInv, NEW i \in DOMAIN queue, NEW s, Change(i, s), UNCHANGED <<worker, run>>,
         i \notin Kept
  PROVE  HandInv'
<1>1. queue \in Seq(Entry) /\ DOMAIN queue' = DOMAIN queue
      /\ \A k \in DOMAIN queue \ {i} : queue'[k] = queue[k]
  BY DEF Change, RunInv, GoalsInv
<1>2. ASSUME NEW k \in Kept
      PROVE  /\ k \in Kept' /\ queue'[k] = queue[k]
             /\ k \in InState("claimed")' <=> k \in InState("claimed")
  BY <1>1 DEF Kept, InState
<1>3. ASSUME NEW w \in Workers PROVE Hand(w)'
  <2>1. Hand(w)
    BY DEF RunInv, HandInv
  <2>2. InState("claimed") \subseteq Kept
    BY DEF Kept
  <2>3. QED
    BY <1>1, <1>2, <2>1, <2>2 DEF Hand, At, RunOf, Exists, Unsettled
<1>4. QED
  BY <1>3 DEF HandInv

LEMMA SettleKeeps == ASSUME Inv, RunInv, NEW w \in Workers, Settle(w) PROVE RunInv'
<1>1. PICK i : i = worker[w].goal
  OBVIOUS
<1>2. CASE ~ May(i, "settled")
  <2>1. Moved(w, "ending") /\ UNCHANGED <<queue, run>>
    BY <1>1, <1>2, EndsMoves DEF Settle, GivesUp
  <2>2. QED
    BY <2>1, FreeKeeps DEF Free
<1>3. CASE May(i, "settled")
  <2>1. PICK s : s = worker[w].to
    OBVIOUS
  <2>2. /\ worker[w].pc = "settle" /\ Change(i, s) /\ Loops(w) /\ UNCHANGED run
        /\ i \in Kept /\ s \in Settled
        /\ RunOf(i).status \in Ended \cup {"paused", "gone"} /\ ~ Unsettled(queue[i].run)
    BY <1>1, <1>3, <2>1 DEF Settle, At, RunInv, HandInv, Hand
  <2>3. i \in DOMAIN queue /\ queue[i].run # NoRun /\ s \in States \ {"queued", "claimed"}
        /\ s # "removed"
    BY <2>2, Goal DEF Kept, InState, RunInv, Settled, States
  <2>4. GoalsInv' /\ FreshInv' /\ StandInv' /\ NothingLost'
    BY <2>2, <2>3, GoalChanges DEF Ended
  <2>5. worker'[w].pc = "loop" /\ \A x \in Workers \ {w} : worker'[x] = worker[x]
    BY <2>2, LoopsMoves, OneMoves
  <2>6. worker[w].pc \in Inside
    BY <2>2 DEF Inside
  <2>7. HandInv'
    BY <2>5, <2>6, OthersAreFree DEF HandInv, Hand, At, Free
  <2>8. QED
    BY <2>4, <2>7 DEF RunInv
<1>4. QED
  BY <1>2, <1>3

LEMMA ClaimKeeps == ASSUME Inv, RunInv, NEW w \in Workers, Claim(w) PROVE RunInv'
<1>1. PICK i : i = worker[w].goal
  OBVIOUS
<1>2. i \in DOMAIN queue /\ worker[w].pc \in Inside /\ UNCHANGED run
  BY <1>1 DEF Claim, At, RunInv, HandInv, Hand, Inside
<1>3. CASE ~ (May(i, "claimed") /\ InState("claimed") = {})
  <2>1. Moved(w, "ending") /\ UNCHANGED <<queue, run>>
    BY <1>1, <1>3, EndsMoves DEF Claim, GivesUp
  <2>2. QED
    BY <2>1, FreeKeeps DEF Free
<1>4. CASE May(i, "claimed") /\ InState("claimed") = {}
  <2> DEFINE n == NewRunID
             e == [queue[i] EXCEPT !.state = "claimed", !.run = n]
  <2>1. /\ queue \in Seq(Entry) /\ i \in 1 .. Len(queue) /\ queue[i] \in Entry
        /\ queue[i].state = "queued" /\ queue[i].run = NoRun
    BY <1>2, <1>4 DEF RunInv, GoalsInv, May, Moves
  <2>2. n \in Runs /\ n \in Nat /\ n # NoRun
    <3>1. n \in Nat /\ n >= 1 /\ n <= Len(queue)
      BY <1>2, <2>1, NewRunIDType, FS_CardinalityType DEF RunInv, NewRunID
    <3> HIDE DEF n
    <3>2. QED
      BY <2>1, <3>1, QueueAssumption DEF RunInv, GoalsInv, Runs, NoRun
  <2>3. queue' = [queue EXCEPT ![i] = e]
    BY <1>1, <1>4 DEF Claim
  <2>4. NewRunID' = n + 1
    <3> DEFINE H == {k \in DOMAIN queue : queue[k].run # NoRun}
    <3>1. IsFiniteSet(H) /\ i \notin H /\ n = Cardinality(H) + 1 /\ Cardinality(H) \in Nat
      BY <2>1, NewRunIDType, FS_CardinalityType DEF RunInv, NewRunID
    <3>2. e.run # NoRun
      <4> HIDE DEF n
      <4> QED
        BY <2>1, <2>2 DEF Entry
    <3>3. {k \in DOMAIN queue' : queue'[k].run # NoRun} = H \cup {i}
      <4> HIDE DEF e
      <4> QED
        BY <2>1, <2>3, <3>2
    <3> HIDE DEF H, n
    <3>4. Cardinality(H \cup {i}) = Cardinality(H) + 1
      BY <3>1, FS_AddElement
    <3>5. QED
      BY <3>1, <3>3, <3>4 DEF NewRunID
  <2> HIDE DEF n
  <2>5. e \in Entry /\ e.state = "claimed" /\ e.run = n
    BY <2>1, <2>2 DEF Entry, States
  <2> HIDE DEF e
  <2>6. /\ queue' \in Seq(Entry) /\ Len(queue') = Len(queue) /\ DOMAIN queue' = DOMAIN queue
        /\ queue'[i] = e /\ \A k \in DOMAIN queue \ {i} : queue'[k] = queue[k]
    BY <2>1, <2>3, <2>5
  <2>7. \A k \in DOMAIN queue : queue[k].run < n /\ queue[k].run \in Nat
    <3>1. \A k \in DOMAIN queue : queue[k].run \in Nat
      <4> SUFFICES ASSUME NEW k \in DOMAIN queue PROVE queue[k].run \in Nat
        OBVIOUS
      <4>1. queue[k] \in Entry
        BY <2>1
      <4>2. QED
        BY <4>1, QueueAssumption DEF Entry, Runs, NoRun
    <3>2. QED
      BY <3>1 DEF RunInv, GoalsInv, n
  <2>8. GoalsInv'
    BY <2>2, <2>4, <2>5, <2>6, <2>7 DEF RunInv, GoalsInv
  <2>9. FreshInv'
    <3>1. \A r \in Runs : r >= n + 1 => r >= n
      BY <2>2, QueueAssumption DEF Runs
    <3>2. QED
      BY <1>2, <2>4, <3>1 DEF RunInv, FreshInv, n
  <2>10. run[n] = NoRunYet
    <3>1. n >= n
      BY <2>2
    <3>2. QED
      BY <2>2, <3>1 DEF RunInv, FreshInv, n
  <2>11. StandInv'
    BY <1>2, <2>5, <2>6, <2>10 DEF RunInv, StandInv, RunOf, NoRunYet
  <2>12. NothingLost'
    <3>1. \A k \in Kept : k \in Kept' /\ queue'[k].run = queue[k].run
      BY <2>1, <2>6 DEF Kept, InState
    <3>2. QED
      BY <1>2, <3>1 DEF RunInv, NothingLost, Kept
  <2>13. worker'[w].pc = "loop" /\ \A x \in Workers \ {w} : worker'[x] = worker[x]
    BY <1>1, <1>4, LoopsMoves, OneMoves DEF Claim
  <2>14. HandInv'
    BY <1>2, <2>13, OthersAreFree DEF HandInv, Hand, At, Free
  <2>15. QED
    BY <2>8, <2>9, <2>11, <2>12, <2>14 DEF RunInv
<1>5. QED
  BY <1>3, <1>4

-----------------------------------------------------------------------------
(***************************************************************************)
(* The person's steps.                                                     *)
(***************************************************************************)
LEMMA AddKeeps == ASSUME Inv, RunInv, NEW p \in People, Add(p) PROVE RunInv'
<1> DEFINE i == Len(queue) + 1
<1>1. PICK no \in BOOLEAN :
        queue' = Append(queue, [state |-> "queued", run |-> NoRun, no_approval |-> no])
  BY DEF Add
<1> DEFINE e == [state |-> "queued", run |-> NoRun, no_approval |-> no]
<1>2. e \in Entry /\ e.state = "queued" /\ e.run = NoRun
  BY <1>1 DEF Entry, States
<1> HIDE DEF e
<1>3. /\ queue \in Seq(Entry) /\ queue' = Append(queue, e) /\ i \in Goals
      /\ UNCHANGED <<run, worker>>
  BY <1>1 DEF RunInv, GoalsInv, Add, e
<1>4. /\ queue' \in Seq(Entry) /\ Len(queue') = i /\ i \notin DOMAIN queue
      /\ DOMAIN queue' = DOMAIN queue \cup {i} /\ queue'[i] = e
      /\ \A k \in DOMAIN queue : queue'[k] = queue[k]
  BY <1>2, <1>3
<1> HIDE DEF i
<1>5. NewRunID' = NewRunID /\ NewRunID > NoRun
  <2>1. {k \in DOMAIN queue' : queue'[k].run # NoRun} = {k \in DOMAIN queue : queue[k].run # NoRun}
    BY <1>2, <1>4
  <2>2. Cardinality({k \in DOMAIN queue : queue[k].run # NoRun}) \in Nat
    BY NewRunIDType, FS_CardinalityType DEF RunInv
  <2>3. NewRunID' = NewRunID
    BY <2>1 DEF NewRunID
  <2>4. NewRunID > 0
    <3> DEFINE H == {k \in DOMAIN queue : queue[k].run # NoRun}
    <3>1. Cardinality(H) \in Nat /\ NewRunID = Cardinality(H) + 1
      BY <2>2 DEF NewRunID
    <3> HIDE DEF H
    <3>2. QED
      BY <3>1
  <2>5. QED
    BY <2>3, <2>4 DEF NoRun
<1>6. GoalsInv'
  <2>1. Len(queue') <= MaxGoals
    BY <1>3, <1>4, QueueAssumption DEF Goals
  <2>2. QED
    BY <1>2, <1>4, <1>5, <2>1 DEF RunInv, GoalsInv
<1>7. FreshInv'
  BY <1>3, <1>5 DEF RunInv, FreshInv
<1>8. StandInv'
  BY <1>2, <1>3, <1>4 DEF RunInv, StandInv, RunOf
<1>9. \A k \in DOMAIN queue : /\ (k \in InState("claimed"))' <=> k \in InState("claimed")
                             /\ (k \in Kept)' <=> k \in Kept
  BY <1>4 DEF Kept, InState
<1>10. NothingLost'
  <2>1. \A k \in Kept : k \in Kept' /\ queue'[k].run = queue[k].run
    BY <1>4 DEF Kept, InState
  <2>2. QED
    BY <1>3, <2>1 DEF RunInv, NothingLost, Kept
<1>11. HandInv'
  <2>1. ASSUME NEW w \in Workers PROVE Hand(w)'
    <3>1. Hand(w)
      BY DEF RunInv, HandInv
    <3>2. InState("claimed") \subseteq Kept /\ Kept \subseteq DOMAIN queue
      BY DEF Kept, InState
    <3>3. QED
      BY <1>3, <1>4, <1>9, <3>1, <3>2 DEF Hand, At, RunOf, Exists, Unsettled
  <2>2. QED
    BY <2>1 DEF HandInv
<1>12. QED
  BY <1>6, <1>7, <1>8, <1>10, <1>11 DEF RunInv

\* Taking a goal back, or approving it: neither is a worker's to have in hand.
LEMMA RestingGoalKeeps ==
  ASSUME Inv, RunInv,
         NEW i, NEW event \in {"removed", "approved"}, May(i, event), Change(i, event),
         UNCHANGED <<worker, run>>
  PROVE  RunInv'
<1>1. CASE i \notin DOMAIN queue
  <2>1. queue' = queue
    BY <1>1 DEF Change, RunInv, GoalsInv
  <2>2. NewRunID' = NewRunID /\ \A s : InState(s)' = InState(s)
    BY <2>1 DEF NewRunID, InState
  <2>3. QED
    BY <2>1, <2>2 DEF RunInv, GoalsInv, FreshInv, StandInv, NothingLost, HandInv, Hand, At, Kept,
                      RunOf, Exists, Unsettled
<1>2. CASE i \in DOMAIN queue
  <2>1. i \notin Kept
    BY DEF May, Moves, Kept, InState
  <2>2. event \in States \ {"queued", "claimed"}
    BY DEF States
  <2>3. event = "removed" <=> queue[i].run = NoRun
    BY <1>2 DEF May, Moves, RunInv, GoalsInv
  <2>4. event = "approved" => RunOf(i).status \notin {"missing", "copy"}
    BY <1>2 DEF May, Moves, RunInv, StandInv
  <2>5. GoalsInv' /\ FreshInv' /\ StandInv' /\ NothingLost'
    BY <1>2, <2>2, <2>3, <2>4, GoalChanges
  <2>6. HandInv'
    BY <1>2, <2>1, GoalMovesAside
  <2>7. QED
    BY <2>5, <2>6 DEF RunInv
<1>3. QED
  BY <1>1, <1>2

\* The run of a goal at rest changes, and no worker has it in hand.
LEMMA RestingRunKeeps ==
  ASSUME RunInv, NEW i \in DOMAIN queue, queue[i].state \in {"waiting", "paused", "approved"},
         \A w \in Workers : worker[w].goal = i => i \notin Kept,
         NEW f \in RunFiles, f.status \in Ended \cup {"paused", "gone"},
         f.status = "paused" => f.pause # "canceled",
         run' = [run EXCEPT ![queue[i].run] = f], UNCHANGED <<queue, worker>>
  PROVE  RunInv'
<1>1. queue[i].run # NoRun /\ queue[i].run \in Runs
  BY Goal DEF RunInv
<1>2. /\ run'[queue[i].run] = f
      /\ \A r \in Runs \ {queue[i].run} : run'[r] = run[r]
  BY <1>1 DEF RunInv, FreshInv
<1>3. ~ Unsettled(queue[i].run)' /\ f.status \notin {"missing", "copy"}
  BY <1>2 DEF Unsettled, Ended
<1>4. GoalsInv' /\ FreshInv' /\ StandInv' /\ NothingLost'
  BY <1>1, <1>3, OneRunChanges DEF InState
<1>5. ASSUME NEW k \in Kept, k # i PROVE run'[queue[k].run] = run[queue[k].run]
  <2>1. k \in DOMAIN queue /\ queue[k].run \in Runs
    BY Goal DEF Kept, InState, RunInv
  <2>2. queue[k].run # queue[i].run
    BY <1>1, <1>5, <2>1 DEF RunInv, GoalsInv
  <2>3. QED
    BY <1>2, <2>1, <2>2
<1>6. (\A s : InState(s)' = InState(s)) /\ Kept' = Kept
  BY DEF InState, Kept
<1>7. ASSUME NEW w \in Workers PROVE Hand(w)'
  <2>1. Hand(w) /\ UNCHANGED worker[w]
    BY DEF RunInv, HandInv
  <2>2. worker[w].goal \in Kept => run'[queue[worker[w].goal].run] = run[queue[worker[w].goal].run]
    BY <1>5
  <2>3. InState("claimed") \subseteq Kept
    BY DEF Kept
  <2>4. QED
    BY <1>6, <2>1, <2>2, <2>3 DEF Hand, At, RunOf, Exists, Unsettled
<1>8. QED
  BY <1>4, <1>7 DEF RunInv, HandInv

LEMMA ResumeByHandKeeps == ASSUME RunInv, NEW i \in Goals, ResumeByHand(i) PROVE RunInv'
<1> DEFINE a == [run[queue[i].run] EXCEPT !.approved = @ \/ GateAsked(queue[i].run)]
<1>1. /\ i \in DOMAIN queue /\ queue[i].state \in {"waiting", "paused"} /\ i \notin Kept
      /\ UNCHANGED <<queue, worker>>
  BY DEF ResumeByHand, InState, Kept
<1>2. queue[i].run \in Runs /\ RunOf(i) \in RunFiles /\ queue[i].no_approval \in BOOLEAN
  BY <1>1, Goal DEF RunInv, Entry
<1>3. a \in RunFiles
  BY <1>2 DEF RunFiles, RunOf, GateAsked
<1>4. PICK f \in Leaves(a, queue[i].no_approval) : run' = [run EXCEPT ![queue[i].run] = f]
  BY DEF ResumeByHand
<1> HIDE DEF a
<1>5. /\ f \in RunFiles /\ f.status \in Ended \cup {"paused"}
      /\ f.status = "paused" => f.pause \in {"gate", "limit"}
  BY <1>2, <1>3, <1>4, LeavesSettled
<1>6. QED
  BY <1>1, <1>4, <1>5, RestingRunKeeps

LEMMA DeleteCopyKeeps == ASSUME RunInv, NEW i \in Goals, DeleteCopy(i) PROVE RunInv'
<1> DEFINE f == [NoRunYet EXCEPT !.status = "gone"]
<1>1. /\ i \in DOMAIN queue /\ queue[i].state \in {"waiting", "approved"}
      /\ \A w \in Workers : worker[w].goal # i
      /\ run' = [run EXCEPT ![queue[i].run] = f] /\ UNCHANGED <<queue, worker>>
  BY DEF DeleteCopy, InState
<1>2. f \in RunFiles /\ f.status = "gone"
  BY DEF NoRunYet, RunFiles, RunStates, Pauses
<1> HIDE DEF f
<1>3. QED
  BY <1>1, <1>2, RestingRunKeeps

\* The approval is one bit more in a run parked at its gate.
LEMMA ApproveRunKeeps == ASSUME RunInv, NEW p \in People, ApproveRun(p) PROVE RunInv'
<1>1. PICK r : run' = IF GateAsked(r) THEN [run EXCEPT ![r].approved = TRUE] ELSE run
  BY DEF ApproveRun
<1>2. UNCHANGED <<queue, worker>> /\ run \in [Runs -> RunFiles]
  BY DEF ApproveRun, RunInv, FreshInv
<1>3. /\ run' \in [Runs -> RunFiles]
      /\ \A s \in Runs : /\ run'[s].status = run[s].status /\ run'[s].asked = run[s].asked
                         /\ run'[s].pause = run[s].pause
                         /\ run[s] = NoRunYet => run'[s] = NoRunYet
  <2>1. CASE r \in Runs /\ GateAsked(r)
    <3> DEFINE f == [run[r] EXCEPT !.approved = TRUE]
    <3>1. f \in RunFiles /\ f.status = run[r].status /\ f.asked = run[r].asked
          /\ f.pause = run[r].pause
      BY <1>2, <2>1 DEF RunFiles
    <3>2. run' = [run EXCEPT ![r] = f] /\ run[r] # NoRunYet
      BY <1>1, <2>1 DEF GateAsked, NoRunYet
    <3> HIDE DEF f
    <3>3. QED
      BY <1>2, <2>1, <3>1, <3>2
  <2>2. CASE r \notin Runs \/ ~ GateAsked(r)
    BY <1>1, <1>2, <2>2
  <2>3. QED
    BY <2>1, <2>2
<1>4. NewRunID' = NewRunID /\ (\A s : InState(s)' = InState(s)) /\ Kept' = Kept
  BY <1>2 DEF NewRunID, InState, Kept
<1>5. GoalsInv' /\ FreshInv'
  BY <1>2, <1>3, <1>4 DEF RunInv, GoalsInv, FreshInv
<1>6. ASSUME NEW i \in DOMAIN queue, queue[i].run # NoRun
      PROVE  /\ RunOf(i)'.status = RunOf(i).status /\ RunOf(i)'.asked = RunOf(i).asked
             /\ RunOf(i)'.pause = RunOf(i).pause
  BY <1>2, <1>3, <1>6, Goal DEF RunOf, RunInv
<1>7. \A i \in DOMAIN queue : queue[i].state \notin {"queued", "removed"} => queue[i].run # NoRun
  BY Goal DEF RunInv
<1>8. StandInv'
  BY <1>2, <1>6, <1>7 DEF RunInv, StandInv
<1>9. NothingLost'
  BY <1>2, <1>3, <1>4 DEF RunInv, NothingLost
<1>10. ASSUME NEW w \in Workers PROVE Hand(w)'
  <2>1. Hand(w) /\ UNCHANGED worker[w]
    BY <1>2 DEF RunInv, HandInv
  <2>2. PICK i : i = worker[w].goal
    OBVIOUS
  <2>3. i \in Kept => /\ RunOf(i)'.status = RunOf(i).status /\ RunOf(i)'.asked = RunOf(i).asked
                      /\ RunOf(i)'.pause = RunOf(i).pause
    BY <1>6, <1>7 DEF Kept, InState
  <2>4. InState("claimed") \subseteq Kept
    BY DEF Kept
  <2>5. QED
    BY <1>2, <1>4, <2>1, <2>2, <2>3, <2>4 DEF Hand, At, RunOf, Exists, Unsettled
<1>11. QED
  BY <1>5, <1>8, <1>9, <1>10 DEF RunInv, HandInv

\* Steps that leave the goals, the runs and the workers alone.
LEMMA AsideKeeps == ASSUME RunInv, UNCHANGED <<queue, run, worker>> PROVE RunInv'
<1>1. NewRunID' = NewRunID /\ \A s : InState(s)' = InState(s)
  BY DEF NewRunID, InState
<1>2. QED
  BY <1>1 DEF RunInv, GoalsInv, FreshInv, StandInv, NothingLost, HandInv, Hand, At, Kept, RunOf,
              Exists, Unsettled

-----------------------------------------------------------------------------
LEMMA NextRunInv == ASSUME Inv, RunInv, [Next]_vars PROVE RunInv'
<1>1. ASSUME NEW w \in Workers, StartTheQueue(w) \/ WorkerStep(w) \/ Cancel(w) \/ Crash(w)
      PROVE  RunInv'
  BY <1>1, FreeSteps, DecideKeeps, ClaimKeeps, LookAgainKeeps, MakingKeeps, CreateRunKeeps,
     RunningKeeps, DispatchedKeeps, InterruptedKeeps, SettleKeeps, CancelKeeps DEF WorkerStep
<1>2. ASSUME NEW p \in People, PersonStep(p) PROVE RunInv'
  <2>1. CASE ApproveGoal(p)
    BY <2>1, RestingGoalKeeps DEF ApproveGoal
  <2>2. CASE BeginApprove(p) \/ Tell(p) \/ CommandEnds(p)
    BY <2>2, AsideKeeps DEF BeginApprove, Tell, CommandEnds
  <2>3. QED
    BY <1>2, <2>1, <2>2, AddKeeps, ApproveRunKeeps DEF PersonStep
<1>3. ASSUME NEW i \in Goals, Remove(i) PROVE RunInv'
  BY <1>3, RestingGoalKeeps DEF Remove
<1>4. ASSUME NEW i \in Goals, ResumeByHand(i) \/ DeleteCopy(i) PROVE RunInv'
  BY <1>4, ResumeByHandKeeps, DeleteCopyKeeps
<1>5. CASE UNCHANGED vars
  BY <1>5, AsideKeeps DEF vars
<1>6. QED
  BY <1>1, <1>2, <1>3, <1>4, <1>5 DEF Next

THEOREM RunsInductive == Spec => [](Inv /\ RunInv)
<1>1. Init => Inv /\ RunInv
  BY InitInv, InitRunInv
<1>2. Inv /\ RunInv /\ [Next]_vars => (Inv /\ RunInv)'
  BY StepInv, NextRunInv
<1>3. QED
  BY <1>1, <1>2, PTL DEF Spec

\* Whatever is killed or cancelled between any two steps of create, drive and
\* settle, a run that is under way, interrupted or half made is that of a goal
\* the next belay queue start takes up.
THEOREM NoRunIsLost == Spec => []NothingLost
<1>1. RunInv => NothingLost
  BY DEF RunInv
<1>2. QED
  BY <1>1, RunsInductive, PTL

\* However a dispatch leaves a run, it leaves one.
LEMMA LeftSomehow ==
  ASSUME NEW g, NEW no, NEW f \in Leaves(g, no), "status" \in DOMAIN g
  PROVE  f.status \notin {"missing", "copy"}
<1>1. CASE f \in {[NoRunYet EXCEPT !.status = s] : s \in Ended}
  BY <1>1 DEF NoRunYet, Ended
<1>2. CASE f \in {Paused(g, asked, "limit") : asked \in {FALSE, g.asked}}
  BY <1>2 DEF Paused
<1>3. CASE f = Paused(g, TRUE, "gate")
  BY <1>3 DEF Paused
<1>4. QED
  BY <1>1, <1>2, <1>3 DEF Leaves

\* Only create clears a directory, and what it clears is no run: not one a worker
\* made before, not one that was worked on, not one a person deleted.
LEMMA MadeOnce ==
  ASSUME Inv, RunInv, [Next]_vars, NEW r \in Runs, Exists(r) \/ run[r].status = "gone"
  PROVE  run'[r].status \notin {"missing", "copy"}
<1>1. run \in [Runs -> RunFiles] /\ run[r].status \notin {"missing", "copy"}
  BY DEF RunInv, FreshInv, Exists, Ended
<1>2. ASSUME NEW w \in Workers, Reclaim(w) \/ Copy(w) PROVE run'[r] = run[r]
  <2>1. PICK i : i = worker[w].goal
    OBVIOUS
  <2>2. i \in InState("claimed") /\ ~ Exists(queue[i].run)
    BY <1>2, <2>1 DEF Reclaim, Copy, At, RunInv, HandInv, Hand
  <2>3. run[queue[i].run].status # "gone"
    BY <2>2 DEF RunInv, StandInv, InState, RunOf
  <2>4. queue[i].run # r
    BY <2>2, <2>3
  <2>5. QED
    BY <1>1, <1>2, <2>1, <2>4 DEF Reclaim, Copy, RunIn
<1>3. ASSUME NEW w \in Workers, CreateRun(w) \/ Drive(w) \/ Dispatched(w) \/ DispatchInterrupted(w)
      PROVE  run'[r].status \notin {"missing", "copy"}
  <2>1. CASE CreateRun(w) \/ Drive(w)
    BY <1>1, <2>1 DEF CreateRun, Drive, RunFiles
  <2>2. CASE Dispatched(w)
    <3>1. PICK q, no : \E f \in Leaves(run[q], no) : run' = [run EXCEPT ![q] = f]
      BY <2>2 DEF Dispatched
    <3>2. PICK f \in Leaves(run[q], no) : run' = [run EXCEPT ![q] = f]
      BY <3>1
    <3>3. q = r => f.status \notin {"missing", "copy"}
      BY <1>1, LeftSomehow DEF RunFiles
    <3>4. QED
      BY <1>1, <3>2, <3>3
  <2>3. CASE DispatchInterrupted(w)
    <3>1. PICK q, asked : run' = [run EXCEPT ![q] = Paused(run[q], asked, "canceled")]
      BY <2>3 DEF DispatchInterrupted
    <3>2. q = r => run'[r] = Paused(run[r], asked, "canceled")
      BY <1>1, <3>1
    <3>3. q # r => run'[r] = run[r]
      BY <1>1, <3>1
    <3>4. QED
      BY <1>1, <3>2, <3>3 DEF Paused, RunFiles
  <2>4. QED
    BY <1>3, <2>1, <2>2, <2>3
<1>4. ASSUME NEW p \in People, ApproveRun(p) PROVE run'[r].status = run[r].status
  BY <1>1, <1>4 DEF ApproveRun, RunFiles
<1>5. ASSUME NEW i \in Goals, ResumeByHand(i) \/ DeleteCopy(i)
      PROVE  run'[r].status \notin {"missing", "copy"}
  <2>1. CASE ResumeByHand(i)
    <3> DEFINE a == [run[queue[i].run] EXCEPT !.approved = @ \/ GateAsked(queue[i].run)]
    <3>1. PICK f \in Leaves(a, queue[i].no_approval) : run' = [run EXCEPT ![queue[i].run] = f]
      BY <2>1 DEF ResumeByHand
    <3>2. queue[i].run = r => "status" \in DOMAIN a
      BY <1>1 DEF RunFiles
    <3> HIDE DEF a
    <3>3. queue[i].run = r => f.status \notin {"missing", "copy"}
      BY <3>1, <3>2, LeftSomehow
    <3>4. QED
      BY <1>1, <3>1, <3>3
  <2>2. CASE DeleteCopy(i)
    BY <1>1, <2>2 DEF DeleteCopy, NoRunYet
  <2>3. QED
    BY <1>5, <2>1, <2>2
<1>6. CASE UNCHANGED run
  BY <1>1, <1>6
<1>7. QED
  BY <1>1, <1>2, <1>3, <1>4, <1>5, <1>6
     DEF Next, WorkerStep, PersonStep, StartTheQueue, LockWorker, BeginWork, Decide, Claim, LookAgain,
         StepFails, Settle, EndWork, Release, Cancel, Crash, Add, BeginApprove, ApproveGoal, Tell,
         CommandEnds, Remove, vars

\* A run once made is never cleared or made again, whatever crashes and whatever
\* a person does between a worker's look at it and its next: not its copy, not
\* its spend, not the plan in it.
THEOREM MadeOnlyOnce == Spec => NeverRemade
<1>1. Inv /\ RunInv /\ [Next]_vars
        => [\A r \in Runs : Exists(r) \/ run[r].status = "gone"
               => run'[r].status \notin {"missing", "copy"}]_vars
  BY MadeOnce
<1>2. QED
  BY <1>1, RunsInductive, PTL DEF Spec, NeverRemade

-----------------------------------------------------------------------------
(***************************************************************************)
(* The approvals.  belay queue approve writes the run's approval before    *)
(* the queue's, and between the two the goal only waits: what happens to   *)
(* it meanwhile, by hand, does not take the approval back.                 *)
(***************************************************************************)
\* A run that a gate will not stop again, or that is over.
PastGate(r) == r.approved \/ (r.status \in Ended \cup {"gone"} /\ ~ r.asked)
Parked(r)   == PastGate(r) \/ (r.status = "paused" /\ r.asked)

GoalsPass == \A i \in DOMAIN queue : /\ queue[i].state = "approved" => PastGate(RunOf(i))
                                     /\ queue[i].state = "waiting" => Parked(RunOf(i))

HandPass(w) == LET i == worker[w].goal IN
  /\ At(w, "settle") /\ worker[w].to = "waiting" => Parked(RunOf(i))
  /\ worker[w].pc \in {"drive", "driving"} /\ i \in InState("approved") => RunOf(i).approved

WorkersPass == \A w \in Workers : HandPass(w)

\* A goal that was offered for approval is not claimed again, and no start
\* makes it wait but with its run past the gate, or for another approval.
Early == {"queued", "removed", "claimed"}

Approving(p) == LET i == person[p].goal IN
  person[p].pc \in {"approving", "recording"} =>
    /\ i \in DOMAIN queue /\ queue[i].state \notin Early
    /\ person[p].pc = "recording" /\ queue[i].state = "waiting" => PastGate(RunOf(i))

PeoplePass == /\ person = [p \in People |-> person[p]]
              /\ \A p \in People : DOMAIN person[p] = {"pc", "goal", "told"} /\ Approving(p)

PassInv == GoalsPass /\ WorkersPass /\ PeoplePass

LEMMA InitPassInv == Init => PassInv
<1> SUFFICES ASSUME Init PROVE PassInv
  OBVIOUS
<1>1. GoalsPass
  BY DEF Init, GoalsPass
<1>2. WorkersPass
  BY DEF Init, WorkersPass, HandPass, At, Idle
<1>3. PeoplePass
  BY DEF Init, PeoplePass, Approving, AtRest
<1>4. QED
  BY <1>1, <1>2, <1>3 DEF PassInv

\* The goals and the people where neither the queue nor the runs change.
LEMMA GoalsPassOn ==
  ASSUME PassInv, UNCHANGED <<queue, run>>
  PROVE  GoalsPass' /\ (UNCHANGED person => PeoplePass')
<1>1. \A i : RunOf(i)' = RunOf(i)
  BY DEF RunOf
<1>2. GoalsPass'
  BY <1>1 DEF PassInv, GoalsPass
<1>3. ASSUME UNCHANGED person PROVE PeoplePass'
  BY <1>1, <1>3 DEF PassInv, PeoplePass, Approving
<1>4. QED
  BY <1>2, <1>3

LEMMA SameHandPass ==
  ASSUME NEW w, HandPass(w), UNCHANGED <<queue, run>>, worker'[w].pc = worker[w].pc,
         worker'[w].goal = worker[w].goal, worker'[w].to = worker[w].to
  PROVE  HandPass(w)'
<1>1. InState("approved")' = InState("approved") /\ \A i : RunOf(i)' = RunOf(i)
  BY DEF InState, RunOf
<1>2. QED
  BY <1>1 DEF HandPass, At

LEMMA FreeHandPass ==
  ASSUME NEW w, worker[w].pc \notin {"settle", "drive", "driving"}
  PROVE  HandPass(w)
BY DEF HandPass, At

LEMMA OthersPass ==
  ASSUME PassInv, NEW w \in Workers, \A x \in Workers \ {w} : worker'[x] = worker[x],
         UNCHANGED <<queue, run, person>>, HandPass(w)'
  PROVE  PassInv'
<1>1. \A x \in Workers \ {w} : HandPass(x)'
  BY SameHandPass DEF PassInv, WorkersPass
<1>2. QED
  BY <1>1, GoalsPassOn DEF PassInv, WorkersPass

LEMMA FreePasses ==
  ASSUME Inv, PassInv, NEW w \in Workers, NEW p, p \notin {"settle", "drive", "driving"},
         Moved(w, p), UNCHANGED <<queue, run, person>>
  PROVE  PassInv'
<1>1. worker'[w].pc = p /\ \A x \in Workers \ {w} : worker'[x] = worker[x]
  BY OneMoves
<1>2. HandPass(w)'
  BY <1>1 DEF HandPass, At
<1>3. QED
  BY <1>1, <1>2, OthersPass

\* The steps that decide nothing.
LEMMA FreeStepsPass ==
  ASSUME Inv, PassInv, NEW w \in Workers,
         \/ StartTheQueue(w) \/ LockWorker(w) \/ BeginWork(w) \/ StepFails(w)
         \/ EndWork(w) \/ Release(w) \/ Crash(w) \/ LookAgain(w)
  PROVE  PassInv'
<1>1. UNCHANGED <<queue, run, person>>
  BY DEF StartTheQueue, LockWorker, BeginWork, StepFails, EndWork, Release, Crash, LookAgain, counts
<1>2. \E p \in Free \cup {"reclaim"} : Moved(w, p)
  BY IdleMoves, StartMoves, GoesMoves, LoopsMoves, EndsMoves
     DEF LockWorker, BeginWork, StepFails, GivesUp, EndWork, Release, Crash, LookAgain, Free
<1>3. QED
  BY <1>1, <1>2, FreePasses DEF Free

LEMMA CancelPasses == ASSUME Inv, PassInv, NEW w \in Workers, Cancel(w) PROVE PassInv'
<1> DEFINE r == [worker[w] EXCEPT !.cancelled = TRUE]
<1>1. r.pc = worker[w].pc /\ r.goal = worker[w].goal /\ r.to = worker[w].to
  BY DEF Inv, WorkerInv, IsWorker
<1>2. worker' = [worker EXCEPT ![w] = r] /\ UNCHANGED <<queue, run, person>>
  BY DEF Cancel
<1> HIDE DEF r
<1>3. /\ worker'[w].pc = worker[w].pc /\ worker'[w].goal = worker[w].goal
      /\ worker'[w].to = worker[w].to /\ \A x \in Workers \ {w} : worker'[x] = worker[x]
  BY <1>1, <1>2 DEF Inv, WorkerInv
<1>4. HandPass(w)'
  BY <1>2, <1>3, SameHandPass DEF PassInv, WorkersPass
<1>5. QED
  BY <1>2, <1>3, <1>4, OthersPass

\* What is decided of a claimed goal's run, and of an approved goal's.
LEMMA NextStepPasses ==
  ASSUME RunInv, GoalsPass
  PROVE  LET d == NextStep IN
         /\ d.pc = "settle" /\ d.to = "waiting" => Parked(RunOf(d.goal))
         /\ d.pc \in {"drive", "driving"} /\ d.goal \in InState("approved") => RunOf(d.goal).approved
<1>1. \A s : InState(s) \in SUBSET Nat
  BY DEF RunInv, GoalsInv, InState
<1>2. \A status \in Ended : endedAs(status) # "waiting"
  BY DEF Ended, endedAs
<1>3. CASE InState("claimed") # {}
  <2> DEFINE i == First(InState("claimed"))
             r == queue[i].run
  <2>1. i \in InState("claimed") /\ i \notin InState("approved")
    BY <1>1, <1>3, FirstIsOne DEF InState
  <2>2. NextStep = claimedNext(i, r)
    BY <1>3 DEF NextStep
  <2>3. RunOf(i) = run[r]
    BY DEF RunOf
  <2> HIDE DEF i, r
  <2>4. CASE ~ Exists(r)
    BY <2>2, <2>4 DEF claimedNext, Decision
  <2>5. CASE Exists(r) /\ run[r].status \in Ended
    BY <1>2, <2>2, <2>5 DEF claimedNext, Decision
  <2>6. CASE Exists(r) /\ run[r].status \notin Ended /\ GateAsked(r)
    BY <2>2, <2>3, <2>6 DEF claimedNext, Decision, GateAsked, Parked
  <2>7. CASE Exists(r) /\ run[r].status \notin Ended /\ ~ GateAsked(r)
    BY <2>1, <2>2, <2>7 DEF claimedNext, Decision
  <2>8. QED
    BY <2>4, <2>5, <2>6, <2>7
<1>4. CASE InState("claimed") = {} /\ InState("approved") # {}
  <2> DEFINE i == First(InState("approved"))
             r == queue[i].run
  <2>1. i \in InState("approved")
    BY <1>1, <1>4, FirstIsOne
  <2>2. NextStep = approvedNext(i, r)
    BY <1>4 DEF NextStep
  <2>3. RunOf(i) = run[r]
    BY DEF RunOf
  <2>4. PastGate(run[r])
    BY <2>1, <2>3 DEF GoalsPass, InState
  <2> HIDE DEF i, r
  <2>5. CASE ~ Exists(r)
    BY <2>2, <2>5 DEF approvedNext, Decision
  <2>6. CASE Exists(r) /\ run[r].status \in Ended
    BY <1>2, <2>2, <2>6 DEF approvedNext, Decision
  <2>7. CASE Exists(r) /\ run[r].status \notin Ended
    <3>1. run[r].approved
      BY <2>4, <2>7 DEF PastGate, Exists, Ended
    <3>2. NextStep = Decision("drive", i, "none")
      BY <2>2, <2>7 DEF approvedNext
    <3>3. QED
      BY <2>3, <3>1, <3>2 DEF Decision
  <2>8. QED
    BY <2>5, <2>6, <2>7
<1>5. CASE InState("claimed") = {} /\ InState("approved") = {}
  BY <1>5 DEF NextStep, Decision
<1>6. QED
  BY <1>3, <1>4, <1>5

LEMMA DecidePasses == ASSUME Inv, RunInv, PassInv, NEW w \in Workers, Decide(w) PROVE PassInv'
<1>1. UNCHANGED <<queue, run, person>>
  BY DEF Decide
<1>2. CASE worker[w].cancelled
  BY <1>1, <1>2, EndsMoves, FreePasses DEF Decide
<1>3. CASE ~ worker[w].cancelled
  <2> DEFINE d == NextStep
             r == [worker[w] EXCEPT !.pc = d.pc, !.goal = d.goal, !.to = d.to,
                     !.stop = IF d.pc = "ending" THEN "drained" ELSE "none"]
  <2>1. worker' = [worker EXCEPT ![w] = r]
    BY <1>3 DEF Decide
  <2>2. IsWorker(worker[w]) /\ worker = [x \in Workers |-> worker[x]]
    BY DEF Inv, WorkerInv
  <2>3. r.pc = d.pc /\ r.goal = d.goal /\ r.to = d.to
    <3> HIDE DEF d
    <3> QED
      BY <2>2 DEF IsWorker
  <2> HIDE DEF r
  <2>4. /\ worker'[w].pc = d.pc /\ worker'[w].goal = d.goal /\ worker'[w].to = d.to
        /\ \A x \in Workers \ {w} : worker'[x] = worker[x]
    BY <2>1, <2>2, <2>3
  <2>5. /\ d.pc = "settle" /\ d.to = "waiting" => Parked(RunOf(d.goal))
        /\ d.pc \in {"drive", "driving"} /\ d.goal \in InState("approved") => RunOf(d.goal).approved
    BY NextStepPasses DEF PassInv
  <2> HIDE DEF d
  <2>6. HandPass(w)'
    BY <1>1, <2>4, <2>5 DEF HandPass, At, InState, RunOf
  <2>7. QED
    BY <1>1, <2>4, <2>6, OthersPass
<1>4. QED
  BY <1>2, <1>3

\* A worker's step with the run it has in hand: a claimed goal's may be
\* anything, an approved goal's stays past its gate.
LEMMA InHandPasses ==
  ASSUME Inv, RunInv, PassInv, NEW w \in Workers, worker[w].pc \in Inside,
         NEW i \in Kept, NEW f, run' = [run EXCEPT ![queue[i].run] = f],
         i \in InState("approved") => PastGate(f),
         \A x \in Workers \ {w} : worker'[x] = worker[x],
         UNCHANGED <<queue, person>>, HandPass(w)'
  PROVE  PassInv'
<1>1. i \in DOMAIN queue /\ queue[i].run \in Runs /\ queue[i].state \in {"claimed", "approved"}
  BY Goal DEF RunInv, Kept, InState
<1>2. run'[queue[i].run] = f /\ \A r \in Runs \ {queue[i].run} : run'[r] = run[r]
  BY <1>1 DEF RunInv, FreshInv
<1>3. ASSUME NEW k \in DOMAIN queue, k # i, queue[k].state \in {"waiting", "approved"}
      PROVE  RunOf(k)' = RunOf(k)
  <2>1. queue[k].run \in Runs /\ queue[k].run # NoRun
    BY <1>3, Goal DEF RunInv
  <2>2. queue[k].run # queue[i].run
    BY <1>1, <1>3, <2>1 DEF RunInv, GoalsInv
  <2>3. QED
    BY <1>2, <2>1, <2>2 DEF RunOf
<1>4. RunOf(i)' = f
  BY <1>2 DEF RunOf
<1>5. GoalsPass'
  <2>1. ASSUME NEW k \in DOMAIN queue
        PROVE  /\ queue[k].state = "approved" => PastGate(RunOf(k)')
               /\ queue[k].state = "waiting" => Parked(RunOf(k)')
    <3>1. CASE k = i
      BY <1>1, <1>4, <3>1 DEF InState
    <3>2. CASE k # i
      BY <1>3, <3>2 DEF PassInv, GoalsPass
    <3>3. QED
      BY <3>1, <3>2
  <2>2. QED
    BY <2>1 DEF GoalsPass, PastGate, Parked
<1>6. WorkersPass'
  <2>1. \A x \in Workers \ {w} : HandPass(x)'
    BY OthersAreFree DEF Free, HandPass, At
  <2>2. QED
    BY <2>1 DEF WorkersPass
<1>7. PeoplePass'
  <2>1. ASSUME NEW p \in People PROVE Approving(p)'
    <3>1. Approving(p)
      BY DEF PassInv, PeoplePass
    <3>2. PICK k : k = person[p].goal
      OBVIOUS
    <3>3. k \in DOMAIN queue /\ queue[k].state = "waiting" => RunOf(k)' = RunOf(k)
      BY <1>1, <1>3
    <3>4. QED
      BY <3>1, <3>2, <3>3 DEF Approving, PastGate
  <2>2. QED
    BY <2>1 DEF PassInv, PeoplePass
<1>8. QED
  BY <1>5, <1>6, <1>7 DEF PassInv

\* create, on a claimed goal's run.
LEMMA MakingPasses ==
  ASSUME Inv, RunInv, PassInv, NEW w \in Workers, Reclaim(w) \/ Copy(w) \/ CreateRun(w)
  PROVE  PassInv'
<1> DEFINE i == worker[w].goal
<1>1. /\ worker[w].pc \in {"reclaim", "copy", "make"} /\ i \in InState("claimed")
      /\ UNCHANGED <<queue, person>>
  BY DEF Reclaim, Copy, CreateRun, At, RunInv, HandInv, Hand
<1>2. \E p \in {"copy", "make", "loop", "ending"} : Moved(w, p)
  BY GoesMoves, LoopsMoves, EndsMoves DEF Reclaim, Copy, CreateRun, GivesUp
<1>3. HandPass(w)' /\ \A x \in Workers \ {w} : worker'[x] = worker[x]
  <2>1. PICK p \in {"copy", "make", "loop", "ending"} : Moved(w, p)
    BY <1>2
  <2>2. worker'[w].pc = p /\ \A x \in Workers \ {w} : worker'[x] = worker[x]
    BY <2>1, OneMoves
  <2>3. QED
    BY <2>2 DEF HandPass, At
<1>4. i \in Kept /\ i \notin InState("approved") /\ worker[w].pc \in Inside
  BY <1>1 DEF Kept, InState, Inside
<1>5. CASE UNCHANGED run
  BY <1>1, <1>3, <1>5, OthersPass
<1>6. CASE \E f : run' = [run EXCEPT ![queue[i].run] = f]
  BY <1>1, <1>3, <1>4, <1>6, InHandPasses
<1>7. QED
  BY <1>5, <1>6 DEF Reclaim, Copy, CreateRun, RunIn

LEMMA DrivePasses == ASSUME Inv, RunInv, PassInv, NEW w \in Workers, Drive(w) PROVE PassInv'
<1> DEFINE i == worker[w].goal
           f == [run[queue[i].run] EXCEPT !.status = "running"]
<1>1. /\ worker[w].pc = "drive" /\ i \in Kept /\ UNCHANGED <<queue, person>>
      /\ run' = [run EXCEPT ![queue[i].run] = f]
      /\ worker'[w].pc = "driving" /\ worker'[w].goal = i
      /\ \A x \in Workers \ {w} : worker'[x] = worker[x]
  BY GoesWithItsGoal DEF Drive, At, RunIn, RunInv, HandInv, Hand
<1>2. queue[i].run \in Runs /\ RunOf(i) \in RunFiles
  BY <1>1, Goal DEF RunInv, Kept, InState
<1>3. f.approved = RunOf(i).approved
  BY <1>2 DEF RunFiles, RunOf
<1>4. i \in InState("approved") => RunOf(i).approved
  BY <1>1 DEF PassInv, WorkersPass, HandPass
<1> HIDE DEF f
<1>5. run'[queue[i].run] = f
  BY <1>1, <1>2 DEF RunInv, FreshInv
<1>6. HandPass(w)'
  BY <1>1, <1>3, <1>4, <1>5 DEF HandPass, At, InState, RunOf
<1>7. i \in InState("approved") => PastGate(f)
  BY <1>3, <1>4 DEF PastGate
<1>8. worker[w].pc \in Inside
  BY <1>1 DEF Inside
<1>9. QED
  BY <1>1, <1>6, <1>7, <1>8, InHandPasses

\* However a dispatch leaves a run: one that was past its gate still is, and
\* one that its goal waits with was asked by its gate.
LEMMA LeavesPast ==
  ASSUME NEW g \in RunFiles, NEW no \in BOOLEAN, NEW f \in Leaves(g, no)
  PROVE  /\ g.approved => PastGate(f)
         /\ goalOutcome(f) = "waiting" => Parked(f)
<1>1. f \in RunFiles /\ f.status \in Ended \cup {"paused"}
  BY LeavesSettled
<1>2. goalOutcome(f) = "waiting" => f.status = "paused" /\ f.asked
  BY <1>1 DEF goalOutcome, endedAs, Ended
<1>3. ASSUME g.approved PROVE PastGate(f)
  <2>1. CASE f \in {[NoRunYet EXCEPT !.status = s] : s \in Ended}
    BY <2>1 DEF NoRunYet, PastGate
  <2>2. CASE f \in {Paused(g, asked, "limit") : asked \in {FALSE, g.asked}}
    BY <1>3, <2>2 DEF Paused, PastGate, RunFiles
  <2>3. QED
    BY <1>3, <2>1, <2>2 DEF Leaves
<1>4. QED
  BY <1>2, <1>3 DEF Parked

LEMMA DispatchedPasses == ASSUME Inv, RunInv, PassInv, NEW w \in Workers, Dispatched(w) PROVE PassInv'
<1> DEFINE i == worker[w].goal
<1>1. worker[w].pc = "driving" /\ i \in Kept /\ UNCHANGED <<queue, person>>
  BY DEF Dispatched, At, RunInv, HandInv, Hand
<1>2. queue[i].run \in Runs /\ RunOf(i) \in RunFiles /\ queue[i].no_approval \in BOOLEAN
  BY <1>1, Goal DEF RunInv, Kept, InState, Entry
<1>3. PICK f \in Leaves(RunOf(i), queue[i].no_approval) :
        /\ run' = [run EXCEPT ![queue[i].run] = f]
        /\ worker' = [worker EXCEPT ![w].pc = "settle", ![w].to = goalOutcome(f)]
  BY DEF Dispatched, RunIn, RunOf
<1>4. (RunOf(i).approved => PastGate(f)) /\ (goalOutcome(f) = "waiting" => Parked(f))
  BY <1>2, <1>3, LeavesPast
<1>5. /\ worker'[w].pc = "settle" /\ worker'[w].goal = i /\ worker'[w].to = goalOutcome(f)
      /\ \A x \in Workers \ {w} : worker'[x] = worker[x]
  <2> DEFINE o == goalOutcome(f)
             r == [worker[w] EXCEPT !.pc = "settle", !.to = o]
  <2>1. worker' = [worker EXCEPT ![w] = r]
    BY <1>3
  <2> HIDE DEF o
  <2>2. r.pc = "settle" /\ r.goal = i /\ r.to = o
    BY DEF Inv, WorkerInv, IsWorker
  <2> HIDE DEF r
  <2>3. QED
    BY <2>1, <2>2 DEF Inv, WorkerInv, o
<1>6. run'[queue[i].run] = f
  BY <1>2, <1>3 DEF RunInv, FreshInv
<1>7. HandPass(w)'
  BY <1>1, <1>4, <1>5, <1>6 DEF HandPass, At, RunOf, Parked, PastGate
<1>8. i \in InState("approved") => PastGate(f)
  BY <1>1, <1>4 DEF PassInv, WorkersPass, HandPass
<1>9. worker[w].pc \in Inside
  BY <1>1 DEF Inside
<1>10. QED
  BY <1>1, <1>3, <1>5, <1>7, <1>8, <1>9, InHandPasses

LEMMA InterruptedPasses ==
  ASSUME Inv, RunInv, PassInv, NEW w \in Workers, DispatchInterrupted(w) PROVE PassInv'
<1> DEFINE i == worker[w].goal
<1>1. worker[w].pc = "driving" /\ i \in Kept /\ UNCHANGED <<queue, person>>
  BY DEF DispatchInterrupted, At, RunInv, HandInv, Hand
<1>2. RunOf(i) \in RunFiles
  BY <1>1, Goal DEF RunInv, Kept, InState
<1>3. PICK asked \in {FALSE, RunOf(i).asked} :
        run' = [run EXCEPT ![queue[i].run] = Paused(RunOf(i), asked, "canceled")]
  BY DEF DispatchInterrupted, RunIn, RunOf
<1> DEFINE f == Paused(RunOf(i), asked, "canceled")
<1>4. i \in InState("approved") => PastGate(f)
  <2>1. i \in InState("approved") => RunOf(i).approved
    BY <1>1 DEF PassInv, WorkersPass, HandPass
  <2>2. QED
    BY <1>2, <2>1 DEF Paused, PastGate, RunFiles
<1>5. worker'[w].pc = "ending" /\ \A x \in Workers \ {w} : worker'[x] = worker[x]
  BY EndsMoves, OneMoves DEF DispatchInterrupted
<1>6. HandPass(w)' /\ worker[w].pc \in Inside
  BY <1>1, <1>5 DEF HandPass, At, Inside
<1>7. run' = [run EXCEPT ![queue[i].run] = f]
  BY <1>3
<1> HIDE DEF f
<1>8. QED
  BY <1>1, <1>4, <1>5, <1>6, <1>7, InHandPasses

\* A person's step with the run of a goal no worker has in hand.
LEMMA ByHandPasses ==
  ASSUME RunInv, PassInv, NEW i \in DOMAIN queue, queue[i].run # NoRun,
         \A w \in Workers : worker[w].goal = i => i \notin Kept,
         NEW f, run' = [run EXCEPT ![queue[i].run] = f], UNCHANGED <<queue, worker, person>>,
         queue[i].state \in {"waiting", "approved"} => PastGate(f)
  PROVE  PassInv'
<1>1. queue[i].run \in Runs
  BY Goal DEF RunInv
<1>2. run'[queue[i].run] = f /\ \A r \in Runs \ {queue[i].run} : run'[r] = run[r]
  BY <1>1 DEF RunInv, FreshInv
<1>3. ASSUME NEW k \in DOMAIN queue, k # i, queue[k].run # NoRun
      PROVE  RunOf(k)' = RunOf(k)
  <2>1. queue[k].run \in Runs /\ queue[k].run # queue[i].run
    BY <1>3, Goal DEF RunInv, GoalsInv
  <2>2. QED
    BY <1>2, <2>1 DEF RunOf
<1>4. RunOf(i)' = f
  BY <1>2 DEF RunOf
<1>5. \A k \in DOMAIN queue : queue[k].state \notin {"queued", "removed"} => queue[k].run # NoRun
  BY Goal DEF RunInv
<1>6. GoalsPass'
  <2>1. ASSUME NEW k \in DOMAIN queue
        PROVE  /\ queue[k].state = "approved" => PastGate(RunOf(k)')
               /\ queue[k].state = "waiting" => Parked(RunOf(k)')
    <3>1. CASE k = i
      BY <1>4, <3>1 DEF Parked
    <3>2. CASE k # i
      BY <1>3, <1>5, <3>2 DEF PassInv, GoalsPass
    <3>3. QED
      BY <3>1, <3>2
  <2>2. QED
    BY <2>1 DEF GoalsPass, PastGate, Parked
<1>7. WorkersPass'
  <2>1. ASSUME NEW w \in Workers PROVE HandPass(w)'
    <3>1. CASE worker[w].pc \notin {"settle", "drive", "driving"}
      BY <3>1 DEF HandPass, At
    <3>2. CASE worker[w].pc \in {"settle", "drive", "driving"}
      <4>1. PICK k : k = worker[w].goal
        OBVIOUS
      <4>2. k \in Kept /\ k # i
        BY <3>2, <4>1 DEF RunInv, HandInv, Hand
      <4>3. RunOf(k)' = RunOf(k)
        BY <1>3, <1>5, <4>2 DEF Kept, InState
      <4>4. HandPass(w)
        BY DEF PassInv, WorkersPass
      <4>5. QED
        BY <4>1, <4>3, <4>4 DEF HandPass, At, InState, Parked, PastGate
    <3>3. QED
      BY <3>1, <3>2
  <2>2. QED
    BY <2>1 DEF WorkersPass
<1>8. PeoplePass'
  <2>1. ASSUME NEW p \in People PROVE Approving(p)'
    <3>1. Approving(p)
      BY DEF PassInv, PeoplePass
    <3>2. PICK k : k = person[p].goal
      OBVIOUS
    <3>3. k \in DOMAIN queue /\ queue[k].state = "waiting" => RunOf(k)' = RunOf(k) \/ PastGate(RunOf(k)')
      BY <1>3, <1>4, <1>5
    <3>4. QED
      BY <3>1, <3>2, <3>3 DEF Approving, PastGate
  <2>2. QED
    BY <2>1 DEF PassInv, PeoplePass
<1>9. QED
  BY <1>6, <1>7, <1>8 DEF PassInv

\* belay resume approves what the gate asked.
LEMMA ResumeByHandPasses == ASSUME RunInv, PassInv, NEW i \in Goals, ResumeByHand(i) PROVE PassInv'
<1> DEFINE a == [run[queue[i].run] EXCEPT !.approved = @ \/ GateAsked(queue[i].run)]
<1>1. /\ i \in DOMAIN queue /\ queue[i].state \in {"waiting", "paused"} /\ i \notin Kept
      /\ RunOf(i).status = "paused" /\ UNCHANGED <<queue, worker, person>>
  BY DEF ResumeByHand, InState, Kept, RunOf
<1>2. /\ queue[i].run # NoRun /\ RunOf(i) \in RunFiles /\ queue[i].no_approval \in BOOLEAN
  BY <1>1, Goal DEF RunInv, Entry
<1>3. a \in RunFiles /\ (queue[i].state = "waiting" => a.approved)
  <2>1. a \in RunFiles /\ a.approved = (RunOf(i).approved \/ GateAsked(queue[i].run))
    BY <1>2 DEF RunFiles, RunOf, GateAsked
  <2>2. queue[i].state = "waiting" => Parked(RunOf(i))
    BY <1>1 DEF PassInv, GoalsPass
  <2>3. QED
    BY <1>1, <2>1, <2>2 DEF Parked, PastGate, Ended, GateAsked, RunOf
<1>4. PICK f \in Leaves(a, queue[i].no_approval) : run' = [run EXCEPT ![queue[i].run] = f]
  BY DEF ResumeByHand
<1> HIDE DEF a
<1>5. a.approved => PastGate(f)
  BY <1>2, <1>3, <1>4, LeavesPast
<1>6. QED
  BY <1>1, <1>2, <1>3, <1>4, <1>5, ByHandPasses

LEMMA DeleteCopyPasses == ASSUME RunInv, PassInv, NEW i \in Goals, DeleteCopy(i) PROVE PassInv'
<1> DEFINE f == [NoRunYet EXCEPT !.status = "gone"]
<1>1. /\ i \in DOMAIN queue /\ queue[i].state \in {"waiting", "approved"}
      /\ \A w \in Workers : worker[w].goal # i
      /\ run' = [run EXCEPT ![queue[i].run] = f] /\ UNCHANGED <<queue, worker, person>>
  BY DEF DeleteCopy, InState
<1>2. PastGate(f) /\ queue[i].run # NoRun
  BY <1>1, Goal DEF NoRunYet, PastGate, RunInv
<1> HIDE DEF f
<1>3. QED
  BY <1>1, <1>2, ByHandPasses

\* One goal moves, or is new.
LEMMA GoalPasses ==
  ASSUME PassInv, NEW i \in DOMAIN queue', DOMAIN queue' \subseteq DOMAIN queue \cup {i},
         \A k \in DOMAIN queue : k \in DOMAIN queue' /\ (k # i => queue'[k] = queue[k]),
         UNCHANGED run, WorkersPass',
         queue'[i].state = "approved" => PastGate(run[queue'[i].run]),
         queue'[i].state = "waiting" => Parked(run[queue'[i].run]),
         i \in DOMAIN queue /\ queue[i].state \notin Early =>
           /\ queue'[i].state \notin Early
           /\ queue'[i].state = "waiting" => PastGate(run[queue'[i].run]),
         person' = [p \in People |-> person'[p]],
         \A p \in People : /\ DOMAIN person'[p] = {"pc", "goal", "told"}
                           /\ person'[p] = person[p] \/ person'[p].pc \notin {"approving", "recording"}
  PROVE  PassInv'
<1>1. \A k \in DOMAIN queue : k # i => RunOf(k)' = RunOf(k)
  BY DEF RunOf
<1>2. RunOf(i)' = run[queue'[i].run]
  BY DEF RunOf
<1>3. GoalsPass'
  <2>1. ASSUME NEW k \in DOMAIN queue'
        PROVE  /\ queue'[k].state = "approved" => PastGate(RunOf(k)')
               /\ queue'[k].state = "waiting" => Parked(RunOf(k)')
    <3>1. CASE k = i
      BY <1>2, <3>1
    <3>2. CASE k # i
      BY <1>1, <3>2 DEF PassInv, GoalsPass
    <3>3. QED
      BY <3>1, <3>2
  <2>2. QED
    BY <2>1 DEF GoalsPass, PastGate, Parked
<1>4. PeoplePass'
  <2>1. ASSUME NEW p \in People PROVE Approving(p)'
    <3>1. CASE person'[p].pc \notin {"approving", "recording"}
      BY <3>1 DEF Approving
    <3>2. CASE person'[p].pc \in {"approving", "recording"}
      <4>1. person'[p] = person[p] /\ Approving(p)
        BY <3>2 DEF PassInv, PeoplePass
      <4>2. PICK k : k = person[p].goal
        OBVIOUS
      <4>3. /\ k \in DOMAIN queue /\ queue[k].state \notin Early
            /\ person[p].pc = "recording" /\ queue[k].state = "waiting" => PastGate(RunOf(k))
        BY <3>2, <4>1, <4>2 DEF Approving
      <4>4. /\ k \in DOMAIN queue' /\ queue'[k].state \notin Early
            /\ person[p].pc = "recording" /\ queue'[k].state = "waiting" => PastGate(RunOf(k)')
        <5>1. CASE k = i
          BY <1>2, <4>3, <5>1
        <5>2. CASE k # i
          BY <1>1, <4>3, <5>2
        <5>3. QED
          BY <5>1, <5>2
      <4>5. QED
        BY <4>1, <4>2, <4>4 DEF Approving, PastGate
    <3>3. QED
      BY <3>1, <3>2
  <2>2. QED
    BY <2>1 DEF PeoplePass
<1>5. QED
  BY <1>3, <1>4 DEF PassInv

\* Workers do not have in hand a goal that a person's command moves.
LEMMA AsidePass ==
  ASSUME RunInv, PassInv, NEW i, i \notin Kept,
         \A k \in DOMAIN queue : k \in DOMAIN queue' /\ (k # i => queue'[k] = queue[k]),
         UNCHANGED <<run, worker>>
  PROVE  WorkersPass'
<1>1. ASSUME NEW w \in Workers PROVE HandPass(w)'
  <2>1. CASE worker[w].pc \notin {"settle", "drive", "driving"}
    BY <2>1 DEF HandPass, At
  <2>2. CASE worker[w].pc \in {"settle", "drive", "driving"}
    <3>1. PICK k : k = worker[w].goal
      OBVIOUS
    <3>2. k \in Kept /\ k # i /\ k \in DOMAIN queue
      BY <2>2, <3>1 DEF RunInv, HandInv, Hand, Kept, InState
    <3>3. queue'[k] = queue[k] /\ k \in DOMAIN queue' /\ RunOf(k)' = RunOf(k)
      BY <3>2 DEF RunOf
    <3>4. HandPass(w)
      BY DEF PassInv, WorkersPass
    <3>5. QED
      BY <3>1, <3>2, <3>3, <3>4 DEF HandPass, At, InState, Parked, PastGate
  <2>3. QED
    BY <2>1, <2>2
<1>2. QED
  BY <1>1 DEF WorkersPass

\* What Change does to the queue.
LEMMA ChangeIs ==
  ASSUME RunInv, NEW i \in DOMAIN queue, NEW s, Change(i, s)
  PROVE  /\ DOMAIN queue' = DOMAIN queue
         /\ \A k \in DOMAIN queue : k # i => queue'[k] = queue[k]
         /\ queue'[i].state = s /\ queue'[i].run = queue[i].run
<1>1. queue \in Seq(Entry) /\ queue[i] \in Entry
  BY DEF RunInv, GoalsInv
<1> DEFINE e == [queue[i] EXCEPT !.state = s]
<1>2. e.state = s /\ e.run = queue[i].run
  BY <1>1 DEF Entry
<1>3. queue' = [queue EXCEPT ![i] = e]
  BY DEF Change
<1> HIDE DEF e
<1>4. QED
  BY <1>1, <1>2, <1>3

LEMMA SettlePasses == ASSUME Inv, RunInv, PassInv, NEW w \in Workers, Settle(w) PROVE PassInv'
<1>1. PICK i : i = worker[w].goal
  OBVIOUS
<1>2. UNCHANGED <<run, person>> /\ worker[w].pc = "settle"
  BY DEF Settle, At
<1>3. CASE ~ May(i, "settled")
  BY <1>1, <1>2, <1>3, EndsMoves, FreePasses DEF Settle, GivesUp
<1>4. CASE May(i, "settled")
  <2>1. PICK s : s = worker[w].to
    OBVIOUS
  <2>2. Change(i, s) /\ Loops(w) /\ i \in Kept /\ s \in Settled
    BY <1>1, <1>2, <1>4, <2>1 DEF Settle, At, RunInv, HandInv, Hand
  <2>3. i \in DOMAIN queue /\ queue[i].state \in {"claimed", "approved"}
    BY <2>2 DEF Kept, InState
  <2>4. /\ DOMAIN queue' = DOMAIN queue
        /\ \A k \in DOMAIN queue : k # i => queue'[k] = queue[k]
        /\ queue'[i].state = s /\ queue'[i].run = queue[i].run
    BY <2>2, <2>3, ChangeIs
  <2>5. WorkersPass'
    <3>1. worker'[w].pc = "loop" /\ \A x \in Workers \ {w} : worker'[x] = worker[x]
      BY <2>2, LoopsMoves, OneMoves
    <3>2. worker[w].pc \in Inside
      BY <1>2 DEF Inside
    <3>3. QED
      BY <3>1, <3>2, OthersAreFree DEF Free, WorkersPass, HandPass, At
  <2>6. s = "waiting" => Parked(run[queue[i].run])
    BY <1>1, <1>2, <2>1 DEF PassInv, WorkersPass, HandPass, At, RunOf
  <2>7. queue[i].state = "approved" => PastGate(run[queue[i].run])
    BY <2>3 DEF PassInv, GoalsPass, RunOf
  <2>8. s \notin Early /\ s # "approved"
    BY <2>2 DEF Settled, Early
  <2>9. queue[i].state \notin Early => queue[i].state = "approved"
    BY <2>3 DEF Early
  <2>10. /\ person' = [p \in People |-> person'[p]]
         /\ \A p \in People : DOMAIN person'[p] = {"pc", "goal", "told"} /\ person'[p] = person[p]
    BY <1>2 DEF PassInv, PeoplePass
  <2>11. QED
    BY <1>2, <2>3, <2>4, <2>5, <2>6, <2>7, <2>8, <2>9, <2>10, GoalPasses
<1>5. QED
  BY <1>3, <1>4

LEMMA ClaimPasses == ASSUME Inv, RunInv, PassInv, NEW w \in Workers, Claim(w) PROVE PassInv'
<1>1. PICK i : i = worker[w].goal
  OBVIOUS
<1>2. UNCHANGED <<run, person>> /\ worker[w].pc = "claim"
  BY DEF Claim, At
<1>3. CASE ~ (May(i, "claimed") /\ InState("claimed") = {})
  BY <1>1, <1>2, <1>3, EndsMoves, FreePasses DEF Claim, GivesUp
<1>4. CASE May(i, "claimed") /\ InState("claimed") = {}
  <2>1. queue[i].state = "queued" /\ i \in DOMAIN queue /\ Loops(w)
        /\ queue' = [queue EXCEPT ![i].state = "claimed", ![i].run = NewRunID]
    BY <1>1, <1>2, <1>4 DEF Claim, May, Moves, RunInv, HandInv, Hand, At
  <2>2. queue \in Seq(Entry) /\ queue[i] \in Entry
    BY <2>1 DEF RunInv, GoalsInv
  <2>3. /\ DOMAIN queue' = DOMAIN queue /\ queue'[i].state = "claimed"
        /\ \A k \in DOMAIN queue : k # i => queue'[k] = queue[k]
    <3> DEFINE e == [[queue[i] EXCEPT !.state = "claimed"] EXCEPT !.run = NewRunID]
    <3>1. e.state = "claimed"
      BY <2>2 DEF Entry
    <3>2. queue' = [queue EXCEPT ![i] = e]
      BY <2>1, <2>2
    <3> HIDE DEF e
    <3>3. QED
      BY <2>1, <2>2, <3>1, <3>2
  <2>4. WorkersPass'
    <3>1. worker'[w].pc = "loop" /\ \A x \in Workers \ {w} : worker'[x] = worker[x]
      BY <2>1, LoopsMoves, OneMoves
    <3>2. worker[w].pc \in Inside
      BY <1>2 DEF Inside
    <3>3. QED
      BY <3>1, <3>2, OthersAreFree DEF Free, WorkersPass, HandPass, At
  <2>5. /\ person' = [p \in People |-> person'[p]]
        /\ \A p \in People : DOMAIN person'[p] = {"pc", "goal", "told"} /\ person'[p] = person[p]
    BY <1>2 DEF PassInv, PeoplePass
  <2>6. queue[i].state \in Early
    BY <2>1 DEF Early
  <2>7. QED
    BY <1>2, <2>1, <2>3, <2>4, <2>5, <2>6, GoalPasses
<1>5. QED
  BY <1>3, <1>4

LEMMA AddPasses == ASSUME RunInv, PassInv, NEW p \in People, Add(p) PROVE PassInv'
<1> DEFINE i == Len(queue) + 1
<1>1. PICK no \in BOOLEAN :
        queue' = Append(queue, [state |-> "queued", run |-> NoRun, no_approval |-> no])
  BY DEF Add
<1> DEFINE e == [state |-> "queued", run |-> NoRun, no_approval |-> no]
           a == [AtRest EXCEPT !.pc = "telling", !.goal = i]
<1>2. e.state = "queued" /\ queue' = Append(queue, e) /\ queue \in Seq(Entry)
      /\ UNCHANGED <<run, worker>> /\ person' = [person EXCEPT ![p] = a]
  BY <1>1 DEF RunInv, GoalsInv, Add
<1>3. DOMAIN a = {"pc", "goal", "told"} /\ a.pc = "telling"
  BY DEF AtRest
<1> HIDE DEF e, a
<1>4. /\ i \notin DOMAIN queue /\ DOMAIN queue' = DOMAIN queue \cup {i} /\ queue'[i] = e
      /\ \A k \in DOMAIN queue : queue'[k] = queue[k]
  BY <1>2
<1> HIDE DEF i
<1>5. WorkersPass'
  BY <1>2, <1>4, AsidePass DEF Kept, InState
<1>6. /\ person' = [q \in People |-> person'[q]]
      /\ \A q \in People : /\ DOMAIN person'[q] = {"pc", "goal", "told"}
                           /\ person'[q] = person[q] \/ person'[q].pc = "telling"
  BY <1>2, <1>3 DEF PassInv, PeoplePass
<1>7. QED
  BY <1>2, <1>4, <1>5, <1>6, GoalPasses

LEMMA RemovePasses == ASSUME RunInv, PassInv, NEW i \in Goals, Remove(i) PROVE PassInv'
<1>1. /\ i \in DOMAIN queue /\ queue[i].state = "queued" /\ Change(i, "removed")
      /\ UNCHANGED <<run, worker, person>>
  BY DEF Remove, May, Moves
<1>2. /\ DOMAIN queue' = DOMAIN queue /\ queue'[i].state = "removed"
      /\ \A k \in DOMAIN queue : k # i => queue'[k] = queue[k]
  BY <1>1, ChangeIs
<1>3. i \notin Kept /\ queue[i].state \in Early
  BY <1>1 DEF Kept, InState, Early
<1>4. WorkersPass'
  BY <1>1, <1>2, <1>3, AsidePass
<1>5. /\ person' = [p \in People |-> person'[p]]
      /\ \A p \in People : DOMAIN person'[p] = {"pc", "goal", "told"} /\ person'[p] = person[p]
  BY <1>1 DEF PassInv, PeoplePass
<1>6. QED
  BY <1>1, <1>2, <1>3, <1>4, <1>5, GoalPasses

\* The queue's approval is recorded when the run has its own.
LEMMA ApproveGoalPasses == ASSUME RunInv, PassInv, NEW p \in People, ApproveGoal(p) PROVE PassInv'
<1>1. PICK i : i = person[p].goal
  OBVIOUS
<1>2. /\ person[p].pc = "recording" /\ queue[i].state = "waiting" /\ Change(i, "approved")
      /\ person' = [person EXCEPT ![p].pc = "telling"] /\ UNCHANGED <<run, worker>>
  BY <1>1 DEF ApproveGoal, May, Moves
<1>3. i \in DOMAIN queue /\ PastGate(run[queue[i].run])
  BY <1>1, <1>2 DEF PassInv, PeoplePass, Approving, RunOf
<1>4. /\ DOMAIN queue' = DOMAIN queue /\ queue'[i].state = "approved" /\ queue'[i].run = queue[i].run
      /\ \A k \in DOMAIN queue : k # i => queue'[k] = queue[k]
  BY <1>2, <1>3, ChangeIs
<1>5. WorkersPass'
  <2>1. i \notin Kept
    BY <1>2 DEF Kept, InState
  <2>2. QED
    BY <1>2, <1>4, <2>1, AsidePass
<1>6. /\ person' = [q \in People |-> person'[q]]
      /\ \A q \in People : /\ DOMAIN person'[q] = {"pc", "goal", "told"}
                           /\ person'[q] = person[q] \/ person'[q].pc = "telling"
  BY <1>2 DEF PassInv, PeoplePass
<1>7. queue'[i].state \notin Early /\ queue'[i].state # "waiting"
  BY <1>4 DEF Early
<1>8. /\ i \in DOMAIN queue' /\ DOMAIN queue' \subseteq DOMAIN queue \cup {i}
      /\ \A k \in DOMAIN queue : k \in DOMAIN queue' /\ (k # i => queue'[k] = queue[k])
  BY <1>3, <1>4
<1>9. \A q \in People :
        /\ DOMAIN person'[q] = {"pc", "goal", "told"}
        /\ person'[q] = person[q] \/ person'[q].pc \notin {"approving", "recording"}
  BY <1>6
<1>10. PastGate(run[queue'[i].run]) /\ UNCHANGED run
  BY <1>2, <1>3, <1>4
<1>11. QED
  BY <1>5, <1>6, <1>7, <1>8, <1>9, <1>10, GoalPasses

\* An approval in a run takes nothing back, and takes the run past its gate.
LEMMA ApproveRunPasses == ASSUME RunInv, PassInv, NEW p \in People, ApproveRun(p) PROVE PassInv'
<1>1. PICK i : i = person[p].goal
  OBVIOUS
<1>2. PICK r : r = queue[i].run
  OBVIOUS
<1>3. /\ person[p].pc = "approving" /\ person' = [person EXCEPT ![p].pc = "recording"]
      /\ run' = IF GateAsked(r) THEN [run EXCEPT ![r].approved = TRUE] ELSE run
      /\ UNCHANGED <<queue, worker>>
  BY <1>1, <1>2 DEF ApproveRun
<1>4. i \in DOMAIN queue /\ queue[i].state \notin Early
  BY <1>1, <1>3 DEF PassInv, PeoplePass, Approving
<1>5. r \in Runs /\ run \in [Runs -> RunFiles]
  BY <1>2, <1>4, Goal DEF Early, RunInv, FreshInv
<1>6. \A s \in Runs : /\ run[s].approved => run'[s].approved
                      /\ run'[s].status = run[s].status /\ run'[s].asked = run[s].asked
  BY <1>3, <1>5 DEF RunFiles
<1>7. GateAsked(r) => run'[r].approved
  BY <1>3, <1>5 DEF RunFiles
<1>8. \A k \in DOMAIN queue : queue[k].state \notin {"queued", "removed"} =>
        /\ RunOf(k).approved => RunOf(k)'.approved
        /\ PastGate(RunOf(k)) => PastGate(RunOf(k)')
        /\ Parked(RunOf(k)) => Parked(RunOf(k)')
  BY <1>3, <1>6, Goal DEF RunInv, RunOf, PastGate, Parked
<1>9. GoalsPass'
  <2>1. \A k \in DOMAIN queue : /\ queue[k].state = "approved" => PastGate(RunOf(k)')
                                /\ queue[k].state = "waiting" => Parked(RunOf(k)')
    BY <1>8 DEF PassInv, GoalsPass
  <2>2. QED
    BY <1>3, <2>1 DEF GoalsPass, PastGate, Parked
<1>10. WorkersPass'
  <2>1. ASSUME NEW w \in Workers PROVE HandPass(w)'
    <3>1. CASE worker[w].pc \notin {"settle", "drive", "driving"}
      BY <1>3, <3>1 DEF HandPass, At
    <3>2. CASE worker[w].pc \in {"settle", "drive", "driving"}
      <4>1. PICK k : k = worker[w].goal
        OBVIOUS
      <4>2. k \in DOMAIN queue /\ queue[k].state \notin {"queued", "removed"}
        BY <3>2, <4>1 DEF RunInv, HandInv, Hand, Kept, InState
      <4>3. HandPass(w)
        BY DEF PassInv, WorkersPass
      <4>4. /\ RunOf(k).approved => RunOf(k)'.approved
            /\ Parked(RunOf(k)) => Parked(RunOf(k)')
        BY <1>8, <4>2
      <4>5. QED
        BY <1>3, <4>1, <4>3, <4>4 DEF HandPass, At, InState, Parked, PastGate
    <3>3. QED
      BY <3>1, <3>2
  <2>2. QED
    BY <2>1 DEF WorkersPass
<1>11. queue[i].state = "waiting" => PastGate(RunOf(i)')
  <2>1. queue[i].state = "waiting" => Parked(RunOf(i))
    BY <1>4 DEF PassInv, GoalsPass
  <2>2. Parked(RunOf(i)) => PastGate(RunOf(i)) \/ GateAsked(r)
    BY <1>2 DEF Parked, GateAsked, RunOf
  <2>3. GateAsked(r) => PastGate(RunOf(i)')
    BY <1>2, <1>3, <1>7 DEF PastGate, RunOf
  <2>4. PastGate(RunOf(i)) => PastGate(RunOf(i)')
    BY <1>4, <1>8 DEF Early
  <2>5. QED
    BY <2>1, <2>2, <2>3, <2>4
<1>12. /\ person' = [q \in People |-> person'[q]]
       /\ \A q \in People : /\ DOMAIN person'[q] = {"pc", "goal", "told"}
                            /\ person'[q].goal = person[q].goal
                            /\ q # p => person'[q] = person[q]
       /\ person'[p].pc = "recording"
  BY <1>3 DEF PassInv, PeoplePass
<1>13. ASSUME NEW q \in People PROVE Approving(q)'
  <2>1. CASE q = p
    BY <1>1, <1>3, <1>4, <1>11, <1>12, <2>1 DEF Approving, PastGate
  <2>2. CASE q # p
    <3>1. Approving(q)
      BY DEF PassInv, PeoplePass
    <3>2. PICK k : k = person[q].goal
      OBVIOUS
    <3>3. k \in DOMAIN queue /\ queue[k].state = "waiting" /\ PastGate(RunOf(k)) => PastGate(RunOf(k)')
      BY <1>8
    <3>4. QED
      BY <1>3, <1>12, <2>2, <3>1, <3>2, <3>3 DEF Approving, PastGate
  <2>3. QED
    BY <2>1, <2>2
<1>14. QED
  BY <1>9, <1>10, <1>12, <1>13 DEF PassInv, PeoplePass

\* A command begins, tells, or ends.
LEMMA CommandPasses ==
  ASSUME PassInv, NEW p \in People, BeginApprove(p) \/ Tell(p) \/ CommandEnds(p)
  PROVE  PassInv'
<1>1. UNCHANGED <<queue, run, worker>>
  BY DEF BeginApprove, Tell, CommandEnds
<1>2. GoalsPass' /\ WorkersPass'
  BY <1>1, GoalsPassOn, SameHandPass DEF PassInv, WorkersPass
<1>3. /\ person' = [q \in People |-> person'[q]]
      /\ \A q \in People \ {p} : person'[q] = person[q]
      /\ DOMAIN person'[p] = {"pc", "goal", "told"}
      /\ \/ person'[p].pc \notin {"approving", "recording"}
         \/ person'[p].pc = "approving" /\ person'[p].goal \in InState("waiting")
  <2>1. CASE BeginApprove(p)
    <3>1. PICK i \in InState("waiting") :
            person' = [person EXCEPT ![p] = [AtRest EXCEPT !.pc = "approving", !.goal = i]]
      BY <2>1 DEF BeginApprove
    <3> DEFINE a == [AtRest EXCEPT !.pc = "approving", !.goal = i]
    <3>2. DOMAIN a = {"pc", "goal", "told"} /\ a.pc = "approving" /\ a.goal = i
      BY DEF AtRest
    <3>3. person' = [person EXCEPT ![p] = a]
      BY <3>1
    <3> HIDE DEF a
    <3>4. QED
      BY <3>2, <3>3 DEF PassInv, PeoplePass
  <2>2. CASE Tell(p)
    <3> DEFINE a == [person[p] EXCEPT !.pc = "told", !.told = lock]
    <3>1. DOMAIN a = {"pc", "goal", "told"} /\ a.pc = "told"
      BY DEF PassInv, PeoplePass
    <3>2. person' = [person EXCEPT ![p] = a]
      BY <2>2 DEF Tell
    <3> HIDE DEF a
    <3>3. QED
      BY <3>1, <3>2 DEF PassInv, PeoplePass
  <2>3. CASE CommandEnds(p)
    BY <2>3 DEF CommandEnds, AtRest, PassInv, PeoplePass
  <2>4. QED
    BY <2>1, <2>2, <2>3
<1>4. \A i : RunOf(i)' = RunOf(i)
  BY <1>1 DEF RunOf
<1>5. ASSUME NEW q \in People PROVE Approving(q)'
  <2>1. CASE q = p
    BY <1>1, <1>3, <2>1 DEF Approving, InState, Early
  <2>2. CASE q # p
    BY <1>1, <1>3, <1>4, <2>2 DEF PassInv, PeoplePass, Approving
  <2>3. QED
    BY <2>1, <2>2
<1>6. PeoplePass'
  <2>1. \A q \in People : DOMAIN person'[q] = {"pc", "goal", "told"}
    BY <1>3 DEF PassInv, PeoplePass
  <2>2. QED
    BY <1>3, <1>5, <2>1 DEF PeoplePass
<1>7. QED
  BY <1>2, <1>6 DEF PassInv

LEMMA NextPassInv == ASSUME Inv, RunInv, PassInv, [Next]_vars PROVE PassInv'
<1>1. ASSUME NEW w \in Workers, StartTheQueue(w) \/ WorkerStep(w) \/ Cancel(w) \/ Crash(w)
      PROVE  PassInv'
  BY <1>1, FreeStepsPass, DecidePasses, ClaimPasses, MakingPasses, DrivePasses, DispatchedPasses,
     InterruptedPasses, SettlePasses, CancelPasses DEF WorkerStep
<1>2. ASSUME NEW p \in People, PersonStep(p) PROVE PassInv'
  BY <1>2, AddPasses, CommandPasses, ApproveRunPasses, ApproveGoalPasses DEF PersonStep
<1>3. ASSUME NEW i \in Goals, Remove(i) \/ ResumeByHand(i) \/ DeleteCopy(i) PROVE PassInv'
  BY <1>3, RemovePasses, ResumeByHandPasses, DeleteCopyPasses
<1>4. CASE UNCHANGED vars
  <2>1. UNCHANGED <<queue, run, worker, person>>
    BY <1>4 DEF vars
  <2>2. QED
    BY <2>1, GoalsPassOn, SameHandPass DEF PassInv, WorkersPass
<1>5. QED
  BY <1>1, <1>2, <1>3, <1>4 DEF Next

\* Only Drive takes a worker from deciding to drive to driving.
LEMMA DrivesApproved ==
  ASSUME RunInv, PassInv, NEW w \in Workers, At(w, "drive"),
         queue[worker[w].goal].state = "approved"
  PROVE  run[RunIn(w)].approved
<1>1. worker[w].goal \in InState("approved")
  BY DEF At, RunInv, HandInv, Hand, Kept, InState
<1>2. QED
  BY <1>1 DEF At, PassInv, WorkersPass, HandPass, RunOf, RunIn

\* approveQueuedGoal (cli/queue.go): whichever of the two writes a crash, a
\* second person or a resume by hand falls between, the run that a worker is
\* sent back to has its approval in it.
THEOREM ApprovalsReachTheRun == Spec => ApprovalReachesTheRun
<1>1. Init => PassInv
  BY InitPassInv
<1>2. Inv /\ RunInv /\ PassInv /\ [Next]_vars => PassInv'
  BY NextPassInv
<1>3. RunInv /\ PassInv =>
        [\A w \in Workers :
           At(w, "drive") /\ worker'[w].pc = "driving" /\ queue[worker[w].goal].state = "approved"
             => run[RunIn(w)].approved \/ ~ run[RunIn(w)].asked]_vars
  BY DrivesApproved
<1>4. QED
  BY <1>1, <1>2, <1>3, RunsInductive, PTL DEF Spec, ApprovalReachesTheRun

=============================================================================
