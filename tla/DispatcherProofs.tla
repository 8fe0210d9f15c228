-------------------------- MODULE DispatcherProofs --------------------------
(***************************************************************************)
(* Safety of one run, for every graph, configuration, crash and resume:    *)
(* every value of Dispatcher's constants.  First its journal; then what a  *)
(* run keeps across every crash, pause and resume: its place, its spend,   *)
(* and the blackboard its nodes are given; and that the run the journal    *)
(* records is a run of RunSpec.                                            *)
(*                                                                         *)
(* What the files say is tied to what the process is doing: the journal is *)
(* open exactly while a node's execution is in hand, its last record is    *)
(* then that execution's start, and the completion about to be written is  *)
(* that start's.                                                           *)
(***************************************************************************)
EXTENDS Dispatcher, JournalProofs

\* Where the process has an execution in hand, and where it has none.
Inside  == {"snapshot", "run", "patch", "finish"}
Between == {"owed", "check", "loop", "persist", "end", "ended"}

Matches(r) == r.event = "node_finished" /\ r.node = at.node /\ r.attempt = at.attempt

ControlInv ==
  /\ IsASequence(journal)
  /\ pc \in PCs
  /\ DOMAIN mem = DOMAIN Idle

JournalInv ==
  /\ Validate(journal)
  /\ pc = "close" => IsOpen(journal)
  /\ pc \in Between => ~ IsOpen(journal)
  /\ pc \in Inside => /\ IsOpen(journal)
                      /\ Last(journal).node = at.node
                      /\ Last(journal).attempt = at.attempt
  /\ pc \in {"patch", "finish"} => Matches(closing)
  /\ pc = "end" => mem.ending.event \in RunEvents

TornInv   == pc # "down" => ~ torn
OrphanInv == orphan # NoNode => pc \in {"down", "heal"} /\ IsOpen(journal)
PatchInv  == /\ PatchBeforeJournal
             /\ pc = "finish" /\ closing.note = "accepted" => Len(journal) \in hist

Inv == ControlInv /\ JournalInv /\ TornInv /\ OrphanInv /\ PatchInv

-----------------------------------------------------------------------------
(***************************************************************************)
(* The records a process writes.                                           *)
(***************************************************************************)
LEMMA Events_Disjoint ==
  \A e \in RunEvents : e # "node_started" /\ e # "node_finished"
BY DEF RunEvents

LEMMA MarkerEvent ==
  ASSUME NEW e
  PROVE  RunMarker(e).event = e
BY DEF RunMarker

\* Whatever settle decides, it closes the attempt in hand, and only a result
\* it accepted is noted as accepted.
LEMMA ClosingMatches ==
  ASSUME NEW r, NEW why
  PROVE  Matches(ClosingRecord(r, why)) /\ ClosingRecord(r, why).note = why
<1>1. \E st, nx, u : ClosingRecord(r, why) = NodeFinished(at.node, at.attempt, st, nx, u, why)
  <2> ~ RunsAgain("accepted")
    BY DEF RunsAgain
  <2>1. CASE why = "accepted"
    BY <2>1, Zenon DEF ClosingRecord
  <2>2. CASE why # "accepted" /\ RunsAgain(why)
    BY <2>2, Zenon DEF ClosingRecord, InterruptedAttempt
  <2>3. CASE why # "accepted" /\ ~ RunsAgain(why)
    BY <2>3, Zenon DEF ClosingRecord
  <2>4. QED
    BY <2>1, <2>2, <2>3
<1>2. QED
  BY <1>1 DEF NodeFinished, Matches

LEMMA VerdictIsARunEvent == LoopVerdict \in RunEvents
BY DEF LoopVerdict, RunEvents, NothingOwed

LEMMA EndingIsARunEvent ==
  ASSUME NEW r
  PROVE  EndingOf(r) \in RunEvents
BY DEF EndingOf, RunEvents, NothingOwed

LEMMA OwedIsARunEvent ==
  ASSUME NEW r
  PROVE  OwedRunMarker(r) \in RunEvents
BY DEF OwedRunMarker, RunEvents, NothingOwed

-----------------------------------------------------------------------------
(***************************************************************************)
(* A record appended by a step that leaves History alone.                  *)
(***************************************************************************)
LEMMA AppendKeepsPatch ==
  ASSUME NEW r, IsASequence(journal), PatchBeforeJournal,
         journal' = Append(journal, r), UNCHANGED hist,
         r.event = "node_finished" /\ r.note = "accepted" => Len(journal) \in hist
  PROVE  PatchBeforeJournal'
<1>1. /\ Len(journal) \in Nat
      /\ journal'[Len(journal) + 1] = r
      /\ \A i \in 1 .. Len(journal) : journal'[i] = journal[i]
  BY AppendFacts
<1>2. FinishedAt(journal') = FinishedAt(journal) \cup
        (IF r.event = "node_finished" THEN {Len(journal) + 1} ELSE {})
  BY AppendFinished
<1>3. \A i \in FinishedAt(journal) : i \in 1 .. Len(journal)
  BY DEF FinishedAt
<1>4. ASSUME NEW i \in FinishedAt(journal'), journal'[i].note = "accepted"
      PROVE  i - 1 \in hist'
  <2>1. CASE i \in FinishedAt(journal)
    BY <2>1, <1>1, <1>3, <1>4 DEF PatchBeforeJournal
  <2>2. CASE i \notin FinishedAt(journal)
    <3>1. r.event = "node_finished" /\ i = Len(journal) + 1
      BY <2>2, <1>2
    <3>2. QED
      BY <3>1, <1>1, <1>4
  <2>3. QED
    BY <2>1, <2>2
<1>5. QED
  BY <1>4 DEF PatchBeforeJournal

LEMMA InitInv == Init => Inv
<1> SUFFICES ASSUME Init PROVE Inv
  OBVIOUS
<1>1. IsASequence(journal) /\ Len(journal) = 0
  BY DEF Init, IsASequence
<1>2. FinishedAt(journal) = {} /\ ~ IsOpen(journal) /\ Validate(journal)
  BY <1>1 DEF Init, FinishedAt, IsOpen, Validate
<1>3. QED
  BY <1>1, <1>2 DEF Init, Inv, ControlInv, JournalInv, TornInv, OrphanInv, PatchInv,
                    PatchBeforeJournal, PCs, Between, Inside

(***************************************************************************)
(* One step.  The actions that append a record come first; each is shown   *)
(* to append one that may follow.                                          *)
(***************************************************************************)
\* What appending a completion of the execution in hand, or a run marker
\* while none is, leaves of the journal's part of the invariant.
LEMMA AppendClosing ==
  ASSUME Inv, NEW r, journal' = Append(journal, r), UNCHANGED hist,
         IsOpen(journal), r.event = "node_finished",
         r.node = Last(journal).node, r.attempt = Last(journal).attempt,
         r.note = "accepted" => Len(journal) \in hist
  PROVE  /\ IsASequence(journal') /\ Validate(journal') /\ ~ IsOpen(journal')
         /\ PatchBeforeJournal'
<1>1. IsASequence(journal') /\ Validate(journal') /\ ~ IsOpen(journal')
  BY AppendToOpen, AppendFacts, AppendOpen DEF Inv, ControlInv, JournalInv, Last
<1>2. PatchBeforeJournal'
  BY AppendKeepsPatch DEF Inv, ControlInv, PatchInv
<1>3. QED
  BY <1>1, <1>2

LEMMA AppendMarker ==
  ASSUME Inv, NEW e \in RunEvents, journal' = Append(journal, RunMarker(e)),
         UNCHANGED hist, ~ IsOpen(journal)
  PROVE  /\ IsASequence(journal') /\ Validate(journal') /\ ~ IsOpen(journal')
         /\ PatchBeforeJournal' /\ orphan = NoNode
<1>1. RunMarker(e).event # "node_finished" /\ RunMarker(e).event # "node_started"
  BY Events_Disjoint, MarkerEvent
<1>2. IsASequence(journal') /\ Validate(journal') /\ ~ IsOpen(journal')
  BY <1>1, AppendToClosed, AppendFacts, AppendOpen DEF Inv, ControlInv, JournalInv
<1>3. PatchBeforeJournal'
  BY <1>1, AppendKeepsPatch DEF Inv, ControlInv, PatchInv
<1>4. QED
  BY <1>2, <1>3 DEF Inv, OrphanInv

LEMMA HealCloseInv == ASSUME Inv, HealClose PROVE Inv'
<1>1. PICK u : journal' = Append(journal, InterruptedAttempt(Last(journal).node,
                                            Last(journal).attempt, u, "crashed"))
  BY DEF HealClose, AppendRecord
<1> DEFINE c == InterruptedAttempt(Last(journal).node, Last(journal).attempt, u, "crashed")
<1>2. /\ c.event = "node_finished" /\ c.note = "crashed"
      /\ c.node = Last(journal).node /\ c.attempt = Last(journal).attempt
  BY DEF InterruptedAttempt, NodeFinished
<1>3. pc = "close" /\ pc' = "check" /\ UNCHANGED <<torn, hist, orphan, closing>>
      /\ DOMAIN mem' = DOMAIN mem
  BY DEF HealClose, AppendRecord, Continue, files, env, exec
<1> HIDE DEF c
<1>4. /\ IsASequence(journal') /\ Validate(journal') /\ ~ IsOpen(journal')
      /\ PatchBeforeJournal'
  BY <1>1, <1>2, <1>3, AppendClosing DEF Inv, JournalInv, c
<1>5. QED
  BY <1>3, <1>4 DEF Inv, ControlInv, JournalInv, TornInv, OrphanInv, PatchInv,
                    PCs, Between, Inside

LEMMA HealOwedInv == ASSUME Inv, HealOwed PROVE Inv'
<1> DEFINE e == OwedRunMarker(Last(journal))
<1>1. /\ pc = "heal" /\ pc' = "owed" /\ journal' = Append(journal, RunMarker(e))
      /\ UNCHANGED <<torn, hist, orphan, mem, closing>>
  BY DEF HealOwed, AppendRecord, Continue, files, env, exec
<1>2. ~ IsOpen(journal)
  BY DEF HealOwed, Owes, IsOpen, Last
<1>3. e \in RunEvents
  BY OwedIsARunEvent
<1> HIDE DEF e
<1>4. /\ IsASequence(journal') /\ Validate(journal') /\ ~ IsOpen(journal')
      /\ PatchBeforeJournal' /\ orphan = NoNode
  BY <1>1, <1>2, <1>3, AppendMarker
<1>5. QED
  BY <1>1, <1>4 DEF Inv, ControlInv, JournalInv, TornInv, OrphanInv, PatchInv,
                    PCs, Between, Inside

LEMMA ResumePausedInv == ASSUME Inv, ResumePaused PROVE Inv'
<1>1. /\ pc = "check" /\ pc' = "loop" /\ journal' = Append(journal, RunMarker("run_resumed"))
      /\ UNCHANGED <<torn, hist, orphan, mem, closing>>
  BY DEF ResumePaused, AppendRecord, Continue, files, env, exec
<1>2. ~ IsOpen(journal)
  BY <1>1 DEF Inv, JournalInv, Between
<1>3. "run_resumed" \in RunEvents
  BY DEF RunEvents
<1>4. /\ IsASequence(journal') /\ Validate(journal') /\ ~ IsOpen(journal')
      /\ PatchBeforeJournal' /\ orphan = NoNode
  BY <1>1, <1>2, <1>3, AppendMarker
<1>5. QED
  BY <1>1, <1>4 DEF Inv, ControlInv, JournalInv, TornInv, OrphanInv, PatchInv,
                    PCs, Between, Inside

LEMMA ProceedInv == ASSUME Inv, Proceed PROVE Inv'
<1>1. /\ pc = "check" /\ pc' = "loop"
      /\ \/ journal' = Append(journal, RunMarker("run_started"))
         \/ journal' = journal
      /\ UNCHANGED <<torn, hist, orphan, mem, closing>>
  BY DEF Proceed, AppendRecord, Continue, log, files, env, exec
<1>2. ~ IsOpen(journal)
  BY <1>1 DEF Inv, JournalInv, Between
<1>3. "run_started" \in RunEvents
  BY DEF RunEvents
<1>4. CASE journal' = Append(journal, RunMarker("run_started"))
  <2>1. /\ IsASequence(journal') /\ Validate(journal') /\ ~ IsOpen(journal')
        /\ PatchBeforeJournal' /\ orphan = NoNode
    BY <1>1, <1>2, <1>3, <1>4, AppendMarker
  <2>2. QED
    BY <1>1, <2>1 DEF Inv, ControlInv, JournalInv, TornInv, OrphanInv, PatchInv,
                      PCs, Between, Inside
<1>5. CASE journal' = journal
  BY <1>1, <1>2, <1>5 DEF Inv, ControlInv, JournalInv, TornInv, OrphanInv, PatchInv,
                          PatchBeforeJournal, PCs, Between, Inside
<1>6. QED
  BY <1>1, <1>4, <1>5

LEMMA StartNodeInv == ASSUME Inv, StartNode PROVE Inv'
<1> DEFINE r == NodeStarted(at.node, at.attempt)
<1>1. /\ pc = "loop" /\ pc' = "snapshot" /\ journal' = Append(journal, r)
      /\ UNCHANGED <<torn, hist, orphan, mem, closing, at>>
  BY DEF StartNode, AppendRecord, Continue, files, env, exec
<1>2. /\ r.event = "node_started" /\ r.node = at.node /\ r.attempt = at.attempt
  BY DEF NodeStarted
<1> HIDE DEF r
<1>3. ~ IsOpen(journal)
  BY <1>1 DEF Inv, JournalInv, Between
<1>4. /\ IsASequence(journal') /\ Validate(journal') /\ IsOpen(journal')
      /\ Last(journal') = r
  BY <1>1, <1>2, <1>3, AppendToClosed, AppendFacts, AppendOpen
     DEF Inv, ControlInv, JournalInv, Last
<1>5. PatchBeforeJournal' /\ orphan = NoNode
  BY <1>1, <1>2, <1>3, AppendKeepsPatch DEF Inv, ControlInv, PatchInv, OrphanInv
<1>6. QED
  BY <1>1, <1>2, <1>4, <1>5 DEF Inv, ControlInv, JournalInv, TornInv, OrphanInv, PatchInv,
                                PCs, Between, Inside

LEMMA SnapshotFailsInv == ASSUME Inv, SnapshotFails PROVE Inv'
<1> DEFINE r == InterruptedAttempt(at.node, at.attempt, 0, "notrun")
<1>1. /\ pc = "snapshot" /\ pc' = "down" /\ journal' = Append(journal, r)
      /\ UNCHANGED <<torn, hist, orphan>> /\ mem' = Idle
  BY DEF SnapshotFails, AppendRecord, Exit, files, env
<1>2. /\ r.event = "node_finished" /\ r.node = at.node /\ r.attempt = at.attempt
      /\ r.note = "notrun"
  BY DEF InterruptedAttempt, NodeFinished
<1> HIDE DEF r
<1>3. /\ IsASequence(journal') /\ Validate(journal') /\ ~ IsOpen(journal')
      /\ PatchBeforeJournal'
  BY <1>1, <1>2, AppendClosing DEF Inv, JournalInv, Inside
<1>4. QED
  BY <1>1, <1>3 DEF Inv, ControlInv, JournalInv, TornInv, OrphanInv, PatchInv,
                    PCs, Between, Inside

LEMMA FinishNodeInv == ASSUME Inv, FinishNode PROVE Inv'
<1>1. /\ pc = "finish" /\ journal' = Append(journal, closing)
      /\ UNCHANGED <<torn, hist, orphan, closing>>
      /\ \/ pc' = "persist" /\ mem' = mem
         \/ /\ pc' = "end"
            /\ \E n : mem' = [mem EXCEPT !.ending = [event |-> EndingOf(closing), node |-> n]]
  BY DEF FinishNode, AppendRecord, Continue, EndRun, files, env, exec
<1>2. /\ IsASequence(journal') /\ Validate(journal') /\ ~ IsOpen(journal')
      /\ PatchBeforeJournal'
  BY <1>1, AppendClosing DEF Inv, JournalInv, PatchInv, Inside, Matches
<1>3. DOMAIN mem' = DOMAIN Idle /\ (pc' = "end" => mem'.ending.event \in RunEvents)
  <2>1. EndingOf(closing) \in RunEvents /\ "ending" \in DOMAIN Idle
    BY EndingIsARunEvent DEF Idle
  <2>2. QED
    BY <1>1, <2>1 DEF Inv, ControlInv
<1>4. QED
  BY <1>1, <1>2, <1>3 DEF Inv, ControlInv, JournalInv, TornInv, OrphanInv, PatchInv,
                          PCs, Between, Inside

LEMMA EndMarkInv == ASSUME Inv, EndMark PROVE Inv'
<1> DEFINE e == mem.ending.event
<1>1. /\ pc = "end" /\ pc' = "ended" /\ journal' = Append(journal, RunMarker(e))
      /\ UNCHANGED <<torn, hist, orphan, mem, closing>>
  BY DEF EndMark, AppendRecord, Continue, files, env, exec
<1>2. ~ IsOpen(journal) /\ e \in RunEvents
  BY <1>1 DEF Inv, JournalInv, Between
<1> HIDE DEF e
<1>3. /\ IsASequence(journal') /\ Validate(journal') /\ ~ IsOpen(journal')
      /\ PatchBeforeJournal' /\ orphan = NoNode
  BY <1>1, <1>2, AppendMarker
<1>4. QED
  BY <1>1, <1>3 DEF Inv, ControlInv, JournalInv, TornInv, OrphanInv, PatchInv,
                    PCs, Between, Inside

(***************************************************************************)
(* The actions that append nothing.                                        *)
(***************************************************************************)
\* A process that goes, having written nothing, leaves what it found.
LEMMA ExitInv ==
  ASSUME Inv, Exit, UNCHANGED <<journal, hist>>,
         orphan' # NoNode => IsOpen(journal)
  PROVE  Inv'
BY DEF Inv, ControlInv, JournalInv, TornInv, OrphanInv, PatchInv, PatchBeforeJournal,
       Exit, PCs, Between, Inside

LEMMA OpenInv ==
  ASSUME Inv, NEW cfg, NEW resuming, Open(cfg, resuming)
  PROVE  Inv'
<1>1. DOMAIN mem' = DOMAIN Idle
  BY DEF Open
<1>2. /\ pc = "down" /\ pc' = "heal" /\ UNCHANGED <<journal, hist, orphan>> /\ torn' = FALSE
  BY DEF Open, Continue, files
<1>3. QED
  BY <1>1, <1>2 DEF Inv, ControlInv, JournalInv, TornInv, OrphanInv, PatchInv,
                    PatchBeforeJournal, PCs, Between, Inside

LEMMA HealReapInv == ASSUME Inv, HealReap PROVE Inv'
BY DEF HealReap, Continue, log, files, exec, Inv, ControlInv, JournalInv, TornInv,
       OrphanInv, PatchInv, PatchBeforeJournal, PCs, Between, Inside

LEMMA HealPersistInv == ASSUME Inv, HealPersist PROVE Inv'
BY DEF HealPersist, Continue, log, env, exec, Inv, ControlInv, JournalInv, TornInv,
       OrphanInv, PatchInv, PatchBeforeJournal, PCs, Between, Inside

LEMMA NothingToHealInv == ASSUME Inv, NothingToHeal PROVE Inv'
BY DEF NothingToHeal, Continue, log, files, env, exec, Inv, ControlInv, JournalInv, TornInv,
       OrphanInv, PatchInv, PatchBeforeJournal, PCs, Between, Inside

LEMMA RefuseInv == ASSUME Inv, Refuse PROVE Inv'
BY ExitInv DEF Refuse, log, files, env, Inv, OrphanInv

LEMMA LoopEndsInv == ASSUME Inv, LoopEnds PROVE Inv'
<1>1. /\ pc = "loop" /\ pc' = "end" /\ UNCHANGED <<journal, torn, hist, orphan>>
      /\ mem' = [mem EXCEPT !.ending = [event |-> LoopVerdict, node |-> at.node]]
  BY DEF LoopEnds, EndRun, log, files, env
<1>2. DOMAIN mem' = DOMAIN Idle /\ mem'.ending.event \in RunEvents
  BY <1>1, VerdictIsARunEvent DEF Inv, ControlInv, Idle
<1>3. QED
  BY <1>1, <1>2 DEF Inv, ControlInv, JournalInv, TornInv, OrphanInv, PatchInv,
                    PatchBeforeJournal, PCs, Between, Inside

LEMMA TakeSnapshotInv == ASSUME Inv, TakeSnapshot PROVE Inv'
BY DEF TakeSnapshot, Continue, log, env, Inv, ControlInv, JournalInv, TornInv,
       OrphanInv, PatchInv, PatchBeforeJournal, PCs, Between, Inside

LEMMA SettleInv ==
  ASSUME Inv, pc = "run", NEW r, NEW timedOut, Settle(r, timedOut)
  PROVE  Inv'
<1> DEFINE why == Verdict(r, timedOut)
<1>1. /\ closing' = ClosingRecord(r, why)
      /\ pc' = IF why = "accepted" THEN "patch" ELSE "finish"
      /\ UNCHANGED <<journal, torn, hist, orphan, at>>
      /\ DOMAIN mem' = DOMAIN mem
  BY DEF Settle, Continue, log, files
<1>2. Matches(closing') /\ closing'.note = why
  BY <1>1, ClosingMatches
<1> HIDE DEF why
<1>3. QED
  BY <1>1, <1>2 DEF Inv, ControlInv, JournalInv, TornInv, OrphanInv, PatchInv, Matches,
                    PatchBeforeJournal, PCs, Between, Inside

LEMMA CancelInv == ASSUME Inv, Cancel PROVE Inv'
<1>1. DOMAIN mem' = DOMAIN Idle /\ mem'.ending = mem.ending
  BY DEF Cancel, Inv, ControlInv, Idle
<1>2. UNCHANGED <<journal, torn, hist, orphan, pc, at, closing>>
  BY DEF Cancel, log, files, env, exec
<1>3. QED
  BY <1>1, <1>2 DEF Inv, ControlInv, JournalInv, TornInv, OrphanInv, PatchInv, Matches,
                    PatchBeforeJournal

LEMMA ApplyPatchInv == ASSUME Inv, ApplyPatch PROVE Inv'
<1>1. /\ pc = "patch" /\ pc' = "finish" /\ hist' = hist \cup {Len(journal)}
      /\ UNCHANGED <<journal, torn, orphan, at, closing>> /\ DOMAIN mem' = DOMAIN mem
  BY DEF ApplyPatch, Continue, log, env, exec
<1>2. QED
  BY <1>1 DEF Inv, ControlInv, JournalInv, TornInv, OrphanInv, PatchInv, Matches,
              PatchBeforeJournal, PCs, Between, Inside

LEMMA PersistRunningInv == ASSUME Inv, PersistRunning PROVE Inv'
<1>1. /\ pc = "persist" /\ UNCHANGED <<journal, torn, hist, orphan>>
      /\ \/ pc' = "loop" /\ mem' = mem
         \/ /\ pc' = "end"
            /\ mem' = [mem EXCEPT !.ending = [event |-> "run_paused", node |-> closing.next]]
  BY DEF PersistRunning, Continue, EndRun, log, env
<1>2. DOMAIN mem' = DOMAIN Idle /\ (pc' = "end" => mem'.ending.event \in RunEvents)
  BY <1>1 DEF Inv, ControlInv, Idle, RunEvents
<1>3. QED
  BY <1>1, <1>2 DEF Inv, ControlInv, JournalInv, TornInv, OrphanInv, PatchInv,
                    PatchBeforeJournal, PCs, Between, Inside

LEMMA EndPersistInv == ASSUME Inv, EndPersist PROVE Inv'
BY ExitInv DEF EndPersist, log, env, Inv, OrphanInv

LEMMA CrashInv == ASSUME Inv, Crash PROVE Inv'
<1>1. Exit /\ UNCHANGED <<journal, hist>>
  BY DEF Crash, files
<1>2. orphan' # NoNode => IsOpen(journal)
  BY DEF Crash, Inv, JournalInv, OrphanInv, Inside
<1>3. QED
  BY <1>1, <1>2, ExitInv

\* Steps of others than the dispatcher touch only the workspace.
LEMMA OthersInv ==
  ASSUME Inv, UNCHANGED <<log, files, orphan, pc, at, exec, mem>>
  PROVE  Inv'
BY DEF log, files, exec, Inv, ControlInv, JournalInv, TornInv, OrphanInv, PatchInv, Matches,
       PatchBeforeJournal

LEMMA NextInv == Inv /\ [Next]_vars => Inv'
<1> SUFFICES ASSUME Inv, [Next]_vars PROVE Inv'
  OBVIOUS
<1>1. ASSUME NEW cfg \in Configs, NEW resuming \in BOOLEAN, Open(cfg, resuming) PROVE Inv'
  BY <1>1, OpenInv
<1>2. CASE Advance
  <2>1. CASE NodeReturns
    BY <2>1, SettleInv DEF NodeReturns, MayReturn
  <2>2. CASE NodeTimesOut
    BY <2>2, SettleInv DEF NodeTimesOut, MayReturn
  <2>3. CASE HealReap \/ HealClose \/ HealOwed \/ HealPersist \/ NothingToHeal
    BY <2>3, HealReapInv, HealCloseInv, HealOwedInv, HealPersistInv, NothingToHealInv
  <2>4. CASE Refuse \/ ResumePaused \/ Proceed
    BY <2>4, RefuseInv, ResumePausedInv, ProceedInv
  <2>5. CASE LoopEnds \/ StartNode \/ TakeSnapshot
    BY <2>5, LoopEndsInv, StartNodeInv, TakeSnapshotInv
  <2>6. CASE ApplyPatch \/ FinishNode \/ PersistRunning \/ EndMark \/ EndPersist
    BY <2>6, ApplyPatchInv, FinishNodeInv, PersistRunningInv, EndMarkInv, EndPersistInv
  <2>7. QED
    BY <1>2, <2>1, <2>2, <2>3, <2>4, <2>5, <2>6 DEF Advance
<1>3. CASE SnapshotFails \/ Cancel \/ Crash
  BY <1>3, SnapshotFailsInv, CancelInv, CrashInv
<1>4. CASE OrphanWrites \/ PersonEdits
  BY <1>4, OthersInv DEF OrphanWrites, PersonEdits
<1>5. CASE UNCHANGED vars
  BY <1>5, OthersInv DEF vars, env
<1>6. QED
  BY <1>1, <1>2, <1>3, <1>4, <1>5 DEF Next

LEMMA SpecInv == Spec => []Inv
BY InitInv, NextInv, PTL DEF Spec

-----------------------------------------------------------------------------
(***************************************************************************)
(* The theorems.                                                           *)
(***************************************************************************)
\* No crash, wherever it falls and however often, and no order of resumes,
\* pauses and cancellations leaves a journal that journal.Validate refuses:
\* a run can always be opened again.
THEOREM JournalAlwaysValid == Spec => []JournalValid
<1>1. Inv => JournalValid
  BY DEF Inv, JournalInv, JournalValid
<1>2. QED
  BY SpecInv, <1>1, PTL

\* Whatever outlived a dead process has been killed by the time a node of
\* the run executes again: reap comes before the record that closes the
\* attempt, and no other way leads from one node to the next.
THEOREM OrphansReapedInTime == Spec => []NoOrphanBesideANode
<1>1. Inv => NoOrphanBesideANode
  BY DEF Inv, OrphanInv, NoOrphanBesideANode
<1>2. QED
  BY SpecInv, <1>1, PTL

\* A completion the journal holds is one state.json holds: whenever a
\* node_finished is on disk for an accepted result, so is its patch.
THEOREM PatchesPrecedeCompletions == Spec => []PatchBeforeJournal
<1>1. Inv => PatchBeforeJournal
  BY DEF Inv, PatchInv
<1>2. QED
  BY SpecInv, <1>1, PTL

\* A record is only ever appended to whole records.
THEOREM TornTailsAreDropped == Spec => NoAppendOverTornTail
<1>1. Inv /\ [Next]_vars => [journal' # journal => ~ torn]_vars
  <2> SUFFICES ASSUME Inv, [Next]_vars, journal' # journal PROVE ~ torn
    BY DEF vars, log
  <2>1. pc # "down"
    BY DEF Next, Advance, Open, HealReap, HealClose, HealOwed, HealPersist, NothingToHeal,
           Refuse, ResumePaused, Proceed, LoopEnds, StartNode, TakeSnapshot, NodeReturns,
           NodeTimesOut, ApplyPatch, FinishNode, PersistRunning, EndMark, EndPersist,
           SnapshotFails, Cancel, Crash, OrphanWrites, PersonEdits, vars, log
  <2>2. QED
    BY <2>1 DEF Inv, TornInv
<1>2. QED
  BY SpecInv, <1>1, PTL DEF Spec, NoAppendOverTornTail

-----------------------------------------------------------------------------
(***************************************************************************)
(* The ledger a journal records.  Replayed walks the journal; there is one *)
(* such walk, so one more record takes it one step further.                *)
(***************************************************************************)
Spent(j) == Replayed(j, Supervisors)

WalkTo(f, j, n) ==
  f = [k \in 0 .. n |->
        IF k = 0 THEN NewLedger
        ELSE IF j[k].event # "node_finished" THEN f[k - 1]
        ELSE ChargeTo(f[k - 1], j[k].node, j[k].usage, Supervisors)]

LEMMA WalkIsUnique ==
  ASSUME NEW j, NEW n \in Nat, NEW f, NEW g, WalkTo(f, j, n), WalkTo(g, j, n)
  PROVE  f = g
<1> DEFINE D == {k \in 0 .. n : f[k] # g[k]}
<1>1. CASE D = {}
  <2>1. \A k \in 0 .. n : f[k] = g[k]
    BY <1>1
  <2>2. DOMAIN f = 0 .. n /\ DOMAIN g = 0 .. n /\ f = [k \in DOMAIN f |-> f[k]]
        /\ g = [k \in DOMAIN g |-> g[k]]
    BY DEF WalkTo
  <2>3. QED
    BY <2>1, <2>2
<1>2. CASE D # {}
  <2>1. D \in SUBSET Nat
    OBVIOUS
  <2>2. PICK x \in D : \A y \in D : x <= y
    BY <1>2, <2>1, LeastOfASet
  <2>3. x \in 0 .. n /\ f[x] # g[x]
    BY <2>2
  <2>4. x # 0
    BY <2>3 DEF WalkTo
  <2>5. x - 1 \in 0 .. n /\ x - 1 \notin D
    BY <2>2, <2>3, <2>4
  <2>6. f[x - 1] = g[x - 1]
    BY <2>5
  <2>7. QED
    BY <2>3, <2>4, <2>6 DEF WalkTo
<1>3. QED
  BY <1>1, <1>2

LEMMA WalkStep ==
  ASSUME NEW j, NEW n \in Nat, NEW f, WalkTo(f, j, n)
  PROVE  \E g : WalkTo(g, j, n + 1)
<1> DEFINE c == IF j[n + 1].event # "node_finished" THEN f[n]
                ELSE ChargeTo(f[n], j[n + 1].node, j[n + 1].usage, Supervisors)
           g == [k \in 0 .. n + 1 |-> IF k = n + 1 THEN c ELSE f[k]]
<1>1. \A k \in 0 .. n : k # n + 1 /\ g[k] = f[k]
  OBVIOUS
<1>2. ASSUME NEW k \in 0 .. n + 1
      PROVE  g[k] = IF k = 0 THEN NewLedger
                    ELSE IF j[k].event # "node_finished" THEN g[k - 1]
                    ELSE ChargeTo(g[k - 1], j[k].node, j[k].usage, Supervisors)
  <2>1. CASE k = n + 1
    <3>1. k # 0 /\ k - 1 = n /\ n \in 0 .. n /\ g[k] = c
      BY <2>1
    <3>2. g[n] = f[n]
      BY <3>1, <1>1
    <3>3. QED
      BY <2>1, <3>1, <3>2
  <2>2. CASE k # n + 1
    <3>1. k \in 0 .. n /\ g[k] = f[k]
      BY <2>2
    <3>2. k # 0 => k - 1 \in 0 .. n /\ g[k - 1] = f[k - 1]
      BY <3>1
    <3>3. f[k] = IF k = 0 THEN NewLedger
                 ELSE IF j[k].event # "node_finished" THEN f[k - 1]
                 ELSE ChargeTo(f[k - 1], j[k].node, j[k].usage, Supervisors)
      BY <3>1 DEF WalkTo
    <3> HIDE DEF g
    <3>4. QED
      BY <3>1, <3>2, <3>3
  <2>3. QED
    BY <2>1, <2>2
<1>3. WalkTo(g, j, n + 1)
  <2> DEFINE h == [k \in 0 .. n + 1 |->
        IF k = 0 THEN NewLedger
        ELSE IF j[k].event # "node_finished" THEN g[k - 1]
        ELSE ChargeTo(g[k - 1], j[k].node, j[k].usage, Supervisors)]
  <2>1. g = [k \in 0 .. n + 1 |-> g[k]]
    OBVIOUS
  <2> HIDE DEF g
  <2>2. g = h
    BY <2>1, <1>2
  <2>3. QED
    BY <2>2 DEF WalkTo
<1>4. QED
  BY <1>3

LEMMA WalkExists ==
  ASSUME NEW j, NEW n \in Nat
  PROVE  \E f : WalkTo(f, j, n)
<1> DEFINE D == {k \in Nat : ~ \E f : WalkTo(f, j, k)}
<1>1. ASSUME D # {} PROVE FALSE
  <2>1. D \in SUBSET Nat
    OBVIOUS
  <2>2. PICK x \in D : \A y \in D : x <= y
    BY <1>1, <2>1, LeastOfASet
  <2>3. x # 0
    <3>1. WalkTo([k \in 0 .. 0 |-> NewLedger], j, 0)
      BY DEF WalkTo
    <3>2. QED
      BY <2>2, <3>1
  <2>4. x - 1 \in Nat /\ x - 1 \notin D /\ x = (x - 1) + 1
    BY <2>2, <2>3
  <2>5. \E f : WalkTo(f, j, x - 1)
    BY <2>4
  <2>6. \E f : WalkTo(f, j, (x - 1) + 1)
    BY <2>4, <2>5, WalkStep
  <2>7. QED
    BY <2>2, <2>4, <2>6
<1>2. QED
  BY <1>1

LEMMA SpentIsTheWalk ==
  ASSUME NEW j, IsASequence(j), NEW f, WalkTo(f, j, Len(j))
  PROVE  Spent(j) = f[Len(j)]
<1> DEFINE c == CHOOSE g : WalkTo(g, j, Len(j))
<1>1. Len(j) \in Nat
  BY AppendFacts
<1>2. WalkTo(c, j, Len(j))
  OBVIOUS
<1>3. c = f
  BY <1>1, <1>2, WalkIsUnique
<1>4. Spent(j) = c[Len(j)]
  BY DEF Spent, Replayed, WalkTo
<1>5. QED
  BY <1>3, <1>4

\* What one more record adds to the spend.
LEMMA SpentAppend ==
  ASSUME NEW j, NEW r, IsASequence(j)
  PROVE  Spent(Append(j, r)) =
           IF r.event # "node_finished" THEN Spent(j)
           ELSE ChargeTo(Spent(j), r.node, r.usage, Supervisors)
<1> DEFINE k == Append(j, r)
           n == Len(j)
<1>1. /\ IsASequence(k) /\ n \in Nat /\ Len(k) = n + 1
      /\ k[n + 1] = r /\ \A i \in 1 .. n : k[i] = j[i]
  BY AppendFacts
<1> HIDE DEF k
<1>2. PICK f : WalkTo(f, k, n + 1)
  <2>1. n + 1 \in Nat
    BY <1>1
  <2>2. \E f : WalkTo(f, k, n + 1)
    BY <2>1, WalkExists
  <2>3. QED
    BY <2>2
<1> DEFINE h == [i \in 0 .. n |-> f[i]]
<1>3. WalkTo(h, j, n)
  <2> DEFINE w == [i \in 0 .. n |->
        IF i = 0 THEN NewLedger
        ELSE IF j[i].event # "node_finished" THEN h[i - 1]
        ELSE ChargeTo(h[i - 1], j[i].node, j[i].usage, Supervisors)]
  <2>1. ASSUME NEW i \in 0 .. n
        PROVE  h[i] = IF i = 0 THEN NewLedger
                      ELSE IF j[i].event # "node_finished" THEN h[i - 1]
                      ELSE ChargeTo(h[i - 1], j[i].node, j[i].usage, Supervisors)
    <3>1. i \in 0 .. n + 1 /\ h[i] = f[i]
      BY <1>1
    <3>2. i # 0 => i - 1 \in 0 .. n /\ h[i - 1] = f[i - 1] /\ k[i] = j[i]
      BY <1>1
    <3>3. f[i] = IF i = 0 THEN NewLedger
                 ELSE IF k[i].event # "node_finished" THEN f[i - 1]
                 ELSE ChargeTo(f[i - 1], k[i].node, k[i].usage, Supervisors)
      BY <1>2, <3>1 DEF WalkTo
    <3> HIDE DEF h
    <3>4. QED
      BY <3>1, <3>2, <3>3
  <2>2. h = [i \in 0 .. n |-> h[i]]
    OBVIOUS
  <2> HIDE DEF h
  <2>3. h = w
    BY <2>1, <2>2
  <2>4. QED
    BY <2>3 DEF WalkTo
<1>4. Spent(j) = f[n]
  <2>1. Spent(j) = h[n]
    BY <1>3, SpentIsTheWalk
  <2>2. QED
    BY <2>1, <1>1
<1>5. Spent(k) = f[n + 1]
  BY <1>1, <1>2, SpentIsTheWalk
<1>6. f[n + 1] = IF r.event # "node_finished" THEN f[n]
                 ELSE ChargeTo(f[n], r.node, r.usage, Supervisors)
  <2>1. n + 1 \in 0 .. n + 1 /\ n + 1 # 0 /\ (n + 1) - 1 = n
    BY <1>1
  <2>2. QED
    BY <1>1, <1>2, <2>1 DEF WalkTo
<1>7. QED
  BY <1>4, <1>5, <1>6 DEF k

LEMMA SpentOfNone == Spent(<<>>) = NewLedger
<1>1. IsASequence(<<>>) /\ Len(<<>>) = 0
  BY DEF IsASequence
<1>2. WalkTo([k \in 0 .. 0 |-> NewLedger], <<>>, 0)
  BY DEF WalkTo
<1>3. QED
  BY <1>1, <1>2, SpentIsTheWalk

-----------------------------------------------------------------------------
(***************************************************************************)
(* The invariant.  TypeInv: every variable holds what it can hold, and a   *)
(* node in hand is one the registry knows.                                 *)
(***************************************************************************)
TypeInv ==
  /\ TypeOK
  /\ Spent(journal) \in Ledgers
  /\ IsOpen(journal) => Last(journal).node \in Nodes
  /\ pc \in Inside => at.node \in Nodes

(***************************************************************************)
(* PlaceInv: what the process remembers of its place is what the journal   *)
(* says of it; a run that has lost its place has ended.                    *)
(***************************************************************************)
\* A completion settle may write says where the run goes on, or that it does
\* not.
ClosingShape(c) ==
  /\ c.status \in Statuses
  /\ c.status = "ok" => c.next # NoNode
  /\ c.status = "paused" => c.next = c.node
  /\ c.status = "aborted" => c.next \in {c.node, NoNode}
  /\ c.status = "failed" => c.next = NoNode

PlaceInv ==
  /\ pc \in {"heal", "close", "owed", "check"} => at = StartOf(journal)
  /\ pc \in {"owed", "check"} => ~ Owes(journal)
  /\ pc = "loop" => /\ at.node = StartOf(journal).node
                    /\ at.attempt = StartOf(journal).attempt
                    /\ StateOf(journal) = "runnable"
  /\ pc \in {"patch", "finish"} => ClosingShape(closing)
  /\ pc = "persist" => /\ StartOf(journal) = Start("runnable", closing.next, 1)
                       /\ StateOf(journal) = "runnable"
  /\ pc = "end" => /\ StateOf(journal) \in {"runnable", RunStateOf(mem.ending.event)}
                   /\ mem.ending.event = "run_completed" => StartOf(journal).node = End
  /\ pc = "ended" => StateOf(journal) = RunStateOf(mem.ending.event)

EndedInv ==
  /\ StartOf(journal).node = NoNode => StateOf(journal) \in {"failed", "aborted"}
  /\ ManifestNotAhead

(***************************************************************************)
(* VisitInv: an attempt after the first repeats the last attempt 1 of its  *)
(* node, and is given the snapshot that one took.                          *)
(***************************************************************************)
Key == AttemptOneSeq(journal, StartOf(journal).node)

VisitInv ==
  /\ StartOf(journal).attempt >= 1
  /\ IsOpen(journal) => StartOf(journal).attempt > 1
  /\ StartOf(journal).attempt > 1 => AttemptOnes(journal, StartOf(journal).node) # {}
  /\ pc \in {"heal", "close", "owed", "check", "loop"} =>
       repeats = IF at.attempt > 1 THEN AttemptOneSeq(journal, at.node) ELSE 0
  /\ pc \in Inside => SnapshotKey = Key
  /\ pc \in {"run", "patch", "finish"} => Key \in DOMAIN snaps /\ view = snaps[Key]

(***************************************************************************)
(* SpendInv: the ledger in memory is what the journal adds up to.          *)
(***************************************************************************)
Counted == {"heal", "close", "owed", "check", "loop", "snapshot", "run", "patch",
            "persist", "end", "ended"}

SpendInv ==
  /\ man.spent <= Spent(journal).total
  /\ pc \in Counted => mem.ledger = Spent(journal)
  /\ pc = "finish" =>
       mem.ledger = ChargeTo(Spent(journal), closing.node, closing.usage, Supervisors)
  /\ pc \in {"patch", "finish"} => closing.note # "crashed"
  /\ \A i \in FinishedAt(journal) :
       journal[i].node \notin Supervisors => journal[i].usage <= Spent(journal).largest
  /\ KillsAreCharged

(***************************************************************************)
(* BoardInv: state.json holds what the accepted results add up to, but for *)
(* fields a lost attempt of the visit in hand may have changed; its        *)
(* snapshot does not.                                                      *)
(***************************************************************************)
Acceptable(r) == r.err = "none" /\ ValidResult(r)

\* The fields a result of n, given b, may have changed.
MayChange(n, b, f) ==
  \E w \in Worlds : \E r \in NodeResults(n, b, w) : Acceptable(r) /\ f \in Changed(b, r)

ResultInv ==
  pc \in {"patch", "finish"} /\ closing.note = "accepted" =>
    \E w \in Worlds : \E r \in NodeResults(at.node, view, w) :
      /\ Acceptable(r)
      /\ patch = r.patch
      /\ closing.status = r.status
      /\ closing.next = ResumePointer(r)

\* A completion that carries no result says the node did not succeed, and has
\* no patch.
RefusalInv ==
  /\ pc = "patch" => closing.note = "accepted"
  /\ pc = "finish" /\ closing.note # "accepted" => closing.status \in {"failed", "aborted"}

BoardInv ==
  /\ StartOf(journal).node \in Nodes =>
       /\ StartOf(journal).attempt = 1 => board = committed
       /\ StartOf(journal).attempt > 1 => IF Key \in DOMAIN snaps THEN snaps[Key] = committed
                                                                  ELSE board = committed
       /\ \A f \in Fields : board[f] # committed[f] =>
            MayChange(StartOf(journal).node, committed, f)
  /\ pc = "finish" /\ closing.note = "accepted" /\ closing.status \in {"ok", "paused"} =>
       board = Patched(committed, patch)

-----------------------------------------------------------------------------
(***************************************************************************)
(* Where a journal leaves the run, after each kind of record.              *)
(***************************************************************************)
LEMMA OpenPlace ==
  ASSUME NEW j, IsASequence(j), IsOpen(j)
  PROVE  /\ StartOf(j) = Start("runnable", Last(j).node, Last(j).attempt + 1)
         /\ ~ Owes(j) /\ StateOf(j) = "runnable" /\ ~ Paused(j)
<1>1. StartedANode(j)
  BY StartedIsStarted
<1>2. StartOf(j) = Start("runnable", Last(j).node, Last(j).attempt + 1)
  BY <1>1 DEF StartOf, ResolveStart, Last
<1>3. ~ Owes(j) /\ ~ Paused(j)
  BY DEF IsOpen, Owes, Paused, Last
<1>4. QED
  BY <1>2, <1>3 DEF StateOf, Start

LEMMA AfterMarker ==
  ASSUME NEW j, IsASequence(j), ~ IsOpen(j), NEW e \in RunEvents
  PROVE  LET k == Append(j, RunMarker(e))
         IN  /\ StartOf(k) = Start(RunStateOf(e), StartOf(j).node, StartOf(j).attempt)
             /\ ~ IsOpen(k) /\ ~ Owes(k) /\ StateOf(k) = RunStateOf(e)
<1> DEFINE r == RunMarker(e)
           k == Append(j, r)
<1>1. r.event = e /\ e # "node_started" /\ e # "node_finished"
  BY DEF RunMarker, RunEvents
<1>2. ResolveStart(k) = Start(RunStateOf(e), ResolveStart(j).node, ResolveStart(j).attempt)
  BY ResolveAfterMarker
<1> HIDE DEF r
<1>3. StartedANode(k) <=> StartedANode(j)
  BY <1>1, AppendStartedANode
<1>4. ~ IsOpen(k) /\ ~ Owes(k)
  BY <1>1, AppendOpen DEF Owes, Last
<1> HIDE DEF k
<1>5. StartOf(k) = Start(RunStateOf(e), StartOf(j).node, StartOf(j).attempt)
  BY <1>2, <1>3 DEF StartOf, Start
<1>6. StateOf(k) = RunStateOf(e)
  BY <1>4, <1>5 DEF StateOf, Start
<1>7. QED
  BY <1>4, <1>5, <1>6 DEF k, r

LEMMA AfterStarted ==
  ASSUME NEW j, IsASequence(j), NEW n, NEW a
  PROVE  LET k == Append(j, NodeStarted(n, a))
         IN  /\ StartOf(k) = Start("runnable", n, a + 1)
             /\ IsOpen(k) /\ ~ Owes(k) /\ StateOf(k) = "runnable"
<1> DEFINE r == NodeStarted(n, a)
           k == Append(j, r)
<1>1. r.event = "node_started" /\ r.node = n /\ r.attempt = a
  BY DEF NodeStarted
<1> HIDE DEF r
<1>2. IsASequence(k) /\ IsOpen(k) /\ Last(k) = r
  BY <1>1, AppendFacts, AppendOpen DEF Last
<1> HIDE DEF k
<1>3. QED
  BY <1>1, <1>2, OpenPlace DEF k, r

LEMMA AfterFinished ==
  ASSUME NEW j, IsASequence(j), NEW r, r.event = "node_finished"
  PROVE  LET k == Append(j, r)
         IN  /\ StartOf(k) = Start("runnable", r.next, IF Interrupted(r) THEN r.attempt + 1 ELSE 1)
             /\ ~ IsOpen(k)
             /\ Owes(k) <=> OwedRunMarker(r) # NothingOwed
             /\ StateOf(k) = RunStateOf(OwedRunMarker(r))
<1> DEFINE k == Append(j, r)
<1>1. ResolveStart(k) = Start("runnable", r.next, IF Interrupted(r) THEN r.attempt + 1 ELSE 1)
  BY ResolveAfterFinished
<1>2. StartedANode(k) /\ ~ IsOpen(k) /\ k # <<>> /\ Last(k) = r
  <2>1. StartedANode(k)
    BY AppendStartedANode
  <2>2. ~ IsOpen(k) /\ Last(k) = r
    BY AppendOpen DEF Last
  <2>3. k # <<>>
    BY AppendFacts
  <2>4. QED
    BY <2>1, <2>2, <2>3
<1> HIDE DEF k
<1>3. StartOf(k) = ResolveStart(k)
  BY <1>2 DEF StartOf
<1>4. Owes(k) <=> OwedRunMarker(r) # NothingOwed
  BY <1>2 DEF Owes
<1>5. StateOf(k) = RunStateOf(OwedRunMarker(r))
  <2>1. CASE OwedRunMarker(r) # NothingOwed
    BY <2>1, <1>2, <1>4 DEF StateOf
  <2>2. CASE OwedRunMarker(r) = NothingOwed
    <3>1. RunStateOf(NothingOwed) = "runnable"
      BY DEF RunStateOf, NothingOwed
    <3>2. StateOf(k) = "runnable"
      BY <2>2, <1>1, <1>3, <1>4 DEF StateOf, Start
    <3>3. QED
      BY <2>2, <3>1, <3>2
  <2>3. QED
    BY <2>1, <2>2
<1>6. QED
  BY <1>1, <1>2, <1>3, <1>4, <1>5 DEF k

\* The state a completion leaves a run in is the one it owes a marker for.
LEMMA OwedState ==
  ASSUME NEW r
  PROVE  RunStateOf(OwedRunMarker(r)) =
           IF Interrupted(r) THEN "runnable"
           ELSE CASE r.status \in {"failed", "aborted", "paused"} -> r.status
                  [] OTHER -> "runnable"
BY DEF OwedRunMarker, RunStateOf, NothingOwed

LEMMA StateIsState ==
  ASSUME NEW j
  PROVE  StateOf(j) \in RunStates /\ StartOf(j).state \in RunStates
<1>1. \A e : RunStateOf(e) \in RunStates
  BY DEF RunStateOf, RunStates
<1>2. ResolveStart(j).state \in RunStates
  BY <1>1 DEF ResolveStart, Start, RunStates
<1>3. StartOf(j).state \in RunStates
  BY <1>2 DEF StartOf, Start
<1>4. QED
  BY <1>1, <1>3 DEF StateOf

\* A run is paused exactly when its journal's state says so.
LEMMA PausedIsItsState ==
  ASSUME NEW j, IsASequence(j)
  PROVE  Paused(j) <=> StateOf(j) = "paused"
<1>1. CASE j = <<>>
  <2>1. ~ Owes(j) /\ ~ Paused(j) /\ ~ IsOpen(j)
    BY <1>1 DEF Owes, Paused, IsOpen
  <2>2. StartOf(j).state = "runnable"
    BY <1>1, <2>1 DEF StartOf, ResolveStart, Start
  <2>3. QED
    BY <2>1, <2>2 DEF StateOf
<1>2. CASE IsOpen(j)
  BY <1>2, OpenPlace
<1>3. CASE j # <<>> /\ ~ IsOpen(j) /\ Owes(j)
  <2> DEFINE r == Last(j)
  <2>1. r.event = "node_finished" /\ OwedRunMarker(r) # NothingOwed
    BY <1>3 DEF Owes
  <2>2. StateOf(j) = RunStateOf(OwedRunMarker(r))
    BY <1>3 DEF StateOf
  <2>3. ~ Interrupted(r)
    BY <2>1 DEF OwedRunMarker
  <2>4. Paused(j) <=> r.status = "paused"
    BY <1>3, <2>1 DEF Paused
  <2> HIDE DEF r
  <2>5. QED
    BY <2>2, <2>3, <2>4, OwedState
<1>4. CASE j # <<>> /\ ~ IsOpen(j) /\ ~ Owes(j)
  <2> DEFINE r == Last(j)
  <2>1. StateOf(j) = RunStateOf(r.event)
    BY <1>4 DEF StateOf, StartOf, ResolveStart, Start, Last
  <2>2. r.event = "node_finished" => r.status # "paused"
    BY <1>4 DEF Owes, OwedRunMarker, Interrupted, NothingOwed
  <2>3. Paused(j) <=> r.event = "run_paused"
    BY <1>4, <2>2 DEF Paused
  <2> HIDE DEF r
  <2>4. QED
    BY <2>1, <2>3 DEF RunStateOf
<1>5. QED
  BY <1>1, <1>2, <1>3, <1>4

\* With no marker owed, the state is the one a dispatch resolves.
LEMMA NothingOwedState ==
  ASSUME NEW j, ~ Owes(j)
  PROVE  StateOf(j) = StartOf(j).state
BY DEF StateOf

-----------------------------------------------------------------------------
(***************************************************************************)
(* TypeInv.                                                                *)
(***************************************************************************)
LEMMA RecordsAreTyped ==
  ASSUME NEW j \in Seq(Record)
  PROVE  /\ IsASequence(j)
         /\ Len(j) \in Nat
         /\ \A i \in 1 .. Len(j) : j[i] \in Record
         /\ j # <<>> => Last(j) \in Record
<1>1. IsASequence(j)
  BY DEF IsASequence
<1>2. QED
  BY <1>1 DEF Last

LEMMA PlaceIsTyped ==
  ASSUME NEW j \in Seq(Record)
  PROVE  StartOf(j) \in Places
<1>1. /\ IsASequence(j) /\ \A i \in 1 .. Len(j) : j[i] \in Record
      /\ j # <<>> => Last(j) \in Record
  BY RecordsAreTyped
<1>2. CASE IsOpen(j)
  <2>1. Last(j) \in Record
    BY <1>1, <1>2 DEF IsOpen
  <2>2. Last(j).node \in Successors /\ Last(j).attempt + 1 \in Nat
    BY <2>1 DEF Record, Successors
  <2>3. QED
    BY <1>1, <1>2, <2>2, OpenPlace DEF Places, Start, RunStates
<1>3. CASE ~ IsOpen(j)
  <2>1. CASE FinishedAt(j) = {}
    <3>1. ResolveStart(j).node = FirstNode /\ ResolveStart(j).attempt = 1
      BY <1>3, <2>1 DEF ResolveStart, Start
    <3>2. StartOf(j).state \in RunStates
      BY StateIsState
    <3>3. StartOf(j) = Start(StartOf(j).state, StartOf(j).node, StartOf(j).attempt)
      BY <1>3 DEF StartOf, ResolveStart, Start
    <3>4. StartOf(j).node \in Successors /\ StartOf(j).attempt \in Nat
      BY <3>1, NamesAssumption, DispatcherAssumption DEF StartOf, Start, Successors
    <3>5. QED
      BY <3>2, <3>3, <3>4 DEF Places, Start
  <2>2. CASE FinishedAt(j) # {}
    <3> DEFINE r == j[LastFinished(j)]
    <3>1. r \in Record
      BY <1>1, <2>2, LastFinishedIsLast
    <3>2. r.next \in Successors /\ r.attempt + 1 \in Nat
      BY <3>1 DEF Record
    <3>3. StartedANode(j)
      BY <1>1, <2>2, StartedIsStarted
    <3>4. StartOf(j) = Start(StartOf(j).state, r.next, IF Interrupted(r) THEN r.attempt + 1 ELSE 1)
      BY <1>3, <2>2, <3>3 DEF StartOf, ResolveStart, Start
    <3> HIDE DEF r
    <3>5. StartOf(j).state \in RunStates
      BY StateIsState
    <3>6. QED
      BY <3>2, <3>4, <3>5 DEF Places, Start
  <2>3. QED
    BY <2>1, <2>2
<1>4. QED
  BY <1>2, <1>3

LEMMA ChargeIsTyped ==
  ASSUME NEW l \in Ledgers, NEW n \in Names, NEW u \in Nat
  PROVE  ChargeTo(l, n, u, Supervisors) \in Ledgers
<1>1. RecordSum(l, n, u) \in Ledgers
  <2> DEFINE o == [l.of EXCEPT ![n] = @ + u]
  <2>1. l.of \in [Names -> Nat] /\ l.total + u \in Nat
    BY DEF Ledgers
  <2>2. o \in [Names -> Nat]
    BY <2>1
  <2>3. RecordSum(l, n, u) = [l EXCEPT !.total = l.total + u, !.of = o]
    BY <2>1 DEF RecordSum, Ledgers
  <2> HIDE DEF o
  <2>4. QED
    BY <2>1, <2>2, <2>3 DEF Ledgers
<1>2. RecordUsage(l, n, u) \in Ledgers
  BY <1>1 DEF RecordUsage, Ledgers, larger
<1>3. QED
  BY <1>1, <1>2 DEF ChargeTo

LEMMA RebuildIsTyped ==
  ASSUME NEW j, Spent(j) \in Ledgers, NEW floor \in Nat
  PROVE  Rebuild(j, floor, Supervisors) \in Ledgers
<1>1. Rebuild(j, floor, Supervisors) = [Spent(j) EXCEPT !.total = larger(@, floor)]
  BY DEF Rebuild, Spent
<1>2. larger(Spent(j).total, floor) \in Nat
  BY DEF larger, Ledgers
<1>3. QED
  BY <1>1, <1>2 DEF Ledgers

LEMMA NoRecordYet ==
  /\ NoRecord \in Record /\ <<>> \in Patches /\ Idle \in Memories /\ Nowhere \in Places
  /\ NewLedger \in Ledgers
<1>1. NoRecord \in Record
  BY DEF NoRecord, RunMarker, Record, NothingOwed, Events, RunEvents, Notes, Successors
<1>2. <<>> \in Patches
  <2>1. <<>> \in [{} -> Values] /\ {} \in SUBSET Fields
    OBVIOUS
  <2>2. QED
    BY <2>1 DEF Patches
<1>3. NewLedger \in Ledgers
  BY DEF NewLedger, Ledgers
<1>4. Idle \in Memories
  BY <1>3 DEF Idle, Memories, NothingOwed, RunEvents, Successors
<1>5. Nowhere \in Places
  BY DEF Nowhere, Start, Places, RunStates, Successors
<1>6. QED
  BY <1>1, <1>2, <1>3, <1>4, <1>5

LEMMA MarkerIsTyped ==
  ASSUME NEW e \in RunEvents
  PROVE  RunMarker(e) \in Record
BY DEF RunMarker, Record, Events, Notes, Successors

LEMMA StartedIsTyped ==
  ASSUME NEW n \in Names, NEW a \in Nat
  PROVE  NodeStarted(n, a) \in Record
BY DEF NodeStarted, Record, Events, Notes, Successors

LEMMA FinishedIsTyped ==
  ASSUME NEW n \in Names, NEW a \in Nat, NEW st \in Statuses \cup {NoStatus},
         NEW nx \in Successors, NEW u \in Nat, NEW why \in Notes
  PROVE  NodeFinished(n, a, st, nx, u, why) \in Record
BY DEF NodeFinished, Record, Events

\* What an appended record does to the files' part of TypeOK.
Disk == /\ journal \in Seq(Record) /\ torn \in BOOLEAN
        /\ board \in Boards /\ hist \in SUBSET (1 .. Len(journal))
        /\ DOMAIN snaps \subseteq 1 .. Len(journal)
        /\ \A k \in DOMAIN snaps : snaps[k] \in Boards
        /\ man \in [status: RunStatuses, node: Successors, step: Nat, spent: Nat]
        /\ world \in Worlds /\ orphan \in Nodes \cup {NoNode} /\ opens \in Nat
        /\ committed \in Boards
        /\ Spent(journal) \in Ledgers
        /\ IsOpen(journal) => Last(journal).node \in Nodes

Mind == /\ pc \in PCs /\ at \in Places /\ repeats \in Nat
        /\ view \in Boards /\ closing \in Record /\ patch \in Patches
        /\ mem \in Memories
        /\ pc \in Inside => at.node \in Nodes

LEMMA TypeInvParts ==
  /\ TypeInv <=> Disk /\ Mind
  /\ Disk' /\ Mind' => TypeInv'
BY DEF TypeInv, TypeOK, Disk, Mind

LEMMA AppendIsTyped ==
  ASSUME Disk, NEW r \in Record, journal' = Append(journal, r),
         r.event = "node_finished" => r.node \in Names,
         r.event = "node_started" => r.node \in Nodes,
         UNCHANGED <<torn, files, env>>, committed' \in Boards
  PROVE  Disk'
<1>1. /\ journal' \in Seq(Record) /\ Len(journal) \in Nat
      /\ Len(journal') = Len(journal) + 1
  BY DEF Disk
<1>2. Spent(journal') \in Ledgers
  <2>1. IsASequence(journal)
    BY DEF Disk, IsASequence
  <2>2. r.usage \in Nat
    BY DEF Record
  <2>3. QED
    BY <2>1, <2>2, SpentAppend, ChargeIsTyped DEF Disk
<1>3. 1 .. Len(journal) \subseteq 1 .. Len(journal')
  BY <1>1
<1>4. IsOpen(journal') => Last(journal').node \in Nodes
  BY AppendOpen DEF Last, Disk, IsASequence
<1>5. QED
  BY <1>1, <1>2, <1>3, <1>4 DEF Disk, files, env

LEMMA ExitIsTyped == Exit => Mind'
BY NoRecordYet, DispatcherAssumption DEF Exit, Mind, PCs, Inside

LEMMA InitIsTyped == Init => TypeInv
<1> SUFFICES ASSUME Init PROVE TypeInv
  OBVIOUS
<1>1. Mind
  BY NoRecordYet, DispatcherAssumption DEF Init, Mind, PCs, Inside
<1>2. journal \in Seq(Record) /\ Len(journal) = 0
  BY DEF Init
<1>3. Spent(journal) \in Ledgers
  BY NoRecordYet, SpentOfNone DEF Init
<1>4. DOMAIN snaps = {} /\ hist = {} /\ ~ IsOpen(journal)
  BY DEF Init, IsOpen
<1>5. Disk
  BY <1>2, <1>3, <1>4, DispatcherAssumption DEF Init, Disk, RunStatuses, Successors
<1>6. QED
  BY <1>1, <1>5, TypeInvParts

\* The charge of an attempt cut short, and what a closing record is made of.
LEMMA ChargeIsNat ==
  ASSUME NEW l \in Ledgers
  PROVE  interruptedCharge(l) \in Nat
BY DispatcherAssumption DEF interruptedCharge, larger, Ledgers

LEMMA ResultIsTyped ==
  ASSUME TypeInv, pc = "run",
         NEW r \in NodeResults(at.node, view, world) \cup {Silent}
  PROVE  r \in Results
<1>1. Silent \in Results
  BY NoRecordYet DEF Silent, Results, TypeInv, TypeOK, Successors
<1>2. NodeResults(at.node, view, world) \subseteq Results
  BY DispatcherAssumption DEF TypeInv, TypeOK, Inside
<1>3. QED
  BY <1>1, <1>2

LEMMA VerdictIsANote ==
  ASSUME NEW r, NEW timedOut
  PROVE  Verdict(r, timedOut) \in {"timeout", "canceled", "limit", "error", "invalid", "accepted"}
BY DEF Verdict

LEMMA ReportIsNat ==
  ASSUME TypeInv, pc = "run", NEW r \in Results
  PROVE  Reported(r) \in Nat
<1>1. mem.ledger \in Ledgers /\ at.node \in Names /\ r.usage \in Nat
  BY DispatcherAssumption DEF TypeInv, TypeOK, Memories, Inside, Results
<1>2. mem.ledger.of[at.node] \in Nat
  BY <1>1 DEF Ledgers
<1>3. QED
  BY <1>1, <1>2 DEF Reported, Unrecorded

LEMMA ClosingIsTyped ==
  ASSUME TypeInv, pc = "run", NEW r \in Results,
         NEW why \in {"timeout", "canceled", "limit", "error", "invalid", "accepted"}
  PROVE  /\ ClosingRecord(r, why) \in Record
         /\ ClosingRecord(r, why).usage \in Nat
<1> DEFINE u == IF why \in {"timeout", "canceled"}
                  THEN cutShortCharge(mem.ledger, at.node, Reported(r))
                  ELSE Reported(r)
<1>1. u \in Nat
  <2>1. Reported(r) \in Nat
    BY ReportIsNat
  <2>2. mem.ledger \in Ledgers
    BY DEF TypeInv, TypeOK, Memories
  <2>3. QED
    BY <2>1, <2>2, ChargeIsNat DEF cutShortCharge
<1>2. /\ at.node \in Names /\ at.attempt \in Nat /\ at.node \in Successors
      /\ r.status \in Statuses \cup {NoStatus} /\ r.next \in Successors
  BY DispatcherAssumption DEF TypeInv, TypeOK, Places, Inside, Results, Successors
<1>3. ResumePointer(r) \in Successors
  BY <1>2 DEF ResumePointer, Successors
<1>4. \E st \in Statuses \cup {NoStatus}, nx \in Successors :
        ClosingRecord(r, why) = NodeFinished(at.node, at.attempt, st, nx, u, why)
  <2> HIDE DEF u
  <2> "aborted" \in Statuses /\ "failed" \in Statuses /\ NoNode \in Successors
    BY DEF Statuses, Successors
  <2> ~ RunsAgain("accepted")
    BY DEF RunsAgain
  <2>1. CASE why = "accepted"
    <3>1. ClosingRecord(r, why) = NodeFinished(at.node, at.attempt, r.status,
                                               ResumePointer(r), u, why)
      BY <2>1, Zenon DEF ClosingRecord, u
    <3>2. QED
      BY <3>1, <1>2, <1>3
  <2>2. CASE why # "accepted" /\ RunsAgain(why)
    <3>1. ClosingRecord(r, why) = NodeFinished(at.node, at.attempt, "aborted",
                                               at.node, u, why)
      BY <2>2, Zenon DEF ClosingRecord, InterruptedAttempt, u
    <3>2. QED
      BY <3>1, <1>2
  <2>3. CASE why # "accepted" /\ ~ RunsAgain(why)
    <3>1. ClosingRecord(r, why) = NodeFinished(at.node, at.attempt,
                                    IF why = "canceled" THEN "aborted" ELSE "failed",
                                    NoNode, u, why)
      BY <2>3, Zenon DEF ClosingRecord, u
    <3>2. QED
      BY <3>1
  <2>4. QED
    BY <2>1, <2>2, <2>3
<1>5. why \in Notes
  BY DEF Notes
<1> HIDE DEF u
<1>6. ClosingRecord(r, why) \in Record
  <2>1. PICK st \in Statuses \cup {NoStatus}, nx \in Successors :
          ClosingRecord(r, why) = NodeFinished(at.node, at.attempt, st, nx, u, why)
    BY <1>4
  <2>2. NodeFinished(at.node, at.attempt, st, nx, u, why) \in Record
    BY <1>1, <1>2, <1>5, FinishedIsTyped
  <2>3. QED
    BY <2>1, <2>2, Zenon
<1>7. QED
  BY <1>6 DEF Record

\* The actions that write nothing to the journal.
LEMMA OpenIsTyped ==
  ASSUME TypeInv, NEW cfg \in Configs, NEW resuming \in BOOLEAN, Open(cfg, resuming)
  PROVE  TypeInv'
<1>1. Disk /\ Mind
  BY TypeInvParts
<1>2. at' \in Places
  BY <1>1, PlaceIsTyped DEF Open, Disk
<1>3. repeats' \in Nat
  BY <1>1, AttemptOneSeqIsLast, RecordsAreTyped DEF Open, Disk
<1>4. mem' \in Memories
  <2>1. cfg \in [max_usd: Nat, max_steps: Nat]
    BY DispatcherAssumption
  <2>2. Rebuild(journal, man.spent, Supervisors) \in Ledgers /\ man.step \in Nat
    BY <1>1, RebuildIsTyped DEF Disk
  <2>3. QED
    BY <2>1, <2>2, NoRecordYet DEF Open, Memories
<1>5. Disk'
  <2>1. UNCHANGED <<journal, board, hist, snaps, man, world, orphan, committed>>
    BY DEF Open, files
  <2>2. torn' = FALSE /\ opens' = opens + 1
    BY DEF Open
  <2>3. opens' \in Nat
    BY <1>1, <2>2 DEF Disk
  <2>4. QED
    BY <1>1, <2>1, <2>2, <2>3 DEF Disk
<1>6. Mind'
  BY <1>1, <1>2, <1>3, <1>4 DEF Open, Mind, Continue, exec, PCs, Inside
<1>7. QED
  BY <1>5, <1>6, TypeInvParts

\* Steps that leave the process where its node is not in hand.
LEMMA QuietIsTyped ==
  ASSUME TypeInv, UNCHANGED <<journal, board, hist, snaps, world, orphan, opens, committed,
                              at, repeats, exec>>,
         torn' \in BOOLEAN, man' \in [status: RunStatuses, node: Successors, step: Nat, spent: Nat],
         mem' \in Memories, pc' \in PCs, pc' \in Inside => pc \in Inside
  PROVE  TypeInv'
<1>1. Disk /\ Mind
  BY TypeInvParts
<1>2. Disk'
  BY <1>1 DEF Disk
<1>3. Mind'
  BY <1>1 DEF Mind, exec
<1>4. QED
  BY <1>2, <1>3, TypeInvParts

LEMMA ManifestIsTyped ==
  ASSUME TypeInv, NEW st \in RunStates, NEW n \in Successors,
         Persist(RunStatusFor(st), n, mem.step, mem.ledger)
  PROVE  man' \in [status: RunStatuses, node: Successors, step: Nat, spent: Nat]
<1>1. RunStatusFor(st) \in RunStatuses
  BY DEF RunStatusFor, RunStatuses, RunStates
<1>2. mem.step \in Nat /\ mem.ledger.total \in Nat
  BY DEF TypeInv, TypeOK, Memories, Ledgers
<1>3. QED
  BY <1>1, <1>2 DEF Persist

LEMMA StateOfAnEvent ==
  ASSUME NEW e
  PROVE  RunStateOf(e) \in RunStates
BY DEF RunStateOf, RunStates

LEMMA EndingIsTyped ==
  ASSUME mem \in Memories, NEW e \in RunEvents, NEW n \in Successors
  PROVE  [mem EXCEPT !.ending = [event |-> e, node |-> n]] \in Memories
BY DEF Memories

LEMMA SettleIsTyped ==
  ASSUME TypeInv, pc = "run", NEW timedOut,
         NEW r \in NodeResults(at.node, view, world) \cup {Silent}, Settle(r, timedOut)
  PROVE  TypeInv'
<1> DEFINE why == Verdict(r, timedOut)
           rec == ClosingRecord(r, why)
<1>1. Disk /\ Mind
  BY TypeInvParts
<1>2. r \in Results
  BY ResultIsTyped
<1>3. rec \in Record /\ rec.usage \in Nat
  BY <1>2, VerdictIsANote, ClosingIsTyped
<1>4. /\ closing' = rec
      /\ patch' = IF why = "accepted" THEN r.patch ELSE <<>>
      /\ mem' = IF why = "accepted"
                  THEN [mem EXCEPT !.steps = @ + 1, !.step = @ + 1]
                  ELSE [mem EXCEPT !.steps = @ + 1,
                                   !.ledger = ChargeTo(@, at.node, rec.usage, Supervisors)]
      /\ pc' \in {"patch", "finish"}
      /\ world' = r.world
      /\ UNCHANGED <<journal, torn, board, hist, snaps, man, orphan, opens, at, repeats, view, committed>>
  BY DEF Settle, Continue, log, files
<1> HIDE DEF rec, why
<1>5. patch' \in Patches
  BY <1>2, <1>4, NoRecordYet DEF Results
<1>6. mem' \in Memories
  <2>1. mem \in Memories /\ at.node \in Names
    BY <1>1, DispatcherAssumption DEF Mind, Inside
  <2>2. ChargeTo(mem.ledger, at.node, rec.usage, Supervisors) \in Ledgers
    BY <2>1, <1>3, ChargeIsTyped DEF Memories
  <2>3. mem.steps + 1 \in Nat /\ mem.step + 1 \in Nat
    BY <2>1 DEF Memories
  <2>4. QED
    BY <2>1, <2>2, <2>3, <1>4 DEF Memories
<1>7. Disk'
  BY <1>1, <1>2, <1>4 DEF Disk, Results
<1>8. Mind'
  BY <1>1, <1>3, <1>4, <1>5, <1>6 DEF Mind, PCs, Inside
<1>9. QED
  BY <1>7, <1>8, TypeInvParts

LEMMA PatchedIsABoard ==
  ASSUME NEW b \in Boards, NEW p \in Patches
  PROVE  Patched(b, p) \in Boards
BY DEF Patched, Boards, Patches

LEMMA ApplyPatchIsTyped == ASSUME Inv, TypeInv, ApplyPatch PROVE TypeInv'
<1>1. Disk /\ Mind
  BY TypeInvParts
<1>2. /\ board' \in Boards /\ hist' = hist \cup {Len(journal)}
      /\ UNCHANGED <<journal, torn, snaps, man, world, orphan, opens, at, repeats, view,
                     closing, patch, committed>>
      /\ pc = "patch" /\ pc' = "finish"
  BY <1>1, PatchedIsABoard DEF ApplyPatch, Continue, log, env, exec, Disk, Mind
<1>3. Len(journal) \in 1 .. Len(journal)
  BY <1>1, <1>2, RecordsAreTyped, EmptyJournal DEF Inv, JournalInv, Inside, IsOpen, Disk
<1>4. mem' \in Memories
  <2>1. at.node \in Names /\ closing.usage \in Nat /\ mem \in Memories
    BY <1>1, <1>2, DispatcherAssumption DEF Mind, Inside, Record
  <2>2. ChargeTo(mem.ledger, at.node, closing.usage, Supervisors) \in Ledgers
    BY <2>1, ChargeIsTyped DEF Memories
  <2>3. QED
    BY <2>1, <2>2 DEF ApplyPatch, Memories
<1>5. Disk'
  BY <1>1, <1>2, <1>3 DEF Disk
<1>6. Mind'
  BY <1>1, <1>2, <1>4 DEF Mind, PCs, Inside
<1>7. QED
  BY <1>5, <1>6, TypeInvParts

LEMMA TakeSnapshotIsTyped == ASSUME Inv, TypeInv, VisitInv, TakeSnapshot PROVE TypeInv'
<1>1. Disk /\ Mind
  BY TypeInvParts
<1>2. /\ snaps' = [k \in DOMAIN snaps \cup {SnapshotKey} |->
                     IF k \in DOMAIN snaps THEN snaps[k] ELSE board]
      /\ view' = snaps'[SnapshotKey]
      /\ pc = "snapshot" /\ pc' = "run"
      /\ UNCHANGED <<journal, torn, board, hist, man, world, orphan, opens, at, repeats,
                     closing, patch, mem, committed>>
  BY DEF TakeSnapshot, Continue, log, env
<1>3. SnapshotKey \in 1 .. Len(journal)
  <2>1. SnapshotKey = Key /\ IsOpen(journal)
    BY <1>2 DEF VisitInv, Inv, JournalInv, Inside
  <2>2. AttemptOnes(journal, StartOf(journal).node) # {} /\ IsASequence(journal)
    BY <2>1 DEF VisitInv, Inv, ControlInv
  <2>3. QED
    BY <2>1, <2>2, AttemptOneSeqIsLast DEF Key
<1>4. \A k \in DOMAIN snaps' : snaps'[k] \in Boards
  BY <1>1, <1>2 DEF Disk
<1>5. Disk'
  BY <1>1, <1>2, <1>3, <1>4 DEF Disk
<1>6. Mind'
  BY <1>1, <1>2, <1>4 DEF Mind, PCs, Inside
<1>7. QED
  BY <1>5, <1>6, TypeInvParts

\* A process that goes, and the steps of others.
LEMMA ExitKeepsTypes ==
  ASSUME TypeInv, Exit, Disk'
  PROVE  TypeInv'
BY ExitIsTyped, TypeInvParts

LEMMA CrashIsTyped == ASSUME TypeInv, Crash PROVE TypeInv'
<1>1. Disk /\ Mind
  BY TypeInvParts
<1>2. torn' \in BOOLEAN
  BY <1>1 DEF Crash, Disk
<1>3. world' \in Worlds /\ orphan' \in Nodes \cup {NoNode}
  <2>1. CASE pc = "run"
    <3>1. at.node \in Nodes /\ view \in Boards /\ world \in Worlds
      BY <1>1, <2>1 DEF Mind, Disk, Inside
    <3>2. NodeResults(at.node, view, world) \subseteq Results
      BY <3>1, DispatcherAssumption
    <3>3. QED
      BY <1>1, <2>1, <3>1, <3>2 DEF Crash, Disk, Results
  <2>2. CASE pc # "run"
    BY <1>1, <2>2 DEF Crash, Disk
  <2>3. QED
    BY <2>1, <2>2
<1>4. Disk'
  BY <1>1, <1>2, <1>3 DEF Crash, Disk, files
<1>5. QED
  BY <1>4, ExitKeepsTypes DEF Crash

LEMMA OthersAreTyped ==
  ASSUME TypeInv, OrphanWrites \/ PersonEdits
  PROVE  TypeInv'
<1>1. Disk /\ Mind
  BY TypeInvParts
<1>2. UNCHANGED <<journal, torn, board, hist, snaps, man, orphan, opens, pc, at, repeats,
                  view, closing, patch, mem, committed>>
  BY DEF OrphanWrites, PersonEdits, log, files, exec
<1>3. world' \in Worlds
  <2>1. CASE OrphanWrites
    <3>1. orphan \in Nodes
      BY <1>1, <2>1 DEF OrphanWrites, Disk
    <3>2. PICK b \in Boards : world' \in {r.world : r \in NodeResults(orphan, b, world)}
      BY <2>1 DEF OrphanWrites
    <3>3. NodeResults(orphan, b, world) \subseteq Results
      BY <1>1, <3>1, DispatcherAssumption DEF Disk
    <3>4. QED
      BY <3>2, <3>3 DEF Results
  <2>2. CASE PersonEdits
    BY <1>1, <2>2, DispatcherAssumption DEF PersonEdits, Disk
  <2>3. QED
    BY <2>1, <2>2
<1>4. Disk'
  BY <1>1, <1>2, <1>3 DEF Disk
<1>5. Mind'
  BY <1>1, <1>2 DEF Mind
<1>6. QED
  BY <1>4, <1>5, TypeInvParts

\* The actions that append a record.
LEMMA HealCloseIsTyped == ASSUME Inv, TypeInv, HealClose PROVE TypeInv'
<1> DEFINE last   == Last(journal)
           charge == IF estimable(last.node) THEN interruptedCharge(mem.ledger) ELSE 0
           r      == InterruptedAttempt(last.node, last.attempt, charge, "crashed")
<1>1. Disk /\ Mind
  BY TypeInvParts
<1>2. /\ journal' = Append(journal, r)
      /\ mem' = [mem EXCEPT !.ledger = ChargeTo(@, last.node, charge, Supervisors)]
      /\ pc = "close" /\ pc' = "check"
      /\ UNCHANGED <<torn, files, env, at, repeats, view, closing, patch, committed>>
  BY DEF HealClose, AppendRecord, Continue, exec
<1>3. last.node \in Nodes /\ last.node \in Names /\ last.attempt \in Nat
  <2>1. IsOpen(journal)
    BY <1>2 DEF Inv, JournalInv
  <2>2. last \in Record
    BY <1>1, <2>1, RecordsAreTyped DEF Disk, IsOpen
  <2>3. QED
    BY <1>1, <2>1, <2>2, DispatcherAssumption DEF Disk, Record
<1>4. charge \in Nat
  BY <1>1, ChargeIsNat DEF Mind, Memories
<1>5. r \in Record /\ r.event = "node_finished" /\ r.node = last.node
  <2>1. "aborted" \in Statuses \cup {NoStatus} /\ last.node \in Successors /\ "crashed" \in Notes
    BY <1>3 DEF Statuses, Successors, Notes
  <2> HIDE DEF charge, last
  <2>2. r = NodeFinished(last.node, last.attempt, "aborted", last.node, charge, "crashed")
    BY DEF InterruptedAttempt
  <2>3. r \in Record
    BY <1>3, <1>4, <2>1, <2>2, FinishedIsTyped
  <2>4. QED
    BY <2>2, <2>3 DEF NodeFinished
<1>6. mem' \in Memories
  <2>1. ChargeTo(mem.ledger, last.node, charge, Supervisors) \in Ledgers
    BY <1>1, <1>3, <1>4, ChargeIsTyped DEF Mind, Memories
  <2>2. QED
    BY <1>1, <1>2, <2>1 DEF Mind, Memories
<1> HIDE DEF r
<1>7. Disk'
  BY <1>1, <1>2, <1>3, <1>5, AppendIsTyped DEF Disk
<1>8. Mind'
  BY <1>1, <1>2, <1>6 DEF Mind, PCs, Inside
<1>9. QED
  BY <1>7, <1>8, TypeInvParts

\* A run marker appended by a process that has no node in hand after it.
LEMMA MarkerKeepsTypes ==
  ASSUME TypeInv, NEW e \in RunEvents, journal' = Append(journal, RunMarker(e)),
         UNCHANGED <<torn, files, env, repeats, exec, mem, committed>>,
         at' \in Places, pc' \in PCs \ Inside
  PROVE  TypeInv'
<1>1. Disk /\ Mind
  BY TypeInvParts
<1>2. RunMarker(e) \in Record /\ RunMarker(e).event = e
  BY MarkerIsTyped, MarkerEvent
<1>3. e # "node_started" /\ e # "node_finished"
  BY DEF RunEvents
<1>4. Disk'
  BY <1>1, <1>2, <1>3, AppendIsTyped DEF Disk
<1>5. Mind'
  BY <1>1 DEF Mind, exec
<1>6. QED
  BY <1>4, <1>5, TypeInvParts

LEMMA MarkersAreTyped ==
  ASSUME Inv, TypeInv, HealOwed \/ ResumePaused \/ Proceed \/ EndMark
  PROVE  TypeInv'
<1>0. at \in Places
  BY DEF TypeInv, TypeOK
<1>1. CASE HealOwed
  <2> DEFINE e == OwedRunMarker(Last(journal))
  <2>1. e \in RunEvents
    BY OwedIsARunEvent
  <2>2. /\ journal' = Append(journal, RunMarker(e))
        /\ at' = [at EXCEPT !.state = RunStateOf(e)] /\ pc' = "owed"
        /\ UNCHANGED <<torn, files, env, repeats, exec, mem, committed>>
    BY <1>1 DEF HealOwed, AppendRecord, Continue
  <2> HIDE DEF e
  <2>3. at' \in Places
    BY <1>0, <2>2, StateOfAnEvent DEF Places
  <2>4. QED
    BY <2>1, <2>2, <2>3, MarkerKeepsTypes DEF PCs, Inside
<1>2. CASE ResumePaused
  <2>1. /\ journal' = Append(journal, RunMarker("run_resumed")) /\ pc' = "loop"
        /\ UNCHANGED <<torn, files, env, at, repeats, exec, mem, committed>>
    BY <1>2 DEF ResumePaused, AppendRecord, Continue
  <2>2. QED
    BY <1>0, <2>1, MarkerKeepsTypes DEF PCs, Inside, RunEvents
<1>3. CASE Proceed
  <2>1. /\ pc' = "loop" /\ pc = "check"
        /\ UNCHANGED <<torn, files, env, at, repeats, exec, mem, committed>>
        /\ journal' = Append(journal, RunMarker("run_started")) \/ journal' = journal
    BY <1>3 DEF Proceed, AppendRecord, Continue, log
  <2>2. CASE journal' = journal
    BY <2>1, <2>2, QuietIsTyped DEF files, env, PCs, Inside, TypeInv, TypeOK
  <2>3. CASE journal' = Append(journal, RunMarker("run_started"))
    BY <1>0, <2>1, <2>3, MarkerKeepsTypes DEF PCs, Inside, RunEvents
  <2>4. QED
    BY <2>1, <2>2, <2>3
<1>4. CASE EndMark
  <2>1. /\ journal' = Append(journal, RunMarker(mem.ending.event)) /\ pc' = "ended"
        /\ pc = "end"
        /\ UNCHANGED <<torn, files, env, at, repeats, exec, mem, committed>>
    BY <1>4 DEF EndMark, AppendRecord, Continue
  <2>2. mem.ending.event \in RunEvents
    BY <2>1 DEF Inv, JournalInv
  <2>3. QED
    BY <1>0, <2>1, <2>2, MarkerKeepsTypes DEF PCs, Inside
<1>5. QED
  BY <1>1, <1>2, <1>3, <1>4

\* The loop starts only nodes the registry knows.
LEMMA StartedIsKnown ==
  ASSUME LoopVerdict = NothingOwed
  PROVE  at.node \in Nodes
BY DEF LoopVerdict, NothingOwed

LEMMA StartNodeIsTyped == ASSUME TypeInv, StartNode PROVE TypeInv'
<1> DEFINE r == NodeStarted(at.node, at.attempt)
<1>1. Disk /\ Mind
  BY TypeInvParts
<1>2. /\ journal' = Append(journal, r) /\ pc' = "snapshot" /\ at.node \in Nodes
      /\ UNCHANGED <<torn, files, env, at, repeats, exec, mem, committed>>
  BY StartedIsKnown DEF StartNode, AppendRecord, Continue
<1>3. r \in Record /\ r.event = "node_started" /\ r.node = at.node
  <2>1. at.node \in Names /\ at.attempt \in Nat
    BY <1>1, <1>2, DispatcherAssumption DEF Mind, Places
  <2>2. QED
    BY <2>1, StartedIsTyped DEF NodeStarted
<1> HIDE DEF r
<1>4. Disk'
  BY <1>1, <1>2, <1>3, AppendIsTyped DEF Disk
<1>5. Mind'
  BY <1>1, <1>2 DEF Mind, exec, PCs
<1>6. QED
  BY <1>4, <1>5, TypeInvParts

LEMMA SnapshotFailsIsTyped == ASSUME TypeInv, SnapshotFails PROVE TypeInv'
<1> DEFINE r == InterruptedAttempt(at.node, at.attempt, 0, "notrun")
<1>1. Disk /\ Mind
  BY TypeInvParts
<1>2. /\ journal' = Append(journal, r) /\ pc = "snapshot" /\ Exit
      /\ UNCHANGED <<torn, files, env, committed>>
  BY DEF SnapshotFails, AppendRecord
<1>3. r \in Record /\ r.event = "node_finished" /\ r.node \in Names
  <2>1. at.node \in Names /\ at.attempt \in Nat /\ at.node \in Successors
    BY <1>1, <1>2, DispatcherAssumption DEF Mind, Places, Inside, Successors
  <2>2. "aborted" \in Statuses \cup {NoStatus} /\ "notrun" \in Notes /\ 0 \in Nat
    BY DEF Statuses, Notes
  <2>3. r = NodeFinished(at.node, at.attempt, "aborted", at.node, 0, "notrun")
    BY DEF InterruptedAttempt
  <2>4. r \in Record
    BY <2>1, <2>2, <2>3, FinishedIsTyped
  <2>5. QED
    BY <2>1, <2>3, <2>4 DEF NodeFinished
<1> HIDE DEF r
<1>4. Disk'
  BY <1>1, <1>2, <1>3, AppendIsTyped DEF Disk
<1>5. QED
  BY <1>2, <1>4, ExitKeepsTypes

LEMMA FinishNodeIsTyped == ASSUME Inv, TypeInv, FinishNode PROVE TypeInv'
<1> DEFINE event == EndingOf(closing)
           where == IF event = "run_completed" THEN End ELSE at.node
<1>1. Disk /\ Mind
  BY TypeInvParts
<1>2. /\ journal' = Append(journal, closing) /\ pc = "finish"
      /\ committed' = IF closing.note = "accepted" THEN Patched(committed, patch) ELSE committed
      /\ \/ pc' = "persist" /\ mem' = mem
         \/ pc' = "end" /\ mem' = [mem EXCEPT !.ending = [event |-> event, node |-> where]]
      /\ UNCHANGED <<torn, files, env, at, repeats, view, closing, patch>>
  BY DEF FinishNode, AppendRecord, Continue, EndRun, exec
<1>3. closing \in Record /\ closing.event = "node_finished" /\ closing.node \in Names
  BY <1>1, <1>2, DispatcherAssumption DEF Mind, Inv, JournalInv, Matches, Inside
<1>4. committed' \in Boards
  BY <1>1, <1>2, PatchedIsABoard DEF Disk, Mind
<1>5. event \in RunEvents /\ where \in Successors
  BY <1>1, EndingIsARunEvent DEF Mind, Places, Successors
<1> HIDE DEF event, where
<1>6. mem' \in Memories
  BY <1>1, <1>2, <1>5, EndingIsTyped DEF Mind
<1>7. Disk'
  BY <1>1, <1>2, <1>3, <1>4, AppendIsTyped
<1>8. Mind'
  BY <1>1, <1>2, <1>6 DEF Mind, PCs, Inside
<1>9. QED
  BY <1>7, <1>8, TypeInvParts

\* The rest: the manifest, the guards of the loop, and cancellation.
LEMMA RestIsTyped ==
  ASSUME Inv, TypeInv,
         \/ HealReap \/ HealPersist \/ NothingToHeal \/ Refuse \/ LoopEnds \/ Cancel
         \/ PersistRunning \/ EndPersist
  PROVE  TypeInv'
<1>0. Disk /\ Mind
  BY TypeInvParts
<1>1. CASE HealReap
  <2>1. UNCHANGED <<journal, torn, board, hist, snaps, man, world, opens, at, repeats, exec, mem, committed>>
        /\ pc' = "close" /\ orphan' = NoNode
    BY <1>1 DEF HealReap, Continue, log, files
  <2>2. Disk' /\ Mind'
    BY <1>0, <2>1 DEF Disk, Mind, exec, PCs, Inside
  <2>3. QED
    BY <2>2, TypeInvParts
<1>2. CASE HealPersist
  <2>1. at.state \in RunStates /\ at.node \in Successors
    BY <1>0 DEF Mind, Places
  <2>2. man' \in [status: RunStatuses, node: Successors, step: Nat, spent: Nat]
    BY <1>2, <2>1, ManifestIsTyped DEF HealPersist
  <2>3. QED
    BY <1>0, <1>2, <2>2, QuietIsTyped DEF HealPersist, Continue, log, env, Disk, Mind, PCs, Inside
<1>3. CASE NothingToHeal
  BY <1>0, <1>3, QuietIsTyped DEF NothingToHeal, Continue, log, files, env, Disk, Mind, PCs, Inside
<1>4. CASE Refuse
  <2>1. Disk'
    BY <1>0, <1>4 DEF Refuse, log, files, env, Disk
  <2>2. QED
    BY <1>4, <2>1, ExitKeepsTypes DEF Refuse
<1>5. CASE LoopEnds
  <2>1. mem' \in Memories
    BY <1>0, <1>5, VerdictIsARunEvent, EndingIsTyped DEF LoopEnds, EndRun, Mind, Places
  <2>2. /\ UNCHANGED <<journal, torn, board, hist, snaps, man, world, orphan, opens, committed, at, repeats, exec>>
        /\ pc' = "end"
    BY <1>5 DEF LoopEnds, EndRun, log, files, env
  <2>3. QED
    BY <1>0, <2>1, <2>2, QuietIsTyped DEF Disk, PCs, Inside
<1>6. CASE Cancel
  <2>1. mem' \in Memories
    BY <1>0, <1>6 DEF Cancel, Mind, Memories
  <2>2. QED
    BY <1>0, <1>6, <2>1, QuietIsTyped DEF Cancel, log, files, env, Disk, Mind
<1>7. CASE PersistRunning
  <2>1. closing.next \in Successors /\ "runnable" \in RunStates /\ RunStatusFor("runnable") = "running"
        /\ 1 \in Nat
    BY <1>0 DEF Mind, Record, RunStates, RunStatusFor
  <2>2. man' \in [status: RunStatuses, node: Successors, step: Nat, spent: Nat]
    BY <1>7, <2>1, ManifestIsTyped DEF PersistRunning
  <2>3. mem' \in Memories /\ pc' \in {"end", "loop"}
    <3>1. "run_paused" \in RunEvents
      BY DEF RunEvents
    <3>2. QED
      BY <1>0, <1>7, <2>1, <3>1, EndingIsTyped DEF PersistRunning, EndRun, Continue, Mind
  <2>4. at' \in Places
    BY <1>7, <2>1 DEF PersistRunning, Start, Places
  <2>5. /\ UNCHANGED <<journal, torn, board, hist, snaps, world, orphan, opens, committed>>
        /\ repeats' = 0 /\ view' = NewBoard /\ closing' = NoRecord /\ patch' = <<>>
    BY <1>7 DEF PersistRunning, log, env
  <2>6. Disk'
    BY <1>0, <2>2, <2>5 DEF Disk
  <2>7. Mind'
    BY <1>0, <2>3, <2>4, <2>5, NoRecordYet, DispatcherAssumption DEF Mind, PCs, Inside
  <2>8. QED
    BY <2>6, <2>7, TypeInvParts
<1>8. CASE EndPersist
  <2>1. mem.ending.node \in Successors
    BY <1>0 DEF Mind, Memories
  <2>2. man' \in [status: RunStatuses, node: Successors, step: Nat, spent: Nat]
    BY <1>8, <2>1, StateOfAnEvent, ManifestIsTyped DEF EndPersist
  <2>3. Disk'
    BY <1>0, <1>8, <2>2 DEF EndPersist, log, env, Disk
  <2>4. QED
    BY <1>8, <2>3, ExitKeepsTypes DEF EndPersist
<1>9. QED
  BY <1>1, <1>2, <1>3, <1>4, <1>5, <1>6, <1>7, <1>8

LEMMA TypeNext == Inv /\ TypeInv /\ VisitInv /\ [Next]_vars => TypeInv'
<1> SUFFICES ASSUME Inv, TypeInv, VisitInv, [Next]_vars PROVE TypeInv'
  OBVIOUS
<1>1. ASSUME NEW cfg \in Configs, NEW resuming \in BOOLEAN, Open(cfg, resuming) PROVE TypeInv'
  BY <1>1, OpenIsTyped
<1>2. CASE Advance
  <2>1. CASE NodeReturns
    BY <2>1, SettleIsTyped DEF NodeReturns, MayReturn
  <2>2. CASE NodeTimesOut
    BY <2>2, SettleIsTyped DEF NodeTimesOut, MayReturn
  <2>3. QED
    BY <1>2, <2>1, <2>2, HealCloseIsTyped, MarkersAreTyped, StartNodeIsTyped, TakeSnapshotIsTyped,
       ApplyPatchIsTyped, FinishNodeIsTyped, RestIsTyped DEF Advance
<1>3. CASE SnapshotFails \/ Cancel \/ Crash
  BY <1>3, SnapshotFailsIsTyped, RestIsTyped, CrashIsTyped
<1>4. CASE OrphanWrites \/ PersonEdits
  BY <1>4, OthersAreTyped
<1>5. CASE UNCHANGED vars
  <2>1. Disk /\ Mind
    BY TypeInvParts
  <2>2. Disk' /\ Mind'
    BY <1>5, <2>1 DEF vars, log, files, env, exec, Disk, Mind
  <2>3. QED
    BY <2>2, TypeInvParts
<1>6. QED
  BY <1>1, <1>2, <1>3, <1>4, <1>5 DEF Next

-----------------------------------------------------------------------------
(***************************************************************************)
(* The place of a run.                                                     *)
(***************************************************************************)
CtlInv == PlaceInv /\ EndedInv /\ VisitInv

LEMMA OnesKept ==
  ASSUME NEW j, IsASequence(j), NEW r, r.event # "node_started"
  PROVE  \A n : /\ AttemptOnes(Append(j, r), n) = AttemptOnes(j, n)
                /\ AttemptOneSeq(Append(j, r), n) = AttemptOneSeq(j, n)
<1> SUFFICES ASSUME NEW n
             PROVE  /\ AttemptOnes(Append(j, r), n) = AttemptOnes(j, n)
                    /\ AttemptOneSeq(Append(j, r), n) = AttemptOneSeq(j, n)
  OBVIOUS
<1>1. AttemptOnes(Append(j, r), n) = AttemptOnes(j, n) \cup {}
  BY AppendAttemptOnes
<1>2. QED
  BY <1>1, AppendAttemptOneSeq

\* An attempt closed as interrupted leaves the run where it was.
LEMMA InterruptedKeepsPlace ==
  ASSUME IsASequence(journal), IsOpen(journal), NEW r, r.event = "node_finished",
         Interrupted(r), r.node = Last(journal).node, r.attempt = Last(journal).attempt,
         journal' = Append(journal, r)
  PROVE  /\ StartOf(journal') = StartOf(journal)
         /\ StateOf(journal') = "runnable" /\ StateOf(journal) = "runnable"
         /\ ~ Owes(journal') /\ ~ IsOpen(journal')
         /\ \A n : /\ AttemptOnes(journal', n) = AttemptOnes(journal, n)
                   /\ AttemptOneSeq(journal', n) = AttemptOneSeq(journal, n)
<1>1. r.next = r.node /\ OwedRunMarker(r) = NothingOwed
  BY DEF Interrupted, OwedRunMarker
<1>2. /\ StartOf(journal) = Start("runnable", r.node, r.attempt + 1)
      /\ StateOf(journal) = "runnable"
  BY OpenPlace
<1>3. /\ StartOf(journal') = Start("runnable", r.node, r.attempt + 1)
      /\ ~ IsOpen(journal') /\ ~ Owes(journal')
      /\ StateOf(journal') = RunStateOf(NothingOwed)
  BY <1>1, AfterFinished
<1>4. \A n : /\ AttemptOnes(journal', n) = AttemptOnes(journal, n)
             /\ AttemptOneSeq(journal', n) = AttemptOneSeq(journal, n)
  BY OnesKept
<1>5. QED
  BY <1>2, <1>3, <1>4 DEF RunStateOf, NothingOwed

\* A run marker changes the state of the run and nothing else of its place.
LEMMA MarkerKeepsPlace ==
  ASSUME IsASequence(journal), ~ IsOpen(journal), NEW e \in RunEvents,
         journal' = Append(journal, RunMarker(e))
  PROVE  /\ StartOf(journal') = Start(RunStateOf(e), StartOf(journal).node, StartOf(journal).attempt)
         /\ ~ IsOpen(journal') /\ ~ Owes(journal') /\ StateOf(journal') = RunStateOf(e)
         /\ \A n : /\ AttemptOnes(journal', n) = AttemptOnes(journal, n)
                   /\ AttemptOneSeq(journal', n) = AttemptOneSeq(journal, n)
<1>1. RunMarker(e).event # "node_started"
  BY MarkerEvent DEF RunEvents
<1>2. QED
  BY <1>1, AfterMarker, OnesKept

LEMMA InitCtl == Init => CtlInv
<1> SUFFICES ASSUME Init PROVE CtlInv
  OBVIOUS
<1>1. journal = <<>> /\ FinishedAt(journal) = {} /\ ~ IsOpen(journal) /\ pc = "down"
  BY DEF Init, FinishedAt, IsOpen
<1>2. StartOf(journal) = Start("runnable", StartOf(journal).node, 1)
  BY <1>1 DEF StartOf, ResolveStart, Start
<1>3. StartOf(journal).node \in Names
  BY <1>1, NamesAssumption, DispatcherAssumption DEF StartOf, ResolveStart, Start
<1>4. StartOf(journal).attempt = 1
  BY <1>2 DEF Start
<1>5. PlaceInv
  BY <1>1 DEF PlaceInv
<1>6. EndedInv
  BY <1>3, NamesAssumption DEF Init, EndedInv, ManifestNotAhead
<1>7. VisitInv
  BY <1>1, <1>4 DEF VisitInv, Inside
<1>8. QED
  BY <1>5, <1>6, <1>7 DEF CtlInv

\* A process that goes leaves the files' part, when the journal stands.
LEMMA ExitKeepsCtl ==
  ASSUME CtlInv, pc' = "down", UNCHANGED journal, ManifestNotAhead'
  PROVE  CtlInv'
BY DEF CtlInv, PlaceInv, EndedInv, VisitInv, Inside

LEMMA SnapshotFailsCtl == ASSUME Inv, TypeInv, CtlInv, SnapshotFails PROVE CtlInv'
<1> DEFINE r == InterruptedAttempt(at.node, at.attempt, 0, "notrun")
<1>1. /\ pc = "snapshot" /\ pc' = "down" /\ journal' = Append(journal, r) /\ man' = man
  BY DEF SnapshotFails, AppendRecord, Exit, files
<1>2. /\ IsASequence(journal) /\ IsOpen(journal)
      /\ Last(journal).node = at.node /\ Last(journal).attempt = at.attempt
      /\ at.node # NoNode
  BY <1>1, NamesAssumption, DispatcherAssumption DEF Inv, ControlInv, JournalInv, Inside, TypeInv
<1>3. /\ r.event = "node_finished" /\ r.node = at.node /\ r.attempt = at.attempt
      /\ Interrupted(r)
  BY <1>2 DEF InterruptedAttempt, NodeFinished, Interrupted
<1> HIDE DEF r
<1>4. /\ StartOf(journal') = StartOf(journal)
      /\ StateOf(journal') = "runnable" /\ StateOf(journal) = "runnable"
      /\ ~ IsOpen(journal')
      /\ \A n : AttemptOnes(journal', n) = AttemptOnes(journal, n)
  BY <1>1, <1>2, <1>3, InterruptedKeepsPlace
<1>5. QED
  BY <1>1, <1>4 DEF CtlInv, PlaceInv, EndedInv, ManifestNotAhead, VisitInv, Inside

LEMMA HealCloseCtl == ASSUME Inv, TypeInv, CtlInv, HealClose PROVE CtlInv'
<1>1. PICK u : journal' = Append(journal, InterruptedAttempt(Last(journal).node,
                                            Last(journal).attempt, u, "crashed"))
  BY DEF HealClose, AppendRecord
<1> DEFINE r == InterruptedAttempt(Last(journal).node, Last(journal).attempt, u, "crashed")
<1>2. /\ pc = "close" /\ pc' = "check" /\ UNCHANGED <<man, at, repeats>>
      /\ IsASequence(journal) /\ IsOpen(journal) /\ Last(journal).node # NoNode
  BY NamesAssumption, DispatcherAssumption
     DEF HealClose, Continue, files, Inv, ControlInv, JournalInv, TypeInv
<1>3. /\ r.event = "node_finished" /\ r.node = Last(journal).node
      /\ r.attempt = Last(journal).attempt /\ Interrupted(r)
  BY <1>2 DEF InterruptedAttempt, NodeFinished, Interrupted
<1> HIDE DEF r
<1>4. /\ StartOf(journal') = StartOf(journal)
      /\ StateOf(journal') = "runnable" /\ StateOf(journal) = "runnable"
      /\ ~ IsOpen(journal') /\ ~ Owes(journal')
      /\ \A n : /\ AttemptOnes(journal', n) = AttemptOnes(journal, n)
                /\ AttemptOneSeq(journal', n) = AttemptOneSeq(journal, n)
  BY <1>1, <1>2, <1>3, InterruptedKeepsPlace DEF r
<1>5. PlaceInv'
  BY <1>2, <1>4 DEF CtlInv, PlaceInv
<1>6. EndedInv'
  BY <1>2, <1>4 DEF CtlInv, EndedInv, ManifestNotAhead
<1>7. VisitInv'
  BY <1>2, <1>4 DEF CtlInv, VisitInv, Inside
<1>8. QED
  BY <1>5, <1>6, <1>7 DEF CtlInv

LEMMA HealOwedCtl == ASSUME Inv, TypeInv, CtlInv, HealOwed PROVE CtlInv'
<1> DEFINE e == OwedRunMarker(Last(journal))
<1>1. /\ pc = "heal" /\ pc' = "owed" /\ journal' = Append(journal, RunMarker(e))
      /\ Owes(journal) /\ at' = [at EXCEPT !.state = RunStateOf(e)]
      /\ UNCHANGED <<man, repeats>>
  BY DEF HealOwed, AppendRecord, Continue, files
<1>2. ~ IsOpen(journal) /\ IsASequence(journal) /\ e \in RunEvents
  BY <1>1, OwedIsARunEvent DEF Owes, IsOpen, Last, Inv, ControlInv
<1>3. StateOf(journal) = RunStateOf(e)
  BY <1>1 DEF StateOf
<1> HIDE DEF e
<1>4. /\ StartOf(journal') = Start(RunStateOf(e), StartOf(journal).node, StartOf(journal).attempt)
      /\ ~ IsOpen(journal') /\ ~ Owes(journal') /\ StateOf(journal') = RunStateOf(e)
      /\ \A n : /\ AttemptOnes(journal', n) = AttemptOnes(journal, n)
                /\ AttemptOneSeq(journal', n) = AttemptOneSeq(journal, n)
  BY <1>1, <1>2, MarkerKeepsPlace
<1>5. at = StartOf(journal) /\ at \in Places
  BY <1>1 DEF CtlInv, PlaceInv, TypeInv, TypeOK
<1>6. at' = StartOf(journal') /\ at'.node = at.node /\ at'.attempt = at.attempt
  BY <1>1, <1>4, <1>5 DEF Start, Places
<1>7. StartOf(journal').node = StartOf(journal).node /\ StartOf(journal').attempt = StartOf(journal).attempt
  BY <1>4 DEF Start
<1>8. PlaceInv'
  BY <1>1, <1>4, <1>6 DEF PlaceInv
<1>9. EndedInv'
  BY <1>1, <1>3, <1>4, <1>7 DEF CtlInv, EndedInv, ManifestNotAhead
<1>10. VisitInv'
  BY <1>1, <1>4, <1>6, <1>7 DEF CtlInv, VisitInv, Inside
<1>11. QED
  BY <1>8, <1>9, <1>10 DEF CtlInv

LEMMA HealPersistCtl == ASSUME CtlInv, HealPersist PROVE CtlInv'
<1>1. /\ pc = "owed" /\ pc' = "check" /\ UNCHANGED <<journal, at, repeats>>
      /\ man'.status = RunStatusFor(at.state)
  BY DEF HealPersist, Persist, Continue, log
<1>2. StateOf(journal) = at.state
  BY <1>1, NothingOwedState DEF CtlInv, PlaceInv
<1>3. QED
  BY <1>1, <1>2 DEF CtlInv, PlaceInv, EndedInv, ManifestNotAhead, VisitInv, Inside, RunStatusFor

\* The run goes on: from a pause when asked to, from where it was otherwise.
LEMMA ResumeCtl ==
  ASSUME Inv, TypeInv, CtlInv, pc = "check", pc' = "loop", UNCHANGED <<man, at, repeats>>,
         \/ at.state = "paused" /\ journal' = Append(journal, RunMarker("run_resumed"))
         \/ at.state = "runnable" /\ journal' = Append(journal, RunMarker("run_started"))
  PROVE  CtlInv'
<1>1. /\ ~ IsOpen(journal) /\ IsASequence(journal) /\ at = StartOf(journal)
      /\ StateOf(journal) = at.state
  BY NothingOwedState DEF Inv, ControlInv, JournalInv, Between, CtlInv, PlaceInv
<1>2. PICK e \in {"run_resumed", "run_started"} : journal' = Append(journal, RunMarker(e))
  OBVIOUS
<1>3. e \in RunEvents /\ RunStateOf(e) = "runnable"
  BY <1>2 DEF RunEvents, RunStateOf
<1>4. /\ StartOf(journal') = Start(RunStateOf(e), StartOf(journal).node, StartOf(journal).attempt)
      /\ ~ IsOpen(journal') /\ ~ Owes(journal') /\ StateOf(journal') = RunStateOf(e)
      /\ \A n : /\ AttemptOnes(journal', n) = AttemptOnes(journal, n)
                /\ AttemptOneSeq(journal', n) = AttemptOneSeq(journal, n)
  BY <1>1, <1>2, <1>3, MarkerKeepsPlace
<1>5. StartOf(journal').node = StartOf(journal).node /\ StartOf(journal').attempt = StartOf(journal).attempt
  BY <1>4 DEF Start
<1>6. PlaceInv'
  BY <1>1, <1>3, <1>4, <1>5 DEF PlaceInv
<1>7. EndedInv'
  BY <1>1, <1>5 DEF CtlInv, EndedInv, ManifestNotAhead
<1>8. VisitInv'
  BY <1>4, <1>5 DEF CtlInv, VisitInv, Inside
<1>9. QED
  BY <1>6, <1>7, <1>8 DEF CtlInv

LEMMA ResumePausedCtl == ASSUME Inv, TypeInv, CtlInv, ResumePaused PROVE CtlInv'
BY ResumeCtl DEF ResumePaused, AppendRecord, Continue, files

LEMMA ProceedCtl == ASSUME Inv, TypeInv, CtlInv, Proceed PROVE CtlInv'
<1>1. /\ pc = "check" /\ pc' = "loop" /\ at.state = "runnable" /\ UNCHANGED <<man, at, repeats>>
      /\ journal' = Append(journal, RunMarker("run_started")) \/ journal' = journal
  BY DEF Proceed, AppendRecord, Continue, log, files
<1>2. CASE journal' = journal
  <2>1. at = StartOf(journal) /\ StateOf(journal) = "runnable"
    BY <1>1, NothingOwedState DEF CtlInv, PlaceInv
  <2>2. QED
    BY <1>1, <1>2, <2>1 DEF CtlInv, PlaceInv, EndedInv, ManifestNotAhead, VisitInv, Inside
<1>3. CASE journal' = Append(journal, RunMarker("run_started"))
  BY <1>1, <1>3, ResumeCtl
<1>4. QED
  BY <1>1, <1>2, <1>3

LEMMA LoopEndsCtl == ASSUME Inv, CtlInv, LoopEnds PROVE CtlInv'
<1>1. /\ pc = "loop" /\ pc' = "end" /\ UNCHANGED <<journal, man>>
      /\ mem' = [mem EXCEPT !.ending = [event |-> LoopVerdict, node |-> at.node]]
  BY DEF LoopEnds, EndRun, log, files
<1>2. mem'.ending.event = LoopVerdict
  BY <1>1 DEF Inv, ControlInv, Idle
<1>3. LoopVerdict = "run_completed" => at.node = End
  BY DEF LoopVerdict, NothingOwed
<1>4. at.node = StartOf(journal).node /\ StateOf(journal) = "runnable"
  BY <1>1 DEF CtlInv, PlaceInv
<1>5. PlaceInv'
  BY <1>1, <1>2, <1>3, <1>4 DEF PlaceInv
<1>6. QED
  BY <1>1, <1>5 DEF CtlInv, EndedInv, ManifestNotAhead, VisitInv, Inside

LEMMA StartNodeCtl == ASSUME Inv, TypeInv, CtlInv, StartNode PROVE CtlInv'
<1> DEFINE r == NodeStarted(at.node, at.attempt)
           n == at.node
           a == at.attempt
<1>1. /\ pc = "loop" /\ pc' = "snapshot" /\ journal' = Append(journal, r)
      /\ n \in Nodes /\ UNCHANGED <<man, at, repeats, snaps>>
  BY StartedIsKnown DEF StartNode, AppendRecord, Continue, files
<1>2. /\ IsASequence(journal) /\ n = StartOf(journal).node /\ a = StartOf(journal).attempt
      /\ StateOf(journal) = "runnable" /\ n # NoNode /\ a \in Nat /\ a >= 1
      /\ Len(journal) \in Nat
  BY <1>1, NamesAssumption, DispatcherAssumption, AppendFacts
     DEF Inv, ControlInv, CtlInv, PlaceInv, VisitInv, TypeInv, TypeOK, Places
<1>3. r.event = "node_started" /\ r.node = n /\ r.attempt = a
  BY DEF NodeStarted
<1>4. /\ StartOf(journal') = Start("runnable", n, a + 1)
      /\ IsOpen(journal') /\ ~ Owes(journal') /\ StateOf(journal') = "runnable"
  BY <1>1, <1>2, AfterStarted
<1>5. Len(journal') = Len(journal) + 1
  BY <1>1, <1>2, AppendFacts
<1>6. AttemptOneSeq(journal', n) = IF a = 1 THEN Len(journal) + 1 ELSE AttemptOneSeq(journal, n)
  <2> HIDE DEF r
  <2>1. QED
    BY <1>1, <1>2, <1>3, AppendAttemptOneSeq
<1>7. AttemptOnes(journal', n) = AttemptOnes(journal, n) \cup (IF a = 1 THEN {Len(journal) + 1} ELSE {})
  <2> HIDE DEF r
  <2>1. AttemptOnes(journal', n) = AttemptOnes(journal, n) \cup
          (IF r.event = "node_started" /\ r.node = n /\ r.attempt = 1 THEN {Len(journal) + 1} ELSE {})
    BY <1>1, <1>2, AppendAttemptOnes
  <2>2. QED
    BY <2>1, <1>3
<1> HIDE DEF r
<1>8. a > 1 => AttemptOnes(journal, n) # {}
  BY <1>2 DEF CtlInv, VisitInv
<1>9. AttemptOnes(journal', n) # {}
  BY <1>2, <1>7, <1>8
<1>10. StartOf(journal').node = n /\ StartOf(journal').attempt = a + 1
  BY <1>4 DEF Start
<1>11. SnapshotKey' = Key'
  <2>1. repeats = IF a > 1 THEN AttemptOneSeq(journal, n) ELSE 0
    BY <1>1 DEF CtlInv, VisitInv
  <2>2. a > 1 => AttemptOneSeq(journal, n) \in 1 .. Len(journal)
    BY <1>2, <1>8, AttemptOneSeqIsLast
  <2>3. SnapshotKey' = IF a > 1 /\ repeats # 0 THEN repeats ELSE Len(journal')
    BY <1>1 DEF SnapshotKey
  <2>4. Key' = AttemptOneSeq(journal', n)
    BY <1>10 DEF Key
  <2>5. CASE a > 1
    BY <1>2, <1>6, <2>1, <2>2, <2>3, <2>4, <2>5
  <2>6. CASE a = 1
    BY <1>5, <1>6, <2>3, <2>4, <2>6
  <2>7. QED
    BY <1>2, <2>5, <2>6
<1>12. PlaceInv'
  BY <1>1 DEF PlaceInv
<1>13. EndedInv'
  BY <1>1, <1>2, <1>4, <1>10 DEF CtlInv, EndedInv, ManifestNotAhead
<1>14. VisitInv'
  <2>1. a + 1 > 1 /\ a + 1 >= 1
    BY <1>2
  <2>2. QED
    BY <1>1, <1>9, <1>10, <1>11, <2>1 DEF VisitInv
<1>15. QED
  BY <1>12, <1>13, <1>14 DEF CtlInv

LEMMA TakeSnapshotCtl == ASSUME Inv, CtlInv, TakeSnapshot PROVE CtlInv'
<1>1. /\ snaps' = [k \in DOMAIN snaps \cup {SnapshotKey} |->
                     IF k \in DOMAIN snaps THEN snaps[k] ELSE board]
      /\ view' = snaps'[SnapshotKey]
      /\ pc = "snapshot" /\ pc' = "run" /\ UNCHANGED <<journal, man, at, repeats>>
  BY DEF TakeSnapshot, Continue, log
<1>2. SnapshotKey = Key
  BY <1>1 DEF CtlInv, VisitInv, Inside
<1>3. SnapshotKey' = SnapshotKey /\ Key' = Key
  BY <1>1 DEF SnapshotKey, Key
<1>4. Key \in DOMAIN snaps'
  BY <1>1, <1>2
<1>5. PlaceInv' /\ EndedInv'
  BY <1>1 DEF CtlInv, PlaceInv, EndedInv, ManifestNotAhead
<1>6. VisitInv'
  BY <1>1, <1>2, <1>3, <1>4 DEF CtlInv, VisitInv
<1>7. QED
  BY <1>5, <1>6 DEF CtlInv

\* What settle writes has a shape, whatever it decided.
LEMMA ClosingHasShape ==
  ASSUME TypeInv, pc = "run", NEW r \in Results,
         NEW why \in {"timeout", "canceled", "limit", "error", "invalid", "accepted"},
         why = "accepted" => ValidResult(r)
  PROVE  ClosingShape(ClosingRecord(r, why))
<1> DEFINE u == IF why \in {"timeout", "canceled"}
                  THEN cutShortCharge(mem.ledger, at.node, Reported(r))
                  ELSE Reported(r)
<1> HIDE DEF u
<1> ~ RunsAgain("accepted")
  BY DEF RunsAgain
<1>0. r.status \in Statuses \cup {NoStatus}
  BY DEF Results
<1>1. CASE why = "accepted"
  <2>1. ClosingRecord(r, why) = NodeFinished(at.node, at.attempt, r.status,
                                             ResumePointer(r), u, why)
    BY <1>1, Zenon DEF ClosingRecord, u
  <2>2. r.status \in Statuses /\ (r.status = "ok" => r.next # NoNode)
    BY <1>0, <1>1 DEF ValidResult
  <2>3. QED
    BY <2>1, <2>2 DEF NodeFinished, ClosingShape, ResumePointer
<1>2. CASE why # "accepted" /\ RunsAgain(why)
  <2>1. ClosingRecord(r, why) = NodeFinished(at.node, at.attempt, "aborted", at.node, u, why)
    BY <1>2, Zenon DEF ClosingRecord, InterruptedAttempt, u
  <2>2. QED
    BY <2>1 DEF NodeFinished, ClosingShape, Statuses
<1>3. CASE why # "accepted" /\ ~ RunsAgain(why)
  <2>1. ClosingRecord(r, why) = NodeFinished(at.node, at.attempt,
                                  IF why = "canceled" THEN "aborted" ELSE "failed",
                                  NoNode, u, why)
    BY <1>3, Zenon DEF ClosingRecord, u
  <2>2. QED
    BY <2>1 DEF NodeFinished, ClosingShape, Statuses
<1>4. QED
  BY <1>1, <1>2, <1>3

LEMMA AcceptedIsValid ==
  ASSUME NEW r, NEW timedOut, Verdict(r, timedOut) = "accepted"
  PROVE  ValidResult(r) /\ r.err \notin {"limit", "error"}
BY DEF Verdict

LEMMA SettleCtl ==
  ASSUME Inv, TypeInv, CtlInv, pc = "run", NEW timedOut,
         NEW r \in NodeResults(at.node, view, world) \cup {Silent}, Settle(r, timedOut)
  PROVE  CtlInv'
<1> DEFINE why == Verdict(r, timedOut)
<1>1. /\ closing' = ClosingRecord(r, why) /\ pc' \in {"patch", "finish"}
      /\ UNCHANGED <<journal, snaps, man, at, repeats, view>>
  BY DEF Settle, Continue, log, files
<1>2. ClosingShape(closing')
  <2>1. why \in {"timeout", "canceled", "limit", "error", "invalid", "accepted"}
    BY VerdictIsANote
  <2>2. why = "accepted" => ValidResult(r)
    BY AcceptedIsValid
  <2> HIDE DEF why
  <2>3. QED
    BY <1>1, <2>1, <2>2, ResultIsTyped, ClosingHasShape
<1>3. SnapshotKey' = SnapshotKey /\ Key' = Key
  BY <1>1 DEF SnapshotKey, Key
<1>4. PlaceInv'
  BY <1>1, <1>2 DEF PlaceInv
<1>5. EndedInv'
  BY <1>1 DEF CtlInv, EndedInv, ManifestNotAhead
<1>6. VisitInv'
  BY <1>1, <1>3 DEF CtlInv, VisitInv, Inside
<1>7. QED
  BY <1>4, <1>5, <1>6 DEF CtlInv

LEMMA ApplyPatchCtl == ASSUME CtlInv, ApplyPatch PROVE CtlInv'
<1>1. /\ pc = "patch" /\ pc' = "finish"
      /\ UNCHANGED <<journal, snaps, man, at, repeats, view, closing>>
  BY DEF ApplyPatch, Continue, log, env, exec
<1>2. SnapshotKey' = SnapshotKey /\ Key' = Key
  BY <1>1 DEF SnapshotKey, Key
<1>3. PlaceInv' /\ EndedInv'
  BY <1>1 DEF CtlInv, PlaceInv, EndedInv, ManifestNotAhead
<1>4. VisitInv'
  BY <1>1, <1>2 DEF CtlInv, VisitInv, Inside
<1>5. QED
  BY <1>3, <1>4 DEF CtlInv

\* Where a completion leaves the run, by what it says.
LEMMA EndingOfAShape ==
  ASSUME NEW c, ClosingShape(c), c.node # NoNode
  PROVE  /\ EndingOf(c) = NothingOwed =>
              c.status = "ok" /\ ~ Interrupted(c) /\ c.next # NoNode
         /\ RunStateOf(OwedRunMarker(c)) \in {"runnable", RunStateOf(EndingOf(c))}
         /\ EndingOf(c) = "run_completed" => c.next = End
         /\ c.next = NoNode => RunStateOf(OwedRunMarker(c)) \in {"failed", "aborted"}
         /\ c.status = "ok" => RunStateOf(OwedRunMarker(c)) = "runnable"
BY DEF ClosingShape, EndingOf, RunStateOf, OwedRunMarker, Interrupted, NothingOwed, Statuses

LEMMA FinishNodeCtl == ASSUME Inv, TypeInv, CtlInv, FinishNode PROVE CtlInv'
<1>1. /\ pc = "finish" /\ journal' = Append(journal, closing)
      /\ UNCHANGED <<man, at, closing>>
      /\ \/ EndingOf(closing) = NothingOwed /\ pc' = "persist"
         \/ /\ pc' = "end"
            /\ \E n : mem' = [mem EXCEPT !.ending = [event |-> EndingOf(closing), node |-> n]]
  BY DEF FinishNode, AppendRecord, Continue, EndRun, files, exec
<1>2. pc' = "end" => mem'.ending.event = EndingOf(closing)
  BY <1>1 DEF Inv, ControlInv, Idle
<1>3. /\ IsASequence(journal) /\ IsOpen(journal) /\ closing.event = "node_finished"
      /\ closing.node = Last(journal).node /\ closing.attempt = Last(journal).attempt
      /\ closing.node # NoNode /\ ClosingShape(closing) /\ closing.attempt \in Nat
  BY <1>1, NamesAssumption, DispatcherAssumption
     DEF Inv, ControlInv, JournalInv, Inside, Matches, CtlInv, PlaceInv, TypeInv, TypeOK, Record
<1>4. /\ StartOf(journal') = Start("runnable", closing.next,
                                   IF Interrupted(closing) THEN closing.attempt + 1 ELSE 1)
      /\ ~ IsOpen(journal')
      /\ StateOf(journal') = RunStateOf(OwedRunMarker(closing))
  BY <1>1, <1>3, AfterFinished
<1>5. StartOf(journal) = Start("runnable", closing.node, closing.attempt + 1)
      /\ StateOf(journal) = "runnable"
  BY <1>3, OpenPlace
<1>6. StartOf(journal').node = closing.next
      /\ StartOf(journal').attempt = IF Interrupted(closing) THEN closing.attempt + 1 ELSE 1
  BY <1>4 DEF Start
<1>7. PlaceInv'
  BY <1>1, <1>2, <1>3, <1>4, <1>6, EndingOfAShape DEF PlaceInv
<1>8. EndedInv'
  BY <1>1, <1>3, <1>4, <1>5, <1>6, EndingOfAShape DEF CtlInv, EndedInv, ManifestNotAhead
<1>9. VisitInv'
  <2>1. AttemptOnes(journal', closing.node) = AttemptOnes(journal, closing.node)
    BY <1>1, <1>3, OnesKept
  <2>2. AttemptOnes(journal, closing.node) # {}
    BY <1>3, <1>5 DEF CtlInv, VisitInv, Start
  <2>3. Interrupted(closing) => closing.next = closing.node
    BY DEF Interrupted
  <2>4. StartOf(journal').attempt >= 1
    BY <1>3, <1>6
  <2>5. StartOf(journal').attempt > 1 => AttemptOnes(journal', StartOf(journal').node) # {}
    BY <1>6, <2>1, <2>2, <2>3
  <2>6. QED
    BY <1>1, <1>4, <2>4, <2>5 DEF VisitInv, Inside
<1>10. QED
  BY <1>7, <1>8, <1>9 DEF CtlInv

LEMMA PersistRunningCtl == ASSUME Inv, CtlInv, PersistRunning PROVE CtlInv'
<1>1. /\ pc = "persist" /\ UNCHANGED journal
      /\ man'.status = "running" /\ at' = Start("runnable", closing.next, 1) /\ repeats' = 0
      /\ \/ pc' = "loop" /\ mem' = mem
         \/ /\ pc' = "end"
            /\ mem' = [mem EXCEPT !.ending = [event |-> "run_paused", node |-> closing.next]]
  BY DEF PersistRunning, Persist, Continue, EndRun, log
<1>2. pc' = "end" => mem'.ending.event = "run_paused"
  BY <1>1 DEF Inv, ControlInv, Idle
<1>3. StartOf(journal) = Start("runnable", closing.next, 1) /\ StateOf(journal) = "runnable"
  BY <1>1 DEF CtlInv, PlaceInv
<1>4. at' = StartOf(journal) /\ at'.attempt = 1
  BY <1>1, <1>3 DEF Start
<1>5. PlaceInv'
  BY <1>1, <1>2, <1>3, <1>4 DEF PlaceInv
<1>6. EndedInv'
  BY <1>1, <1>3 DEF CtlInv, EndedInv, ManifestNotAhead
<1>7. VisitInv'
  BY <1>1, <1>4 DEF CtlInv, VisitInv, Inside
<1>8. QED
  BY <1>5, <1>6, <1>7 DEF CtlInv

LEMMA EndMarkCtl == ASSUME Inv, CtlInv, EndMark PROVE CtlInv'
<1> DEFINE e == mem.ending.event
<1>1. /\ pc = "end" /\ pc' = "ended" /\ journal' = Append(journal, RunMarker(e))
      /\ UNCHANGED <<man, mem>>
  BY DEF EndMark, AppendRecord, Continue, files
<1>2. ~ IsOpen(journal) /\ IsASequence(journal) /\ e \in RunEvents
  BY <1>1 DEF Inv, ControlInv, JournalInv, Between
<1>3. StateOf(journal) \in {"runnable", RunStateOf(e)}
  BY <1>1 DEF CtlInv, PlaceInv
<1> HIDE DEF e
<1>4. /\ StartOf(journal') = Start(RunStateOf(e), StartOf(journal).node, StartOf(journal).attempt)
      /\ ~ IsOpen(journal') /\ StateOf(journal') = RunStateOf(e)
      /\ \A n : AttemptOnes(journal', n) = AttemptOnes(journal, n)
  BY <1>1, <1>2, MarkerKeepsPlace
<1>5. StartOf(journal').node = StartOf(journal).node /\ StartOf(journal').attempt = StartOf(journal).attempt
  BY <1>4 DEF Start
<1>6. PlaceInv'
  BY <1>1, <1>4 DEF PlaceInv, e
<1>7. EndedInv'
  BY <1>1, <1>3, <1>4, <1>5 DEF CtlInv, EndedInv, ManifestNotAhead
<1>8. VisitInv'
  BY <1>1, <1>4, <1>5 DEF CtlInv, VisitInv, Inside
<1>9. QED
  BY <1>6, <1>7, <1>8 DEF CtlInv

LEMMA EndPersistCtl == ASSUME CtlInv, EndPersist PROVE CtlInv'
<1>1. /\ pc = "ended" /\ pc' = "down" /\ UNCHANGED journal
      /\ man'.status = RunStatusFor(RunStateOf(mem.ending.event))
  BY DEF EndPersist, Persist, Exit, log
<1>2. StateOf(journal) = RunStateOf(mem.ending.event)
  BY <1>1 DEF CtlInv, PlaceInv
<1>3. ManifestNotAhead'
  BY <1>1, <1>2 DEF ManifestNotAhead, RunStatusFor
<1>4. QED
  BY <1>1, <1>3, ExitKeepsCtl

LEMMA OpenCtl ==
  ASSUME CtlInv, NEW cfg, NEW resuming, Open(cfg, resuming)
  PROVE  CtlInv'
<1>1. /\ pc' = "heal" /\ at' = StartOf(journal) /\ UNCHANGED <<journal, man>>
      /\ repeats' = IF at'.attempt > 1 THEN AttemptOneSeq(journal, at'.node) ELSE 0
  BY DEF Open, Continue, files
<1>2. QED
  BY <1>1 DEF CtlInv, PlaceInv, EndedInv, ManifestNotAhead, VisitInv, Inside

\* The rest moves on, or goes.
LEMMA RestCtl ==
  ASSUME CtlInv, HealReap \/ NothingToHeal \/ Refuse \/ Cancel \/ Crash
  PROVE  CtlInv'
<1>1. CASE HealReap
  BY <1>1 DEF HealReap, Continue, log, files, CtlInv, PlaceInv, EndedInv, ManifestNotAhead,
              VisitInv, Inside
<1>2. CASE NothingToHeal
  BY <1>2 DEF NothingToHeal, Continue, log, files, CtlInv, PlaceInv, EndedInv, ManifestNotAhead,
              VisitInv, Inside
<1>3. CASE Refuse \/ Crash
  <2>1. pc' = "down" /\ UNCHANGED <<journal, man>>
    BY <1>3 DEF Refuse, Crash, Exit, log, files
  <2>2. QED
    BY <2>1, ExitKeepsCtl DEF CtlInv, EndedInv, ManifestNotAhead
<1>4. CASE Cancel
  <2>1. /\ UNCHANGED <<journal, snaps, man, pc, at, repeats, view, closing>>
        /\ mem'.ending = mem.ending
    BY <1>4 DEF Cancel, log, files, exec
  <2>2. SnapshotKey' = SnapshotKey /\ Key' = Key
    BY <2>1 DEF SnapshotKey, Key
  <2>3. QED
    BY <2>1, <2>2 DEF CtlInv, PlaceInv, EndedInv, ManifestNotAhead, VisitInv
<1>5. QED
  BY <1>1, <1>2, <1>3, <1>4

LEMMA OthersCtl ==
  ASSUME CtlInv, UNCHANGED <<journal, snaps, man, pc, at, repeats, view, closing, mem>>
  PROVE  CtlInv'
<1>1. SnapshotKey' = SnapshotKey /\ Key' = Key
  BY DEF SnapshotKey, Key
<1>2. QED
  BY <1>1 DEF CtlInv, PlaceInv, EndedInv, ManifestNotAhead, VisitInv

LEMMA CtlNext == Inv /\ TypeInv /\ CtlInv /\ [Next]_vars => CtlInv'
<1> SUFFICES ASSUME Inv, TypeInv, CtlInv, [Next]_vars PROVE CtlInv'
  OBVIOUS
<1>1. ASSUME NEW cfg \in Configs, NEW resuming \in BOOLEAN, Open(cfg, resuming) PROVE CtlInv'
  BY <1>1, OpenCtl
<1>2. CASE Advance
  <2>1. CASE NodeReturns
    BY <2>1, SettleCtl DEF NodeReturns, MayReturn
  <2>2. CASE NodeTimesOut
    BY <2>2, SettleCtl DEF NodeTimesOut, MayReturn
  <2>3. QED
    BY <1>2, <2>1, <2>2, RestCtl, HealCloseCtl, HealOwedCtl, HealPersistCtl, ResumePausedCtl,
       ProceedCtl, LoopEndsCtl, StartNodeCtl, TakeSnapshotCtl, ApplyPatchCtl, FinishNodeCtl,
       PersistRunningCtl, EndMarkCtl, EndPersistCtl DEF Advance
<1>3. CASE SnapshotFails \/ Cancel \/ Crash
  BY <1>3, SnapshotFailsCtl, RestCtl
<1>4. CASE OrphanWrites \/ PersonEdits
  BY <1>4, OthersCtl DEF OrphanWrites, PersonEdits, log, files, exec
<1>5. CASE UNCHANGED vars
  BY <1>5, OthersCtl DEF vars, log, files, exec
<1>6. QED
  BY <1>1, <1>2, <1>3, <1>4, <1>5 DEF Next

-----------------------------------------------------------------------------
(***************************************************************************)
(* The spend of a run.                                                     *)
(***************************************************************************)
\* A charge only grows a ledger, and what one execution cost is evidence of
\* what a step may cost.
LEMMA ChargeGrows ==
  ASSUME NEW l \in Ledgers, NEW n \in Names, NEW u \in Nat
  PROVE  LET c == ChargeTo(l, n, u, Supervisors)
         IN  /\ c \in Ledgers
             /\ l.total <= c.total
             /\ l.largest <= c.largest
             /\ n \notin Supervisors => u <= c.largest
<1> DEFINE c == ChargeTo(l, n, u, Supervisors)
<1>1. c \in Ledgers
  BY ChargeIsTyped
<1>2. l.total \in Nat /\ l.largest \in Nat
  BY DEF Ledgers
<1>3. /\ RecordSum(l, n, u).total = l.total + u /\ RecordSum(l, n, u).largest = l.largest
      /\ RecordSum(l, n, u) = [total |-> RecordSum(l, n, u).total,
                               of |-> RecordSum(l, n, u).of, largest |-> l.largest]
  <2> DEFINE o == [l.of EXCEPT ![n] = @ + u]
  <2>1. RecordSum(l, n, u) = [l EXCEPT !.total = l.total + u, !.of = o]
    BY DEF RecordSum, Ledgers
  <2> HIDE DEF o
  <2>2. QED
    BY <2>1 DEF Ledgers
<1>4. /\ RecordUsage(l, n, u).total = l.total + u
      /\ RecordUsage(l, n, u).largest = larger(l.largest, u)
  BY <1>3 DEF RecordUsage
<1>5. QED
  BY <1>1, <1>2, <1>3, <1>4 DEF ChargeTo, larger

\* Where the manifest claims no more than the journal records, it is no
\* floor at all.
LEMMA RebuildIsSpent ==
  ASSUME NEW j, Spent(j) \in Ledgers, NEW floor \in Nat, floor <= Spent(j).total
  PROVE  Rebuild(j, floor, Supervisors) = Spent(j)
<1>1. Rebuild(j, floor, Supervisors) = [Spent(j) EXCEPT !.total = larger(Spent(j).total, floor)]
  BY DEF Rebuild, Spent
<1>2. Spent(j).total \in Nat
  BY DEF Ledgers
<1>3. larger(Spent(j).total, floor) = Spent(j).total
  BY <1>2 DEF larger
<1>4. QED
  BY <1>1, <1>3 DEF Ledgers

\* What the completions of a journal say of each other.
ChargesInv ==
  /\ \A i \in FinishedAt(journal) :
       journal[i].node \notin Supervisors => journal[i].usage <= Spent(journal).largest
  /\ KillsAreCharged

\* A completion adds its usage to the spend; one that closes a killed attempt
\* costs no less than any before it.
LEMMA FinishedKeepsCharges ==
  ASSUME TypeInv, ChargesInv, NEW r \in Record, r.event = "node_finished", r.node \in Names,
         journal' = Append(journal, r),
         r.note = "crashed" /\ estimable(r.node) => Spent(journal).largest <= r.usage
  PROVE  /\ Spent(journal') = ChargeTo(Spent(journal), r.node, r.usage, Supervisors)
         /\ Spent(journal).total <= Spent(journal').total
         /\ ChargesInv'
<1> DEFINE n == Len(journal)
<1>1. /\ IsASequence(journal) /\ n \in Nat /\ r.usage \in Nat
      /\ \A i \in 1 .. n : journal[i].usage \in Nat
      /\ Spent(journal) \in Ledgers /\ Spent(journal).largest \in Nat
  BY RecordsAreTyped DEF TypeInv, TypeOK, Record, Ledgers
<1>2. /\ Spent(journal') = ChargeTo(Spent(journal), r.node, r.usage, Supervisors)
      /\ Spent(journal') \in Ledgers
      /\ Spent(journal).total <= Spent(journal').total
      /\ Spent(journal).largest <= Spent(journal').largest
      /\ r.node \notin Supervisors => r.usage <= Spent(journal').largest
  BY <1>1, SpentAppend, ChargeGrows
<1>3. /\ FinishedAt(journal') = FinishedAt(journal) \cup {n + 1}
      /\ journal'[n + 1] = r /\ \A i \in 1 .. n : journal'[i] = journal[i]
  BY <1>1, AppendFinished, AppendFacts
<1>4. FinishedAt(journal) \subseteq 1 .. n
  BY DEF FinishedAt
<1>5. Spent(journal').largest \in Nat
  BY <1>2 DEF Ledgers
<1> HIDE DEF n
<1>6. ASSUME NEW i \in FinishedAt(journal'), journal'[i].node \notin Supervisors
      PROVE  journal'[i].usage <= Spent(journal').largest
  <2>1. CASE i \in FinishedAt(journal)
    <3>1. journal'[i] = journal[i] /\ journal[i].usage \in Nat
      BY <2>1, <1>1, <1>3, <1>4 DEF n
    <3>2. journal[i].usage <= Spent(journal).largest
      BY <2>1, <3>1, <1>6 DEF ChargesInv
    <3>3. QED
      BY <3>1, <3>2, <1>1, <1>2, <1>5
  <2>2. CASE i = n + 1
    BY <2>2, <1>2, <1>3, <1>6
  <2>3. QED
    BY <2>1, <2>2, <1>3
<1>7. ASSUME NEW i \in FinishedAt(journal'), journal'[i].note = "crashed",
             estimable(journal'[i].node),
             NEW k \in FinishedAt(journal'), k < i, journal'[k].node \notin Supervisors
      PROVE  journal'[k].usage <= journal'[i].usage
  <2>1. k \in FinishedAt(journal) /\ journal'[k] = journal[k]
    BY <1>1, <1>3, <1>4, <1>7 DEF n
  <2>2. CASE i \in FinishedAt(journal)
    <3>1. journal'[i] = journal[i]
      BY <2>2, <1>3, <1>4
    <3>2. QED
      BY <2>1, <2>2, <3>1, <1>7 DEF ChargesInv, KillsAreCharged
  <2>3. CASE i = n + 1
    <3>1. journal[k].usage <= Spent(journal).largest /\ journal[k].usage \in Nat
      BY <2>1, <1>1, <1>4, <1>7 DEF ChargesInv, n
    <3>2. journal'[i] = r /\ Spent(journal).largest <= r.usage
      BY <2>3, <1>3, <1>7
    <3>3. QED
      BY <2>1, <3>1, <3>2, <1>1
  <2>4. QED
    BY <2>2, <2>3, <1>3
<1>8. ChargesInv'
  BY <1>6, <1>7 DEF ChargesInv, KillsAreCharged
<1>9. QED
  BY <1>2, <1>8

\* Any other record leaves the spend as it is.
LEMMA OtherRecordKeepsCharges ==
  ASSUME IsASequence(journal), ChargesInv, NEW r, r.event # "node_finished",
         journal' = Append(journal, r)
  PROVE  Spent(journal') = Spent(journal) /\ ChargesInv'
<1>1. Spent(journal') = Spent(journal)
  BY SpentAppend
<1>2. /\ FinishedAt(journal') = FinishedAt(journal)
      /\ \A i \in FinishedAt(journal) : journal'[i] = journal[i]
  BY AppendFinished, AppendFacts DEF FinishedAt
<1>3. QED
  BY <1>1, <1>2 DEF ChargesInv, KillsAreCharged

LEMMA SpendInvParts ==
  /\ SpendInv <=>
       /\ man.spent <= Spent(journal).total
       /\ pc \in Counted => mem.ledger = Spent(journal)
       /\ pc = "finish" =>
            mem.ledger = ChargeTo(Spent(journal), closing.node, closing.usage, Supervisors)
       /\ pc \in {"patch", "finish"} => closing.note # "crashed"
       /\ ChargesInv
  /\ SpendInv' <=>
       /\ man'.spent <= Spent(journal').total
       /\ pc' \in Counted => mem'.ledger = Spent(journal')
       /\ pc' = "finish" =>
            mem'.ledger = ChargeTo(Spent(journal'), closing'.node, closing'.usage, Supervisors)
       /\ pc' \in {"patch", "finish"} => closing'.note # "crashed"
       /\ ChargesInv'
BY DEF SpendInv, ChargesInv

LEMMA InitSpend == Init => SpendInv
<1> SUFFICES ASSUME Init PROVE SpendInv
  OBVIOUS
<1>1. /\ FinishedAt(journal) = {} /\ pc = "down" /\ man.spent = 0
      /\ Spent(journal).total = 0
  BY SpentOfNone DEF Init, FinishedAt, NewLedger
<1>2. QED
  BY <1>1 DEF SpendInv, KillsAreCharged, Counted

\* The steps that append no completion, and leave the ledger and the
\* manifest's spend as they are.
LEMMA MarkersKeepSpend ==
  ASSUME Inv, SpendInv, UNCHANGED <<man, mem>>, pc \in Counted,
         pc' \in Counted \ {"patch"},
         \/ journal' = journal
         \/ \E r : r.event # "node_finished" /\ journal' = Append(journal, r)
  PROVE  SpendInv'
<1>1. IsASequence(journal) /\ ChargesInv
  BY SpendInvParts DEF Inv, ControlInv
<1>2. Spent(journal') = Spent(journal) /\ ChargesInv'
  <2>1. CASE journal' = journal
    BY <1>1, <2>1 DEF ChargesInv, KillsAreCharged
  <2>2. CASE journal' # journal
    BY <1>1, <2>2, OtherRecordKeepsCharges
  <2>3. QED
    BY <2>1, <2>2
<1>3. pc' \notin {"finish", "patch"}
  BY DEF Counted
<1>4. QED
  BY <1>2, <1>3, SpendInvParts

\* A process that is gone counts nothing.
LEMMA ExitKeepsSpend ==
  ASSUME Exit, man'.spent <= Spent(journal').total, ChargesInv'
  PROVE  SpendInv'
<1>1. pc' = "down"
  BY DEF Exit
<1>2. QED
  BY <1>1, SpendInvParts DEF Counted

LEMMA OpenSpend ==
  ASSUME TypeInv, SpendInv, NEW cfg, NEW resuming, Open(cfg, resuming)
  PROVE  SpendInv'
<1>1. /\ pc' = "heal" /\ UNCHANGED <<journal, man>>
      /\ mem'.ledger = Rebuild(journal, man.spent, Supervisors)
  BY DEF Open, Continue, files, Idle
<1>2. Spent(journal) \in Ledgers /\ man.spent \in Nat /\ man.spent <= Spent(journal).total
  BY SpendInvParts DEF TypeInv, TypeOK
<1>3. mem'.ledger = Spent(journal')
  BY <1>1, <1>2, RebuildIsSpent
<1>4. ChargesInv'
  BY <1>1, SpendInvParts DEF ChargesInv, KillsAreCharged
<1>5. QED
  BY <1>1, <1>2, <1>3, <1>4, SpendInvParts

LEMMA HealCloseSpend == ASSUME Inv, TypeInv, SpendInv, HealClose PROVE SpendInv'
<1> DEFINE last == Last(journal)
           u == IF estimable(last.node) THEN interruptedCharge(mem.ledger) ELSE 0
           r == InterruptedAttempt(last.node, last.attempt, u, "crashed")
<1>1. /\ pc = "close" /\ pc' = "check" /\ journal' = Append(journal, r)
      /\ mem' = [mem EXCEPT !.ledger = ChargeTo(@, last.node, u, Supervisors)]
      /\ UNCHANGED man
  BY DEF HealClose, AppendRecord, Continue, files
<1>2. /\ last \in Record /\ last.node \in Names
      /\ mem \in Memories /\ mem.ledger = Spent(journal) /\ Spent(journal) \in Ledgers
      /\ man.spent \in Nat
  <2>1. IsOpen(journal) /\ journal \in Seq(Record)
    BY <1>1 DEF Inv, JournalInv, TypeInv, TypeOK
  <2>2. journal # <<>>
    BY <2>1 DEF IsOpen
  <2>3. QED
    BY <1>1, <2>1, <2>2, RecordsAreTyped, SpendInvParts, DispatcherAssumption
       DEF TypeInv, TypeOK, Counted
<1>3. /\ u \in Nat
      /\ estimable(last.node) => Spent(journal).largest <= u
  <2>1. Spent(journal).largest \in Nat /\ InterruptedFloor \in Nat
    BY <1>2, DispatcherAssumption DEF Ledgers
  <2>2. QED
    BY <1>2, <2>1 DEF interruptedCharge, larger
<1>4. /\ r = NodeFinished(last.node, last.attempt, "aborted", last.node, u, "crashed")
      /\ r.event = "node_finished" /\ r.node = last.node /\ r.usage = u
  BY DEF InterruptedAttempt, NodeFinished
<1>5. r \in Record
  <2>1. /\ last.attempt \in Nat /\ last.node \in Successors
        /\ "aborted" \in Statuses \cup {NoStatus} /\ "crashed" \in Notes
    BY <1>2 DEF Record, Statuses, Successors, Notes
  <2> HIDE DEF r, u, last
  <2>2. QED
    BY <1>2, <1>3, <1>4, <2>1, FinishedIsTyped
<1>6. mem'.ledger = ChargeTo(Spent(journal), last.node, u, Supervisors)
  BY <1>1, <1>2 DEF Memories
<1> HIDE DEF r, u, last
<1>7. /\ Spent(journal') = ChargeTo(Spent(journal), last.node, u, Supervisors)
      /\ Spent(journal).total <= Spent(journal').total /\ ChargesInv'
  BY <1>1, <1>2, <1>3, <1>4, <1>5, SpendInvParts, FinishedKeepsCharges
<1>8. man'.spent <= Spent(journal').total
  <2>1. Spent(journal').total \in Nat /\ Spent(journal).total \in Nat
    BY <1>2, <1>3, <1>7, ChargeIsTyped DEF Ledgers
  <2>2. QED
    BY <1>1, <1>2, <1>7, <2>1, SpendInvParts
<1>9. QED
  BY <1>1, <1>6, <1>7, <1>8, SpendInvParts

LEMMA SnapshotFailsSpend == ASSUME Inv, TypeInv, SpendInv, SnapshotFails PROVE SpendInv'
<1> DEFINE r == InterruptedAttempt(at.node, at.attempt, 0, "notrun")
<1>1. /\ journal' = Append(journal, r) /\ pc = "snapshot" /\ Exit /\ UNCHANGED man
  BY DEF SnapshotFails, AppendRecord, files
<1>2. /\ at.node \in Names /\ at.attempt \in Nat /\ at.node \in Successors
      /\ "aborted" \in Statuses \cup {NoStatus} /\ "notrun" \in Notes /\ 0 \in Nat
      /\ Spent(journal) \in Ledgers /\ man.spent \in Nat
  BY <1>1, DispatcherAssumption
     DEF TypeInv, TypeOK, Places, Inside, Successors, Statuses, Notes
<1>3. /\ r = NodeFinished(at.node, at.attempt, "aborted", at.node, 0, "notrun")
      /\ r.event = "node_finished" /\ r.node = at.node /\ r.usage = 0 /\ r.note # "crashed"
  BY DEF InterruptedAttempt, NodeFinished
<1> HIDE DEF r
<1>4. r \in Record
  BY <1>2, <1>3, FinishedIsTyped
<1>5. /\ Spent(journal') = ChargeTo(Spent(journal), at.node, 0, Supervisors)
      /\ Spent(journal).total <= Spent(journal').total /\ ChargesInv'
  BY <1>1, <1>2, <1>3, <1>4, SpendInvParts, FinishedKeepsCharges
<1>6. man'.spent <= Spent(journal').total
  <2>1. Spent(journal').total \in Nat /\ Spent(journal).total \in Nat
    BY <1>2, <1>5, ChargeIsTyped DEF Ledgers
  <2>2. QED
    BY <1>1, <1>2, <1>5, <2>1, SpendInvParts
<1>7. QED
  BY <1>1, <1>5, <1>6, ExitKeepsSpend

LEMMA FinishNodeSpend == ASSUME Inv, TypeInv, SpendInv, FinishNode PROVE SpendInv'
<1>1. /\ pc = "finish" /\ pc' \in {"persist", "end"} /\ journal' = Append(journal, closing)
      /\ UNCHANGED <<man, closing>> /\ mem'.ledger = mem.ledger
  BY DEF FinishNode, AppendRecord, Continue, EndRun, files, exec, TypeInv, TypeOK, Memories
<1>2. /\ closing \in Record /\ closing.event = "node_finished" /\ closing.node \in Names
      /\ closing.usage \in Nat /\ closing.note # "crashed"
      /\ Spent(journal) \in Ledgers /\ man.spent \in Nat
  BY <1>1, DispatcherAssumption, SpendInvParts
     DEF Inv, JournalInv, Matches, TypeInv, TypeOK, Inside, Record
<1>3. /\ Spent(journal') = ChargeTo(Spent(journal), closing.node, closing.usage, Supervisors)
      /\ Spent(journal).total <= Spent(journal').total /\ ChargesInv'
  BY <1>1, <1>2, SpendInvParts, FinishedKeepsCharges
<1>4. man'.spent <= Spent(journal').total
  <2>1. Spent(journal').total \in Nat /\ Spent(journal).total \in Nat
    BY <1>2, <1>3, ChargeIsTyped DEF Ledgers
  <2>2. QED
    BY <1>1, <1>2, <1>3, <2>1, SpendInvParts
<1>5. mem'.ledger = Spent(journal')
  BY <1>1, <1>3, SpendInvParts
<1>6. QED
  BY <1>1, <1>3, <1>4, <1>5, SpendInvParts

LEMMA SettleSpend ==
  ASSUME Inv, TypeInv, SpendInv, pc = "run", NEW r, NEW timedOut, Settle(r, timedOut)
  PROVE  SpendInv'
<1> DEFINE why == Verdict(r, timedOut)
           c == ClosingRecord(r, why)
<1>1. /\ UNCHANGED <<journal, man>> /\ closing' = c
      /\ \/ pc' = "patch" /\ mem'.ledger = mem.ledger
         \/ /\ pc' = "finish"
            /\ mem'.ledger = ChargeTo(mem.ledger, at.node, c.usage, Supervisors)
  BY DEF Settle, Continue, log, files, TypeInv, TypeOK, Memories
<1>2. c.node = at.node /\ c.note # "crashed"
  BY ClosingMatches, VerdictIsANote DEF Matches
<1>3. mem.ledger = Spent(journal)
  BY SpendInvParts DEF Counted
<1>4. ChargesInv'
  BY <1>1, SpendInvParts DEF ChargesInv, KillsAreCharged
<1> HIDE DEF c
<1>5. QED
  BY <1>1, <1>2, <1>3, <1>4, SpendInvParts DEF Counted

LEMMA ApplyPatchSpend == ASSUME Inv, TypeInv, SpendInv, ApplyPatch PROVE SpendInv'
<1>1. /\ pc = "patch" /\ pc' = "finish" /\ UNCHANGED <<journal, man, closing>>
      /\ mem'.ledger = ChargeTo(mem.ledger, at.node, closing.usage, Supervisors)
  BY DEF ApplyPatch, Continue, log, exec, TypeInv, TypeOK, Memories
<1>2. closing.node = at.node
  BY <1>1 DEF Inv, JournalInv, Matches
<1>3. mem.ledger = Spent(journal) /\ closing.note # "crashed"
  BY <1>1, SpendInvParts DEF Counted
<1>4. ChargesInv'
  BY <1>1, SpendInvParts DEF ChargesInv, KillsAreCharged
<1>5. QED
  BY <1>1, <1>2, <1>3, <1>4, SpendInvParts DEF Counted

\* The manifest is written with the spend in memory.
LEMMA PersistsSpend ==
  ASSUME TypeInv, SpendInv, HealPersist \/ PersistRunning \/ EndPersist
  PROVE  SpendInv'
<1>1. /\ UNCHANGED journal /\ man'.spent = mem.ledger.total
      /\ pc \in {"owed", "persist", "ended"}
      /\ (pc' \in {"check", "loop", "end"} /\ mem'.ledger = mem.ledger) \/ Exit
  BY DEF HealPersist, PersistRunning, EndPersist, Persist, Continue, EndRun, log, TypeInv, TypeOK,
         Memories
<1>2. mem.ledger = Spent(journal) /\ ChargesInv
  BY <1>1, SpendInvParts DEF Counted
<1>3. ChargesInv'
  BY <1>1, <1>2 DEF ChargesInv, KillsAreCharged
<1>4. man'.spent <= Spent(journal').total
  BY <1>1, <1>2 DEF TypeInv, Ledgers
<1>5. QED
  BY <1>1, <1>2, <1>3, <1>4, SpendInvParts, ExitKeepsSpend

LEMMA RestSpend ==
  ASSUME Inv, TypeInv, SpendInv,
         \/ HealReap \/ HealOwed \/ NothingToHeal \/ Refuse \/ ResumePaused \/ Proceed
         \/ LoopEnds \/ StartNode \/ TakeSnapshot \/ EndMark \/ Crash \/ Cancel
  PROVE  SpendInv'
<1>1. CASE HealReap \/ NothingToHeal \/ TakeSnapshot
  <2>1. UNCHANGED <<journal, man, mem>> /\ pc \in Counted /\ pc' \in Counted \ {"patch"}
    BY <1>1 DEF HealReap, NothingToHeal, TakeSnapshot, Continue, log, files, Counted
  <2>2. QED
    BY <2>1, MarkersKeepSpend
<1>2. CASE HealOwed \/ ResumePaused \/ Proceed \/ StartNode \/ EndMark
  <2>1. UNCHANGED <<man, mem>> /\ pc \in Counted /\ pc' \in Counted \ {"patch"}
    BY <1>2 DEF HealOwed, ResumePaused, Proceed, StartNode, EndMark, Continue, files, Counted
  <2>2. \/ journal' = journal
        \/ \E e \in RunEvents : journal' = Append(journal, RunMarker(e))
        \/ journal' = Append(journal, NodeStarted(at.node, at.attempt))
    <3>1. CASE HealOwed
      BY <3>1, OwedIsARunEvent DEF HealOwed, AppendRecord
    <3>2. CASE ResumePaused
      BY <3>2 DEF ResumePaused, AppendRecord, RunEvents
    <3>3. CASE Proceed
      BY <3>3 DEF Proceed, AppendRecord, RunEvents, log
    <3>4. CASE StartNode
      BY <3>4 DEF StartNode, AppendRecord
    <3>5. CASE EndMark
      BY <3>5 DEF EndMark, AppendRecord, Inv, JournalInv
    <3>6. QED
      BY <1>2, <3>1, <3>2, <3>3, <3>4, <3>5
  <2>3. /\ \A e \in RunEvents : RunMarker(e).event # "node_finished"
        /\ NodeStarted(at.node, at.attempt).event # "node_finished"
    BY MarkerEvent, Events_Disjoint DEF NodeStarted
  <2>4. \/ journal' = journal
        \/ \E r : r.event # "node_finished" /\ journal' = Append(journal, r)
    BY <2>2, <2>3
  <2>5. QED
    BY <2>1, <2>4, MarkersKeepSpend
<1>3. CASE Refuse \/ Crash
  <2>1. Exit /\ UNCHANGED <<journal, man>>
    BY <1>3 DEF Refuse, Crash, log, files
  <2>2. ChargesInv'
    BY <2>1, SpendInvParts DEF ChargesInv, KillsAreCharged
  <2>3. QED
    BY <2>1, <2>2, SpendInvParts, ExitKeepsSpend
<1>4. CASE LoopEnds \/ Cancel
  <2>1. /\ UNCHANGED <<journal, man>> /\ mem'.ledger = mem.ledger
        /\ \/ pc' = pc /\ closing' = closing
           \/ pc = "loop" /\ pc' = "end"
    BY <1>4 DEF LoopEnds, Cancel, EndRun, log, files, exec, TypeInv, TypeOK, Memories
  <2>2. ChargesInv'
    BY <2>1, SpendInvParts DEF ChargesInv, KillsAreCharged
  <2>3. QED
    BY <2>1, <2>2, SpendInvParts DEF Counted
<1>5. QED
  BY <1>1, <1>2, <1>3, <1>4

LEMMA OthersSpend ==
  ASSUME SpendInv, UNCHANGED <<journal, man, pc, closing, mem>>
  PROVE  SpendInv'
BY DEF SpendInv, KillsAreCharged

LEMMA SpendNext == Inv /\ TypeInv /\ SpendInv /\ [Next]_vars => SpendInv'
<1> SUFFICES ASSUME Inv, TypeInv, SpendInv, [Next]_vars PROVE SpendInv'
  OBVIOUS
<1>1. ASSUME NEW cfg \in Configs, NEW resuming \in BOOLEAN, Open(cfg, resuming) PROVE SpendInv'
  BY <1>1, OpenSpend
<1>2. CASE Advance
  <2>1. CASE NodeReturns
    BY <2>1, SettleSpend DEF NodeReturns, MayReturn
  <2>2. CASE NodeTimesOut
    BY <2>2, SettleSpend DEF NodeTimesOut, MayReturn
  <2>3. QED
    BY <1>2, <2>1, <2>2, RestSpend, HealCloseSpend, ApplyPatchSpend, FinishNodeSpend,
       PersistsSpend DEF Advance
<1>3. CASE SnapshotFails \/ Cancel \/ Crash
  BY <1>3, SnapshotFailsSpend, RestSpend
<1>4. CASE OrphanWrites \/ PersonEdits
  BY <1>4, OthersSpend DEF OrphanWrites, PersonEdits, log, files, exec
<1>5. CASE UNCHANGED vars
  BY <1>5, OthersSpend DEF vars, log, files, exec
<1>6. QED
  BY <1>1, <1>2, <1>3, <1>4, <1>5 DEF Next

-----------------------------------------------------------------------------
(***************************************************************************)
(* The attempts of a visit.                                                *)
(***************************************************************************)
LEMMA ClosedBeforeIs ==
  ASSUME NEW j, NEW i, NEW m \in FinishedAt(j), m < i,
         \A k \in FinishedAt(j) : k < i => k <= m
  PROVE  ClosedBefore(j, i) = m
<1>1. /\ ClosedBefore(j, i) \in FinishedAt(j) /\ ClosedBefore(j, i) < i
      /\ \A k \in FinishedAt(j) : k < i => k <= ClosedBefore(j, i)
  BY DEF ClosedBefore
<1>2. m <= ClosedBefore(j, i) /\ ClosedBefore(j, i) <= m
  BY <1>1
<1>3. m \in Int /\ ClosedBefore(j, i) \in Int
  BY <1>1 DEF FinishedAt
<1>4. QED
  BY <1>2, <1>3

LEMMA ClosedBeforeExists ==
  ASSUME NEW j, IsASequence(j), NEW i, NEW k \in FinishedAt(j), k < i
  PROVE  /\ ClosedBefore(j, i) \in FinishedAt(j) /\ ClosedBefore(j, i) < i
         /\ \A l \in FinishedAt(j) : l < i => l <= ClosedBefore(j, i)
<1> DEFINE S == {l \in FinishedAt(j) : l < i}
<1>1. Len(j) \in Nat /\ S \in SUBSET (1 .. Len(j)) /\ S # {}
  BY AppendFacts DEF FinishedAt
<1>2. PICK m \in S : \A l \in S : l <= m
  BY <1>1, LastOfASet
<1>3. QED
  BY <1>2, ClosedBeforeIs

\* A record at the end changes nothing of what came before an earlier start.
LEMMA AppendKeepsAttempts ==
  ASSUME IsASequence(journal), AttemptsCount, NEW r, journal' = Append(journal, r),
         r.event = "node_started" =>
           LET i == Len(journal) + 1
           IN  IF FinishedAt(journal) = {} \/ ~ Interrupted(journal[LastFinished(journal)])
                 THEN r.attempt = 1
                 ELSE /\ r.node = journal[LastFinished(journal)].node
                      /\ r.attempt = journal[LastFinished(journal)].attempt + 1
  PROVE  AttemptsCount'
<1> DEFINE n == Len(journal)
<1>1. /\ n \in Nat /\ journal'[n + 1] = r /\ Len(journal') = n + 1
      /\ IsASequence(journal') /\ \A i \in 1 .. n : journal'[i] = journal[i]
  BY AppendFacts
<1>2. FinishedAt(journal') = FinishedAt(journal) \cup
        (IF r.event = "node_finished" THEN {n + 1} ELSE {})
  BY AppendFinished
<1>3. FinishedAt(journal) \subseteq 1 .. n
  BY DEF FinishedAt
<1> HIDE DEF n
<1>4. ASSUME NEW i \in StartedAt(journal')
      PROVE  IF \/ \A k \in FinishedAt(journal') : k > i
                \/ ~ Interrupted(journal'[ClosedBefore(journal', i)])
               THEN journal'[i].attempt = 1
               ELSE /\ journal'[i].node = journal'[ClosedBefore(journal', i)].node
                    /\ journal'[i].attempt = journal'[ClosedBefore(journal', i)].attempt + 1
  <2>1. CASE i \in 1 .. n
    <3>1. i \in StartedAt(journal) /\ journal'[i] = journal[i] /\ i \notin FinishedAt(journal)
      BY <2>1, <1>1, <1>4 DEF StartedAt, FinishedAt, n
    <3>2. (\A k \in FinishedAt(journal') : k > i) <=> (\A k \in FinishedAt(journal) : k > i)
      BY <2>1, <1>1, <1>2
    <3>3. ASSUME NEW k \in FinishedAt(journal), ~ (k > i)
          PROVE  /\ ClosedBefore(journal', i) = ClosedBefore(journal, i)
                 /\ journal'[ClosedBefore(journal, i)] = journal[ClosedBefore(journal, i)]
      <4>1. k < i
        BY <2>1, <3>1, <3>3, <1>1, <1>3
      <4> DEFINE m == ClosedBefore(journal, i)
      <4>2. m \in FinishedAt(journal) /\ m < i
            /\ \A l \in FinishedAt(journal) : l < i => l <= m
        BY <4>1, ClosedBeforeExists
      <4> HIDE DEF m
      <4>3. m \in FinishedAt(journal')
            /\ \A l \in FinishedAt(journal') : l < i => l <= m
        BY <2>1, <4>2, <1>1, <1>2
      <4>4. ClosedBefore(journal', i) = m
        BY <4>2, <4>3, ClosedBeforeIs
      <4>5. QED
        BY <4>2, <4>4, <1>1, <1>3 DEF m
    <3>4. QED
      BY <3>1, <3>2, <3>3 DEF AttemptsCount, LastClosedBefore
  <2>2. CASE i = n + 1
    <3>1. r.event = "node_started" /\ FinishedAt(journal') = FinishedAt(journal)
      BY <2>2, <1>1, <1>2, <1>4 DEF StartedAt
    <3>2. (\A k \in FinishedAt(journal') : k > i) <=> FinishedAt(journal) = {}
      BY <2>2, <3>1, <1>1, <1>3
    <3>3. ASSUME FinishedAt(journal) # {}
          PROVE  /\ ClosedBefore(journal', i) = LastFinished(journal)
                 /\ journal'[LastFinished(journal)] = journal[LastFinished(journal)]
      <4> DEFINE m == LastFinished(journal)
      <4>1. m \in FinishedAt(journal) /\ m \in 1 .. n /\ \A k \in FinishedAt(journal) : k <= m
        BY <3>3, LastFinishedIsLast DEF n
      <4> HIDE DEF m
      <4>2. m < i
        BY <4>1, <2>2, <1>1
      <4>3. ClosedBefore(journal', i) = m
        BY <4>1, <4>2, <3>1, ClosedBeforeIs
      <4>4. QED
        BY <4>1, <4>3, <1>1 DEF m
    <3>4. QED
      BY <2>2, <3>1, <3>2, <3>3, <1>1 DEF n
  <2>3. i \in 1 .. n \/ i = n + 1
    BY <1>1 DEF StartedAt
  <2>4. QED
    BY <2>1, <2>2, <2>3
<1>5. QED
  BY <1>4 DEF AttemptsCount, LastClosedBefore

LEMMA StartNodeAttempts ==
  ASSUME Inv, CtlInv, AttemptsCount, StartNode
  PROVE  AttemptsCount'
<1> DEFINE r == NodeStarted(at.node, at.attempt)
           m == journal[LastFinished(journal)]
<1>1. /\ IsASequence(journal) /\ ~ IsOpen(journal) /\ journal' = Append(journal, r)
      /\ at.node = StartOf(journal).node /\ at.attempt = StartOf(journal).attempt
  BY DEF StartNode, AppendRecord, Inv, ControlInv, JournalInv, Between, CtlInv, PlaceInv
<1>2. r.node = at.node /\ r.attempt = at.attempt
  BY DEF NodeStarted
<1>3. CASE FinishedAt(journal) = {}
  <2>1. StartOf(journal).attempt = 1
    BY <1>1, <1>3 DEF StartOf, ResolveStart, Start
  <2> HIDE DEF r
  <2>2. QED
    BY <1>1, <1>2, <1>3, <2>1, AppendKeepsAttempts
<1>4. CASE FinishedAt(journal) # {}
  <2>1. StartedANode(journal)
    BY <1>1, <1>4, StartedIsStarted
  <2>2. StartOf(journal) = ResolveStart(journal)
    BY <2>1 DEF StartOf
  <2>3. /\ ResolveStart(journal).node = m.next
        /\ ResolveStart(journal).attempt = IF Interrupted(m) THEN m.attempt + 1 ELSE 1
    BY <1>1, <1>4 DEF ResolveStart, Start
  <2>4. Interrupted(m) => m.next = m.node
    BY DEF Interrupted
  <2> HIDE DEF r, m
  <2>5. IF ~ Interrupted(m) THEN r.attempt = 1
        ELSE r.node = m.node /\ r.attempt = m.attempt + 1
    BY <1>1, <1>2, <2>2, <2>3, <2>4
  <2>6. QED
    BY <1>1, <1>4, <2>5, AppendKeepsAttempts DEF m
<1>5. QED
  BY <1>3, <1>4

LEMMA InitAttempts == Init => AttemptsCount
<1> SUFFICES ASSUME Init PROVE AttemptsCount
  OBVIOUS
<1>1. StartedAt(journal) = {}
  BY DEF Init, StartedAt
<1>2. QED
  BY <1>1 DEF AttemptsCount

\* A step appends nothing, one record that starts no node, or starts one.
LEMMA StepsOfTheJournal ==
  ASSUME Inv, [Next]_vars
  PROVE  \/ journal' = journal
         \/ \E r : r.event # "node_started" /\ journal' = Append(journal, r)
         \/ StartNode
<1>1. CASE HealClose \/ SnapshotFails
  BY <1>1 DEF HealClose, SnapshotFails, AppendRecord, InterruptedAttempt, NodeFinished
<1>2. CASE FinishNode
  BY <1>2 DEF FinishNode, AppendRecord, Inv, JournalInv, Matches
<1>3. CASE HealOwed \/ ResumePaused \/ Proceed \/ EndMark
  <2>1. \/ journal' = journal
        \/ \E e \in RunEvents : journal' = Append(journal, RunMarker(e))
    <3>1. CASE HealOwed
      BY <3>1, OwedIsARunEvent DEF HealOwed, AppendRecord
    <3>2. CASE ResumePaused
      BY <3>2 DEF ResumePaused, AppendRecord, RunEvents
    <3>3. CASE Proceed
      BY <3>3 DEF Proceed, AppendRecord, RunEvents, log
    <3>4. CASE EndMark
      BY <3>4 DEF EndMark, AppendRecord, Inv, JournalInv
    <3>5. QED
      BY <1>3, <3>1, <3>2, <3>3, <3>4
  <2>2. \A e \in RunEvents : RunMarker(e).event # "node_started"
    BY MarkerEvent, Events_Disjoint
  <2>3. QED
    BY <2>1, <2>2
<1>4. CASE \/ HealReap \/ HealPersist \/ NothingToHeal \/ Refuse \/ LoopEnds \/ TakeSnapshot
           \/ NodeReturns \/ NodeTimesOut \/ ApplyPatch \/ PersistRunning \/ EndPersist
  BY <1>4 DEF HealReap, HealPersist, NothingToHeal, Refuse, LoopEnds, TakeSnapshot, NodeReturns,
     NodeTimesOut, Settle, ApplyPatch, PersistRunning, EndPersist, log
<1>5. CASE \/ \E cfg \in Configs, resuming \in BOOLEAN : Open(cfg, resuming)
           \/ Cancel \/ Crash \/ OrphanWrites \/ PersonEdits \/ UNCHANGED vars
  BY <1>5 DEF Open, Cancel, Crash, OrphanWrites, PersonEdits, vars, log
<1>6. QED
  BY <1>1, <1>2, <1>3, <1>4, <1>5 DEF Next, Advance

LEMMA AttemptsNext == Inv /\ CtlInv /\ AttemptsCount /\ [Next]_vars => AttemptsCount'
<1> SUFFICES ASSUME Inv, CtlInv, AttemptsCount, [Next]_vars PROVE AttemptsCount'
  OBVIOUS
<1>1. IsASequence(journal)
  BY DEF Inv, ControlInv
<1>2. CASE journal' = journal
  BY <1>2 DEF AttemptsCount, LastClosedBefore
<1>3. ASSUME NEW r, r.event # "node_started", journal' = Append(journal, r)
      PROVE  AttemptsCount'
  BY <1>1, <1>3, AppendKeepsAttempts
<1>4. QED
  BY <1>2, <1>3, StepsOfTheJournal, StartNodeAttempts

-----------------------------------------------------------------------------
(***************************************************************************)
(* The result in hand.                                                     *)
(***************************************************************************)
HandInv == ResultInv /\ RefusalInv

LEMMA RefusalsAreFailures ==
  ASSUME NEW r, NEW why, why # "accepted"
  PROVE  ClosingRecord(r, why).status \in {"failed", "aborted"}
<1> DEFINE u == IF why \in {"timeout", "canceled"}
                  THEN cutShortCharge(mem.ledger, at.node, Reported(r))
                  ELSE Reported(r)
<1> HIDE DEF u
<1>1. CASE RunsAgain(why)
  <2>1. ClosingRecord(r, why) = NodeFinished(at.node, at.attempt, "aborted", at.node, u, why)
    BY <1>1, Zenon DEF ClosingRecord, InterruptedAttempt, u
  <2>2. QED
    BY <2>1 DEF NodeFinished
<1>2. CASE ~ RunsAgain(why)
  <2>1. ClosingRecord(r, why) = NodeFinished(at.node, at.attempt,
                                  IF why = "canceled" THEN "aborted" ELSE "failed",
                                  NoNode, u, why)
    BY <1>2, Zenon DEF ClosingRecord, u
  <2>2. QED
    BY <2>1 DEF NodeFinished
<1>3. QED
  BY <1>1, <1>2

LEMMA AcceptedRecord ==
  ASSUME NEW r
  PROVE  /\ ClosingRecord(r, "accepted").status = r.status
         /\ ClosingRecord(r, "accepted").next = ResumePointer(r)
<1> ~ RunsAgain("accepted")
  BY DEF RunsAgain
<1>1. \E u : ClosingRecord(r, "accepted") =
                NodeFinished(at.node, at.attempt, r.status, ResumePointer(r), u, "accepted")
  BY Zenon DEF ClosingRecord
<1>2. QED
  BY <1>1 DEF NodeFinished

LEMMA SettleHand ==
  ASSUME TypeInv, pc = "run", NEW timedOut,
         NEW r \in NodeResults(at.node, view, world) \cup {Silent}, Settle(r, timedOut)
  PROVE  HandInv'
<1> DEFINE why == Verdict(r, timedOut)
           c == ClosingRecord(r, why)
<1>1. /\ closing' = c /\ UNCHANGED <<at, view>>
      /\ why = "accepted" => patch' = r.patch
      /\ pc' = IF why = "accepted" THEN "patch" ELSE "finish"
  BY DEF Settle, Continue
<1>2. c.note = why
  BY ClosingMatches
<1>3. why # "accepted" => c.status \in {"failed", "aborted"}
  BY RefusalsAreFailures
<1>4. RefusalInv'
  BY <1>1, <1>2, <1>3 DEF RefusalInv
<1>5. ASSUME why = "accepted" PROVE ResultInv'
  <2>1. ValidResult(r) /\ r.err \notin {"limit", "error"}
    BY <1>5, AcceptedIsValid
  <2>2. r \in Results
    BY ResultIsTyped
  <2>3. r.err = "none" /\ r # Silent
    BY <2>1, <2>2 DEF Results, Silent
  <2>4. Acceptable(r) /\ r \in NodeResults(at.node, view, world) /\ world \in Worlds
    BY <2>1, <2>3 DEF Acceptable, TypeInv, TypeOK
  <2>5. c.status = r.status /\ c.next = ResumePointer(r)
    BY <1>5, AcceptedRecord
  <2>6. ResumePointer(r)' = ResumePointer(r)
    BY <1>1 DEF ResumePointer
  <2> HIDE DEF c, why
  <2>7. QED
    BY <1>1, <1>5, <2>4, <2>5, <2>6 DEF ResultInv
<1> HIDE DEF c, why
<1>6. QED
  BY <1>1, <1>2, <1>4, <1>5 DEF HandInv, ResultInv

LEMMA HandKept ==
  ASSUME HandInv, \/ pc' \notin {"patch", "finish"}
                  \/ /\ UNCHANGED <<at, view, closing, patch>>
                     /\ pc \in {"patch", "finish"} /\ pc' \in {pc, "finish"}
  PROVE  HandInv'
<1>1. CASE pc' \notin {"patch", "finish"}
  BY <1>1 DEF HandInv, ResultInv, RefusalInv
<1>2. CASE UNCHANGED <<at, view, closing, patch>> /\ pc \in {"patch", "finish"}
           /\ pc' \in {pc, "finish"}
  <2>1. \A r : ResumePointer(r)' = ResumePointer(r)
    BY <1>2 DEF ResumePointer
  <2>2. QED
    BY <1>2, <2>1 DEF HandInv, ResultInv, RefusalInv
<1>3. QED
  BY <1>1, <1>2

LEMMA HandNext == TypeInv /\ HandInv /\ [Next]_vars => HandInv'
<1> SUFFICES ASSUME TypeInv, HandInv, [Next]_vars PROVE HandInv'
  OBVIOUS
<1>1. CASE NodeReturns
  BY <1>1, SettleHand DEF NodeReturns, MayReturn
<1>2. CASE NodeTimesOut
  BY <1>2, SettleHand DEF NodeTimesOut, MayReturn
<1>3. CASE ApplyPatch \/ Cancel \/ OrphanWrites \/ PersonEdits \/ UNCHANGED vars
  <2>1. \/ pc' = pc /\ UNCHANGED <<at, view, closing, patch>>
        \/ pc = "patch" /\ pc' = "finish" /\ UNCHANGED <<at, view, closing, patch>>
    BY <1>3 DEF ApplyPatch, Cancel, OrphanWrites, PersonEdits, vars, exec, Continue
  <2>2. QED
    BY <2>1, HandKept
<1>4. CASE \/ \E cfg \in Configs, resuming \in BOOLEAN : Open(cfg, resuming)
           \/ HealReap \/ HealClose \/ HealOwed \/ HealPersist \/ NothingToHeal
           \/ Refuse \/ ResumePaused \/ Proceed \/ LoopEnds \/ StartNode \/ TakeSnapshot
           \/ FinishNode \/ PersistRunning \/ EndMark \/ EndPersist
           \/ SnapshotFails \/ Crash
  <2>1. pc' \notin {"patch", "finish"}
    BY <1>4 DEF Open, HealReap, HealClose, HealOwed, HealPersist, NothingToHeal, Refuse,
       ResumePaused, Proceed, LoopEnds, StartNode, TakeSnapshot, FinishNode, PersistRunning,
       EndMark, EndPersist, SnapshotFails, Crash, Continue, EndRun, Exit
  <2>2. QED
    BY <2>1, HandKept
<1>5. QED
  BY <1>1, <1>2, <1>3, <1>4 DEF Next, Advance

-----------------------------------------------------------------------------
(***************************************************************************)
(* The blackboard, for nodes whose results supersede each other.           *)
(***************************************************************************)
\* Between two attempts of a visit.
VisitBoard(node, attempt, key) ==
  node \in Nodes =>
    /\ attempt = 1 => board = committed
    /\ attempt > 1 => IF key \in DOMAIN snaps THEN snaps[key] = committed ELSE board = committed
    /\ \A f \in Fields : board[f] # committed[f] => MayChange(node, committed, f)

HandBoard ==
  pc = "finish" /\ closing.note = "accepted" /\ closing.status \in {"ok", "paused"} =>
    board = Patched(committed, patch)

LEMMA BoardInvParts ==
  /\ BoardInv <=> VisitBoard(StartOf(journal).node, StartOf(journal).attempt, Key) /\ HandBoard
  /\ BoardInv' <=> VisitBoard(StartOf(journal).node, StartOf(journal).attempt, Key)' /\ HandBoard'
BY DEF BoardInv, VisitBoard, HandBoard

\* In hand, the node has been given the run's blackboard.
LEMMA GivenTheBoard ==
  ASSUME Inv, TypeInv, CtlInv, BoardInv, pc \in {"run", "patch", "finish"}
  PROVE  /\ view = committed /\ at.node \in Nodes
         /\ StartOf(journal).node = at.node /\ StartOf(journal).attempt > 1
         /\ Key \in DOMAIN snaps /\ snaps[Key] = committed
<1>1. /\ IsASequence(journal) /\ IsOpen(journal) /\ Last(journal).node = at.node
      /\ at.node \in Nodes
  BY DEF Inv, ControlInv, JournalInv, Inside, TypeInv
<1>2. StartOf(journal).node = at.node /\ StartOf(journal).attempt > 1
  BY <1>1, OpenPlace DEF CtlInv, VisitInv, Start
<1>3. Key \in DOMAIN snaps /\ view = snaps[Key]
  BY DEF CtlInv, VisitInv
<1>4. QED
  BY <1>1, <1>2, <1>3, BoardInvParts DEF VisitBoard

\* A step that keeps the place of the run and the files keeps its blackboard.
LEMMA PlaceKeepsBoard ==
  ASSUME BoardInv, UNCHANGED <<board, snaps, committed>>,
         StartOf(journal').node = StartOf(journal).node,
         StartOf(journal').attempt = StartOf(journal).attempt,
         AttemptOneSeq(journal', StartOf(journal).node) = AttemptOneSeq(journal, StartOf(journal).node),
         \/ pc' # "finish"
         \/ UNCHANGED <<pc, closing, patch>>
         \/ closing'.note # "accepted"
  PROVE  BoardInv'
<1>1. Key' = Key
  BY DEF Key
<1>2. VisitBoard(StartOf(journal).node, StartOf(journal).attempt, Key)'
  BY <1>1, BoardInvParts DEF VisitBoard
<1>3. HandBoard'
  BY BoardInvParts DEF HandBoard
<1>4. QED
  BY <1>2, <1>3, BoardInvParts

LEMMA InterruptedBoard ==
  ASSUME Inv, BoardInv, NEW r, r.event = "node_finished", Interrupted(r), IsOpen(journal),
         r.node = Last(journal).node, r.attempt = Last(journal).attempt,
         journal' = Append(journal, r), pc' # "finish", UNCHANGED <<board, snaps, committed>>
  PROVE  BoardInv'
<1>1. IsASequence(journal)
  BY DEF Inv, ControlInv
<1>2. StartOf(journal') = StartOf(journal)
      /\ \A n : AttemptOneSeq(journal', n) = AttemptOneSeq(journal, n)
  BY <1>1, InterruptedKeepsPlace
<1>3. QED
  BY <1>2, PlaceKeepsBoard

LEMMA MarkersKeepBoard ==
  ASSUME Inv, BoardInv, HealOwed \/ ResumePaused \/ Proceed \/ EndMark
  PROVE  BoardInv'
<1>1. /\ UNCHANGED <<board, snaps, committed>> /\ pc' # "finish"
      /\ \/ journal' = journal
         \/ \E e \in RunEvents : journal' = Append(journal, RunMarker(e))
  <2>1. CASE HealOwed
    BY <2>1, OwedIsARunEvent DEF HealOwed, AppendRecord, Continue, files
  <2>2. CASE ResumePaused
    BY <2>2 DEF ResumePaused, AppendRecord, RunEvents, Continue, files
  <2>3. CASE Proceed
    BY <2>3 DEF Proceed, AppendRecord, RunEvents, Continue, files, log
  <2>4. CASE EndMark
    BY <2>4 DEF EndMark, AppendRecord, Continue, files, Inv, JournalInv
  <2>5. QED
    BY <2>1, <2>2, <2>3, <2>4
<1>2. CASE journal' = journal
  BY <1>1, <1>2, PlaceKeepsBoard
<1>3. ASSUME NEW e \in RunEvents, journal' = Append(journal, RunMarker(e)) PROVE BoardInv'
  <2>1. IsASequence(journal) /\ ~ IsOpen(journal)
    BY DEF Inv, ControlInv, JournalInv, Between, HealOwed, Owes, IsOpen, Last, ResumePaused,
           Proceed, EndMark
  <2>2. /\ StartOf(journal') = Start(RunStateOf(e), StartOf(journal).node, StartOf(journal).attempt)
        /\ \A n : AttemptOneSeq(journal', n) = AttemptOneSeq(journal, n)
    BY <1>3, <2>1, MarkerKeepsPlace
  <2>3. /\ StartOf(journal').node = StartOf(journal).node
        /\ StartOf(journal').attempt = StartOf(journal).attempt
    BY <2>2 DEF Start
  <2>4. QED
    BY <1>1, <2>2, <2>3, PlaceKeepsBoard
<1>4. QED
  BY <1>1, <1>2, <1>3

LEMMA StartNodeBoard == ASSUME Inv, TypeInv, CtlInv, BoardInv, StartNode PROVE BoardInv'
<1> DEFINE r == NodeStarted(at.node, at.attempt)
           n == StartOf(journal).node
           a == StartOf(journal).attempt
<1>1. /\ IsASequence(journal) /\ journal' = Append(journal, r) /\ pc' = "snapshot"
      /\ UNCHANGED <<board, snaps, committed>>
      /\ at.node = n /\ at.attempt = a /\ n \in Nodes
  BY StartedIsKnown DEF StartNode, AppendRecord, Continue, files, Inv, ControlInv, CtlInv, PlaceInv
<1>2. StartOf(journal') = Start("runnable", n, a + 1)
  BY <1>1, AfterStarted
<1>3. a \in Nat /\ a >= 1 /\ Len(journal) \in Nat /\ DOMAIN snaps \subseteq 1 .. Len(journal)
  BY <1>1, PlaceIsTyped DEF TypeInv, TypeOK, Places, CtlInv, VisitInv
<1>4. StartOf(journal').node = n /\ StartOf(journal').attempt = a + 1 /\ a + 1 > 1 /\ a + 1 # 1
  BY <1>2, <1>3 DEF Start
<1>5. r.event = "node_started" /\ r.node = n /\ r.attempt = a
  BY <1>1 DEF NodeStarted
<1> HIDE DEF r
<1>6. AttemptOneSeq(journal', n) = IF a = 1 THEN Len(journal) + 1 ELSE AttemptOneSeq(journal, n)
  BY <1>1, <1>5, AppendAttemptOneSeq
<1>7. VisitBoard(n, a, Key)
  BY BoardInvParts
<1>8. Key' = IF a = 1 THEN Len(journal) + 1 ELSE Key
  BY <1>4, <1>6 DEF Key
<1>9. Len(journal) + 1 \notin DOMAIN snaps
  BY <1>3
<1> HIDE DEF n, a
<1>10. IF Key' \in DOMAIN snaps THEN snaps[Key'] = committed ELSE board = committed
  BY <1>1, <1>3, <1>7, <1>8, <1>9 DEF VisitBoard
<1>11. \A f \in Fields : board[f] # committed[f] => MayChange(n, committed, f)
  BY <1>1, <1>7 DEF VisitBoard
<1>12. VisitBoard(StartOf(journal).node, StartOf(journal).attempt, Key)'
  BY <1>1, <1>4, <1>10, <1>11 DEF VisitBoard
<1>13. HandBoard'
  BY <1>1 DEF HandBoard
<1>14. QED
  BY <1>12, <1>13, BoardInvParts

LEMMA TakeSnapshotBoard ==
  ASSUME Inv, TypeInv, CtlInv, BoardInv, TakeSnapshot PROVE BoardInv'
<1>1. /\ pc = "snapshot" /\ pc' = "run" /\ UNCHANGED <<journal, board, committed>>
      /\ snaps' = [k \in DOMAIN snaps \cup {SnapshotKey} |->
                     IF k \in DOMAIN snaps THEN snaps[k] ELSE board]
  BY DEF TakeSnapshot, Continue, log
<1>2. SnapshotKey = Key /\ Key' = Key
  BY <1>1 DEF CtlInv, VisitInv, Inside, Key
<1>3. /\ IsASequence(journal) /\ IsOpen(journal)
      /\ StartOf(journal).attempt \in Nat
  BY <1>1, PlaceIsTyped DEF Inv, ControlInv, JournalInv, Inside, TypeInv, TypeOK, Places
<1>4. StartOf(journal).attempt > 1 /\ StartOf(journal).attempt # 1
  BY <1>3 DEF CtlInv, VisitInv
<1>5. VisitBoard(StartOf(journal).node, StartOf(journal).attempt, Key)
  BY BoardInvParts
<1>6. Key \in DOMAIN snaps' /\ snaps'[Key] = IF Key \in DOMAIN snaps THEN snaps[Key] ELSE board
  BY <1>1, <1>2
<1>7. VisitBoard(StartOf(journal).node, StartOf(journal).attempt, Key)'
  BY <1>1, <1>2, <1>4, <1>5, <1>6 DEF VisitBoard
<1>8. HandBoard'
  BY <1>1 DEF HandBoard
<1>9. QED
  BY <1>7, <1>8, BoardInvParts

\* What the patch being applied leaves differing from the committed
\* blackboard is what a result of this visit may have changed; and nothing
\* is left that the run will not commit, if it goes on from this result.
LEMMA ApplyPatchBoard ==
  ASSUME ResultsSupersede, Inv, TypeInv, CtlInv, HandInv, BoardInv, ApplyPatch
  PROVE  BoardInv'
<1>1. /\ pc = "patch" /\ board' = Patched(board, patch)
      /\ UNCHANGED <<journal, snaps, committed, closing, patch>>
  BY DEF ApplyPatch, Continue, log, exec
<1>2. /\ view = committed /\ at.node \in Nodes /\ StartOf(journal).node = at.node
      /\ StartOf(journal).attempt > 1 /\ Key \in DOMAIN snaps /\ snaps[Key] = committed
  BY <1>1, GivenTheBoard
<1>3. StartOf(journal).attempt # 1
  <2>1. StartOf(journal).attempt \in Nat
    BY PlaceIsTyped DEF TypeInv, TypeOK, Places
  <2>2. QED
    BY <1>2, <2>1
<1>4. \A f \in Fields : board[f] # committed[f] => MayChange(at.node, committed, f)
  BY <1>2, BoardInvParts DEF VisitBoard
<1>5. /\ board \in Boards /\ committed \in Boards
      /\ \A f \in Fields : Patched(board, patch)[f] = IF f \in DOMAIN patch THEN patch[f] ELSE board[f]
  BY DEF TypeInv, TypeOK, Patched
<1>6. CASE closing.note = "accepted"
  <2>1. PICK w \in Worlds : \E r \in NodeResults(at.node, committed, w) :
          Acceptable(r) /\ patch = r.patch /\ closing.status = r.status
    BY <1>1, <1>2, <1>6 DEF HandInv, ResultInv
  <2>2. PICK r \in NodeResults(at.node, committed, w) :
          Acceptable(r) /\ patch = r.patch /\ closing.status = r.status
    BY <2>1
  <2>3. ASSUME NEW f \in Fields, board'[f] # committed[f]
        PROVE  MayChange(at.node, committed, f)
    <3>1. CASE f \in DOMAIN patch
      <4>1. r.patch[f] # committed[f] /\ f \in DOMAIN r.patch
        BY <3>1, <2>2, <2>3, <1>1, <1>5
      <4>2. f \in Changed(committed, r)
        BY <4>1 DEF Changed
      <4>3. QED
        BY <2>2, <4>2 DEF MayChange
    <3>2. CASE f \notin DOMAIN patch
      BY <3>2, <2>3, <1>1, <1>4, <1>5
    <3>3. QED
      BY <3>1, <3>2
  <2>4. ASSUME closing.status \in {"ok", "paused"}
        PROVE  board' = Patched(committed, patch)
    <3>1. RunsOn(r)
      BY <2>2, <2>4 DEF RunsOn, Acceptable
    <3>2. ASSUME NEW f \in Fields, f \notin DOMAIN patch PROVE board[f] = committed[f]
      <4>1. SUFFICES ASSUME board[f] # committed[f] PROVE FALSE
        OBVIOUS
      <4>2. PICK w1 \in Worlds : \E r1 \in NodeResults(at.node, committed, w1) :
              Acceptable(r1) /\ f \in Changed(committed, r1)
        BY <4>1, <1>4 DEF MayChange
      <4>3. PICK r1 \in NodeResults(at.node, committed, w1) :
              Acceptable(r1) /\ f \in Changed(committed, r1)
        BY <4>2
      <4>4. Changed(committed, r1) \subseteq DOMAIN r.patch
        BY <1>2, <1>5, <2>2, <3>1, <4>3 DEF ResultsSupersede, Acceptable
      <4>5. QED
        BY <2>2, <3>2, <4>3, <4>4
    <3>3. \A f \in Fields : (IF f \in DOMAIN patch THEN patch[f] ELSE board[f]) =
                            (IF f \in DOMAIN patch THEN patch[f] ELSE committed[f])
      BY <3>2
    <3>4. QED
      BY <1>1, <3>3 DEF Patched
  <2>5. VisitBoard(StartOf(journal).node, StartOf(journal).attempt, Key)'
    <3>1. Key' = Key
      BY <1>1 DEF Key
    <3>2. QED
      BY <1>1, <1>2, <1>3, <2>3, <3>1 DEF VisitBoard
  <2>6. HandBoard'
    BY <1>1, <2>4 DEF HandBoard
  <2>7. QED
    BY <2>5, <2>6, BoardInvParts
<1>7. QED
  BY <1>1, <1>6 DEF HandInv, RefusalInv

LEMMA FinishNodeBoard ==
  ASSUME Inv, TypeInv, CtlInv, HandInv, BoardInv, FinishNode
  PROVE  BoardInv'
<1>1. /\ pc = "finish" /\ pc' \in {"persist", "end"} /\ journal' = Append(journal, closing)
      /\ UNCHANGED <<board, snaps, closing>>
      /\ committed' = IF closing.note = "accepted" THEN Patched(committed, patch) ELSE committed
  BY DEF FinishNode, AppendRecord, Continue, EndRun, files, exec
<1>2. /\ IsASequence(journal) /\ IsOpen(journal) /\ closing.event = "node_finished"
      /\ closing.node = Last(journal).node /\ closing.attempt = Last(journal).attempt
      /\ closing.node = at.node /\ ClosingShape(closing)
  BY <1>1 DEF Inv, ControlInv, JournalInv, Inside, Matches, CtlInv, PlaceInv
<1>3. /\ StartOf(journal').node = closing.next
      /\ StartOf(journal').attempt = IF Interrupted(closing) THEN closing.attempt + 1 ELSE 1
  <2>1. StartOf(journal') = Start("runnable", closing.next,
                                  IF Interrupted(closing) THEN closing.attempt + 1 ELSE 1)
    BY <1>1, <1>2, AfterFinished
  <2>2. QED
    BY <2>1 DEF Start
<1>4. HandBoard'
  BY <1>1 DEF HandBoard
<1>5. NoNode \notin Nodes
  BY NamesAssumption, DispatcherAssumption
<1>6. CASE closing.note = "accepted" /\ closing.status \in {"ok", "paused"}
  <2>1. board' = committed'
    BY <1>1, <1>6, BoardInvParts DEF HandBoard
  <2>2. StartOf(journal').attempt = 1
    BY <1>3, <1>6 DEF Interrupted
  <2>3. VisitBoard(StartOf(journal).node, StartOf(journal).attempt, Key)'
    BY <2>1, <2>2 DEF VisitBoard
  <2>4. QED
    BY <1>4, <2>3, BoardInvParts
<1>7. CASE closing.note = "accepted" /\ closing.status \notin {"ok", "paused"}
  <2>1. closing.next = NoNode
    BY <1>1, <1>7 DEF HandInv, ResultInv, ResumePointer
  <2>2. StartOf(journal').node \notin Nodes
    BY <1>3, <1>5, <2>1
  <2>3. QED
    BY <1>4, <2>2, BoardInvParts DEF VisitBoard
<1>8. CASE closing.note # "accepted" /\ Interrupted(closing)
  BY <1>1, <1>2, <1>8, InterruptedBoard
<1>9. CASE closing.note # "accepted" /\ ~ Interrupted(closing)
  <2>1. closing.status \in {"failed", "aborted"}
    BY <1>1, <1>9 DEF HandInv, RefusalInv
  <2>2. closing.next = NoNode
    BY <1>2, <1>9, <2>1 DEF ClosingShape, Interrupted
  <2>3. StartOf(journal').node \notin Nodes
    BY <1>3, <1>5, <2>2
  <2>4. QED
    BY <1>4, <2>3, BoardInvParts DEF VisitBoard
<1>10. QED
  BY <1>6, <1>7, <1>8, <1>9

LEMMA RestBoard ==
  ASSUME Inv, BoardInv,
         \/ \E cfg \in Configs, resuming \in BOOLEAN : Open(cfg, resuming)
         \/ HealReap \/ HealPersist \/ NothingToHeal \/ Refuse \/ LoopEnds \/ PersistRunning
         \/ EndPersist \/ Crash \/ Cancel \/ OrphanWrites \/ PersonEdits \/ UNCHANGED vars
  PROVE  BoardInv'
<1>1. /\ UNCHANGED <<journal, board, snaps, committed>>
      /\ pc' # "finish" \/ UNCHANGED <<pc, closing, patch>>
  BY DEF Open, HealReap, HealPersist, NothingToHeal, Refuse, LoopEnds, PersistRunning, EndPersist,
     Crash, Cancel, OrphanWrites, PersonEdits, vars, Continue, EndRun, Exit, log, files, exec
<1>2. QED
  BY <1>1, PlaceKeepsBoard

LEMMA SettleBoard ==
  ASSUME BoardInv, pc = "run", NEW r, NEW timedOut, Settle(r, timedOut) PROVE BoardInv'
<1>1. /\ UNCHANGED <<journal, board, snaps, committed>>
      /\ closing' = ClosingRecord(r, Verdict(r, timedOut))
      /\ pc' = "finish" => Verdict(r, timedOut) # "accepted"
  BY DEF Settle, Continue, log, files
<1>2. pc' = "finish" => closing'.note # "accepted"
  BY <1>1, ClosingMatches
<1>3. QED
  BY <1>1, <1>2, PlaceKeepsBoard

LEMMA InterruptionsKeepBoard ==
  ASSUME Inv, TypeInv, BoardInv, HealClose \/ SnapshotFails PROVE BoardInv'
<1>1. /\ IsOpen(journal) /\ UNCHANGED <<board, snaps, committed>> /\ pc' # "finish"
      /\ \E u, why : journal' = Append(journal,
           InterruptedAttempt(Last(journal).node, Last(journal).attempt, u, why))
  BY DEF HealClose, SnapshotFails, AppendRecord, Continue, Exit, files, Inv, JournalInv, Inside
<1>2. Last(journal).node # NoNode
  BY <1>1, NamesAssumption, DispatcherAssumption DEF TypeInv
<1>3. QED
  BY <1>1, <1>2, InterruptedBoard DEF InterruptedAttempt, NodeFinished, Interrupted

LEMMA InitBoard == Init => BoardInv
<1> SUFFICES ASSUME Init PROVE BoardInv
  OBVIOUS
<1>1. board = committed /\ snaps = <<>> /\ pc = "down"
  BY DEF Init
<1>2. DOMAIN snaps = {}
  BY <1>1
<1>3. VisitBoard(StartOf(journal).node, StartOf(journal).attempt, Key)
  BY <1>1, <1>2 DEF VisitBoard
<1>4. QED
  BY <1>1, <1>3, BoardInvParts DEF HandBoard

LEMMA BoardNext ==
  ASSUME ResultsSupersede
  PROVE  Inv /\ TypeInv /\ CtlInv /\ HandInv /\ BoardInv /\ [Next]_vars => BoardInv'
<1> SUFFICES ASSUME Inv, TypeInv, CtlInv, HandInv, BoardInv, [Next]_vars PROVE BoardInv'
  OBVIOUS
<1>1. CASE NodeReturns
  BY <1>1, SettleBoard DEF NodeReturns, MayReturn
<1>2. CASE NodeTimesOut
  BY <1>2, SettleBoard DEF NodeTimesOut, MayReturn
<1>3. CASE HealClose \/ SnapshotFails
  BY <1>3, InterruptionsKeepBoard
<1>4. CASE HealOwed \/ ResumePaused \/ Proceed \/ EndMark
  BY <1>4, MarkersKeepBoard
<1>5. CASE StartNode \/ TakeSnapshot \/ ApplyPatch \/ FinishNode
  BY <1>5, StartNodeBoard, TakeSnapshotBoard, ApplyPatchBoard, FinishNodeBoard
<1>6. CASE \/ \E cfg \in Configs, resuming \in BOOLEAN : Open(cfg, resuming)
           \/ HealReap \/ HealPersist \/ NothingToHeal \/ Refuse \/ LoopEnds \/ PersistRunning
           \/ EndPersist \/ Crash \/ Cancel \/ OrphanWrites \/ PersonEdits \/ UNCHANGED vars
  BY <1>6, RestBoard
<1>7. QED
  BY <1>1, <1>2, <1>3, <1>4, <1>5, <1>6 DEF Next, Advance

-----------------------------------------------------------------------------
(***************************************************************************)
(* What one step does to the run the journal records: to its place, its    *)
(* state, and what it has committed.                                       *)
(***************************************************************************)
RunStutters == /\ StartOf(journal').node = StartOf(journal).node
               /\ StateOf(journal') = StateOf(journal)
               /\ UNCHANGED committed

Resumes == /\ mem.resuming /\ StateOf(journal) = "paused" /\ StateOf(journal') = "runnable"
           /\ StartOf(journal').node = StartOf(journal).node
           /\ UNCHANGED committed

TakesResult ==
  /\ StateOf(journal) = "runnable"
  /\ pc = "finish" /\ at.node = StartOf(journal).node
  /\ \E w \in Worlds : \E r \in NodeResults(at.node, view, w) :
       /\ r.err = "none" /\ r.status # NoStatus
       /\ committed' = Patched(committed, r.patch)
       /\ \/ /\ r.status = "ok" /\ r.next # NoNode
             /\ StartOf(journal').node = r.next /\ StateOf(journal') = "runnable"
          \/ /\ r.status = "paused"
             /\ StartOf(journal').node = at.node /\ StateOf(journal') = "paused"
          \/ /\ r.status \notin {"ok", "paused"}
             /\ StartOf(journal').node = NoNode /\ StateOf(journal') = r.status

LosesRun == /\ StateOf(journal) = "runnable" /\ StateOf(journal') \in {"failed", "aborted"}
            /\ StartOf(journal').node \in {StartOf(journal).node, NoNode}
            /\ UNCHANGED committed

MarksEnd == /\ StateOf(journal) = "runnable"
            /\ \/ StateOf(journal') = "paused"
               \/ StateOf(journal') = "completed" /\ StartOf(journal).node = End
            /\ StartOf(journal').node = StartOf(journal).node
            /\ UNCHANGED committed

RunStep == RunStutters \/ Resumes \/ TakesResult \/ LosesRun \/ MarksEnd

LEMMA InterruptionsStutter ==
  ASSUME Inv, TypeInv, HealClose \/ SnapshotFails PROVE RunStutters
<1>1. /\ IsASequence(journal) /\ IsOpen(journal) /\ UNCHANGED committed
      /\ \E u, why : journal' = Append(journal,
           InterruptedAttempt(Last(journal).node, Last(journal).attempt, u, why))
  BY DEF HealClose, SnapshotFails, AppendRecord, Inv, ControlInv, JournalInv, Inside
<1>2. Last(journal).node # NoNode
  BY <1>1, NamesAssumption, DispatcherAssumption DEF TypeInv
<1>3. PICK r : /\ journal' = Append(journal, r) /\ r.event = "node_finished" /\ Interrupted(r)
               /\ r.node = Last(journal).node /\ r.attempt = Last(journal).attempt
  BY <1>1, <1>2 DEF InterruptedAttempt, NodeFinished, Interrupted
<1>4. QED
  BY <1>1, <1>3, InterruptedKeepsPlace DEF RunStutters

LEMMA HealOwedStutters == ASSUME Inv, HealOwed PROVE RunStutters
<1> DEFINE e == OwedRunMarker(Last(journal))
<1>1. /\ IsASequence(journal) /\ ~ IsOpen(journal) /\ journal' = Append(journal, RunMarker(e))
      /\ UNCHANGED committed /\ StateOf(journal) = RunStateOf(e)
  BY DEF HealOwed, AppendRecord, Inv, ControlInv, Owes, IsOpen, Last, StateOf
<1>2. e \in RunEvents
  BY OwedIsARunEvent
<1> HIDE DEF e
<1>3. /\ StartOf(journal') = Start(RunStateOf(e), StartOf(journal).node, StartOf(journal).attempt)
      /\ StateOf(journal') = RunStateOf(e)
  BY <1>1, <1>2, MarkerKeepsPlace
<1>4. QED
  BY <1>1, <1>3 DEF RunStutters, Start

\* The steps of checkStartState, from a run that owes nothing.
LEMMA CheckSteps ==
  ASSUME Inv, CtlInv, ResumePaused \/ Proceed
  PROVE  RunStutters \/ Resumes
<1>1. /\ pc = "check" /\ IsASequence(journal) /\ ~ IsOpen(journal) /\ UNCHANGED committed
      /\ StateOf(journal) = at.state
  BY NothingOwedState DEF ResumePaused, Proceed, Inv, ControlInv, JournalInv, Between, CtlInv, PlaceInv
<1>2. ASSUME NEW e \in {"run_resumed", "run_started"}, journal' = Append(journal, RunMarker(e))
      PROVE  /\ StartOf(journal').node = StartOf(journal).node
             /\ StateOf(journal') = "runnable"
  <2>1. e \in RunEvents /\ RunStateOf(e) = "runnable"
    BY <1>2 DEF RunEvents, RunStateOf
  <2>2. /\ StartOf(journal') = Start(RunStateOf(e), StartOf(journal).node, StartOf(journal).attempt)
        /\ StateOf(journal') = RunStateOf(e)
    BY <1>1, <1>2, <2>1, MarkerKeepsPlace
  <2>3. QED
    BY <2>1, <2>2 DEF Start
<1>3. CASE ResumePaused
  BY <1>1, <1>2, <1>3 DEF ResumePaused, AppendRecord, Resumes
<1>4. CASE Proceed
  BY <1>1, <1>2, <1>4 DEF Proceed, AppendRecord, RunStutters, log
<1>5. QED
  BY <1>3, <1>4

LEMMA StartNodeStutters == ASSUME Inv, CtlInv, StartNode PROVE RunStutters
<1>1. /\ IsASequence(journal) /\ journal' = Append(journal, NodeStarted(at.node, at.attempt))
      /\ UNCHANGED committed
      /\ at.node = StartOf(journal).node /\ StateOf(journal) = "runnable"
  BY DEF StartNode, AppendRecord, Inv, ControlInv, CtlInv, PlaceInv
<1>2. /\ StartOf(journal') = Start("runnable", at.node, at.attempt + 1)
      /\ StateOf(journal') = "runnable"
  BY <1>1, AfterStarted
<1>3. QED
  BY <1>1, <1>2 DEF RunStutters, Start

LEMMA EndMarkStep == ASSUME Inv, CtlInv, EndMark PROVE RunStep
<1> DEFINE e == mem.ending.event
<1>1. /\ pc = "end" /\ IsASequence(journal) /\ ~ IsOpen(journal) /\ e \in RunEvents
      /\ journal' = Append(journal, RunMarker(e)) /\ UNCHANGED committed
      /\ StateOf(journal) \in {"runnable", RunStateOf(e)}
      /\ e = "run_completed" => StartOf(journal).node = End
  BY DEF EndMark, AppendRecord, Inv, ControlInv, JournalInv, Between, CtlInv, PlaceInv
<1> HIDE DEF e
<1>2. /\ StartOf(journal') = Start(RunStateOf(e), StartOf(journal).node, StartOf(journal).attempt)
      /\ StateOf(journal') = RunStateOf(e)
  BY <1>1, MarkerKeepsPlace
<1>3. StartOf(journal').node = StartOf(journal).node
  BY <1>2 DEF Start
<1>4. /\ RunStateOf(e) \in {"runnable", "paused", "completed", "failed", "aborted"}
      /\ RunStateOf(e) = "completed" => e = "run_completed"
  BY DEF RunStateOf
<1>5. QED
  BY <1>1, <1>2, <1>3, <1>4 DEF RunStep, RunStutters, LosesRun, MarksEnd

LEMMA FinishNodeStep ==
  ASSUME Inv, TypeInv, CtlInv, HandInv, FinishNode
  PROVE  RunStep
<1>1. /\ pc = "finish" /\ journal' = Append(journal, closing)
      /\ committed' = IF closing.note = "accepted" THEN Patched(committed, patch) ELSE committed
  BY DEF FinishNode, AppendRecord
<1>2. /\ IsASequence(journal) /\ IsOpen(journal) /\ closing.event = "node_finished"
      /\ closing.node = Last(journal).node /\ closing.attempt = Last(journal).attempt
      /\ closing.node = at.node /\ ClosingShape(closing)
  BY <1>1 DEF Inv, ControlInv, JournalInv, Inside, Matches, CtlInv, PlaceInv
<1>3. StartOf(journal).node = at.node /\ StateOf(journal) = "runnable"
  <2>1. /\ StartOf(journal) = Start("runnable", Last(journal).node, Last(journal).attempt + 1)
        /\ StateOf(journal) = "runnable"
    BY <1>2, OpenPlace
  <2>2. StartOf(journal).node = Last(journal).node
    BY <2>1 DEF Start
  <2>3. QED
    BY <1>2, <2>1, <2>2
<1>4. /\ StartOf(journal').node = closing.next
      /\ StateOf(journal') = RunStateOf(OwedRunMarker(closing))
  <2>1. /\ StartOf(journal') = Start("runnable", closing.next,
                                  IF Interrupted(closing) THEN closing.attempt + 1 ELSE 1)
        /\ StateOf(journal') = RunStateOf(OwedRunMarker(closing))
    BY <1>1, <1>2, AfterFinished
  <2>2. QED
    BY <2>1 DEF Start
<1>5. /\ Interrupted(closing) => StateOf(journal') = "runnable"
      /\ ~ Interrupted(closing) =>
           /\ closing.status \in {"failed", "aborted", "paused"} => StateOf(journal') = closing.status
           /\ closing.status = "ok" => StateOf(journal') = "runnable"
  BY <1>4, OwedState
<1>6. CASE closing.note = "accepted"
  <2>1. PICK w \in Worlds : \E r \in NodeResults(at.node, view, w) :
          /\ Acceptable(r) /\ patch = r.patch /\ closing.status = r.status
          /\ closing.next = ResumePointer(r)
    BY <1>1, <1>6 DEF HandInv, ResultInv
  <2>2. PICK r \in NodeResults(at.node, view, w) :
          /\ Acceptable(r) /\ patch = r.patch /\ closing.status = r.status
          /\ closing.next = ResumePointer(r)
    BY <2>1
  <2>3. /\ r.err = "none" /\ r.status # NoStatus
        /\ r.status = "ok" => r.next # NoNode
        /\ committed' = Patched(committed, r.patch)
    BY <1>1, <1>6, <2>2 DEF Acceptable, ValidResult
  <2>4. CASE r.status = "ok"
    <3>1. closing.next = r.next /\ ~ Interrupted(closing)
      BY <2>2, <2>4 DEF ResumePointer, Interrupted
    <3>2. QED
      BY <1>1, <1>3, <1>4, <1>5, <2>2, <2>3, <2>4, <3>1 DEF RunStep, TakesResult
  <2>5. CASE r.status = "paused"
    <3>1. closing.next = at.node /\ ~ Interrupted(closing)
      BY <2>2, <2>5 DEF ResumePointer, Interrupted
    <3>2. QED
      BY <1>1, <1>3, <1>4, <1>5, <2>2, <2>3, <2>5, <3>1 DEF RunStep, TakesResult
  <2>6. CASE r.status \notin {"ok", "paused"}
    <3>1. closing.next = NoNode
      BY <2>2, <2>6 DEF ResumePointer
    <3>2. ~ Interrupted(closing)
      BY <3>1 DEF Interrupted
    <3>3. r.status \in {"failed", "aborted"}
      BY <1>2, <2>2, <2>6 DEF ClosingShape, Statuses
    <3>4. QED
      BY <1>1, <1>3, <1>4, <1>5, <2>2, <2>3, <2>6, <3>1, <3>2, <3>3 DEF RunStep, TakesResult
  <2>7. QED
    BY <2>4, <2>5, <2>6
<1>7. CASE closing.note # "accepted" /\ Interrupted(closing)
  <2>1. closing.next = closing.node
    BY <1>7 DEF Interrupted
  <2>2. QED
    BY <1>1, <1>2, <1>3, <1>4, <1>5, <1>7, <2>1 DEF RunStep, RunStutters
<1>8. CASE closing.note # "accepted" /\ ~ Interrupted(closing)
  <2>1. closing.status \in {"failed", "aborted"}
    BY <1>1, <1>8 DEF HandInv, RefusalInv
  <2>2. closing.next = NoNode
    BY <1>2, <1>8, <2>1 DEF ClosingShape, Interrupted
  <2>3. QED
    BY <1>1, <1>3, <1>4, <1>5, <1>8, <2>1, <2>2 DEF RunStep, LosesRun
<1>9. QED
  BY <1>6, <1>7, <1>8

LEMMA RunStepNext ==
  Inv /\ TypeInv /\ CtlInv /\ HandInv /\ [Next]_vars => RunStep
<1> SUFFICES ASSUME Inv, TypeInv, CtlInv, HandInv, [Next]_vars PROVE RunStep
  OBVIOUS
<1>1. CASE HealClose \/ SnapshotFails
  BY <1>1, InterruptionsStutter DEF RunStep
<1>2. CASE HealOwed \/ StartNode \/ ResumePaused \/ Proceed
  BY <1>2, HealOwedStutters, StartNodeStutters, CheckSteps DEF RunStep
<1>3. CASE EndMark
  BY <1>3, EndMarkStep
<1>4. CASE FinishNode
  BY <1>4, FinishNodeStep
<1>5. CASE \/ \E cfg \in Configs, resuming \in BOOLEAN : Open(cfg, resuming)
           \/ HealReap \/ HealPersist \/ NothingToHeal \/ Refuse \/ LoopEnds \/ TakeSnapshot
           \/ NodeReturns \/ NodeTimesOut \/ ApplyPatch \/ PersistRunning \/ EndPersist
           \/ Crash \/ Cancel \/ OrphanWrites \/ PersonEdits \/ UNCHANGED vars
  <2>1. UNCHANGED <<journal, committed>>
    BY <1>5 DEF Open, HealReap, HealPersist, NothingToHeal, Refuse, LoopEnds, TakeSnapshot,
       NodeReturns, NodeTimesOut, Settle, ApplyPatch, PersistRunning, EndPersist, Crash, Cancel,
       OrphanWrites, PersonEdits, vars, log
  <2>2. QED
    BY <2>1 DEF RunStep, RunStutters
<1>6. QED
  BY <1>1, <1>2, <1>3, <1>4, <1>5 DEF Next, Advance

-----------------------------------------------------------------------------
(***************************************************************************)
(* The theorems.                                                           *)
(***************************************************************************)
RunInv == Inv /\ TypeInv /\ CtlInv /\ SpendInv /\ AttemptsCount /\ HandInv

LEMMA InitRun == Init => RunInv
<1> SUFFICES ASSUME Init PROVE RunInv
  OBVIOUS
<1>1. HandInv
  BY DEF Init, HandInv, ResultInv, RefusalInv
<1>2. QED
  BY <1>1, InitInv, InitIsTyped, InitCtl, InitSpend, InitAttempts DEF RunInv

LEMMA RunNext == RunInv /\ [Next]_vars => RunInv'
<1>1. CtlInv => VisitInv
  BY DEF CtlInv
<1>2. QED
  BY <1>1, NextInv, TypeNext, CtlNext, SpendNext, AttemptsNext, HandNext DEF RunInv

LEMMA SpecRun == Spec => []RunInv
BY InitRun, RunNext, PTL DEF Spec

\* graph: every variable holds what the file or the memory it stands for can
\* hold, in every graph, under every configuration, after every crash.
THEOREM RunIsTyped == Spec => []TypeOK
<1>1. RunInv => TypeOK
  BY DEF RunInv, TypeInv
<1>2. QED
  BY <1>1, SpecRun, PTL

\* graph/dispatcher.go, heal and loop: recovery always knows where it is.
THEOREM PlaceAlwaysKept == Spec => []PlaceIsKept
<1>1. RunInv => PlaceIsKept
  <2> SUFFICES ASSUME RunInv PROVE PlaceIsKept
    OBVIOUS
  <2>1. AttemptsCount /\ ManifestNotAhead
    BY DEF RunInv, CtlInv, EndedInv
  <2>2. ASSUME pc = "loop" PROVE at.node # NoNode
    BY <2>2 DEF RunInv, CtlInv, EndedInv, PlaceInv
  <2>3. QED
    BY <2>1, <2>2 DEF PlaceIsKept, AlwaysAResumePoint
<1>2. QED
  BY <1>1, SpecRun, PTL

\* budget/ledger.go, Rebuild: what was spent outlives every death, and each
\* death is charged for.
THEOREM SpendAlwaysKept == Spec => []SpendIsKept
<1>1. RunInv => SpendIsKept
  <2> SUFFICES ASSUME RunInv PROVE SpendIsKept
    OBVIOUS
  <2>1. SpendInv /\ Spent(journal) \in Ledgers /\ man.spent \in Nat
    BY DEF RunInv, TypeInv, TypeOK
  <2>2. Rebuild(journal, man.spent, Supervisors) = Spent(journal)
    BY <2>1, RebuildIsSpent DEF SpendInv
  <2>3. LedgerIsReplay
    BY <2>1, <2>2 DEF SpendInv, LedgerIsReplay, Counted
  <2>4. QED
    BY <2>1, <2>3 DEF SpendIsKept, SpendInv
<1>2. QED
  BY <1>1, SpecRun, PTL

\* graph/dispatcher.go, loop: no node that spends is started over the ceiling
\* of the configuration the dispatch loaded, whatever earlier dispatches spent.
THEOREM CeilingAlwaysHonoured == Spec => CeilingHonoured
<1> DEFINE A == \A n \in Nodes \ Unpriced :
                  /\ mem.cfg.max_usd > 0
                  /\ journal' = Append(journal, NodeStarted(n, at.attempt))
                  => spentBefore(Replayed(journal, Supervisors), n).total <= mem.cfg.max_usd
<1>1. RunInv /\ [Next]_vars => A
  <2> SUFFICES ASSUME RunInv, [Next]_vars, NEW n \in Nodes \ Unpriced, mem.cfg.max_usd > 0,
                      journal' = Append(journal, NodeStarted(n, at.attempt))
               PROVE  spentBefore(Spent(journal), n).total <= mem.cfg.max_usd
    BY DEF Spent
  <2>1. IsASequence(journal) /\ Inv
    BY DEF RunInv, Inv, ControlInv
  <2> DEFINE k == NodeStarted(n, at.attempt)
  <2>2. k.event = "node_started" /\ k.node = n
    BY DEF NodeStarted
  <2>3. Len(journal) \in Nat /\ Len(journal') = Len(journal) + 1 /\ journal'[Len(journal) + 1] = k
    BY <2>1, AppendFacts
  <2> HIDE DEF k
  <2>4. StartNode
    <3>1. journal' # journal
      BY <2>3
    <3>2. ASSUME NEW r, r.event # "node_started", journal' = Append(journal, r) PROVE FALSE
      BY <2>1, <2>2, <2>3, <3>2, AppendFacts
    <3>3. QED
      BY <2>1, <3>1, <3>2, StepsOfTheJournal
  <2>5. at.node = n
    <3>1. journal'[Len(journal) + 1] = NodeStarted(at.node, at.attempt)
      BY <2>1, <2>4, AppendFacts DEF StartNode, AppendRecord
    <3>2. QED
      BY <2>2, <2>3, <3>1 DEF NodeStarted
  <2>6. ~ OverBudget(n)
    BY <2>4, <2>5, NamesAssumption, DispatcherAssumption DEF StartNode, LoopVerdict, NothingOwed
  <2>7. mem.ledger = Spent(journal)
    BY <2>4 DEF StartNode, RunInv, SpendInv, Counted
  <2>8. ~ (spentBefore(Spent(journal), n).total > mem.cfg.max_usd)
    BY <2>6, <2>7 DEF OverBudget, OverCeiling
  <2>9. spentBefore(Spent(journal), n).total \in Int /\ mem.cfg.max_usd \in Nat
    <3>1. /\ Spent(journal) \in Ledgers /\ n \in Names /\ mem \in Memories
      BY DispatcherAssumption DEF RunInv, TypeInv, TypeOK
    <3>2. Spent(journal).total \in Nat /\ Spent(journal).of[n] \in Nat
      BY <3>1 DEF Ledgers
    <3>3. QED
      BY <3>1, <3>2 DEF spentBefore, Without, Ledgers, Memories
  <2>10. QED
    BY <2>8, <2>9
<1>2. RunInv /\ [Next]_vars => [A]_vars
  BY <1>1
<1>3. QED
  BY <1>2, SpecRun, PTL DEF Spec, CeilingHonoured

\* graph/dispatcher.go, checkStartState: only a dispatch asked to resume takes
\* a run past a pause.
THEOREM PausesHold == Spec => PauseHolds
<1>1. RunInv /\ [Next]_vars => [Paused(journal) /\ ~ Paused(journal') => mem.resuming]_vars
  <2> SUFFICES ASSUME RunInv, [Next]_vars, Paused(journal), ~ Paused(journal')
               PROVE  mem.resuming
    OBVIOUS
  <2>1. RunStep
    BY RunStepNext DEF RunInv
  <2>2. IsASequence(journal) /\ IsASequence(journal')
    BY NextInv DEF RunInv, Inv, ControlInv
  <2>3. StateOf(journal) = "paused" /\ StateOf(journal') # "paused"
    BY <2>2, PausedIsItsState
  <2>4. QED
    BY <2>1, <2>3 DEF RunStep, RunStutters, Resumes, TakesResult, LosesRun, MarksEnd
<1>2. QED
  BY <1>1, SpecRun, PTL DEF Spec, PauseHolds

\* graph/dispatcher.go, blackboardFor: while a node runs, whatever its attempt,
\* it works from the snapshot the first attempt of its visit took.
SeesFirstSnapshot ==
  pc = "run" => LET first == AttemptOneSeq(journal, at.node)
                IN  first \in DOMAIN snaps /\ view = snaps[first]

THEOREM RerunsSeeTheFirstSnapshot == Spec => []SeesFirstSnapshot
<1>1. RunInv => SeesFirstSnapshot
  <2> SUFFICES ASSUME RunInv, pc = "run"
               PROVE  LET first == AttemptOneSeq(journal, at.node)
                      IN  first \in DOMAIN snaps /\ view = snaps[first]
    BY DEF SeesFirstSnapshot
  <2>1. IsASequence(journal) /\ IsOpen(journal) /\ Last(journal).node = at.node
    BY DEF RunInv, Inv, ControlInv, JournalInv, Inside
  <2>2. StartOf(journal) = Start("runnable", Last(journal).node, Last(journal).attempt + 1)
    BY <2>1, OpenPlace
  <2>3. StartOf(journal).node = at.node
    BY <2>1, <2>2 DEF Start
  <2>4. QED
    BY <2>3 DEF RunInv, CtlInv, VisitInv, Key
<1>2. QED
  BY <1>1, SpecRun, PTL

(***************************************************************************)
(* For nodes whose results supersede each other (Dispatcher,               *)
(* ResultsSupersede), a run is what RunSpec says of it.                    *)
(***************************************************************************)
LEMMA SpecBoard == ASSUME ResultsSupersede PROVE Spec => [](RunInv /\ BoardInv)
<1>1. Init => RunInv /\ BoardInv
  BY InitRun, InitBoard
<1>2. RunInv /\ BoardInv /\ [Next]_vars => (RunInv /\ BoardInv)'
  BY RunNext, BoardNext DEF RunInv
<1>3. QED
  BY <1>1, <1>2, PTL DEF Spec

\* graph/dispatcher.go, blackboardFor: a node is given what the accepted
\* results add up to, and nothing of an attempt that died.
THEOREM ViewsAreCommitted == ASSUME ResultsSupersede PROVE Spec => []ViewIsCommitted
<1>1. RunInv /\ BoardInv => ViewIsCommitted
  BY GivenTheBoard DEF RunInv, ViewIsCommitted
<1>2. QED
  BY <1>1, SpecBoard, PTL

LEMMA InitIsRunInit == Init => Run!Init
<1> SUFFICES ASSUME Init PROVE Run!Init
  OBVIOUS
<1>1. /\ journal = <<>> /\ FinishedAt(journal) = {} /\ ~ IsOpen(journal) /\ ~ Owes(journal)
      /\ ~ StartedANode(journal) /\ committed = NewBoard
  BY DEF Init, FinishedAt, IsOpen, Owes, StartedANode
<1>2. ResolveStart(journal) = Start("runnable", FirstNode, 1)
  BY <1>1 DEF ResolveStart
<1>3. /\ StartOf(journal).node = IF Entry = NoNode THEN FirstNode ELSE Entry
      /\ StartOf(journal).state = "runnable"
  BY <1>1, <1>2 DEF StartOf, Start
<1>4. StateOf(journal) = "runnable"
  BY <1>1, <1>3, NothingOwedState
<1>5. QED
  BY <1>1, <1>3, <1>4 DEF Run!Init, Run!FirstNode, Run!NoNode, FirstNode, NoNode

LEMMA StepIsRunStep ==
  ASSUME Inv, TypeInv, CtlInv, BoardInv, RunStep
  PROVE  [Run!Next]_(Run!runVars)
<1>1. CASE RunStutters
  BY <1>1 DEF RunStutters, Run!runVars
<1>2. CASE Resumes
  BY <1>2 DEF Resumes, Run!Next, Run!Resume
<1>3. CASE TakesResult
  <2>1. /\ view = committed /\ at.node \in Nodes /\ at.node = StartOf(journal).node
        /\ StateOf(journal) = "runnable"
    BY <1>3, GivenTheBoard DEF TakesResult
  <2>2. PICK w \in Worlds : \E r \in NodeResults(at.node, committed, w) :
          /\ r.err = "none" /\ r.status # NoStatus
          /\ committed' = Patched(committed, r.patch)
          /\ \/ /\ r.status = "ok" /\ r.next # NoNode
                /\ StartOf(journal').node = r.next /\ StateOf(journal') = "runnable"
             \/ /\ r.status = "paused"
                /\ StartOf(journal').node = at.node /\ StateOf(journal') = "paused"
             \/ /\ r.status \notin {"ok", "paused"}
                /\ StartOf(journal').node = NoNode /\ StateOf(journal') = r.status
    BY <1>3, <2>1 DEF TakesResult
  <2>3. PICK r \in NodeResults(at.node, committed, w) :
          /\ r.err = "none" /\ r.status # NoStatus
          /\ committed' = Patched(committed, r.patch)
          /\ \/ /\ r.status = "ok" /\ r.next # NoNode
                /\ StartOf(journal').node = r.next /\ StateOf(journal') = "runnable"
             \/ /\ r.status = "paused"
                /\ StartOf(journal').node = at.node /\ StateOf(journal') = "paused"
             \/ /\ r.status \notin {"ok", "paused"}
                /\ StartOf(journal').node = NoNode /\ StateOf(journal') = r.status
    BY <2>2
  <2>4. CASE r.status = "ok"
         /\ r.next # NoNode
         /\ StartOf(journal').node = r.next /\ StateOf(journal') = "runnable"
    <3>1. Run!Step
      BY <2>1, <2>3, <2>4 DEF Run!Step, Patched, Run!NoNode, NoNode, Run!NoStatus, NoStatus
    <3>2. QED
      BY <3>1 DEF Run!Next
  <2>5. CASE r.status = "paused"
         /\ StartOf(journal').node = at.node /\ StateOf(journal') = "paused"
    <3>1. Run!Step
      BY <2>1, <2>3, <2>5 DEF Run!Step, Patched, Run!NoNode, NoNode, Run!NoStatus, NoStatus
    <3>2. QED
      BY <3>1 DEF Run!Next
  <2>6. CASE r.status \notin {"ok", "paused"}
         /\ StartOf(journal').node = NoNode /\ StateOf(journal') = r.status
    <3>1. Run!Step
      BY <2>1, <2>3, <2>6 DEF Run!Step, Patched, Run!NoNode, NoNode, Run!NoStatus, NoStatus
    <3>2. QED
      BY <3>1 DEF Run!Next
  <2>7. QED
    BY <2>3, <2>4, <2>5, <2>6
<1>4. CASE LosesRun
  BY <1>4 DEF LosesRun, Run!Next, Run!Give_up, Run!NoNode, NoNode
<1>5. CASE MarksEnd
  BY <1>5 DEF MarksEnd, Run!Next, Run!Pause, Run!Complete, Run!End, End
<1>6. QED
  BY <1>1, <1>2, <1>3, <1>4, <1>5 DEF RunStep

\* graph.Dispatcher's ordering argument: what crashes, recoveries, pauses and
\* interruptions leave is what running each node once, one after another,
\* would have left.
THEOREM DispatcherImplementsRun == ASSUME ResultsSupersede PROVE Spec => RefinesRunSpec
<1>1. RunInv /\ BoardInv /\ [Next]_vars => [Run!Next]_(Run!runVars)
  BY RunStepNext, StepIsRunStep DEF RunInv
<1>2. QED
  BY <1>1, InitIsRunInit, SpecBoard, PTL DEF Spec, RefinesRunSpec, Run!Spec

=============================================================================
