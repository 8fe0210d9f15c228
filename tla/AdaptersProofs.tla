--------------------------- MODULE AdaptersProofs ---------------------------
(***************************************************************************)
(* What the components a node leans on promise, for any number of calls,   *)
(* sessions, models, files, replies and tests: the processes belay starts, *)
(* the session with an MCP server, the lint gate, the reviewers, the       *)
(* policy gate, the agent's calls, the run of the tests and the record of  *)
(* the conversation.  None shares state with another, so each has an       *)
(* invariant of its own.                                                   *)
(***************************************************************************)
EXTENDS Processes, McpSession, Agent, Policy, Lint, Reviews, Suites,
        Cassette, FiniteSetTheorems, SequenceTheorems, TLAPS

-----------------------------------------------------------------------------
(***************************************************************************)
(* Processes.  A start time belongs to one process for good.  A record     *)
(* that bears one bears that of a process belay started, so what holds the *)
(* recorded pid and has the recorded start is no stranger; and whatever    *)
(* outlives belay has such a record, or is one of the excused.             *)
(***************************************************************************)
Procs   == [by : Calls \cup {"nobody", "stranger", "orphan"}, born : Nat,
            program : {"none", "agent", "other"}, leads : BOOLEAN, state : {"none", "runs", "zombie"}]
ProcRecords == [pid : Pids \cup {NoPid}, start : Nat, kept : BOOLEAN]
CallPlaces  == {"idle", "tracked", "started", "waiting", "reaped", "exited"}
Watches == {"off", "watching", "TERM", "send TERM", "grace", "KILL", "send KILL", "over"}
Runs    == [pc : CallPlaces, pid : Pids \cup {NoPid}, watcher : Watches]
Reaps   == [call : Calls \cup {"none"}, step : {"none", "group", "program", "kill"}, seen : Nat]

ProcTypeInv ==
  /\ proc \in [Pids -> Procs] /\ record \in [Calls -> ProcRecords] /\ call \in [Calls -> Runs]
  /\ belay \in {"up", "down", "healing"} /\ reap \in Reaps /\ starts \in Nat

\* A start is one process's.  belay's own lead their groups.
BirthInv ==
  /\ \A p \in Pids : /\ proc[p].born <= starts
                     /\ proc[p].by # "nobody" => proc[p].born # 0
                     /\ proc[p].by \in Calls \cup {"orphan"} => proc[p].leads = TRUE /\ proc[p].program = "agent"
  /\ \A p, q \in Pids : proc[p].born = proc[q].born /\ proc[p].born # 0 => p = q

\* No stranger has a start that belay wrote down.
StrangerInv ==
  /\ ~ wronged
  /\ reap.seen <= starts /\ \A c \in Calls : record[c].start <= starts
  /\ \A p \in Pids : proc[p].by = "stranger" =>
       proc[p].born # reap.seen /\ \A c \in Calls : proc[p].born # record[c].start

Covers(c, p) == record[c].kept /\ record[c].pid = p /\ record[c].start = proc[p].born

\* What a call has started it knows, and has recorded once it waits for it.
KnownInv ==
  \A c \in Calls :
    /\ call[c].pc \in {"tracked", "started"} => record[c].start = 0
    /\ call[c].pc \in {"started", "waiting"} => call[c].pid \in Pids /\ proc[call[c].pid].by = c
    /\ \A p \in Pids : proc[p].by = c =>
         /\ belay = "up" /\ call[c].pid = p /\ call[c].pc \in {"started", "waiting"}
         /\ call[c].pc = "waiting" => Covers(c, p) \/ proc[p].born \in excused

\* What outlived belay is on record until it is dealt with.
OrphanInv ==
  \A p \in Pids : proc[p].by = "orphan" /\ proc[p].state = "runs" =>
    \/ proc[p].born \in excused
    \/ belay # "up" /\ \E c \in Calls : Covers(c, p)

ReapInv == /\ reap.step # "none" =>
                belay = "healing" /\ reap.call \in Calls /\ record[reap.call].pid \in Pids
           /\ belay = "up" \/ \A c \in Calls : call[c] = Idle

ProcInv == ProcTypeInv /\ BirthInv /\ StrangerInv /\ KnownInv /\ OrphanInv /\ ReapInv

-----------------------------------------------------------------------------
LEMMA InitProc == Init => ProcInv
<1> SUFFICES ASSUME Init PROVE ProcInv
  OBVIOUS
<1> USE ProcessesAssumption DEF ProcessesAssumption
<1>1. ProcTypeInv
  BY DEF Init, ProcTypeInv, Procs, ProcRecords, Runs, Reaps, CallPlaces, Watches,
         Nobody, NoRecord, Idle, NoReap
<1>2. BirthInv
  BY DEF Init, BirthInv, Nobody
<1>3. StrangerInv
  BY DEF Init, StrangerInv, Nobody, NoRecord, NoReap
<1>4. KnownInv
  BY DEF Init, KnownInv, Nobody, Idle
<1>5. OrphanInv
  BY DEF Init, OrphanInv, Nobody
<1>6. ReapInv
  BY DEF Init, ReapInv, NoReap
<1>7. QED
  BY <1>1, <1>2, <1>3, <1>4, <1>5, <1>6 DEF ProcInv

(***************************************************************************)
(* The kernel.                                                             *)
(***************************************************************************)
\* Processes that only come to their end, whoever ends them.
Aged == /\ proc' \in [Pids -> Procs]
        /\ \A p \in Pids :
             \/ proc'[p] = proc[p]
             \/ /\ proc'[p].state # "runs" /\ proc'[p].by = proc[p].by
                /\ proc'[p].born = proc[p].born /\ proc'[p].leads = proc[p].leads
                /\ proc'[p].program = proc[p].program

\* Calls that only look, wait or signal.
Calm == /\ call' \in [Calls -> Runs]
        /\ \A c \in Calls : call'[c].pid = call[c].pid /\ call'[c].pc = call[c].pc
        /\ belay # "up" => call' = call

LEMMA AgedInv ==
  ASSUME ProcInv, Aged, Calm, UNCHANGED <<starts, record, belay, reap, excused, wronged>>
  PROVE  ProcInv'
<1> USE DEF ProcInv, Aged, Calm
<1>1. ProcTypeInv'
  BY DEF ProcTypeInv
<1>2. BirthInv' /\ StrangerInv'
  BY DEF BirthInv, StrangerInv
<1>3. KnownInv'
  BY DEF KnownInv, Covers
<1>4. OrphanInv'
  BY DEF OrphanInv, Covers
<1>5. ReapInv'
  BY DEF ReapInv
<1>6. QED
  BY <1>1, <1>2, <1>3, <1>4, <1>5

LEMMA ExitedAges ==
  ASSUME NEW process \in Procs, NEW dies \in BOOLEAN
  PROVE  LET e == Exited(process, dies) IN
         e \in Procs /\ (e = process \/ (/\ e.state # "runs" /\ e.by = process.by
                                         /\ e.born = process.born /\ e.leads = process.leads
                                         /\ e.program = process.program))
BY DEF Exited, Procs

\* A signal to whoever holds p, or to nobody.
LEMMA OneAges ==
  ASSUME ProcTypeInv, NEW p, NEW leads \in BOOLEAN, NEW dies \in BOOLEAN,
         proc' = [proc EXCEPT ![p] = IF leads THEN Exited(@, dies) ELSE @]
  PROVE  Aged
<1>1. CASE p \notin Pids
  BY <1>1 DEF ProcTypeInv, Aged
<1>2. CASE p \in Pids /\ leads
  <2> DEFINE e == Exited(proc[p], dies)
  <2>1. e \in Procs /\ (e = proc[p] \/ (/\ e.state # "runs" /\ e.by = proc[p].by
                                        /\ e.born = proc[p].born /\ e.leads = proc[p].leads
                                        /\ e.program = proc[p].program))
    BY <1>2, ExitedAges DEF ProcTypeInv
  <2>2. proc' = [proc EXCEPT ![p] = e]
    BY <1>2
  <2> HIDE DEF e
  <2>3. QED
    BY <2>1, <2>2 DEF ProcTypeInv, Aged
<1>3. CASE ~ leads
  <2>1. proc' = [proc EXCEPT ![p] = proc[p]]
    BY <1>3
  <2>2. QED
    BY <2>1 DEF ProcTypeInv, Aged
<1>4. QED
  BY <1>1, <1>2, <1>3

LEMMA KillGroupAges ==
  ASSUME ProcInv, NEW p, NEW sig, KillGroup(p, sig)
  PROVE  Aged
<1>1. PICK leader \in BOOLEAN :
        proc' = [proc EXCEPT ![p] = IF @.leads THEN Exited(@, leader) ELSE @]
  BY DEF KillGroup, Deaths
<1>2. CASE p \in Pids
  <2>1. proc[p].leads \in BOOLEAN
    BY <1>2 DEF ProcInv, ProcTypeInv, Procs
  <2>2. proc' = [proc EXCEPT ![p] = IF proc[p].leads THEN Exited(@, leader) ELSE @]
    BY <1>1
  <2>3. QED
    BY <2>1, <2>2, OneAges DEF ProcInv
<1>3. CASE p \notin Pids
  BY <1>1, <1>3 DEF ProcInv, ProcTypeInv, Aged
<1>4. QED
  BY <1>2, <1>3

LEMMA KillProcessAges ==
  ASSUME ProcInv, NEW p, NEW sig, KillProcess(p, sig)
  PROVE  Aged
<1>1. PICK dies \in BOOLEAN : proc' = [proc EXCEPT ![p] = Exited(@, dies)]
  BY DEF KillProcess, Deaths
<1>2. proc' = [proc EXCEPT ![p] = IF TRUE THEN Exited(@, dies) ELSE @]
  BY <1>1
<1>3. QED
  BY <1>2, OneAges DEF ProcInv

\* Actions of the kernel, and of a call that leave the records alone.
LEMMA ExitInv == ASSUME ProcInv, Exit PROVE ProcInv'
<1>1. Aged
  <2>1. CASE UNCHANGED proc
    BY <2>1 DEF ProcInv, ProcTypeInv, Aged
  <2>2. CASE \E p \in Pids : proc' = [proc EXCEPT ![p] = Exited(@, TRUE)]
    <3>1. PICK p \in Pids : proc' = [proc EXCEPT ![p] = Exited(@, TRUE)]
      BY <2>2
    <3>2. proc' = [proc EXCEPT ![p] = IF TRUE THEN Exited(@, TRUE) ELSE @]
      BY <3>1
    <3>3. QED
      BY <3>2, OneAges DEF ProcInv
  <2>3. QED
    BY <2>1, <2>2 DEF Exit
<1>2. Calm /\ UNCHANGED <<starts, record, belay, reap, excused, wronged>>
  BY DEF Exit, Calm, ProcInv, ProcTypeInv, past
<1>3. QED
  BY <1>1, <1>2, AgedInv

LEMMA ForkInv == ASSUME ProcInv, NEW c \in Calls, Fork(c) PROVE ProcInv'
<1>1. Aged /\ Calm /\ UNCHANGED <<starts, record, belay, reap, excused, wronged>>
  BY DEF Fork, Aged, Calm, ProcInv, ProcTypeInv, past
<1>2. QED
  BY <1>1, AgedInv

\* A pid that is free is handed out.
LEMMA BornInv ==
  ASSUME ProcInv, NEW p \in Pids, NEW who \in Calls \cup {"stranger"},
         NEW program \in {"agent", "other"}, NEW leads \in BOOLEAN,
         Born(p, who, program, leads)
  PROVE  /\ proc[p].by = "nobody" /\ starts' = starts + 1 /\ starts' \in Nat
         /\ proc' \in [Pids -> Procs] /\ proc'[p].by = who /\ proc'[p].born = starts + 1
         /\ proc'[p].leads = leads /\ proc'[p].program = program
         /\ \A q \in Pids \ {p} : proc'[q] = proc[q]
<1> DEFINE new == [by |-> who, born |-> starts + 1, program |-> program,
                   leads |-> leads, state |-> "runs"]
<1>1. new \in Procs /\ new.by = who /\ new.born = starts + 1 /\ new.leads = leads
      /\ new.program = program
  BY DEF ProcInv, ProcTypeInv, Procs
<1>2. proc' = [proc EXCEPT ![p] = new] /\ starts' = starts + 1 /\ proc[p] = Nobody
  BY DEF Born, Free
<1> HIDE DEF new
<1>3. proc[p].by = "nobody"
  BY <1>2 DEF Nobody
<1>4. /\ proc' \in [Pids -> Procs] /\ proc'[p] = new
      /\ \A q \in Pids \ {p} : proc'[q] = proc[q]
  BY <1>1, <1>2 DEF ProcInv, ProcTypeInv
<1>5. starts' \in Nat
  BY <1>2 DEF ProcInv, ProcTypeInv
<1>6. QED
  BY <1>1, <1>2, <1>3, <1>4, <1>5

LEMMA BirthsKept ==
  ASSUME ProcInv, NEW p \in Pids, NEW who \in Calls \cup {"stranger"},
         NEW program \in {"agent", "other"}, NEW leads \in BOOLEAN,
         Born(p, who, program, leads), who \in Calls => leads = TRUE /\ program = "agent",
         UNCHANGED <<record, reap, wronged>>
  PROVE  BirthInv' /\ StrangerInv'
<1>1. /\ proc[p].by = "nobody" /\ starts' = starts + 1
      /\ proc'[p].by = who /\ proc'[p].born = starts + 1
      /\ proc'[p].leads = leads /\ proc'[p].program = program
      /\ \A q \in Pids \ {p} : proc'[q] = proc[q]
  BY BornInv
<1>2. starts \in Nat /\ \A q \in Pids : proc[q].born \in Nat
  BY DEF ProcInv, ProcTypeInv, Procs
<1>3. /\ reap.seen \in Nat /\ \A c \in Calls : record[c].start \in Nat
      /\ who \notin {"nobody", "orphan"}
  BY ProcessesAssumption DEF ProcInv, ProcTypeInv, ProcRecords, Reaps, ProcessesAssumption
<1>4. \A q \in Pids : /\ proc'[q].born <= starts'
                      /\ proc'[q].by # "nobody" => proc'[q].born # 0
                      /\ proc'[q].by \in Calls \cup {"orphan"}
                           => proc'[q].leads = TRUE /\ proc'[q].program = "agent"
  BY <1>1, <1>2, <1>3 DEF ProcInv, BirthInv
<1>5. \A q, r \in Pids : proc'[q].born = proc'[r].born /\ proc'[q].born # 0 => q = r
  BY <1>1, <1>2 DEF ProcInv, BirthInv
<1>6. StrangerInv'
  BY <1>1, <1>2, <1>3 DEF ProcInv, StrangerInv
<1>7. QED
  BY <1>4, <1>5, <1>6 DEF BirthInv

LEMMA StrangerStepInv == ASSUME ProcInv, NEW p \in Pids, Stranger(p) PROVE ProcInv'
<1>1. PICK program \in {"agent", "other"}, leads \in BOOLEAN : Born(p, "stranger", program, leads)
  BY DEF Stranger
<1>2. UNCHANGED <<record, call, belay, reap, excused, wronged>>
  BY DEF Stranger, past
<1>3. BirthInv' /\ StrangerInv'
  BY <1>1, <1>2, BirthsKept, ProcessesAssumption DEF ProcessesAssumption
<1>4. /\ proc' \in [Pids -> Procs] /\ starts' \in Nat /\ proc'[p].by = "stranger"
      /\ \A q \in Pids \ {p} : proc'[q] = proc[q]
  BY <1>1, BornInv
<1>5. ProcTypeInv' /\ ReapInv'
  BY <1>2, <1>4 DEF ProcInv, ProcTypeInv, ReapInv
<1>6. KnownInv' /\ OrphanInv'
  <2>1. proc[p].by \notin Calls /\ proc'[p].by \notin Calls
    BY <1>1, <1>4, BornInv, ProcessesAssumption DEF ProcessesAssumption
  <2>2. KnownInv'
    BY <1>2, <1>4, <2>1 DEF ProcInv, KnownInv, Covers
  <2>3. OrphanInv'
    BY <1>2, <1>4 DEF ProcInv, OrphanInv, Covers
  <2>4. QED
    BY <2>2, <2>3
<1>7. QED
  BY <1>3, <1>5, <1>6 DEF ProcInv

\* What was waited for holds its pid no more.
Leaves == /\ proc' \in [Pids -> Procs]
          /\ \A p \in Pids : proc'[p] = proc[p] \/ proc'[p] = Nobody

LEMMA GoneLeaves ==
  ASSUME ProcInv, NEW p, proc' = [proc EXCEPT ![p] = Nobody]
  PROVE  Leaves
<1>1. Nobody \in Procs
  BY DEF Nobody, Procs
<1>2. QED
  BY <1>1 DEF Leaves, ProcInv, ProcTypeInv

LEMMA LeavesInv ==
  ASSUME ProcInv, Leaves, UNCHANGED <<starts, record, belay, reap, excused, wronged>>
  PROVE  BirthInv' /\ StrangerInv' /\ OrphanInv'
<1>1. \A p \in Pids : proc'[p] = Nobody => /\ proc'[p].by = "nobody" /\ proc'[p].born = 0
  BY DEF Nobody
<1>2. BirthInv'
  <2>1. starts \in Nat
    BY DEF ProcInv, ProcTypeInv
  <2>2. QED
    BY <1>1, <2>1, ProcessesAssumption DEF ProcInv, Leaves, BirthInv, ProcessesAssumption
<1>3. StrangerInv'
  BY <1>1 DEF ProcInv, Leaves, StrangerInv
<1>4. OrphanInv'
  BY <1>1 DEF ProcInv, Leaves, OrphanInv, Covers
<1>5. QED
  BY <1>2, <1>3, <1>4

LEMMA CollectedInv == ASSUME ProcInv, NEW p \in Pids, Collected(p) PROVE ProcInv'
<1>1. UNCHANGED <<starts, record, call, belay, reap, excused, wronged>>
      /\ proc' = [proc EXCEPT ![p] = Nobody]
  BY DEF Collected, past
<1>2. Leaves
  BY <1>1, GoneLeaves
<1>3. BirthInv' /\ StrangerInv' /\ OrphanInv'
  BY <1>1, <1>2, LeavesInv
<1>4. ProcTypeInv' /\ ReapInv'
  BY <1>1, <1>2 DEF ProcInv, Leaves, ProcTypeInv, ReapInv
<1>5. KnownInv'
  <2>1. proc[p].by \notin Calls /\ (\A q \in Pids \ {p} : proc'[q] = proc[q]) /\ proc'[p] = Nobody
    BY <1>1 DEF Collected, ProcInv, ProcTypeInv
  <2>2. Nobody.by \notin Calls
    BY ProcessesAssumption DEF Nobody, ProcessesAssumption
  <2>3. QED
    BY <1>1, <2>1, <2>2 DEF ProcInv, KnownInv, Covers
<1>6. QED
  BY <1>3, <1>4, <1>5 DEF ProcInv

(***************************************************************************)
(* Runner.Run.                                                             *)
(***************************************************************************)
\* One call goes on, with belay up; the processes stay.
LEMMA CallGoes ==
  ASSUME ProcInv, NEW c \in Calls, NEW r \in Runs, call' = [call EXCEPT ![c] = r], belay = "up",
         UNCHANGED <<starts, belay, reap, wronged>>
  PROVE  call' \in [Calls -> Runs] /\ call'[c] = r /\ ReapInv'
         /\ \A d \in Calls \ {c} : call'[d] = call[d]
BY DEF ProcInv, ProcTypeInv, ReapInv

\* A record that is begun or taken away bears no start.
LEMMA TrackInv == ASSUME ProcInv, NEW c \in Calls, Track(c) PROVE ProcInv'
<1> DEFINE r == [call[c] EXCEPT !.pc = "tracked"]
           k == [NoRecord EXCEPT !.kept = TRUE]
<1>1. /\ belay = "up" /\ call[c].pc = "idle"
      /\ UNCHANGED <<proc, starts, belay, reap, excused, wronged>>
      /\ call' = [call EXCEPT ![c] = r] /\ record' = [record EXCEPT ![c] = k]
  BY DEF Track, At, To, os, past, ProcInv, ProcTypeInv
<1>2. r \in Runs /\ r.pc = "tracked" /\ k \in ProcRecords /\ k.start = 0
  BY DEF ProcInv, ProcTypeInv, Runs, CallPlaces, ProcRecords, NoRecord
<1> HIDE DEF r, k
<1>3. ReapInv' /\ call' \in [Calls -> Runs] /\ call'[c] = r /\ \A d \in Calls \ {c} : call'[d] = call[d]
  BY <1>1, <1>2, CallGoes
<1>4. record' \in [Calls -> ProcRecords] /\ record'[c] = k /\ \A d \in Calls \ {c} : record'[d] = record[d]
  BY <1>1, <1>2 DEF ProcInv, ProcTypeInv
<1>5. ProcTypeInv'
  BY <1>1, <1>3, <1>4 DEF ProcInv, ProcTypeInv
<1>6. BirthInv' /\ OrphanInv'
  BY <1>1 DEF ProcInv, BirthInv, OrphanInv
<1>7. StrangerInv'
  <2>1. starts >= 0 /\ \A p \in Pids : proc[p].by = "stranger" => proc[p].born # 0
    BY DEF ProcInv, ProcTypeInv, BirthInv
  <2>2. QED
    BY <1>1, <1>2, <1>4, <2>1 DEF ProcInv, StrangerInv
<1>8. KnownInv'
  BY <1>1, <1>2, <1>3, <1>4 DEF ProcInv, KnownInv, Covers
<1>9. QED
  BY <1>3, <1>5, <1>6, <1>7, <1>8 DEF ProcInv

\* A call forgets its process: it never began, or has been waited for.
LEMMA DoneInv ==
  ASSUME ProcInv, NEW c \in Calls, NEW r \in Runs, r.pc = "idle",
         belay = "up", call[c].pc \in {"tracked", "exited"}, Done(c),
         call' = [call EXCEPT ![c] = r], UNCHANGED <<proc, starts, belay, reap, excused, wronged>>
  PROVE  ProcInv'
<1>1. NoRecord \in ProcRecords /\ NoRecord.start = 0
  BY DEF ProcRecords, NoRecord
<1>2. ReapInv' /\ call' \in [Calls -> Runs] /\ call'[c] = r /\ \A d \in Calls \ {c} : call'[d] = call[d]
  BY CallGoes
<1>3. record' \in [Calls -> ProcRecords] /\ record'[c] = NoRecord /\ \A d \in Calls \ {c} : record'[d] = record[d]
  BY <1>1 DEF Done, ProcInv, ProcTypeInv
<1>4. ProcTypeInv'
  BY <1>2, <1>3 DEF ProcInv, ProcTypeInv
<1>5. BirthInv' /\ OrphanInv'
  BY DEF ProcInv, BirthInv, OrphanInv
<1>6. StrangerInv'
  <2>1. starts >= 0 /\ \A p \in Pids : proc[p].by = "stranger" => proc[p].born # 0
    BY DEF ProcInv, ProcTypeInv, BirthInv
  <2>2. QED
    BY <1>1, <1>3, <2>1 DEF ProcInv, StrangerInv
<1>7. KnownInv'
  BY <1>1, <1>2, <1>3 DEF ProcInv, KnownInv, Covers
<1>8. QED
  BY <1>2, <1>4, <1>5, <1>6, <1>7 DEF ProcInv

LEMMA StartFailsInv == ASSUME ProcInv, NEW c \in Calls, StartFails(c) PROVE ProcInv'
<1> DEFINE r == [call[c] EXCEPT !.pc = "idle"]
<1>1. r \in Runs /\ r.pc = "idle"
  BY DEF ProcInv, ProcTypeInv, Runs, CallPlaces
<1>2. call' = [call EXCEPT ![c] = r]
  BY DEF StartFails, To
<1> HIDE DEF r
<1>3. QED
  BY <1>1, <1>2, DoneInv DEF StartFails, At, os, past

LEMMA forgetGroupInv == ASSUME ProcInv, NEW c \in Calls, forgetGroup(c) PROVE ProcInv'
<1>1. Idle \in Runs /\ Idle.pc = "idle"
  BY DEF Idle, Runs, CallPlaces, Watches
<1>2. QED
  BY <1>1, DoneInv DEF forgetGroup, MayForget, os, past

LEMMA StartInv == ASSUME ProcInv, NEW c \in Calls, Start(c) PROVE ProcInv'
<1>1. PICK p \in Pids : /\ Born(p, c, "agent", TRUE)
                        /\ call' = [call EXCEPT ![c].pc = "started", ![c].pid = p]
  BY DEF Start
<1> DEFINE r == [call[c] EXCEPT !.pc = "started", !.pid = p]
<1>2. /\ belay = "up" /\ call[c].pc = "tracked"
      /\ UNCHANGED <<record, belay, reap, excused, wronged>>
  BY DEF Start, At, past
<1>3. r \in Runs /\ r.pc = "started" /\ r.pid = p /\ call' = [call EXCEPT ![c] = r]
  BY <1>1 DEF ProcInv, ProcTypeInv, Runs, CallPlaces
<1> HIDE DEF r
<1>4. /\ starts' \in Nat /\ proc' \in [Pids -> Procs] /\ proc'[p].by = c
      /\ \A q \in Pids \ {p} : proc'[q] = proc[q]
  BY <1>1, BornInv
<1>5. BirthInv' /\ StrangerInv'
  BY <1>1, <1>2, BirthsKept
<1>6. call' \in [Calls -> Runs] /\ call'[c] = r /\ \A d \in Calls \ {c} : call'[d] = call[d]
  BY <1>3 DEF ProcInv, ProcTypeInv
<1>7. ProcTypeInv' /\ ReapInv'
  BY <1>2, <1>4, <1>6 DEF ProcInv, ProcTypeInv, ReapInv
<1>8. OrphanInv'
  BY <1>2, <1>4, ProcessesAssumption DEF ProcInv, OrphanInv, Covers, ProcessesAssumption
<1>9. KnownInv'
  <2>1. proc[p].by = "nobody" /\ \A d \in Calls : d # "nobody"
    BY <1>1, BornInv, ProcessesAssumption DEF ProcessesAssumption
  <2>2. ASSUME NEW d \in Calls PROVE
          /\ call'[d].pc \in {"tracked", "started"} => record'[d].start = 0
          /\ call'[d].pc \in {"started", "waiting"} => call'[d].pid \in Pids /\ proc'[call'[d].pid].by = d
    BY <1>2, <1>3, <1>4, <1>6, <2>1 DEF ProcInv, KnownInv
  <2>3. ASSUME NEW d \in Calls, NEW q \in Pids, proc'[q].by = d PROVE
          /\ belay' = "up" /\ call'[d].pid = q /\ call'[d].pc \in {"started", "waiting"}
          /\ call'[d].pc = "waiting" => Covers(d, q)' \/ proc'[q].born \in excused'
    <3>1. CASE q = p
      BY <1>2, <1>3, <1>4, <1>6, <2>3, <3>1
    <3>2. CASE q # p
      BY <1>2, <1>3, <1>4, <1>6, <2>3, <3>2 DEF ProcInv, KnownInv, Covers
    <3>3. QED
      BY <3>1, <3>2
  <2>4. QED
    BY <2>2, <2>3 DEF KnownInv
<1>10. QED
  BY <1>5, <1>7, <1>8, <1>9 DEF ProcInv

\* The record is filled in as far as it can be: what it does not tell of its
\* process is excused.
LEMMA StartedInv == ASSUME ProcInv, NEW c \in Calls, Started(c) PROVE ProcInv'
<1> DEFINE p == call[c].pid
           r == [call[c] EXCEPT !.pc = "waiting", !.watcher = "watching"]
<1>1. PICK w \in {record[c], [pid |-> p, start |-> proc[p].born, kept |-> TRUE],
                  [pid |-> p, start |-> 0, kept |-> TRUE]} :
        /\ record' = [record EXCEPT ![c] = w]
        /\ excused' = IF w.start = 0 THEN excused \cup {proc[p].born} ELSE excused
  BY DEF Started
<1>2. /\ belay = "up" /\ call[c].pc = "started"
      /\ UNCHANGED <<proc, starts, belay, reap, wronged>>
  BY DEF Started, At, os
<1>3. r \in Runs /\ r.pc = "waiting" /\ r.pid = p /\ call' = [call EXCEPT ![c] = r]
  BY DEF Started, ProcInv, ProcTypeInv, Runs, CallPlaces, Watches
<1> HIDE DEF r
<1>4. ReapInv' /\ call' \in [Calls -> Runs] /\ call'[c] = r /\ \A d \in Calls \ {c} : call'[d] = call[d]
  BY <1>2, <1>3, CallGoes
<1>5. p \in Pids /\ proc[p].by = c /\ record[c].start = 0 /\ proc[p].born \in Nat
  BY <1>2 DEF ProcInv, KnownInv, ProcTypeInv, Procs
<1>6. /\ w \in ProcRecords
      /\ \/ w.start = 0 /\ proc[p].born \in excused'
         \/ w.kept /\ w.pid = p /\ w.start = proc[p].born
  <2>1. CASE w = record[c]
    <3>1. w \in ProcRecords /\ w.start = 0
      BY <1>5, <2>1 DEF ProcInv, ProcTypeInv
    <3>2. QED
      BY <1>1, <3>1
  <2>2. CASE w = [pid |-> p, start |-> proc[p].born, kept |-> TRUE]
    BY <1>1, <1>5, <2>2 DEF ProcRecords
  <2>3. CASE w = [pid |-> p, start |-> 0, kept |-> TRUE]
    <3>1. w \in ProcRecords /\ w.start = 0
      BY <1>5, <2>3 DEF ProcRecords
    <3>2. QED
      BY <1>1, <3>1
  <2>4. QED
    BY <1>1, <2>1, <2>2, <2>3
<1> HIDE DEF p
<1>7. record' \in [Calls -> ProcRecords] /\ record'[c] = w /\ \A d \in Calls \ {c} : record'[d] = record[d]
  BY <1>1, <1>6 DEF ProcInv, ProcTypeInv
<1>8. excused \subseteq excused'
  BY <1>1
<1>9. ProcTypeInv'
  BY <1>2, <1>4, <1>7 DEF ProcInv, ProcTypeInv
<1>10. BirthInv'
  BY <1>2 DEF ProcInv, BirthInv
<1>11. OrphanInv'
  BY <1>2, <1>8 DEF ProcInv, OrphanInv
<1>12. StrangerInv'
  <2>1. starts >= 0 /\ proc[p].born <= starts /\ w.start \in {0, proc[p].born}
    BY <1>5, <1>6 DEF ProcInv, ProcTypeInv, BirthInv
  <2>2. ASSUME NEW q \in Pids, proc[q].by = "stranger" PROVE proc[q].born # w.start
    BY <1>5, <2>1, <2>2, ProcessesAssumption DEF ProcInv, BirthInv, ProcessesAssumption
  <2>3. QED
    BY <1>2, <1>7, <2>1, <2>2 DEF ProcInv, StrangerInv
<1>13. KnownInv'
  <2>1. ASSUME NEW d \in Calls PROVE
          /\ call'[d].pc \in {"tracked", "started"} => record'[d].start = 0
          /\ call'[d].pc \in {"started", "waiting"} => call'[d].pid \in Pids /\ proc'[call'[d].pid].by = d
    BY <1>2, <1>3, <1>4, <1>5, <1>7 DEF ProcInv, KnownInv
  <2>2. ASSUME NEW d \in Calls, NEW q \in Pids, proc'[q].by = d PROVE
          /\ belay' = "up" /\ call'[d].pid = q /\ call'[d].pc \in {"started", "waiting"}
          /\ call'[d].pc = "waiting" => Covers(d, q)' \/ proc'[q].born \in excused'
    <3>1. CASE d = c
      BY <1>2, <1>3, <1>4, <1>5, <1>6, <1>7, <2>2, <3>1 DEF ProcInv, KnownInv, Covers
    <3>2. CASE d # c
      BY <1>2, <1>4, <1>7, <1>8, <2>2, <3>2 DEF ProcInv, KnownInv, Covers
    <3>3. QED
      BY <3>1, <3>2
  <2>3. QED
    BY <2>1, <2>2 DEF KnownInv, Covers
<1>14. QED
  BY <1>4, <1>9, <1>10, <1>11, <1>12, <1>13 DEF ProcInv

LEMMA ReapedInv == ASSUME ProcInv, NEW c \in Calls, Reaped(c) PROVE ProcInv'
<1> DEFINE p == call[c].pid
           r == [call[c] EXCEPT !.pc = "reaped"]
<1>1. /\ belay = "up" /\ call[c].pc = "waiting" /\ proc' = [proc EXCEPT ![p] = Nobody]
      /\ UNCHANGED <<starts, record, belay, reap, excused, wronged>>
  BY DEF Reaped, At, past
<1>2. r \in Runs /\ r.pc = "reaped" /\ call' = [call EXCEPT ![c] = r]
  BY DEF Reaped, To, ProcInv, ProcTypeInv, Runs, CallPlaces
<1>3. p \in Pids /\ proc[p].by = c
  BY <1>1 DEF ProcInv, KnownInv
<1> HIDE DEF p, r
<1>4. Leaves
  BY <1>1, GoneLeaves
<1>5. BirthInv' /\ StrangerInv' /\ OrphanInv'
  BY <1>1, <1>4, LeavesInv
<1>6. ReapInv' /\ call' \in [Calls -> Runs] /\ call'[c] = r /\ \A d \in Calls \ {c} : call'[d] = call[d]
  BY <1>1, <1>2, CallGoes
<1>7. ProcTypeInv'
  BY <1>1, <1>4, <1>6 DEF ProcInv, Leaves, ProcTypeInv
<1>8. proc'[p].by = "nobody" /\ \A q \in Pids \ {p} : proc'[q] = proc[q]
  BY <1>1, <1>3 DEF ProcInv, ProcTypeInv, Nobody
<1>9. \A q \in Pids : proc[q].by = c => q = p
  BY <1>1 DEF ProcInv, KnownInv, p
<1>10. KnownInv'
  <2>1. \A d \in Calls : \A q \in Pids : proc'[q].by = d => proc'[q] = proc[q] /\ d # c
    BY <1>8, <1>9, ProcessesAssumption DEF ProcessesAssumption
  <2>2. \A d \in Calls : call'[d].pc \in {"tracked", "started", "waiting"} => d # c
    BY <1>2, <1>6
  <2>3. \A d \in Calls \ {c} : call[d].pc \in {"started", "waiting"} => call[d].pid # p
    BY <1>3 DEF ProcInv, KnownInv
  <2>4. QED
    BY <1>1, <1>6, <1>8, <2>1, <2>2, <2>3 DEF ProcInv, KnownInv, Covers
<1>11. QED
  BY <1>5, <1>6, <1>7, <1>10 DEF ProcInv

LEMMA WaitEndsInv == ASSUME ProcInv, NEW c \in Calls, WaitEnds(c) PROVE ProcInv'
<1> DEFINE r == [call[c] EXCEPT !.pc = "exited"]
<1>1. /\ belay = "up" /\ call[c].pc = "reaped"
      /\ UNCHANGED <<proc, starts, record, belay, reap, excused, wronged>>
  BY DEF WaitEnds, At, os, past
<1>2. r \in Runs /\ r.pc = "exited" /\ call' = [call EXCEPT ![c] = r]
  BY DEF WaitEnds, To, ProcInv, ProcTypeInv, Runs, CallPlaces
<1> HIDE DEF r
<1>3. ReapInv' /\ call' \in [Calls -> Runs] /\ call'[c] = r /\ \A d \in Calls \ {c} : call'[d] = call[d]
  BY <1>1, <1>2, CallGoes
<1>4. ProcTypeInv' /\ BirthInv' /\ StrangerInv' /\ OrphanInv'
  BY <1>1, <1>3 DEF ProcInv, ProcTypeInv, BirthInv, StrangerInv, OrphanInv, Covers
<1>5. KnownInv'
  BY <1>1, <1>2, <1>3 DEF ProcInv, KnownInv, Covers
<1>6. QED
  BY <1>3, <1>4, <1>5 DEF ProcInv

LEMMA WatcherCalm ==
  ASSUME ProcInv, NEW c \in Calls, NEW w \in Watches, belay = "up", To(c, "watcher", w)
  PROVE  Calm
<1> DEFINE r == [call[c] EXCEPT !.watcher = w]
<1>1. r \in Runs /\ r.pc = call[c].pc /\ r.pid = call[c].pid /\ call' = [call EXCEPT ![c] = r]
  BY DEF To, ProcInv, ProcTypeInv, Runs
<1> HIDE DEF r
<1>2. QED
  BY <1>1 DEF Calm, ProcInv, ProcTypeInv

\* The watcher only looks, waits and signals.
LEMMA WatcherInv ==
  ASSUME ProcInv, NEW c \in Calls,
         ContextEnds(c) \/ WatchEnds(c) \/ signalGroup(c) \/ terminateGroup(c) \/ Signal(c)
  PROVE  ProcInv'
<1>1. PICK w \in Watches : To(c, "watcher", w)
  BY DEF ContextEnds, WatchEnds, signalGroup, terminateGroup, Signal, After, Watches
<1>2. belay = "up" /\ UNCHANGED <<starts, record, belay, reap, excused, wronged>>
  BY DEF ContextEnds, WatchEnds, signalGroup, terminateGroup, Signal, Watch, os, past
<1>3. Aged
  <2>1. CASE Signal(c)
    BY <2>1, KillGroupAges, KillProcessAges DEF Signal
  <2>2. CASE ~ Signal(c)
    <3>1. UNCHANGED proc
      BY <2>2 DEF ContextEnds, WatchEnds, signalGroup, terminateGroup, os
    <3>2. QED
      BY <3>1 DEF Aged, ProcInv, ProcTypeInv
  <2>3. QED
    BY <2>1, <2>2
<1>4. Calm
  BY <1>1, <1>2, WatcherCalm
<1>5. QED
  BY <1>2, <1>3, <1>4, AgedInv

(***************************************************************************)
(* The death of belay, and Reap.                                           *)
(***************************************************************************)
LEMMA DieInv == ASSUME ProcInv, Die PROVE ProcInv'
<1>1. /\ belay' = "down" /\ reap' = NoReap /\ call' = [c \in Calls |-> Idle]
      /\ proc' = [p \in Pids |-> IF proc[p].by \in Calls THEN [proc[p] EXCEPT !.by = "orphan"] ELSE proc[p]]
      /\ UNCHANGED <<starts, record, wronged>>
  BY DEF Die
<1>2. excused \subseteq excused'
  BY DEF Die
<1>3. \A p \in Pids, c \in Calls : proc[p].by = c /\ call[c].pc = "started" => proc[p].born \in excused'
  BY DEF Die
<1>4. \A p \in Pids :
        /\ proc'[p] \in Procs /\ proc'[p].by \notin Calls
        /\ proc'[p].born = proc[p].born /\ proc'[p].leads = proc[p].leads
        /\ proc'[p].program = proc[p].program /\ proc'[p].state = proc[p].state
        /\ proc'[p].by = "orphan" => proc[p].by \in Calls \cup {"orphan"}
        /\ proc'[p].by # "orphan" => proc'[p].by = proc[p].by
        /\ proc'[p].by # "nobody" => proc[p].by # "nobody"
  <2> TAKE p \in Pids
  <2>1. proc[p] \in Procs
    BY DEF ProcInv, ProcTypeInv
  <2>2. CASE proc[p].by \in Calls
    <3>1. proc'[p] = [proc[p] EXCEPT !.by = "orphan"]
      BY <1>1, <2>2
    <3>2. QED
      BY <2>1, <2>2, <3>1, ProcessesAssumption DEF Procs, ProcessesAssumption
  <2>3. CASE proc[p].by \notin Calls
    <3>1. proc'[p] = proc[p]
      BY <1>1, <2>3
    <3>2. QED
      BY <2>1, <2>3, <3>1
  <2>4. QED
    BY <2>2, <2>3
<1>5. Idle \in Runs /\ Idle.pc = "idle" /\ NoReap \in Reaps /\ NoReap.seen = 0 /\ NoReap.step = "none"
  BY DEF Idle, Runs, CallPlaces, Watches, NoReap, Reaps
<1>6. ProcTypeInv'
  <2>1. proc' \in [Pids -> Procs] /\ call' \in [Calls -> Runs]
    BY <1>1, <1>4, <1>5
  <2>2. QED
    BY <1>1, <1>5, <2>1 DEF ProcInv, ProcTypeInv
<1>7. BirthInv'
  BY <1>1, <1>4 DEF ProcInv, BirthInv
<1>8. StrangerInv'
  <2>1. starts >= 0 /\ \A p \in Pids : proc[p].by = "stranger" => proc[p].born # 0
    BY DEF ProcInv, ProcTypeInv, BirthInv
  <2>2. QED
    BY <1>1, <1>4, <1>5, <2>1 DEF ProcInv, StrangerInv
<1>9. KnownInv'
  BY <1>1, <1>4, <1>5 DEF KnownInv
<1>10. OrphanInv'
  <2> SUFFICES ASSUME NEW p \in Pids, proc'[p].by = "orphan", proc'[p].state = "runs",
                      proc'[p].born \notin excused'
               PROVE  \E c \in Calls : Covers(c, p)'
    BY <1>1 DEF OrphanInv
  <2>1. CASE proc[p].by = "orphan"
    BY <1>1, <1>2, <1>4, <2>1 DEF ProcInv, OrphanInv, Covers
  <2>2. CASE proc[p].by \in Calls
    BY <1>1, <1>2, <1>3, <1>4, <2>2 DEF ProcInv, KnownInv, Covers
  <2>3. QED
    BY <1>4, <2>1, <2>2
<1>11. ReapInv'
  BY <1>1, <1>5 DEF ReapInv
<1>12. QED
  BY <1>6, <1>7, <1>8, <1>9, <1>10, <1>11 DEF ProcInv

LEMMA HealInv == ASSUME ProcInv, Heal PROVE ProcInv'
<1>1. UNCHANGED <<proc, starts, record, call, reap, excused, wronged>> /\ belay # "up"
      /\ belay' \in {"up", "healing"} /\ (belay' = "up" => reap = NoReap /\ \A c \in Calls : ~ record[c].kept)
      /\ (belay' = "healing" => belay = "down")
  BY DEF Heal, os, past
<1>2. ProcTypeInv' /\ BirthInv' /\ StrangerInv' /\ KnownInv'
  BY <1>1 DEF ProcInv, ProcTypeInv, BirthInv, StrangerInv, KnownInv, Covers
<1>3. OrphanInv'
  BY <1>1 DEF ProcInv, OrphanInv, Covers
<1>4. ReapInv'
  BY <1>1 DEF ProcInv, ReapInv, NoReap
<1>5. QED
  BY <1>2, <1>3, <1>4 DEF ProcInv

\* A record is spent once it covers nothing that runs.
LEMMA SpendInv ==
  ASSUME ProcInv, NEW c \in Calls, Spend(c), belay # "up", Aged, UNCHANGED starts,
         excused \subseteq excused', wronged' = FALSE,
         \A p \in Pids : Covers(c, p) /\ proc'[p].by = "orphan" /\ proc'[p].state = "runs"
                           => proc'[p].born \in excused'
  PROVE  ProcInv'
<1>1. /\ record' = [record EXCEPT ![c] = NoRecord] /\ reap' = NoReap /\ UNCHANGED <<call, belay>>
  BY DEF Spend, Done
<1>2. /\ NoRecord \in ProcRecords /\ NoRecord.start = 0
      /\ NoReap \in Reaps /\ NoReap.seen = 0 /\ NoReap.step = "none"
  BY DEF ProcRecords, NoRecord, NoReap, Reaps
<1>3. record' \in [Calls -> ProcRecords] /\ record'[c] = NoRecord /\ \A d \in Calls \ {c} : record'[d] = record[d]
  BY <1>1, <1>2 DEF ProcInv, ProcTypeInv
<1>4. ProcTypeInv'
  BY <1>1, <1>2, <1>3 DEF ProcInv, ProcTypeInv, Aged
<1>5. BirthInv'
  BY DEF ProcInv, BirthInv, Aged
<1>6. StrangerInv'
  <2>1. starts >= 0 /\ \A p \in Pids : proc[p].by = "stranger" => proc[p].born # 0
    BY DEF ProcInv, ProcTypeInv, BirthInv
  <2>2. QED
    BY <1>1, <1>2, <1>3, <2>1 DEF ProcInv, StrangerInv, Aged
<1>7. KnownInv'
  BY <1>1 DEF ProcInv, KnownInv, ReapInv, Idle, Aged
<1>8. OrphanInv'
  BY <1>1, <1>3 DEF ProcInv, OrphanInv, Covers, Aged
<1>9. ReapInv'
  BY <1>1, <1>2 DEF ProcInv, ReapInv
<1>10. QED
  BY <1>4, <1>5, <1>6, <1>7, <1>8, <1>9 DEF ProcInv

LEMMA ReadRecordInv == ASSUME ProcInv, ReadRecord PROVE ProcInv'
<1>1. PICK c \in Calls :
        /\ belay = "healing" /\ reap = NoReap /\ UNCHANGED os
        /\ \/ /\ ~ (Named(record[c]) /\ SameStart(record[c]))
              /\ Spend(c) /\ UNCHANGED past
           \/ /\ Named(record[c]) /\ Spend(c) /\ excused' = excused \cup {record[c].start}
              /\ UNCHANGED wronged
           \/ /\ Named(record[c]) /\ SameStart(record[c])
              /\ reap' = [call |-> c, step |-> "group", seen |-> proc[record[c].pid].born]
              /\ UNCHANGED <<record, call, belay, crashes, past>>
  BY DEF ReadRecord
<1>2. Aged /\ UNCHANGED <<proc, starts>> /\ wronged = FALSE
  BY <1>1 DEF os, Aged, ProcInv, ProcTypeInv, StrangerInv
<1>3. \A p \in Pids : Covers(c, p) /\ proc[p].by = "orphan" => Named(record[c]) /\ SameStart(record[c])
  BY ProcessesAssumption DEF Covers, Named, SameStart, ProcInv, BirthInv, ProcessesAssumption
<1>4. CASE ~ (Named(record[c]) /\ SameStart(record[c])) /\ Spend(c) /\ UNCHANGED past
  BY <1>1, <1>2, <1>3, <1>4, SpendInv DEF past
<1>5. CASE Named(record[c]) /\ Spend(c) /\ excused' = excused \cup {record[c].start} /\ UNCHANGED wronged
  <2>1. excused \subseteq excused'
    BY <1>5
  <2>2. \A p \in Pids : Covers(c, p) => proc'[p].born \in excused'
    BY <1>2, <1>5 DEF Covers
  <2>3. QED
    BY <1>1, <1>2, <1>5, <2>1, <2>2, SpendInv
<1>6. CASE /\ Named(record[c]) /\ SameStart(record[c])
           /\ reap' = [call |-> c, step |-> "group", seen |-> proc[record[c].pid].born]
           /\ UNCHANGED <<record, call, belay, crashes, past>>
  <2>1. record[c].pid \in Pids /\ record[c].start \in Nat
    BY <1>6 DEF Named, ProcInv, ProcTypeInv, ProcRecords
  <2>2. /\ reap' \in Reaps /\ reap'.call = c /\ reap'.step = "group" /\ reap'.seen = record[c].start
    BY <1>6, <2>1 DEF Reaps, SameStart
  <2>3. ProcTypeInv' /\ BirthInv' /\ KnownInv' /\ OrphanInv'
    BY <1>2, <1>6, <2>2 DEF ProcInv, ProcTypeInv, BirthInv, KnownInv, OrphanInv, Covers, past
  <2>4. StrangerInv'
    BY <1>2, <1>6, <2>2 DEF ProcInv, StrangerInv, past
  <2>5. ReapInv'
    BY <1>1, <1>6, <2>1, <2>2 DEF ProcInv, ReapInv
  <2>6. QED
    BY <2>3, <2>4, <2>5 DEF ProcInv
<1>7. QED
  BY <1>1, <1>4, <1>5, <1>6

\* Looking on at a process whose record there is.
LEMMA LookInv ==
  ASSUME ProcInv, NEW s \in {"program", "kill"}, reap.step # "none", Look(s), UNCHANGED <<os, past>>
  PROVE  ProcInv'
<1>1. /\ UNCHANGED <<proc, starts, record, call, belay, excused, wronged>>
      /\ reap' = [reap EXCEPT !.step = s]
  BY DEF Look, os, past
<1>2. reap' \in Reaps /\ reap'.call = reap.call /\ reap'.seen = reap.seen
  BY <1>1 DEF ProcInv, ProcTypeInv, Reaps
<1>3. ProcTypeInv' /\ BirthInv' /\ KnownInv' /\ OrphanInv'
  BY <1>1, <1>2 DEF ProcInv, ProcTypeInv, BirthInv, KnownInv, OrphanInv, Covers
<1>4. StrangerInv' /\ ReapInv'
  BY <1>1, <1>2 DEF ProcInv, StrangerInv, ReapInv
<1>5. QED
  BY <1>3, <1>4 DEF ProcInv

\* A group leader of another program is no orphan.
LEMMA CheckInv == ASSUME ProcInv, CheckGroup \/ CheckProgram PROVE ProcInv'
<1> DEFINE c == reap.call
<1>1. c \in Calls /\ belay # "up" /\ reap.step # "none" /\ UNCHANGED <<os, past>>
  BY DEF CheckGroup, CheckProgram, ProcInv, ReapInv
<1>2. \/ Look("program") \/ Look("kill")
      \/ Spend(c) /\ ~ (Leads(record[c]) /\ sameProgram(proc[record[c].pid].program))
  BY DEF CheckGroup, CheckProgram
<1>3. CASE Spend(c) /\ ~ (Leads(record[c]) /\ sameProgram(proc[record[c].pid].program))
  <2>1. Aged /\ UNCHANGED <<proc, starts, excused, wronged>> /\ wronged = FALSE
    BY <1>1 DEF os, past, Aged, ProcInv, ProcTypeInv, StrangerInv
  <2>2. \A p \in Pids : Covers(c, p) => proc[p].by # "orphan"
    BY <1>3 DEF Covers, Leads, sameProgram, ProcInv, BirthInv
  <2> HIDE DEF c
  <2>3. QED
    BY <1>1, <1>3, <2>1, <2>2, SpendInv
<1>4. QED
  BY <1>1, <1>2, <1>3, LookInv

\* What is struck is the recorded process, or one more of belay's own.
LEMMA KillInv == ASSUME ProcInv, Kill PROVE ProcInv'
<1> DEFINE c == reap.call
           p == record[c].pid
<1>1. c \in Calls /\ belay # "up" /\ p \in Pids /\ Spend(c) /\ UNCHANGED <<starts, excused>>
  BY DEF Kill, ProcInv, ReapInv
<1>2. wronged' = FALSE
  BY <1>1 DEF Kill, ProcInv, StrangerInv
<1>3. Aged /\ (proc[p].leads = TRUE => proc'[p].state # "runs")
  <2>1. CASE HasGroup(p)
    <3>1. KillGroup(p, "KILL")
      BY <2>1 DEF Kill
    <3>2. Aged
      BY <3>1, KillGroupAges
    <3>3. proc' = [proc EXCEPT ![p] = IF @.leads THEN Exited(@, TRUE) ELSE @]
      BY <3>1 DEF KillGroup, Deaths
    <3>4. ASSUME proc[p].leads = TRUE PROVE proc'[p] = Exited(proc[p], TRUE)
      BY <1>1, <3>3, <3>4 DEF ProcInv, ProcTypeInv
    <3>5. proc[p] \in Procs
      BY <1>1 DEF ProcInv, ProcTypeInv
    <3>6. QED
      BY <3>2, <3>4, <3>5 DEF Exited, Procs
  <2>2. CASE ~ HasGroup(p)
    BY <2>2 DEF Kill, HasGroup, Aged, ProcInv, ProcTypeInv
  <2>3. QED
    BY <2>1, <2>2
<1>4. \A q \in Pids : Covers(c, q) /\ proc'[q].by = "orphan" => proc'[q].state # "runs"
  BY <1>1, <1>3 DEF Covers, Aged, ProcInv, BirthInv
<1> HIDE DEF c, p
<1>5. QED
  BY <1>1, <1>2, <1>3, <1>4, SpendInv

-----------------------------------------------------------------------------
LEMMA NextProc == ASSUME ProcInv, [Next]_vars PROVE ProcInv'
<1>1. CASE UNCHANGED vars
  BY <1>1 DEF vars, os, past, ProcInv, ProcTypeInv, BirthInv, StrangerInv, KnownInv, OrphanInv, ReapInv, Covers
<1>2. ASSUME NEW c \in Calls,
             Track(c) \/ Start(c) \/ StartFails(c) \/ ContextEnds(c) \/ Run(c) \/ Fork(c)
      PROVE  ProcInv'
  BY <1>2, TrackInv, StartInv, StartFailsInv, StartedInv, ReapedInv, WaitEndsInv, WatcherInv,
     forgetGroupInv, ForkInv DEF Run
<1>3. ASSUME NEW p \in Pids, Stranger(p) \/ Collected(p) PROVE ProcInv'
  BY <1>3, StrangerStepInv, CollectedInv
<1>4. CASE Exit \/ Die \/ Reap
  BY <1>4, ExitInv, DieInv, HealInv, ReadRecordInv, CheckInv, KillInv DEF Reap
<1>5. QED
  BY <1>1, <1>2, <1>3, <1>4 DEF Next

\* internal/procgroup: however belay and the agents it started die, and
\* whoever is given their pids, the belay that follows kills what was left
\* running and has a record, and never what it did not start.
THEOREM OnlyItsOwnAreReaped == Spec => []ReapsItsOwn
<1>1. Spec => []ProcInv
  BY InitProc, NextProc, PTL DEF Spec
<1>2. ProcInv => ReapsItsOwn
  BY DEF ProcInv, OrphanInv, StrangerInv, ReapsItsOwn, OrphansAreReaped, StrangersSpared
<1>3. QED
  BY <1>1, <1>2, PTL

-----------------------------------------------------------------------------
(***************************************************************************)
(* McpSession.  An answer is told from the frames around it by its id      *)
(* alone: the frames under way bear the id of what they answer or none,    *)
(* and the client's record of the tools is the last list it stored.        *)
(***************************************************************************)
Ops           == {"none", "initialize", "list", "call"}
SessionPlaces == {"idle", "begun", "awaits", "answered", "notifies"}
\* Frames that bear the id of the request they answer, or none.
Honest   == {f \in [id : Nat, about : Nat, body : SUBSET Tools] : f.id = 0 \/ f.id = f.about}
Sessions == [pc : SessionPlaces, op : Ops, tool : Tools \cup {"none"}, since : Nat,
             id : Nat, got : Honest \cup {[about |-> 0]}]
Requests == [op : Ops, id : Nat]

SessionTypeInv ==
  /\ nextID \in Nat
  /\ session \in [Callers -> Sessions]
  /\ pipe \in Seq(Honest)
  /\ asked \in SUBSET Requests
  /\ lists \in Seq(SUBSET Tools)

\* The list a call's tool was looked up in named it.
Listed(s) == s.since \in 1 .. Len(lists) /\ s.tool \in lists[s.since]

\* What a call of c's may rely on: a request has an id, its answer is its
\* own, and a tool that is called was listed.
RequestInv(c) ==
  /\ CallAt(c, "awaits") => session[c].id # 0
  /\ CallAt(c, "answered") => session[c].got \in Honest /\ session[c].got.about = session[c].id
  /\ session[c].op = "call" => Listed(session[c])

SessionInv ==
  /\ SessionTypeInv
  /\ \A c \in Callers : RequestInv(c)
  /\ tools = IF lists = <<>> THEN {} ELSE lists[Len(lists)]

-----------------------------------------------------------------------------
LEMMA InitSession == SessionInit => SessionInv
BY DEF SessionInit, SessionInv, SessionTypeInv, RequestInv, CallAt, NoRequest, Sessions, SessionPlaces, Ops

LEMMA IdleIsACall == NoRequest \in Sessions /\ NoRequest.op # "call" /\ NoRequest.pc = "idle"
BY DEF NoRequest, Sessions, SessionPlaces, Ops

\* A call that is given up, or over, leaves the others as they were.
LEMMA FailKeeps ==
  ASSUME SessionInv, NEW c \in Callers, Fail(c),
         \A s \in Sessions : Listed(s) => Listed(s)'
  PROVE  session' \in [Callers -> Sessions] /\ \A d \in Callers : RequestInv(d)'
BY IdleIsACall DEF SessionInv, SessionTypeInv, Fail, RequestInv, CallAt

\* Whatever the server writes is honest.
LEMMA MayWriteHonest ==
  ASSUME SessionInv, NEW f \in MayWrite
  PROVE  f \in Honest
BY DEF SessionInv, SessionTypeInv, Requests, MayWrite, Bodies, Frame, Honest

LEMMA WriteInv == ASSUME SessionInv, ServerWrites PROVE SessionInv'
<1>1. pipe' \in Seq(Honest) /\ asked' \in SUBSET Requests
  BY MayWriteHonest DEF ServerWrites, SessionInv, SessionTypeInv
<1>2. QED
  BY <1>1 DEF ServerWrites, SessionInv, SessionTypeInv, RequestInv, CallAt, client, Listed

LEMMA StopInv == ASSUME SessionInv, Stop PROVE SessionInv'
BY DEF Stop, SessionInv, SessionTypeInv, RequestInv, CallAt, client, Listed

LEMMA BeginInv ==
  ASSUME SessionInv, NEW c \in Callers, NEW op \in {"initialize", "list", "call"}, NEW t \in Tools,
         Begin(c, op, t)
  PROVE  SessionInv'
<1>1. UNCHANGED <<nextID, pipe, asked, tools, lists>>
  BY DEF Begin, client, server
<1> DEFINE new == [NoRequest EXCEPT !.pc = "begun", !.op = op, !.tool = t,
                                !.since = Len(lists)]
<1>2. new \in Sessions /\ new.pc = "begun" /\ new.op = op /\ new.tool = t /\ new.since = Len(lists)
  <2>1. Len(lists) \in Nat
    BY DEF SessionInv, SessionTypeInv
  <2>2. QED
    BY <2>1 DEF NoRequest, Sessions, SessionPlaces, Ops
<1>3. op = "call" => Listed(new)
  BY <1>2 DEF Begin, Allowed, hasTool, SessionInv, SessionTypeInv, Listed
<1>4. session' = [session EXCEPT ![c] = new]
  BY DEF Begin
<1> HIDE DEF new
<1>5. session' \in [Callers -> Sessions] /\ \A d \in Callers : RequestInv(d)'
  BY <1>1, <1>2, <1>3, <1>4 DEF SessionInv, SessionTypeInv, RequestInv, CallAt, Listed
<1>6. QED
  BY <1>1, <1>5 DEF SessionInv, SessionTypeInv

\* What an exchange over HTTP brings is honest too.
LEMMA RepliesHonest ==
  ASSUME SessionInv, NEW c \in Callers, NEW more \in Brought(c)
  PROVE  more \in Seq(Honest)
<1>1. Request(c) \in Requests
  BY DEF SessionInv, SessionTypeInv, Request, Requests, Sessions
<1> DEFINE answers == {Frame(r.id, r.id, b) : r \in asked \cup {Request(c)}, b \in Bodies(Request(c))}
           some    == answers \cup {Frame(0, 0, {})}
<1>2. some \subseteq Honest
  <2>1. asked \subseteq Requests
    BY DEF SessionInv, SessionTypeInv
  <2>2. QED
    BY <1>1, <2>1 DEF Requests, Bodies, Frame, Honest
<1>3. more \in {<<>>} \cup {<<f>> : f \in some} \cup {<<f, g>> : f \in some, g \in some}
  BY DEF Brought
<1> HIDE DEF some
<1>4. CASE more = <<>>
  BY <1>4
<1>5. CASE more \in {<<f>> : f \in some}
  <2>1. PICK f \in some : more = <<f>>
    BY <1>5
  <2>2. QED
    BY <1>2, <2>1
<1>6. CASE more \in {<<f, g>> : f \in some, g \in some}
  <2>1. PICK f \in some, g \in some : more = <<f, g>>
    BY <1>6
  <2>2. QED
    BY <1>2, <2>1
<1>7. QED
  BY <1>3, <1>4, <1>5, <1>6

LEMMA SendInv == ASSUME SessionInv, NEW c \in Callers, Send(c) PROVE SessionInv'
<1>1. UNCHANGED <<tools, lists>> /\ nextID' = nextID + 1
      /\ session' = [session EXCEPT ![c].pc = "awaits", ![c].id = nextID + 1]
  BY DEF Send
<1>2. nextID' \in Nat /\ asked' \in SUBSET Requests
  BY DEF Send, SessionInv, SessionTypeInv, Request, Requests, Sessions
<1>3. pipe' \in Seq(Honest)
  <2>1. CASE kind = "stdio"
    BY <2>1 DEF Send, SessionInv, SessionTypeInv
  <2>2. CASE kind # "stdio"
    <3>1. PICK more \in Brought(c) : pipe' = pipe \o more
      BY <2>2 DEF Send
    <3>2. QED
      BY <3>1, RepliesHonest DEF SessionInv, SessionTypeInv
  <2>3. QED
    BY <2>1, <2>2
<1>4. session' \in [Callers -> Sessions] /\ \A d \in Callers : RequestInv(d)'
  <2> DEFINE new == [session[c] EXCEPT !.pc = "awaits", !.id = nextID + 1]
  <2>1. session[c] \in Sessions /\ nextID + 1 \in Nat /\ nextID + 1 # 0
    BY DEF SessionInv, SessionTypeInv
  <2>2. /\ new \in Sessions /\ new.pc = "awaits" /\ new.id # 0
        /\ new.op = session[c].op /\ new.tool = session[c].tool /\ new.since = session[c].since
    BY <2>1 DEF Sessions, SessionPlaces
  <2>3. session' = [session EXCEPT ![c] = new]
    BY <1>1 DEF SessionInv, SessionTypeInv
  <2> HIDE DEF new
  <2>4. session' \in [Callers -> Sessions]
    BY <2>2, <2>3 DEF SessionInv, SessionTypeInv
  <2>5. ASSUME NEW d \in Callers PROVE RequestInv(d)'
    BY <1>1, <2>2, <2>3, <2>5 DEF SessionInv, SessionTypeInv, RequestInv, CallAt, Listed
  <2>6. QED
    BY <2>4, <2>5
<1>5. QED
  BY <1>1, <1>2, <1>3, <1>4 DEF SessionInv, SessionTypeInv

\* An id names one request: what bears it answers that one.
LEMMA RecvInv == ASSUME SessionInv, NEW c \in Callers, Recv(c) PROVE SessionInv'
<1>1. /\ UNCHANGED <<nextID, asked, tools, lists>>
      /\ CallAt(c, "awaits") /\ pipe # <<>> /\ pipe' = Tail(pipe)
  BY DEF Recv, client, server
<1>2. Head(pipe) \in Honest /\ pipe' \in Seq(Honest)
  BY <1>1 DEF SessionInv, SessionTypeInv
<1>3. session' \in [Callers -> Sessions] /\ \A d \in Callers : RequestInv(d)'
  <2>1. CASE matchID(Head(pipe), session[c].id)
    <3>1. Head(pipe).about = session[c].id
      BY <1>1, <1>2, <2>1 DEF SessionInv, RequestInv, matchID, Honest
    <3>2. session' = [session EXCEPT ![c].pc = "answered", ![c].got = Head(pipe)]
      BY <2>1 DEF Recv
    <3> DEFINE new == [session[c] EXCEPT !.pc = "answered", !.got = Head(pipe)]
    <3>3. session[c] \in Sessions
      BY DEF SessionInv, SessionTypeInv
    <3>4. /\ new \in Sessions /\ new.pc = "answered" /\ new.got = Head(pipe)
          /\ new.id = session[c].id /\ new.op = session[c].op /\ new.tool = session[c].tool
          /\ new.since = session[c].since
      BY <1>2, <3>3 DEF Sessions, SessionPlaces
    <3>5. session' = [session EXCEPT ![c] = new]
      BY <3>2 DEF SessionInv, SessionTypeInv
    <3> HIDE DEF new
    <3>6. session' \in [Callers -> Sessions]
      BY <3>4, <3>5 DEF SessionInv, SessionTypeInv
    <3>7. ASSUME NEW d \in Callers PROVE RequestInv(d)'
      BY <1>1, <1>2, <3>1, <3>4, <3>5 DEF SessionInv, SessionTypeInv, RequestInv, CallAt, Listed
    <3>8. QED
      BY <3>6, <3>7
  <2>2. CASE ~ matchID(Head(pipe), session[c].id)
    BY <1>1, <2>2 DEF Recv, SessionInv, SessionTypeInv, RequestInv, CallAt, Listed
  <2>3. QED
    BY <2>1, <2>2
<1>4. QED
  BY <1>1, <1>2, <1>3 DEF SessionInv, SessionTypeInv

\* What a list that was answered names are tools.
LEMMA ListsOfTools ==
  ASSUME SessionInv, NEW c \in Callers, CallAt(c, "answered")
  PROVE  session[c].got.body \in SUBSET Tools
BY DEF SessionInv, RequestInv, Honest

\* Calls that come to nothing, or to their end, without a word of the server.
LEMMA OverInv ==
  ASSUME SessionInv, NEW c \in Callers,
         SendFails(c) \/ RecvFails(c) \/ Deadline(c) \/ Refused(c) \/ notify(c)
           \/ CallTool(c) \/ ListTools(c)
  PROVE  SessionInv'
<1>1. Fail(c) /\ nextID' \in Nat /\ UNCHANGED <<pipe, asked>>
  BY DEF SendFails, RecvFails, Deadline, Refused, notify, CallTool, ListTools,
         client, server, SessionInv, SessionTypeInv
<1>2. \/ UNCHANGED <<tools, lists>>
      \/ tools' \in SUBSET Tools /\ lists' = Append(lists, tools')
  <2>1. CASE ListTools(c)
    BY <2>1, ListsOfTools DEF ListTools
  <2>2. CASE ~ ListTools(c)
    BY <2>2 DEF SendFails, RecvFails, Deadline, Refused, notify, CallTool, client, server
  <2>3. QED
    BY <2>1, <2>2
<1>3. /\ lists' \in Seq(SUBSET Tools)
      /\ tools' = IF lists' = <<>> THEN {} ELSE lists'[Len(lists')]
      /\ \A s \in Sessions : Listed(s) => Listed(s)'
  <2>1. CASE UNCHANGED <<tools, lists>>
    BY <2>1 DEF SessionInv, SessionTypeInv, Listed
  <2>2. CASE tools' \in SUBSET Tools /\ lists' = Append(lists, tools')
    BY <2>2 DEF SessionInv, SessionTypeInv, Listed, Sessions
  <2>3. QED
    BY <1>2, <2>1, <2>2
<1>4. QED
  BY <1>1, <1>3, FailKeeps DEF SessionInv, SessionTypeInv

LEMMA InitializeInv == ASSUME SessionInv, NEW c \in Callers, Initialize(c) PROVE SessionInv'
<1>1. /\ UNCHANGED <<nextID, pipe, asked, tools, lists>>
      /\ session' = [session EXCEPT ![c].pc = "notifies"]
  BY DEF Initialize, Goto, server
<1>2. session' \in [Callers -> Sessions] /\ \A d \in Callers : RequestInv(d)'
  <2>1. session' \in [Callers -> Sessions]
    BY <1>1 DEF SessionInv, SessionTypeInv, Sessions, SessionPlaces
  <2>2. ASSUME NEW d \in Callers PROVE RequestInv(d)'
    BY <1>1 DEF SessionInv, SessionTypeInv, RequestInv, CallAt, Sessions, Listed
  <2>3. QED
    BY <2>1, <2>2
<1>3. QED
  BY <1>1, <1>2 DEF SessionInv, SessionTypeInv

-----------------------------------------------------------------------------
LEMMA NextSession == ASSUME SessionInv, [SessionNext]_sessionVars PROVE SessionInv'
<1>1. CASE UNCHANGED sessionVars
  BY <1>1 DEF sessionVars, client, server, SessionInv, SessionTypeInv, RequestInv, CallAt,
     Listed
<1>2. CASE ServerWrites \/ Stop
  BY <1>2, WriteInv, StopInv
<1>3. ASSUME NEW c \in Callers, Client(c) PROVE SessionInv'
  BY <1>3, SendInv, RecvInv, OverInv, InitializeInv DEF Client
<1>4. ASSUME NEW c \in Callers, NEW op \in {"initialize", "list", "call"}, NEW t \in Tools,
             Begin(c, op, t)
      PROVE  SessionInv'
  BY <1>4, BeginInv
<1>5. QED
  BY <1>1, <1>2, <1>3, <1>4 DEF SessionNext

LEMMA SessionSpecInv == SessionSpec => []SessionInv
BY InitSession, NextSession, PTL DEF SessionSpec

\* client.go, call: a caller that is answered is answered what it asked, for
\* any number of calls given up, late answers and frames of the server's own.
THEOREM AnswersAreTheirOwn == SessionSpec => []AnswersMatch
<1>1. SessionInv => AnswersMatch
  BY DEF SessionInv, RequestInv, AnswersMatch
<1>2. QED
  BY SessionSpecInv, <1>1, PTL

\* client.go, CallTool: a tool is called only where the list the client had
\* when the call looked named it, however lists and calls of other goroutines
\* interleave.
THEOREM CallsAreOfListedTools == SessionSpec => []OnlyAdvertised
<1>1. SessionInv => OnlyAdvertised
  BY DEF SessionInv, SessionTypeInv, RequestInv, Listed, OnlyAdvertised, Called
<1>2. QED
  BY SessionSpecInv, <1>1, PTL

\* client.go: both, of every session over either transport.
THEOREM RepliesAreTheirOwn == SessionSpec => []ReplyIsItsOwn
<1>1. AnswersMatch /\ OnlyAdvertised => ReplyIsItsOwn
  BY DEF ReplyIsItsOwn
<1>2. QED
  BY AnswersAreTheirOwn, CallsAreOfListedTools, <1>1, PTL

-----------------------------------------------------------------------------
(***************************************************************************)
(* The lint gate.                                                          *)
(***************************************************************************)
Changes  == {"same", "absent", "rewritten", "cut", "created", "hidden", "landed"}
Commands == {"agent", "ls-tree", "check-ignore", "diff", "ls-files", "tool"}

\* A file the run made has no line that was there before.
FoundInv ==
  /\ change \in [Sources -> Changes] /\ found \in [Sources -> SUBSET Findings]
  /\ \A f \in Sources : change[f] = "created" => "old-line" \notin found[f]
  /\ edited \in Nat

\* A change set that was read is the change's, and it is read to the end or
\* not used.
ScopeInv ==
  /\ asking \in Commands
  /\ asking \in {"diff", "ls-files"} => linter = "ruff" /\ ~ IgnoresNew
  /\ asking = "ls-files" => set = DiffOf
  /\ asking = "tool" /\ scope =>
       ~ IgnoresNew /\ (linter = "ruff" => set = [DiffOf EXCEPT !.whole = Untracked])

LintInv == FoundInv /\ ScopeInv /\ GateIsTheChanges

LEMMA LintInitInv == ASSUME LintInit PROVE LintInv
<1>1. change \in [Sources -> Changes] /\ \A f \in Sources : change[f] # "created"
  BY DEF LintInit, Changes
<1>2. found \in [Sources -> SUBSET Findings] /\ edited \in Nat
  BY DEF LintInit, Findings
<1>3. ScopeInv /\ GateIsTheChanges
  BY DEF LintInit, ScopeInv, GateIsTheChanges, LintPassIsReal, DebtIsNotTheRuns, Commands
<1>. QED  BY <1>1, <1>2, <1>3 DEF LintInv, FoundInv

\* A step of the gate before the tool answers for nothing yet.
LEMMA AskingKeepsTheGate ==
  ASSUME asking' # "agent"
  PROVE  GateIsTheChanges'
BY DEF GateIsTheChanges, LintPassIsReal, DebtIsNotTheRuns

LEMMA RewriteInv == ASSUME LintInv, NEW f \in Sources, Rewrite(f) PROVE LintInv'
<1>1. PICK c \in MayBecome(f), k \in SUBSET Findings :
         /\ k \subseteq MayHold(c)
         /\ change' = [change EXCEPT ![f] = c] /\ found' = [found EXCEPT ![f] = k]
  BY DEF Rewrite
<1>2. c \in Changes
  BY DEF MayBecome, Changes
<1>3. c = "created" => "old-line" \notin k
  BY <1>1 DEF MayHold
<1>4. change \in [Sources -> Changes] /\ found \in [Sources -> SUBSET Findings] /\ edited \in Nat
  BY DEF LintInv, FoundInv
<1>5. edited' \in Nat \ {0} /\ asking' = "agent"
  <2>1. edited' = edited + 1 /\ asking' = "agent"
    BY DEF Rewrite
  <2>. QED  BY <1>4, <2>1
<1>6. FoundInv'
  <2>1. \A g \in Sources : change'[g] = "created" => "old-line" \notin found'[g]
    BY <1>1, <1>3, <1>4 DEF LintInv, FoundInv
  <2>. QED  BY <1>1, <1>2, <1>4, <1>5, <2>1 DEF FoundInv
<1>7. ScopeInv'
  BY <1>5 DEF ScopeInv, Commands
<1>8. GateIsTheChanges'
  BY <1>5 DEF GateIsTheChanges, LintPassIsReal, DebtIsNotTheRuns
<1>. QED  BY <1>6, <1>7, <1>8 DEF LintInv

LEMMA CommitInv == ASSUME LintInv, Commit PROVE LintInv'
<1>1. edited' \in Nat \ {0} /\ asking' = "agent"
  <2>1. edited' = edited + 1 /\ asking' = "agent"
    BY DEF Commit
  <2>2. edited \in Nat
    BY DEF LintInv, FoundInv
  <2>. QED  BY <2>1, <2>2
<1>2. FoundInv'
  <2>1. /\ change \in [Sources -> Changes]
        /\ change' = [f \in Sources |->
                       IF change[f] \in {"rewritten", "cut", "created"} THEN "landed" ELSE change[f]]
        /\ found' = found
    BY DEF LintInv, FoundInv, Commit
  <2>2. change' \in [Sources -> Changes]
    BY <2>1 DEF Changes
  <2>3. \A f \in Sources : change'[f] # "created"
    BY <2>1
  <2>. QED  BY <1>1, <2>1, <2>2, <2>3 DEF LintInv, FoundInv
<1>3. ScopeInv'
  BY <1>1 DEF ScopeInv, Commands
<1>4. GateIsTheChanges'
  BY <1>1 DEF GateIsTheChanges, LintPassIsReal, DebtIsNotTheRuns
<1>. QED  BY <1>2, <1>3, <1>4 DEF LintInv

\* Every way the gate goes on leaves the workspace alone.
LEMMA UnscopedInv == ASSUME LintInv, Unscoped PROVE LintInv'
<1>1. FoundInv'
  BY DEF Unscoped, LintInv, FoundInv
<1>2. ScopeInv'
  BY DEF Unscoped, ScopeInv, Commands
<1>. QED  BY <1>1, <1>2, AskingKeepsTheGate DEF LintInv, Unscoped

LEMMA GoInv ==
  ASSUME LintInv, NEW next \in Commands \ {"agent"}, NEW known, Go(next, known),
         next \in {"diff", "ls-files"} => linter = "ruff" /\ ~ IgnoresNew,
         next = "ls-files" => known = DiffOf,
         next = "tool" =>
           ~ IgnoresNew /\ (linter = "ruff" => known = [DiffOf EXCEPT !.whole = Untracked])
  PROVE  LintInv'
<1>1. FoundInv'
  BY DEF Go, LintInv, FoundInv
<1>2. ScopeInv'
  BY DEF Go, ScopeInv, Commands, IgnoresNew, DiffOf, Untracked, Tracked
<1>. QED  BY <1>1, <1>2, AskingKeepsTheGate DEF LintInv, Go

LEMMA AskInv ==
  ASSUME LintInv, Lint \/ GitFails \/ LsTree \/ CheckIgnore \/ Diff \/ LsFiles
  PROVE  LintInv'
<1>1. CASE Lint
  <2>1. FoundInv'
    BY <1>1 DEF Lint, LintInv, FoundInv
  <2>2. ScopeInv'
    BY <1>1 DEF Lint, ScopeInv, Commands
  <2>3. asking' # "agent"
    BY <1>1 DEF Lint
  <2>. QED  BY <2>1, <2>2, <2>3, AskingKeepsTheGate DEF LintInv
<1>2. CASE GitFails
  BY <1>2, UnscopedInv DEF GitFails
<1>3. CASE LsTree
  BY <1>3, UnscopedInv, GoInv DEF LsTree, Commands
<1>4. CASE CheckIgnore
  BY <1>4, UnscopedInv, GoInv DEF CheckIgnore, ListsNew, Commands
<1>5. CASE Diff
  BY <1>5, UnscopedInv, GoInv DEF Diff, LintInv, ScopeInv, Commands
<1>6. CASE LsFiles
  BY <1>6, UnscopedInv, GoInv DEF LsFiles, LintInv, ScopeInv, Commands
<1>. QED  BY <1>1, <1>2, <1>3, <1>4, <1>5, <1>6

\* What the run is answerable for, the tool's report counts: always when it
\* is unscoped, and under a whole change set when it is not.
LEMMA AnswerableCounts ==
  ASSUME LintInv, asking = "tool", NEW f \in Sources, NEW k \in Answerable(f)
  PROVE  <<f, k>> \in Failing
<1>1. k \in found[f] /\ k \in {"new-line", "unparsable"}
  BY DEF Answerable
<1>2. ASSUME scope PROVE IF linter = "ruff" THEN counts(f, k) ELSE newFromRev(f, k)
  BY <1>1, <1>2 DEF LintInv, ScopeInv, FoundInv, Answerable, counts, covers, touches, newFromRev,
     DiffOf, Untracked, Tracked
<1>. QED  BY <1>1, <1>2 DEF Failing, counted, Findings

\* What a whole change set counts is the run's.
LEMMA CountedIsAnswerable ==
  ASSUME LintInv, asking = "tool", scope, linter = "ruff", NEW f \in Sources,
         NEW k \in Findings \ {"nit"}, k \in found[f], counts(f, k)
  PROVE  k \in Answerable(f)
<1>1. set = [lines |-> Tracked("rewritten"), touched |-> Tracked("rewritten") \cup Tracked("cut"),
             whole |-> Tracked("created")]
  BY DEF LintInv, ScopeInv, DiffOf, Untracked
<1>2. change[f] = "created" => k # "old-line"
  BY DEF LintInv, FoundInv
<1>3. k \in {"new-line", "old-line", "unparsable"}
  BY DEF Findings
<1>4. CASE k = "unparsable"
  <2>1. change[f] \in {"created", "rewritten", "cut"}
    BY <1>1, <1>4 DEF counts, touches, Tracked
  <2>. QED  BY <1>4, <2>1 DEF Answerable
<1>5. CASE k # "unparsable"
  <2>1. change[f] = "created" \/ (change[f] = "rewritten" /\ k = "new-line")
    BY <1>1, <1>3, <1>5 DEF counts, covers, Tracked
  <2>. QED  BY <1>2, <1>3, <1>5, <2>1 DEF Answerable
<1>. QED  BY <1>4, <1>5

LEMMA RunToolInv == ASSUME LintInv, RunTool PROVE LintInv'
<1>1. FoundInv'
  BY DEF RunTool, LintInv, FoundInv
<1>2. ScopeInv'
  BY DEF RunTool, ScopeInv, Commands
<1>3. asking = "tool" /\ gate' \in {newReport, "error"}
  BY DEF RunTool
<1>4. \A f \in Sources : Answerable(f)' = Answerable(f)
  BY DEF RunTool, Answerable, IgnoresNew
<1>5. LintPassIsReal'
  <2>. SUFFICES ASSUME gate' = "pass" PROVE \A f \in Sources : Answerable(f) = {}
    BY <1>4 DEF LintPassIsReal
  <2>1. Failing = {}
    BY <1>3 DEF newReport
  <2>. QED  BY <1>3, <2>1, AnswerableCounts
<1>6. DebtIsNotTheRuns'
  <2>. SUFFICES ASSUME gate' = "fail", scope, linter = "ruff"
                PROVE  \E f \in Sources : Answerable(f) # {}
    BY <1>4 DEF DebtIsNotTheRuns, RunTool
  <2>1. PICK e \in Failing : TRUE
    BY <1>3 DEF newReport
  <2>2. PICK f \in Sources, k \in Findings : e = <<f, k>> /\ k \in found[f] /\ counts(f, k) /\ k # "nit"
    BY <2>1 DEF Failing, counted
  <2>3. k \in Answerable(f)
    <3>1. k \in Findings \ {"nit"}
      BY <2>2
    <3>. QED  BY <1>3, <2>2, <3>1, CountedIsAnswerable
  <2>. QED  BY <2>3
<1>. QED  BY <1>1, <1>2, <1>5, <1>6 DEF LintInv, GateIsTheChanges

LEMMA LintStutterInv == ASSUME LintInv, UNCHANGED lintVars PROVE LintInv'
BY DEF lintVars, LintInv, FoundInv, ScopeInv, GateIsTheChanges, LintPassIsReal, DebtIsNotTheRuns,
   Answerable, IgnoresNew, DiffOf, Untracked, Tracked

\* internal/linter: whatever git answers, fails to or cuts short, a gate that
\* passes has counted all the run is answerable for, and a scoped gate that
\* fails names something of it.
THEOREM GatesAreTheChanges == LintSpec => []GateIsTheChanges
<1>1. LintInv /\ [LintNext]_lintVars => LintInv'
  BY RewriteInv, CommitInv, AskInv, RunToolInv, LintStutterInv DEF LintNext
<1>2. LintInv => GateIsTheChanges
  BY DEF LintInv
<1>. QED  BY <1>1, <1>2, LintInitInv, PTL DEF LintSpec

-----------------------------------------------------------------------------
(***************************************************************************)
(* The reviewers.                                                          *)
(***************************************************************************)
Reviewed == [at : {"gate", "search", "done"}, told : StatusWords \cup {"none"}, page : Nat \ {0},
             fetched : Seq(Nat), truncated : BOOLEAN, gate : {"none", "pass", "fail", "error"}]
ScanWords == GateWords \cup {"chatter", "expired", "daemonless"}
Scanned   == [runner : {"docker", "binary"}, waits : BOOLEAN,
              stdout : Seq(ScanWords), stderr : Seq(ScanWords), real : {"none", "pass", "fail"}, exit : Int,
              err : {"none", "missing", "timeout"}, at : {"running", "ended", "done"},
              gate : {"none", "pass", "fail", "error"}]

ReviewsTypeInv ==
  /\ open \in Seq(Nat) /\ closes \in Nat /\ status \in StatusWords
  /\ review \in Reviewed /\ scan \in Scanned

\* Of a server that held still, what has been fetched are its first pages.
PagesInv ==
  /\ review.at = "gate" => review.page = 1 /\ review.fetched = <<>>
  /\ review.at = "search" /\ closes = 0 =>
       /\ Len(review.fetched) = (review.page - 1) * PageSize
       /\ Len(review.fetched) <= Len(open)
       /\ \A i \in 1..Len(review.fetched) : review.fetched[i] = open[i]
  /\ review.at # "done" => review.gate = "none"

\* A scan that waits for the gate exits 0 on one that passed, and on no other.
ScanExitInv ==
  /\ scan.exit = 0 /\ scan.waits => scan.real = "pass"
  /\ scan.at # "done" => scan.gate = "none"

ReviewsInv == ReviewsTypeInv /\ PagesInv /\ ScanExitInv /\ VerdictIsEarned

LEMMA ReviewsInitInv == ASSUME ReviewsInit PROVE ReviewsInv
<1>1. open \in Seq(Nat)
  <2>1. PICK n \in 0..MaxIssues : open = [i \in 1..n |-> i]
    BY DEF ReviewsInit
  <2>. QED  BY <2>1, ReviewsAssumption
<1>2. review \in Reviewed
  BY DEF ReviewsInit, Reviewed
<1>3. scan \in Scanned
  <2>1. PICK how \in {"docker", "binary"}, waits \in BOOLEAN : scan = NewScan(how, waits)
    BY DEF ReviewsInit
  <2>. QED  BY <2>1 DEF NewScan, Scanned
<1>. QED
  BY <1>1, <1>2, <1>3 DEF ReviewsInit, NewScan, ReviewsInv, ReviewsTypeInv, PagesInv, ScanExitInv,
     VerdictIsEarned, PassIsEarned, ScanPassIsReal

\* One of the two reviewers goes on and the other stands as it did.
LEMMA ScanStands ==
  ASSUME ReviewsInv, UNCHANGED scan
  PROVE  scan' \in Scanned /\ ScanExitInv' /\ ScanPassIsReal'
BY DEF ReviewsInv, ReviewsTypeInv, ScanExitInv, VerdictIsEarned, ScanPassIsReal

LEMMA ReviewStands ==
  ASSUME ReviewsInv, UNCHANGED <<sonar, review>>
  PROVE  /\ open' \in Seq(Nat) /\ closes' \in Nat /\ status' \in StatusWords
         /\ review' \in Reviewed /\ PagesInv' /\ PassIsEarned'
BY DEF sonar, ReviewsInv, ReviewsTypeInv, PagesInv, VerdictIsEarned, PassIsEarned

LEMMA ServerChangesInv == ASSUME ReviewsInv, ServerChanges PROVE ReviewsInv'
<1>1. open' \in Seq(Nat)
  <2>1. open \in Seq(Nat)
    BY DEF ReviewsInv, ReviewsTypeInv
  <2>2. \A i \in DOMAIN open : RemoveAt(open, i) \in Seq(Nat)
    BY <2>1 DEF RemoveAt
  <2>. QED  BY <2>1, <2>2 DEF ServerChanges
<1>2. status' \in StatusWords
  BY DEF ServerChanges, ReviewsInv, ReviewsTypeInv
<1>3. closes' \in Nat \ {0}
  <2>1. closes \in Nat /\ closes' = closes + 1
    BY DEF ServerChanges, ReviewsInv, ReviewsTypeInv
  <2>. QED  BY <2>1
<1>4. review.at # "done" /\ review' = review /\ scan' = scan
  BY DEF ServerChanges
<1>5. review' \in Reviewed /\ PagesInv' /\ PassIsEarned'
  BY <1>3, <1>4 DEF ReviewsInv, ReviewsTypeInv, PagesInv, PassIsEarned
<1>. QED
  BY <1>1, <1>2, <1>3, <1>4, <1>5, ScanStands
  DEF ReviewsInv, ReviewsTypeInv, VerdictIsEarned

\* What a review that ended comes to.
LEMMA FinishIsReviewed ==
  ASSUME NEW r \in Reviewed, NEW word \in StatusWords \cup {"none"}, NEW issues \in Seq(Nat),
         NEW failed \in BOOLEAN
  PROVE  /\ Finish(r, word, issues, failed) \in Reviewed
         /\ Finish(r, word, issues, failed).at = "done"
         /\ Finish(r, word, issues, failed).told = word
         /\ Finish(r, word, issues, failed).truncated = r.truncated
         /\ Finish(r, word, issues, failed).gate = finalize(word, issues, failed)
<1>1. finalize(word, issues, failed) \in {"pass", "fail", "error"}
  BY DEF finalize
<1>. QED  BY <1>1 DEF Finish, Reviewed

\* A pass is a gate that passed and no issue at or above fail_on.
LEMMA FinalizePasses ==
  ASSUME NEW word \in StatusWords \cup {"none"}, NEW issues \in Seq(Nat),
         NEW failed \in BOOLEAN, finalize(word, issues, failed) = "pass"
  PROVE  word = "OK" /\ ~ failed /\ Range(issues) \cap reaching = {}
<1>1. ~ failed /\ BelayGate(word) # "error"
  BY DEF finalize
<1>2. BelayGate(word) # "fail"
  <2>. SUFFICES ASSUME BelayGate(word) = "fail" PROVE FALSE
    OBVIOUS
  <2>1. CASE AtOrAbove(issues) = {}
    <3>1. Append(issues, gateIssue)[Len(issues) + 1] = gateIssue
          /\ Len(issues) + 1 \in DOMAIN Append(issues, gateIssue)
      BY DEF gateIssue
    <3>2. gateIssue \in AtOrAbove(Append(issues, gateIssue))
      BY <3>1 DEF AtOrAbove, Range
    <3>. QED  BY <1>1, <2>1, <3>2 DEF finalize
  <2>2. CASE AtOrAbove(issues) # {}
    BY <1>1, <2>2 DEF finalize
  <2>. QED  BY <2>1, <2>2
<1>3. BelayGate(word) = "pass" /\ word = "OK"
  BY <1>1, <1>2 DEF BelayGate, StatusWords
<1>4. AtOrAbove(issues) = {}
  BY <1>1, <1>2 DEF finalize
<1>. QED  BY <1>1, <1>3, <1>4 DEF AtOrAbove

\* A review that ends with no pass.
LEMMA NoPassInv ==
  ASSUME ReviewsInv, UNCHANGED <<sonar, scan>>, review' \in Reviewed,
         review'.at = "done", review'.gate # "pass"
  PROVE  ReviewsInv'
<1>1. PagesInv' /\ PassIsEarned'
  BY DEF PagesInv, PassIsEarned
<1>2. open' \in Seq(Nat) /\ closes' \in Nat /\ status' \in StatusWords
  BY DEF sonar, ReviewsInv, ReviewsTypeInv
<1>. QED
  BY <1>1, <1>2, ScanStands DEF ReviewsInv, ReviewsTypeInv, VerdictIsEarned

LEMMA ReviewFailsInv == ASSUME ReviewsInv, ReviewFails PROVE ReviewsInv'
<1>1. review \in Reviewed /\ review.told \in StatusWords \cup {"none"} /\ review.fetched \in Seq(Nat)
  BY DEF ReviewsInv, ReviewsTypeInv, Reviewed
<1>2. review' = Finish(review, review.told, review.fetched, TRUE)
  BY DEF ReviewFails
<1>3. finalize(review.told, review.fetched, TRUE) = "error"
  BY DEF finalize
<1>4. review' \in Reviewed /\ review'.at = "done" /\ review'.gate = "error"
  BY <1>1, <1>2, <1>3, FinishIsReviewed
<1>. QED  BY <1>4, NoPassInv DEF ReviewFails

LEMMA GateStatusInv == ASSUME ReviewsInv, GateStatus PROVE ReviewsInv'
<1>1. review \in Reviewed /\ status \in StatusWords
  BY DEF ReviewsInv, ReviewsTypeInv
<1>2. CASE BelayGate(status) = "error"
  <2>1. review' = Finish(review, status, <<>>, FALSE)
    BY <1>2 DEF GateStatus
  <2>2. finalize(status, <<>>, FALSE) = "error"
    BY <1>2 DEF finalize
  <2>3. <<>> \in Seq(Nat) /\ status \in StatusWords \cup {"none"} /\ FALSE \in BOOLEAN
    BY <1>1
  <2>4. review' \in Reviewed /\ review'.at = "done" /\ review'.gate = "error"
    BY <1>1, <2>1, <2>2, <2>3, FinishIsReviewed
  <2>. QED  BY <2>4, NoPassInv DEF GateStatus
<1>3. CASE BelayGate(status) # "error"
  <2>1. review' = [review EXCEPT !.at = "search", !.told = status]
    BY <1>3 DEF GateStatus
  <2>2. /\ review' \in Reviewed /\ review'.at = "search" /\ review'.page = 1
        /\ review'.fetched = <<>> /\ review'.gate = "none"
    BY <1>1, <2>1 DEF GateStatus, Reviewed, ReviewsInv, PagesInv
  <2>3. open' \in Seq(Nat) /\ closes' \in Nat /\ status' \in StatusWords
    BY DEF GateStatus, sonar, ReviewsInv, ReviewsTypeInv
  <2>4. PagesInv'
    BY <2>2, <2>3, ReviewsAssumption DEF PagesInv
  <2>5. PassIsEarned'
    BY <2>2 DEF PassIsEarned
  <2>6. UNCHANGED scan
    BY DEF GateStatus
  <2>. QED
    BY <2>2, <2>3, <2>4, <2>5, <2>6, ScanStands DEF ReviewsInv, ReviewsTypeInv, VerdictIsEarned
<1>. QED  BY <1>2, <1>3

\* A part of a sequence, and pages counted from 1.
LEMMA PartOf ==
  ASSUME NEW s \in Seq(Nat), NEW a \in Nat, NEW b \in Nat, a <= b, b <= Len(s)
  PROVE  /\ SubSeq(s, a + 1, b) \in Seq(Nat) /\ Len(SubSeq(s, a + 1, b)) = b - a
         /\ \A i \in 1..(b - a) : SubSeq(s, a + 1, b)[i] = s[a + i]
<1>1. \A i \in (a + 1)..b : s[i] \in Nat
  OBVIOUS
<1>2. /\ SubSeq(s, a + 1, b) \in Seq(Nat)
      /\ Len(SubSeq(s, a + 1, b)) = IF a + 1 <= b THEN b - (a + 1) + 1 ELSE 0
      /\ \A i \in 1..(b - (a + 1) + 1) : SubSeq(s, a + 1, b)[i] = s[a + 1 + i - 1]
  BY <1>1, SubSeqProperties
<1>. QED  BY <1>2

LEMMA PageCount ==
  ASSUME NEW x \in Nat \ {0}, NEW y \in Nat \ {0}
  PROVE  (x - 1) * y \in Nat /\ x * y \in Nat /\ x * y = (x - 1) * y + y
OBVIOUS

\* A page, of a server that held still, is what comes next.
LEMMA PageFollows ==
  ASSUME ReviewsInv, review.at = "search", closes = 0,
         NEW got, got = Page(review.page), NEW fetched, fetched = review.fetched \o got
  PROVE  /\ Len(fetched) <= Len(open)
         /\ \A i \in 1..Len(fetched) : fetched[i] = open[i]
         /\ Len(got) >= PageSize => Len(fetched) = review.page * PageSize
         /\ Len(got) < PageSize => Len(fetched) = Len(open)
<1>. DEFINE k == (review.page - 1) * PageSize
            n == review.page * PageSize
            top == IF n < Len(open) THEN n ELSE Len(open)
<1>1. review.page \in Nat \ {0} /\ PageSize \in Nat \ {0}
  BY ReviewsAssumption DEF ReviewsInv, ReviewsTypeInv, Reviewed
<1>2. open \in Seq(Nat) /\ review.fetched \in Seq(Nat) /\ Len(open) \in Nat
  BY DEF ReviewsInv, ReviewsTypeInv, Reviewed
<1>3. k \in Nat /\ n \in Nat /\ n = k + PageSize
  BY <1>1, PageCount
<1>4. /\ Len(review.fetched) = k /\ k <= Len(open)
      /\ \A i \in 1..k : review.fetched[i] = open[i]
  BY DEF ReviewsInv, PagesInv
<1>5. got = SubSeq(open, k + 1, top)
  BY DEF Page
<1>6. n = review.page * PageSize
  OBVIOUS
<1>. HIDE DEF k, n
<1>7. top \in Nat /\ k <= top /\ top <= Len(open)
  BY <1>1, <1>2, <1>3, <1>4
<1>. HIDE DEF top
<1>8. got \in Seq(Nat) /\ Len(got) = top - k /\ \A i \in 1..(top - k) : got[i] = open[k + i]
  BY <1>2, <1>3, <1>5, <1>7, PartOf
<1>9. Len(fetched) = top /\ \A i \in 1..top : fetched[i] = open[i]
  <2>1. /\ Len(fetched) = k + (top - k)
        /\ \A i \in 1..(k + (top - k)) :
             fetched[i] = IF i <= k THEN review.fetched[i] ELSE got[i - k]
    <3>1. /\ Len(review.fetched \o got) = Len(review.fetched) + Len(got)
          /\ \A i \in 1..(Len(review.fetched) + Len(got)) : (review.fetched \o got)[i] =
               IF i <= Len(review.fetched) THEN review.fetched[i] ELSE got[i - Len(review.fetched)]
      BY <1>2, <1>8, ConcatProperties
    <3>2. Len(review.fetched) = k /\ Len(got) = top - k
      BY <1>4, <1>8
    <3>. QED  BY <3>1, <3>2
  <2>2. Len(fetched) = top
    BY <1>3, <1>7, <2>1
  <2>3. ASSUME NEW i \in 1..top PROVE fetched[i] = open[i]
    <3>1. fetched[i] = IF i <= k THEN review.fetched[i] ELSE got[i - k]
      <4>1. i \in 1..(k + (top - k))
        BY <1>3, <1>7
      <4>. QED  BY <2>1, <4>1
    <3>2. CASE i <= k
      BY <1>3, <1>4, <3>1, <3>2
    <3>3. CASE ~ (i <= k)
      <4>1. i - k \in 1..(top - k) /\ k + (i - k) = i
        BY <1>3, <1>7, <3>3
      <4>. QED  BY <1>8, <3>1, <3>3, <4>1
    <3>. QED  BY <3>2, <3>3
  <2>. QED  BY <2>2, <2>3
<1>10. Len(got) >= PageSize => top = n
  BY <1>1, <1>2, <1>3, <1>7, <1>8 DEF top
<1>11. Len(got) < PageSize => top = Len(open)
  BY <1>1, <1>2, <1>3, <1>7, <1>8 DEF top
<1>. QED  BY <1>6, <1>7, <1>9, <1>10, <1>11

LEMMA SearchInv == ASSUME ReviewsInv, Search PROVE ReviewsInv'
<1>1. PICK total \in {0, Len(open)} :
         LET got == Page(review.page)
             fetched == review.fetched \o got
             last == LastPage(got, fetched, total)
             cut == ~last /\ review.page = MaxPages
         IN  review' = IF last \/ cut
                       THEN Finish([review EXCEPT !.truncated = cut],
                                   review.told, fetched, FALSE)
                       ELSE [review EXCEPT !.page = @ + 1, !.fetched = fetched]
  BY DEF Search
<1>. DEFINE got == Page(review.page)
            fetched == review.fetched \o got
            last == LastPage(got, fetched, total)
            cut == ~last /\ review.page = MaxPages
            r == [review EXCEPT !.truncated = cut]
<1>2. /\ review.at = "search" /\ UNCHANGED <<sonar, scan>>
      /\ review.gate = "none"
  BY DEF Search, ReviewsInv, PagesInv
<1>3. /\ review \in Reviewed /\ open \in Seq(Nat) /\ review.fetched \in Seq(Nat)
      /\ review.told \in StatusWords \cup {"none"}
  BY DEF ReviewsInv, ReviewsTypeInv, Reviewed
<1>4. review.page \in Nat \ {0} /\ PageSize \in Nat \ {0}
  BY ReviewsAssumption DEF ReviewsInv, ReviewsTypeInv, Reviewed
<1>5. open' = open /\ open' \in Seq(Nat) /\ closes' = closes /\ closes' \in Nat /\ status' \in StatusWords
      /\ reaching' = reaching
  BY <1>2 DEF sonar, ReviewsInv, ReviewsTypeInv
<1>6. got \in Seq(Nat)
  <2>1. (review.page - 1) * PageSize \in Nat /\ review.page * PageSize \in Nat
    BY <1>4, PageCount
  <2>. QED  BY <1>3, <2>1 DEF Page
<1>7. fetched \in Seq(Nat) /\ last \in BOOLEAN
  BY <1>3, <1>6 DEF LastPage
<1>8. PagesInv' /\ PassIsEarned' /\ review' \in Reviewed
  <2>1. CASE last \/ cut
    <3>1. review' = Finish(r, review.told, fetched, FALSE)
      BY <1>1, <2>1
    <3>2. r \in Reviewed /\ r.truncated = cut
      BY <1>3 DEF Reviewed
    <3>. HIDE DEF r
    <3>3. /\ review' \in Reviewed /\ review'.at = "done" /\ review'.told = review.told
          /\ review'.truncated = cut /\ review'.gate = finalize(review.told, fetched, FALSE)
      <4>1. fetched \in Seq(Nat)
        BY <1>7
      <4>2. finalize(review.told, fetched, FALSE) \in {"pass", "fail", "error"}
        BY DEF finalize
      <4>. HIDE DEF fetched, cut
      <4>. QED  BY <1>3, <3>1, <3>2, <4>1, <4>2 DEF Finish, Reviewed
    <3>4. ASSUME review'.gate = "pass"
          PROVE  review.told = "OK" /\ Range(fetched) \cap reaching = {}
      BY <1>3, <1>7, <3>3, <3>4, FinalizePasses
    <3>5. ASSUME closes = 0, ~ cut PROVE Range(open) \subseteq Range(fetched)
      <4>1. /\ Len(fetched) <= Len(open)
            /\ \A i \in 1..Len(fetched) : fetched[i] = open[i]
            /\ Len(got) < PageSize => Len(fetched) = Len(open)
        BY <1>2, <3>5, PageFollows
      <4>2. Len(fetched) = Len(open)
        <5>1. Len(got) < PageSize \/ (total > 0 /\ Len(fetched) >= total)
          BY <2>1, <3>5 DEF LastPage
        <5>2. CASE total > 0 /\ Len(fetched) >= total
          <6>1. total = Len(open) /\ Len(open) \in Nat /\ Len(fetched) \in Nat
            <7>1. fetched \in Seq(Nat) /\ open \in Seq(Nat)
              BY <1>3, <1>7
            <7>. HIDE DEF fetched
            <7>2. Len(fetched) \in Nat /\ Len(open) \in Nat
              BY <7>1
            <7>. QED  BY <5>2, <7>2
          <6>. HIDE DEF fetched
          <6>. QED  BY <4>1, <5>2, <6>1
        <5>. QED  BY <4>1, <5>1, <5>2
      <4>3. DOMAIN open = 1..Len(open) /\ DOMAIN fetched = 1..Len(fetched)
        BY <1>3, <1>7
      <4>. HIDE DEF fetched
      <4>. QED  BY <4>1, <4>2, <4>3 DEF Range
    <3>6. PassIsEarned'
      BY <1>5, <3>3, <3>4, <3>5 DEF PassIsEarned
    <3>7. PagesInv'
      BY <3>3 DEF PagesInv
    <3>. QED  BY <3>3, <3>6, <3>7
  <2>2. CASE ~ (last \/ cut)
    <3>1. review' = [review EXCEPT !.page = @ + 1, !.fetched = fetched]
      BY <1>1, <2>2
    <3>2. /\ review' \in Reviewed /\ review'.at = "search" /\ review'.page = review.page + 1
          /\ review'.fetched = fetched /\ review'.gate = "none"
      <4>1. review.page + 1 \in Nat \ {0}
        BY <1>4
      <4>2. fetched \in Seq(Nat)
        BY <1>7
      <4>. HIDE DEF fetched
      <4>. QED  BY <1>2, <1>3, <3>1, <4>1, <4>2 DEF Reviewed
    <3>3. ASSUME closes = 0
          PROVE  /\ Len(fetched) <= Len(open)
                 /\ \A i \in 1..Len(fetched) : fetched[i] = open[i]
                 /\ Len(fetched) = review.page * PageSize
      <4>1. Len(got) >= PageSize
        <5>1. ~ (Len(got) < PageSize)
          BY <2>2 DEF LastPage
        <5>2. Len(got) \in Nat
          BY <1>6
        <5>. HIDE DEF got
        <5>. QED  BY <1>4, <5>1, <5>2
      <4>. QED  BY <1>2, <3>3, <4>1, PageFollows
    <3>4. (review'.page - 1) * PageSize = review.page * PageSize
      BY <1>4, <3>2
    <3>5. PagesInv'
      BY <1>5, <3>2, <3>3, <3>4 DEF PagesInv
    <3>. QED  BY <3>2, <3>5 DEF PassIsEarned
  <2>. QED  BY <2>1, <2>2
<1>. QED
  BY <1>2, <1>5, <1>8, ScanStands DEF ReviewsInv, ReviewsTypeInv, VerdictIsEarned

LEMMA PrintsWord ==
  ASSUME scan \in Scanned, NEW to \in {"stdout", "stderr"}, NEW w \in ScanWords
  PROVE  LET s == WithLine(scan, to, w)
         IN  /\ s \in Scanned /\ s.real = scan.real /\ s.exit = scan.exit
             /\ s.waits = scan.waits /\ s.at = scan.at /\ s.gate = scan.gate
<1>1. /\ scan.stdout \in Seq(ScanWords) /\ scan.stderr \in Seq(ScanWords)
      /\ Append(scan.stdout, w) \in Seq(ScanWords) /\ Append(scan.stderr, w) \in Seq(ScanWords)
  BY DEF Scanned
<1>2. CASE to = "stdout"
  BY <1>1, <1>2 DEF WithLine, Scanned
<1>3. CASE to = "stderr"
  BY <1>1, <1>3 DEF WithLine, Scanned
<1>. QED  BY <1>2, <1>3

LEMMA ScanStepInv ==
  ASSUME ReviewsInv, ScanPrints \/ ScanEnds \/ ScanStopped
  PROVE  ReviewsInv'
<1>1. scan \in Scanned /\ ScanExitInv /\ scan.at = "running" /\ UNCHANGED <<sonar, review>>
  BY DEF ScanPrints, ScanEnds, ScanStopped, ReviewsInv, ReviewsTypeInv
<1>2. scan' \in Scanned /\ ScanExitInv' /\ scan'.gate = "none"
  <2>1. CASE ScanPrints
    <3>1. PICK to \in {"stdout", "stderr"}, w \in ScanWords : scan' = WithLine(scan, to, w)
      BY <2>1 DEF ScanPrints, ScanWords
    <3>. QED  BY <1>1, <3>1, PrintsWord DEF ScanExitInv
  <2>2. CASE ScanEnds
    <3>1. PICK e \in Ends(scan), to \in {"stdout", "stderr"} :
             scan' = [WithLine(scan, to, e.word) EXCEPT !.real = e.real, !.exit = e.exit,
                                                       !.at = "ended"]
      BY <2>2 DEF ScanEnds
    <3>2. /\ e.word \in ScanWords /\ e.real \in {"none", "pass", "fail"} /\ e.exit \in Int
          /\ e.exit = 0 /\ scan.waits => e.real = "pass"
      BY DEF Ends, ScanWords, GateWords
    <3> DEFINE s == WithLine(scan, to, e.word)
    <3>3. s \in Scanned /\ s.waits = scan.waits /\ s.gate = scan.gate
      BY <1>1, <3>2, PrintsWord
    <3> HIDE DEF s
    <3>4. scan' = [s EXCEPT !.real = e.real, !.exit = e.exit, !.at = "ended"]
      BY <3>1 DEF s
    <3>. QED  BY <1>1, <3>2, <3>3, <3>4 DEF Scanned, ScanExitInv
  <2>3. CASE ScanStopped
    BY <1>1, <2>3 DEF ScanStopped, Scanned, ScanExitInv
  <2>. QED  BY <1>1, <2>1, <2>2, <2>3
<1>3. ScanPassIsReal'
  BY <1>2 DEF ScanPassIsReal
<1>. QED
  BY <1>1, <1>2, <1>3, ReviewStands DEF ReviewsInv, ReviewsTypeInv, VerdictIsEarned

LEMMA ScanReviewInv == ASSUME ReviewsInv, ScanReview PROVE ReviewsInv'
<1>1. scan \in Scanned /\ ScanExitInv /\ UNCHANGED <<sonar, review>>
  BY DEF ScanReview, ReviewsInv, ReviewsTypeInv
<1>. DEFINE verdict == classify(scan)
<1>2. verdict \in {"pass", "fail", "error"}
      /\ (verdict = "pass" => scan.exit = 0 /\ scan.err = "none")
  BY DEF classify, NoVerdict
<1>3. scan' = [scan EXCEPT !.at = "done", !.gate = verdict]
  BY DEF ScanReview
<1>. HIDE DEF verdict
<1>4. scan' \in Scanned /\ ScanExitInv' /\ ScanPassIsReal'
  BY <1>1, <1>2, <1>3 DEF Scanned, ScanExitInv, ScanPassIsReal
<1>. QED
  BY <1>1, <1>4, ReviewStands DEF ReviewsInv, ReviewsTypeInv, VerdictIsEarned

LEMMA ReviewsStutterInv == ASSUME ReviewsInv, UNCHANGED reviewsVars PROVE ReviewsInv'
<1>1. UNCHANGED <<sonar, review>> /\ UNCHANGED scan
  BY DEF reviewsVars, sonar
<1>. QED
  BY <1>1, ScanStands, ReviewStands DEF ReviewsInv, ReviewsTypeInv, VerdictIsEarned

\* nodes/aireview, sonar/scanner: whatever the server does between two calls,
\* and wherever a scan is cut or dies, a review that passes is a gate that
\* passed -- where the scan was one that waits for it -- and no open issue of
\* a server that held still was left unread.
THEOREM VerdictsAreEarned == ReviewsSpec => []VerdictIsEarned
<1>1. ReviewsInv /\ [ReviewsNext]_reviewsVars => ReviewsInv'
  BY ServerChangesInv, ReviewFailsInv, GateStatusInv, SearchInv, ScanStepInv, ScanReviewInv,
     ReviewsStutterInv DEF ReviewsNext
<1>2. ReviewsInv => VerdictIsEarned
  BY DEF ReviewsInv
<1>. QED  BY <1>1, <1>2, ReviewsInitInv, PTL DEF ReviewsSpec

-----------------------------------------------------------------------------
(***************************************************************************)
(* The policy gate.                                                        *)
(***************************************************************************)
RuleSet == [forbidden : SUBSET Paths, files : Nat, lines : Nat,
            deps : BOOLEAN, tests : BOOLEAN, content : BOOLEAN]

LEMMA RulesAreSets == Rules \subseteq RuleSet
BY PolicyAssumption DEF RuleSet

\* A rule set that forbids what another does.
AsStrict(strict, p) ==
  /\ p.forbidden \subseteq strict.forbidden
  /\ p.files > 0 => strict.files > 0 /\ strict.files <= p.files
  /\ p.lines > 0 => strict.lines > 0 /\ strict.lines <= p.lines
  /\ p.deps => strict.deps
  /\ p.content => strict.content

\* config: neither layer can loosen the other.
LEMMA CeilingOfBoth ==
  ASSUME NEW a \in Nat, NEW b \in Nat
  PROVE  /\ tighterCeiling(a, b) \in Nat
         /\ a > 0 => tighterCeiling(a, b) > 0 /\ tighterCeiling(a, b) <= a
         /\ b > 0 => tighterCeiling(a, b) > 0 /\ tighterCeiling(a, b) <= b
<1>1. CASE a = 0 \/ b = 0
  BY <1>1 DEF tighterCeiling
<1>2. CASE a # 0 /\ b # 0
  <2>1. Min({a, b}) \in {a, b} /\ \A y \in {a, b} : Min({a, b}) <= y
    <3>1. \E x \in {a, b} : \A y \in {a, b} : x <= y
      <4>1. CASE a <= b
        BY <4>1
      <4>2. CASE b <= a
        BY <4>2
      <4>. QED  BY <4>1, <4>2
    <3>. QED  BY <3>1 DEF Min
  <2>2. tighterCeiling(a, b) = Min({a, b})
    BY <1>2 DEF tighterCeiling
  <2>. QED  BY <1>2, <2>1, <2>2
<1>. QED  BY <1>1, <1>2

LEMMA TightenIsAsStrict ==
  ASSUME NEW p \in RuleSet, NEW later \in RuleSet
  PROVE  AsStrict(tighten(p, later), p) /\ AsStrict(tighten(p, later), later)
<1>. DEFINE both == tighten(p, later)
<1>1. p.files \in Nat /\ p.lines \in Nat /\ later.files \in Nat /\ later.lines \in Nat
  BY DEF RuleSet
<1>2. /\ both.forbidden = p.forbidden \cup later.forbidden
      /\ both.files = tighterCeiling(p.files, later.files)
      /\ both.lines = tighterCeiling(p.lines, later.lines)
  BY DEF tighten
<1>3. (p.deps \/ later.deps => both.deps) /\ (p.content \/ later.content => both.content)
  BY DEF tighten
<1>. HIDE DEF both
<1>4. /\ p.files > 0 => both.files > 0 /\ both.files <= p.files
      /\ later.files > 0 => both.files > 0 /\ both.files <= later.files
  BY <1>1, <1>2, CeilingOfBoth
<1>5. /\ p.lines > 0 => both.lines > 0 /\ both.lines <= p.lines
      /\ later.lines > 0 => both.lines > 0 /\ both.lines <= later.lines
  BY <1>1, <1>2, CeilingOfBoth
<1>6. AsStrict(both, p) /\ AsStrict(both, later)
  BY <1>2, <1>3, <1>4, <1>5 DEF AsStrict
<1>. QED  BY <1>6 DEF both

\* A run holds to what both layers said when it was started.
PinInv ==
  /\ yaml \in [user : RuleSet, repo : RuleSet]
  /\ stage \in {"new", "refused"} => start.rules = {}
  /\ \A p \in start.rules : p \in RuleSet /\ AsStrict(pin.rules, p)
  /\ pin.rules # NoRules => pin.baseline = Declared(start.tree)
  /\ pin.rules = NoRules => pin = NoPin
  /\ pin.rules.files \in Nat /\ pin.rules.lines \in Nat

\* What reached the tests was judged, by the rules the run is pinned to.
JudgedInv ==
  /\ recorded \subseteq Paths
  /\ stage \in {"test", "done"} =>
       pin = NoPin \/ (Evaluates(pin.rules, judged) /\ Violations(pin.rules, judged) = {})

PolicyInv == PinInv /\ JudgedInv

LEMMA PolicyInitInv == ASSUME PolicyInit PROVE PolicyInv
<1>1. yaml \in [user : RuleSet, repo : RuleSet]
  BY RulesAreSets DEF PolicyInit
<1>2. start.rules = {} /\ pin = NoPin /\ recorded = {} /\ stage = "new"
  BY DEF PolicyInit
<1>3. NoPin.rules = NoRules /\ NoRules.files = 0 /\ NoRules.lines = 0
  BY DEF NoPin, NoRules
<1>. QED  BY <1>1, <1>2, <1>3 DEF PolicyInv, PinInv, JudgedInv

LEMMA createRunInv == ASSUME PolicyInv, createRun PROVE PolicyInv'
<1>1. stage = "new" /\ start.rules = {} /\ UNCHANGED <<yaml, tree, recorded>>
  BY DEF createRun, PolicyInv, PinInv
<1>2. yaml.user \in RuleSet /\ yaml.repo \in RuleSet
  BY DEF PolicyInv, PinInv
<1>3. CASE From # NoRules /\ ~Surveys(tree)
  BY <1>1, <1>3 DEF createRun, PolicyInv, PinInv, JudgedInv
<1>4. CASE ~ (From # NoRules /\ ~Surveys(tree))
  <2>1. /\ stage' = "agent"
        /\ pin' = [rules |-> From, baseline |-> IF From = NoRules THEN {} ELSE Declared(tree)]
        /\ start' = [tree |-> tree, rules |-> {yaml.user, yaml.repo}]
    BY <1>4 DEF createRun
  <2>2. pin'.rules = From /\ start'.tree = tree /\ start'.rules = {yaml.user, yaml.repo}
    BY <2>1
  <2>3. AsStrict(From, yaml.user) /\ AsStrict(From, yaml.repo)
    BY <1>2, TightenIsAsStrict DEF From
  <2>4. From.files \in Nat /\ From.lines \in Nat
    <3>1. /\ From.files = tighterCeiling(yaml.user.files, yaml.repo.files)
          /\ From.lines = tighterCeiling(yaml.user.lines, yaml.repo.lines)
      BY DEF From, tighten
    <3>2. /\ yaml.user.files \in Nat /\ yaml.repo.files \in Nat
          /\ yaml.user.lines \in Nat /\ yaml.repo.lines \in Nat
      BY <1>2 DEF RuleSet
    <3>. QED  BY <3>1, <3>2, CeilingOfBoth
  <2>5. pin'.rules # NoRules => pin'.baseline = Declared(tree)
    BY <2>1
  <2>6. pin'.rules = NoRules => pin' = NoPin
    BY <2>1 DEF NoPin
  <2>7. Declared(start.tree)' = Declared(tree)
    BY <2>2 DEF Declared
  <2>8. yaml' \in [user : RuleSet, repo : RuleSet]
    BY <1>1 DEF PolicyInv, PinInv
  <2>9. PinInv'
    BY <1>2, <2>1, <2>2, <2>3, <2>4, <2>5, <2>6, <2>7, <2>8 DEF PinInv
  <2>. QED  BY <1>1, <2>1, <2>9 DEF PolicyInv, JudgedInv
<1>. QED  BY <1>3, <1>4

\* A step that leaves the pin and where the run was started.
LEMMA PinStands ==
  ASSUME PolicyInv, UNCHANGED <<pin, start>>, yaml' \in [user : RuleSet, repo : RuleSet],
         stage' \in {"new", "refused"} => stage \in {"new", "refused"}
  PROVE  PinInv'
<1>1. Declared(start.tree)' = Declared(start.tree)
  BY DEF Declared
<1>. QED  BY <1>1 DEF PolicyInv, PinInv

\* A step that leaves what was judged as it stands.
LEMMA VerdictStands ==
  ASSUME PolicyInv, UNCHANGED <<pin, start, tree, recorded>>,
         stage' \in {"test", "done"} => stage \in {"test", "done"}
  PROVE  JudgedInv'
<1>1. judged' = judged
  BY DEF judged, Truth
<1>2. Evaluates(pin.rules, judged)' <=> Evaluates(pin.rules, judged)
  BY <1>1 DEF Evaluates, Scans, Surveys
<1>3. Violations(pin.rules, judged)' = Violations(pin.rules, judged)
  <2>1. LinesOf(judged)' = LinesOf(judged)
    BY <1>1 DEF LinesOf, Lines, Present
  <2>2. newDependencies' = newDependencies
    BY DEF newDependencies, Declared
  <2>. QED  BY <1>1, <2>1, <2>2 DEF Violations, requiredTest
<1>. QED  BY <1>2, <1>3 DEF PolicyInv, JudgedInv

LEMMA ReconfigureInv == ASSUME PolicyInv, Reconfigure PROVE PolicyInv'
<1>1. yaml' \in [user : RuleSet, repo : RuleSet]
  <2>1. PICK p \in Rules : yaml' = [yaml EXCEPT !.repo = p]
    BY DEF Reconfigure
  <2>2. p \in RuleSet /\ yaml \in [user : RuleSet, repo : RuleSet]
    BY RulesAreSets DEF PolicyInv, PinInv
  <2>. QED  BY <2>1, <2>2
<1>. QED  BY <1>1, PinStands, VerdictStands DEF Reconfigure, PolicyInv

LEMMA RestOfRunInv == ASSUME PolicyInv, Replies \/ RunTests \/ Resume PROVE PolicyInv'
<1>1. yaml' \in [user : RuleSet, repo : RuleSet] /\ UNCHANGED <<pin, start, tree, recorded>>
  BY DEF Replies, RunTests, Resume, bindPolicy, PolicyInv, PinInv
<1>2. /\ stage' \notin {"new", "refused"}
      /\ stage' \in {"test", "done"} => stage \in {"test", "done"}
  BY DEF Replies, RunTests, Resume
<1>. QED  BY <1>1, <1>2, PinStands, VerdictStands DEF PolicyInv

LEMMA WorkspaceInv == ASSUME PolicyInv, Edit \/ Write PROVE PolicyInv'
<1>1. yaml' \in [user : RuleSet, repo : RuleSet] /\ UNCHANGED <<pin, start>>
  BY DEF Edit, Write, PolicyInv, PinInv
<1>2. stage' \notin {"new", "refused", "test", "done"}
  BY DEF Edit, Write
<1>3. recorded' \subseteq Paths
  BY DEF Edit, Write, PolicyInv, JudgedInv, Truth
<1>. QED  BY <1>1, <1>2, <1>3, PinStands DEF PolicyInv, JudgedInv

LEMMA policyRunInv == ASSUME PolicyInv, policyRun PROVE PolicyInv'
<1>1. yaml' \in [user : RuleSet, repo : RuleSet] /\ UNCHANGED <<pin, start, tree, recorded>>
  BY DEF policyRun, PolicyInv, PinInv
<1>2. stage' \in {"test", "failed", "agent"}
  BY DEF policyRun
<1>3. PinInv'
  BY <1>1, <1>2, PinStands
<1>4. stage' = "test" => pin = NoPin \/ (Evaluates(pin.rules, judged) /\ Violations(pin.rules, judged) = {})
  BY DEF policyRun, bindPolicy
<1>5. judged' = judged
  BY <1>1 DEF judged, Truth
<1>6. Evaluates(pin.rules, judged)' <=> Evaluates(pin.rules, judged)
  BY <1>1, <1>5 DEF Evaluates, Scans, Surveys
<1>7. Violations(pin.rules, judged)' = Violations(pin.rules, judged)
  <2>1. LinesOf(judged)' = LinesOf(judged)
    BY <1>1, <1>5 DEF LinesOf, Lines, Present
  <2>2. newDependencies' = newDependencies
    BY <1>1 DEF newDependencies, Declared
  <2>. QED  BY <1>1, <1>5, <2>1, <2>2 DEF Violations, requiredTest
<1>8. recorded' \subseteq Paths
  BY <1>1 DEF PolicyInv, JudgedInv
<1>. QED  BY <1>1, <1>2, <1>3, <1>4, <1>6, <1>7, <1>8 DEF PolicyInv, JudgedInv

LEMMA PolicyStutterInv == ASSUME PolicyInv, UNCHANGED policyVars PROVE PolicyInv'
<1>1. yaml' \in [user : RuleSet, repo : RuleSet] /\ UNCHANGED <<pin, start, tree, recorded, stage>>
  BY DEF policyVars, PolicyInv, PinInv
<1>. QED  BY <1>1, PinStands, VerdictStands DEF PolicyInv

LEMMA PolicyNextInv == PolicyInv /\ [PolicyNext]_policyVars => PolicyInv'
BY createRunInv, ReconfigureInv, policyRunInv, WorkspaceInv, RestOfRunInv, PolicyStutterInv
   DEF PolicyNext

-----------------------------------------------------------------------------
\* A part of the change has no more files and no more lines.
LEMMA PathsFinite == IsFiniteSet(Paths)
<1>1. IsFiniteSet({}) /\ Paths = ((({} \cup {"src"}) \cup {"test"}) \cup {"infra"}) \cup {"manifest"}
  BY FS_EmptySet DEF Paths
<1>. QED  BY <1>1, FS_AddElement

LEMMA PartIsNoMore ==
  ASSUME NEW files \in SUBSET Paths, NEW part \in SUBSET files
  PROVE  /\ Cardinality(files) \in Nat /\ Cardinality(part) \in Nat
         /\ Cardinality(part) <= Cardinality(files)
         /\ Cardinality(LinesOf(files)) \in Nat /\ Cardinality(LinesOf(part)) \in Nat
         /\ Cardinality(LinesOf(part)) <= Cardinality(LinesOf(files))
<1>1. IsFiniteSet(files)
  BY PathsFinite, FS_Subset
<1>2. IsFiniteSet(part) /\ Cardinality(part) <= Cardinality(files)
  BY <1>1, FS_Subset
<1>3. IsFiniteSet(LinesOf(files))
  <2>1. IsFiniteSet(1..3)
    BY 1 \in Int, 3 \in Int, FS_Interval
  <2>2. IsFiniteSet(Paths \X (1..3))
    BY <2>1, PathsFinite, FS_Product
  <2>3. LinesOf(files) \subseteq Paths \X (1..3)
    BY DEF LinesOf, Lines
  <2>. QED  BY <2>2, <2>3, FS_Subset
<1>4. LinesOf(part) \subseteq LinesOf(files)
  BY DEF LinesOf
<1>5. IsFiniteSet(LinesOf(part)) /\ Cardinality(LinesOf(part)) <= Cardinality(LinesOf(files))
  BY <1>3, <1>4, FS_Subset
<1>. QED  BY <1>1, <1>2, <1>3, <1>5, FS_CardinalityType

\* What was judged and found without fault obeys every layer of the pin.
LEMMA JudgedObeys ==
  ASSUME PolicyInv, stage \in {"test", "done"}, NEW p \in start.rules
  PROVE  Obeys(p)
<1>. DEFINE strict == pin.rules
<1>1. p \in RuleSet /\ AsStrict(strict, p) /\ strict.files \in Nat /\ strict.lines \in Nat
  BY DEF PolicyInv, PinInv
<1>2. p.files \in Nat /\ p.lines \in Nat
  BY <1>1 DEF RuleSet
<1>3. CASE pin = NoPin
  <2>1. strict.forbidden = {} /\ strict.files = 0 /\ strict.lines = 0 /\ ~ strict.deps /\ ~ strict.content
    BY <1>3 DEF NoPin, NoRules
  <2>2. p.forbidden = {} /\ ~ (p.files > 0) /\ ~ (p.lines > 0) /\ ~ p.deps /\ ~ p.content
    BY <1>1, <2>1 DEF AsStrict
  <2>. QED  BY <2>2 DEF Obeys
<1>4. CASE pin # NoPin
  <2>1. Evaluates(strict, judged) /\ Violations(strict, judged) = {}
    BY <1>4 DEF PolicyInv, JudgedInv
  <2>2. /\ judged \cap strict.forbidden = {}
        /\ ~ (strict.files > 0 /\ Cardinality(judged) > strict.files)
        /\ ~ (strict.lines > 0 /\ Cardinality(LinesOf(judged)) > strict.lines)
        /\ ~ (strict.deps /\ newDependencies # {})
        /\ ~ (strict.content /\ \E f \in judged : tree[f] = "secret")
    BY <2>1 DEF Violations
  <2>3. Truth \subseteq judged /\ judged \subseteq Paths
    BY DEF judged, Truth, PolicyInv, JudgedInv
  <2>4. /\ Cardinality(judged) \in Nat /\ Cardinality(Truth) \in Nat
        /\ Cardinality(Truth) <= Cardinality(judged)
        /\ Cardinality(LinesOf(judged)) \in Nat /\ Cardinality(LinesOf(Truth)) \in Nat
        /\ Cardinality(LinesOf(Truth)) <= Cardinality(LinesOf(judged))
    BY <2>3, PartIsNoMore
  <2>5. Truth \cap p.forbidden = {}
    BY <1>1, <2>2, <2>3 DEF AsStrict
  <2>6. p.files > 0 => Cardinality(Truth) <= p.files
    BY <1>1, <1>2, <2>2, <2>4 DEF AsStrict
  <2>7. p.lines > 0 => Cardinality(LinesOf(Truth)) <= p.lines
    BY <1>1, <1>2, <2>2, <2>4 DEF AsStrict
  <2>8. p.deps => Declared(tree) \subseteq Declared(start.tree)
    <3>1. pin.baseline = Declared(start.tree)
      BY <1>4 DEF PolicyInv, PinInv
    <3>. QED  BY <1>1, <2>2, <3>1 DEF AsStrict, newDependencies
  <2>9. p.content => \A f \in Truth : tree[f] \notin {"secret", "bundle"}
    <3>1. strict.content => \A f \in judged : tree[f] # "bundle"
      BY <2>1 DEF Evaluates, Scans
    <3>. QED  BY <1>1, <2>2, <2>3, <3>1 DEF AsStrict
  <2>. QED  BY <2>5, <2>6, <2>7, <2>8, <2>9 DEF Obeys
<1>. QED  BY <1>3, <1>4

\* A path the gate forbids is recorded for good: no pass of it is.
LEMMA ForbiddenStep ==
  ASSUME PolicyInv, [PolicyNext]_policyVars, stage' = "test", stage # "test",
         NEW p \in start.rules
  PROVE  recorded \cap p.forbidden = {}
<1>1. policyRun
  BY DEF PolicyNext, createRun, Reconfigure, Edit, Replies, Write, RunTests, Resume, policyVars
<1>2. pin = NoPin \/ Violations(pin.rules, judged) = {}
  BY <1>1 DEF policyRun, bindPolicy
<1>3. judged \cap pin.rules.forbidden = {}
  <2>1. CASE pin = NoPin
    BY <2>1 DEF NoPin, NoRules
  <2>2. CASE Violations(pin.rules, judged) = {}
    BY <2>2 DEF Violations
  <2>. QED  BY <1>2, <2>1, <2>2
<1>4. recorded \subseteq judged /\ p.forbidden \subseteq pin.rules.forbidden
  BY DEF judged, PolicyInv, PinInv, AsStrict
<1>. QED  BY <1>3, <1>4

\* cli/resume.go, policy/policy.go: whatever is edited while a run is under
\* way, belay.yaml included, what reached the tests obeys each layer of the
\* rules it was started with, and no forbidden path ever recorded gets past.
THEOREM RunsAreHeldToTheirStart == PolicySpec => HeldToItsStart
<1>1. PolicyInv => RulesObeyed
  BY JudgedObeys DEF RulesObeyed
<1>2. PolicyInv /\ [PolicyNext]_policyVars =>
        [stage' = "test" /\ stage # "test" =>
           \A p \in start.rules : recorded \cap p.forbidden = {}]_policyVars
  BY ForbiddenStep
<1>. QED
  BY <1>1, <1>2, PolicyInitInv, PolicyNextInv, PTL DEF PolicySpec, HeldToItsStart, ForbiddenIsForGood

-----------------------------------------------------------------------------
(***************************************************************************)
(* The agent's calls: what they cost and what they may change.             *)
(***************************************************************************)
\* The units a sum is of.
Units(f) == UNION {{m} \X (1..f[m]) : m \in DOMAIN f}

LEMMA UnitsAreFinite ==
  ASSUME NEW D, IsFiniteSet(D), NEW f \in [D -> Nat]
  PROVE  IsFiniteSet(Units(f)) /\ Total(f) \in Nat
<1>. DEFINE col == [m \in D |-> {m} \X (1..f[m])]
            T   == {{m} \X (1..f[m]) : m \in D}
<1>1. col \in Surjection(D, T)
  BY DEF Surjection
<1>2. IsFiniteSet(T)
  BY <1>1, FS_Surjection
<1>3. \A m \in D : IsFiniteSet({m} \X (1..f[m]))
  <2>. SUFFICES ASSUME NEW m \in D  PROVE IsFiniteSet({m} \X (1..f[m]))
    OBVIOUS
  <2>1. 1 \in Int /\ f[m] \in Int
    OBVIOUS
  <2>2. IsFiniteSet(1..f[m])
    BY <2>1, FS_Interval
  <2>3. IsFiniteSet({m})
    BY FS_Singleton
  <2>. QED  BY <2>2, <2>3, FS_Product
<1>4. \A S \in T : IsFiniteSet(S)
  BY <1>3
<1>5. IsFiniteSet(UNION T)
  BY <1>2, <1>4, FS_UNION
<1>6. DOMAIN f = D
  OBVIOUS
<1>7. Units(f) = UNION T
  BY <1>6 DEF Units
<1>8. Total(f) = Cardinality(Units(f))
  BY DEF Total, Units
<1>. HIDE DEF T, col
<1>. QED  BY <1>5, <1>7, <1>8, FS_CardinalityType

\* A sum of more, or of more each, is no less.
LEMMA TotalGrows ==
  ASSUME NEW E, IsFiniteSet(E), NEW D \in SUBSET E,
         NEW f \in [D -> Nat], NEW g \in [E -> Nat],
         \A m \in D : f[m] <= g[m]
  PROVE  Total(f) <= Total(g)
<1>1. IsFiniteSet(Units(g))
  BY UnitsAreFinite
<1>2. Units(f) \subseteq Units(g)
  <2>. SUFFICES ASSUME NEW m \in D, NEW u \in {m} \X (1..f[m])
                PROVE  m \in E /\ u \in {m} \X (1..g[m])
    BY DEF Units
  <2>1. f[m] \in Nat /\ g[m] \in Nat /\ f[m] <= g[m]
    OBVIOUS
  <2>2. 1..f[m] \subseteq 1..g[m]
    BY <2>1
  <2>. QED  BY <2>2
<1>3. Cardinality(Units(f)) <= Cardinality(Units(g))
  BY <1>1, <1>2, FS_Subset
<1>. QED  BY <1>3 DEF Total, Units

\* A sum of one is the one.
LEMMA TotalOfOne ==
  ASSUME NEW D, NEW m, D \subseteq {m}, NEW f \in [D -> Nat]
  PROVE  /\ m \in D => Total(f) = f[m]
         /\ m \notin D => Total(f) = 0
<1>1. CASE m \in D
  <2>1. D = {m} /\ DOMAIN f = {m} /\ f[m] \in Nat
    BY <1>1
  <2>2. Units(f) = {m} \X (1..f[m])
    BY <2>1 DEF Units
  <2>3. 1 \in Int /\ f[m] \in Int /\ f[m] >= 0
    BY <2>1
  <2>4. IsFiniteSet(1..f[m]) /\ Cardinality(1..f[m]) = f[m]
    <3>1. Cardinality(1..f[m]) = IF 1 > f[m] THEN 0 ELSE f[m] - 1 + 1
      BY <2>3, FS_Interval
    <3>2. IsFiniteSet(1..f[m])
      BY <2>3, FS_Interval
    <3>. QED  BY <2>1, <3>1, <3>2
  <2>5. IsFiniteSet({m}) /\ Cardinality({m}) = 1
    BY FS_Singleton
  <2>6. Cardinality({m} \X (1..f[m])) = 1 * f[m]
    <3>. DEFINE A == {m}
                B == 1..f[m]
    <3>1. IsFiniteSet(A) /\ IsFiniteSet(B) /\ Cardinality(A) = 1 /\ Cardinality(B) = f[m]
      BY <2>4, <2>5
    <3>. HIDE DEF A, B
    <3>2. Cardinality(A \X B) = Cardinality(A) * Cardinality(B)
      BY <3>1, FS_Product
    <3>3. Cardinality(A \X B) = 1 * f[m]
      BY <3>1, <3>2
    <3>. QED  BY <3>3 DEF A, B
  <2>7. Total(f) = Cardinality(Units(f))
    BY DEF Total, Units
  <2>. QED  BY <1>1, <2>1, <2>2, <2>6, <2>7
<1>2. CASE m \notin D
  <2>1. D = {} /\ DOMAIN f = {}
    BY <1>2
  <2>2. Units(f) = {}
    BY <2>1 DEF Units
  <2>3. Total(f) = 0
    BY <2>2, FS_EmptySet DEF Total, Units
  <2>. QED  BY <1>2, <2>3
<1>. QED  BY <1>1, <1>2

\* agent/claude resolvePrice: what a token is counted at is a price, and no
\* less than it cost, under the model's name or the one it was asked for by.
LEMMA HighestIsHigh == highestPrice \in Nat
<1>. DEFINE S == {Prices[m] : m \in DOMAIN Prices}
<1>1. \E p \in S : \A q \in S : p >= q
  BY AgentAssumption
<1>2. Max(S) \in S
  BY <1>1 DEF Max
<1>. QED  BY <1>2, AgentAssumption DEF highestPrice

LEMMA PriceIsAPrice ==
  ASSUME NEW name
  PROVE  resolvePrice(name) \in Nat
BY HighestIsHigh, AgentAssumption DEF resolvePrice

LEMMA ModelIsCovered ==
  ASSUME NEW m \in Models
  PROVE  Charges[m] \in Nat /\ Charges[m] <= resolvePrice(m)
<1>1. normalizeModel(m) = m
  BY AgentAssumption DEF normalizeModel
<1>. QED  BY <1>1, AgentAssumption DEF resolvePrice

LEMMA RequestIsCovered ==
  ASSUME NEW name \in Requested, NEW m \in RunsAs[name]
  PROVE  m \in Models /\ Charges[m] \in Nat /\ Charges[m] <= resolvePrice(name)
<1>1. m \in Models
  BY AgentAssumption
<1>2. CASE normalizeModel(name) \in DOMAIN Prices
  <2>1. Charges[m] <= Prices[normalizeModel(name)]
    BY <1>2, AgentAssumption
  <2>. QED  BY <1>1, <1>2, <2>1, AgentAssumption DEF resolvePrice
<1>3. CASE normalizeModel(name) \notin DOMAIN Prices
  BY <1>1, <1>3, AgentAssumption DEF resolvePrice
<1>. QED  BY <1>2, <1>3

\* What a reply counts for, as it is and as it is billed.
Increment(r) == IF r.bill = "exact" THEN Worth(r.spent)
                ELSE Total([m \in OnRecord(r) |-> Charges[m]])

LEMMA WorthIsNat ==
  ASSUME NEW spent \in [Models -> 0..1]
  PROVE  Worth(spent) \in Nat
<1>. DEFINE f == [m \in Models |-> spent[m] * Charges[m]]
<1>1. \A m \in Models : spent[m] * Charges[m] \in Nat
  <2>. SUFFICES ASSUME NEW m \in Models  PROVE spent[m] * Charges[m] \in Nat
    OBVIOUS
  <2>1. spent[m] \in {0, 1} /\ Charges[m] \in Nat
    BY AgentAssumption
  <2>. QED  BY <2>1
<1>2. f \in [Models -> Nat]
  BY <1>1
<1>3. Worth(spent) = Total(f)
  BY DEF Worth
<1>. HIDE DEF f
<1>4. IsFiniteSet(Models)
  BY AgentAssumption
<1>. QED  BY <1>2, <1>3, <1>4, UnitsAreFinite

LEMMA CountCovers ==
  ASSUME req.model \in Requested, NEW r \in CliReplies
  PROVE  /\ countsByModel(r) \in Nat
         /\ Total([m \in OnRecord(r) |-> Charges[m]]) \in Nat
         /\ Total([m \in OnRecord(r) |-> Charges[m]]) <= countsByModel(r)
<1>1. /\ r.spent \in [Models -> 0..1] /\ r.own \in RunsAs[req.model]
      /\ r.breakdown \in BOOLEAN
  BY DEF CliReplies
<1>2. IsFiniteSet(Models)
  BY AgentAssumption
<1>. DEFINE f == [m \in OnRecord(r) |-> Charges[m]]
            g == [m \in Models |-> r.spent[m] * resolvePrice(m)]
<1>3. OnRecord(r) \subseteq Models
  BY DEF OnRecord
<1>4. f \in [OnRecord(r) -> Nat]
  BY <1>3, AgentAssumption
<1>5. IsFiniteSet(OnRecord(r))
  BY <1>2, <1>3, FS_Subset
<1>6. Total(f) \in Nat
  <2>. HIDE DEF f
  <2>. QED  BY <1>4, <1>5, UnitsAreFinite
<1>7. CASE r.breakdown
  <2>1. \A m \in Models : /\ r.spent[m] * resolvePrice(m) \in Nat
                          /\ r.spent[m] > 0 => Charges[m] <= r.spent[m] * resolvePrice(m)
    <3>. SUFFICES ASSUME NEW m \in Models
                  PROVE  /\ r.spent[m] * resolvePrice(m) \in Nat
                         /\ r.spent[m] > 0 => Charges[m] <= r.spent[m] * resolvePrice(m)
      OBVIOUS
    <3>1. r.spent[m] \in 0..1
      BY <1>1
    <3>2. r.spent[m] = 0 \/ r.spent[m] = 1
      BY <3>1
    <3>3. resolvePrice(m) \in Nat /\ Charges[m] \in Nat /\ Charges[m] <= resolvePrice(m)
      BY PriceIsAPrice, ModelIsCovered
    <3>. QED  BY <3>2, <3>3
  <2>2. g \in [Models -> Nat]
    BY <2>1
  <2>3. \A m \in OnRecord(r) : f[m] <= g[m]
    BY <1>3, <1>7, <2>1 DEF OnRecord
  <2>4. countsByModel(r) = Total(g)
    BY <1>7 DEF countsByModel
  <2>. HIDE DEF f, g
  <2>5. Total(g) \in Nat
    BY <1>2, <2>2, UnitsAreFinite
  <2>6. Total(f) <= Total(g)
    BY <1>2, <1>3, <1>4, <2>2, <2>3, TotalGrows
  <2>. QED  BY <1>6, <2>4, <2>5, <2>6 DEF f
<1>8. CASE ~r.breakdown
  <2>1. /\ r.own \in Models /\ Charges[r.own] \in Nat
        /\ Charges[r.own] <= resolvePrice(req.model)
    BY <1>1, RequestIsCovered
  <2>2. resolvePrice(req.model) \in Nat
    BY PriceIsAPrice
  <2>3. r.spent[r.own] = 0 \/ r.spent[r.own] = 1
    <3>1. r.spent[r.own] \in 0..1
      BY <1>1, <2>1
    <3>. QED  BY <3>1
  <2>4. countsByModel(r) = r.spent[r.own] * resolvePrice(req.model)
    BY <1>8 DEF countsByModel
  <2>5. countsByModel(r) \in Nat /\ (r.spent[r.own] > 0 => Charges[r.own] <= countsByModel(r))
    BY <2>1, <2>2, <2>3, <2>4
  <2>6. /\ OnRecord(r) \subseteq {r.own}
        /\ r.own \in OnRecord(r) => r.spent[r.own] > 0 /\ f[r.own] = Charges[r.own]
    BY <1>8 DEF OnRecord
  <2>7. Total(f) <= countsByModel(r)
    <3>1. /\ r.own \in OnRecord(r) => Total(f) = f[r.own]
          /\ r.own \notin OnRecord(r) => Total(f) = 0
      <4>. HIDE DEF f
      <4>. QED  BY <1>4, <2>6, TotalOfOne
    <3>. HIDE DEF f
    <3>. QED  BY <2>1, <2>5, <2>6, <3>1
  <2>. HIDE DEF f
  <2>. QED  BY <1>6, <2>5, <2>7 DEF f
<1>. QED  BY <1>1, <1>7, <1>8

LEMMA UsageCovers ==
  ASSUME req.model \in Requested, NEW r \in CliReplies
  PROVE  /\ usageOf(r).usd \in Nat /\ Increment(r) \in Nat
         /\ Increment(r) <= usageOf(r).usd
<1>1. r.spent \in [Models -> 0..1]
  BY DEF CliReplies
<1>2. Worth(r.spent) \in Nat
  BY <1>1, WorthIsNat
<1>3. usageOf(r).usd = IF r.bill = "exact" /\ Worth(r.spent) > 0 THEN Worth(r.spent)
                       ELSE countsByModel(r)
  BY DEF usageOf
<1>. QED  BY <1>2, <1>3, CountCovers DEF Increment

-----------------------------------------------------------------------------
\* The amounts are amounts.
MoneyInv ==
  /\ ledger \in Nat /\ billed \in Nat
  /\ resp.usage.usd \in Nat

\* A call in flight asks for a model of the configuration, and a plan call is
\* offered nothing that writes.
OfferInv ==
  turn = "calling" => /\ req.model \in Requested
                      /\ req.node = "plan" => offered \cap Writers = {}

\* What a reply in hand was worth is in its usage or in the ledger already.
CoverInv ==
  /\ turn = "returned" => ledger + resp.usage.usd >= billed
  /\ turn \notin {"returned", "unusable"} => ledger >= billed

AgentInv == MoneyInv /\ OfferInv /\ CoverInv /\ PlanIsReadOnly

LEMMA AgentInitInv == AgentInit => AgentInv
<1>. SUFFICES ASSUME AgentInit  PROVE AgentInv
  OBVIOUS
<1>1. resp.usage.usd = 0
  BY DEF AgentInit, NoResponse, NoUsage
<1>. QED
  BY <1>1 DEF AgentInit, AgentInv, MoneyInv, OfferInv, CoverInv, PlanIsReadOnly

\* command: a plan call names its tools, so the session has no others.
LEMMA InvokeInv == AgentInv /\ Invoke => AgentInv'
<1>. SUFFICES ASSUME AgentInv, Invoke  PROVE AgentInv'
  OBVIOUS
<1>. USE DEF AgentInv
<1>1. PICK node \in Nodes, m \in Requested :
        req' = [node |-> node, model |-> m, tools |-> AllowedTools(node)]
  BY DEF Invoke
<1>2. req'.node = node /\ req'.model = m /\ req'.tools = AllowedTools(node)
  BY <1>1
<1>3. node = "plan" => AllowedTools(node) = {"Read", "Grep"}
  BY DEF AllowedTools
<1>4. AllowedTools(node) # {}
  BY DEF AllowedTools
<1>5. Session(command(req')) = AllowedTools(node)
  <2>1. command(req').tools = AllowedTools(node) /\ command(req').strict = TRUE
    BY <1>2, <1>4 DEF command
  <2>. QED  BY <1>4, <2>1 DEF Session
<1>6. req'.node = "plan" => offered' \cap Writers = {}
  BY <1>2, <1>3, <1>5 DEF Invoke, Writers
<1>7. OfferInv'
  BY <1>2, <1>6 DEF OfferInv
<1>8. MoneyInv' /\ PlanIsReadOnly'
  BY DEF Invoke, MoneyInv, PlanIsReadOnly
<1>9. CoverInv'
  BY DEF Invoke, CoverInv
<1>. QED  BY <1>7, <1>8, <1>9

LEMMA WorksInv == AgentInv /\ Works => AgentInv'
<1>. SUFFICES ASSUME AgentInv, Works  PROVE AgentInv'
  OBVIOUS
<1>. USE DEF AgentInv, Works
<1>1. req.node # "plan"
  BY DEF OfferInv
<1>2. PlanIsReadOnly'
  BY <1>1 DEF PlanIsReadOnly
<1>3. MoneyInv' /\ OfferInv' /\ CoverInv'
  BY DEF MoneyInv, OfferInv, CoverInv
<1>. QED  BY <1>2, <1>3

\* respond: the usage of the reply is at least what it adds to the bill.
LEMMA RespondInv == AgentInv /\ respond => AgentInv'
<1>. SUFFICES ASSUME AgentInv, respond  PROVE AgentInv'
  OBVIOUS
<1>. USE DEF AgentInv
<1>1. PICK r \in CliReplies :
        /\ resp' = [usage |-> usageOf(r), err |-> IF r.isError THEN "invocation" ELSE "none"]
        /\ billed' = billed + Increment(r)
  BY DEF respond, Increment
<1>2. resp'.usage.usd = usageOf(r).usd
  BY <1>1
<1>3. turn = "calling" /\ turn' = "returned" /\ ledger' = ledger /\ touched' = touched
  BY DEF respond
<1>4. req.model \in Requested
  BY <1>3 DEF OfferInv
<1>5. /\ usageOf(r).usd \in Nat /\ Increment(r) \in Nat
      /\ Increment(r) <= usageOf(r).usd
  BY <1>4, UsageCovers
<1>6. ledger \in Nat /\ billed \in Nat /\ ledger >= billed
  BY <1>3 DEF MoneyInv, CoverInv
<1>7. MoneyInv'
  BY <1>1, <1>2, <1>3, <1>5, <1>6 DEF MoneyInv
<1>8. CoverInv'
  BY <1>1, <1>2, <1>3, <1>5, <1>6 DEF CoverInv
<1>9. OfferInv' /\ PlanIsReadOnly'
  BY <1>3 DEF OfferInv, PlanIsReadOnly
<1>. QED  BY <1>7, <1>8, <1>9

LEMMA TranslateInv == AgentInv /\ translate => AgentInv'
<1>. SUFFICES ASSUME AgentInv, translate  PROVE AgentInv'
  OBVIOUS
<1>. USE DEF AgentInv
<1>1. resp'.usage.usd = 0
  BY DEF translate, NoUsage
<1>2. /\ turn = "calling" /\ turn' = "returned" /\ ledger' = ledger
      /\ billed' = billed /\ touched' = touched
  BY DEF translate
<1>3. MoneyInv' /\ CoverInv'
  BY <1>1, <1>2 DEF MoneyInv, CoverInv
<1>. QED  BY <1>2, <1>3 DEF OfferInv, PlanIsReadOnly

\* Whichever way the node takes it, the usage it reports is the reply's.
LEMMA ChargedInv ==
  ASSUME AgentInv, turn = "returned", NEW next \in {"idle", "failed"},
         Charged(resp.usage.usd, next)
  PROVE  AgentInv'
<1>. USE DEF AgentInv
<1>1. /\ ledger' = ledger + resp.usage.usd /\ billed' = billed /\ touched' = touched
      /\ turn' = next /\ resp' = NoResponse
  BY DEF Charged
<1>2. resp'.usage.usd = 0
  BY <1>1 DEF NoResponse, NoUsage
<1>3. MoneyInv'
  BY <1>1, <1>2 DEF MoneyInv
<1>4. CoverInv'
  BY <1>1 DEF CoverInv, MoneyInv
<1>. QED  BY <1>1, <1>3, <1>4 DEF OfferInv, PlanIsReadOnly

LEMMA ReplyUnusableInv == AgentInv /\ ReplyUnusable => AgentInv'
<1>. SUFFICES ASSUME AgentInv, ReplyUnusable  PROVE AgentInv'
  OBVIOUS
<1>. USE DEF AgentInv
<1>1. /\ ledger' = ledger + 0 /\ billed' = billed /\ touched' = touched
      /\ turn' = "unusable" /\ resp' = NoResponse
  BY DEF ReplyUnusable, Charged
<1>2. resp'.usage.usd = 0
  BY <1>1 DEF NoResponse, NoUsage
<1>3. MoneyInv'
  BY <1>1, <1>2 DEF MoneyInv
<1>. QED  BY <1>1, <1>3 DEF CoverInv, OfferInv, PlanIsReadOnly

LEMMA AgentNextInv == AgentInv /\ [AgentNext]_agentVars => AgentInv'
<1>. SUFFICES ASSUME AgentInv, [AgentNext]_agentVars  PROVE AgentInv'
  OBVIOUS
<1>1. CASE Invoke
  BY <1>1, InvokeInv
<1>2. CASE Works
  BY <1>2, WorksInv
<1>3. CASE respond
  BY <1>3, RespondInv
<1>4. CASE translate
  BY <1>4, TranslateInv
<1>5. CASE NodeGoesOn \/ PlanStands
  BY <1>5, ChargedInv DEF NodeGoesOn, PlanStands
<1>6. CASE NodeFails \/ PlanFails
  BY <1>6, ChargedInv DEF NodeFails, PlanFails
<1>7. CASE ReplyUnusable
  BY <1>7, ReplyUnusableInv
<1>8. CASE UNCHANGED agentVars
  BY <1>8 DEF agentVars, AgentInv, MoneyInv, OfferInv, CoverInv, PlanIsReadOnly
<1>. QED
  BY <1>1, <1>2, <1>3, <1>4, <1>5, <1>6, <1>7, <1>8 DEF AgentNext

\* agent/claude usageOf, resolvePrice and command: what the dispatcher holds
\* against the ceiling is at least what the replies' tokens were worth, but
\* for the replies code and fix turn down, and a plan call changes nothing,
\* whatever the user's settings approve or add.
THEOREM LedgersCover == AgentSpec => []LedgerCovers
<1>1. AgentInv => LedgerCovers
  BY DEF AgentInv, CoverInv, LedgerCovers, BillsAreCovered
<1>. QED  BY AgentInitInv, AgentNextInv, <1>1, PTL DEF AgentSpec

-----------------------------------------------------------------------------
(***************************************************************************)
(* Suites.  What a tool has printed is of the tests that have ended: a     *)
(* line or more of each, and after its own end the tally of them all.      *)
(***************************************************************************)
Reported == {"text", "pass", "skip", "fail", "build-fail", "package-build-failed", "package-failed"}
Tallies  == [tests : Nat, failed : Nat, broken : Nat]
Printed  == [of : Packages \X Nat, what : Reported \cup {"FAILED"}]
       \cup [what : {"document", "trailer", "summary"}, counts : Tallies]
Fates    == {"running", "missing", "timed-out", "cancelled", "exit-0", "exit-1", "exit-137"}

Said(t, what) == Line(t[1], t[2], what)
Finished      == fate \in {"exit-0", "exit-1"}
Tallied       == runner \in {"jest", "node-test", "pytest"}
TallyWord     == IF runner = "jest" THEN "document"
                 ELSE IF runner = "node-test" THEN "trailer" ELSE "summary"
Tally         == [what |-> TallyWord, counts |-> Counts]

SuitesTypeInv ==
  /\ runner \in Runners
  /\ suite \in [Packages -> Suite] /\ ended \in [Packages -> Nat]
  /\ \A p \in Packages : ended[p] <= Len(suite[p])
  /\ stream \in Seq(Printed) /\ fate \in Fates

\* Nothing is said but of a test that ended, or by the tool as it finishes.
OnlyOfTests ==
  \A e \in Range(stream) :
    \/ \E t \in EndedTests : \E what \in Says(t) : e = Said(t, what)
    \/ Finished /\ runner = "pytest" /\ \E t \in Red : e = Said(t, "FAILED")
    \/ Finished /\ Tallied /\ e = Tally

\* No test ends unsaid, and a tool that finishes tells the tests it keeps.
EveryTest ==
  /\ \A t \in EndedTests : \E what \in Says(t) : Said(t, what) \in Range(stream)
  /\ Finished /\ Tallied => Tally \in Range(stream)
  /\ Finished /\ runner = "pytest" => \A t \in Red : Said(t, "FAILED") \in Range(stream)

SuitesInv ==
  /\ SuitesTypeInv /\ OnlyOfTests /\ EveryTest
  /\ fate = "running" => route = "none"
  /\ VerdictIsTheSuites

-----------------------------------------------------------------------------
\* What a package's tests come to is one of the outcomes, and counts them.
LEMMA SuiteIsASeq ==
  ASSUME NEW s \in Suite
  PROVE  /\ Len(s) \in Nat
         /\ \A i \in 1..Len(s) : s[i] \in Outcomes \cup {"broken"}
<1>1. CASE s = Broken
  <2>1. Len(s) = 1 /\ s[1] = "broken"
    BY <1>1 DEF Broken
  <2>. QED  BY <2>1
<1>2. CASE s \in SeqOf(Outcomes, MaxTests)
  <2>1. PICK n \in 0..MaxTests : s \in [1..n -> Outcomes]
    BY <1>2 DEF SeqOf
  <2>2. n \in Nat
    BY <2>1, SuitesAssumption
  <2>3. s \in Seq(Outcomes) /\ Len(s) = n
    BY <2>1, <2>2
  <2>. QED  BY <2>1, <2>2, <2>3
<1>. QED  BY <1>1, <1>2 DEF Suite

LEMMA EndedTestIs ==
  ASSUME SuitesTypeInv, NEW t \in EndedTests
  PROVE  /\ t = <<t[1], t[2]>> /\ t \in Packages \X Nat
         /\ Result(t) \in Outcomes \cup {"broken"}
<1>1. PICK p \in Packages : \E i \in 1..ended[p] : t = <<p, i>>
  BY DEF EndedTests
<1>. PICK i \in 1..ended[p] : t = <<p, i>>
  BY <1>1
<1>2. ended[p] \in Nat /\ suite[p] \in Suite /\ ended[p] <= Len(suite[p])
  BY DEF SuitesTypeInv
<1>3. Len(suite[p]) \in Nat
  BY <1>2, SuiteIsASeq
<1>4. i \in Nat /\ i \in 1..Len(suite[p])
  BY <1>2, <1>3
<1>5. suite[p][i] \in Outcomes \cup {"broken"}
  BY <1>2, <1>4, SuiteIsASeq
<1>. QED  BY <1>1, <1>4, <1>5 DEF Result

LEMMA TestsAreFinite ==
  ASSUME SuitesTypeInv
  PROVE  IsFiniteSet(EndedTests)
<1>. DEFINE T   == {{<<p, i>> : i \in 1..ended[p]} : p \in Packages}
            col == [p \in Packages |-> {<<p, i>> : i \in 1..ended[p]}]
<1>1. col \in Surjection(Packages, T)
  BY DEF Surjection
<1>2. IsFiniteSet(T)
  <2>1. IsFiniteSet(Packages)
    BY SuitesAssumption
  <2>. HIDE DEF T, col
  <2>. QED  BY <1>1, <2>1, FS_Surjection
<1>3. \A p \in Packages : IsFiniteSet({<<p, i>> : i \in 1..ended[p]})
  <2>. SUFFICES ASSUME NEW p \in Packages
                PROVE  IsFiniteSet({<<p, i>> : i \in 1..ended[p]})
    OBVIOUS
  <2>. DEFINE I == 1..ended[p]
              C == {<<p, i>> : i \in I}
              f == [i \in I |-> <<p, i>>]
  <2>1. 1 \in Int /\ ended[p] \in Int
    BY DEF SuitesTypeInv
  <2>2. IsFiniteSet(I)
    BY <2>1, FS_Interval
  <2>3. f \in Surjection(I, C)
    BY DEF Surjection
  <2>4. IsFiniteSet(C)
    <3>. HIDE DEF I, C, f
    <3>. QED  BY <2>2, <2>3, FS_Surjection
  <2>. QED  BY <2>4
<1>4. \A S \in T : IsFiniteSet(S)
  BY <1>3
<1>5. EndedTests = UNION T
  BY DEF EndedTests
<1>. HIDE DEF T, col
<1>. QED  BY <1>2, <1>4, <1>5, FS_UNION

LEMMA TalliesAreCounts ==
  ASSUME SuitesTypeInv
  PROVE  /\ Counts \in Tallies
         /\ Counts.tests + Counts.broken > 0 <=> EndedTests \ Tests("dies") # {} \/ Loose # {}
         /\ Counts.failed + Counts.broken = 0 <=> Red = {}
         /\ IsFiniteSet(Red) /\ Cardinality(Red) <= Counts.failed + Counts.broken
<1>. DEFINE A == EndedTests \ (Loose \cup Tests("dies"))
            F == Tests("fail")
            L == Loose
<1>1. IsFiniteSet(EndedTests)
  BY TestsAreFinite
<1>2. A \subseteq EndedTests /\ F \subseteq EndedTests /\ L \subseteq EndedTests
  BY DEF Tests, Loose
<1>3. Counts = [tests |-> Cardinality(A), failed |-> Cardinality(F), broken |-> Cardinality(L)]
  BY DEF Counts
<1>4. Red = F \cup L
  BY DEF Red
<1>5. /\ EndedTests \ Tests("dies") # {} \/ Loose # {} <=> A # {} \/ L # {}
  OBVIOUS
<1>. HIDE DEF A, F, L
<1>6. IsFiniteSet(A) /\ IsFiniteSet(F) /\ IsFiniteSet(L)
  BY <1>1, <1>2, FS_Subset
<1>7. Cardinality(A) \in Nat /\ Cardinality(F) \in Nat /\ Cardinality(L) \in Nat
  BY <1>6, FS_CardinalityType
<1>8. /\ Cardinality(A) = 0 <=> A = {}
      /\ Cardinality(F) = 0 <=> F = {}
      /\ Cardinality(L) = 0 <=> L = {}
  BY <1>6, FS_EmptySet
<1>9. IsFiniteSet(F \cup L) /\ Cardinality(F \cup L) <= Cardinality(F) + Cardinality(L)
  <2>1. IsFiniteSet(F \cup L) /\ IsFiniteSet(F \cap L)
        /\ Cardinality(F \cup L) = Cardinality(F) + Cardinality(L) - Cardinality(F \cap L)
    BY <1>6, FS_Union, FS_Intersection
  <2>2. Cardinality(F \cap L) \in Nat
    BY <2>1, FS_CardinalityType
  <2>. QED  BY <1>7, <2>1, <2>2
<1>10. /\ Counts.tests = Cardinality(A) /\ Counts.failed = Cardinality(F)
       /\ Counts.broken = Cardinality(L)
  BY <1>3
<1>11. Counts \in Tallies
  BY <1>3, <1>7 DEF Tallies
<1>12. Counts.tests + Counts.broken > 0 <=> A # {} \/ L # {}
  BY <1>7, <1>8, <1>10
<1>13. Counts.failed + Counts.broken = 0 <=> Red = {}
  BY <1>4, <1>7, <1>8, <1>10
<1>. QED  BY <1>4, <1>5, <1>9, <1>10, <1>11, <1>12, <1>13

\* SetToSeq lists the set, all of it and nothing else.
LEMMA ListingOfASet ==
  ASSUME NEW S, IsFiniteSet(S)
  PROVE  SetToSeq(S) \in Seq(S) /\ Range(SetToSeq(S)) = S
<1>. DEFINE n == Cardinality(S)
            I == 1..n
            f == CHOOSE g \in [I -> S] : IsInjective(g)
<1>1. n \in Nat /\ ExistsBijection(I, S)
  BY FS_CardinalityType
<1>2. \E g \in [I -> S] : IsInjective(g)
  BY <1>1 DEF ExistsBijection, Bijection, Injection, IsInjective
<1>3. f \in [I -> S] /\ IsInjective(f)
  BY <1>2
<1>4. f = SetToSeq(S)
  BY DEF SetToSeq
<1>5. Cardinality(I) = n
  <2>1. 1 \in Int /\ n \in Int
    BY <1>1
  <2>2. Cardinality(1..n) = IF 1 > n THEN 0 ELSE n - 1 + 1
    <3>. HIDE DEF n
    <3>. QED  BY <2>1, FS_Interval
  <2>. HIDE DEF n
  <2>. QED  BY <1>1, <2>2
<1>6. f \in Seq(S)
  <2>. HIDE DEF f, n
  <2>. QED  BY <1>1, <1>3
<1>7. f \in Injection(I, S)
  BY <1>3 DEF Injection
<1>8. f \in Surjection(I, S)
  <2>1. Cardinality(I) = Cardinality(S)
    BY <1>5
  <2>. HIDE DEF f, I
  <2>. QED  BY <1>7, <2>1, FS_Injection
<1>9. Range(f) = S
  <2>. HIDE DEF f
  <2>. QED  BY <1>3, <1>8 DEF Range, Surjection
<1>. QED  BY <1>4, <1>6, <1>9

LEMMA RangeOfMore ==
  ASSUME NEW S, NEW s \in Seq(S), NEW t \in Seq(S)
  PROVE  /\ s \o t \in Seq(S)
         /\ Range(s \o t) = Range(s) \cup Range(t)
         /\ \A e \in S : Append(s, e) \in Seq(S) /\ Range(Append(s, e)) = Range(s) \cup {e}
<1>1. s \o t \in Seq(S) /\ DOMAIN (s \o t) = 1..(Len(s) + Len(t))
  OBVIOUS
<1>2. \A i \in 1..Len(s) : (s \o t)[i] = s[i]
  OBVIOUS
<1>3. \A i \in 1..Len(t) : Len(s) + i \in 1..(Len(s) + Len(t)) /\ (s \o t)[Len(s) + i] = t[i]
  OBVIOUS
<1>4. \A i \in 1..(Len(s) + Len(t)) :
        i \in 1..Len(s) \/ \E j \in 1..Len(t) : i = Len(s) + j
  <2>. SUFFICES ASSUME NEW i \in 1..(Len(s) + Len(t)), i \notin 1..Len(s)
                PROVE  \E j \in 1..Len(t) : i = Len(s) + j
    OBVIOUS
  <2>1. i - Len(s) \in 1..Len(t) /\ i = Len(s) + (i - Len(s))
    OBVIOUS
  <2>. QED  BY <2>1
<1>5. DOMAIN s = 1..Len(s) /\ DOMAIN t = 1..Len(t) /\ Len(s) \in Nat /\ Len(t) \in Nat
  OBVIOUS
<1>6. Range(s \o t) = Range(s) \cup Range(t)
  <2>. DEFINE u == s \o t
  <2>1. DOMAIN u = 1..(Len(s) + Len(t)) /\ 1..Len(s) \subseteq 1..(Len(s) + Len(t))
    BY <1>1, <1>5
  <2>2. ASSUME NEW i \in 1..Len(s)  PROVE s[i] \in Range(u)
    <3>1. i \in DOMAIN u /\ u[i] = s[i]
      BY <1>2, <2>1
    <3>. HIDE DEF u
    <3>. QED  BY <3>1 DEF Range
  <2>3. ASSUME NEW i \in 1..Len(t)  PROVE t[i] \in Range(u)
    <3>1. Len(s) + i \in DOMAIN u /\ u[Len(s) + i] = t[i]
      BY <1>3, <2>1
    <3>. HIDE DEF u
    <3>. QED  BY <3>1 DEF Range
  <2>4. Range(s) \cup Range(t) \subseteq Range(u)
    <3>. HIDE DEF u
    <3>. QED  BY <1>5, <2>2, <2>3 DEF Range
  <2>5. ASSUME NEW i \in 1..(Len(s) + Len(t))  PROVE (s \o t)[i] \in Range(s) \cup Range(t)
    <3>1. CASE i \in 1..Len(s)
      BY <1>2, <1>5, <3>1 DEF Range
    <3>2. CASE \E j \in 1..Len(t) : i = Len(s) + j
      BY <1>3, <1>5, <3>2 DEF Range
    <3>. QED  BY <1>4, <3>1, <3>2
  <2>6. Range(s \o t) \subseteq Range(s) \cup Range(t)
    BY <1>1, <2>5 DEF Range
  <2>. QED  BY <2>4, <2>6
<1>7. ASSUME NEW e \in S
      PROVE  Append(s, e) \in Seq(S) /\ Range(Append(s, e)) = Range(s) \cup {e}
  <2>1. /\ Append(s, e) \in Seq(S) /\ DOMAIN Append(s, e) = 1..(Len(s) + 1)
        /\ \A i \in 1..Len(s) : Append(s, e)[i] = s[i]
        /\ Append(s, e)[Len(s) + 1] = e
    OBVIOUS
  <2>2. \A i \in 1..(Len(s) + 1) : i \in 1..Len(s) \/ i = Len(s) + 1
    BY <1>5
  <2>3. Len(s) + 1 \in 1..(Len(s) + 1) /\ 1..Len(s) \subseteq 1..(Len(s) + 1)
    BY <1>5
  <2>. QED  BY <1>5, <2>1, <2>2, <2>3 DEF Range
<1>. QED  BY <1>1, <1>6, <1>7

\* base.run: what is kept of the output is of the output, and all of it when
\* it was not cut.
LEMMA CapturedIs ==
  ASSUME SuitesTypeInv
  PROVE  /\ Range(captured) \subseteq Range(stream) /\ IsFiniteSet(Range(captured))
         /\ ~Truncated => captured = stream
<1>. DEFINE k == Min({Len(stream), Capture})
<1>1. stream \in Seq(Printed) /\ Len(stream) \in Nat /\ Capture \in Nat
  BY SuitesAssumption DEF SuitesTypeInv
<1>2. k \in {Len(stream), Capture} /\ k <= Len(stream) /\ k <= Capture
  <2>1. \E m \in {Len(stream), Capture} : \A n \in {Len(stream), Capture} : m <= n
    BY <1>1
  <2>. QED  BY <2>1 DEF Min
<1>3. k \in Nat /\ captured = SubSeq(stream, 1, k)
  BY <1>1, <1>2 DEF captured
<1>. HIDE DEF k
<1>4. /\ captured \in Seq(Printed) /\ Len(captured) = k /\ DOMAIN captured = 1..k
      /\ \A i \in 1..k : captured[i] = stream[i] /\ i \in DOMAIN stream
  BY <1>1, <1>2, <1>3
<1>5. Range(captured) \subseteq Range(stream)
  BY <1>4 DEF Range
<1>6. IsFiniteSet(Range(captured))
  <2>. DEFINE I == 1..k
              R == Range(captured)
              f == [i \in I |-> captured[i]]
  <2>1. 1 \in Int /\ k \in Int
    BY <1>3
  <2>2. IsFiniteSet(I)
    BY <2>1, FS_Interval
  <2>3. f \in Surjection(I, R)
    BY <1>4 DEF Range, Surjection
  <2>. HIDE DEF I, R, f
  <2>4. IsFiniteSet(R)
    BY <2>2, <2>3, FS_Surjection
  <2>. QED  BY <2>4 DEF R
<1>7. ASSUME ~Truncated  PROVE captured = stream
  <2>1. k = Len(stream)
    BY <1>1, <1>2, <1>7 DEF Truncated
  <2>. QED  BY <1>1, <1>3, <1>4, <2>1
<1>. QED  BY <1>5, <1>6, <1>7

\* The tests named by lines are no more than the lines.
LEMMA NamesAreFewer ==
  ASSUME SuitesTypeInv, NEW what
  PROVE  /\ IsFiniteSet(Of(what)) /\ IsFiniteSet(Names(what))
         /\ Cardinality(Names(what)) <= Cardinality(Of(what))
         /\ Cardinality(Of(what)) \in Nat /\ Cardinality(Names(what)) \in Nat
<1>1. Of(what) \subseteq Range(captured)
  BY DEF Of
<1>2. IsFiniteSet(Of(what))
  BY <1>1, CapturedIs, FS_Subset
<1>. DEFINE O == Of(what)
            N == Names(what)
            f == [e \in O |-> e.of]
<1>3. f \in Surjection(O, N)
  BY DEF Names, Surjection
<1>. HIDE DEF O, N, f
<1>4. IsFiniteSet(O)
  BY <1>2 DEF O
<1>5. IsFiniteSet(N) /\ Cardinality(N) <= Cardinality(O)
  BY <1>3, <1>4, FS_Surjection
<1>6. Cardinality(O) \in Nat /\ Cardinality(N) \in Nat
  BY <1>4, <1>5, FS_CardinalityType
<1>. QED  BY <1>4, <1>5, <1>6 DEF O, N

-----------------------------------------------------------------------------
\* What a line says of its test is not what the tool says of the whole run.
LEMMA SaysWhat ==
  ASSUME SuitesTypeInv, NEW t \in EndedTests
  PROVE  /\ Says(t) \subseteq Reported
         /\ \A what : Said(t, what) = [of |-> t, what |-> what]
<1>1. t = <<t[1], t[2]>> /\ Result(t) \in Outcomes \cup {"broken"}
  BY EndedTestIs
<1>2. Says(t) \subseteq Reported
  <2>1. CASE runner \notin {"go-test", "node-test"} \/ Broke(t)
    BY <2>1 DEF Says, Reported
  <2>2. CASE runner \in {"go-test", "node-test"} /\ ~Broke(t)
    <3>1. Result(t) \in Outcomes
      BY <1>1, <2>2 DEF Broke
    <3>. QED  BY <2>2, <3>1 DEF Says, Reported, Outcomes
  <2>. QED  BY <2>1, <2>2
<1>. QED  BY <1>1, <1>2 DEF Said, Line

LEMMA LinesAre ==
  ASSUME SuitesTypeInv, OnlyOfTests
  PROVE  /\ \A what \in Reported : \A e \in Of(what) :
              e.of \in EndedTests /\ what \in Says(e.of)
         /\ \A e \in Of("FAILED") : e.of \in Red
         /\ \A what \in {"document", "trailer", "summary"} : \A e \in Of(what) : e = Tally
<1>. DEFINE Known(e, what) ==
       /\ what \in Reported => e.of \in EndedTests /\ what \in Says(e.of)
       /\ what = "FAILED" => e.of \in Red
       /\ what \in {"document", "trailer", "summary"} => e = Tally
<1>1. ASSUME NEW what, NEW e \in Of(what)  PROVE Known(e, what)
  <2>1. e \in Range(stream) /\ e.what = what
    BY CapturedIs DEF Of
  <2>2. CASE \E t \in EndedTests : \E w \in Says(t) : e = Said(t, w)
    <3>1. PICK t \in EndedTests : \E w \in Says(t) : e = Said(t, w)
      BY <2>2
    <3>2. PICK w \in Says(t) : e = Said(t, w)
      BY <3>1
    <3>3. e = [of |-> t, what |-> w] /\ w \in Reported
      BY <3>2, SaysWhat
    <3>4. e.of = t /\ w = what
      BY <2>1, <3>3
    <3>5. what \notin {"FAILED", "document", "trailer", "summary"}
      BY <3>3, <3>4 DEF Reported
    <3>. QED  BY <3>4, <3>5
  <2>3. CASE \E t \in Red : e = Said(t, "FAILED")
    <3>1. PICK t \in Red : e = Said(t, "FAILED")
      BY <2>3
    <3>2. t \in EndedTests
      BY DEF Red, Loose, Tests
    <3>3. e = [of |-> t, what |-> "FAILED"]
      BY <3>1, <3>2, SaysWhat
    <3>4. e.of = t /\ what = "FAILED"
      BY <2>1, <3>3
    <3>. QED  BY <3>4 DEF Reported
  <2>4. CASE e = Tally
    <3>1. what = TallyWord
      BY <2>1, <2>4 DEF Tally
    <3>2. what \in {"document", "trailer", "summary"}
      BY <3>1 DEF TallyWord
    <3>. QED  BY <2>4, <3>2 DEF Reported
  <2>. QED  BY <2>1, <2>2, <2>3, <2>4 DEF OnlyOfTests
<1>. QED  BY <1>1

\* Read whole, no test that ended is missing.
LEMMA WholeLines ==
  ASSUME SuitesTypeInv, EveryTest, ~Truncated
  PROVE  /\ \A t \in EndedTests : \E what \in Says(t) : t \in Names(what) /\ Of(what) # {}
         /\ Finished /\ Tallied => Of(TallyWord) # {}
         /\ Finished /\ runner = "pytest" => Red \subseteq Names("FAILED")
<1>1. captured = stream
  BY CapturedIs
<1>2. ASSUME NEW t \in EndedTests, NEW what, Said(t, what) \in Range(stream)
      PROVE  t \in Names(what) /\ Of(what) # {}
  <2>1. Said(t, what) = [of |-> t, what |-> what]
    BY SaysWhat
  <2>2. Said(t, what).of = t /\ Said(t, what).what = what
    BY <2>1
  <2>3. Said(t, what) \in Of(what)
    BY <1>1, <1>2, <2>2 DEF Of
  <2>. QED  BY <2>2, <2>3 DEF Names
<1>3. \A t \in EndedTests : \E what \in Says(t) : t \in Names(what) /\ Of(what) # {}
  BY <1>2 DEF EveryTest
<1>4. ASSUME Finished, Tallied  PROVE Of(TallyWord) # {}
  <2>1. Tally \in Range(captured) /\ Tally.what = TallyWord
    BY <1>1, <1>4 DEF EveryTest, Tally
  <2>. QED  BY <2>1 DEF Of
<1>5. ASSUME Finished, runner = "pytest"  PROVE Red \subseteq Names("FAILED")
  <2>1. Red \subseteq EndedTests
    BY DEF Red, Loose, Tests
  <2>. QED  BY <1>2, <1>5, <2>1 DEF EveryTest
<1>. QED  BY <1>3, <1>4, <1>5

\* A verdict read whole is the suite's.
Own(r) ==
  /\ OK(r) <=> Red = {} /\ EndedTests # {}
  /\ (Red = {}) = (r.named = {})
  /\ \A t \in Tests("fail") : t \in r.named

\* goParser: a line of its own for each test, and for a build that broke.
LEMMA GoReadsItsOwn ==
  ASSUME SuitesInv, runner = "go-test", ~Truncated, Tests("dies") = {}
  PROVE  Own(parseGoTestJSON)
<1>. USE DEF SuitesInv
<1>1. \A t \in EndedTests : Broke(t) <=> Result(t) = "broken"
  BY DEF Broke
<1>2. ASSUME NEW t \in EndedTests
      PROVE  /\ Result(t) = "broken" => Says(t) = {"build-fail", "package-build-failed"}
             /\ Result(t) \in {"pass", "skip", "fail"} => Says(t) = {Result(t)}
             /\ Result(t) \in {"broken", "pass", "skip", "fail"}
  <2>1. Result(t) \in Outcomes \cup {"broken"} /\ Result(t) # "dies"
    BY EndedTestIs DEF Tests
  <2>. QED  BY <1>1, <2>1 DEF Says, Outcomes
<1>3. Tests("fail") = Names("fail")
  <2>1. ASSUME NEW t \in Tests("fail")  PROVE t \in Names("fail")
    <3>1. t \in EndedTests /\ Result(t) = "fail"
      BY DEF Tests
    <3>2. Says(t) = {"fail"}
      BY <1>2, <3>1
    <3>. QED  BY <3>1, <3>2, WholeLines
  <2>2. ASSUME NEW e \in Of("fail")  PROVE e.of \in Tests("fail")
    <3>1. e.of \in EndedTests /\ "fail" \in Says(e.of)
      BY LinesAre DEF Reported
    <3>. QED  BY <1>2, <3>1 DEF Tests
  <2>. QED  BY <2>1, <2>2 DEF Names
<1>4. BuildFailed <=> Loose # {}
  <2>1. ASSUME NEW t \in Loose  PROVE BuildFailed
    <3>1. t \in EndedTests /\ Result(t) = "broken"
      BY <1>1 DEF Loose
    <3>. QED  BY <1>2, <3>1, WholeLines DEF BuildFailed
  <2>2. ASSUME NEW what \in {"build-fail", "package-build-failed"}, NEW e \in Of(what)
        PROVE  Loose # {}
    <3>1. e.of \in EndedTests /\ what \in Says(e.of)
      BY LinesAre DEF Reported
    <3>2. Result(e.of) = "broken"
      BY <1>2, <3>1
    <3>. QED  BY <1>1, <3>1, <3>2 DEF Loose
  <2>. QED  BY <2>1, <2>2 DEF BuildFailed
<1>5. Of("fail") = {} <=> Tests("fail") = {}
  BY <1>3 DEF Names
<1>. DEFINE O == Of("pass") \cup Of("skip") \cup Of("fail")
            build == IF BuildFailed THEN 1 ELSE 0
            r == parseGoTestJSON
<1>6. Red = {} => (O # {} <=> EndedTests # {})
  <2>1. ASSUME O # {}  PROVE EndedTests # {}
    BY <2>1, LinesAre DEF Reported
  <2>2. ASSUME Red = {}, NEW t \in EndedTests  PROVE O # {}
    <3>1. Result(t) # "broken"
      BY <1>1, <2>2 DEF Red, Loose
    <3>. QED  BY <1>2, <3>1, WholeLines
  <2>. QED  BY <2>1, <2>2
<1>7. /\ IsFiniteSet(O) /\ IsFiniteSet(Of("fail"))
  BY NamesAreFewer, FS_Union
<1>8. /\ r.total = Cardinality(O) + build /\ r.failed = Cardinality(Of("fail")) + build
      /\ r.named = Names("fail") \cup IF BuildFailed THEN {<<"build", 0>>} ELSE {}
  BY DEF parseGoTestJSON, Report
<1>. HIDE DEF O, r
<1>9. Cardinality(O) \in Nat /\ (Cardinality(O) = 0 <=> O = {})
  BY <1>7, FS_CardinalityType, FS_EmptySet
<1>10. /\ Cardinality(Of("fail")) \in Nat
       /\ Cardinality(Of("fail")) = 0 <=> Of("fail") = {}
  BY <1>7, FS_CardinalityType, FS_EmptySet
<1>11. r.failed = 0 <=> Red = {}
  BY <1>4, <1>5, <1>8, <1>10 DEF Red
<1>12. Red = {} => (r.total > 0 <=> EndedTests # {})
  BY <1>4, <1>6, <1>8, <1>9 DEF Red
<1>13. OK(r) <=> Red = {} /\ EndedTests # {}
  BY <1>11, <1>12 DEF OK
<1>14. (Red = {}) = (r.named = {})
  BY <1>3, <1>4, <1>8 DEF Red
<1>15. \A t \in Tests("fail") : t \in r.named
  BY <1>3, <1>8
<1>. QED  BY <1>13, <1>14, <1>15 DEF Own, r

\* The tools that keep a tally: it is of every test, whatever the lines were.
LEMMA TalliedReadsItsOwn ==
  ASSUME SuitesInv, Tests("dies") = {}, NEW named,
         (Red = {}) = (named = {}), Tests("fail") \subseteq named
  PROVE  Own(Report(Counts.tests + Counts.broken, Counts.failed + Counts.broken, named))
<1>. DEFINE r == Report(Counts.tests + Counts.broken, Counts.failed + Counts.broken, named)
<1>1. /\ r.total = Counts.tests + Counts.broken /\ r.failed = Counts.failed + Counts.broken
      /\ r.named = named
  BY DEF Report
<1>2. /\ r.total > 0 <=> EndedTests # {} \/ Loose # {}
      /\ r.failed = 0 <=> Red = {}
  BY <1>1, TalliesAreCounts DEF SuitesInv
<1>3. OK(r) <=> Red = {} /\ EndedTests # {}
  BY <1>2 DEF OK, Red
<1>. HIDE DEF r
<1>4. Own(r)
  BY <1>1, <1>3 DEF Own
<1>. QED  BY <1>4 DEF r

LEMMA JestReadsItsOwn ==
  ASSUME SuitesInv, runner = "jest", Finished, ~Truncated, Tests("dies") = {}
  PROVE  Own(parseJestJSON)
<1>. USE DEF SuitesInv
<1>1. Of("document") # {}
  BY WholeLines DEF Tallied, TallyWord
<1>2. (CHOOSE e \in Of("document") : TRUE).counts = Counts
  <2>1. (CHOOSE e \in Of("document") : TRUE) \in Of("document")
    BY <1>1
  <2>2. \A e \in Of("document") : e = Tally
    BY LinesAre
  <2>3. Tally.counts = Counts
    BY DEF Tally
  <2>4. \A e \in Of("document") : e.counts = Counts
    BY <2>2, <2>3
  <2>. QED  BY <2>1, <2>4
<1>3. parseJestJSON = Report(Counts.tests + Counts.broken, Counts.failed + Counts.broken, Red)
  BY <1>2 DEF parseJestJSON
<1>4. Tests("fail") \subseteq Red
  BY DEF Red
<1>. QED  BY <1>3, <1>4, TalliedReadsItsOwn

LEMMA NodeReadsItsOwn ==
  ASSUME SuitesInv, runner = "node-test", Finished, ~Truncated, Tests("dies") = {}
  PROVE  Own(parseTAP)
<1>. USE DEF SuitesInv
<1>1. Of("trailer") # {}
  BY WholeLines DEF Tallied, TallyWord
<1>2. (CHOOSE e \in Of("trailer") : TRUE).counts = Counts
  <2>1. (CHOOSE e \in Of("trailer") : TRUE) \in Of("trailer")
    BY <1>1
  <2>2. \A e \in Of("trailer") : e = Tally
    BY LinesAre
  <2>3. Tally.counts = Counts
    BY DEF Tally
  <2>4. \A e \in Of("trailer") : e.counts = Counts
    BY <2>2, <2>3
  <2>. QED  BY <2>1, <2>4
<1>3. parseTAP = Report(Counts.tests + Counts.broken, Counts.failed + Counts.broken, Names("fail"))
  BY <1>1, <1>2 DEF parseTAP
<1>4. \A t \in EndedTests : t \in Red <=> Says(t) = {"fail"}
  BY DEF Red, Loose, Tests, Says
<1>5. Names("fail") = Red
  <2>1. ASSUME NEW e \in Of("fail")  PROVE e.of \in Red
    <3>1. e.of \in EndedTests /\ "fail" \in Says(e.of)
      BY LinesAre DEF Reported
    <3>. QED  BY <1>4, <3>1 DEF Says
  <2>2. ASSUME NEW t \in Red  PROVE t \in Names("fail")
    <3>1. t \in EndedTests
      BY DEF Red, Loose, Tests
    <3>. QED  BY <1>4, <3>1, WholeLines
  <2>. QED  BY <2>1, <2>2 DEF Names
<1>6. Tests("fail") \subseteq Red
  BY DEF Red
<1>. QED  BY <1>3, <1>5, <1>6, TalliedReadsItsOwn

LEMMA PytestReadsItsOwn ==
  ASSUME SuitesInv, runner = "pytest", Finished, ~Truncated, Tests("dies") = {}
  PROVE  Own(parsePytest)
<1>. USE DEF SuitesInv
<1>1. Of("summary") # {}
  BY WholeLines DEF Tallied, TallyWord
<1>2. (CHOOSE e \in Of("summary") : TRUE).counts = Counts
  <2>1. (CHOOSE e \in Of("summary") : TRUE) \in Of("summary")
    BY <1>1
  <2>2. \A e \in Of("summary") : e = Tally
    BY LinesAre
  <2>3. Tally.counts = Counts
    BY DEF Tally
  <2>4. \A e \in Of("summary") : e.counts = Counts
    BY <2>2, <2>3
  <2>. QED  BY <2>1, <2>4
<1>3. parsePytest = Report(Counts.tests + Counts.broken, Counts.failed + Counts.broken, Names("FAILED"))
  BY <1>1, <1>2 DEF parsePytest
<1>4. Names("FAILED") = Red
  BY LinesAre, WholeLines DEF Names
<1>5. Tests("fail") \subseteq Red
  BY DEF Red
<1>. QED  BY <1>3, <1>4, <1>5, TalliedReadsItsOwn

\* However much of it was cut, no more tests are named than failed.
Bounded(r) == Cardinality(r.named) <= r.failed

LEMMA TalliedIsBounded ==
  ASSUME SuitesInv, NEW total, NEW named \in SUBSET Red
  PROVE  Bounded(Report(total, Counts.failed + Counts.broken, named))
<1>1. /\ IsFiniteSet(Red) /\ Cardinality(Red) <= Counts.failed + Counts.broken
      /\ Counts \in Tallies
  BY TalliesAreCounts DEF SuitesInv
<1>2. Cardinality(named) <= Cardinality(Red) /\ IsFiniteSet(named)
  BY <1>1, FS_Subset
<1>3. Cardinality(named) \in Nat /\ Cardinality(Red) \in Nat
  BY <1>1, <1>2, FS_CardinalityType
<1>4. Counts.failed + Counts.broken \in Nat
  BY <1>1 DEF Tallies
<1>5. Cardinality(named) <= Counts.failed + Counts.broken
  BY <1>1, <1>2, <1>3, <1>4
<1>. QED  BY <1>5 DEF Bounded, Report

LEMMA ListedIsBounded ==
  ASSUME SuitesTypeInv, NEW total, NEW what
  PROVE  /\ Bounded(Report(total, Cardinality(Of(what)), Names(what)))
         /\ Bounded(Report(total, Cardinality(Names(what)), Names(what)))
BY NamesAreFewer DEF Bounded, Report

LEMMA GoIsBounded == SuitesTypeInv => Bounded(parseGoTestJSON)
<1>. SUFFICES ASSUME SuitesTypeInv  PROVE Bounded(parseGoTestJSON)
  OBVIOUS
<1>. DEFINE N == Names("fail")
            r == parseGoTestJSON
            x == <<"build", 0>>
<1>1. /\ IsFiniteSet(N) /\ Cardinality(N) \in Nat /\ Cardinality(Of("fail")) \in Nat
      /\ Cardinality(N) <= Cardinality(Of("fail"))
  BY NamesAreFewer
<1>2. CASE BuildFailed
  <2>1. r.failed = Cardinality(Of("fail")) + 1 /\ r.named = N \cup {x}
    BY <1>2 DEF parseGoTestJSON, Report
  <2>. HIDE DEF N, r, x
  <2>2. Cardinality(N \cup {x}) = IF x \in N THEN Cardinality(N) ELSE Cardinality(N) + 1
    BY <1>1, FS_AddElement
  <2>3. Bounded(r)
    BY <1>1, <2>1, <2>2 DEF Bounded
  <2>. QED  BY <2>3 DEF r
<1>3. CASE ~BuildFailed
  <2>1. r.failed = Cardinality(Of("fail")) + 0 /\ r.named = N
    BY <1>3 DEF parseGoTestJSON, Report
  <2>. HIDE DEF N, r
  <2>2. Bounded(r)
    BY <1>1, <2>1 DEF Bounded
  <2>. QED  BY <2>2 DEF r
<1>. QED  BY <1>2, <1>3

LEMMA NodeIsBounded == SuitesInv /\ runner = "node-test" => Bounded(parseTAP)
<1>. SUFFICES ASSUME SuitesInv, runner = "node-test"  PROVE Bounded(parseTAP)
  OBVIOUS
<1>1. CASE Of("trailer") # {}
  <2>1. (CHOOSE e \in Of("trailer") : TRUE) \in Of("trailer")
    BY <1>1
  <2>2. Tally.counts = Counts
    BY DEF Tally
  <2>3. \A e \in Of("trailer") : e.counts = Counts
    BY <2>2, LinesAre DEF SuitesInv
  <2>4. (CHOOSE e \in Of("trailer") : TRUE).counts = Counts
    BY <2>1, <2>3
  <2>5. parseTAP = Report(Counts.tests + Counts.broken, Counts.failed + Counts.broken, Names("fail"))
    BY <1>1, <2>4 DEF parseTAP
  <2>6. ASSUME NEW e \in Of("fail")  PROVE e.of \in Red
    <3>1. e.of \in EndedTests /\ "fail" \in Says(e.of)
      BY LinesAre DEF SuitesInv, Reported
    <3>. QED  BY <3>1 DEF Says, Red, Loose, Tests
  <2>7. Names("fail") \in SUBSET Red
    BY <2>6 DEF Names
  <2>. QED  BY <2>5, <2>7, TalliedIsBounded
<1>2. CASE Of("trailer") = {}
  <2>1. parseTAP = Report(Cardinality(Of("pass") \cup Of("fail")), Cardinality(Of("fail")), Names("fail"))
    BY <1>2 DEF parseTAP
  <2>. QED  BY <2>1, ListedIsBounded DEF SuitesInv
<1>. QED  BY <1>1, <1>2

LEMMA PytestIsBounded == SuitesInv => Bounded(parsePytest)
<1>. SUFFICES ASSUME SuitesInv  PROVE Bounded(parsePytest)
  OBVIOUS
<1>1. CASE Of("summary") # {}
  <2>1. (CHOOSE e \in Of("summary") : TRUE) \in Of("summary")
    BY <1>1
  <2>2. Tally.counts = Counts
    BY DEF Tally
  <2>3. \A e \in Of("summary") : e.counts = Counts
    BY <2>2, LinesAre DEF SuitesInv
  <2>4. (CHOOSE e \in Of("summary") : TRUE).counts = Counts
    BY <2>1, <2>3
  <2>5. parsePytest = Report(Counts.tests + Counts.broken, Counts.failed + Counts.broken, Names("FAILED"))
    BY <1>1, <2>4 DEF parsePytest
  <2>6. Names("FAILED") \in SUBSET Red
    BY LinesAre DEF SuitesInv, Names
  <2>. QED  BY <2>5, <2>6, TalliedIsBounded
<1>2. CASE Of("summary") = {}
  <2>1. parsePytest = Report(Cardinality(Names("FAILED")), Cardinality(Names("FAILED")), Names("FAILED"))
    BY <1>2 DEF parsePytest
  <2>. QED  BY <2>1, ListedIsBounded DEF SuitesInv
<1>. QED  BY <1>1, <1>2

LEMMA JestIsBounded == SuitesInv /\ Of("document") # {} => Bounded(parseJestJSON)
<1>. SUFFICES ASSUME SuitesInv, Of("document") # {}  PROVE Bounded(parseJestJSON)
  OBVIOUS
<1>1. (CHOOSE e \in Of("document") : TRUE) \in Of("document")
  OBVIOUS
<1>2. Tally.counts = Counts
  BY DEF Tally
<1>3. \A e \in Of("document") : e.counts = Counts
  BY <1>2, LinesAre DEF SuitesInv
<1>4. (CHOOSE e \in Of("document") : TRUE).counts = Counts
  BY <1>1, <1>3
<1>5. parseJestJSON = Report(Counts.tests + Counts.broken, Counts.failed + Counts.broken, Red)
  BY <1>4 DEF parseJestJSON
<1>. QED  BY <1>5, TalliedIsBounded

LEMMA ReadIsBounded == SuitesInv /\ ~Unreadable => Bounded(Read)
<1>. SUFFICES ASSUME SuitesInv, ~Unreadable  PROVE Bounded(Read)
  OBVIOUS
<1>1. CASE runner = "go-test"
  BY <1>1, GoIsBounded DEF Read, SuitesInv
<1>2. CASE runner = "jest"
  BY <1>2, JestIsBounded DEF Read, Unreadable
<1>3. CASE runner = "node-test"
  BY <1>3, NodeIsBounded DEF Read
<1>4. CASE runner = "pytest"
  BY <1>4, PytestIsBounded DEF Read
<1>5. CASE runner \notin {"go-test", "jest", "node-test", "pytest"}
  <2>1. Read = exitStatusReport
    BY <1>5 DEF Read
  <2>2. exitStatusReport.named = {} /\ exitStatusReport.failed \in {0, 1}
    BY DEF exitStatusReport, Report
  <2>. QED  BY <2>1, <2>2, FS_EmptySet DEF Bounded
<1>. QED  BY <1>1, <1>2, <1>3, <1>4, <1>5

LEMMA ReadIsTheSuites ==
  ASSUME SuitesInv, Whole,
         runner \in {"go-test", "jest", "node-test", "pytest"}
  PROVE  Own(Read)
<1>1. Finished /\ ~Truncated /\ Tests("dies") = {}
  BY DEF Whole, Finished
<1>2. CASE runner = "go-test"
  BY <1>1, <1>2, GoReadsItsOwn DEF Read
<1>3. CASE runner = "jest"
  BY <1>1, <1>3, JestReadsItsOwn DEF Read
<1>4. CASE runner = "node-test"
  BY <1>1, <1>4, NodeReadsItsOwn DEF Read
<1>5. CASE runner = "pytest"
  BY <1>1, <1>5, PytestReadsItsOwn DEF Read
<1>. QED  BY <1>2, <1>3, <1>4, <1>5

-----------------------------------------------------------------------------
LEMMA SuitesInitInv == SuitesInit => SuitesInv
<1>. SUFFICES ASSUME SuitesInit  PROVE SuitesInv
  OBVIOUS
<1>1. \A p \in Packages : ended[p] = 0
  BY DEF SuitesInit
<1>2. EndedTests = {}
  BY <1>1 DEF EndedTests
<1>3. \A p \in Packages : Len(suite[p]) \in Nat
  BY SuiteIsASeq DEF SuitesInit
<1>4. SuitesTypeInv
  BY <1>1, <1>3 DEF SuitesInit, SuitesTypeInv, Fates
<1>5. Range(stream) = {}
  BY DEF SuitesInit, Range
<1>6. OnlyOfTests /\ EveryTest
  BY <1>2, <1>5 DEF SuitesInit, OnlyOfTests, EveryTest, Finished
<1>7. VerdictIsTheSuites
  BY DEF SuitesInit, VerdictIsTheSuites, Judged
<1>. QED  BY <1>4, <1>6, <1>7 DEF SuitesInit, SuitesInv

LEMMA TestEndsInv ==
  ASSUME SuitesInv, NEW p \in Packages, TestEnds(p)
  PROVE  SuitesInv'
<1>. USE DEF SuitesInv
<1>. DEFINE u == <<p, ended[p] + 1>>
<1>1. /\ fate = "running" /\ fate' = fate /\ runner' = runner /\ suite' = suite
      /\ route' = route /\ ended' = [ended EXCEPT ![p] = @ + 1]
      /\ ended[p] # Len(suite[p])
  BY DEF TestEnds, Ended
<1>2. PICK what \in Says(u) : stream' = Append(stream, Said(u, what))
  BY DEF TestEnds, Said
<1>3. ended[p] \in Nat /\ Len(suite[p]) \in Nat /\ ended[p] + 1 <= Len(suite[p])
  BY <1>1, SuiteIsASeq DEF SuitesTypeInv
<1>4. EndedTests' = EndedTests \cup {u}
  <2>1. /\ ended'[p] = ended[p] + 1
        /\ \A q \in Packages : q # p => ended'[q] = ended[q]
    BY <1>1 DEF SuitesTypeInv
  <2>2. 1..(ended[p] + 1) = (1..ended[p]) \cup {ended[p] + 1}
    BY <1>3
  <2>3. \A t : t \in EndedTests <=> \E q \in Packages : \E i \in 1..ended[q] : t = <<q, i>>
    BY DEF EndedTests
  <2>4. \A t : t \in EndedTests' <=> \E q \in Packages : \E i \in 1..ended'[q] : t = <<q, i>>
    BY DEF EndedTests
  <2>5. ASSUME NEW t \in EndedTests'  PROVE t \in EndedTests \cup {u}
    <3>1. PICK q \in Packages : \E i \in 1..ended'[q] : t = <<q, i>>
      BY <2>4, <2>5
    <3>2. CASE q = p
      BY <2>1, <2>2, <2>3, <3>1, <3>2
    <3>3. CASE q # p
      BY <2>1, <2>3, <3>1, <3>3
    <3>. QED  BY <3>2, <3>3
  <2>6. ASSUME NEW t \in EndedTests  PROVE t \in EndedTests'
    <3>1. PICK q \in Packages : \E i \in 1..ended[q] : t = <<q, i>>
      BY <2>3, <2>6
    <3>2. CASE q = p
      BY <2>1, <2>2, <2>4, <3>1, <3>2
    <3>3. CASE q # p
      BY <2>1, <2>4, <3>1, <3>3
    <3>. QED  BY <3>2, <3>3
  <2>7. u \in EndedTests'
    BY <1>3, <2>1, <2>2, <2>4
  <2>. QED  BY <2>5, <2>6, <2>7
<1>5. \A t : Says(t)' = Says(t)
  BY <1>1 DEF Says, Broke, Result
<1>6. \A q \in Packages : ended'[q] \in Nat /\ ended'[q] <= Len(suite[q])
  BY <1>1, <1>3 DEF SuitesTypeInv
<1>7. ended' \in [Packages -> Nat]
  BY <1>1, <1>3 DEF SuitesTypeInv
<1>8. Result(u) \in Outcomes \cup {"broken"} /\ u = <<u[1], u[2]>> /\ u \in Packages \X Nat
  <2>1. suite[p] \in Suite /\ ended[p] + 1 \in 1..Len(suite[p])
    BY <1>3 DEF SuitesTypeInv
  <2>2. suite[p][ended[p] + 1] \in Outcomes \cup {"broken"}
    BY <2>1, SuiteIsASeq
  <2>. QED  BY <1>3, <2>2 DEF Result
<1>9. what \in Reported
  <2>. HIDE DEF u
  <2>1. CASE runner \notin {"go-test", "node-test"} \/ Broke(u)
    BY <1>2, <2>1 DEF Says, Reported
  <2>2. CASE runner \in {"go-test", "node-test"} /\ ~Broke(u)
    <3>1. Result(u) \in Outcomes
      BY <1>8, <2>2 DEF Broke
    <3>. QED  BY <1>2, <2>2, <3>1 DEF Says, Reported, Outcomes
  <2>. QED  BY <2>1, <2>2
<1>10. Said(u, what) \in Printed
  <2>. HIDE DEF u
  <2>1. Said(u, what) = [of |-> u, what |-> what]
    BY <1>8 DEF Said, Line
  <2>. QED  BY <1>8, <1>9, <2>1 DEF Printed
<1>. HIDE DEF u
<1>11. stream' \in Seq(Printed) /\ Range(stream') = Range(stream) \cup {Said(u, what)}
  <2>1. stream \in Seq(Printed)
    BY DEF SuitesTypeInv
  <2>. QED  BY <1>2, <1>10, <2>1, RangeOfMore
<1>12. SuitesTypeInv'
  BY <1>1, <1>6, <1>7, <1>11 DEF SuitesTypeInv
<1>13. ~Finished /\ ~Finished'
  BY <1>1 DEF Finished
<1>14. \A t, w : Said(t, w)' = Said(t, w)
  BY DEF Said, Line
<1>15. OnlyOfTests'
  <2>1. ASSUME NEW e \in Range(stream')
        PROVE  \E t \in EndedTests' : \E w \in Says(t) : e = Said(t, w)
    BY <1>2, <1>4, <1>11, <1>13, <2>1 DEF OnlyOfTests
  <2>2. \A e \in Range(stream') : \E t \in EndedTests' : \E w \in Says(t)' : e = Said(t, w)'
    BY <1>5, <1>14, <2>1
  <2>. QED  BY <2>2 DEF OnlyOfTests
<1>16. EveryTest'
  <2>1. ASSUME NEW t \in EndedTests'
        PROVE  \E w \in Says(t) : Said(t, w) \in Range(stream')
    BY <1>2, <1>4, <1>11 DEF EveryTest
  <2>2. \A t \in EndedTests' : \E w \in Says(t)' : Said(t, w)' \in Range(stream')
    BY <1>5, <1>14, <2>1
  <2>. QED  BY <1>13, <2>2 DEF EveryTest
<1>17. VerdictIsTheSuites'
  BY <1>1 DEF VerdictIsTheSuites, Judged
<1>. QED  BY <1>1, <1>12, <1>15, <1>16, <1>17

\* What a stopped or finished run leaves alone.
LEMMA SameTests ==
  ASSUME UNCHANGED <<runner, suite, ended>>
  PROVE  /\ EndedTests' = EndedTests /\ Red' = Red /\ Counts' = Counts
         /\ \A t : Says(t)' = Says(t)
         /\ \A what : Tests(what)' = Tests(what)
         /\ Tally' = Tally /\ Tallied' = Tallied /\ Loose' = Loose
<1>1. EndedTests' = EndedTests
  BY DEF EndedTests
<1>2. \A t : Result(t)' = Result(t) /\ Broke(t)' = Broke(t)
  BY DEF Result, Broke
<1>3. \A t : Says(t)' = Says(t)
  BY <1>2 DEF Says
<1>4. Loose' = Loose
  BY <1>1, <1>2 DEF Loose
<1>5. \A what : Tests(what)' = Tests(what)
  BY <1>1, <1>2 DEF Tests
<1>6. Red' = Red
  BY <1>4, <1>5 DEF Red
<1>7. Counts' = Counts
  BY <1>1, <1>4, <1>5 DEF Counts
<1>8. TallyWord' = TallyWord /\ Tallied' = Tallied
  BY DEF TallyWord, Tallied
<1>9. Tally' = Tally
  BY <1>7, <1>8 DEF Tally
<1>. QED  BY <1>1, <1>3, <1>4, <1>5, <1>6, <1>7, <1>8, <1>9

LEMMA ToolStopsInv == SuitesInv /\ ToolStops => SuitesInv'
<1>. SUFFICES ASSUME SuitesInv, ToolStops  PROVE SuitesInv'
  OBVIOUS
<1>. USE DEF SuitesInv
<1>1. /\ fate = "running" /\ fate' \in {"missing", "timed-out", "cancelled", "exit-137"}
      /\ UNCHANGED <<runner, suite, ended>> /\ stream' = stream /\ route' = route
  BY DEF ToolStops
<1>2. ~Finished /\ ~Finished'
  BY <1>1 DEF Finished
<1>3. SuitesTypeInv'
  BY <1>1 DEF SuitesTypeInv, Fates
<1>4. OnlyOfTests' /\ EveryTest'
  BY <1>1, <1>2, SameTests DEF OnlyOfTests, EveryTest, Said, Line
<1>5. VerdictIsTheSuites'
  BY <1>1 DEF VerdictIsTheSuites, Judged
<1>. QED  BY <1>1, <1>3, <1>4, <1>5

\* What the tool prints as it finishes.
LEMMA ClosingIs ==
  ASSUME SuitesTypeInv
  PROVE  /\ Closing \in Seq(Printed)
         /\ \A e \in Range(Closing) :
              \/ runner = "pytest" /\ \E t \in Red : e = Said(t, "FAILED")
              \/ Tallied /\ e = Tally
         /\ Tallied => Tally \in Range(Closing)
         /\ runner = "pytest" => \A t \in Red : Said(t, "FAILED") \in Range(Closing)
<1>1. Tally \in Printed
  BY TalliesAreCounts DEF Tally, TallyWord, Printed
<1>2. <<Tally>> \in Seq(Printed) /\ Range(<<Tally>>) = {Tally}
  <2>1. <<Tally>> \in Seq(Printed)
    BY <1>1
  <2>2. DOMAIN <<Tally>> = {1} /\ <<Tally>>[1] = Tally
    OBVIOUS
  <2>. QED  BY <2>1, <2>2 DEF Range
<1>3. CASE runner \in {"jest", "node-test"}
  <2>1. Closing = <<Tally>>
    BY <1>3 DEF Closing, Tally, TallyWord
  <2>2. Tallied /\ runner # "pytest"
    BY <1>3 DEF Tallied
  <2>. QED  BY <1>2, <2>1, <2>2
<1>4. CASE runner = "pytest"
  <2>. DEFINE F == {Line(t[1], t[2], "FAILED") : t \in Red}
  <2>1. Closing = SetToSeq(F) \o <<Tally>>
    BY <1>4 DEF Closing, Tally, TallyWord
  <2>2. F = {Said(t, "FAILED") : t \in Red}
    BY DEF Said
  <2>3. F \subseteq Printed
    <3>1. ASSUME NEW t \in Red  PROVE Said(t, "FAILED") \in Printed
      <4>1. t \in EndedTests
        BY DEF Red, Loose, Tests
      <4>2. Said(t, "FAILED") = [of |-> t, what |-> "FAILED"] /\ t \in Packages \X Nat
        BY <4>1, SaysWhat, EndedTestIs
      <4>. QED  BY <4>2 DEF Printed
    <3>. QED  BY <2>2, <3>1
  <2>4. IsFiniteSet(F)
    <3>. DEFINE R == Red
                f == [t \in R |-> Said(t, "FAILED")]
    <3>1. IsFiniteSet(R)
      BY TalliesAreCounts
    <3>2. f \in Surjection(R, F)
      BY <2>2 DEF Surjection
    <3>. HIDE DEF R, f, F
    <3>. QED  BY <3>1, <3>2, FS_Surjection
  <2>. HIDE DEF F
  <2>5. SetToSeq(F) \in Seq(F) /\ Range(SetToSeq(F)) = F
    BY <2>4, ListingOfASet
  <2>6. SetToSeq(F) \in Seq(Printed)
    BY <2>3, <2>5
  <2>7. Closing \in Seq(Printed) /\ Range(Closing) = F \cup {Tally}
    <3>. DEFINE a == SetToSeq(F)
                b == <<Tally>>
    <3>1. a \in Seq(Printed) /\ b \in Seq(Printed) /\ Closing = a \o b
      BY <1>2, <2>1, <2>6
    <3>2. Range(a) = F /\ Range(b) = {Tally}
      BY <1>2, <2>5
    <3>. HIDE DEF a, b
    <3>3. a \o b \in Seq(Printed) /\ Range(a \o b) = Range(a) \cup Range(b)
      BY <3>1, RangeOfMore
    <3>. QED  BY <3>1, <3>2, <3>3
  <2>8. Tallied
    BY <1>4 DEF Tallied
  <2>. QED  BY <1>4, <2>2, <2>7, <2>8
<1>5. CASE runner \notin {"jest", "node-test", "pytest"}
  <2>1. Closing = <<>> /\ ~Tallied
    BY <1>5 DEF Closing, Tallied
  <2>2. Range(<<>>) = {}
    BY DEF Range
  <2>. QED  BY <1>5, <2>1, <2>2
<1>. QED  BY <1>3, <1>4, <1>5

LEMMA ToolExitsInv == SuitesInv /\ ToolExits => SuitesInv'
<1>. SUFFICES ASSUME SuitesInv, ToolExits  PROVE SuitesInv'
  OBVIOUS
<1>. USE DEF SuitesInv
<1>1. /\ fate = "running" /\ UNCHANGED <<runner, suite, ended>> /\ route' = route
      /\ fate' \in {"exit-0", "exit-1", "exit-137"}
      /\ \/ stream' = stream \o Closing
         \/ stream' = stream /\ fate' = "exit-137"
  BY DEF ToolExits
<1>2. ~Finished
  BY <1>1 DEF Finished
<1>3. VerdictIsTheSuites'
  BY <1>1 DEF VerdictIsTheSuites, Judged
<1>4. fate' # "running" /\ runner' = runner
  BY <1>1
<1>5. CASE stream' = stream /\ fate' = "exit-137"
  <2>1. ~Finished'
    BY <1>5 DEF Finished
  <2>2. SuitesTypeInv'
    BY <1>1, <1>5 DEF SuitesTypeInv, Fates
  <2>3. OnlyOfTests' /\ EveryTest'
    BY <1>1, <1>2, <1>5, <2>1, SameTests DEF OnlyOfTests, EveryTest, Said, Line
  <2>. QED  BY <1>3, <1>4, <2>2, <2>3
<1>6. CASE stream' = stream \o Closing /\ fate' \in {"exit-0", "exit-1"}
  <2>1. Finished'
    BY <1>6 DEF Finished
  <2>2. stream' \in Seq(Printed) /\ Range(stream') = Range(stream) \cup Range(Closing)
    <3>1. stream \in Seq(Printed)
      BY DEF SuitesTypeInv
    <3>. QED  BY <1>6, <3>1, ClosingIs, RangeOfMore
  <2>3. SuitesTypeInv'
    BY <1>1, <2>2 DEF SuitesTypeInv, Fates
  <2>4. \A t, w : Said(t, w)' = Said(t, w)
    BY DEF Said, Line
  <2>5. ASSUME NEW e \in Range(stream')
        PROVE  \/ \E t \in EndedTests : \E w \in Says(t) : e = Said(t, w)
               \/ runner = "pytest" /\ \E t \in Red : e = Said(t, "FAILED")
               \/ Tallied /\ e = Tally
    BY <1>2, <2>2, ClosingIs DEF OnlyOfTests
  <2>6. OnlyOfTests'
    BY <1>1, <2>1, <2>4, <2>5, SameTests DEF OnlyOfTests
  <2>7. /\ \A t \in EndedTests : \E w \in Says(t) : Said(t, w) \in Range(stream')
        /\ Tallied => Tally \in Range(stream')
        /\ runner = "pytest" => \A t \in Red : Said(t, "FAILED") \in Range(stream')
    BY <2>2, ClosingIs DEF EveryTest
  <2>8. EveryTest'
    BY <1>1, <2>1, <2>4, <2>7, SameTests DEF EveryTest
  <2>. QED  BY <1>3, <1>4, <2>3, <2>6, <2>8
<1>7. stream' = stream \o Closing => fate' \in {"exit-0", "exit-1"} \/ stream' = stream
  BY DEF ToolExits
<1>. QED  BY <1>1, <1>5, <1>6, <1>7

\* base.run and the test node: the report is of what was read, and decides.
LEMMA TestRunInv == SuitesInv /\ TestRun => SuitesInv'
<1>. SUFFICES ASSUME SuitesInv, TestRun  PROVE SuitesInv'
  OBVIOUS
<1>1. UNCHANGED <<runner, suite, ended, stream, fate>> /\ fate # "running"
  BY DEF TestRun
<1>2. SuitesTypeInv'
  BY <1>1 DEF SuitesInv, SuitesTypeInv
<1>3. OnlyOfTests' /\ EveryTest'
  BY <1>1, SameTests DEF SuitesInv, OnlyOfTests, EveryTest, Said, Line, Finished
<1>4. VerdictIsTheSuites'
  <2>1. CASE RanToItsEnd /\ ~Unreadable
    <3>1. report' = Read /\ route' = IF OK(Read) THEN "review" ELSE "fix"
      BY <2>1 DEF TestRun
    <3>2. Bounded(Read)
      BY <2>1, ReadIsBounded
    <3>3. RanToItsEnd' /\ Whole' = Whole
      BY <1>1, <2>1, SameTests DEF RanToItsEnd, Whole, Truncated
    <3>4. ASSUME Whole, runner # "custom"  PROVE Own(Read)
      <4>1. runner \in {"go-test", "jest", "node-test", "pytest"}
        BY <3>4, SuitesAssumption DEF SuitesInv, SuitesTypeInv
      <4>. QED  BY <3>4, <4>1, ReadIsTheSuites
    <3>5. ASSUME Whole, runner # "custom"
          PROVE  /\ route' = "review" <=> Red = {} /\ EndedTests # {}
                 /\ (Red = {}) = (report'.named = {})
                 /\ \A t \in Tests("fail") : t \in report'.named
      BY <3>1, <3>4, <3>5 DEF Own
    <3>6. Cardinality(report'.named) <= report'.failed
      BY <3>1, <3>2 DEF Bounded
    <3>7. runner' = runner /\ Red' = Red /\ EndedTests' = EndedTests /\ Tests("fail")' = Tests("fail")
      BY <1>1, SameTests
    <3>. QED  BY <3>3, <3>5, <3>6, <3>7 DEF VerdictIsTheSuites
  <2>2. CASE ~(RanToItsEnd /\ ~Unreadable)
    <3>1. route' = "error"
      BY <2>2 DEF TestRun
    <3>. QED  BY <3>1 DEF VerdictIsTheSuites, Judged
  <2>. QED  BY <2>1, <2>2
<1>. QED  BY <1>1, <1>2, <1>3, <1>4 DEF SuitesInv

LEMMA SuitesNextInv == SuitesInv /\ [SuitesNext]_suitesVars => SuitesInv'
<1>. SUFFICES ASSUME SuitesInv, [SuitesNext]_suitesVars  PROVE SuitesInv'
  OBVIOUS
<1>1. CASE \E p \in Packages : TestEnds(p)
  BY <1>1, TestEndsInv
<1>2. CASE ToolExits
  BY <1>2, ToolExitsInv
<1>3. CASE ToolStops
  BY <1>3, ToolStopsInv
<1>4. CASE TestRun
  BY <1>4, TestRunInv
<1>5. CASE UNCHANGED suitesVars
  <2>1. /\ UNCHANGED <<runner, suite, ended>> /\ stream' = stream /\ fate' = fate
        /\ report' = report /\ route' = route
    BY <1>5 DEF suitesVars
  <2>2. SuitesTypeInv'
    BY <2>1 DEF SuitesInv, SuitesTypeInv
  <2>3. OnlyOfTests' /\ EveryTest'
    BY <2>1, SameTests DEF SuitesInv, OnlyOfTests, EveryTest, Said, Line, Finished
  <2>4. VerdictIsTheSuites'
    <3>1. Judged' = Judged /\ RanToItsEnd' = RanToItsEnd /\ Whole' = Whole
      BY <2>1, SameTests DEF Judged, RanToItsEnd, Whole, Truncated
    <3>. QED  BY <2>1, <3>1, SameTests DEF SuitesInv, VerdictIsTheSuites
  <2>. QED  BY <2>1, <2>2, <2>3, <2>4 DEF SuitesInv
<1>. QED  BY <1>1, <1>2, <1>3, <1>4, <1>5 DEF SuitesNext

\* runner.go, "The one distinction that matters", and the four parsers: a
\* verdict comes of a command that ended by itself; read whole, it is green
\* exactly when a test ran and none failed, and a red one names every test to
\* repair -- for any packages, any tests of theirs and any order they end in.
THEOREM VerdictsAreTheSuites == SuitesSpec => []VerdictIsTheSuites
<1>1. SuitesInv => VerdictIsTheSuites
  BY DEF SuitesInv
<1>. QED  BY SuitesInitInv, SuitesNextInv, <1>1, PTL DEF SuitesSpec

-----------------------------------------------------------------------------
(***************************************************************************)
(* Cassette.  The tape has what each scope was given, in the scope's own   *)
(* order, whatever stands between; so the n-th answer under a fingerprint  *)
(* is the one the scope got the n-th time it asked that.                   *)
(***************************************************************************)
IsList(s) == s \in Seq(Range(s))

CassetteTypeInv ==
  /\ script \in [Scopes -> Seq(Prompts)] /\ at \in [Scopes -> Nat]
  /\ flight \in [Scopes -> BOOLEAN]
  /\ DOMAIN given = Scopes /\ DOMAIN served = Scopes
  /\ \A s \in Scopes : IsList(given[s]) /\ IsList(served[s])
  /\ IsList(tape) /\ cursor \in [Fingerprints -> Nat]
  /\ ends \in [paused : Nat, killed : Nat, replay : Nat]
  /\ mode \in {"record", "replay", "between"}

\* An agent that is answering answers a request of the script.
FlightInv ==
  \A s \in Scopes : flight[s] => mode = "record" /\ at[s] < Len(script[s])

\* What ReplayIsTheRecording is about.
Clean == /\ ends.paused + ends.killed = 0
         /\ ends.replay > 0 => \A s \in Scopes : IsInjective(script[s])

\* pos[s][k] is where the exchanges tp have the k-th answer s was given.
Positions == [Scopes -> [Nat -> Nat]]
Placed(pos, tp) ==
  /\ \A s \in Scopes : \A k \in 1..Len(given[s]) :
       /\ pos[s][k] \in 1..Len(tp)
       /\ tp[pos[s][k]].fp = Fingerprint(s, script[s][k])
       /\ tp[pos[s][k]].said = given[s][k]
       /\ \A l \in 1..Len(given[s]) : k < l => pos[s][k] < pos[s][l]
  /\ \A i \in 1..Len(tp) : \A s \in Scopes, p \in Prompts :
       tp[i].fp = Fingerprint(s, p) => \E k \in 1..Len(given[s]) : pos[s][k] = i

\* A run that is recorded: what it was given is on the tape.
RecordingInv ==
  mode = "record" =>
    /\ ends.replay = 0
    /\ \A s \in Scopes : at[s] = Len(given[s]) /\ at[s] <= Len(script[s]) /\ served[s] = <<>>
    /\ \E pos \in Positions : Placed(pos, tape)

\* A run that was: it is in the file, to the end of what it asked.
RecordedInv ==
  mode # "record" =>
    /\ IsList(file)
    /\ \E pos \in Positions : Placed(pos, file)
    /\ \A s \in Scopes : /\ Len(given[s]) <= Len(script[s])
                         /\ Len(given[s]) = Len(script[s]) \/ Gave(s, given)

\* Where the replay has got to.
Count(s, k, p) == Cardinality({m \in 1..k : script[s][m] = p})
ReplayInv ==
  /\ mode = "between" /\ ends.replay = 0 =>
       \A s \in Scopes : served[s] = <<>> /\ at[s] = Len(given[s])
  /\ mode = "replay" \/ ends.replay > 0 =>
       \A s \in Scopes : at[s] = Len(served[s]) /\ at[s] <= Len(given[s])
  /\ \A s \in Scopes : \A k \in 1..Len(served[s]) : served[s][k] = given[s][k]
  /\ mode = "replay" =>
       \A s \in Scopes : \A m \in 1..Len(script[s]) :
         at[s] < m => cursor[Fingerprint(s, script[s][m])] = Count(s, at[s], script[s][m])

CassetteInv == /\ CassetteTypeInv /\ FlightInv
               /\ Clean => RecordingInv /\ RecordedInv /\ ReplayInv

-----------------------------------------------------------------------------
LEMMA ListIs ==
  ASSUME NEW s
  PROVE  /\ \A S : s \in Seq(S) => IsList(s)
         /\ IsList(s) => Len(s) \in Nat /\ DOMAIN s = 1..Len(s)
<1>1. ASSUME NEW S, s \in Seq(S)  PROVE IsList(s)
  <2>1. Len(s) \in Nat /\ DOMAIN s = 1..Len(s) /\ s \in [1..Len(s) -> S]
    BY <1>1
  <2>2. \A i \in 1..Len(s) : s[i] \in Range(s)
    BY <2>1 DEF Range
  <2>3. s \in [1..Len(s) -> Range(s)]
    BY <2>1, <2>2
  <2>. QED  BY <2>1, <2>3 DEF IsList
<1>. QED  BY <1>1 DEF IsList

LEMMA ListGrows ==
  ASSUME NEW s, IsList(s), NEW e
  PROVE  /\ IsList(Append(s, e)) /\ Len(Append(s, e)) = Len(s) + 1
         /\ \A i \in 1..Len(s) : Append(s, e)[i] = s[i]
         /\ Append(s, e)[Len(s) + 1] = e
<1>. DEFINE S == Range(s) \cup {e}
<1>1. s \in Seq(Range(s))
  BY DEF IsList
<1>2. s \in Seq(S) /\ e \in S
  BY <1>1
<1>. HIDE DEF S
<1>3. Append(s, e) \in Seq(S)
  BY <1>2
<1>4. IsList(Append(s, e))
  BY <1>3, ListIs
<1>5. /\ Len(Append(s, e)) = Len(s) + 1
      /\ \A i \in 1..Len(s) : Append(s, e)[i] = s[i]
      /\ Append(s, e)[Len(s) + 1] = e
  BY <1>2
<1>. QED  BY <1>4, <1>5

LEMMA PrefixOf ==
  ASSUME NEW s, NEW t, IsList(s), IsList(t), Len(s) <= Len(t),
         \A k \in 1..Len(s) : s[k] = t[k]
  PROVE  IsPrefix(s, t)
<1>. DEFINE S == Range(s) \cup Range(t)
            n == Len(s)
<1>1. s \in Seq(Range(s)) /\ t \in Seq(Range(t))
  BY DEF IsList
<1>2. s \in Seq(S) /\ t \in Seq(S)
  BY <1>1
<1>. HIDE DEF S
<1>3. n \in Nat /\ n <= Len(t) /\ Len(t) \in Nat
  BY <1>2
<1>4. /\ SubSeq(s, 1, n) \in Seq(S) /\ Len(SubSeq(s, 1, n)) = n
      /\ \A k \in 1..n : SubSeq(s, 1, n)[k] = s[k]
  BY <1>2, <1>3
<1>5. /\ SubSeq(t, 1, n) \in Seq(S) /\ Len(SubSeq(t, 1, n)) = n
      /\ \A k \in 1..n : SubSeq(t, 1, n)[k] = t[k]
  BY <1>2, <1>3
<1>6. SubSeq(s, 1, n) = SubSeq(t, 1, n)
  BY <1>4, <1>5
<1>. QED  BY <1>3, <1>6 DEF IsPrefix

LEMMA FirstsAreFinite ==
  ASSUME NEW k \in Nat, NEW S \in SUBSET (1..k)
  PROVE  IsFiniteSet(S) /\ Cardinality(S) \in Nat
<1>1. 1 \in Int /\ k \in Int
  OBVIOUS
<1>2. IsFiniteSet(1..k)
  BY <1>1, FS_Interval
<1>3. IsFiniteSet(S)
  BY <1>2, FS_Subset
<1>. QED  BY <1>3, FS_CardinalityType

\* One more request counts one more of its own, and no other.
LEMMA CountGrows ==
  ASSUME NEW s, NEW k \in Nat, NEW p
  PROVE  /\ Count(s, k, p) \in Nat
         /\ Count(s, k + 1, p) = IF script[s][k + 1] = p THEN Count(s, k, p) + 1
                                 ELSE Count(s, k, p)
<1>. DEFINE A == {m \in 1..k : script[s][m] = p}
            B == {m \in 1..(k + 1) : script[s][m] = p}
<1>1. A \in SUBSET (1..k) /\ (k + 1) \notin A
  OBVIOUS
<1>2. IsFiniteSet(A) /\ Cardinality(A) \in Nat
  <2>. HIDE DEF A
  <2>. QED  BY <1>1, FirstsAreFinite
<1>3. 1..(k + 1) = (1..k) \cup {k + 1}
  OBVIOUS
<1>4. B = IF script[s][k + 1] = p THEN A \cup {k + 1} ELSE A
  BY <1>3
<1>5. Count(s, k, p) = Cardinality(A) /\ Count(s, k + 1, p) = Cardinality(B)
  BY DEF Count
<1>. HIDE DEF A, B
<1>6. Cardinality(A \cup {k + 1}) = Cardinality(A) + 1
  BY <1>1, <1>2, FS_AddElement
<1>. QED  BY <1>2, <1>4, <1>5, <1>6

LEMMA CountFromNone == \A s, p : Count(s, 0, p) = 0
<1>1. ASSUME NEW s, NEW p  PROVE Count(s, 0, p) = 0
  <2>1. {m \in 1..0 : script[s][m] = p} = {}
    OBVIOUS
  <2>. QED  BY <2>1, FS_EmptySet DEF Count
<1>. QED  BY <1>1

\* The k-th thing a scope asked is found, and it alone, by counting how often
\* it asked that before.
LEMMA IndexFinds ==
  ASSUME CassetteTypeInv, IsList(file), NEW pos \in Positions, Placed(pos, file),
         NEW s \in Scopes, NEW k \in 1..Len(given[s]), Len(given[s]) <= Len(script[s])
  PROVE  LET fp == Fingerprint(s, script[s][k])
             n  == Count(s, k, script[s][k])
         IN  Recorded(fp, n) = {pos[s][k]}
<1>. DEFINE p  == script[s][k]
            fp == Fingerprint(s, p)
            i  == pos[s][k]
            M  == {m \in 1..k : script[s][m] = p}
            R  == RecordedBy(fp, i)
            f  == [m \in M |-> pos[s][m]]
<1>1. /\ Len(file) \in Nat /\ Len(given[s]) \in Nat /\ k \in Nat
      /\ 1..k \subseteq 1..Len(given[s])
      /\ script[s] \in Seq(Prompts)
  BY ListIs DEF CassetteTypeInv
<1>2. \A m \in 1..Len(given[s]) : script[s][m] \in Prompts
  BY <1>1
<1>3. \A m \in 1..Len(given[s]) :
        pos[s][m] \in 1..Len(file) /\ file[pos[s][m]].fp = Fingerprint(s, script[s][m])
  BY DEF Placed
<1>4. \A m, l \in 1..Len(given[s]) : m < l => pos[s][m] < pos[s][l]
  BY DEF Placed
<1>5. i \in 1..Len(file) /\ i \in Nat /\ file[i].fp = fp
  BY <1>3
<1>6. \A m \in M : pos[s][m] \in R
  <2>1. ASSUME NEW m \in M  PROVE pos[s][m] \in 1..i /\ file[pos[s][m]].fp = fp
    <3>1. m \in 1..Len(given[s]) /\ script[s][m] = p /\ (m = k \/ m < k)
      BY <1>1
    <3>2. pos[s][m] \in 1..Len(file) /\ (pos[s][m] = i \/ pos[s][m] < i)
      BY <1>3, <1>4, <3>1
    <3>. QED  BY <1>1, <1>3, <1>5, <3>1, <3>2
  <2>. QED  BY <2>1 DEF RecordedBy
<1>7. \A j \in R : \E m \in M : pos[s][m] = j
  <2>1. ASSUME NEW j \in R  PROVE \E m \in M : pos[s][m] = j
    <3>1. j \in 1..i /\ file[j].fp = fp
      BY DEF RecordedBy
    <3>2. j \in 1..Len(file) /\ p \in Prompts
      BY <1>1, <1>2, <1>5, <3>1
    <3>3. PICK m \in 1..Len(given[s]) : pos[s][m] = j
      BY <3>1, <3>2 DEF Placed
    <3>4. Fingerprint(s, script[s][m]) = Fingerprint(s, p)
      BY <1>3, <3>1, <3>3
    <3>5. script[s][m] = p
      BY <3>4 DEF Fingerprint
    <3>6. ~ (k < m)
      BY <1>1, <1>3, <1>4, <1>5, <3>1, <3>3
    <3>7. m \in 1..k
      BY <1>1, <3>6
    <3>. QED  BY <3>3, <3>5, <3>7
  <2>. QED  BY <2>1
<1>8. \A m, l \in M : pos[s][m] = pos[s][l] => m = l
  <2>1. ASSUME NEW m \in M, NEW l \in M, pos[s][m] = pos[s][l], m # l  PROVE FALSE
    <3>1. m \in 1..Len(given[s]) /\ l \in 1..Len(given[s]) /\ (m < l \/ l < m)
      BY <1>1, <2>1
    <3>2. pos[s][m] \in Int /\ pos[s][l] \in Int
      BY <1>3, <3>1
    <3>. QED  BY <1>4, <2>1, <3>1, <3>2
  <2>. QED  BY <2>1
<1>9. f \in Bijection(M, R)
  <2>1. f \in Injection(M, R)
    BY <1>6, <1>8 DEF Injection, IsInjective
  <2>2. f \in Surjection(M, R)
    BY <1>6, <1>7 DEF Surjection
  <2>. QED  BY <2>1, <2>2 DEF Bijection
<1>10. Cardinality(M) = Cardinality(R) /\ IsFiniteSet(M)
  <2>1. M \in SUBSET (1..k)
    OBVIOUS
  <2>. HIDE DEF M, R, f
  <2>2. IsFiniteSet(M)
    BY <1>1, <2>1, FirstsAreFinite
  <2>3. ExistsBijection(M, R)
    BY <1>9 DEF ExistsBijection
  <2>. QED  BY <2>2, <2>3, FS_Bijection
<1>11. Count(s, k, p) = Cardinality(R)
  BY <1>10 DEF Count
<1>12. i \in Recorded(fp, Cardinality(R))
  BY <1>5 DEF Recorded
<1>13. ASSUME NEW j \in Recorded(fp, Cardinality(R)), j # i  PROVE FALSE
  <2>. DEFINE Q == RecordedBy(fp, j)
  <2>1. j \in 1..Len(file) /\ file[j].fp = fp /\ Cardinality(Q) = Cardinality(R)
    BY <1>13 DEF Recorded
  <2>2. j \in Nat /\ i \in Nat
    BY <1>1, <1>5, <2>1
  <2>3. Q \in SUBSET (1..j) /\ R \in SUBSET (1..i)
    BY DEF RecordedBy
  <2>4. IsFiniteSet(Q) /\ IsFiniteSet(R)
    <3>. HIDE DEF Q, R
    <3>. QED  BY <2>2, <2>3, FirstsAreFinite
  <2>5. j \in Q /\ i \in R
    BY <1>5, <2>1, <2>2 DEF RecordedBy
  <2>6. CASE j < i
    <3>1. Q \in SUBSET R /\ i \notin Q
      BY <2>2, <2>6 DEF RecordedBy
    <3>. HIDE DEF Q, R
    <3>. QED  BY <2>1, <2>4, <2>5, <3>1, FS_Subset
  <2>7. CASE i < j
    <3>1. R \in SUBSET Q /\ j \notin R
      BY <2>2, <2>7 DEF RecordedBy
    <3>. HIDE DEF Q, R
    <3>. QED  BY <2>1, <2>4, <2>5, <3>1, FS_Subset
  <2>. QED  BY <1>13, <2>2, <2>6, <2>7
<1>14. Recorded(fp, Cardinality(R)) = {i}
  BY <1>12, <1>13
<1>. QED  BY <1>11, <1>14

-----------------------------------------------------------------------------
LEMMA CassetteInitInv == CassetteInit => CassetteInv
<1>. SUFFICES ASSUME CassetteInit  PROVE CassetteInv
  OBVIOUS
<1>1. ASSUME NEW s \in Scopes  PROVE script[s] \in Seq(Prompts)
  <2>1. script[s] \in SeqOf(Prompts, MaxAsks)
    BY DEF CassetteInit
  <2>2. PICK n \in 0..MaxAsks : script[s] \in [1..n -> Prompts]
    BY <2>1 DEF SeqOf
  <2>3. n \in Nat
    BY <2>2
  <2>. QED  BY <2>2, <2>3
<1>2. script \in [Scopes -> Seq(Prompts)]
  <2>1. script \in [Scopes -> SeqOf(Prompts, MaxAsks)]
    BY DEF CassetteInit
  <2>. QED  BY <1>1, <2>1
<1>3. IsList(<<>>) /\ Len(<<>>) = 0
  <2>1. <<>> \in Seq({})
    OBVIOUS
  <2>. QED  BY <2>1, ListIs
<1>4. CassetteTypeInv
  BY <1>2, <1>3 DEF CassetteInit, CassetteTypeInv
<1>5. FlightInv
  BY DEF CassetteInit, FlightInv
<1>6. \A s \in Scopes : Len(script[s]) \in Nat
  BY <1>2
<1>7. \E pos \in Positions : Placed(pos, tape)
  <2>. DEFINE pos == [s \in Scopes |-> [k \in Nat |-> 0]]
  <2>1. pos \in Positions
    BY DEF Positions
  <2>2. \A s \in Scopes : Len(given[s]) = 0
    BY <1>3 DEF CassetteInit
  <2>3. Len(tape) = 0
    BY <1>3 DEF CassetteInit
  <2>. HIDE DEF pos
  <2>4. Placed(pos, tape)
    BY <2>2, <2>3 DEF Placed
  <2>. QED  BY <2>1, <2>4
<1>8. RecordingInv
  BY <1>3, <1>6, <1>7 DEF CassetteInit, RecordingInv
<1>9. RecordedInv /\ ReplayInv
  BY <1>3 DEF CassetteInit, RecordedInv, ReplayInv
<1>. QED  BY <1>4, <1>5, <1>8, <1>9 DEF CassetteInv

LEMMA ScopeAsksInv ==
  ASSUME CassetteInv, NEW s \in Scopes, Ask(s)
  PROVE  CassetteInv'
<1>. USE DEF CassetteInv
<1>1. /\ mode = "record" /\ at[s] < Len(script[s])
      /\ flight' = [flight EXCEPT ![s] = TRUE]
      /\ UNCHANGED <<mode, script, at, given, tape, file, cursor, served, ends>>
  BY DEF Ask, Asking
<1>2. CassetteTypeInv'
  BY <1>1 DEF CassetteTypeInv
<1>3. FlightInv'
  BY <1>1 DEF FlightInv, CassetteTypeInv
<1>4. Clean' => Clean
  BY <1>1 DEF Clean
<1>5. ASSUME RecordingInv, RecordedInv, ReplayInv
      PROVE  RecordingInv' /\ RecordedInv' /\ ReplayInv'
  BY <1>1, <1>5 DEF RecordingInv, RecordedInv, ReplayInv, Placed
<1>. QED  BY <1>2, <1>3, <1>4, <1>5

\* recordInvoke: the answer goes to the end of the tape, whatever other
\* scopes were answered since this one asked.
LEMMA AnsweredInv ==
  ASSUME CassetteInv, NEW s \in Scopes, Answered(s)
  PROVE  CassetteInv'
<1>. USE DEF CassetteInv
<1>1. PICK said :
        /\ tape' = Append(tape, [fp |-> Asked(s), said |-> said])
        /\ given' = [given EXCEPT ![s] = Append(@, said)]
  BY DEF Answered
<1>2. /\ mode = "record" /\ flight[s] /\ at' = [at EXCEPT ![s] = @ + 1]
      /\ flight' = [flight EXCEPT ![s] = FALSE]
      /\ UNCHANGED <<mode, script, file, cursor, served, ends>>
  BY DEF Answered
<1>3. at[s] < Len(script[s]) /\ at[s] \in Nat /\ Len(script[s]) \in Nat
  BY <1>2 DEF FlightInv, CassetteTypeInv
<1>. DEFINE e == [fp |-> Asked(s), said |-> said]
            g == Append(given[s], said)
            n == Len(given[s])
<1>4. IsList(tape) /\ IsList(given[s]) /\ n \in Nat /\ Len(tape) \in Nat
  BY ListIs DEF CassetteTypeInv
<1>5. /\ tape' = Append(tape, e) /\ e.fp = Asked(s) /\ e.said = said
      /\ given'[s] = g /\ \A t \in Scopes : t # s => given'[t] = given[t]
      /\ DOMAIN given' = Scopes
  BY <1>1 DEF CassetteTypeInv
<1>. HIDE DEF e
<1>6. /\ IsList(tape') /\ Len(tape') = Len(tape) + 1
      /\ \A i \in 1..Len(tape) : tape'[i] = tape[i]
      /\ tape'[Len(tape) + 1] = e
  BY <1>4, <1>5, ListGrows
<1>7. /\ IsList(given'[s]) /\ Len(given'[s]) = n + 1
      /\ \A k \in 1..n : given'[s][k] = given[s][k]
      /\ given'[s][n + 1] = said
  BY <1>4, <1>5, ListGrows
<1>8. \A t \in Scopes : IsList(given'[t])
  BY <1>5, <1>7 DEF CassetteTypeInv
<1>9. CassetteTypeInv'
  BY <1>2, <1>3, <1>5, <1>6, <1>8 DEF CassetteTypeInv
<1>10. FlightInv'
  BY <1>2 DEF FlightInv, CassetteTypeInv
<1>11. Clean' => Clean
  BY <1>2 DEF Clean
<1>12. RecordedInv' /\ (RecordingInv /\ ReplayInv => ReplayInv')
  <2>1. RecordedInv'
    BY <1>2 DEF RecordedInv
  <2>2. ASSUME RecordingInv, ReplayInv  PROVE ReplayInv'
    BY <1>2, <2>2 DEF ReplayInv, RecordingInv
  <2>. QED  BY <2>1, <2>2
<1>13. ASSUME RecordingInv  PROVE RecordingInv'
  <2>1. /\ at[s] = n /\ ends.replay = 0
        /\ \A t \in Scopes : at[t] = Len(given[t]) /\ at[t] <= Len(script[t]) /\ served[t] = <<>>
    BY <1>2, <1>13 DEF RecordingInv
  <2>2. \A t \in Scopes : at'[t] = Len(given'[t]) /\ at'[t] <= Len(script[t])
    BY <1>2, <1>3, <1>5, <1>7, <2>1 DEF CassetteTypeInv
  <2>3. PICK pos \in Positions : Placed(pos, tape)
    BY <1>2, <1>13 DEF RecordingInv
  <2>4. PICK new \in Positions :
          /\ \A t \in Scopes : t # s => new[t] = pos[t]
          /\ \A k \in 1..n : new[s][k] = pos[s][k]
          /\ new[s][n + 1] = Len(tape) + 1
    <3>. DEFINE row == [pos[s] EXCEPT ![n + 1] = Len(tape) + 1]
                all == [pos EXCEPT ![s] = row]
    <3>1. pos[s] \in [Nat -> Nat] /\ pos \in [Scopes -> [Nat -> Nat]]
      BY DEF Positions
    <3>2. n + 1 \in Nat /\ Len(tape) + 1 \in Nat /\ \A k \in 1..n : k \in Nat /\ k # n + 1
      BY <1>4
    <3>3. /\ row \in [Nat -> Nat] /\ row[n + 1] = Len(tape) + 1
          /\ \A k \in 1..n : row[k] = pos[s][k]
      BY <3>1, <3>2
    <3>. HIDE DEF row
    <3>4. all \in Positions /\ all[s] = row /\ \A t \in Scopes : t # s => all[t] = pos[t]
      BY <3>1, <3>3 DEF Positions
    <3>. HIDE DEF all
    <3>. QED  BY <3>3, <3>4
  <2>5. Asked(s) = Fingerprint(s, script[s][n + 1])
    BY <2>1 DEF Asked
  <2>6. \A t \in Scopes : Len(given[t]) \in Nat
    BY ListIs DEF CassetteTypeInv
  <2>7. ASSUME NEW t \in Scopes, NEW k \in 1..Len(given'[t])
        PROVE  /\ new[t][k] \in 1..Len(tape')
               /\ tape'[new[t][k]].fp = Fingerprint(t, script[t][k])
               /\ tape'[new[t][k]].said = given'[t][k]
               /\ \A l \in 1..Len(given'[t]) : k < l => new[t][k] < new[t][l]
    <3>1. CASE t # s
      <4>1. given'[t] = given[t] /\ new[t] = pos[t]
        BY <1>5, <2>4, <3>1
      <4>2. /\ pos[t][k] \in 1..Len(tape)
            /\ tape[pos[t][k]].fp = Fingerprint(t, script[t][k])
            /\ tape[pos[t][k]].said = given[t][k]
            /\ \A l \in 1..Len(given[t]) : k < l => pos[t][k] < pos[t][l]
        BY <2>3, <4>1 DEF Placed
      <4>. QED  BY <1>4, <1>6, <4>1, <4>2
    <3>2. CASE t = s /\ k \in 1..n
      <4>1. /\ pos[s][k] \in 1..Len(tape)
            /\ tape[pos[s][k]].fp = Fingerprint(s, script[s][k])
            /\ tape[pos[s][k]].said = given[s][k]
            /\ \A l \in 1..n : k < l => pos[s][k] < pos[s][l]
        BY <2>3, <3>2 DEF Placed
      <4>2. new[s][k] = pos[s][k] /\ new[s][k] < new[s][n + 1]
        BY <1>4, <2>4, <3>2, <4>1
      <4>3. \A l \in 1..Len(given'[s]) : l \in 1..n \/ l = n + 1
        BY <1>4, <1>7
      <4>4. \A l \in 1..Len(given'[s]) : k < l => new[s][k] < new[s][l]
        BY <2>4, <4>1, <4>2, <4>3
      <4>5. tape'[new[s][k]] = tape[pos[s][k]] /\ new[s][k] \in 1..Len(tape')
        BY <1>4, <1>6, <4>1, <4>2
      <4>. QED  BY <1>7, <3>2, <4>1, <4>4, <4>5
    <3>3. CASE t = s /\ k = n + 1
      <4>1. new[s][k] = Len(tape) + 1 /\ tape'[new[s][k]] = e
        BY <1>6, <2>4, <3>3
      <4>2. \A l \in 1..Len(given'[s]) : ~ (k < l)
        BY <1>4, <1>7, <3>3
      <4>. QED  BY <1>4, <1>5, <1>6, <1>7, <2>5, <3>3, <4>1, <4>2
    <3>4. t = s => k \in 1..n \/ k = n + 1
      BY <1>4, <1>7
    <3>. QED  BY <3>1, <3>2, <3>3, <3>4
  <2>8. ASSUME NEW i \in 1..Len(tape'), NEW t \in Scopes, NEW p \in Prompts,
               tape'[i].fp = Fingerprint(t, p)
        PROVE  \E k \in 1..Len(given'[t]) : new[t][k] = i
    <3>1. CASE i \in 1..Len(tape)
      <4>9. tape[i].fp = Fingerprint(t, p)
        BY <1>6, <2>8, <3>1
      <4>1. PICK k \in 1..Len(given[t]) : pos[t][k] = i
        BY <2>3, <3>1, <4>9 DEF Placed
      <4>2. CASE t = s
        <5>1. k \in 1..n /\ pos[s][k] = i
          BY <4>1, <4>2
        <5>2. k \in 1..Len(given'[s]) /\ new[s][k] = i
          BY <1>4, <1>7, <2>4, <5>1
        <5>. QED  BY <4>2, <5>2
      <4>3. CASE t # s
        BY <1>5, <2>4, <4>1, <4>3
      <4>. QED  BY <4>2, <4>3
    <3>2. CASE i = Len(tape) + 1
      <4>1. Fingerprint(t, p) = Fingerprint(s, script[s][n + 1])
        BY <1>5, <1>6, <2>5, <2>8, <3>2
      <4>2. t = s
        BY <4>1 DEF Fingerprint
      <4>3. n + 1 \in 1..Len(given'[s]) /\ new[s][n + 1] = i
        BY <1>4, <1>7, <2>4, <3>2
      <4>. QED  BY <4>2, <4>3
    <3>3. i \in 1..Len(tape) \/ i = Len(tape) + 1
      BY <1>4, <1>6
    <3>. QED  BY <3>1, <3>2, <3>3
  <2>9. Placed(new, tape)'
    BY <1>2, <2>7, <2>8 DEF Placed
  <2>. QED  BY <1>2, <2>1, <2>2, <2>9 DEF RecordingInv
<1>14. ASSUME Clean'  PROVE RecordingInv' /\ RecordedInv' /\ ReplayInv'
  BY <1>11, <1>12, <1>13, <1>14
<1>. QED  BY <1>9, <1>10, <1>14

\* saveCassette: a run that is not over is paused, and no longer recorded whole.
LEMMA SaveInv == CassetteInv /\ Save => CassetteInv'
<1>. SUFFICES ASSUME CassetteInv, Save  PROVE CassetteInv'
  OBVIOUS
<1>. USE DEF CassetteInv
<1>1. /\ mode = "record" /\ mode' = "between" /\ file' = tape
      /\ \A s \in Scopes : ~ flight[s]
      /\ UNCHANGED <<script, at, flight, given, tape, cursor, served>>
  BY DEF Save
<1>2. IF Over(given) THEN ends' = ends ELSE ends' = [ends EXCEPT !.paused = @ + 1]
  BY DEF Save
<1>3. ends.paused \in Nat /\ ends.killed \in Nat /\ ends.replay \in Nat
  BY DEF CassetteTypeInv
<1>4. CassetteTypeInv'
  <2>1. ends' \in [paused : Nat, killed : Nat, replay : Nat]
    BY <1>2 DEF CassetteTypeInv
  <2>. QED  BY <1>1, <2>1 DEF CassetteTypeInv
<1>5. FlightInv'
  BY <1>1 DEF FlightInv
<1>6. ASSUME Clean'  PROVE Over(given) /\ Clean
  <2>1. Over(given)
    BY <1>2, <1>3, <1>6 DEF Clean, CassetteTypeInv
  <2>. QED  BY <1>1, <1>2, <1>6, <2>1 DEF Clean
<1>7. ASSUME Clean'  PROVE RecordingInv' /\ RecordedInv' /\ ReplayInv'
  <2>1. Over(given) /\ ends' = ends /\ RecordingInv /\ ReplayInv
    BY <1>2, <1>6, <1>7
  <2>2. \A s \in Scopes : at[s] = Len(given[s]) /\ at[s] <= Len(script[s]) /\ served[s] = <<>>
    BY <1>1, <2>1 DEF RecordingInv
  <2>3. \A s \in Scopes : Len(given[s]) \in Nat /\ Len(script[s]) \in Nat
    BY ListIs DEF CassetteTypeInv
  <2>4. \A s \in Scopes : Len(given[s]) = Len(script[s]) \/ Gave(s, given)
    BY <2>1, <2>2, <2>3 DEF Over, Asking
  <2>5. \E pos \in Positions : Placed(pos, tape)
    BY <1>1, <2>1 DEF RecordingInv
  <2>6. RecordedInv'
    BY <1>1, <2>2, <2>4, <2>5 DEF RecordedInv, Placed, Gave, CassetteTypeInv
  <2>7. ends'.replay = 0
    BY <1>1, <2>1 DEF RecordingInv
  <2>8. RecordingInv'
    BY <1>1 DEF RecordingInv
  <2>9. ReplayInv'
    BY <1>1, <2>1, <2>2, <2>7 DEF ReplayInv
  <2>. QED  BY <2>6, <2>8, <2>9
<1>. QED  BY <1>4, <1>5, <1>7

LEMMA KilledInv == CassetteInv /\ Killed => CassetteInv'
<1>. SUFFICES ASSUME CassetteInv, Killed  PROVE CassetteInv'
  OBVIOUS
<1>. USE DEF CassetteInv
<1>1. /\ mode \in {"record", "replay"} /\ mode' = "between"
      /\ flight' = [s \in Scopes |-> FALSE]
      /\ UNCHANGED <<script, at, given, tape, file, cursor, served>>
      /\ ends' = IF mode = "replay" THEN [ends EXCEPT !.replay = @ + 1]
                                    ELSE [ends EXCEPT !.killed = @ + 1]
  BY DEF Killed
<1>2. ends.paused \in Nat /\ ends.killed \in Nat /\ ends.replay \in Nat
  BY DEF CassetteTypeInv
<1>3. CassetteTypeInv' /\ FlightInv'
  <2>1. ends' \in [paused : Nat, killed : Nat, replay : Nat]
    <3>1. ends \in [paused : Nat, killed : Nat, replay : Nat]
      BY DEF CassetteTypeInv
    <3>2. \/ ends' = [ends EXCEPT !.replay = @ + 1]
          \/ ends' = [ends EXCEPT !.killed = @ + 1]
      BY <1>1
    <3>. QED  BY <3>1, <3>2
  <2>2. CassetteTypeInv'
    BY <1>1, <2>1 DEF CassetteTypeInv
  <2>. QED  BY <1>1, <2>2 DEF FlightInv
<1>4. ASSUME Clean'  PROVE RecordingInv' /\ RecordedInv' /\ ReplayInv'
  <2>1. mode = "replay" /\ ends' = [ends EXCEPT !.replay = @ + 1]
    BY <1>1, <1>2, <1>4 DEF Clean, CassetteTypeInv
  <2>2. Clean
    BY <1>1, <1>2, <1>4, <2>1 DEF Clean, CassetteTypeInv
  <2>3. ends'.replay > 0
    BY <1>2, <2>1 DEF CassetteTypeInv
  <2>4. RecordedInv /\ ReplayInv
    BY <2>2
  <2>5. RecordedInv'
    BY <1>1, <2>1, <2>4 DEF RecordedInv, Placed, Gave
  <2>6. RecordingInv'
    BY <1>1 DEF RecordingInv
  <2>7. ReplayInv'
    BY <1>1, <2>1, <2>3, <2>4 DEF ReplayInv
  <2>. QED  BY <2>5, <2>6, <2>7
<1>. QED  BY <1>3, <1>4

\* A run that was over asks for nothing more.
LEMMA ResumeRecordingInv == CassetteInv /\ ResumeRecording => CassetteInv'
<1>. SUFFICES ASSUME CassetteInv, ResumeRecording  PROVE CassetteInv'
  OBVIOUS
<1>. USE DEF CassetteInv
<1>1. /\ mode = "between" /\ mode' = "record" /\ tape' = <<>> /\ ends.replay = 0
      /\ \E s \in Scopes : Asking(s, given)
      /\ UNCHANGED <<script, at, flight, given, file, cursor, served, ends>>
  BY DEF ResumeRecording
<1>2. IsList(<<>>)
  <2>1. <<>> \in Seq({})
    OBVIOUS
  <2>. QED  BY <2>1, ListIs
<1>3. CassetteTypeInv'
  BY <1>1, <1>2 DEF CassetteTypeInv
<1>4. FlightInv'
  BY <1>1 DEF FlightInv
<1>5. ~ Clean
  <2>1. SUFFICES ASSUME Clean  PROVE FALSE
    OBVIOUS
  <2>2. RecordedInv /\ ReplayInv
    BY <2>1
  <2>3. PICK s \in Scopes : Asking(s, given)
    BY <1>1
  <2>4. at[s] = Len(given[s]) /\ (Len(given[s]) = Len(script[s]) \/ Gave(s, given))
    BY <1>1, <2>2 DEF RecordedInv, ReplayInv
  <2>5. at[s] \in Nat
    BY DEF CassetteTypeInv
  <2>. QED  BY <2>3, <2>4, <2>5 DEF Asking
<1>6. ~ Clean'
  BY <1>1, <1>5 DEF Clean
<1>. QED  BY <1>3, <1>4, <1>6

\* Both begin with a backend that has served nothing: of a run that asks
\* nothing twice, or of one that is at its beginning.
LEMMA ReplayBegins == CassetteInv /\ (StartReplay \/ ResumeReplay) => CassetteInv'
<1>. SUFFICES ASSUME CassetteInv, StartReplay \/ ResumeReplay  PROVE CassetteInv'
  OBVIOUS
<1>. USE DEF CassetteInv
<1>1. /\ mode = "between" /\ mode' = "replay"
      /\ cursor' = [fp \in Fingerprints |-> 0]
      /\ UNCHANGED <<script, flight, given, tape, file, served, ends>>
      /\ \/ ends.replay = 0 /\ at' = [s \in Scopes |-> 0]
         \/ ends.replay > 0 /\ at' = at
  BY DEF StartReplay, ResumeReplay
<1>2. CassetteTypeInv'
  BY <1>1 DEF CassetteTypeInv
<1>3. FlightInv'
  BY <1>1 DEF FlightInv
<1>4. Clean' <=> Clean
  BY <1>1 DEF Clean
<1>5. ASSUME Clean  PROVE RecordingInv' /\ RecordedInv' /\ ReplayInv'
  <2>1. RecordedInv /\ ReplayInv
    BY <1>5
  <2>2. RecordedInv'
    BY <1>1, <2>1 DEF RecordedInv, Placed, Gave
  <2>3. RecordingInv'
    BY <1>1 DEF RecordingInv
  <2>4. \A s \in Scopes : Len(given[s]) \in Nat /\ Len(served[s]) \in Nat /\ at[s] \in Nat
    BY ListIs DEF CassetteTypeInv
  <2>5. \A s \in Scopes : at'[s] = Len(served[s]) /\ at'[s] <= Len(given[s]) /\ at'[s] \in Nat
    <3>1. CASE ends.replay = 0 /\ at' = [s \in Scopes |-> 0]
      <4>1. \A s \in Scopes : served[s] = <<>>
        BY <1>1, <2>1, <3>1 DEF ReplayInv
      <4>2. Len(<<>>) = 0
        OBVIOUS
      <4>. QED  BY <2>4, <3>1, <4>1, <4>2
    <3>2. CASE ends.replay > 0 /\ at' = at
      BY <2>1, <2>4, <3>2 DEF ReplayInv
    <3>. QED  BY <1>1, <3>1, <3>2
  <2>6. ASSUME NEW s \in Scopes, NEW m \in 1..Len(script[s]), at'[s] < m
        PROVE  cursor'[Fingerprint(s, script[s][m])] = Count(s, at'[s], script[s][m])
    <3>1. script[s] \in Seq(Prompts)
      BY DEF CassetteTypeInv
    <3>2. Fingerprint(s, script[s][m]) \in Fingerprints
      BY <3>1 DEF Fingerprints
    <3>3. cursor'[Fingerprint(s, script[s][m])] = 0
      BY <1>1, <3>2
    <3>4. CASE at'[s] = 0
      BY <3>3, <3>4, CountFromNone
    <3>5. CASE ends.replay > 0
      <4>1. IsInjective(script[s])
        BY <1>5, <3>5 DEF Clean
      <4>2. \A l \in 1..at'[s] : l \in DOMAIN script[s] /\ m \in DOMAIN script[s] /\ l # m
        BY <2>5, <2>6, <3>1
      <4>3. {l \in 1..at'[s] : script[s][l] = script[s][m]} = {}
        BY <4>1, <4>2 DEF IsInjective
      <4>. QED  BY <3>3, <4>3, FS_EmptySet DEF Count
    <3>. QED  BY <1>1, <3>4, <3>5
  <2>8. \A s \in Scopes : \A m \in 1..Len(script'[s]) :
          at'[s] < m => cursor'[Fingerprint(s, script'[s][m])]
                          = Cardinality({l \in 1..at'[s] : script'[s][l] = script'[s][m]})
    BY <1>1, <2>6 DEF Count
  <2>9. ReplayInv'
    BY <1>1, <2>1, <2>5, <2>8 DEF ReplayInv, Count, Fingerprint
  <2>. QED  BY <2>2, <2>3, <2>9
<1>. QED  BY <1>2, <1>3, <1>4, <1>5

\* replayInvoke: what is served is what this scope was given as its next.
LEMMA ReplayInvokeInv ==
  ASSUME CassetteInv, NEW s \in Scopes, ReplayInvoke(s)
  PROVE  CassetteInv'
<1>. USE DEF CassetteInv
<1>. DEFINE k  == at[s] + 1
            p  == script[s][k]
            fp == Fingerprint(s, p)
            n  == cursor[fp] + 1
<1>1. /\ mode = "replay" /\ Asking(s, served)
      /\ at' = [at EXCEPT ![s] = @ + 1]
      /\ UNCHANGED <<mode, script, flight, given, tape, file, ends>>
  BY DEF ReplayInvoke
<1>2. PICK said :
        /\ served' = [served EXCEPT ![s] = Append(@, said)]
        /\ Recorded(fp, n) # {} => said = file[CHOOSE i \in Recorded(fp, n) : TRUE].said
  BY DEF ReplayInvoke, Asked
<1>3. cursor' = IF Recorded(fp, n) # {} THEN [cursor EXCEPT ![fp] = n] ELSE cursor
  BY DEF ReplayInvoke, Asked
<1>4. /\ script[s] \in Seq(Prompts) /\ Len(script[s]) \in Nat /\ at[s] \in Nat
      /\ at[s] < Len(script[s]) /\ IsList(served[s]) /\ IsList(given[s])
      /\ Len(served[s]) \in Nat /\ Len(given[s]) \in Nat
  BY <1>1, ListIs DEF CassetteTypeInv, Asking
<1>5. k \in 1..Len(script[s]) /\ k \in Nat
  BY <1>4
<1>6. fp \in Fingerprints
  BY <1>4, <1>5 DEF Fingerprints
<1>7. /\ IsList(served'[s]) /\ Len(served'[s]) = Len(served[s]) + 1
      /\ \A i \in 1..Len(served[s]) : served'[s][i] = served[s][i]
      /\ served'[s][Len(served[s]) + 1] = said
  <2>1. served'[s] = Append(served[s], said)
    BY <1>2 DEF CassetteTypeInv
  <2>. QED  BY <1>4, <2>1, ListGrows
<1>8. \A t \in Scopes : t # s => served'[t] = served[t] /\ at'[t] = at[t]
  BY <1>1, <1>2 DEF CassetteTypeInv
<1>9. DOMAIN served' = Scopes /\ \A t \in Scopes : IsList(served'[t])
  BY <1>2, <1>7, <1>8 DEF CassetteTypeInv
<1>10. cursor' \in [Fingerprints -> Nat] /\ at' \in [Scopes -> Nat] /\ at'[s] = k
  <2>1. cursor \in [Fingerprints -> Nat] /\ cursor[fp] \in Nat /\ at \in [Scopes -> Nat]
    BY <1>6 DEF CassetteTypeInv
  <2>. HIDE DEF fp
  <2>2. cursor' \in [Fingerprints -> Nat]
    BY <1>3, <1>6, <2>1
  <2>. QED  BY <1>1, <2>1, <2>2
<1>11. CassetteTypeInv'
  BY <1>1, <1>9, <1>10 DEF CassetteTypeInv
<1>12. FlightInv'
  BY <1>1 DEF FlightInv
<1>13. Clean' <=> Clean
  BY <1>1 DEF Clean
<1>14. ASSUME Clean  PROVE RecordingInv' /\ RecordedInv' /\ ReplayInv'
  <2>1. RecordedInv /\ ReplayInv
    BY <1>14
  <2>2. RecordedInv'
    BY <1>1, <2>1 DEF RecordedInv, Placed, Gave
  <2>3. RecordingInv'
    BY <1>1 DEF RecordingInv
  <2>4. /\ at[s] = Len(served[s]) /\ at[s] <= Len(given[s])
        /\ \A i \in 1..Len(served[s]) : served[s][i] = given[s][i]
        /\ cursor[fp] = Count(s, at[s], p)
    BY <1>1, <1>4, <1>5, <2>1 DEF ReplayInv
  <2>5. Len(given[s]) <= Len(script[s]) /\ (Len(given[s]) = Len(script[s]) \/ Gave(s, given))
    BY <1>1, <2>1 DEF RecordedInv
  <2>6. k \in 1..Len(given[s])
    <3>1. SUFFICES ASSUME at[s] = Len(given[s])  PROVE FALSE
      BY <1>4, <2>4
    <3>2. Gave(s, given)
      BY <1>4, <2>5, <3>1
    <3>3. DOMAIN given[s] = 1..Len(given[s]) /\ DOMAIN served[s] = 1..Len(served[s])
      BY <1>4, ListIs
    <3>4. Gave(s, served)
      BY <2>4, <3>1, <3>2, <3>3 DEF Gave
    <3>. QED  BY <1>1, <3>4 DEF Asking
  <2>7. Count(s, k, p) = Count(s, at[s], p) + 1
    BY <1>4, CountGrows
  <2>8. PICK pos \in Positions : Placed(pos, file)
    BY <1>1, <2>1 DEF RecordedInv
  <2>9. Recorded(fp, n) = {pos[s][k]}
    <3>1. IsList(file)
      BY <1>1, <2>1 DEF RecordedInv
    <3>2. n = Count(s, k, p)
      BY <2>4, <2>7
    <3>3. Recorded(fp, Count(s, k, p)) = {pos[s][k]}
      BY <2>5, <2>6, <2>8, <3>1, IndexFinds
    <3>. HIDE DEF n, fp, p, k
    <3>. QED  BY <3>2, <3>3
  <2>10. said = given[s][k]
    <3>1. said = file[CHOOSE i \in Recorded(fp, n) : TRUE].said
      BY <1>2, <2>9
    <3>2. (CHOOSE i \in Recorded(fp, n) : TRUE) \in Recorded(fp, n)
      BY <2>9
    <3>3. (CHOOSE i \in Recorded(fp, n) : TRUE) = pos[s][k]
      BY <2>9, <3>2
    <3>4. said = file[pos[s][k]].said
      BY <3>1, <3>3
    <3>. QED  BY <2>6, <2>8, <3>4 DEF Placed
  <2>11. \A t \in Scopes : at'[t] = Len(served'[t]) /\ at'[t] <= Len(given[t])
    BY <1>1, <1>4, <1>7, <1>8, <1>10, <2>1, <2>4, <2>6 DEF ReplayInv
  <2>12. ASSUME NEW t \in Scopes, NEW i \in 1..Len(served'[t])
         PROVE  served'[t][i] = given[t][i]
    <3>1. CASE t # s
      BY <1>8, <2>1, <3>1 DEF ReplayInv
    <3>2. CASE t = s /\ i \in 1..Len(served[s])
      BY <1>7, <2>4, <3>2
    <3>3. CASE t = s /\ i = Len(served[s]) + 1
      BY <1>7, <2>4, <2>10, <3>3
    <3>4. t = s => i \in 1..Len(served[s]) \/ i = Len(served[s]) + 1
      BY <1>4, <1>7
    <3>. QED  BY <3>1, <3>2, <3>3, <3>4
  <2>13. cursor' = [cursor EXCEPT ![fp] = Count(s, k, p)] /\ cursor \in [Fingerprints -> Nat]
    <3>1. n = Count(s, k, p) /\ Recorded(fp, n) # {}
      BY <2>4, <2>7, <2>9
    <3>. HIDE DEF n, fp, p, k
    <3>2. cursor' = [cursor EXCEPT ![fp] = n]
      BY <1>3, <3>1
    <3>. QED  BY <3>1, <3>2 DEF CassetteTypeInv
  <2>14. ASSUME NEW t \in Scopes, NEW m \in 1..Len(script[t]), at'[t] < m
         PROVE  cursor'[Fingerprint(t, script[t][m])] = Count(t, at'[t], script[t][m])
    <3>. DEFINE q  == script[t][m]
                fq == Fingerprint(t, q)
    <3>1. script[t] \in Seq(Prompts) /\ at[t] \in Nat /\ Len(script[t]) \in Nat
      BY DEF CassetteTypeInv
    <3>2. fq \in Fingerprints
      BY <3>1 DEF Fingerprints
    <3>3. at[t] < m /\ cursor[fq] = Count(t, at[t], q)
      <4>1. at[t] < m
        BY <1>4, <1>8, <1>10, <2>14, <3>1
      <4>. QED  BY <1>1, <2>1, <4>1 DEF ReplayInv
    <3>4. CASE t = s /\ q = p
      <4>1. fq = fp /\ at'[t] = k
        BY <1>10, <3>4
      <4>2. cursor'[fp] = Count(s, k, p)
        <5>. HIDE DEF fp, p, k
        <5>. QED  BY <1>6, <2>13
      <4>. QED  BY <3>4, <4>1, <4>2
    <3>5. CASE t = s /\ q # p
      <4>1. fq # fp
        BY <3>5 DEF Fingerprint
      <4>2. cursor'[fq] = cursor[fq]
        <5>. HIDE DEF fp, p, k, q, fq
        <5>. QED  BY <2>13, <3>2, <4>1
      <4>3. Count(s, k, q) = Count(s, at[s], q)
        BY <1>4, <3>5, CountGrows
      <4>4. at'[t] = k
        BY <1>10, <3>5
      <4>. QED  BY <3>3, <3>5, <4>2, <4>3, <4>4
    <3>6. CASE t # s
      <4>1. fq # fp /\ at'[t] = at[t]
        BY <1>8, <3>6 DEF Fingerprint
      <4>2. cursor'[fq] = cursor[fq]
        <5>. HIDE DEF fp, p, k, q, fq
        <5>. QED  BY <2>13, <3>2, <4>1
      <4>. QED  BY <3>3, <4>1, <4>2
    <3>. QED  BY <3>4, <3>5, <3>6
  <2>15. \A t \in Scopes : \A m \in 1..Len(script'[t]) :
           at'[t] < m => cursor'[Fingerprint(t, script'[t][m])]
                           = Cardinality({l \in 1..at'[t] : script'[t][l] = script'[t][m]})
    BY <1>1, <2>14 DEF Count
  <2>16. ReplayInv'
    BY <1>1, <2>11, <2>12, <2>15 DEF ReplayInv, Count, Fingerprint
  <2>. QED  BY <2>2, <2>3, <2>16
<1>. QED  BY <1>11, <1>12, <1>13, <1>14

LEMMA CassetteNextInv == CassetteInv /\ [CassetteNext]_cassetteVars => CassetteInv'
<1>. SUFFICES ASSUME CassetteInv, [CassetteNext]_cassetteVars  PROVE CassetteInv'
  OBVIOUS
<1>1. CASE Save
  BY <1>1, SaveInv
<1>2. CASE Killed
  BY <1>2, KilledInv
<1>3. CASE ResumeRecording
  BY <1>3, ResumeRecordingInv
<1>4. CASE StartReplay \/ ResumeReplay
  BY <1>4, ReplayBegins
<1>5. CASE \E s \in Scopes : Ask(s) \/ Answered(s) \/ ReplayInvoke(s)
  BY <1>5, ScopeAsksInv, AnsweredInv, ReplayInvokeInv
<1>6. CASE UNCHANGED cassetteVars
  <2>1. UNCHANGED <<mode, script, at, flight, given, tape, file, cursor, served, ends>>
    BY <1>6 DEF cassetteVars
  <2>2. CassetteTypeInv' /\ FlightInv' /\ Clean' = Clean
    BY <2>1 DEF CassetteInv, CassetteTypeInv, FlightInv, Clean
  <2>3. RecordingInv => RecordingInv'
    BY <2>1 DEF RecordingInv, Placed
  <2>4. RecordedInv => RecordedInv'
    BY <2>1 DEF RecordedInv, Placed, Gave
  <2>5. ReplayInv => ReplayInv'
    BY <2>1 DEF ReplayInv, Count, Fingerprint
  <2>. QED  BY <2>2, <2>3, <2>4, <2>5 DEF CassetteInv
<1>. QED  BY <1>1, <1>2, <1>3, <1>4, <1>5, <1>6 DEF CassetteNext

\* agent/replay, Record and Replay: a run recorded whole by one process is
\* served, in each of its scopes, its own answers and errors in their order --
\* for any scopes and requests, whatever order they were answered in then and
\* ask in now, and, where nothing is asked twice, however often the replay is
\* stopped and resumed.
THEOREM ReplaysAreTheRecording == CassetteSpec => []ReplayIsTheRecording
<1>1. CassetteInv => ReplayIsTheRecording
  <2>. SUFFICES ASSUME CassetteInv, Clean, NEW s \in Scopes
                PROVE  IsPrefix(served[s], given[s])
    BY DEF ReplayIsTheRecording, Clean
  <2>1. RecordingInv /\ ReplayInv /\ CassetteTypeInv
    BY DEF CassetteInv
  <2>2. IsList(served[s]) /\ IsList(given[s])
    BY <2>1 DEF CassetteTypeInv
  <2>3. Len(served[s]) \in Nat /\ Len(given[s]) \in Nat
    BY <2>2, ListIs
  <2>4. Len(served[s]) <= Len(given[s])
    <3>1. CASE served[s] = <<>>
      BY <2>3, <3>1
    <3>2. CASE served[s] # <<>>
      <4>1. mode = "replay" \/ ends.replay > 0
        BY <2>1, <3>2 DEF RecordingInv, ReplayInv, CassetteTypeInv
      <4>. QED  BY <2>1, <4>1 DEF ReplayInv
    <3>. QED  BY <3>1, <3>2
  <2>5. \A k \in 1..Len(served[s]) : served[s][k] = given[s][k]
    BY <2>1 DEF ReplayInv
  <2>. QED  BY <2>2, <2>4, <2>5, PrefixOf
<1>. QED  BY CassetteInitInv, CassetteNextInv, <1>1, PTL DEF CassetteSpec

=============================================================================
