------------------------------ MODULE Processes ------------------------------
(***************************************************************************)
(* The processes belay starts (internal/exec and internal/procgroup).      *)
(* Each leads a process group of its own, is recorded on disk before it    *)
(* starts, is watched until its context ends, and is forgotten once it has *)
(* been reaped.  A belay that dies leaves groups running; the records let  *)
(* the next one kill them.                                                 *)
(*                                                                         *)
(* A pid is handed out again once nothing holds it, neither a process nor  *)
(* a group.  The start time the platform reports tells two holders of one  *)
(* pid apart, so it is the count of processes started so far.              *)
(***************************************************************************)
EXTENDS Naturals, FiniteSets

CONSTANTS
  Calls,      \* goroutines that may call Runner.Run
  Pids,       \* pids the kernel hands out
  MaxStarts,  \* bound: processes started
  MaxCrashes  \* bound: deaths of belay

VARIABLES
  proc,    \* pid -> the process that holds it
  kin,     \* call -> the group its surviving descendants are in, or NoPid
  record,  \* call -> the record of its process on disk
  call,    \* call -> where Run is, and its watcher
  belay,   \* "up", "down", or "healing" the run before it goes on
  reap,    \* the record Reap is at
  starts,  \* processes started so far: the next start time
  crashes,
  excused, \* history: processes no record could prove
  wronged  \* history: Reap struck a process that was another's all along

os   == <<proc, kin, starts>>
past == <<excused, wronged>>
vars == <<os, record, call, belay, reap, crashes, past>>

NoPid    == "nopid"
Nobody   == [by |-> "nobody", born |-> 0, program |-> "none", leads |-> FALSE, state |-> "none"]
NoRecord == [pid |-> NoPid, start |-> 0, kept |-> FALSE]
Idle     == [pc |-> "idle", pid |-> NoPid, watcher |-> "off"]
NoReap   == [call |-> "none", step |-> "none", seen |-> 0]

\* A call is none of the others that may have started a process.
ASSUME ProcessesAssumption == /\ NoPid \notin Pids
                              /\ \A c \in Calls : c \notin {"nobody", "stranger", "orphan"}

Init ==
  /\ proc = [p \in Pids |-> Nobody] /\ kin = [c \in Calls |-> NoPid] /\ starts = 0
  /\ record = [c \in Calls |-> NoRecord] /\ call = [c \in Calls |-> Idle]
  /\ belay = "up" /\ reap = NoReap /\ crashes = 0
  /\ excused = {} /\ wronged = FALSE

At(c, p)    == belay = "up" /\ call[c].pc = p
Watch(c, w) == belay = "up" /\ call[c].watcher = w
To(c, f, v) == call' = [call EXCEPT ![c][f] = v]

-----------------------------------------------------------------------------
(***************************************************************************)
(* The kernel, and the programs that run.                                  *)
(***************************************************************************)
GroupOf(p) == {c \in Calls : kin[c] = p}
Free(p)    == proc[p] = Nobody /\ GroupOf(p) = {}

Born(p, by, program, leads) ==
  /\ Free(p) /\ starts < MaxStarts /\ starts' = starts + 1
  /\ proc' = [proc EXCEPT ![p] = [by |-> by, born |-> starts + 1, program |-> program,
                                  leads |-> leads, state |-> "runs"]]

\* kill(2): TERM may be ignored by each process it reaches, KILL by none.
Deaths(sig) == IF sig = "KILL" THEN {TRUE} ELSE BOOLEAN
Exited(process, dies) == IF dies /\ process.state = "runs" THEN [process EXCEPT !.state = "zombie"]
                         ELSE process

KillGroup(p, sig) ==
  \E leader \in Deaths(sig), others \in Deaths(sig) :
    /\ proc' = [proc EXCEPT ![p] = IF @.leads THEN Exited(@, leader) ELSE @]
    /\ kin' = [c \in Calls |-> IF kin[c] = p /\ others THEN NoPid ELSE kin[c]]

KillProcess(p, sig) ==
  \E dies \in Deaths(sig) : proc' = [proc EXCEPT ![p] = Exited(@, dies)] /\ UNCHANGED kin

HasGroup(p) == proc[p].leads \/ GroupOf(p) # {}

\* Another program takes a pid that is free, even one of the same name.
Stranger(p) ==
  /\ \E program \in {"agent", "other"}, leads \in BOOLEAN : Born(p, "stranger", program, leads)
  /\ UNCHANGED <<kin, record, call, belay, reap, crashes, past>>

Fork(c) ==
  /\ \E p \in Pids : /\ proc[p].by = c /\ proc[p].state = "runs" /\ kin[c] = NoPid
                     /\ kin' = [kin EXCEPT ![c] = p]
  /\ UNCHANGED <<proc, starts, record, call, belay, reap, crashes, past>>

Exit ==
  /\ \/ \E p \in Pids : /\ proc[p].state = "runs"
                        /\ proc' = [proc EXCEPT ![p] = Exited(@, TRUE)] /\ UNCHANGED kin
     \/ \E c \in Calls : /\ kin[c] # NoPid
                         /\ kin' = [kin EXCEPT ![c] = NoPid] /\ UNCHANGED proc
  /\ UNCHANGED <<starts, record, call, belay, reap, crashes, past>>

\* Whoever started it, or init, reaps it.
Collected(p) ==
  /\ proc[p].state = "zombie" /\ proc[p].by \notin Calls
  /\ proc' = [proc EXCEPT ![p] = Nobody]
  /\ UNCHANGED <<kin, starts, record, call, belay, reap, crashes, past>>

-----------------------------------------------------------------------------
(***************************************************************************)
(* Runner.Run.                                                             *)
(***************************************************************************)
\* The reservation, written before the process starts.
Track(c) ==
  /\ At(c, "idle") /\ To(c, "pc", "tracked")
  /\ record' = [record EXCEPT ![c] = [NoRecord EXCEPT !.kept = TRUE]]
  /\ UNCHANGED <<os, belay, reap, crashes, past>>

Start(c) ==
  /\ At(c, "tracked")
  /\ \E p \in Pids :
       /\ Born(p, c, "agent", TRUE)
       /\ call' = [call EXCEPT ![c].pc = "started", ![c].pid = p]
  /\ UNCHANGED <<kin, record, belay, reap, crashes, past>>

\* Done removes the record of what has ended, or never began.
Done(c) == record' = [record EXCEPT ![c] = NoRecord]

StartFails(c) ==
  /\ At(c, "tracked") /\ To(c, "pc", "idle") /\ Done(c)
  /\ UNCHANGED <<os, belay, reap, crashes, past>>

\* The record is filled in, as far as it can be learnt and written.
Started(c) == LET p == call[c].pid IN
  /\ At(c, "started")
  /\ call' = [call EXCEPT ![c].pc = "waiting", ![c].watcher = "watching"]
  /\ \E written \in {record[c], [pid |-> p, start |-> proc[p].born, kept |-> TRUE],
                     [pid |-> p, start |-> 0, kept |-> TRUE]} :
       /\ record' = [record EXCEPT ![c] = written]
       /\ excused' = IF written.start = 0 THEN excused \cup {proc[p].born} ELSE excused
  /\ UNCHANGED <<os, belay, reap, crashes, wronged>>

\* Wait reaps the process, then waits for its output, at most WaitDelay.
Reaped(c) == LET p == call[c].pid IN
  /\ At(c, "waiting") /\ proc[p].state = "zombie"
  /\ proc' = [proc EXCEPT ![p] = Nobody]
  /\ To(c, "pc", "reaped")
  /\ UNCHANGED <<kin, starts, record, belay, reap, crashes, past>>

WaitEnds(c) ==
  /\ At(c, "reaped") /\ To(c, "pc", "exited")
  /\ UNCHANGED <<os, record, belay, reap, crashes, past>>

\* The deadline passes or the caller gives up, when nothing has yet, or
\* while the process ends of its own.
ContextEnds(c) ==
  /\ Watch(c, "watching") /\ To(c, "watcher", "TERM")
  /\ UNCHANGED <<os, record, belay, reap, crashes, past>>

WatchEnds(c) ==
  /\ Watch(c, "watching") /\ At(c, "exited") /\ To(c, "watcher", "over")
  /\ UNCHANGED <<os, record, belay, reap, crashes, past>>

After(w) == IF w \in {"TERM", "send TERM"} THEN "grace" ELSE "over"

\* signalGroup looks whether the process has exited, and then signals.
signalGroup(c) == LET w == call[c].watcher IN
  /\ w \in {"TERM", "KILL"} /\ belay = "up"
  /\ To(c, "watcher", IF call[c].pc = "exited" THEN After(w)
                      ELSE IF w = "TERM" THEN "send TERM" ELSE "send KILL")
  /\ UNCHANGED <<os, record, belay, reap, crashes, past>>

Signal(c) == LET w == call[c].watcher
                 sig == IF w = "send TERM" THEN "TERM" ELSE "KILL" IN
  /\ w \in {"send TERM", "send KILL"} /\ belay = "up"
  /\ IF HasGroup(call[c].pid) THEN KillGroup(call[c].pid, sig) ELSE KillProcess(call[c].pid, sig)
  /\ To(c, "watcher", After(w))
  /\ UNCHANGED <<starts, record, belay, reap, crashes, past>>

\* The process has been waited for, or the grace period is over.
terminateGroup(c) ==
  /\ Watch(c, "grace")
  /\ \/ To(c, "watcher", "KILL")
     \/ call[c].pc = "exited" /\ To(c, "watcher", "over")
  /\ UNCHANGED <<os, record, belay, reap, crashes, past>>

\* Slip: a process is forgotten as soon as it is told to end.
MayForgetAsked(c) == call[c].pc \in {"waiting", "reaped", "exited"} /\ call[c].watcher = "grace"

MayForget(c) == call[c].pc = "exited" /\ call[c].watcher = "over"

forgetGroup(c) ==
  /\ belay = "up" /\ MayForget(c)
  /\ Done(c) /\ call' = [call EXCEPT ![c] = Idle]
  /\ UNCHANGED <<os, belay, reap, crashes, past>>

Run(c) ==
  \/ Started(c) \/ Reaped(c) \/ WaitEnds(c) \/ WatchEnds(c)
  \/ signalGroup(c) \/ Signal(c) \/ terminateGroup(c) \/ forgetGroup(c)

-----------------------------------------------------------------------------
(***************************************************************************)
(* The death of belay, and Reap.                                           *)
(***************************************************************************)
Die ==
  /\ belay # "down" /\ crashes < MaxCrashes /\ crashes' = crashes + 1
  /\ belay' = "down" /\ reap' = NoReap /\ call' = [c \in Calls |-> Idle]
  /\ proc' = [p \in Pids |-> IF proc[p].by \in Calls THEN [proc[p] EXCEPT !.by = "orphan"] ELSE proc[p]]
  /\ excused' = excused \cup {proc[p].born : p \in {q \in Pids : \E c \in Calls : proc[q].by = c
                                                                 /\ call[c].pc = "started"}}
  /\ UNCHANGED <<kin, starts, record, wronged>>

\* The dispatcher heals the run before it runs another node.
Heal ==
  /\ \/ belay = "down" /\ belay' = "healing"
     \/ belay = "healing" /\ reap = NoReap /\ (\A c \in Calls : ~ record[c].kept) /\ belay' = "up"
  /\ UNCHANGED <<os, record, call, reap, crashes, past>>

\* A record is spent, whatever was done about it.
Spend(c) == Done(c) /\ reap' = NoReap /\ UNCHANGED <<call, belay, crashes>>
Look(s)  == reap' = [reap EXCEPT !.step = s] /\ UNCHANGED <<record, call, belay, crashes>>

\* Slip: a process that holds the pid is the one that was recorded.
SameStartAssumed(rec) == proc[rec.pid] # Nobody

SameStart(rec) == proc[rec.pid].born = rec.start

Named(rec) == rec.pid # NoPid /\ rec.start # 0

\* The process may have ended and its pid have gone to another; the platform
\* may not say.
ReadRecord == \E c \in Calls : LET rec == record[c] IN
  /\ belay = "healing" /\ reap = NoReap /\ rec.kept
  /\ \/ /\ ~ (Named(rec) /\ SameStart(rec))
        /\ Spend(c) /\ UNCHANGED past
     \/ /\ Named(rec) /\ Spend(c) /\ excused' = excused \cup {rec.start} /\ UNCHANGED wronged
     \/ /\ Named(rec) /\ SameStart(rec)
        /\ reap' = [call |-> c, step |-> "group", seen |-> proc[rec.pid].born]
        /\ UNCHANGED <<record, call, belay, crashes, past>>
  /\ UNCHANGED os

Leads(rec) == proc[rec.pid].leads

CheckGroup == LET c == reap.call IN
  /\ reap.step = "group"
  /\ IF Leads(record[c]) THEN Look("program") ELSE Spend(c)
  /\ UNCHANGED <<os, past>>

\* By name alone: an agent rewrites its own arguments.
sameProgram(program) == program = "agent"

CheckProgram == LET c == reap.call IN
  /\ reap.step = "program"
  /\ IF sameProgram(proc[record[c].pid].program) THEN Look("kill") ELSE Spend(c)
  /\ UNCHANGED <<os, past>>

Kill == LET c == reap.call  p == record[c].pid IN
  /\ reap.step = "kill"
  /\ IF HasGroup(p) THEN KillGroup(p, "KILL") ELSE UNCHANGED <<proc, kin>>
  /\ wronged' = (wronged \/ (proc[p].by = "stranger" /\ proc[p].born = reap.seen))
  /\ Spend(c) /\ UNCHANGED <<starts, excused>>

Reap == Heal \/ ReadRecord \/ CheckGroup \/ CheckProgram \/ Kill

Next ==
  \/ \E c \in Calls : Track(c) \/ Start(c) \/ StartFails(c) \/ ContextEnds(c) \/ Run(c) \/ Fork(c)
  \/ \E p \in Pids : Stranger(p) \/ Collected(p)
  \/ Exit \/ Die \/ Reap

Spec == Init /\ [][Next]_vars

-----------------------------------------------------------------------------
(***************************************************************************)
(* Properties.                                                             *)
(***************************************************************************)
\* procgroup.go:16-18: once a belay that died has been followed by one that
\* healed the run, no process of the dead one still leads its group, but
\* for those no complete record was ever kept of.
OrphansAreReaped ==
  belay = "up" =>
    \A p \in Pids : proc[p].by = "orphan" /\ proc[p].state = "runs" => proc[p].born \in excused

\* procgroup.go:55-62: Reap never signals a process belay did not start,
\* though it holds a pid that was recorded, leads a group and runs the same
\* program.
StrangersSpared == ~ wronged

\* internal/procgroup: the belay that follows a dead one kills what that one
\* left running, and nothing that only looks like it.
ReapsItsOwn == OrphansAreReaped /\ StrangersSpared

=============================================================================
