------------------------------ MODULE Cassette ------------------------------
(***************************************************************************)
(* internal/agent/replay: the backend that records a run's conversation    *)
(* with the agent into a cassette, or answers a run from one. belay wraps  *)
(* it round the agent of a run, and hands every candidate a view of it     *)
(* scoped by the candidate's id (internal/cli wire.go).                    *)
(*                                                                         *)
(* Candidates ask side by side. An exchange is recorded when the agent has *)
(* answered, so the order of the tape is that of the answers. The process  *)
(* may be killed, or may pause the run and leave it to a later one.        *)
(***************************************************************************)
EXTENDS Naturals, Sequences, FiniteSets, SequencesExt

CONSTANTS
  Scopes,     \* candidate ids, and the run's own empty scope
  Prompts,    \* requests, as everything but the scope that is hashed
  MaxAsks,    \* bound: requests each scope makes
  MaxEnds,    \* bound: processes that end before their run does
  None        \* no file

VARIABLES
  mode,     \* "record", "replay" or "between": no belay is running
  script,   \* script[s]: what s will ask, in order
  at,       \* at[s]: how many of its requests s has had answered
  flight,   \* flight[s]: the agent is answering s
  given,    \* given[s]: the answers s got while recording, in order
  tape,     \* the cassette in memory: exchanges in the order they ended
  file,     \* the cassette on disk, or None
  cursor,   \* cursor[fp]: answers under fp this process has served
  served,   \* served[s]: what s was served in the replay
  ends      \* processes that have ended before their run did, and how

cassetteVars == <<mode, script, at, flight, given, tape, file, cursor, served, ends>>

Missing == [answer |-> 0, failed |-> TRUE]

\* Slip: the digest of the request by itself.
FingerprintUnscoped(s, prompt) == <<prompt, "">>

\* Normalize and Fingerprint: the same wherever and whenever it is computed,
\* and qualified by the scope alone.
Fingerprint(s, prompt) == <<prompt, s>>

Fingerprints == {Fingerprint(s, p) : s \in Scopes, p \in Prompts}
Asked(s) == Fingerprint(s, script[s][at[s] + 1])

\* An agent's error ends what its scope was doing.
Gave(s, log) == \E i \in DOMAIN log[s] : log[s][i].failed
Asking(s, log) == at[s] < Len(script[s]) /\ ~Gave(s, log)

\* Replay's index: where the n-th of what was recorded under fp is, if there
\* are as many.
RecordedBy(fp, i) == {k \in 1..i : file[k].fp = fp}
Recorded(fp, n) ==
  {i \in 1..Len(file) : file[i].fp = fp /\ Cardinality(RecordedBy(fp, i)) = n}

CassetteInit ==
  /\ mode = "record"
  /\ script \in [Scopes -> SeqOf(Prompts, MaxAsks)]
  /\ at = [s \in Scopes |-> 0]
  /\ flight = [s \in Scopes |-> FALSE]
  /\ given = [s \in Scopes |-> <<>>]
  /\ tape = <<>> /\ file = None
  /\ cursor = [fp \in Fingerprints |-> 0]
  /\ served = [s \in Scopes |-> <<>>]
  /\ ends = [paused |-> 0, killed |-> 0, replay |-> 0]

----------------------------------------------------------------------------
(* Recording *)

Ask(s) ==
  /\ mode = "record" /\ ~flight[s] /\ Asking(s, given)
  /\ flight' = [flight EXCEPT ![s] = TRUE]
  /\ UNCHANGED <<mode, script, at, given, tape, file, cursor, served, ends>>

\* recordInvoke once the agent is back, with an answer no other call got, or
\* with an error.
Answered(s) ==
  /\ mode = "record" /\ flight[s]
  /\ \E failed \in BOOLEAN :
       LET said == [answer |-> Cardinality(UNION {{<<c, i>> : i \in DOMAIN given[c]}
                                                  : c \in Scopes}) + 1,
                    failed |-> failed]
       IN  /\ tape' = Append(tape, [fp |-> Asked(s), said |-> said])
           /\ given' = [given EXCEPT ![s] = Append(@, said)]
           /\ at' = [at EXCEPT ![s] = @ + 1]
  /\ flight' = [flight EXCEPT ![s] = FALSE]
  /\ UNCHANGED <<mode, script, file, cursor, served, ends>>

MayEnd == ends.paused + ends.killed + ends.replay < MaxEnds
Over(log) == \A s \in Scopes : ~flight[s] /\ ~Asking(s, log)

\* afterCompletion: saveCassette writes the whole tape over what the path
\* held. The run may be over, or paused and left to another process.
Save ==
  /\ mode = "record" /\ \A s \in Scopes : ~flight[s]
  /\ Over(given) \/ MayEnd
  /\ ends' = IF Over(given) THEN ends ELSE [ends EXCEPT !.paused = @ + 1]
  /\ file' = tape
  /\ mode' = "between"
  /\ UNCHANGED <<script, at, flight, given, tape, cursor, served>>

\* belay is killed: the tape was only in memory, and the agent's answers to
\* the calls in flight go nowhere.
Killed ==
  /\ mode \in {"record", "replay"} /\ MayEnd
  /\ ends' = IF mode = "replay" THEN [ends EXCEPT !.replay = @ + 1]
                               ELSE [ends EXCEPT !.killed = @ + 1]
  /\ mode' = "between"
  /\ flight' = [s \in Scopes |-> FALSE]
  /\ UNCHANGED <<script, at, given, tape, file, cursor, served>>

\* belay resume of a recording run: replay.New makes an empty cassette.
ResumeRecording ==
  /\ mode = "between" /\ ends.replay = 0 /\ served = [s \in Scopes |-> <<>>]
  /\ \E s \in Scopes : Asking(s, given)
  /\ mode' = "record"
  /\ tape' = <<>>
  /\ UNCHANGED <<script, at, flight, given, file, cursor, served, ends>>

----------------------------------------------------------------------------
(* Replaying *)

\* A run that answers from the file, from its own beginning.
StartReplay ==
  /\ mode = "between" /\ file # None /\ ends.replay = 0 /\ served = [s \in Scopes |-> <<>>]
  /\ mode' = "replay"
  /\ at' = [s \in Scopes |-> 0]
  /\ cursor' = [fp \in Fingerprints |-> 0]
  /\ UNCHANGED <<script, flight, given, tape, file, served, ends>>

\* replayInvoke, under the lock: the next of what was recorded, or an error
\* that says there is none, and never a call of the agent.
ReplayInvoke(s) ==
  /\ mode = "replay" /\ Asking(s, served)
  /\ LET fp == Asked(s)
         n == cursor[fp] + 1
         found == Recorded(fp, n) # {}
         said  == file[CHOOSE i \in Recorded(fp, n) : TRUE].said
     IN  /\ cursor' = IF found THEN [cursor EXCEPT ![fp] = n] ELSE cursor
         /\ served' = [served EXCEPT ![s] = Append(@, IF found THEN said ELSE Missing)]
  /\ at' = [at EXCEPT ![s] = @ + 1]
  /\ UNCHANGED <<mode, script, flight, given, tape, file, ends>>

\* belay resume of a replayed run: it goes on where the run had got to, with
\* a backend that has served nothing yet.
ResumeReplay ==
  /\ mode = "between" /\ ends.replay > 0
  /\ mode' = "replay"
  /\ cursor' = [fp \in Fingerprints |-> 0]
  /\ UNCHANGED <<script, at, flight, given, tape, file, served, ends>>

CassetteNext ==
  \/ Save \/ Killed \/ ResumeRecording \/ StartReplay \/ ResumeReplay
  \/ \E s \in Scopes : Ask(s) \/ Answered(s) \/ ReplayInvoke(s)

CassetteSpec == CassetteInit /\ [][CassetteNext]_cassetteVars

----------------------------------------------------------------------------
(* What a replay is *)

\* A run that was recorded whole, by one process, replays as it went: each
\* candidate is served its own answers and errors, each in its own order,
\* whatever order the candidates answered in then and ask in now. A replay
\* that is stopped and resumed does so too, unless a candidate asks the same
\* thing twice: a new process counts from one again (replay.go and scope.go
\* of internal/agent/replay).
ReplayIsTheRecording ==
  /\ ends.paused + ends.killed = 0
  /\ ends.replay > 0 => \A s \in Scopes : IsInjective(script[s])
  => \A s \in Scopes : IsPrefix(served[s], given[s])

=============================================================================
