----------------------------- MODULE Candidates -----------------------------
(***************************************************************************)
(* The runs a fanout node supervises (internal/graph/children.go), and the *)
(* join that chooses between them.  A fanout attempt claims a run for each *)
(* candidate, makes their workspaces and resumes their dispatchers side by *)
(* side in a small pool; a later attempt adopts whatever an earlier one    *)
(* left.  The parent may be cancelled or die anywhere.                     *)
(*                                                                         *)
(* A candidate's own dispatcher is module Dispatcher; here it is the steps *)
(* it takes, what they cost and how they end.                              *)
(***************************************************************************)
EXTENDS Ledger, FiniteSets, FiniteSetsExt

CONSTANTS
  N,            \* fanout.candidates, pinned by the run
  Concurrency,  \* fanout.concurrency
  Ceilings,     \* what budget.max_usd may be at each attempt; 0 is unset
  Spent,        \* what the parent had spent when it reached fanout
  StepCosts,    \* what a candidate's step may cost
  Floor,        \* the parent's costliest step: what a killed step is charged
  WorkSteps,    \* steps in which a candidate reaches its end
  Endings,      \* how a candidate may end: its run, its tests, its findings
  Strategy,     \* fanout.select
  MaxAttempts   \* bound: attempts of the fanout node

ASSUME CandidatesAssumption ==
  /\ "fanout" \in Names
  /\ N \in Nat \ {0, 1}
  /\ Concurrency \in Nat
  /\ Ceilings \subseteq Nat
  /\ Spent \in Nat /\ Floor \in Nat
  /\ StepCosts \subseteq Nat
  /\ \E s \in StepCosts \cup {Floor} : \A t \in StepCosts \cup {Floor} : t <= s
  /\ WorkSteps \in Nat \ {0}
  /\ Endings \subseteq [run: {"completed", "failed", "aborted"}, passed: BOOLEAN,
                        issues: Nat, violations: Nat]
  /\ Strategy \in {"fewest_issues", "first_pass", "fastest"}
  /\ MaxAttempts \in Nat

Cands == 1 .. N

VARIABLES
  disk,     \* each candidate's run directory and workspace
  proc,     \* the attempt of the fanout node
  job,      \* what a worker of its pool does with each candidate
  out,      \* what it will report of each
  ledger,   \* the parent's spend
  result,   \* the last result the parent was given
  ceilings  \* history: the ceilings envelopes were divided from

vars == <<disk, proc, job, out, ledger, result, ceilings>>

(***************************************************************************)
(* A candidate on disk.  dir is torn until the manifest, written last,     *)
(* makes it a run.  run is its journal's state, "open" with a step under   *)
(* way; tree is how many steps' work the workspace holds.                  *)
(***************************************************************************)
Ends      == {"completed", "failed", "aborted"}
RunKinds  == {"new", "ready", "open", "paused"} \cup Ends
Candidate == [dir: {"none", "torn", "run"}, envelope: Nat,
              provision: {"pending", "ok", "refused"},
              ws: {"none", "partial", "whole"}, tree: Nat,
              run: RunKinds, steps: Nat, spent: Nat,
              passed: BOOLEAN, issues: Nat, violations: Nat]

Unclaimed == [dir |-> "none", envelope |-> 0, provision |-> "pending",
              ws |-> "none", tree |-> 0, run |-> "new", steps |-> 0, spent |-> 0,
              passed |-> FALSE, issues |-> 0, violations |-> 0]

Down == [pc |-> "down", envelope |-> 0, canceled |-> FALSE, next |-> 1,
         adopted |-> {}, verdict |-> "none", attempts |-> 0]

NoResult == [verdict |-> "none", candidates |-> <<>>]

Fanout == "fanout"   \* the name the parent's ledger knows the node by

Init ==
  /\ disk = [c \in Cands |-> Unclaimed]
  /\ proc = Down
  /\ job = [c \in Cands |-> "none"]
  /\ out = [c \in Cands |-> "none"]
  /\ ledger = [NewLedger EXCEPT !.total = Spent, !.largest = Floor]
  /\ result = NoResult
  /\ ceilings = {}

Sum(f) == LET upTo[c \in 0 .. N] == IF c = 0 THEN 0 ELSE upTo[c - 1] + f[c]
          IN  upTo[N]

(***************************************************************************)
(* Node.Run up to the claims: Claimed, the pre-check of what N candidates  *)
(* would cost, and the share of what is left, which every candidate gets.  *)
(***************************************************************************)
Claimed == \E c \in Cands : disk[c].dir = "run"

CanAfford(l, ceiling) == ceiling = 0 \/ l.total + N * l.total <= ceiling

\* Zero when there is nothing to share, and no envelope is made of it.
Partition(spent, ceiling) == IF ceiling <= spent THEN 0 ELSE (ceiling - spent) \div N

\* A refusal is one of belay's limits: the parent pauses, and a person raises
\* budget.max_usd.
Begin(ceiling) ==
  LET before == Without(ledger, Fanout)
      share  == Partition(before.total, ceiling)
      runs   == (Claimed \/ CanAfford(before, ceiling)) /\ share > 0
  IN  /\ proc.pc = "down" /\ proc.attempts < MaxAttempts
      /\ result.verdict # "settled"
      /\ proc' = [Down EXCEPT !.attempts = proc.attempts + 1,
                              !.pc = IF runs THEN "claim" ELSE "return",
                              !.envelope = share,
                              !.verdict = IF runs THEN "none" ELSE "limit"]
      /\ ceilings' = IF runs THEN ceilings \cup {ceiling} ELSE ceilings
      /\ UNCHANGED <<disk, job, out, ledger, result>>

(***************************************************************************)
(* The claims, in order, before anything runs.                             *)
(***************************************************************************)
\* Slip: an adopted envelope is topped up by the new share.
raiseEnvelopeAdds(persisted, share) == persisted + share

raiseEnvelope(persisted, share) ==
  IF persisted > 0 /\ share > 0 THEN larger(persisted, share) ELSE 0

claim(c) == proc.pc = "claim" /\ proc.next = c

ClaimNext == proc' = [proc EXCEPT !.pc = "claim", !.next = @ + 1]

\* A directory without a manifest is a claim that was cut short: it is
\* removed and begun again.
removeTornClaim(c) ==
  /\ claim(c) /\ disk[c].dir = "torn"
  /\ disk' = [disk EXCEPT ![c].dir = "none"]
  /\ UNCHANGED <<proc, job, out, ledger, result, ceilings>>

claimFresh(c) ==
  /\ claim(c) /\ disk[c].dir = "none"
  /\ disk' = [disk EXCEPT ![c].dir = "torn"]
  /\ proc' = [proc EXCEPT !.pc = "claiming"]
  /\ UNCHANGED <<job, out, ledger, result, ceilings>>

SaveClaim(c) ==
  /\ proc.pc = "claiming" /\ proc.next = c
  /\ disk' = [disk EXCEPT ![c].dir = "run", ![c].envelope = proc.envelope]
  /\ ClaimNext
  /\ UNCHANGED <<job, out, ledger, result, ceilings>>

adopt(c) ==
  /\ claim(c) /\ disk[c].dir = "run"
  /\ disk' = [disk EXCEPT ![c].envelope = raiseEnvelope(@, proc.envelope)]
  /\ proc' = [proc EXCEPT !.next = @ + 1, !.adopted = @ \cup {c}]
  /\ UNCHANGED <<job, out, ledger, result, ceilings>>

\* A read or a write that fails, a directory that holds what no run does.
ClaimFails(c) ==
  /\ proc.pc \in {"claim", "claiming"} /\ proc.next = c
  /\ out' = [out EXCEPT ![c] = "error"]
  /\ ClaimNext
  /\ UNCHANGED <<disk, job, ledger, result, ceilings>>

AllClaimed ==
  /\ proc.pc = "claim" /\ proc.next > N
  /\ proc' = [proc EXCEPT !.pc = IF \E c \in Cands : out[c] = "error"
                                   THEN "return" ELSE "drive",
                          !.verdict = "paused", !.next = 1]
  /\ UNCHANGED <<disk, job, out, ledger, result, ceilings>>

(***************************************************************************)
(* drive: a pool of workers, fed in index order, until the context ends.   *)
(***************************************************************************)
Busy == {c \in Cands : job[c] \notin {"none", "done"}}
pool == IF Concurrency > N THEN N ELSE larger(Concurrency, 1)

\* Slip: what a candidate was given before is made again.
oneAlwaysMakes(c) ==
  /\ proc.pc = "drive" /\ proc.next = c /\ ~ proc.canceled
  /\ Cardinality(Busy) < pool
  /\ proc' = [proc EXCEPT !.next = @ + 1]
  /\ job' = [job EXCEPT ![c] = IF c \in proc.adopted THEN "reclaim" ELSE "create"]
  /\ UNCHANGED <<disk, out, ledger, result, ceilings>>

\* A refusal stands; a workspace that was recorded is the one to go on in;
\* anything a half-made one left is cleared away first.
one(c) ==
  /\ proc.pc = "drive" /\ proc.next = c /\ ~ proc.canceled
  /\ Cardinality(Busy) < pool
  /\ proc' = [proc EXCEPT !.next = @ + 1]
  /\ job' = [job EXCEPT ![c] = IF disk[c].provision = "refused" THEN "done"
                                 ELSE IF disk[c].provision = "ok" THEN "resume"
                                 ELSE IF c \in proc.adopted THEN "reclaim" ELSE "create"]
  /\ out' = IF disk[c].provision = "refused" THEN [out EXCEPT ![c] = "refused"] ELSE out
  /\ UNCHANGED <<disk, ledger, result, ceilings>>

\* The end of a worker's turn with c.
Finish(c, o) == /\ job' = [job EXCEPT ![c] = "done"]
                /\ out' = [out EXCEPT ![c] = o]

ToDo(c, next) == job' = [job EXCEPT ![c] = next] /\ UNCHANGED out

Reclaim(c) ==
  /\ job[c] = "reclaim"
  /\ disk' = [disk EXCEPT ![c].ws = "none", ![c].tree = 0]
  /\ ToDo(c, "create")
  /\ UNCHANGED <<proc, ledger, result, ceilings>>

BeginWorkspace(c) ==
  /\ job[c] = "create" /\ disk[c].ws = "none"
  /\ disk' = [disk EXCEPT ![c].ws = "partial"]
  /\ UNCHANGED <<proc, job, out, ledger, result, ceilings>>

makeWorkspace(c) ==
  /\ job[c] = "create" /\ disk[c].ws = "partial"
  /\ disk' = [disk EXCEPT ![c].ws = "whole"]
  /\ ToDo(c, "record")
  /\ UNCHANGED <<proc, ledger, result, ceilings>>

\* A source the isolator cannot copy at all is refused for good.
refuse(c) ==
  /\ job[c] = "create" /\ disk[c].ws = "none"
  /\ disk' = [disk EXCEPT ![c].provision = "refused"]
  /\ Finish(c, "refused")
  /\ UNCHANGED <<proc, ledger, result, ceilings>>

RecordWorkspace(c) ==
  /\ job[c] = "record"
  /\ disk' = [disk EXCEPT ![c].provision = "ok"]
  /\ ToDo(c, "resume")
  /\ UNCHANGED <<proc, ledger, result, ceilings>>

\* Any of it may fail, or panic, which leaves what is there as it is.
WorkerFails(c) ==
  /\ c \in Busy
  /\ Finish(c, "error")
  /\ UNCHANGED <<disk, proc, ledger, result, ceilings>>

(***************************************************************************)
(* resume: the candidate's own dispatcher, under its envelope.             *)
(***************************************************************************)
\* heal: a step a dead process left open is closed, and charged the floor.
ChildHeals(c) ==
  /\ job[c] = "resume"
  /\ disk' = IF disk[c].run = "open"
               THEN [disk EXCEPT ![c].run = "ready", ![c].spent = @ + Floor]
               ELSE disk
  /\ IF disk[c].run \in Ends THEN Finish(c, "ended") ELSE ToDo(c, "loop")
  /\ UNCHANGED <<proc, ledger, result, ceilings>>

OverEnvelope(c) == disk[c].envelope > 0 /\ disk[c].spent > disk[c].envelope

ChildStops(c) ==
  /\ job[c] = "loop" /\ (OverEnvelope(c) \/ proc.canceled)
  /\ disk' = [disk EXCEPT ![c].run = "paused"]
  /\ Finish(c, IF OverEnvelope(c) THEN "limit" ELSE "paused")
  /\ UNCHANGED <<proc, ledger, result, ceilings>>

ChildStarts(c) ==
  /\ job[c] = "loop" /\ ~ OverEnvelope(c) /\ ~ proc.canceled
  /\ disk' = [disk EXCEPT ![c].run = "open"]
  /\ ToDo(c, "step")
  /\ UNCHANGED <<proc, ledger, result, ceilings>>

\* A step that goes on, or that ends the run one way or another.  WorkSteps
\* caps how many a candidate takes.
ChildSteps(c, cost) ==
  /\ job[c] = "step" /\ ~ proc.canceled
  /\ disk[c].steps + 1 < WorkSteps
  /\ disk' = [disk EXCEPT ![c].run = "ready", ![c].spent = @ + cost,
                          ![c].steps = @ + 1, ![c].tree = @ + 1]
  /\ ToDo(c, "loop")
  /\ UNCHANGED <<proc, ledger, result, ceilings>>

ChildEnds(c, cost) ==
  /\ job[c] = "step" /\ ~ proc.canceled
  /\ \E end \in Endings :
       disk' = [disk EXCEPT ![c].run = end.run, ![c].spent = @ + cost,
                            ![c].steps = @ + 1, ![c].tree = @ + 1,
                            ![c].passed = end.passed, ![c].issues = end.issues,
                            ![c].violations = end.violations]
  /\ Finish(c, "ended")
  /\ UNCHANGED <<proc, ledger, result, ceilings>>

\* The step is cut short with the parent's context, and charged.
ChildCutShort(c) ==
  /\ job[c] = "step" /\ proc.canceled
  /\ disk' = [disk EXCEPT ![c].run = "paused", ![c].spent = @ + Floor]
  /\ Finish(c, "paused")
  /\ UNCHANGED <<proc, ledger, result, ceilings>>

(***************************************************************************)
(* Node.Run's end.  The usage is a running total, of the candidates whose  *)
(* journals this attempt read.                                             *)
(***************************************************************************)
\* Slip: the feeder waits for a worker after the workers have gone.
DrainedWhenFed == proc.pc = "drive" /\ Busy = {} /\ proc.next > N

Drained == /\ proc.pc = "drive" /\ Busy = {}
           /\ proc.next > N \/ proc.canceled

\* Slip: a candidate that failed to run is taken for one that ended.
VerdictOnEnds ==
  IF proc.canceled THEN "canceled"
  ELSE IF \E c \in Cands : out[c] = "limit" THEN "limit"
  ELSE "settled"

Verdict ==
  IF proc.canceled THEN "canceled"
  ELSE IF \E c \in Cands : out[c] = "limit" THEN "limit"
  ELSE IF \E c \in Cands : out[c] \in {"error", "paused"} THEN "paused"
  ELSE "settled"

Return ==
  /\ Drained
  /\ proc' = [proc EXCEPT !.pc = "return", !.verdict = Verdict]
  /\ UNCHANGED <<disk, job, out, ledger, result, ceilings>>

spentBy == Sum([c \in Cands |-> IF out[c] \in {"limit", "paused", "ended"}
                                  THEN disk[c].spent ELSE 0])

\* What the blackboard keeps of a candidate.
asCandidate(c) == [id |-> c, passed |-> disk[c].passed, issues |-> disk[c].issues,
                   violations |-> disk[c].violations, duration |-> disk[c].steps,
                   outcome |-> IF disk[c].provision = "refused" THEN "error"
                                                                ELSE disk[c].run]

\* Slip: the total is charged as if it were all new.
ChargedInFull == RecordSum(ledger, Fanout, spentBy)

Charged == RecordSum(ledger, Fanout, Unrecorded(ledger, Fanout, spentBy))

\* The parent's dispatcher settles the attempt.
SettleAttempt ==
  /\ proc.pc = "return"
  /\ ledger' = Charged
  /\ result' = [verdict |-> proc.verdict,
                candidates |-> IF proc.verdict = "settled"
                                 THEN [c \in Cands |-> asCandidate(c)] ELSE <<>>]
  /\ proc' = [Down EXCEPT !.attempts = proc.attempts]
  /\ job' = [c \in Cands |-> "none"] /\ out' = [c \in Cands |-> "none"]
  /\ UNCHANGED <<disk, ceilings>>

Cancel ==
  /\ proc.pc = "drive" /\ ~ proc.canceled
  /\ proc' = [proc EXCEPT !.canceled = TRUE]
  /\ UNCHANGED <<disk, job, out, ledger, result, ceilings>>

\* The parent's process dies.  The journal replays what it had charged.
Crash ==
  /\ proc.pc # "down"
  /\ proc' = [Down EXCEPT !.attempts = proc.attempts]
  /\ job' = [c \in Cands |-> "none"] /\ out' = [c \in Cands |-> "none"]
  /\ UNCHANGED <<disk, ledger, result, ceilings>>

Advance ==
  \/ \E c \in Cands :
       \/ removeTornClaim(c) \/ claimFresh(c) \/ SaveClaim(c) \/ adopt(c)
       \/ one(c) \/ Reclaim(c) \/ BeginWorkspace(c) \/ makeWorkspace(c)
       \/ RecordWorkspace(c) \/ ChildHeals(c) \/ ChildStops(c) \/ ChildStarts(c)
       \/ ChildCutShort(c)
       \/ \E cost \in StepCosts : ChildSteps(c, cost) \/ ChildEnds(c, cost)
  \/ AllClaimed \/ Return \/ SettleAttempt

Next ==
  \/ \E ceiling \in Ceilings : Begin(ceiling)
  \/ Advance
  \/ \E c \in Cands : ClaimFails(c) \/ WorkerFails(c) \/ refuse(c)
  \/ Cancel \/ Crash

Spec == Init /\ [][Next]_vars /\ WF_vars(Advance)

-----------------------------------------------------------------------------
(***************************************************************************)
(* join.                                                                   *)
(***************************************************************************)
eligible(c) == c.passed /\ c.outcome = "completed" /\ c.violations = 0

Best(offered, measure) ==
  CHOOSE c \in offered : \A d \in offered :
    \/ measure[c] < measure[d]
    \/ measure[c] = measure[d] /\ c.id <= d.id

firstInOrder(offered) == Best(offered, [c \in offered |-> 0])

fastest(offered) == IF \A c \in offered : c.duration > 0
                      THEN Best(offered, [c \in offered |-> c.duration])
                      ELSE firstInOrder(offered)

\* The winner's id, or 0 when none is eligible and the run fails.
Select(candidates) ==
  LET offered == {candidates[c] : c \in {d \in Cands : eligible(candidates[d])}}
  IN  IF offered = {} THEN 0
      ELSE CASE Strategy = "fewest_issues" -> Best(offered, [c \in offered |-> c.issues]).id
             [] Strategy = "first_pass"    -> firstInOrder(offered).id
             [] Strategy = "fastest"       -> fastest(offered).id

-----------------------------------------------------------------------------
(***************************************************************************)
(* Properties.                                                             *)
(***************************************************************************)
\* The envelopes together never exceed what the highest ceiling an attempt
\* ran under had left, however often candidates are adopted and ceilings
\* move; and no candidate outspends its own by more than the one step that
\* crosses it, killed steps included.
EnvelopesHold ==
  /\ ceilings # {} =>
       Sum([c \in Cands |-> disk[c].envelope]) <= Max(ceilings) - Spent
  /\ \A c \in Cands :
       disk[c].spent > 0 => disk[c].spent <= disk[c].envelope + Max(StepCosts \cup {Floor})

\* A workspace that holds paid work is never cleared or made again: what an
\* attempt finds of a candidate that has started is kept.
PaidWorkKept ==
  \A c \in Cands : /\ disk[c].tree = disk[c].steps
                   /\ disk[c].run # "new" => disk[c].ws = "whole"

\* What the parent is charged for its candidates never exceeds what they
\* spent, and is all of it once fanout has settled.
CountedOnce ==
  LET spent == Sum([c \in Cands |-> disk[c].spent])
  IN  /\ ledger.of[Fanout] <= spent
      /\ result.verdict = "settled" => ledger.of[Fanout] = spent

\* A settled fanout rests on ended runs: the candidate join picks completed
\* its run, has its workspace, and would be picked again if the parent died
\* and asked again.
WinnerStands ==
  result.verdict = "settled" =>
    LET winner == Select(result.candidates)
    IN  /\ \A c \in Cands : disk[c].run \in Ends \/ disk[c].provision = "refused"
        /\ result.candidates = [c \in Cands |-> asCandidate(c)]
        /\ winner # 0 => /\ disk[winner].run = "completed"
                         /\ disk[winner].provision = "ok" /\ disk[winner].ws = "whole"

\* What candidates are let spend is what the parent's ceiling has left, and
\* what the parent is charged for them is what they spent, once.
MoneyHolds == EnvelopesHold /\ CountedOnce

\* No attempt of fanout clears work that was paid for, and join picks of ended
\* runs only.
CandidatesKept == PaidWorkKept /\ WinnerStands

\* The pool drains: every attempt of the fanout node ends, whichever of its
\* workers fail, stop at a limit or are cut short.
AttemptEnds == (proc.pc # "down") ~> (proc.pc = "down")

=============================================================================
