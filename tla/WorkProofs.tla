----------------------------- MODULE WorkProofs -----------------------------
(***************************************************************************)
(* What the work of a run promises, alone or fanned out.                   *)
(*                                                                         *)
(* Fanout, whatever it is cut short in: the money its candidates are let   *)
(* spend and the parent is charged, the work they have done, and the       *)
(* winner join picks, for any number of candidates and workers, ceilings,  *)
(* costs, ways to end and attempts.                                        *)
(*                                                                         *)
(* The loop of work, gates and repair, for every set of files, policy,     *)
(* give-up, threshold and wiring of the nodes.                             *)
(***************************************************************************)
EXTENDS Candidates, WorkLoop, JournalProofs

MaxCost == Max(StepCosts \cup {Floor})

LEMMA MaxCostIsMax ==
  ASSUME CandidatesAssumption
  PROVE  /\ MaxCost \in Nat /\ Floor <= MaxCost
         /\ \A s \in StepCosts : s <= MaxCost
<1> DEFINE S == StepCosts \cup {Floor}
<1>1. PICK m \in S : \A t \in S : t <= m
  BY DEF CandidatesAssumption
<1>2. S \subseteq Nat
  BY DEF CandidatesAssumption
<1>3. \E x \in S : \A y \in S : x >= y
  BY <1>1, <1>2
<1>4. MaxCost \in S /\ \A y \in S : MaxCost >= y
  BY <1>3 DEF MaxCost, Max
<1>5. QED
  BY <1>2, <1>4

-----------------------------------------------------------------------------
(***************************************************************************)
(* Sums over the candidates.                                               *)
(***************************************************************************)
SumUpTo(s, f) == s = [c \in 0 .. N |-> IF c = 0 THEN 0 ELSE s[c - 1] + f[c]]

LEMMA SumExists ==
  ASSUME N \in Nat, NEW f
  PROVE  \E s : SumUpTo(s, f) /\ Sum(f) = s[N]
<1> DEFINE To(s, n) == s = [c \in 0 .. n |-> IF c = 0 THEN 0 ELSE s[c - 1] + f[c]]
           D == {n \in Nat : ~ \E s : To(s, n)}
<1>1. D = {}
  <2> SUFFICES ASSUME D # {} PROVE FALSE
    OBVIOUS
  <2>1. PICK n \in D : \A k \in D : n <= k
    BY LeastOfASet
  <2>2. CASE n = 0
    <3>1. To([c \in 0 .. 0 |-> 0], 0)
      OBVIOUS
    <3>2. QED
      BY <2>1, <2>2, <3>1
  <2>3. CASE n # 0
    <3>1. n - 1 \in Nat /\ n - 1 \notin D
      BY <2>1, <2>3
    <3>2. PICK s : To(s, n - 1)
      BY <3>1
    <3> DEFINE t == [c \in 0 .. n |-> IF c = n THEN s[n - 1] + f[n] ELSE s[c]]
    <3>3. \A c \in 0 .. n : t[c] = IF c = 0 THEN 0 ELSE t[c - 1] + f[c]
      <4> SUFFICES ASSUME NEW c \in 0 .. n
                   PROVE  t[c] = IF c = 0 THEN 0 ELSE t[c - 1] + f[c]
        OBVIOUS
      <4>1. CASE c = n
        BY <2>1, <2>3, <4>1
      <4>2. CASE c # n
        <5>1. c \in 0 .. n - 1 /\ t[c] = s[c] /\ (c # 0 => t[c - 1] = s[c - 1])
          BY <2>1, <4>2
        <5>2. s[c] = IF c = 0 THEN 0 ELSE s[c - 1] + f[c]
          BY <3>2, <5>1
        <5>3. QED
          BY <5>1, <5>2
      <4>3. QED
        BY <4>1, <4>2
    <3>4. To(t, n)
      <4>1. t = [c \in 0 .. n |-> t[c]]
        OBVIOUS
      <4> HIDE DEF t
      <4>2. QED
        BY <3>3, <4>1
    <3>5. QED
      BY <2>1, <3>4
  <2>4. QED
    BY <2>2, <2>3
<1>2. \E s : SumUpTo(s, f)
  BY <1>1 DEF SumUpTo
<1>3. QED
  BY <1>2 DEF Sum, SumUpTo

Amounts == [Cands -> Nat]

\* Lists of amounts that compare one by one compare in sum.
LEMMA SumMonotone ==
  ASSUME N \in Nat, NEW f \in Amounts, NEW g \in Amounts, \A c \in Cands : f[c] <= g[c]
  PROVE  Sum(f) \in Nat /\ Sum(g) \in Nat /\ Sum(f) <= Sum(g)
<1>1. PICK s : SumUpTo(s, f) /\ Sum(f) = s[N]
  BY SumExists
<1>2. PICK t : SumUpTo(t, g) /\ Sum(g) = t[N]
  BY SumExists
<1> DEFINE D == {c \in 0 .. N : ~ (s[c] \in Nat /\ t[c] \in Nat /\ s[c] <= t[c])}
<1>3. D = {}
  <2> SUFFICES ASSUME D # {} PROVE FALSE
    OBVIOUS
  <2>1. PICK n \in D : \A k \in D : n <= k
    <3>1. D \in SUBSET Nat
      OBVIOUS
    <3>2. QED
      BY <3>1, LeastOfASet
  <2>2. s[0] = 0 /\ t[0] = 0
    BY <1>1, <1>2 DEF SumUpTo
  <2>3. n # 0 /\ n \in Cands /\ n - 1 \in 0 .. N
    BY <2>1, <2>2 DEF Cands
  <2>4. s[n - 1] \in Nat /\ t[n - 1] \in Nat /\ s[n - 1] <= t[n - 1]
    BY <2>1, <2>3
  <2>5. s[n] = s[n - 1] + f[n] /\ t[n] = t[n - 1] + g[n]
    BY <1>1, <1>2, <2>3 DEF SumUpTo
  <2>6. f[n] \in Nat /\ g[n] \in Nat /\ f[n] <= g[n]
    BY <2>3 DEF Amounts
  <2>7. QED
    BY <2>1, <2>4, <2>5, <2>6
<1>4. QED
  BY <1>1, <1>2, <1>3

LEMMA SumIsNat ==
  ASSUME N \in Nat, NEW f \in Amounts
  PROVE  Sum(f) \in Nat
<1>1. \A c \in Cands : f[c] <= f[c]
  BY DEF Amounts
<1>2. QED
  BY <1>1, SumMonotone

\* N amounts of at most b each.
LEMMA SumBounded ==
  ASSUME N \in Nat, NEW b \in Nat, NEW f \in Amounts, \A c \in Cands : f[c] <= b
  PROVE  Sum(f) <= N * b
<1>1. PICK s : SumUpTo(s, f) /\ Sum(f) = s[N]
  BY SumExists
<1> DEFINE D == {c \in 0 .. N : ~ (s[c] \in Nat /\ s[c] <= c * b)}
<1>2. D = {}
  <2> SUFFICES ASSUME D # {} PROVE FALSE
    OBVIOUS
  <2>1. PICK n \in D : \A k \in D : n <= k
    <3>1. D \in SUBSET Nat
      OBVIOUS
    <3>2. QED
      BY <3>1, LeastOfASet
  <2>2. s[0] = 0
    BY <1>1 DEF SumUpTo
  <2>3. n # 0 /\ n \in Cands /\ n - 1 \in 0 .. N
    BY <2>1, <2>2 DEF Cands
  <2>4. s[n - 1] \in Nat /\ s[n - 1] <= (n - 1) * b
    BY <2>1, <2>3
  <2>5. s[n] = s[n - 1] + f[n]
    BY <1>1, <2>3 DEF SumUpTo
  <2>6. f[n] \in Nat /\ f[n] <= b
    BY <2>3 DEF Amounts
  <2>7. n * b = (n - 1) * b + b /\ (n - 1) * b \in Nat
    BY <2>1, <2>3
  <2>8. QED
    BY <2>1, <2>4, <2>5, <2>6, <2>7
<1>3. QED
  BY <1>1, <1>2

\* What is left of the ceiling is divided into N shares that fit it.
LEMMA SharesFit ==
  ASSUME N \in Nat \ {0}, NEW spent \in Nat, NEW a \in Nat, NEW b \in Nat, a <= b
  PROVE  /\ Partition(spent, a) \in Nat
         /\ Partition(spent, a) <= Partition(spent, b)
         /\ spent <= a => N * Partition(spent, a) <= a - spent
         /\ Partition(spent, a) > 0 => spent <= a
<1>1. \A x \in Nat : x \div N \in Nat /\ N * (x \div N) <= x
  OBVIOUS
<1>2. \A x, y \in Nat : x <= y => x \div N <= y \div N
  OBVIOUS
<1>3. QED
  BY <1>1, <1>2 DEF Partition

LEMMA ShareOf ==
  ASSUME N \in Nat \ {0}, NEW spent \in Nat, NEW a \in Nat
  PROVE  /\ Partition(spent, a) \in Nat
         /\ spent <= a => N * Partition(spent, a) <= a - spent
         /\ Partition(spent, a) > 0 => spent <= a
<1>1. a <= a
  OBVIOUS
<1>2. QED
  BY <1>1, SharesFit

-----------------------------------------------------------------------------
(***************************************************************************)
(* The invariant.                                                          *)
(***************************************************************************)
Jobs == {"none", "reclaim", "create", "record", "resume", "loop", "step", "done"}
Outs == {"none", "error", "refused", "ended", "limit", "paused"}

\* A candidate on disk, what a worker is doing with it, and what it will
\* report: nothing runs in a workspace that is not recorded as made, and
\* nothing is spent before.
CandidateInv(d, j, o) ==
  /\ d \in Candidate /\ j \in Jobs /\ o \in Outs
  /\ d.dir = "run" => d.envelope > 0
  /\ d.dir # "run" => d.envelope = 0 /\ d.provision = "pending" /\ j = "none" /\ o \in {"none", "error"}
  /\ d.provision # "ok" => d.run = "new"
  /\ d.provision = "ok" => d.ws = "whole"
  /\ d.run = "new" => d.steps = 0 /\ d.spent = 0
  /\ d.tree = d.steps
  /\ d.run = "open" => d.spent <= d.envelope
  /\ d.spent <= d.envelope + MaxCost
  /\ j \in {"reclaim", "create", "record"} => d.provision = "pending"
  /\ j = "record" => d.ws = "whole"
  /\ j \in {"resume", "loop", "step"} => d.provision = "ok"
  /\ j = "step" => d.run = "open"
  /\ o = "ended" => d.run \in Ends
  /\ o = "refused" => d.provision = "refused"

DiskInv == /\ DOMAIN disk = Cands /\ disk = [c \in Cands |-> disk[c]]
           /\ job \in [Cands -> Jobs] /\ out \in [Cands -> Outs]
           /\ \A c \in Cands : CandidateInv(disk[c], job[c], out[c])

ProcInv ==
  proc \in [pc: {"down", "claim", "claiming", "drive", "return"}, envelope: Nat,
            canceled: BOOLEAN, next: Nat, adopted: SUBSET Cands,
            verdict: {"none", "limit", "paused", "canceled", "settled"}, attempts: Nat]

\* How far the attempt is with each candidate.
PoolInv ==
  /\ proc.pc \in {"down", "claim", "claiming"} => \A c \in Cands : job[c] = "none"
  /\ proc.pc = "down" => \A c \in Cands : out[c] = "none"
  /\ proc.pc \in {"claim", "claiming"} =>
       \A c \in Cands : /\ out[c] \in {"none", "error"}
                        /\ c < proc.next => disk[c].dir = "run" \/ out[c] = "error"
  /\ proc.pc = "claiming" => \A c \in Cands : c = proc.next => disk[c].dir = "torn"
  /\ proc.pc = "drive" =>
       \A c \in Cands : /\ disk[c].dir = "run"
                        /\ c < proc.next <=> job[c] # "none"
                        /\ job[c] = "done" <=> out[c] # "none"
  /\ proc.pc = "return" => /\ \A c \in Cands : job[c] \in {"none", "done"}
                           /\ proc.verdict = "settled" =>
                                \A c \in Cands : out[c] \in {"ended", "refused"}

\* Every envelope is a share, at most, of what the highest ceiling left.
IsHighest(m) == m \in ceilings /\ \A x \in ceilings : x <= m

SharesInv ==
  /\ ceilings \subseteq Nat
  /\ proc.pc \in {"claim", "claiming"} => proc.envelope > 0 /\ ceilings # {}
  /\ (\E c \in Cands : disk[c].dir = "run") => ceilings # {}
  /\ ceilings # {} =>
       \E m \in ceilings :
         /\ IsHighest(m) /\ Spent <= m
         /\ \A c \in Cands : disk[c].envelope <= Partition(Spent, m)
         /\ proc.pc \in {"claim", "claiming"} => proc.envelope <= Partition(Spent, m)

\* What the parent was charged, beside what it had spent itself.
SpentBy == [c \in Cands |-> disk[c].spent]

LedgerInv ==
  /\ ledger \in Ledgers
  /\ ledger.total = Spent + ledger.of[Fanout]
  /\ ledger.of[Fanout] <= Sum(SpentBy)

\* A settled fanout is over.
SettledInv ==
  result.verdict = "settled" =>
    /\ proc.pc = "down"
    /\ ledger.of[Fanout] = Sum(SpentBy)
    /\ \A c \in Cands : disk[c].run \in Ends \/ disk[c].provision = "refused"
    /\ result.candidates = [c \in Cands |-> asCandidate(c)]

Inv == DiskInv /\ ProcInv /\ PoolInv /\ SharesInv /\ LedgerInv /\ SettledInv

LEMMA InitInv == ASSUME CandidatesAssumption, Init PROVE Inv
<1>1. DiskInv
  <2>1. CandidateInv(Unclaimed, "none", "none")
    BY MaxCostIsMax DEF CandidateInv, Unclaimed, Candidate, RunKinds, Ends, Jobs, Outs
  <2>2. QED
    BY <2>1 DEF Init, DiskInv, Jobs, Outs
<1>2. ProcInv /\ PoolInv /\ SettledInv
  BY DEF Init, ProcInv, PoolInv, SettledInv, Down, NoResult
<1>3. SharesInv
  BY DEF Init, SharesInv, Down, Unclaimed
<1>4. LedgerInv
  <2>1. /\ ledger.of[Fanout] = 0 /\ ledger.total = Spent /\ ledger \in Ledgers
    BY DEF Init, NewLedger, Ledgers, CandidatesAssumption, Fanout
  <2>2. SpentBy \in Amounts
    BY DEF Init, SpentBy, Amounts, Unclaimed
  <2>3. Sum(SpentBy) \in Nat
    BY <2>2, SumIsNat DEF CandidatesAssumption
  <2>4. QED
    BY <2>1, <2>3 DEF LedgerInv, CandidatesAssumption
<1>5. QED
  BY <1>1, <1>2, <1>3, <1>4 DEF Inv

-----------------------------------------------------------------------------
\* What candidates have spent only grows.
LEMMA SpentIsAmounts ==
  ASSUME DiskInv
  PROVE  SpentBy \in Amounts /\ \A c \in Cands : SpentBy[c] = disk[c].spent
BY DEF DiskInv, CandidateInv, Candidate, SpentBy, Amounts

LEMMA SpendGrows ==
  ASSUME CandidatesAssumption, DiskInv, DiskInv', LedgerInv, UNCHANGED ledger,
         \A c \in Cands : disk[c].spent <= disk'[c].spent
  PROVE  LedgerInv'
<1>1. SpentBy \in Amounts /\ \A c \in Cands : SpentBy[c] = disk[c].spent
  BY SpentIsAmounts
<1>2. SpentBy' \in Amounts /\ \A c \in Cands : SpentBy'[c] = disk'[c].spent
  BY DEF DiskInv, CandidateInv, Candidate, SpentBy, Amounts
<1> DEFINE f == SpentBy
           g == SpentBy'
<1>3. Sum(f) \in Nat /\ Sum(g) \in Nat /\ Sum(f) <= Sum(g)
  <2>1. f \in Amounts /\ g \in Amounts /\ \A c \in Cands : f[c] <= g[c]
    BY <1>1, <1>2
  <2> HIDE DEF f, g
  <2>2. QED
    BY <2>1, SumMonotone DEF CandidatesAssumption
<1>4. Sum(SpentBy)' = Sum(g)
  BY DEF Sum
<1>5. ledger.of[Fanout] \in Nat
  BY DEF LedgerInv, Ledgers, CandidatesAssumption, Fanout
<1>6. ledger.of[Fanout] <= Sum(f)
  BY DEF LedgerInv
<1>7. ledger'.of[Fanout] <= Sum(SpentBy)'
  BY <1>3, <1>4, <1>5, <1>6
<1>8. QED
  BY <1>7 DEF LedgerInv

\* A fanout that has not settled claims nothing of its result.
LEMMA Unsettled ==
  ASSUME SettledInv, UNCHANGED result, proc.pc # "down"
  PROVE  SettledInv'
BY DEF SettledInv

\* The step of a worker with one candidate.
LEMMA WorkerKeeps ==
  ASSUME CandidatesAssumption, Inv, NEW c \in Cands, NEW d, NEW j, NEW o,
         disk' = [disk EXCEPT ![c] = d],
         job' = [job EXCEPT ![c] = j],
         out' = [out EXCEPT ![c] = o],
         UNCHANGED <<proc, ledger, result, ceilings>>,
         proc.pc = "drive", CandidateInv(d, j, o), d.dir = "run",
         d.envelope = disk[c].envelope, disk[c].spent <= d.spent,
         job[c] # "none", j # "none", j = "done" <=> o # "none"
  PROVE  Inv'
<1>1. /\ disk'[c] = d /\ job'[c] = j /\ out'[c] = o
      /\ \A e \in Cands \ {c} : disk'[e] = disk[e] /\ job'[e] = job[e] /\ out'[e] = out[e]
  BY DEF Inv, DiskInv
<1>2. DiskInv'
  <2>1. disk' = [e \in Cands |-> disk'[e]] /\ DOMAIN disk' = Cands
    BY DEF Inv, DiskInv
  <2>2. job' \in [Cands -> Jobs] /\ out' \in [Cands -> Outs]
    BY DEF Inv, DiskInv, CandidateInv
  <2>3. \A e \in Cands : CandidateInv(disk'[e], job'[e], out'[e])
    BY <1>1 DEF Inv, DiskInv
  <2>4. QED
    BY <2>1, <2>2, <2>3 DEF DiskInv
<1>3. ProcInv'
  BY DEF Inv, ProcInv
<1>4. PoolInv'
  BY <1>1 DEF Inv, PoolInv
<1>5. SharesInv'
  <2>1. \A e \in Cands : disk'[e].envelope = disk[e].envelope
    BY <1>1
  <2>2. (\E e \in Cands : disk'[e].dir = "run") => ceilings # {}
    BY DEF Inv, PoolInv, SharesInv
  <2>3. QED
    BY <2>1, <2>2 DEF Inv, SharesInv, IsHighest
<1>6. LedgerInv'
  <2>1. \A e \in Cands : disk[e].spent <= disk'[e].spent
    BY <1>1 DEF Inv, DiskInv, CandidateInv, Candidate
  <2>2. QED
    BY <1>2, <2>1, SpendGrows DEF Inv
<1>7. SettledInv'
  BY Unsettled DEF Inv
<1>8. QED
  BY <1>2, <1>3, <1>4, <1>5, <1>6, <1>7 DEF Inv

\* A worker is on a candidate only while the pool is driven, and of a run.
LEMMA Working ==
  ASSUME Inv, NEW c \in Cands, job[c] \notin {"none", "done"}
  PROVE  /\ proc.pc = "drive" /\ disk[c].dir = "run" /\ out[c] = "none"
         /\ disk[c] \in Candidate /\ CandidateInv(disk[c], job[c], out[c])
         /\ disk' = [disk EXCEPT ![c] = disk[c]] <=> UNCHANGED disk
<1>1. proc.pc \in {"down", "claim", "claiming", "drive", "return"}
  BY DEF Inv, ProcInv
<1>2. proc.pc = "drive"
  BY <1>1 DEF Inv, PoolInv
<1>3. QED
  BY <1>2 DEF Inv, PoolInv, DiskInv, CandidateInv

-----------------------------------------------------------------------------
(***************************************************************************)
(* What a worker does with a candidate.                                    *)
(***************************************************************************)
\* The workspace, up to its record: nothing was done in it yet.
LEMMA WorkspaceKeeps ==
  ASSUME CandidatesAssumption, Inv, NEW c \in Cands,
         Reclaim(c) \/ BeginWorkspace(c) \/ makeWorkspace(c) \/ refuse(c) \/ RecordWorkspace(c)
  PROVE  Inv'
<1>1. job[c] \in {"reclaim", "create", "record"}
  BY DEF Reclaim, BeginWorkspace, makeWorkspace, refuse, RecordWorkspace
<1>2. /\ proc.pc = "drive" /\ disk[c].dir = "run" /\ out[c] = "none"
      /\ disk[c] \in Candidate /\ CandidateInv(disk[c], job[c], out[c])
  BY <1>1, Working
<1>3. /\ disk[c].provision = "pending" /\ disk[c].run = "new"
      /\ disk[c].steps = 0 /\ disk[c].spent = 0 /\ disk[c].tree = 0
  BY <1>1, <1>2 DEF CandidateInv
<1>4. job = [job EXCEPT ![c] = job[c]] /\ out = [out EXCEPT ![c] = out[c]]
  BY DEF Inv, DiskInv
<1>5. CASE Reclaim(c)
  <2> DEFINE d == [disk[c] EXCEPT !.ws = "none", !.tree = 0]
  <2>1. /\ disk' = [disk EXCEPT ![c] = d] /\ job' = [job EXCEPT ![c] = "create"]
        /\ out' = [out EXCEPT ![c] = "none"]
        /\ UNCHANGED <<proc, ledger, result, ceilings>>
    BY <1>2, <1>4, <1>5 DEF Reclaim, ToDo
  <2>2. CandidateInv(d, "create", "none")
    BY <1>2, <1>3 DEF CandidateInv, Candidate, Jobs, Outs
  <2>3. /\ d.dir = "run" /\ d.envelope = disk[c].envelope /\ disk[c].spent <= d.spent
    BY <1>2, <1>3 DEF Candidate
  <2> HIDE DEF d
  <2>4. QED
    BY <1>1, <1>2, <2>1, <2>2, <2>3, WorkerKeeps
<1>6. CASE BeginWorkspace(c)
  <2> DEFINE d == [disk[c] EXCEPT !.ws = "partial"]
  <2>1. /\ disk' = [disk EXCEPT ![c] = d] /\ job' = [job EXCEPT ![c] = "create"]
        /\ out' = [out EXCEPT ![c] = "none"]
        /\ UNCHANGED <<proc, ledger, result, ceilings>>
    BY <1>2, <1>4, <1>6 DEF BeginWorkspace
  <2>2. CandidateInv(d, "create", "none")
    BY <1>2, <1>3 DEF CandidateInv, Candidate, Jobs, Outs
  <2>3. /\ d.dir = "run" /\ d.envelope = disk[c].envelope /\ disk[c].spent <= d.spent
    BY <1>2, <1>3 DEF Candidate
  <2> HIDE DEF d
  <2>4. QED
    BY <1>1, <1>2, <2>1, <2>2, <2>3, WorkerKeeps
<1>7. CASE makeWorkspace(c)
  <2> DEFINE d == [disk[c] EXCEPT !.ws = "whole"]
  <2>1. /\ disk' = [disk EXCEPT ![c] = d] /\ job' = [job EXCEPT ![c] = "record"]
        /\ out' = [out EXCEPT ![c] = "none"]
        /\ UNCHANGED <<proc, ledger, result, ceilings>>
    BY <1>2, <1>4, <1>7 DEF makeWorkspace, ToDo
  <2>2. CandidateInv(d, "record", "none")
    BY <1>2, <1>3 DEF CandidateInv, Candidate, Jobs, Outs
  <2>3. /\ d.dir = "run" /\ d.envelope = disk[c].envelope /\ disk[c].spent <= d.spent
    BY <1>2, <1>3 DEF Candidate
  <2> HIDE DEF d
  <2>4. QED
    BY <1>1, <1>2, <2>1, <2>2, <2>3, WorkerKeeps
<1>8. CASE refuse(c)
  <2> DEFINE d == [disk[c] EXCEPT !.provision = "refused"]
  <2>1. /\ disk' = [disk EXCEPT ![c] = d] /\ job' = [job EXCEPT ![c] = "done"]
        /\ out' = [out EXCEPT ![c] = "refused"]
        /\ UNCHANGED <<proc, ledger, result, ceilings>>
    BY <1>8 DEF refuse, Finish
  <2>2. CandidateInv(d, "done", "refused")
    BY <1>2, <1>3 DEF CandidateInv, Candidate, Jobs, Outs
  <2>3. /\ d.dir = "run" /\ d.envelope = disk[c].envelope /\ disk[c].spent <= d.spent
    BY <1>2, <1>3 DEF Candidate
  <2> HIDE DEF d
  <2>4. QED
    BY <1>1, <1>2, <2>1, <2>2, <2>3, WorkerKeeps
<1>9. CASE RecordWorkspace(c)
  <2> DEFINE d == [disk[c] EXCEPT !.provision = "ok"]
  <2>1. /\ disk' = [disk EXCEPT ![c] = d] /\ job' = [job EXCEPT ![c] = "resume"]
        /\ out' = [out EXCEPT ![c] = "none"]
        /\ UNCHANGED <<proc, ledger, result, ceilings>> /\ job[c] = "record"
    BY <1>2, <1>4, <1>9 DEF RecordWorkspace, ToDo
  <2>2. CandidateInv(d, "resume", "none")
    BY <1>2, <1>3, <2>1 DEF CandidateInv, Candidate, Jobs, Outs
  <2>3. /\ d.dir = "run" /\ d.envelope = disk[c].envelope /\ disk[c].spent <= d.spent
    BY <1>2, <1>3 DEF Candidate
  <2> HIDE DEF d
  <2>4. QED
    BY <1>1, <1>2, <2>1, <2>2, <2>3, WorkerKeeps
<1>10. QED
  BY <1>5, <1>6, <1>7, <1>8, <1>9

LEMMA WorkerFailsKeeps ==
  ASSUME CandidatesAssumption, Inv, NEW c \in Cands, WorkerFails(c)
  PROVE  Inv'
<1>1. /\ UNCHANGED <<disk, proc, ledger, result, ceilings>> /\ job[c] \notin {"none", "done"}
      /\ job' = [job EXCEPT ![c] = "done"] /\ out' = [out EXCEPT ![c] = "error"]
  BY DEF WorkerFails, Finish, Busy
<1>2. /\ proc.pc = "drive" /\ disk[c].dir = "run" /\ disk[c] \in Candidate
      /\ CandidateInv(disk[c], job[c], out[c])
  BY <1>1, Working
<1>3. CandidateInv(disk[c], "done", "error") /\ disk' = [disk EXCEPT ![c] = disk[c]]
  BY <1>1, <1>2, Working DEF CandidateInv, Jobs, Outs
<1>4. disk[c].spent <= disk[c].spent
  BY <1>2 DEF Candidate
<1>5. QED
  BY <1>1, <1>2, <1>3, <1>4, WorkerKeeps

\* A step of the candidate's own dispatcher, in its workspace.
LEMMA StepInv ==
  ASSUME NEW d, NEW e, NEW j \in {"loop", "done"}, NEW o \in Outs,
         d \in Candidate, e \in Candidate, d.tree = d.steps,
         d.dir = "run" /\ d.provision = "ok" /\ d.ws = "whole" /\ d.envelope > 0,
         e.dir = d.dir /\ e.provision = d.provision /\ e.ws = d.ws /\ e.envelope = d.envelope,
         e.tree = e.steps, e.run \notin {"new", "open"}, e.spent <= d.envelope + MaxCost,
         o = "ended" => e.run \in Ends, o # "refused"
  PROVE  CandidateInv(e, j, o)
BY DEF CandidateInv, Jobs

\* The candidate's own dispatcher: what it spends before it looks at its
\* envelope again is one step.
LEMMA ChildKeeps ==
  ASSUME CandidatesAssumption, Inv, NEW c \in Cands,
         \/ ChildHeals(c) \/ ChildStops(c) \/ ChildStarts(c) \/ ChildCutShort(c)
         \/ \E cost \in StepCosts : ChildSteps(c, cost) \/ ChildEnds(c, cost)
  PROVE  Inv'
<1>1. job[c] \in {"resume", "loop", "step"}
  BY DEF ChildHeals, ChildStops, ChildStarts, ChildCutShort, ChildSteps, ChildEnds
<1>2. /\ proc.pc = "drive" /\ disk[c].dir = "run" /\ out[c] = "none"
      /\ disk[c] \in Candidate /\ CandidateInv(disk[c], job[c], out[c])
  BY <1>1, Working
<1>3. disk[c].provision = "ok" /\ disk[c].ws = "whole" /\ disk[c].envelope > 0
  BY <1>1, <1>2 DEF CandidateInv
<1>4. out = [out EXCEPT ![c] = "none"]
  BY <1>2 DEF Inv, DiskInv
<1>5. /\ Floor \in Nat /\ Floor <= MaxCost /\ MaxCost \in Nat
      /\ \A cost \in StepCosts : cost \in Nat /\ cost <= MaxCost
  BY MaxCostIsMax DEF CandidatesAssumption
<1>6. CASE ChildHeals(c)
  <2> DEFINE d == IF disk[c].run = "open"
                    THEN [disk[c] EXCEPT !.run = "ready", !.spent = @ + Floor] ELSE disk[c]
             ends == disk[c].run \in Ends
             j == IF ends THEN "done" ELSE "loop"
             o == IF ends THEN "ended" ELSE "none"
  <2>1. /\ job' = [job EXCEPT ![c] = j] /\ out' = [out EXCEPT ![c] = o]
        /\ UNCHANGED <<proc, ledger, result, ceilings>>
    BY <1>4, <1>6 DEF ChildHeals, Finish, ToDo
  <2>2. disk' = [disk EXCEPT ![c] = d]
    BY <1>1, <1>6, Working DEF ChildHeals
  <2>3. CandidateInv(d, j, o)
    <3>1. CASE disk[c].run = "open"
      <4>1. disk[c].spent <= disk[c].envelope /\ disk[c].tree = disk[c].steps
        BY <1>2, <3>1 DEF CandidateInv
      <4>2. d = [disk[c] EXCEPT !.run = "ready", !.spent = @ + Floor] /\ j = "loop" /\ o = "none"
        BY <3>1 DEF Ends
      <4>3. /\ d \in Candidate /\ d.dir = disk[c].dir /\ d.provision = disk[c].provision
            /\ d.ws = disk[c].ws /\ d.envelope = disk[c].envelope /\ d.tree = disk[c].tree
            /\ d.steps = disk[c].steps /\ d.run = "ready" /\ d.spent = disk[c].spent + Floor
        <5>1. disk[c].spent + Floor \in Nat
          BY <1>2, <1>5, <4>2 DEF Candidate
        <5>2. d \in Candidate
          BY <1>2, <1>5, <4>2, <5>1 DEF Candidate, RunKinds
        <5>3. QED
          BY <1>2, <1>5, <4>2, <5>1, <5>2 DEF Candidate
      <4>4. d.spent <= disk[c].envelope + MaxCost
        BY <1>2, <1>5, <4>1, <4>3 DEF Candidate
      <4>5. d.tree = d.steps /\ d.run \notin {"new", "open"}
        BY <4>1, <4>3
      <4> HIDE DEF d, j, o
      <4>6. QED
        BY <1>2, <1>3, <4>1, <4>2, <4>3, <4>4, <4>5, StepInv DEF Outs
    <3>2. CASE disk[c].run # "open"
      BY <1>2, <1>3, <3>2 DEF CandidateInv, Jobs, Outs
    <3>3. QED
      BY <3>1, <3>2
  <2>4. d.dir = "run" /\ d.envelope = disk[c].envelope /\ disk[c].spent <= d.spent
    BY <1>2, <1>5 DEF Candidate
  <2>5. j # "none" /\ (j = "done" <=> o # "none")
    OBVIOUS
  <2> HIDE DEF d, j, o
  <2>6. QED
    BY <1>1, <1>2, <2>1, <2>2, <2>3, <2>4, <2>5, WorkerKeeps
<1>7. CASE ChildStops(c)
  <2> DEFINE d == [disk[c] EXCEPT !.run = "paused"]
             o == IF OverEnvelope(c) THEN "limit" ELSE "paused"
  <2>1. /\ disk' = [disk EXCEPT ![c] = d] /\ job' = [job EXCEPT ![c] = "done"]
        /\ out' = [out EXCEPT ![c] = o] /\ UNCHANGED <<proc, ledger, result, ceilings>>
    BY <1>7 DEF ChildStops, Finish
  <2>2. CandidateInv(d, "done", o)
    BY <1>2, <1>3 DEF CandidateInv, Candidate, RunKinds, Ends, Jobs, Outs
  <2>3. d.dir = "run" /\ d.envelope = disk[c].envelope /\ disk[c].spent <= d.spent
    BY <1>2 DEF Candidate
  <2>4. o # "none"
    OBVIOUS
  <2> HIDE DEF d, o
  <2>5. QED
    BY <1>1, <1>2, <2>1, <2>2, <2>3, <2>4, WorkerKeeps
<1>8. CASE ChildStarts(c)
  <2> DEFINE d == [disk[c] EXCEPT !.run = "open"]
  <2>1. /\ disk' = [disk EXCEPT ![c] = d] /\ job' = [job EXCEPT ![c] = "step"]
        /\ out' = [out EXCEPT ![c] = "none"] /\ UNCHANGED <<proc, ledger, result, ceilings>>
    BY <1>4, <1>8 DEF ChildStarts, ToDo
  <2>2. disk[c].spent <= disk[c].envelope
    BY <1>2, <1>3, <1>8 DEF ChildStarts, OverEnvelope, Candidate
  <2>3. CandidateInv(d, "step", "none")
    BY <1>2, <1>3, <2>2 DEF CandidateInv, Candidate, RunKinds, Ends, Jobs, Outs
  <2>4. d.dir = "run" /\ d.envelope = disk[c].envelope /\ disk[c].spent <= d.spent
    BY <1>2 DEF Candidate
  <2> HIDE DEF d
  <2>5. QED
    BY <1>1, <1>2, <2>1, <2>3, <2>4, WorkerKeeps
<1>9. ASSUME NEW cost \in StepCosts, ChildSteps(c, cost) PROVE Inv'
  <2> DEFINE d == [disk[c] EXCEPT !.run = "ready", !.spent = @ + cost,
                                  !.steps = @ + 1, !.tree = @ + 1]
  <2>1. /\ disk' = [disk EXCEPT ![c] = d] /\ job' = [job EXCEPT ![c] = "loop"]
        /\ out' = [out EXCEPT ![c] = "none"] /\ UNCHANGED <<proc, ledger, result, ceilings>>
        /\ job[c] = "step"
    BY <1>4, <1>9 DEF ChildSteps, ToDo
  <2>2. disk[c].spent <= disk[c].envelope
    BY <1>2, <2>1 DEF CandidateInv
  <2>3. CandidateInv(d, "loop", "none")
    <3>1. /\ d \in Candidate /\ d.dir = disk[c].dir /\ d.provision = disk[c].provision
          /\ d.ws = disk[c].ws /\ d.envelope = disk[c].envelope /\ d.tree = disk[c].tree + 1
          /\ d.steps = disk[c].steps + 1 /\ d.run = "ready" /\ d.spent = disk[c].spent + cost
      <4>1. disk[c].spent + cost \in Nat /\ disk[c].steps + 1 \in Nat /\ disk[c].tree + 1 \in Nat
        <5>1. disk[c].spent \in Nat /\ disk[c].steps \in Nat /\ disk[c].tree \in Nat
          BY <1>2 DEF Candidate
        <5>2. cost \in Nat
          BY <1>5
        <5> HIDE DEF d
        <5>3. QED
          BY <5>1, <5>2
      <4>2. d \in Candidate
        BY <1>2, <1>5, <4>1 DEF Candidate, RunKinds
      <4>3. QED
        BY <1>2, <1>5, <4>1, <4>2 DEF Candidate
    <3>2. disk[c].tree = disk[c].steps
      BY <1>2 DEF CandidateInv
    <3>3. d.spent <= disk[c].envelope + MaxCost
      BY <1>2, <1>5, <2>2, <3>1 DEF Candidate
    <3> HIDE DEF d
    <3>4. QED
      BY <1>2, <1>3, <3>1, <3>2, <3>3, StepInv DEF Outs
  <2>4. d.dir = "run" /\ d.envelope = disk[c].envelope /\ disk[c].spent <= d.spent
    BY <1>2, <1>5 DEF Candidate
  <2> HIDE DEF d
  <2>5. QED
    BY <1>1, <1>2, <2>1, <2>3, <2>4, WorkerKeeps
<1>10. ASSUME NEW cost \in StepCosts, ChildEnds(c, cost) PROVE Inv'
  <2>1. PICK end \in Endings :
          disk' = [disk EXCEPT ![c].run = end.run, ![c].spent = @ + cost,
                               ![c].steps = @ + 1, ![c].tree = @ + 1,
                               ![c].passed = end.passed, ![c].issues = end.issues,
                               ![c].violations = end.violations]
    BY <1>10 DEF ChildEnds
  <2> DEFINE d == [disk[c] EXCEPT !.run = end.run, !.spent = @ + cost,
                                  !.steps = @ + 1, !.tree = @ + 1, !.passed = end.passed,
                                  !.issues = end.issues, !.violations = end.violations]
  <2>2. /\ disk' = [disk EXCEPT ![c] = d] /\ job' = [job EXCEPT ![c] = "done"]
        /\ out' = [out EXCEPT ![c] = "ended"] /\ UNCHANGED <<proc, ledger, result, ceilings>>
        /\ job[c] = "step"
    <3>1. disk' = [disk EXCEPT ![c] = d]
      BY <2>1
    <3>2. QED
      BY <1>10, <3>1 DEF ChildEnds, Finish
  <2>3. disk[c].spent <= disk[c].envelope
    BY <1>2, <2>2 DEF CandidateInv
  <2>4. /\ end.run \in Ends /\ end.passed \in BOOLEAN
        /\ end.issues \in Nat /\ end.violations \in Nat
    BY DEF CandidatesAssumption, Ends
  <2>5. CandidateInv(d, "done", "ended")
    <3>1. /\ d \in Candidate /\ d.dir = disk[c].dir /\ d.provision = disk[c].provision
          /\ d.ws = disk[c].ws /\ d.envelope = disk[c].envelope /\ d.tree = disk[c].tree + 1
          /\ d.steps = disk[c].steps + 1 /\ d.run = end.run /\ d.spent = disk[c].spent + cost
      <4>1. disk[c].spent + cost \in Nat /\ disk[c].steps + 1 \in Nat /\ disk[c].tree + 1 \in Nat
        BY <1>2, <1>5, <2>4 DEF Candidate
      <4>2. d \in Candidate
        BY <1>2, <1>5, <2>4, <4>1 DEF Candidate, RunKinds
      <4>3. QED
        BY <1>2, <1>5, <2>4, <4>1, <4>2 DEF Candidate
    <3>2. disk[c].tree = disk[c].steps
      BY <1>2 DEF CandidateInv
    <3>3. d.spent <= disk[c].envelope + MaxCost
      BY <1>2, <1>5, <2>3, <3>1 DEF Candidate
    <3>4. d.run \in Ends /\ d.run \notin {"new", "open"}
      BY <2>4, <3>1 DEF Ends
    <3> HIDE DEF d
    <3>5. QED
      BY <1>2, <1>3, <3>1, <3>2, <3>3, <3>4, StepInv DEF Outs
  <2>6. d.dir = "run" /\ d.envelope = disk[c].envelope /\ disk[c].spent <= d.spent
    BY <1>2, <1>5 DEF Candidate
  <2> HIDE DEF d
  <2>7. QED
    BY <1>1, <1>2, <2>2, <2>5, <2>6, WorkerKeeps
<1>11. CASE ChildCutShort(c)
  <2> DEFINE d == [disk[c] EXCEPT !.run = "paused", !.spent = @ + Floor]
  <2>1. /\ disk' = [disk EXCEPT ![c] = d] /\ job' = [job EXCEPT ![c] = "done"]
        /\ out' = [out EXCEPT ![c] = "paused"] /\ UNCHANGED <<proc, ledger, result, ceilings>>
        /\ job[c] = "step"
    BY <1>11 DEF ChildCutShort, Finish
  <2>2. disk[c].spent <= disk[c].envelope
    BY <1>2, <2>1 DEF CandidateInv
  <2>3. CandidateInv(d, "done", "paused")
    <3>1. /\ d \in Candidate /\ d.dir = disk[c].dir /\ d.provision = disk[c].provision
          /\ d.ws = disk[c].ws /\ d.envelope = disk[c].envelope /\ d.tree = disk[c].tree
          /\ d.steps = disk[c].steps /\ d.run = "paused" /\ d.spent = disk[c].spent + Floor
      <4>1. disk[c].spent + Floor \in Nat
        BY <1>2, <1>5 DEF Candidate
      <4>2. d \in Candidate
        BY <1>2, <1>5, <4>1 DEF Candidate, RunKinds
      <4>3. QED
        BY <1>2, <1>5, <4>1, <4>2 DEF Candidate
    <3>2. disk[c].tree = disk[c].steps
      BY <1>2 DEF CandidateInv
    <3>3. d.spent <= disk[c].envelope + MaxCost
      BY <1>2, <1>5, <2>2, <3>1 DEF Candidate
    <3> HIDE DEF d
    <3>4. QED
      BY <1>2, <1>3, <3>1, <3>2, <3>3, StepInv DEF Outs
  <2>4. d.dir = "run" /\ d.envelope = disk[c].envelope /\ disk[c].spent <= d.spent
    BY <1>2, <1>5 DEF Candidate
  <2> HIDE DEF d
  <2>5. QED
    BY <1>1, <1>2, <2>1, <2>3, <2>4, WorkerKeeps
<1>12. QED
  BY <1>6, <1>7, <1>8, <1>9, <1>10, <1>11

-----------------------------------------------------------------------------
(***************************************************************************)
(* The attempt of fanout.                                                  *)
(***************************************************************************)
\* Steps that leave what candidates are let spend and have spent as they are.
LEMMA MoneyKept ==
  ASSUME CandidatesAssumption, Inv, DiskInv', UNCHANGED <<ledger, ceilings>>,
         \A c \in Cands : /\ disk'[c].spent = disk[c].spent
                          /\ disk'[c].envelope = disk[c].envelope
                          /\ disk'[c].dir = "run" => disk[c].dir = "run",
         proc'.pc \in {"claim", "claiming"} =>
           proc.pc \in {"claim", "claiming"} /\ proc'.envelope = proc.envelope
  PROVE  SharesInv' /\ LedgerInv'
<1>1. SharesInv'
  BY DEF Inv, SharesInv, IsHighest
<1>2. \A c \in Cands : disk[c].spent <= disk'[c].spent
  BY DEF Inv, DiskInv, CandidateInv, Candidate
<1>3. LedgerInv'
  BY <1>2, SpendGrows DEF Inv
<1>4. QED
  BY <1>1, <1>3

\* Begin's share is a share of what a ceiling has left beside what the parent
\* spent itself.
LEMMA BeginKeeps ==
  ASSUME CandidatesAssumption, Inv, NEW ceiling \in Ceilings, Begin(ceiling)
  PROVE  Inv'
<1> DEFINE before == Without(ledger, Fanout)
           share  == Partition(before.total, ceiling)
           runs   == (Claimed \/ CanAfford(before, ceiling)) /\ share > 0
<1>1. /\ proc.pc = "down" /\ result.verdict # "settled"
      /\ proc' = [Down EXCEPT !.attempts = proc.attempts + 1,
                              !.pc = IF runs THEN "claim" ELSE "return",
                              !.envelope = share,
                              !.verdict = IF runs THEN "none" ELSE "limit"]
      /\ ceilings' = IF runs THEN ceilings \cup {ceiling} ELSE ceilings
      /\ UNCHANGED <<disk, job, out, ledger, result>>
  BY DEF Begin
<1>2. before.total = Spent
  <2>1. /\ ledger.total = Spent + ledger.of[Fanout] /\ ledger.of[Fanout] \in Nat
        /\ ledger \in Ledgers
    BY DEF Inv, LedgerInv, Ledgers, CandidatesAssumption, Fanout
  <2>2. before.total = ledger.total - ledger.of[Fanout]
    BY <2>1 DEF Without, Ledgers
  <2>3. QED
    BY <2>1, <2>2 DEF CandidatesAssumption
<1>3. ceiling \in Nat /\ Spent \in Nat /\ N \in Nat \ {0}
  BY DEF CandidatesAssumption
<1>4. share = Partition(Spent, ceiling) /\ share \in Nat
  <2>1. share = Partition(Spent, ceiling)
    BY <1>2
  <2>2. Partition(Spent, ceiling) \in Nat
    BY <1>3, ShareOf
  <2>3. QED
    BY <2>1, <2>2
<1> HIDE DEF share, before
<1>5. proc.attempts + 1 \in Nat /\ runs \in BOOLEAN
  BY DEF Inv, ProcInv
<1> HIDE DEF runs
<1>6. /\ proc'.pc = IF runs THEN "claim" ELSE "return"
      /\ proc'.envelope = share /\ proc'.canceled = FALSE /\ proc'.next = 1
      /\ proc'.verdict = IF runs THEN "none" ELSE "limit"
      /\ ProcInv'
  BY <1>1, <1>4, <1>5 DEF Down, ProcInv
<1>7. DiskInv'
  BY <1>1 DEF Inv, DiskInv
<1>8. PoolInv'
  BY <1>1, <1>6 DEF Inv, PoolInv, Cands
<1>9. LedgerInv'
  BY <1>1 DEF Inv, LedgerInv, SpentBy
<1>10. SettledInv'
  BY <1>1 DEF SettledInv
<1>11. SharesInv'
  <2>1. CASE ~ runs
    BY <1>1, <1>6, <2>1 DEF Inv, SharesInv, IsHighest
  <2>2. CASE runs
    <3>1. share > 0
      BY <2>2 DEF runs
    <3>2. Spent <= ceiling
      BY <1>3, <1>4, <3>1, ShareOf
    <3>3. ceilings' = ceilings \cup {ceiling} /\ ceilings' \subseteq Nat
      BY <1>1, <1>3, <2>2 DEF Inv, SharesInv
    <3>4. CASE ceilings = {}
      <4>1. \A c \in Cands : disk[c].dir # "run" /\ disk[c].envelope = 0
        BY <3>4 DEF Inv, SharesInv, DiskInv, CandidateInv
      <4>2. IsHighest(ceiling)'
        BY <1>3, <3>3, <3>4 DEF IsHighest
      <4>3. \A c \in Cands : disk'[c].envelope <= Partition(Spent, ceiling)
        BY <1>1, <1>4, <4>1
      <4>4. proc'.envelope <= Partition(Spent, ceiling)
        BY <1>4, <1>6
      <4>5. QED
        BY <1>6, <3>1, <3>2, <3>3, <4>2, <4>3, <4>4 DEF SharesInv
    <3>5. CASE ceilings # {}
      <4>1. PICK m \in ceilings :
              /\ IsHighest(m) /\ Spent <= m
              /\ \A c \in Cands : disk[c].envelope <= Partition(Spent, m)
        BY <3>5 DEF Inv, SharesInv
      <4>2. m \in Nat
        BY DEF Inv, SharesInv
      <4> DEFINE h == IF ceiling <= m THEN m ELSE ceiling
      <4>3. h \in ceilings' /\ h \in Nat /\ ceiling <= h /\ m <= h /\ Spent <= h
        BY <1>3, <3>2, <3>3, <4>1, <4>2
      <4>4. IsHighest(h)'
        <5>1. \A x \in ceilings' : x <= h
          BY <1>3, <3>3, <4>1, <4>2 DEF IsHighest, Inv, SharesInv
        <5>2. QED
          BY <4>3, <5>1 DEF IsHighest
      <4> HIDE DEF h
      <4>5. /\ Partition(Spent, m) <= Partition(Spent, h)
            /\ Partition(Spent, ceiling) <= Partition(Spent, h)
            /\ Partition(Spent, m) \in Nat /\ Partition(Spent, h) \in Nat
        <5>1. Partition(Spent, m) \in Nat /\ Partition(Spent, h) \in Nat
          BY <1>3, <4>2, <4>3, ShareOf
        <5>2. Partition(Spent, m) <= Partition(Spent, h)
          BY <1>3, <4>2, <4>3, SharesFit
        <5>3. Partition(Spent, ceiling) <= Partition(Spent, h)
          BY <1>3, <4>3, SharesFit
        <5>4. QED
          BY <5>1, <5>2, <5>3
      <4>6. \A c \in Cands : disk'[c].envelope <= Partition(Spent, h)
        <5>1. \A c \in Cands : disk[c].envelope \in Nat
          BY DEF Inv, DiskInv, CandidateInv, Candidate
        <5>2. QED
          BY <1>1, <4>1, <4>5, <5>1
      <4>7. proc'.envelope <= Partition(Spent, h)
        BY <1>4, <1>6, <4>5
      <4>8. QED
        BY <1>6, <3>1, <3>3, <4>3, <4>4, <4>6, <4>7 DEF SharesInv
    <3>6. QED
      BY <3>4, <3>5
  <2>3. QED
    BY <2>1, <2>2
<1>12. QED
  BY <1>6, <1>7, <1>8, <1>9, <1>10, <1>11 DEF Inv

\* A claim that is begun, or found torn, is of nothing yet.
LEMMA ClaimBeginsKeeps ==
  ASSUME CandidatesAssumption, Inv, NEW c \in Cands, removeTornClaim(c) \/ claimFresh(c)
  PROVE  Inv'
<1>1. PICK k \in {"none", "torn"} :
        /\ proc.pc = "claim" /\ proc.next = c /\ disk[c].dir # "run"
        /\ disk' = [disk EXCEPT ![c].dir = k]
        /\ UNCHANGED <<job, out, ledger, result, ceilings>>
        /\ k = "none" => proc' = proc
        /\ k = "torn" => proc' = [proc EXCEPT !.pc = "claiming"]
  BY DEF removeTornClaim, claimFresh, claim
<1> DEFINE d == [disk[c] EXCEPT !.dir = k]
<1>2. /\ disk[c] \in Candidate /\ CandidateInv(disk[c], job[c], out[c])
  BY DEF Inv, DiskInv, CandidateInv
<1>3. /\ d \in Candidate /\ d.dir = k /\ d.envelope = disk[c].envelope
      /\ d.provision = disk[c].provision /\ d.run = disk[c].run /\ d.steps = disk[c].steps
      /\ d.spent = disk[c].spent /\ d.tree = disk[c].tree /\ d.ws = disk[c].ws
  BY <1>2 DEF Candidate
<1>4. CandidateInv(d, job[c], out[c])
  <2> HIDE DEF d
  <2>1. QED
    BY <1>1, <1>2, <1>3 DEF CandidateInv
<1> HIDE DEF d
<1>5. disk'[c] = d /\ \A e \in Cands \ {c} : disk'[e] = disk[e]
  BY <1>1 DEF Inv, DiskInv, d
<1>6. DiskInv'
  <2>1. disk' = [e \in Cands |-> disk'[e]] /\ DOMAIN disk' = Cands
    BY <1>1 DEF Inv, DiskInv
  <2>2. \A e \in Cands : CandidateInv(disk'[e], job'[e], out'[e])
    BY <1>1, <1>4, <1>5 DEF Inv, DiskInv
  <2>3. QED
    BY <1>1, <2>1, <2>2 DEF Inv, DiskInv
<1>7. /\ proc'.pc \in {"claim", "claiming"} /\ proc'.envelope = proc.envelope
      /\ proc'.next = proc.next /\ (proc'.pc = "claiming" <=> k = "torn") /\ ProcInv'
  BY <1>1 DEF Inv, ProcInv
<1>8. PoolInv'
  <2>1. \A e \in Cands : e < proc.next => e # c
    BY <1>1 DEF Cands
  <2>2. \A e \in Cands : /\ job'[e] = "none" /\ out'[e] \in {"none", "error"}
                         /\ e < proc'.next => disk'[e].dir = "run" \/ out'[e] = "error"
    BY <1>1, <1>5, <1>7, <2>1 DEF Inv, PoolInv
  <2>3. proc'.pc = "claiming" => \A e \in Cands : e = proc'.next => disk'[e].dir = "torn"
    BY <1>1, <1>3, <1>5, <1>7
  <2>4. QED
    BY <1>7, <2>2, <2>3 DEF PoolInv
<1>9. SharesInv' /\ LedgerInv'
  BY <1>1, <1>3, <1>5, <1>6, <1>7, MoneyKept
<1>10. SettledInv'
  BY <1>1, Unsettled DEF Inv
<1>11. QED
  BY <1>6, <1>7, <1>8, <1>9, <1>10 DEF Inv

\* A claim is a run with the attempt's share; an adopted one keeps the larger.
LEMMA ClaimKeeps ==
  ASSUME CandidatesAssumption, Inv, NEW c \in Cands, SaveClaim(c) \/ adopt(c)
  PROVE  Inv'
<1>1. PICK v \in {proc.envelope, raiseEnvelope(disk[c].envelope, proc.envelope)} :
        /\ disk' = [disk EXCEPT ![c] = [disk[c] EXCEPT !.dir = "run", !.envelope = v]]
        /\ disk[c].dir # "run" => v = proc.envelope
        /\ disk[c].dir = "run" => v = raiseEnvelope(disk[c].envelope, proc.envelope)
  <2>1. CASE SaveClaim(c)
    <3>1. disk[c].dir = "torn"
      BY <2>1 DEF SaveClaim, Inv, PoolInv
    <3>2. QED
      BY <2>1, <3>1 DEF SaveClaim
  <2>2. CASE adopt(c)
    <3> DEFINE d == [disk[c] EXCEPT !.envelope = raiseEnvelope(@, proc.envelope)]
    <3>1. disk[c].dir = "run" /\ disk' = [disk EXCEPT ![c] = d]
      BY <2>2 DEF adopt
    <3>2. disk[c] \in Candidate
      BY DEF Inv, DiskInv, CandidateInv
    <3>3. [disk[c] EXCEPT !.dir = "run",
                          !.envelope = raiseEnvelope(disk[c].envelope, proc.envelope)] = d
      BY <3>1, <3>2 DEF Candidate
    <3>4. QED
      BY <3>1, <3>3
  <2>3. QED
    BY <2>1, <2>2
<1> DEFINE d == [disk[c] EXCEPT !.dir = "run", !.envelope = v]
<1>2. /\ proc.pc \in {"claim", "claiming"} /\ proc.next = c
      /\ UNCHANGED <<job, out, ledger, result, ceilings>>
      /\ proc'.pc = "claim" /\ proc'.next = c + 1 /\ proc'.envelope = proc.envelope
      /\ ProcInv'
  <2>1. c + 1 \in Nat
    BY DEF Cands
  <2>2. CASE SaveClaim(c)
    <3>1. proc' = [proc EXCEPT !.pc = "claim", !.next = c + 1]
      BY <2>2 DEF SaveClaim, ClaimNext
    <3>2. QED
      BY <2>1, <2>2, <3>1 DEF SaveClaim, Inv, ProcInv
  <2>3. CASE adopt(c)
    <3>1. proc' = [proc EXCEPT !.next = c + 1, !.adopted = @ \cup {c}] /\ proc.pc = "claim"
      BY <2>3 DEF adopt, claim
    <3>2. proc.next = c /\ UNCHANGED <<job, out, ledger, result, ceilings>>
      BY <2>3 DEF adopt, claim
    <3>3. ProcInv'
      <4>1. proc.adopted \cup {c} \in SUBSET Cands
        BY DEF Inv, ProcInv
      <4>2. QED
        BY <2>1, <3>1, <4>1 DEF Inv, ProcInv
    <3>4. proc'.pc = "claim" /\ proc'.next = c + 1 /\ proc'.envelope = proc.envelope
      BY <3>1 DEF Inv, ProcInv
    <3>5. QED
      BY <3>1, <3>2, <3>3, <3>4
  <2>4. QED
    BY <2>2, <2>3
<1>3. disk[c] \in Candidate /\ CandidateInv(disk[c], job[c], out[c])
      /\ job[c] = "none" /\ out[c] \in {"none", "error"}
  BY <1>2 DEF Inv, DiskInv, CandidateInv, PoolInv
<1>4. proc.envelope \in Nat /\ proc.envelope > 0 /\ disk[c].envelope \in Nat
  BY <1>2, <1>3 DEF Inv, SharesInv, ProcInv, Candidate
<1>5. /\ v \in Nat /\ v > 0 /\ disk[c].envelope <= v
      /\ v \in {proc.envelope, disk[c].envelope}
  <2>1. CASE disk[c].dir = "run"
    <3>1. disk[c].envelope > 0
      BY <1>3, <2>1 DEF CandidateInv
    <3>2. QED
      BY <1>1, <1>4, <2>1, <3>1 DEF raiseEnvelope, larger
  <2>2. CASE disk[c].dir # "run"
    <3>1. disk[c].envelope = 0
      BY <1>3, <2>2 DEF CandidateInv
    <3>2. QED
      BY <1>1, <1>4, <2>2, <3>1
  <2>3. QED
    BY <2>1, <2>2
<1>6. /\ d \in Candidate /\ d.dir = "run" /\ d.envelope = v
      /\ d.provision = disk[c].provision /\ d.run = disk[c].run /\ d.steps = disk[c].steps
      /\ d.spent = disk[c].spent /\ d.tree = disk[c].tree /\ d.ws = disk[c].ws
  BY <1>3, <1>5 DEF Candidate
<1>7. disk' = [disk EXCEPT ![c] = d]
  BY <1>1
<1> HIDE DEF d
<1>8. CandidateInv(d, job[c], out[c])
  <2>1. disk[c].spent \in Nat
    BY <1>3 DEF Candidate
  <2>2. /\ d.spent <= d.envelope + MaxCost
        /\ d.run = "open" => d.spent <= d.envelope
    <3>1. /\ disk[c].spent <= disk[c].envelope + MaxCost
          /\ disk[c].run = "open" => disk[c].spent <= disk[c].envelope
      BY <1>3 DEF CandidateInv
    <3>2. MaxCost \in Nat
      BY MaxCostIsMax
    <3>3. QED
      BY <1>4, <1>5, <1>6, <2>1, <3>1, <3>2
  <2>3. QED
    BY <1>3, <1>5, <1>6, <2>2 DEF CandidateInv
<1>9. disk'[c] = d /\ \A e \in Cands \ {c} : disk'[e] = disk[e]
  BY <1>7 DEF Inv, DiskInv
<1>10. DiskInv'
  <2>1. disk' = [e \in Cands |-> disk'[e]] /\ DOMAIN disk' = Cands
    BY <1>7 DEF Inv, DiskInv
  <2>2. \A e \in Cands : CandidateInv(disk'[e], job'[e], out'[e])
    BY <1>2, <1>8, <1>9 DEF Inv, DiskInv
  <2>3. QED
    BY <1>2, <2>1, <2>2 DEF Inv, DiskInv
<1>11. PoolInv'
  <2>1. \A e \in Cands : e < proc'.next => e = c \/ e < proc.next
    BY <1>2 DEF Cands
  <2>2. \A e \in Cands : /\ job'[e] = "none" /\ out'[e] \in {"none", "error"}
                         /\ e < proc'.next => disk'[e].dir = "run" \/ out'[e] = "error"
    BY <1>2, <1>6, <1>9, <2>1 DEF Inv, PoolInv
  <2>3. QED
    BY <1>2, <2>2 DEF PoolInv
<1>12. SharesInv'
  <2>1. PICK m \in ceilings :
          /\ IsHighest(m) /\ Spent <= m
          /\ \A e \in Cands : disk[e].envelope <= Partition(Spent, m)
          /\ proc.envelope <= Partition(Spent, m)
    BY <1>2 DEF Inv, SharesInv
  <2>2. \A e \in Cands : disk'[e].envelope <= Partition(Spent, m)
    BY <1>5, <1>6, <1>9, <2>1
  <2>3. IsHighest(m)'
    BY <1>2, <2>1 DEF IsHighest
  <2>4. QED
    BY <1>2, <1>4, <2>1, <2>2, <2>3 DEF Inv, SharesInv
<1>13. LedgerInv'
  <2>1. \A e \in Cands : disk[e].spent <= disk'[e].spent
    BY <1>6, <1>9 DEF Inv, DiskInv, CandidateInv, Candidate
  <2>2. QED
    BY <1>2, <1>10, <2>1, SpendGrows DEF Inv
<1>14. SettledInv'
  BY <1>2, Unsettled DEF Inv
<1>15. QED
  BY <1>2, <1>10, <1>11, <1>12, <1>13, <1>14 DEF Inv

LEMMA ClaimFailsKeeps ==
  ASSUME CandidatesAssumption, Inv, NEW c \in Cands, ClaimFails(c)
  PROVE  Inv'
<1>1. /\ proc.pc \in {"claim", "claiming"} /\ proc.next = c
      /\ out' = [out EXCEPT ![c] = "error"] /\ UNCHANGED <<disk, job, ledger, result, ceilings>>
      /\ proc' = [proc EXCEPT !.pc = "claim", !.next = c + 1]
  BY DEF ClaimFails, ClaimNext
<1>2. /\ out'[c] = "error" /\ \A e \in Cands \ {c} : out'[e] = out[e]
      /\ out' \in [Cands -> Outs]
  BY <1>1 DEF Inv, DiskInv, Outs
<1>3. /\ proc'.pc = "claim" /\ proc'.next = c + 1 /\ proc'.envelope = proc.envelope /\ ProcInv'
  <2>1. c + 1 \in Nat
    BY DEF Cands
  <2>2. QED
    BY <1>1, <2>1 DEF Inv, ProcInv
<1>4. DiskInv'
  <2>1. \A e \in Cands : CandidateInv(disk[e], job[e], out'[e])
    BY <1>2 DEF Inv, DiskInv, CandidateInv, Outs
  <2>2. QED
    BY <1>1, <1>2, <2>1 DEF Inv, DiskInv
<1>5. PoolInv'
  <2>1. \A e \in Cands : e < proc'.next => e = c \/ e < proc.next
    BY <1>1, <1>3 DEF Cands
  <2>2. QED
    BY <1>1, <1>2, <1>3, <2>1 DEF Inv, PoolInv
<1>6. SharesInv' /\ LedgerInv'
  BY <1>1, <1>3, <1>4, MoneyKept
<1>7. SettledInv'
  BY <1>1, Unsettled DEF Inv
<1>8. QED
  BY <1>3, <1>4, <1>5, <1>6, <1>7 DEF Inv

\* The pool is driven when every candidate is a run, and not before.
LEMMA AllClaimedKeeps ==
  ASSUME CandidatesAssumption, Inv, AllClaimed
  PROVE  Inv'
<1> DEFINE failed == \E c \in Cands : out[c] = "error"
<1>1. /\ proc.pc = "claim" /\ proc.next > N
      /\ proc' = [proc EXCEPT !.pc = IF failed THEN "return" ELSE "drive",
                              !.verdict = "paused", !.next = 1]
      /\ UNCHANGED <<disk, job, out, ledger, result, ceilings>>
  BY DEF AllClaimed
<1> HIDE DEF failed
<1>2. /\ proc'.pc = IF failed THEN "return" ELSE "drive"
      /\ proc'.verdict = "paused" /\ proc'.next = 1 /\ ProcInv'
  BY <1>1 DEF Inv, ProcInv
<1>3. DiskInv'
  BY <1>1 DEF Inv, DiskInv
<1>4. PoolInv'
  <2>1. \A c \in Cands : c < proc.next /\ ~ (c < 1)
    BY <1>1 DEF Cands, Inv, ProcInv, CandidatesAssumption
  <2>2. \A c \in Cands : job[c] = "none"
    BY <1>1 DEF Inv, PoolInv
  <2>3. ~ failed => \A c \in Cands : disk[c].dir = "run" /\ out[c] = "none"
    BY <1>1, <2>1 DEF Inv, PoolInv, failed
  <2>4. QED
    BY <1>1, <1>2, <2>1, <2>2, <2>3 DEF PoolInv
<1>5. SharesInv' /\ LedgerInv'
  BY <1>1, <1>2, <1>3, MoneyKept
<1>6. SettledInv'
  BY <1>1, Unsettled DEF Inv
<1>7. QED
  BY <1>2, <1>3, <1>4, <1>5, <1>6 DEF Inv

\* A workspace that was recorded is gone on in; only one that was not is
\* cleared.
LEMMA OneKeeps ==
  ASSUME CandidatesAssumption, Inv, NEW c \in Cands, one(c)
  PROVE  Inv'
<1> DEFINE j == IF disk[c].provision = "refused" THEN "done"
                ELSE IF disk[c].provision = "ok" THEN "resume"
                ELSE IF c \in proc.adopted THEN "reclaim" ELSE "create"
           o == IF disk[c].provision = "refused" THEN "refused" ELSE "none"
<1>1. /\ proc.pc = "drive" /\ proc.next = c
      /\ proc' = [proc EXCEPT !.next = c + 1]
      /\ job' = [job EXCEPT ![c] = j]
      /\ UNCHANGED <<disk, ledger, result, ceilings>>
  BY DEF one
<1>2. disk[c].dir = "run" /\ job[c] = "none" /\ out[c] = "none"
      /\ disk[c] \in Candidate /\ CandidateInv(disk[c], job[c], out[c])
  BY <1>1 DEF Inv, PoolInv, Cands, DiskInv, CandidateInv
<1>3. out' = [out EXCEPT ![c] = o]
  <2>1. out = [out EXCEPT ![c] = "none"]
    BY <1>2 DEF Inv, DiskInv
  <2>2. QED
    BY <2>1 DEF one
<1>4. CandidateInv(disk[c], j, o) /\ j # "none" /\ (j = "done" <=> o # "none")
  <2>1. disk[c].provision \in {"pending", "ok", "refused"}
    BY <1>2 DEF Candidate
  <2>2. QED
    BY <1>2, <2>1 DEF CandidateInv, Jobs, Outs
<1> HIDE DEF j, o
<1>5. /\ proc'.pc = "drive" /\ proc'.next = c + 1 /\ ProcInv'
  <2>1. c + 1 \in Nat
    BY DEF Cands
  <2>2. QED
    BY <1>1, <2>1 DEF Inv, ProcInv
<1>6. /\ job'[c] = j /\ out'[c] = o
      /\ \A e \in Cands \ {c} : job'[e] = job[e] /\ out'[e] = out[e]
  BY <1>1, <1>3 DEF Inv, DiskInv
<1>7. DiskInv'
  <2>1. job' \in [Cands -> Jobs] /\ out' \in [Cands -> Outs]
    BY <1>1, <1>3, <1>4 DEF Inv, DiskInv, CandidateInv
  <2>2. \A e \in Cands : CandidateInv(disk[e], job'[e], out'[e])
    BY <1>4, <1>6 DEF Inv, DiskInv
  <2>3. QED
    BY <1>1, <2>1, <2>2 DEF Inv, DiskInv
<1>8. PoolInv'
  <2>1. \A e \in Cands \ {c} : e < proc'.next <=> e < proc.next
    BY <1>1, <1>5 DEF Cands
  <2>2. c < proc'.next
    BY <1>5 DEF Cands
  <2>3. \A e \in Cands : /\ disk'[e].dir = "run"
                         /\ e < proc'.next <=> job'[e] # "none"
                         /\ job'[e] = "done" <=> out'[e] # "none"
    BY <1>1, <1>4, <1>6, <2>1, <2>2 DEF Inv, PoolInv
  <2>4. QED
    BY <1>5, <2>3 DEF PoolInv
<1>9. SharesInv' /\ LedgerInv'
  BY <1>1, <1>5, <1>7, MoneyKept
<1>10. SettledInv'
  BY <1>1, Unsettled DEF Inv
<1>11. QED
  BY <1>5, <1>7, <1>8, <1>9, <1>10 DEF Inv

-----------------------------------------------------------------------------
(***************************************************************************)
(* The end of an attempt.                                                  *)
(***************************************************************************)
\* A pool that drained without a cut or a failure has every candidate ended.
LEMMA ReturnKeeps ==
  ASSUME CandidatesAssumption, Inv, Return
  PROVE  Inv'
<1>1. /\ proc.pc = "drive" /\ Busy = {} /\ (proc.next > N \/ proc.canceled)
      /\ proc' = [proc EXCEPT !.pc = "return", !.verdict = Verdict]
      /\ UNCHANGED <<disk, job, out, ledger, result, ceilings>>
  BY DEF Return, Drained
<1>2. Verdict \in {"limit", "paused", "canceled", "settled"}
  BY DEF Verdict
<1>3. /\ proc'.pc = "return" /\ proc'.verdict = Verdict /\ ProcInv'
  BY <1>1, <1>2 DEF Inv, ProcInv
<1>4. DiskInv'
  BY <1>1 DEF Inv, DiskInv
<1>5. PoolInv'
  <2>1. \A c \in Cands : job[c] \in {"none", "done"}
    BY <1>1 DEF Busy
  <2>2. ASSUME Verdict = "settled", NEW c \in Cands PROVE out[c] \in {"ended", "refused"}
    <3>1. ~ proc.canceled /\ proc.next > N
      BY <1>1, <2>2 DEF Verdict
    <3>2. c < proc.next
      BY <3>1 DEF Cands, Inv, ProcInv, CandidatesAssumption
    <3>3. job[c] = "done" /\ out[c] # "none"
      BY <1>1, <2>1, <3>2 DEF Inv, PoolInv
    <3>4. out[c] \notin {"limit", "error", "paused"}
      BY <2>2, <3>1 DEF Verdict
    <3>5. out[c] \in Outs
      BY DEF Inv, DiskInv
    <3>6. QED
      BY <3>3, <3>4, <3>5 DEF Outs
  <2>3. QED
    BY <1>1, <1>3, <2>1, <2>2 DEF PoolInv
<1>6. SharesInv' /\ LedgerInv'
  BY <1>1, <1>3, <1>4, MoneyKept
<1>7. SettledInv'
  BY <1>1, Unsettled DEF Inv
<1>8. QED
  BY <1>3, <1>4, <1>5, <1>6, <1>7 DEF Inv

\* An attempt that is over, or cut off, leaves the next one to begin anew.
LEMMA AllDown ==
  ASSUME Inv, UNCHANGED <<disk, ceilings>>, proc' = [Down EXCEPT !.attempts = proc.attempts],
         job' = [c \in Cands |-> "none"], out' = [c \in Cands |-> "none"]
  PROVE  DiskInv' /\ ProcInv' /\ PoolInv' /\ SharesInv'
<1>1. proc'.pc = "down" /\ ProcInv'
  BY DEF Inv, ProcInv, Down
<1>2. DiskInv'
  <2>1. \A c \in Cands : CandidateInv(disk[c], "none", "none")
    BY DEF Inv, DiskInv, CandidateInv, Jobs, Outs
  <2>2. QED
    BY <2>1 DEF Inv, DiskInv, Jobs, Outs
<1>3. PoolInv'
  BY <1>1 DEF PoolInv
<1>4. SharesInv'
  BY <1>1 DEF Inv, SharesInv, IsHighest
<1>5. QED
  BY <1>1, <1>2, <1>3, <1>4

\* What the attempt reports is at most what its candidates spent, and all of
\* it when none is missing.
LEMMA ReportedSpend ==
  ASSUME CandidatesAssumption, Inv
  PROVE  /\ spentBy \in Nat /\ Sum(SpentBy) \in Nat /\ spentBy <= Sum(SpentBy)
         /\ (\A c \in Cands : out[c] \in {"ended", "refused"}) => spentBy = Sum(SpentBy)
<1> DEFINE f == [c \in Cands |-> IF out[c] \in {"limit", "paused", "ended"}
                                   THEN disk[c].spent ELSE 0]
<1>1. SpentBy \in Amounts /\ \A c \in Cands : SpentBy[c] = disk[c].spent
  BY SpentIsAmounts DEF Inv
<1>2. f \in Amounts /\ \A c \in Cands : f[c] <= SpentBy[c]
  BY <1>1 DEF Amounts
<1>3. spentBy = Sum(f)
  BY DEF spentBy
<1>4. (\A c \in Cands : out[c] \in {"ended", "refused"}) => f = SpentBy
  <2> SUFFICES ASSUME \A c \in Cands : out[c] \in {"ended", "refused"} PROVE f = SpentBy
    OBVIOUS
  <2>1. ASSUME NEW c \in Cands PROVE f[c] = disk[c].spent
    <3>1. CASE out[c] = "ended"
      BY <3>1
    <3>2. CASE out[c] = "refused"
      <4>1. CandidateInv(disk[c], job[c], out[c])
        BY DEF Inv, DiskInv
      <4>2. disk[c].spent = 0
        BY <3>2, <4>1 DEF CandidateInv
      <4>3. QED
        BY <3>2, <4>2
    <3>3. QED
      BY <3>1, <3>2
  <2>2. f = [c \in Cands |-> disk[c].spent]
    BY <2>1
  <2>3. QED
    BY <2>2 DEF SpentBy
<1> HIDE DEF f
<1>5. QED
  BY <1>1, <1>2, <1>3, <1>4, SumMonotone DEF CandidatesAssumption

LEMMA SettleKeeps ==
  ASSUME CandidatesAssumption, Inv, SettleAttempt
  PROVE  Inv'
<1>1. /\ proc.pc = "return" /\ ledger' = Charged /\ UNCHANGED <<disk, ceilings>>
      /\ proc' = [Down EXCEPT !.attempts = proc.attempts]
      /\ job' = [c \in Cands |-> "none"] /\ out' = [c \in Cands |-> "none"]
      /\ result'.verdict = proc.verdict
      /\ proc.verdict = "settled" => result'.candidates = [c \in Cands |-> asCandidate(c)]
  BY DEF SettleAttempt
<1>2. DiskInv' /\ ProcInv' /\ PoolInv' /\ SharesInv'
  BY <1>1, AllDown
<1>3. /\ ledger \in Ledgers /\ ledger.total = Spent + ledger.of[Fanout] /\ Spent \in Nat
      /\ ledger.of[Fanout] <= Sum(SpentBy) /\ Fanout \in Names /\ ledger.of[Fanout] \in Nat
  BY DEF Inv, LedgerInv, Ledgers, CandidatesAssumption, Fanout
<1> DEFINE new == Unrecorded(ledger, Fanout, spentBy)
<1>4. /\ spentBy \in Nat /\ Sum(SpentBy) \in Nat /\ spentBy <= Sum(SpentBy)
  BY ReportedSpend
<1>5. /\ new \in Nat /\ ledger.of[Fanout] + new <= Sum(SpentBy)
      /\ spentBy = Sum(SpentBy) => ledger.of[Fanout] + new = Sum(SpentBy)
  BY <1>3, <1>4 DEF Unrecorded
<1> HIDE DEF new
<1>6. /\ ledger' \in Ledgers /\ ledger'.of[Fanout] = ledger.of[Fanout] + new
      /\ ledger'.total = ledger.total + new
  <2>1. ledger' = RecordSum(ledger, Fanout, new)
    BY <1>1 DEF Charged, new
  <2>2. ledger.total + new \in Nat /\ ledger.of[Fanout] + new \in Nat
    BY <1>3, <1>5
  <2>3. QED
    BY <1>3, <2>1, <2>2 DEF RecordSum, Ledgers
<1>7. Sum(SpentBy)' = Sum(SpentBy)
  BY <1>1 DEF SpentBy, Sum
<1>8. LedgerInv'
  BY <1>3, <1>5, <1>6, <1>7 DEF LedgerInv
<1>9. SettledInv'
  <2> SUFFICES ASSUME proc.verdict = "settled"
               PROVE  /\ proc'.pc = "down" /\ ledger'.of[Fanout] = Sum(SpentBy)'
                      /\ \A c \in Cands : disk'[c].run \in Ends \/ disk'[c].provision = "refused"
                      /\ result'.candidates = [c \in Cands |-> asCandidate(c)]'
    BY <1>1 DEF SettledInv
  <2>1. \A c \in Cands : out[c] \in {"ended", "refused"}
    BY <1>1 DEF Inv, PoolInv
  <2>2. \A c \in Cands : disk[c].run \in Ends \/ disk[c].provision = "refused"
    BY <2>1 DEF Inv, DiskInv, CandidateInv
  <2>3. ledger'.of[Fanout] = Sum(SpentBy)'
    BY <1>5, <1>6, <1>7, <2>1, ReportedSpend
  <2>4. proc'.pc = "down"
    BY <1>1 DEF Down
  <2>5. result'.candidates = [c \in Cands |-> asCandidate(c)]'
    BY <1>1 DEF asCandidate
  <2>6. QED
    BY <1>1, <2>2, <2>3, <2>4, <2>5
<1>10. QED
  BY <1>2, <1>8, <1>9 DEF Inv

LEMMA CutKeeps ==
  ASSUME CandidatesAssumption, Inv, Cancel \/ Crash
  PROVE  Inv'
<1>1. CASE Cancel
  <2>1. /\ proc.pc = "drive" /\ proc' = [proc EXCEPT !.canceled = TRUE]
        /\ UNCHANGED <<disk, job, out, ledger, result, ceilings>>
    BY <1>1 DEF Cancel
  <2>2. /\ proc'.pc = "drive" /\ proc'.next = proc.next /\ ProcInv'
    BY <2>1 DEF Inv, ProcInv
  <2>3. DiskInv' /\ PoolInv'
    BY <2>1, <2>2 DEF Inv, DiskInv, PoolInv
  <2>4. SharesInv' /\ LedgerInv'
    BY <2>1, <2>2, <2>3, MoneyKept
  <2>5. SettledInv'
    BY <2>1, Unsettled DEF Inv
  <2>6. QED
    BY <2>2, <2>3, <2>4, <2>5 DEF Inv
<1>2. CASE Crash
  <2>1. /\ proc.pc # "down" /\ UNCHANGED <<disk, ledger, result, ceilings>>
        /\ proc' = [Down EXCEPT !.attempts = proc.attempts]
        /\ job' = [c \in Cands |-> "none"] /\ out' = [c \in Cands |-> "none"]
    BY <1>2 DEF Crash
  <2>2. DiskInv' /\ ProcInv' /\ PoolInv' /\ SharesInv'
    BY <2>1, AllDown
  <2>3. LedgerInv' /\ SettledInv'
    BY <2>1, Unsettled DEF Inv, LedgerInv, SpentBy, Sum
  <2>4. QED
    BY <2>2, <2>3 DEF Inv
<1>3. QED
  BY <1>1, <1>2

LEMMA NextInv == ASSUME CandidatesAssumption, Inv, [Next]_vars PROVE Inv'
<1>1. CASE UNCHANGED vars
  <2>1. UNCHANGED <<disk, proc, job, out, ledger, result, ceilings>>
    BY <1>1 DEF vars
  <2>2. DiskInv' /\ ProcInv'
    BY <2>1 DEF Inv, DiskInv, ProcInv
  <2>3. PoolInv'
    BY <2>1 DEF Inv, PoolInv
  <2>4. SharesInv'
    BY <2>1 DEF Inv, SharesInv, IsHighest
  <2>5. Sum(SpentBy)' = Sum(SpentBy)
    BY <2>1 DEF SpentBy, Sum
  <2>6. LedgerInv'
    BY <2>1, <2>5 DEF Inv, LedgerInv
  <2>7. \A c \in Cands : asCandidate(c)' = asCandidate(c)
    BY <2>1 DEF asCandidate
  <2>8. SettledInv'
    BY <2>1, <2>5, <2>7 DEF Inv, SettledInv
  <2>9. QED
    BY <2>2, <2>3, <2>4, <2>6, <2>8 DEF Inv
<1>2. ASSUME NEW ceiling \in Ceilings, Begin(ceiling) PROVE Inv'
  BY <1>2, BeginKeeps
<1>3. ASSUME NEW c \in Cands,
             \/ removeTornClaim(c) \/ claimFresh(c) \/ SaveClaim(c) \/ adopt(c)
             \/ one(c) \/ Reclaim(c) \/ BeginWorkspace(c) \/ makeWorkspace(c)
             \/ RecordWorkspace(c) \/ ChildHeals(c) \/ ChildStops(c) \/ ChildStarts(c)
             \/ ChildCutShort(c)
             \/ \E cost \in StepCosts : ChildSteps(c, cost) \/ ChildEnds(c, cost)
      PROVE  Inv'
  <2>1. CASE removeTornClaim(c) \/ claimFresh(c)
    BY <2>1, ClaimBeginsKeeps
  <2>2. CASE SaveClaim(c) \/ adopt(c)
    BY <2>2, ClaimKeeps
  <2>3. CASE one(c)
    BY <2>3, OneKeeps
  <2>4. CASE Reclaim(c) \/ BeginWorkspace(c) \/ makeWorkspace(c) \/ RecordWorkspace(c)
    BY <2>4, WorkspaceKeeps
  <2>5. CASE \/ ChildHeals(c) \/ ChildStops(c) \/ ChildStarts(c) \/ ChildCutShort(c)
             \/ \E cost \in StepCosts : ChildSteps(c, cost) \/ ChildEnds(c, cost)
    BY <2>5, ChildKeeps
  <2>6. QED
    BY <1>3, <2>1, <2>2, <2>3, <2>4, <2>5
<1>4. CASE AllClaimed
  BY <1>4, AllClaimedKeeps
<1>5. CASE Return
  BY <1>5, ReturnKeeps
<1>6. CASE SettleAttempt
  BY <1>6, SettleKeeps
<1>7. ASSUME NEW c \in Cands, ClaimFails(c) \/ WorkerFails(c) \/ refuse(c) PROVE Inv'
  BY <1>7, ClaimFailsKeeps, WorkerFailsKeeps, WorkspaceKeeps
<1>8. CASE Cancel \/ Crash
  BY <1>8, CutKeeps
<1>9. QED
  BY <1>1, <1>2, <1>3, <1>4, <1>5, <1>6, <1>7, <1>8 DEF Next, Advance

LEMMA SpecInv == Spec => []Inv
<1>1. CandidatesAssumption
  BY CandidatesAssumption
<1>2. Init => Inv
  BY <1>1, InitInv
<1>3. Inv /\ [Next]_vars => Inv'
  BY <1>1, NextInv
<1>4. QED
  BY <1>2, <1>3, PTL DEF Spec
-----------------------------------------------------------------------------
(***************************************************************************)
(* The money.                                                              *)
(***************************************************************************)
\* Envelopes of at most a share each fit what the highest ceiling left.
LEMMA EnvelopesFit == ASSUME CandidatesAssumption, Inv PROVE EnvelopesHold
<1> DEFINE f == [c \in Cands |-> disk[c].envelope]
<1>1. ASSUME ceilings # {} PROVE Sum(f) <= Max(ceilings) - Spent
  <2>1. PICK m \in ceilings : /\ IsHighest(m) /\ Spent <= m
                             /\ \A c \in Cands : disk[c].envelope <= Partition(Spent, m)
    BY <1>1 DEF Inv, SharesInv
  <2>2. m \in Nat /\ Spent \in Nat /\ N \in Nat \ {0}
    BY DEF Inv, SharesInv, CandidatesAssumption
  <2>3. Max(ceilings) = m
    <3>1. ceilings \subseteq Nat
      BY DEF Inv, SharesInv
    <3>2. \A x \in ceilings : m >= x
      BY <2>1, <2>2, <3>1 DEF IsHighest
    <3>3. Max(ceilings) \in ceilings /\ \A x \in ceilings : Max(ceilings) >= x
      BY <3>2 DEF Max
    <3>4. Max(ceilings) >= m /\ m >= Max(ceilings) /\ Max(ceilings) \in Nat
      BY <3>1, <3>2, <3>3
    <3>5. QED
      BY <2>2, <3>4
  <2>4. Partition(Spent, m) \in Nat /\ N * Partition(Spent, m) <= m - Spent
    BY <2>1, <2>2, ShareOf
  <2>5. f \in Amounts /\ \A c \in Cands : f[c] <= Partition(Spent, m)
    BY <2>1 DEF Inv, DiskInv, CandidateInv, Candidate, Amounts
  <2> HIDE DEF f
  <2>6. Sum(f) <= N * Partition(Spent, m) /\ Sum(f) \in Nat
    BY <2>2, <2>4, <2>5, SumBounded, SumIsNat
  <2>7. QED
    BY <2>2, <2>3, <2>4, <2>6
<1>2. ASSUME NEW c \in Cands PROVE disk[c].spent <= disk[c].envelope + MaxCost
  BY DEF Inv, DiskInv, CandidateInv
<1>3. QED
  BY <1>1, <1>2 DEF EnvelopesHold, MaxCost

\* The parent is charged what it has not been charged before, and for
\* candidates that are over.
LEMMA ChargedOnce == ASSUME Inv PROVE CountedOnce
BY DEF Inv, LedgerInv, SettledInv, SpentBy, CountedOnce

\* partition, raiseEnvelope and the parent's Charged: what candidates may
\* spend together fits what the highest ceiling of any attempt left, none
\* outspends its envelope by more than the step that crosses it, and the
\* parent is charged at most what they spent, and all of it once settled,
\* for any number of candidates, attempts, adoptions and deaths.
THEOREM CandidatesMoneyHolds == Spec => []MoneyHolds
<1>1. CandidatesAssumption
  BY CandidatesAssumption
<1>2. Inv => MoneyHolds
  BY <1>1, EnvelopesFit, ChargedOnce DEF MoneyHolds
<1>3. QED
  BY <1>2, SpecInv, PTL

-----------------------------------------------------------------------------
(***************************************************************************)
(* The work.                                                               *)
(***************************************************************************)
\* What resume runs, and what reclaim clears.
LEMMA WorkKept == ASSUME Inv PROVE PaidWorkKept
BY DEF Inv, DiskInv, CandidateInv, PaidWorkKept

\* A measure with ties broken by id has a least candidate, and Best is one
\* of those it was offered.
LEMMA BestIsOffered ==
  ASSUME NEW offered, offered # {}, NEW measure \in [offered -> Nat],
         \A c \in offered : c.id \in Nat
  PROVE  Best(offered, measure) \in offered
<1> DEFINE M == {measure[c] : c \in offered}
<1>1. M \in SUBSET Nat /\ M # {}
  OBVIOUS
<1>2. PICK m \in M : \A k \in M : m <= k
  BY <1>1, LeastOfASet
<1> DEFINE I == {c.id : c \in {d \in offered : measure[d] = m}}
<1>3. I \in SUBSET Nat /\ I # {}
  OBVIOUS
<1>4. PICK i \in I : \A k \in I : i <= k
  BY <1>3, LeastOfASet
<1>5. PICK c \in offered : measure[c] = m /\ c.id = i
  OBVIOUS
<1>6. ASSUME NEW d \in offered
      PROVE  measure[c] < measure[d] \/ (measure[c] = measure[d] /\ c.id <= d.id)
  <2>1. m <= measure[d] /\ m \in Nat /\ measure[d] \in Nat
    BY <1>1, <1>2
  <2>2. CASE measure[d] = m
    <3>1. i <= d.id
      BY <1>4, <2>2
    <3>2. QED
      BY <1>5, <2>2, <3>1
  <2>3. CASE measure[d] # m
    BY <1>5, <2>1, <2>3
  <2>4. QED
    BY <2>2, <2>3
<1>7. QED
  BY <1>5, <1>6 DEF Best

\* What join picks from is what fanout reported, and it is not the zero that
\* stands for no candidate.
LEMMA SelectPicksEligible ==
  ASSUME CandidatesAssumption, NEW candidates, DOMAIN candidates = Cands,
         \A c \in Cands : /\ candidates[c].id = c /\ candidates[c].issues \in Nat
                         /\ candidates[c].duration \in Nat,
         Select(candidates) # 0
  PROVE  Select(candidates) \in Cands /\ eligible(candidates[Select(candidates)])
<1> DEFINE offered == {candidates[c] : c \in {d \in Cands : eligible(candidates[d])}}
<1>1. offered # {}
  BY DEF Select
<1>2. \A x \in offered : /\ x.id \in Cands /\ candidates[x.id] = x /\ eligible(x)
                        /\ x.id \in Nat /\ x.issues \in Nat /\ x.duration \in Nat
  BY DEF Cands
<1>3. /\ [c \in offered |-> c.issues] \in [offered -> Nat]
      /\ [c \in offered |-> c.duration] \in [offered -> Nat]
      /\ [c \in offered |-> 0] \in [offered -> Nat]
  BY <1>2
<1> HIDE DEF offered
<1>4. /\ Best(offered, [c \in offered |-> c.issues]) \in offered
      /\ firstInOrder(offered) \in offered /\ fastest(offered) \in offered
  BY <1>1, <1>2, <1>3, BestIsOffered DEF firstInOrder, fastest
<1>5. \E x \in offered : Select(candidates) = x.id
  <2>1. CASE Strategy = "fewest_issues"
    <3>1. Select(candidates) = Best(offered, [c \in offered |-> c.issues]).id
      BY <1>1, <2>1 DEF Select, offered
    <3>2. QED
      BY <1>4, <3>1
  <2>2. CASE Strategy = "first_pass"
    <3>1. Select(candidates) = firstInOrder(offered).id
      BY <1>1, <2>2 DEF Select, offered
    <3>2. QED
      BY <1>4, <3>1
  <2>3. CASE Strategy = "fastest"
    <3>1. Select(candidates) = fastest(offered).id
      BY <1>1, <2>3 DEF Select, offered
    <3>2. QED
      BY <1>4, <3>1
  <2>4. QED
    BY <2>1, <2>2, <2>3 DEF CandidatesAssumption
<1>6. QED
  BY <1>2, <1>5

\* A candidate that completed its run was resumed in a whole workspace.
LEMMA WinnersStand == ASSUME CandidatesAssumption, Inv PROVE WinnerStands
<1> SUFFICES ASSUME result.verdict = "settled"
             PROVE  LET winner == Select(result.candidates)
                    IN  /\ \A c \in Cands : disk[c].run \in Ends \/ disk[c].provision = "refused"
                        /\ result.candidates = [c \in Cands |-> asCandidate(c)]
                        /\ winner # 0 => /\ disk[winner].run = "completed"
                                         /\ disk[winner].provision = "ok"
                                         /\ disk[winner].ws = "whole"
  BY DEF WinnerStands
<1> DEFINE winner == Select(result.candidates)
<1>1. /\ \A c \in Cands : disk[c].run \in Ends \/ disk[c].provision = "refused"
      /\ result.candidates = [c \in Cands |-> asCandidate(c)]
  BY DEF Inv, SettledInv
<1>2. ASSUME winner # 0 PROVE /\ disk[winner].run = "completed"
                               /\ disk[winner].provision = "ok" /\ disk[winner].ws = "whole"
  <2>1. /\ DOMAIN result.candidates = Cands
        /\ \A c \in Cands : result.candidates[c] = asCandidate(c)
    BY <1>1
  <2>2. \A c \in Cands : asCandidate(c).id = c /\ asCandidate(c).issues \in Nat
                         /\ asCandidate(c).duration \in Nat
    BY DEF asCandidate, Inv, DiskInv, CandidateInv, Candidate
  <2>3. winner \in Cands /\ eligible(result.candidates[winner])
    BY <1>2, <2>1, <2>2, SelectPicksEligible
  <2> HIDE DEF winner
  <2>4. eligible(asCandidate(winner))
    BY <2>1, <2>3
  <2>5. disk[winner].provision # "refused" /\ disk[winner].run = "completed"
    BY <2>4 DEF eligible, asCandidate
  <2>6. CandidateInv(disk[winner], job[winner], out[winner])
    BY <2>3 DEF Inv, DiskInv
  <2>7. QED
    BY <2>5, <2>6 DEF CandidateInv
<1>3. QED
  BY <1>1, <1>2

\* claim, one, makeWorkspace and resume: no attempt clears a workspace that
\* holds paid work; and join picks of candidates that are over, one that
\* completed in a whole workspace, the same whenever it is asked.
THEOREM CandidatesAlwaysKept == Spec => []CandidatesKept
<1>1. CandidatesAssumption
  BY CandidatesAssumption
<1>2. Inv => CandidatesKept
  BY <1>1, WorkKept, WinnersStand DEF CandidatesKept
<1>3. QED
  BY <1>2, SpecInv, PTL

-----------------------------------------------------------------------------
(***************************************************************************)
(* The loop.  A verdict is worth something where it stands: the tree has   *)
(* not been edited since, and the nodes between the gate and the end do    *)
(* not edit.  The invariant says of each gate which verdicts stand when it *)
(* is reached.                                                             *)
(***************************************************************************)
Stands(verdict, gate) == verdict = "pass" /\ gate \in judged

PolicyStands == graph.policy => Stands(policy, "policy")

\* A run with no policy has no verdict of one, and one that fans out never
\* edits its own tree.
WiringInv ==
  /\ graph \in Graphs
  /\ status = "running" => node \in Registered(graph)
  /\ ~ graph.policy => policy = "none"
  /\ graph.fanout => tree = {}

\* The verdicts that stand at each gate, and at the end.
JudgedInv ==
  ~ graph.fanout =>
    /\ At("test")   => PolicyStands
    /\ At("review") => PolicyStands /\ Stands(test, "test")
    /\ node = "promote" \/ status = "completed"
         => PolicyStands /\ Stands(test, "test") /\ Stands(review, "review")

\* What a standing verdict of the policy says.
PolicyInv ==
  graph.recorded /\ Stands(policy, "policy") => tree \cap (Guarded \cup Forbidden) = {}

CauseInv == At("fix") => detectCause = sender

\* Where belay can tell what changed: every name in the change set is one a
\* reply named, or a file's own that is listed or was put back since; and from
\* write to the next edit the change set has all that changed.
Accounted(f) == Named(f) \/ (f \in OnDisk /\ f \in code.unreported \cup mended)

NamesInv ==
  /\ code \in [changed: SUBSET Files, unreported: SUBSET Files] /\ tree \subseteq OnDisk
  /\ graph.recorded =>
       /\ \A f \in code.changed : Accounted(f)
       /\ Verified => tree \subseteq code.changed

LoopInv == WiringInv /\ JudgedInv /\ PolicyInv /\ CauseInv

-----------------------------------------------------------------------------
\* The wirings there are.
LEMMA Wirings ==
  ASSUME WiringInv
  PROVE  /\ graph.policy \in BOOLEAN /\ graph.fanout \in BOOLEAN /\ graph.branch \in BOOLEAN
         /\ graph.candidate \in BOOLEAN /\ graph.approval \in BOOLEAN /\ graph.recorded \in BOOLEAN
         /\ graph.candidate => ~ graph.approval /\ ~ graph.branch /\ ~ graph.fanout
BY WorkLoopAssumption DEF WorkLoopAssumption, WiringInv

\* The nodes of the work are in a run's graph only where it does not fan out,
\* and join only where it does.
LEMMA WorkIsNotFannedOut ==
  ASSUME WiringInv, status = "running"
  PROVE  /\ node \in {"code", "write", "policy", "test", "fix", "review"} => ~ graph.fanout
         /\ node \in {"fanout", "join"} => graph.fanout
         /\ node = "policy" => graph.policy
         /\ node # GraphEnd
BY Wirings DEF WiringInv, Registered, work, GraphEnd

\* A run goes from the last of its gates to promote or to its end.
LEMMA PassesOn ==
  ASSUME WiringInv
  PROVE  OnPass(graph) = GraphEnd \/ (OnPass(graph) = "promote" /\ "promote" \in Registered(graph))
BY Wirings DEF OnPass, Registered

LEMMA LoopInitInv == LoopInit => LoopInv
<1> SUFFICES ASSUME LoopInit PROVE LoopInv
  OBVIOUS
<1>1. WiringInv
  BY WorkLoopAssumption DEF LoopInit, WorkLoopAssumption, WiringInv, Registered, Entry, work
<1>2. JudgedInv /\ PolicyInv /\ CauseInv
  BY DEF LoopInit, JudgedInv, PolicyInv, CauseInv, At, Stands, PolicyStands, Entry
<1>3. QED
  BY <1>1, <1>2 DEF LoopInv

-----------------------------------------------------------------------------
(***************************************************************************)
(* The nodes around the work.                                              *)
(***************************************************************************)
LEMMA AroundInv ==
  ASSUME LoopInv, PlanRun \/ ApproveRun \/ FanoutRun \/ JoinRun
  PROVE  LoopInv'
<1> USE DEF LoopInv
<1>1. UNCHANGED <<run, code, gates, fix, tree, seen>> /\ status = "running"
      /\ node \in {"plan", "approve", "fanout", "join"}
  BY DEF PlanRun, ApproveRun, FanoutRun, JoinRun, At
<1>2. \/ status' = "failed" /\ node' = node /\ graph.fanout
      \/ Goto("join") /\ graph.fanout
      \/ Goto("approve") /\ graph.approval /\ ~ graph.candidate
      \/ Goto("fanout") /\ graph.fanout
      \/ Goto("code") /\ ~ graph.fanout
      \/ Goto(OnPass(graph)) /\ graph.fanout
  <2>1. CASE PlanRun
    <3>1. graph.candidate = FALSE
      BY <2>1, Wirings DEF PlanRun, At, WiringInv, Registered, work
    <3>2. QED
      BY <2>1, <3>1, Wirings DEF PlanRun, OnPlanned, WorkEntry
  <2>2. CASE ApproveRun
    BY <2>2, Wirings DEF ApproveRun, WorkEntry
  <2>3. CASE FanoutRun
    BY <2>3, WorkIsNotFannedOut DEF FanoutRun, At
  <2>4. CASE JoinRun
    BY <2>4, WorkIsNotFannedOut DEF JoinRun, At, Fail
  <2>5. QED
    BY <2>1, <2>2, <2>3, <2>4
<1>3. WiringInv'
  <2>1. status' = "running" => node' \in Registered(graph)
    BY <1>2, Wirings, PassesOn DEF Goto, Registered, work, GraphEnd
  <2>2. QED
    BY <1>1, <2>1 DEF WiringInv, run, gates, Registered, work
<1>4. JudgedInv'
  BY <1>1, <1>2 DEF JudgedInv, At, Goto, run, gates, seen, GraphEnd
<1>5. PolicyInv'
  BY <1>1 DEF PolicyInv, Stands, run, gates, seen
<1>6. CauseInv'
  <2>1. node' # "fix"
    BY <1>1, <1>2 DEF Goto, OnPass, GraphEnd
  <2>2. QED
    BY <2>1 DEF CauseInv, At
<1>7. QED
  BY <1>3, <1>4, <1>5, <1>6

\* What promote makes of the run rests on the verdicts it was reached with.
LEMMA PromoteInv ==
  ASSUME LoopInv, PromoteRun
  PROVE  LoopInv'
<1> USE DEF LoopInv
<1>1. UNCHANGED <<run, code, gates, fix, tree, seen>> /\ node = "promote"
      /\ status' \in {"completed", "failed"} /\ node' \in {"promote", GraphEnd}
  BY DEF PromoteRun, At, Goto, Fail
<1>2. WiringInv'
  BY <1>1 DEF WiringInv, run, gates
<1>3. JudgedInv'
  BY <1>1 DEF JudgedInv, At, run, gates, seen, PolicyStands, Stands
<1>4. PolicyInv' /\ CauseInv'
  BY <1>1 DEF PolicyInv, CauseInv, At, Stands, run, gates, seen
<1>5. QED
  BY <1>2, <1>3, <1>4

\* A node that fails leaves a run nothing is claimed of.
LEMMA FailsInv ==
  ASSUME LoopInv, Fail, UNCHANGED run, status = "running",
         node # "promote", graph.fanout => UNCHANGED tree, UNCHANGED policy,
         PolicyInv'
  PROVE  LoopInv'
<1>1. WiringInv'
  BY DEF LoopInv, WiringInv, Fail, run
<1>2. JudgedInv' /\ CauseInv'
  BY DEF JudgedInv, CauseInv, At, Fail
<1>3. QED
  BY <1>1, <1>2 DEF LoopInv

-----------------------------------------------------------------------------
(***************************************************************************)
(* The agent.  An edit leaves no verdict standing.                         *)
(***************************************************************************)
LEMMA EditKeepsPolicyInv ==
  ASSUME Edit
  PROVE  PolicyInv'
BY DEF Edit, PolicyInv, Stands

LEMMA AgentNodes ==
  ASSUME LoopInv, AgentRuns
  PROVE  /\ node \in {"code", "fix"} /\ status = "running" /\ ~ graph.fanout
BY WorkIsNotFannedOut DEF AgentRuns, At, LoopInv

LEMMA AgentFailsInv ==
  ASSUME LoopInv, AgentFails
  PROVE  LoopInv'
BY AgentNodes, EditKeepsPolicyInv, FailsInv DEF AgentFails, gates

LEMMA AgentCutInv ==
  ASSUME LoopInv, AgentCut
  PROVE  LoopInv'
<1>1. /\ node \in {"code", "fix"} /\ status = "running" /\ ~ graph.fanout
      /\ UNCHANGED <<run, node, status, gates, sender>>
  BY AgentNodes DEF AgentCut
<1>2. WiringInv' /\ JudgedInv' /\ CauseInv'
  BY <1>1 DEF LoopInv, WiringInv, JudgedInv, CauseInv, At, run, gates, detectCause
<1>3. QED
  BY <1>2, EditKeepsPolicyInv DEF LoopInv, AgentCut

\* code and fix hand what they did to write.
LEMMA AgentEndsInv ==
  ASSUME LoopInv,
         NEW S \in SUBSET Files, CodeRun(S) \/ FixRun(S)
  PROVE  LoopInv'
<1>1. /\ AgentRuns /\ Edit /\ Goto("write") /\ UNCHANGED <<run, gates>>
  BY DEF CodeRun, FixRun, AgentRuns, Invoke
<1>2. ~ graph.fanout /\ status' = "running" /\ node' = "write"
  BY <1>1, AgentNodes DEF Goto, GraphEnd
<1>3. WiringInv'
  BY <1>1, <1>2, Wirings DEF LoopInv, WiringInv, Registered, work, run, gates
<1>4. JudgedInv' /\ CauseInv'
  BY <1>2 DEF JudgedInv, CauseInv, At
<1>5. QED
  BY <1>1, <1>3, <1>4, EditKeepsPolicyInv DEF LoopInv

-----------------------------------------------------------------------------
(***************************************************************************)
(* write and the gates.                                                    *)
(***************************************************************************)
LEMMA WriteInv ==
  ASSUME LoopInv, WriteRun
  PROVE  LoopInv'
<1>1. /\ node = "write" /\ status = "running" /\ ~ graph.fanout
      /\ UNCHANGED <<run, gates, tree, judged, sender>>
      /\ Goto(OnVerified(graph))
  BY WorkIsNotFannedOut DEF WriteRun, At, LoopInv
<1>2. /\ status' = "running"
      /\ \/ graph.policy /\ node' = "policy"
         \/ ~ graph.policy /\ node' = "test"
  BY <1>1 DEF Goto, OnVerified, GraphEnd
<1>3. WiringInv'
  BY <1>1, <1>2, Wirings DEF LoopInv, WiringInv, Registered, work, run, gates
<1>4. JudgedInv'
  BY <1>1, <1>2 DEF LoopInv, JudgedInv, At, PolicyStands, run, gates
<1>5. PolicyInv' /\ CauseInv'
  BY <1>1, <1>2 DEF LoopInv, PolicyInv, CauseInv, At, Stands, run, gates
<1>6. QED
  BY <1>3, <1>4, <1>5 DEF LoopInv

LEMMA RefusalsInv ==
  ASSUME LoopInv,
         WriteRefuses \/ ChangesFail \/ TestErrors \/ GiveUp \/ NothingToFix
  PROVE  LoopInv'
<1>1. /\ Fail /\ UNCHANGED <<run, gates, tree, judged>> /\ status = "running"
      /\ node \in {"write", "policy", "test", "fix"}
  BY DEF WriteRefuses, ChangesFail, TestErrors, GiveUp, NothingToFix, At, seen
<1>2. PolicyInv'
  BY <1>1 DEF LoopInv, PolicyInv, Stands, run, gates
<1>3. QED
  BY <1>1, <1>2, FailsInv DEF gates

\* The policy judges every file that changed, wherever that is known.
LEMMA PolicyRunInv ==
  ASSUME LoopInv, PolicyRun
  PROVE  LoopInv'
<1>1. /\ node = "policy" /\ status = "running" /\ ~ graph.fanout /\ graph.policy
      /\ UNCHANGED <<run, code, test, review, tree>> /\ Judge("policy")
      /\ policy' = IF Breaks(Guarded \cup Forbidden) THEN "fail" ELSE "pass"
  BY WorkIsNotFannedOut DEF PolicyRun, At, LoopInv
<1>2. \/ policy' = "pass" /\ status' = "running" /\ node' = "test"
      \/ status' = "failed" /\ node' = "policy"
      \/ policy' = "fail" /\ status' = "running" /\ node' = "fix" /\ sender' = "policy"
  <2>1. CASE ~ Breaks(Guarded \cup Forbidden)
    BY <2>1, <1>1 DEF PolicyRun, Goto, GraphEnd, Breaks
  <2>2. CASE Breaks(Guarded \cup Forbidden)
    BY <2>2, <1>1 DEF PolicyRun, Goto, SendToFix, Fail, GraphEnd, Breaks
  <2>3. QED
    BY <2>1, <2>2
<1>3. WiringInv'
  BY <1>1, <1>2, Wirings DEF LoopInv, WiringInv, Registered, work, run
<1>4. JudgedInv'
  BY <1>1, <1>2 DEF JudgedInv, At, PolicyStands, Stands, Judge, run
<1>5. PolicyInv'
  <2> SUFFICES ASSUME graph.recorded, policy' = "pass"
               PROVE  tree \cap (Guarded \cup Forbidden) = {}
    BY <1>1 DEF PolicyInv, Stands, run
  <2>1. tree \subseteq judgedFiles
    BY DEF judgedFiles, groundTruth
  <2>2. judgedFiles \cap (Guarded \cup Forbidden) = {}
    BY <1>1 DEF Breaks
  <2>3. QED
    BY <2>1, <2>2
<1>6. CauseInv'
  BY <1>1, <1>2 DEF CauseInv, At, detectCause
<1>7. QED
  BY <1>3, <1>4, <1>5, <1>6 DEF LoopInv

\* Where the tests and the review are reached, no older verdict of the policy
\* would be taken for theirs.
LEMMA TestRunInv ==
  ASSUME LoopInv,
         NEW total \in 0 .. 1, NEW failed \in 0 .. 1, TestRun(total, failed)
  PROVE  LoopInv'
<1>1. /\ At("test") /\ ~ graph.fanout
      /\ UNCHANGED <<run, review, policy, tree>> /\ Judge("test")
  BY WorkIsNotFannedOut DEF TestRun, At, LoopInv
<1>2. PolicyStands /\ policy # "fail"
  BY <1>1 DEF LoopInv, WiringInv, JudgedInv, PolicyStands, Stands
<1>3. /\ status' = "running"
      /\ \/ test' = "pass" /\ node' = "review"
         \/ test' = "fail" /\ node' = "fix" /\ sender' = "test"
  BY DEF TestRun, SendToFix, Goto, GraphEnd
<1>4. WiringInv'
  BY <1>1, <1>3, Wirings DEF LoopInv, WiringInv, Registered, work, run
<1>5. JudgedInv'
  BY <1>1, <1>2, <1>3 DEF JudgedInv, At, PolicyStands, Stands, Judge, run
<1>6. PolicyInv'
  BY <1>1 DEF LoopInv, PolicyInv, Stands, Judge, run
<1>7. CauseInv'
  BY <1>1, <1>2, <1>3 DEF CauseInv, At, detectCause
<1>8. QED
  BY <1>4, <1>5, <1>6, <1>7 DEF LoopInv

LEMMA ReviewRunInv ==
  ASSUME LoopInv,
         NEW server \in {"pass", "fail", "error"}, NEW issues \in SUBSET Severities,
         ReviewRun(server, issues)
  PROVE  LoopInv'
<1> DEFINE report == runGate(server, issues)
           gate   == resolveGate(report.gate, report.issues)
<1>1. /\ At("review") /\ ~ graph.fanout /\ UNCHANGED <<run, test, policy, tree>>
  BY WorkIsNotFannedOut DEF ReviewRun, At, LoopInv
<1>2. gate \in {"error", "fail", "pass"}
  BY DEF resolveGate
<1>3. CASE gate = "error"
  <2>1. Fail /\ UNCHANGED judged
    BY <1>3 DEF ReviewRun
  <2>2. PolicyInv'
    BY <1>1, <2>1 DEF LoopInv, PolicyInv, Stands, run
  <2>3. QED
    BY <1>1, <2>1, <2>2, FailsInv DEF At
<1>4. CASE gate # "error"
  <2>1. /\ review' = gate /\ Judge("review")
        /\ \/ gate = "pass" /\ Goto(OnPass(graph))
           \/ gate = "fail" /\ SendToFix("review")
    BY <1>2, <1>4 DEF ReviewRun
  <2>2. PolicyStands /\ Stands(test, "test") /\ policy # "fail"
    BY <1>1 DEF LoopInv, WiringInv, JudgedInv, PolicyStands, Stands
  <2>3. \/ review' = "pass" /\ node' = "promote" /\ status' = "running"
                            /\ "promote" \in Registered(graph)
        \/ review' = "pass" /\ node' = GraphEnd /\ status' = "completed"
        \/ review' = "fail" /\ node' = "fix" /\ status' = "running" /\ sender' = "review"
    <3> HIDE DEF gate
    <3>1. CASE gate = "pass"
      BY <2>1, <3>1, PassesOn DEF Goto, LoopInv, GraphEnd
    <3>2. CASE gate = "fail"
      BY <2>1, <3>2 DEF SendToFix, Goto, GraphEnd
    <3>3. QED
      BY <2>1, <3>1, <3>2
  <2>4. WiringInv'
    BY <1>1, <2>3, Wirings DEF LoopInv, WiringInv, Registered, work, run
  <2>5. JudgedInv'
    BY <1>1, <2>1, <2>2, <2>3 DEF JudgedInv, At, PolicyStands, Stands, Judge, run, GraphEnd
  <2>6. PolicyInv'
    BY <1>1, <2>1 DEF LoopInv, PolicyInv, Stands, Judge, run
  <2>7. CauseInv'
    BY <1>1, <2>2, <2>3 DEF CauseInv, At, detectCause, Stands, GraphEnd
  <2>8. QED
    BY <2>4, <2>5, <2>6, <2>7 DEF LoopInv
<1>5. QED
  BY <1>3, <1>4

-----------------------------------------------------------------------------
(***************************************************************************)
(* The whole loop.                                                         *)
(***************************************************************************)
LEMMA LoopNextInv ==
  ASSUME LoopInv, [LoopNext]_loopVars
  PROVE  LoopInv'
<1>1. CASE UNCHANGED loopVars
  BY <1>1 DEF loopVars, run, gates, seen, LoopInv, WiringInv, JudgedInv, PolicyInv, CauseInv,
              At, PolicyStands, Stands, detectCause
<1>2. CASE PlanRun \/ ApproveRun \/ FanoutRun \/ JoinRun
  BY <1>2, AroundInv
<1>3. CASE PromoteRun
  BY <1>3, PromoteInv
<1>4. ASSUME NEW S \in SUBSET Files, CodeRun(S) \/ FixRun(S) PROVE LoopInv'
  BY <1>4, AgentEndsInv
<1>5. CASE AgentFails
  BY <1>5, AgentFailsInv
<1>6. CASE AgentCut
  BY <1>6, AgentCutInv
<1>7. CASE WriteRun
  BY <1>7, WriteInv
<1>8. CASE WriteRefuses \/ ChangesFail \/ TestErrors \/ GiveUp \/ NothingToFix
  BY <1>8, RefusalsInv
<1>9. CASE PolicyRun
  BY <1>9, PolicyRunInv
<1>10. ASSUME NEW total \in 0 .. 1, NEW failed \in 0 .. 1, TestRun(total, failed) PROVE LoopInv'
  BY <1>10, TestRunInv
<1>11. ASSUME NEW server \in {"pass", "fail", "error"}, NEW issues \in SUBSET Severities,
              ReviewRun(server, issues)
       PROVE  LoopInv'
  BY <1>11, ReviewRunInv
<1>12. QED
  BY <1>1, <1>2, <1>3, <1>4, <1>5, <1>6, <1>7, <1>8, <1>9, <1>10, <1>11 DEF LoopNext, Work

LEMMA LoopSpecInv == LoopSpec => []LoopInv
<1>1. LoopInit => LoopInv
  BY LoopInitInv
<1>2. LoopInv /\ [LoopNext]_loopVars => LoopInv'
  BY LoopNextInv
<1>3. QED
  BY <1>1, <1>2, PTL DEF LoopSpec

-----------------------------------------------------------------------------
(***************************************************************************)
(* The change set.  What the agent left out stays listed round the loop:   *)
(* a name is in the change set because a reply named it or because a pass  *)
(* of write found it changed and listed it.                                *)
(***************************************************************************)
LEMMA InitNames == LoopInit => NamesInv
BY DEF LoopInit, NamesInv, Verified, Entry

\* An agent's reply adds names that it named.
LEMMA AgentNames ==
  ASSUME NamesInv, NEW S \in SUBSET Files, CodeRun(S) \/ FixRun(S)
  PROVE  NamesInv'
<1>1. /\ UNCHANGED <<run, mended>> /\ tree' \subseteq OnDisk /\ node' = "write"
      /\ told' = told \cup S
      /\ code' \in {[code EXCEPT !.changed = S], [code EXCEPT !.changed = @ \cup S], code}
  BY DEF CodeRun, FixRun, Invoke, Edit, Goto, recordChange
<1>2. /\ code' \in [changed: SUBSET Files, unreported: SUBSET Files]
      /\ code'.changed \subseteq code.changed \cup S
      /\ code'.unreported = code.unreported
  BY <1>1 DEF NamesInv
<1>3. \A f \in S : Named(f)'
  BY <1>1 DEF Named
<1>4. \A f : Accounted(f) => Accounted(f)'
  BY <1>1, <1>2 DEF Accounted, Named
<1>5. graph.recorded' => \A f \in code'.changed : Accounted(f)'
  BY <1>1, <1>2, <1>3, <1>4 DEF NamesInv, Accounted, run
<1>6. ~ Verified'
  BY <1>1 DEF Verified
<1>7. QED
  BY <1>1, <1>2, <1>5, <1>6 DEF NamesInv, run

\* write lists what changed and no reply named, and keeps what it listed.
LEMMA WriteNames ==
  ASSUME NamesInv, WriteRun
  PROVE  NamesInv'
<1>1. /\ UNCHANGED <<run, tree, told>> /\ mended' = mended \cup (code.changed \ tree)
      /\ code' = [changed |-> groundTruth \cup kept(code.changed),
                  unreported |-> unreported(code.changed, code.unreported)]
  BY DEF WriteRun
<1>2. /\ OnDisk \subseteq Files /\ tree \subseteq Files /\ groundTruth \subseteq tree
      /\ code.changed \subseteq Files /\ code.unreported \subseteq Files
  BY WorkLoopAssumption DEF WorkLoopAssumption, NamesInv, groundTruth
<1>3. code' \in [changed: SUBSET Files, unreported: SUBSET Files]
  BY <1>1, <1>2 DEF kept, unreported
<1>4. CASE graph.recorded
  <2>1. groundTruth = tree
    BY <1>4 DEF groundTruth
  <2>2. ASSUME NEW f \in code'.changed, ~ Named(f) PROVE Accounted(f)'
    <3>1. \A r \in code.changed : Accounted(r)
      BY <1>4 DEF NamesInv
    <3>2. CASE f \in code.changed
      <4>1. f \in OnDisk /\ f \in code.unreported \cup mended
        BY <2>2, <3>1, <3>2 DEF Accounted
      <4>2. f \in code'.unreported \cup mended'
        BY <1>1, <2>1, <3>2, <4>1 DEF unreported
      <4>3. QED
        BY <4>1, <4>2 DEF Accounted
    <3>3. CASE f \notin code.changed
      <4>1. f \in tree /\ f \in OnDisk
        BY <1>1, <2>1, <3>3 DEF kept, NamesInv
      <4>2. f \notin aliased(code.changed)
        <5> SUFFICES ASSUME NEW r \in code.changed, sameFile(r, f) PROVE FALSE
          BY DEF aliased
        <5>1. Fold(f) = Fold(r) /\ f # r
          BY DEF sameFile
        <5>2. ~ Named(r)
          BY <2>2, <5>1 DEF Named
        <5>3. r \in OnDisk
          BY <3>1, <5>2 DEF Accounted
        <5>4. QED
          BY WorkLoopAssumption, <4>1, <5>1, <5>3 DEF WorkLoopAssumption
      <4>3. f \in code'.unreported
        BY <1>1, <2>1, <3>3, <4>1, <4>2 DEF unreported
      <4>4. QED
        BY <4>1, <4>3 DEF Accounted
    <3>4. QED
      BY <3>2, <3>3
  <2>3. \A f : Named(f) => Accounted(f)'
    BY <1>1 DEF Named, Accounted
  <2>4. tree' \subseteq code'.changed
    BY <1>1, <2>1
  <2>5. QED
    BY <1>1, <1>3, <2>2, <2>3, <2>4 DEF NamesInv, run
<1>5. CASE ~ graph.recorded
  BY <1>1, <1>3, <1>5 DEF NamesInv, run
<1>6. QED
  BY <1>4, <1>5

\* Nothing else touches what changed and is named, except an edit that leaves
\* the run where it cannot be verified.
LEMMA RestNames ==
  ASSUME NamesInv, UNCHANGED <<run, code, told, mended>>,
         \/ UNCHANGED tree /\ (Verified' => Verified)
         \/ Edit /\ node \in {"code", "fix"} /\ UNCHANGED node
  PROVE  NamesInv'
<1>1. tree' \subseteq OnDisk
  BY DEF NamesInv, Edit
<1>2. \A f : Accounted(f)' <=> Accounted(f)
  BY DEF Accounted, Named
<1>3. graph.recorded' => (Verified' => tree' \subseteq code'.changed)
  BY DEF NamesInv, Verified, run
<1>4. QED
  BY <1>1, <1>2, <1>3 DEF NamesInv, run

LEMMA NamesNext ==
  ASSUME LoopInv, NamesInv, [LoopNext]_loopVars
  PROVE  NamesInv'
<1>1. CASE UNCHANGED loopVars
  BY <1>1, RestNames DEF loopVars, run, seen, gates, Verified
<1>2. CASE PlanRun \/ ApproveRun \/ FanoutRun \/ JoinRun
  <2>1. UNCHANGED <<run, code, tree, told, mended>>
    BY <1>2 DEF PlanRun, ApproveRun, FanoutRun, JoinRun, seen
  <2>2. ~ Verified'
    <3>1. CASE PlanRun \/ ApproveRun
      <4>1. /\ node' \in {"approve", "fanout", "code"}
        BY <3>1 DEF PlanRun, ApproveRun, Goto, OnPlanned, WorkEntry
      <4>2. QED
        BY <4>1 DEF Verified
    <3>2. CASE FanoutRun \/ JoinRun
      <4>1. graph.fanout
        BY <3>2, WorkIsNotFannedOut DEF FanoutRun, JoinRun, At, LoopInv
      <4>2. QED
        BY <2>1, <4>1 DEF Verified, run
    <3>3. QED
      BY <1>2, <3>1, <3>2
  <2>3. QED
    BY <2>1, <2>2, RestNames
<1>3. CASE PromoteRun \/ PolicyRun \/ WriteRefuses \/ ChangesFail \/ TestErrors \/ GiveUp \/ NothingToFix
  <2>1. UNCHANGED <<run, code, tree, told, mended>>
    BY <1>3 DEF PromoteRun, PolicyRun, WriteRefuses, ChangesFail, TestErrors, GiveUp, NothingToFix, seen
  <2>2. Verified' => Verified
    BY <1>3 DEF PromoteRun, PolicyRun, WriteRefuses, ChangesFail, TestErrors, GiveUp, NothingToFix,
                Verified, Goto, SendToFix, Fail, At, run, GraphEnd
  <2>3. QED
    BY <2>1, <2>2, RestNames
<1>4. ASSUME NEW S \in SUBSET Files, CodeRun(S) \/ FixRun(S) PROVE NamesInv'
  BY <1>4, AgentNames
<1>5. CASE AgentFails \/ AgentCut
  BY <1>5, AgentNodes, RestNames DEF AgentFails, AgentCut, Fail
<1>6. CASE WriteRun
  BY <1>6, WriteNames
<1>7. ASSUME NEW total \in 0 .. 1, NEW failed \in 0 .. 1, TestRun(total, failed)
      PROVE  NamesInv'
  <2>1. UNCHANGED <<run, code, tree, told, mended>> /\ node = "test"
    BY <1>7 DEF TestRun, At
  <2>2. Verified' => Verified
    BY <2>1 DEF Verified, run
  <2>3. QED
    BY <2>1, <2>2, RestNames
<1>8. ASSUME NEW server \in {"pass", "fail", "error"}, NEW issues \in SUBSET Severities,
             ReviewRun(server, issues)
      PROVE  NamesInv'
  <2>1. UNCHANGED <<run, code, tree, told, mended>> /\ node = "review"
    BY <1>8 DEF ReviewRun, At
  <2>2. Verified' => Verified
    BY <2>1 DEF Verified, run
  <2>3. QED
    BY <2>1, <2>2, RestNames
<1>9. QED
  BY <1>1, <1>2, <1>3, <1>4, <1>5, <1>6, <1>7, <1>8 DEF LoopNext, Work

LEMMA SpecNames == LoopSpec => []NamesInv
<1>1. LoopInv /\ NamesInv /\ [LoopNext]_loopVars => NamesInv'
  BY NamesNext
<1>2. QED
  BY LoopSpecInv, InitNames, <1>1, PTL DEF LoopSpec

\* review: the server's failed gate raises an issue at the threshold if there
\* is none, and an issue at the threshold fails the gate.
LEMMA ReviewsAreStrict == ReviewIsStrict
<1> SUFFICES ASSUME NEW server \in {"pass", "fail", "error"}, NEW issues \in SUBSET Severities,
                    resolveGate(runGate(server, issues).gate, runGate(server, issues).issues) = "pass"
             PROVE  /\ AtOrAbove(issues) = {}
                    /\ server # "error"
                    /\ graph.mode = "ai" => server = "pass"
  BY DEF ReviewIsStrict
<1>1. Blocker \in Severities /\ FailOn <= Blocker
  <2>1. PICK s \in Severities : FailOn <= s /\ \A t \in Severities : t <= s
    BY WorkLoopAssumption DEF WorkLoopAssumption
  <2>2. Blocker \in Severities /\ \A t \in Severities : t <= Blocker
    BY <2>1 DEF Blocker
  <2>3. FailOn \in Nat /\ Severities \subseteq Nat
    BY WorkLoopAssumption DEF WorkLoopAssumption
  <2>4. QED
    BY <2>1, <2>2, <2>3
<1>2. CASE graph.mode = "ai"
  <2>1. /\ server # "error"
        /\ AtOrAbove(finalize(server, issues).issues) = {}
    BY <1>2 DEF runGate, resolveGate, finalize
  <2>2. AtOrAbove(issues) = {} /\ server # "fail"
    BY <1>1, <2>1 DEF finalize, AtOrAbove
  <2>3. QED
    BY <2>1, <2>2
<1>3. CASE graph.mode # "ai"
  BY <1>3 DEF runGate, resolveGate
<1>4. QED
  BY <1>2, <1>3

-----------------------------------------------------------------------------
\* nodes, wire.go: whatever was wired, a run that is done, or whose change is
\* about to be promoted, has every verdict of the very tree it ends with.
THEOREM RunsEndJudged == LoopSpec => []VerdictsStand
<1>1. LoopInv => VerdictsStand
  <2> SUFFICES ASSUME LoopInv, status = "completed" \/ node = "promote", ~ graph.fanout
               PROVE  /\ test = "pass" /\ review = "pass" /\ {"test", "review"} \subseteq judged
                      /\ graph.policy => policy = "pass" /\ "policy" \in judged
    BY DEF VerdictsStand
  <2> QED
    BY DEF LoopInv, JudgedInv, PolicyStands, Stands
<1>2. QED
  BY LoopSpecInv, <1>1, PTL

\* nodes/policy: no run whose changes belay can tell is done with one that its
\* policy forbids or asks a repair of, reported or not.
THEOREM NothingForbiddenIsDone == LoopSpec => []PolicyHolds
<1>1. LoopInv => PolicyHolds
  <2> SUFFICES ASSUME LoopInv, status = "completed", graph.policy, graph.recorded
               PROVE  tree \cap (Guarded \cup Forbidden) = {}
    BY DEF PolicyHolds
  <2>1. CASE graph.fanout
    BY <2>1 DEF LoopInv, WiringInv
  <2>2. CASE ~ graph.fanout
    BY <2>2 DEF LoopInv, JudgedInv, PolicyInv, PolicyStands
  <2>3. QED
    BY <2>1, <2>2
<1>2. QED
  BY LoopSpecInv, <1>1, PTL

\* nodes/fix, detectCause: a repair is asked for on the verdict that sent the
\* run to fix, though older ones that failed are still on the blackboard.
THEOREM RepairsAnswerTheirGate == LoopSpec => []FixRepairsItsSender
<1>1. LoopInv => FixRepairsItsSender
  BY DEF LoopInv, CauseInv, FixRepairsItsSender
<1>2. QED
  BY LoopSpecInv, <1>1, PTL

\* nodes, wire.go: no option routes a run to a node it does not have.
THEOREM NoRouteLeadsNowhere == LoopSpec => []RoutesWired
<1>1. LoopInv => RoutesWired
  BY DEF LoopInv, WiringInv, RoutesWired
<1>2. QED
  BY LoopSpecInv, <1>1, PTL

\* nodes/write: as long as it stays changed, a file that changed is in the
\* change set, and one no reply named is listed as left out of it.
THEOREM MissedFilesAreNamed == LoopSpec => []MissedFilesStayNamed
<1>1. NamesInv => MissedFilesStayNamed
  BY DEF NamesInv, MissedFilesStayNamed, Verified, Accounted
<1>2. QED
  BY SpecNames, <1>1, PTL

\* nodes, wire.go: a run is done on verdicts of the tree it ends with, read
\* strictly and within its policy, and comes there by nodes it has.
THEOREM DoneIsAlwaysJudged == LoopSpec => []DoneIsJudged
<1>1. VerdictsStand /\ PolicyHolds /\ RoutesWired => DoneIsJudged
  BY ReviewsAreStrict DEF DoneIsJudged
<1>2. QED
  BY RunsEndJudged, NothingForbiddenIsDone, NoRouteLeadsNowhere, <1>1, PTL

\* nodes/fix and write: a repair is asked for what failed, of all the files
\* that changed.
THEOREM RepairsAreAimed == LoopSpec => []RepairIsAimed
<1>1. FixRepairsItsSender /\ MissedFilesStayNamed => RepairIsAimed
  BY DEF RepairIsAimed
<1>2. QED
  BY RepairsAnswerTheirGate, MissedFilesAreNamed, <1>1, PTL

=============================================================================
