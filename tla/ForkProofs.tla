------------------------------ MODULE ForkProofs ------------------------------
(***************************************************************************)
(* A fork is its visit, for any runs, files, nodes, bounds and hands that  *)
(* edit, resume, kill or stop while it is made.                            *)
(*                                                                         *)
(* First VisitsOf, of every journal: its walk over the records, and what   *)
(* it holds at each (Seen), give the visits the graph began.  The rest is  *)
(* an inductive invariant, ForkInv.                                        *)
(*                                                                         *)
(*   AnyInv, RunInv   of each run by itself: its journal is valid and the  *)
(*                    graph begins each execution with attempt 1, so that  *)
(*                    its visits are its attempts 1; each of its own has a *)
(*                    snapshot, but one under way; its spending is what    *)
(*                    its journal charges and what it inherited.           *)
(*   LinkInv          of a fork and its source: it has all its visit had,  *)
(*                    and until it finishes a node it is at that visit.    *)
(*   BankInv          the dollars of all the journals are what was paid.   *)
(*   CmdInv           of the command, stage by stage: what it read is      *)
(*                    there still; trees only grow newer, so two surveys   *)
(*                    that agree pin down the copy made between them.      *)
(*                                                                         *)
(* Journals only grow (Follows), which is why a link once made holds; what *)
(* a run does to them is one of a few kinds of step (OneRun), and each     *)
(* action is shown to be one.                                              *)
(***************************************************************************)
EXTENDS Fork, JournalProofs, FiniteSetTheorems

(***************************************************************************)
(* VisitsOf walks a journal.  There is such a walk, and what it holds at   *)
(* each record is said of the records so far.                              *)
(***************************************************************************)
NoVisits == [visits |-> <<>>, closed |-> 0]

WalkTo(f, j, n) ==
  f = [i \in 0 .. n |-> IF i = 0 THEN NoVisits ELSE VisitRecord(f[i - 1], j, i)]

LEMMA WalkGoesOn ==
  ASSUME NEW j, NEW n \in Nat, NEW f, WalkTo(f, j, n)
  PROVE  \E g : WalkTo(g, j, n + 1)
<1>. DEFINE c == VisitRecord(f[n], j, n + 1)
            g == [i \in 0 .. n + 1 |-> IF i = n + 1 THEN c ELSE f[i]]
<1>1. \A i \in 0 .. n : i # n + 1 /\ g[i] = f[i]
  OBVIOUS
<1>2. ASSUME NEW i \in 0 .. n + 1
      PROVE  g[i] = IF i = 0 THEN NoVisits ELSE VisitRecord(g[i - 1], j, i)
  <2>1. CASE i = n + 1
    <3>1. i # 0 /\ i - 1 = n /\ n \in 0 .. n /\ g[i] = c
      BY <2>1
    <3>2. g[n] = f[n]
      BY <3>1, <1>1
    <3>. QED  BY <2>1, <3>1, <3>2
  <2>2. CASE i # n + 1
    <3>1. i \in 0 .. n /\ g[i] = f[i]
      BY <2>2
    <3>2. i # 0 => i - 1 \in 0 .. n /\ g[i - 1] = f[i - 1]
      BY <3>1
    <3>3. f[i] = IF i = 0 THEN NoVisits ELSE VisitRecord(f[i - 1], j, i)
      BY <3>1 DEF WalkTo
    <3>. HIDE DEF g
    <3>. QED  BY <3>1, <3>2, <3>3
  <2>. QED  BY <2>1, <2>2
<1>3. WalkTo(g, j, n + 1)
  <2>. DEFINE h == [i \in 0 .. n + 1 |-> IF i = 0 THEN NoVisits ELSE VisitRecord(g[i - 1], j, i)]
  <2>1. g = [i \in 0 .. n + 1 |-> g[i]]
    OBVIOUS
  <2>. HIDE DEF g
  <2>2. g = h
    BY <2>1, <1>2
  <2>. QED  BY <2>2 DEF WalkTo
<1>. QED  BY <1>3

LEMMA VisitsAreWalked ==
  ASSUME NEW j, Len(j) \in Nat
  PROVE  \E f : WalkTo(f, j, Len(j)) /\ VisitsOf(j) = f[Len(j)].visits
<1>. DEFINE D == {k \in Nat : ~ \E f : WalkTo(f, j, k)}
<1>1. ASSUME D # {} PROVE FALSE
  <2>1. D \in SUBSET Nat
    OBVIOUS
  <2>2. PICK x \in D : \A y \in D : x <= y
    BY <1>1, <2>1, LeastOfASet
  <2>3. x # 0
    <3>1. WalkTo([k \in 0 .. 0 |-> NoVisits], j, 0)
      BY DEF WalkTo
    <3>. QED  BY <2>2, <3>1
  <2>4. x - 1 \in Nat /\ x - 1 \notin D /\ x = (x - 1) + 1
    BY <2>2, <2>3
  <2>5. \E f : WalkTo(f, j, x - 1)
    BY <2>4
  <2>6. \E f : WalkTo(f, j, (x - 1) + 1)
    BY <2>4, <2>5, WalkGoesOn
  <2>. QED  BY <2>2, <2>4, <2>6
<1>2. \E f : WalkTo(f, j, Len(j))
  BY <1>1
<1>. DEFINE c == CHOOSE g : WalkTo(g, j, Len(j))
<1>3. WalkTo(c, j, Len(j))
  BY <1>2
<1>4. VisitsOf(j) = c[Len(j)].visits
  BY DEF VisitsOf, WalkTo, NoVisits
<1>. QED  BY <1>3, <1>4

LEMMA WalkStarts ==
  ASSUME NEW j, NEW n \in Nat, NEW f, WalkTo(f, j, n)
  PROVE  f[0] = NoVisits
BY DEF WalkTo

LEMMA WalkStep ==
  ASSUME NEW j, NEW n \in Nat, NEW f, WalkTo(f, j, n), NEW i \in 0 .. n - 1
  PROVE  f[i + 1] = VisitRecord(f[i], j, i + 1)
<1>1. i + 1 \in 0 .. n /\ i + 1 # 0 /\ (i + 1) - 1 = i
  OBVIOUS
<1>2. f[i + 1] = IF i + 1 = 0 THEN NoVisits ELSE VisitRecord(f[(i + 1) - 1], j, i + 1)
  BY <1>1 DEF WalkTo
<1>. QED  BY <1>1, <1>2

VisitRecords == [node : Names \cup {NoNode}, ordinal : Nat, start : Nat, end : Nat,
                 executions : Nat, status : Statuses \cup {NoStatus}]

\* The executions of the visit that began at i, of the first n records.
Those(j, i, n) == {k \in ExecutionsOf(j, i) : k <= n}

IsStart(j, n) == n # 0 /\ j[n].event = "node_started"

\* What a walk holds of the first n records of j.
WalkTyped(w, n) == w \in [visits : Seq(VisitRecords), closed : 0 .. n]
ClosedIs(j, w, n) ==
  /\ w.closed # 0 => w.closed \in FinishedAt(j)
  /\ \A k \in FinishedAt(j) : k <= n => k <= w.closed
StartsAre(j, w, n) ==
  /\ \A v \in 1 .. Len(w.visits) :
       LET i == w.visits[v].start IN i \in StartedAt(j) /\ i <= n /\ BegunByGraph(j, i)
  /\ \A i \in StartedAt(j) :
       i <= n /\ BegunByGraph(j, i) => \E v \in 1 .. Len(w.visits) : w.visits[v].start = i
  /\ \A u, v \in 1 .. Len(w.visits) : u < v => w.visits[u].start < w.visits[v].start
CountsAre(j, w, n) ==
  \A v \in 1 .. Len(w.visits) :
    LET x == w.visits[v]
    IN  /\ x.executions = Cardinality(Those(j, x.start, n))
        /\ \A k \in Those(j, x.start, n) : j[k].node = x.node
        /\ x.ordinal = Cardinality({u \in 1 .. v : w.visits[u].node = x.node})
        /\ x.end = Unfinished <=> IsStart(j, n) /\ v = Len(w.visits)
LastIs(j, w, n) ==
  LET last == Len(w.visits)
  IN  /\ IsStart(j, n) => last # 0 /\ w.visits[last].node = j[n].node
      /\ ~ IsStart(j, n) /\ w.closed # 0 =>
           last # 0 /\ w.visits[last].node = j[w.closed].node

Seen(j, w, n) == /\ WalkTyped(w, n) /\ ClosedIs(j, w, n) /\ StartsAre(j, w, n)
                 /\ CountsAre(j, w, n) /\ LastIs(j, w, n)

LEMMA ThoseNext ==
  ASSUME NEW j \in Seq(Record), NEW n \in Nat, NEW i
  PROVE  /\ IsFiniteSet(Those(j, i, n))
         /\ n + 1 \notin ExecutionsOf(j, i) => Those(j, i, n + 1) = Those(j, i, n)
         /\ n + 1 \in ExecutionsOf(j, i) =>
              /\ Those(j, i, n + 1) = Those(j, i, n) \cup {n + 1}
              /\ Cardinality(Those(j, i, n + 1)) = Cardinality(Those(j, i, n)) + 1
<1>1. \A k \in ExecutionsOf(j, i) : k \in Nat /\ k # 0
  BY DEF ExecutionsOf, StartedAt
<1>2. Those(j, i, n) \subseteq 1 .. n
  BY <1>1 DEF Those
<1>3. IsFiniteSet(Those(j, i, n))
  BY <1>2, FS_Interval, FS_Subset
<1>4. n + 1 \notin ExecutionsOf(j, i) => Those(j, i, n + 1) = Those(j, i, n)
  BY <1>1 DEF Those
<1>5. n + 1 \in ExecutionsOf(j, i) => Those(j, i, n + 1) = Those(j, i, n) \cup {n + 1}
  BY <1>1 DEF Those
<1>6. n + 1 \notin Those(j, i, n)
  BY <1>2
<1>7. Cardinality(Those(j, i, n) \cup {n + 1}) = Cardinality(Those(j, i, n)) + 1
  BY <1>3, <1>6, FS_AddElement
<1>. QED  BY <1>3, <1>4, <1>5, <1>7

\* Whether the graph begins an execution is read off what was closed last.
LEMMA BegunIs ==
  ASSUME NEW j \in Seq(Record), NEW w, NEW n \in Nat, WalkTyped(w, n), ClosedIs(j, w, n),
         n + 1 \in StartedAt(j)
  PROVE  BegunByGraph(j, n + 1) <=>
           ~ (w.closed # 0 /\ continuesVisit(j[w.closed], j[n + 1].node))
<1>1. w.closed \in 0 .. n
  BY DEF WalkTyped
<1>2. n + 1 \notin FinishedAt(j)
  BY DEF FinishedAt, StartedAt
<1>3. \A k \in FinishedAt(j) : k \in Nat /\ k # 0
  BY DEF FinishedAt
<1>4. CASE w.closed = 0
  <2>1. \A k \in FinishedAt(j) : k > n + 1
    BY <1>2, <1>3, <1>4 DEF ClosedIs
  <2>. QED  BY <1>4, <2>1 DEF BegunByGraph
<1>5. CASE w.closed # 0
  <2>1. w.closed \in FinishedAt(j) /\ w.closed < n + 1
    BY <1>1, <1>5 DEF ClosedIs
  <2>2. \A l \in FinishedAt(j) : l < n + 1 => l <= w.closed
    BY <1>3 DEF ClosedIs
  <2>3. ASSUME NEW k \in FinishedAt(j), k < n + 1, \A l \in FinishedAt(j) : l < n + 1 => l <= k
        PROVE  k = w.closed
    BY <1>1, <1>3, <2>1, <2>2, <2>3
  <2>4. ClosedBefore(j, n + 1) = w.closed
    BY <2>1, <2>2, <2>3 DEF ClosedBefore
  <2>5. ~ \A k \in FinishedAt(j) : k > n + 1
    BY <2>1, <1>1
  <2>. QED  BY <1>5, <2>4, <2>5 DEF BegunByGraph
<1>. QED  BY <1>4, <1>5

\* A record that is no start of a node leaves the executions as they are.
LEMMA NoStartNoExecution ==
  ASSUME NEW j \in Seq(Record), NEW n \in Nat, n + 1 \notin StartedAt(j)
  PROVE  /\ \A i : Those(j, i, n + 1) = Those(j, i, n)
         /\ \A i \in StartedAt(j) : i <= n + 1 => i <= n
<1>1. \A i : n + 1 \notin ExecutionsOf(j, i)
  BY DEF ExecutionsOf
<1>2. \A i \in StartedAt(j) : i \in Nat
  BY DEF StartedAt
<1>. QED  BY <1>1, <1>2, ThoseNext

\* A sequence with one member replaced.
LEMMA SeqReplace ==
  ASSUME NEW S, NEW s \in Seq(S), NEW i \in 1 .. Len(s), NEW e \in S
  PROVE  /\ [s EXCEPT ![i] = e] \in Seq(S) /\ Len([s EXCEPT ![i] = e]) = Len(s)
         /\ [s EXCEPT ![i] = e][i] = e
         /\ \A k \in 1 .. Len(s) : k # i => [s EXCEPT ![i] = e][k] = s[k]
OBVIOUS

LEMMA ClosedByIs ==
  ASSUME NEW x \in VisitRecords, NEW i \in Nat, NEW st \in Statuses \cup {NoStatus}
  PROVE  LET y == ClosedBy(x, i, st)
         IN  /\ y \in VisitRecords /\ y.end = i
             /\ y.node = x.node /\ y.ordinal = x.ordinal /\ y.start = x.start
             /\ y.executions = x.executions
BY DEF ClosedBy, VisitRecords

LEMMA TakenUpIs ==
  ASSUME NEW x \in VisitRecords
  PROVE  LET y == TakenUp(x)
         IN  /\ y \in VisitRecords /\ y.end = Unfinished
             /\ y.node = x.node /\ y.ordinal = x.ordinal /\ y.start = x.start
             /\ y.executions = x.executions + 1
<1>. DEFINE N == Names \cup {NoNode}
            T == Statuses \cup {NoStatus}
<1>1. /\ NoStatus \in T /\ 0 \in Nat
      /\ x \in [node : N, ordinal : Nat, start : Nat, end : Nat, executions : Nat, status : T]
  BY DEF VisitRecords
<1>. HIDE DEF N, T
<1>. DEFINE y == [x EXCEPT !.executions = x.executions + 1, !.end = 0, !.status = NoStatus]
<1>2. x.executions + 1 \in Nat
  BY <1>1
<1>3. y \in [node : N, ordinal : Nat, start : Nat, end : Nat, executions : Nat, status : T]
  BY <1>1, <1>2
<1>4. /\ y.end = 0 /\ y.executions = x.executions + 1
      /\ y.node = x.node /\ y.ordinal = x.ordinal /\ y.start = x.start
  BY <1>1
<1>5. y = TakenUp(x)
  BY DEF TakenUp, Unfinished
<1>. QED  BY <1>3, <1>4, <1>5 DEF VisitRecords, Unfinished, N, T

LEMMA SeenMarker ==
  ASSUME NEW j \in Seq(Record), NEW w, NEW n \in 0 .. Len(j) - 1, Validate(j), Seen(j, w, n),
         j[n + 1].event \notin {"node_started", "node_finished"}
  PROVE  Seen(j, VisitRecord(w, j, n + 1), n + 1)
<1>1. VisitRecord(w, j, n + 1) = w
  BY DEF VisitRecord
<1>2. Len(j) \in Nat /\ n \in Nat /\ n + 1 \in 1 .. Len(j)
  OBVIOUS
<1>3. n + 1 \notin StartedAt(j) /\ n + 1 \notin FinishedAt(j) /\ ~ IsStart(j, n + 1)
  BY DEF StartedAt, FinishedAt, IsStart
<1>4. ~ IsStart(j, n)
  <2>1. n # 0 => MayFollow(j[n], j[n + 1])
    BY <1>2 DEF Validate
  <2>. QED  BY <2>1 DEF IsStart, MayFollow
<1>5. WalkTyped(w, n + 1)
  BY <1>2 DEF Seen, WalkTyped
<1>6. ClosedIs(j, w, n + 1)
  <2>1. \A k \in FinishedAt(j) : k \in Nat /\ (k <= n + 1 => k <= n)
    BY <1>2, <1>3 DEF FinishedAt
  <2>. QED  BY <2>1 DEF Seen, ClosedIs
<1>7. /\ \A i : Those(j, i, n + 1) = Those(j, i, n)
      /\ \A i \in StartedAt(j) : i <= n + 1 => i <= n
  BY <1>2, <1>3, NoStartNoExecution
<1>8. \A i \in StartedAt(j) : i <= n => i <= n + 1
  BY <1>2 DEF StartedAt
<1>9. StartsAre(j, w, n + 1)
  BY <1>7, <1>8 DEF Seen, StartsAre
<1>10. CountsAre(j, w, n + 1)
  BY <1>3, <1>4, <1>7 DEF Seen, CountsAre
<1>11. LastIs(j, w, n + 1)
  BY <1>3, <1>4 DEF Seen, LastIs
<1>. QED  BY <1>1, <1>5, <1>6, <1>9, <1>10, <1>11 DEF Seen

LEMMA SeenFinished ==
  ASSUME NEW j \in Seq(Record), NEW w, NEW n \in 0 .. Len(j) - 1, Validate(j), Seen(j, w, n),
         j[n + 1].event = "node_finished"
  PROVE  Seen(j, VisitRecord(w, j, n + 1), n + 1)
<1>. DEFINE r    == j[n + 1]
            vs   == w.visits
            last == Len(vs)
            us   == [vs EXCEPT ![last] = ClosedBy(@, n + 1, r.status)]
            x    == [visits |-> us, closed |-> n + 1]
<1>1. VisitRecord(w, j, n + 1) = x
  BY DEF VisitRecord
<1>2. Len(j) \in Nat /\ n \in Nat /\ n + 1 \in 1 .. Len(j) /\ r \in Record
  OBVIOUS
<1>3. n + 1 \notin StartedAt(j) /\ n + 1 \in FinishedAt(j) /\ ~ IsStart(j, n + 1)
  BY <1>2 DEF StartedAt, FinishedAt, IsStart
<1>4. IsStart(j, n) /\ j[n].node = r.node
  <2>1. n # 0
    <3>1. j # <<>>
      BY <1>2
    <3>. QED  BY <1>2, <3>1 DEF Validate
  <2>2. MayFollow(j[n], j[n + 1])
    BY <1>2, <2>1 DEF Validate
  <2>. QED  BY <2>1, <2>2 DEF IsStart, MayFollow
<1>5. vs \in Seq(VisitRecords) /\ last \in Nat /\ last # 0 /\ vs[last].node = r.node
  BY <1>4 DEF Seen, WalkTyped, LastIs
<1>6. vs[last] \in VisitRecords /\ last \in 1 .. last
  BY <1>5
<1>7. r.status \in Statuses \cup {NoStatus}
  BY <1>2 DEF Record
<1>. DEFINE e == ClosedBy(vs[last], n + 1, r.status)
<1>71. /\ e \in VisitRecords /\ e.end = n + 1
       /\ e.node = vs[last].node /\ e.ordinal = vs[last].ordinal
       /\ e.start = vs[last].start /\ e.executions = vs[last].executions
  <2>1. n + 1 \in Nat /\ vs[last] \in VisitRecords
    BY <1>2, <1>6
  <2>. HIDE DEF vs, us, last, r
  <2>. QED  BY <1>7, <2>1, ClosedByIs
<1>. HIDE DEF e, vs
<1>8. /\ us \in Seq(VisitRecords) /\ Len(us) = last
      /\ us[last] = e
      /\ \A v \in 1 .. last : v # last => us[v] = vs[v]
  BY <1>5, <1>6, <1>71, SeqReplace DEF e
<1>9. \A v \in 1 .. last :
        /\ us[v].node = vs[v].node /\ us[v].ordinal = vs[v].ordinal
        /\ us[v].start = vs[v].start /\ us[v].executions = vs[v].executions
        /\ us[v].end = IF v = last THEN n + 1 ELSE vs[v].end
  <2>1. ASSUME NEW v \in 1 .. last, v # last
        PROVE  us[v] = vs[v]
    BY <1>8, <2>1
  <2>. HIDE DEF us, last
  <2>. QED  BY <1>71, <1>8, <2>1
<1>10. x.visits = us /\ x.closed = n + 1 /\ WalkTyped(x, n + 1)
  <2>. HIDE DEF us, last
  <2>1. us \in Seq(VisitRecords) /\ n + 1 \in 0 .. n + 1
    BY <1>2, <1>8
  <2>. QED  BY <2>1 DEF WalkTyped
<1>101. w.visits = vs /\ Len(vs) = last
  BY DEF vs
<1>. HIDE DEF us, x, last, r
<1>11. ClosedIs(j, x, n + 1)
  BY <1>3, <1>10 DEF ClosedIs
<1>12. /\ \A i : Those(j, i, n + 1) = Those(j, i, n)
       /\ \A i \in StartedAt(j) : i <= n + 1 => i <= n
  BY <1>2, <1>3, NoStartNoExecution
<1>13. \A i \in StartedAt(j) : i <= n => i <= n + 1
  BY <1>2 DEF StartedAt
<1>14. StartsAre(j, w, n) /\ CountsAre(j, w, n) /\ LastIs(j, w, n)
  BY DEF Seen
<1>15. StartsAre(j, x, n + 1)
  <2>1. Len(x.visits) = Len(w.visits)
        /\ \A v \in 1 .. Len(w.visits) : x.visits[v].start = w.visits[v].start
    BY <1>8, <1>9, <1>10, <1>101
  <2>. QED  BY <1>12, <1>13, <1>14, <2>1 DEF StartsAre
<1>16. ASSUME NEW v \in 1 .. last
       PROVE  /\ us[v].executions = Cardinality(Those(j, us[v].start, n + 1))
              /\ \A k \in Those(j, us[v].start, n + 1) : j[k].node = us[v].node
              /\ us[v].ordinal = Cardinality({u \in 1 .. v : us[u].node = us[v].node})
              /\ us[v].end # Unfinished
  <2>1. /\ vs[v].executions = Cardinality(Those(j, vs[v].start, n))
        /\ \A k \in Those(j, vs[v].start, n) : j[k].node = vs[v].node
        /\ vs[v].ordinal = Cardinality({u \in 1 .. v : vs[u].node = vs[v].node})
        /\ vs[v].end = Unfinished <=> v = last
    BY <1>4, <1>14, <1>101 DEF CountsAre
  <2>2. 1 .. v \subseteq 1 .. last
    BY <1>5
  <2>3. {u \in 1 .. v : us[u].node = us[v].node} = {u \in 1 .. v : vs[u].node = vs[v].node}
    BY <1>9, <2>2
  <2>4. us[v].end # Unfinished
    BY <1>2, <1>9, <2>1 DEF Unfinished
  <2>5. us[v].executions = Cardinality(Those(j, us[v].start, n + 1))
    BY <1>9, <1>12, <2>1
  <2>6. \A k \in Those(j, us[v].start, n + 1) : j[k].node = us[v].node
    BY <1>9, <1>12, <2>1
  <2>7. us[v].ordinal = Cardinality({u \in 1 .. v : us[u].node = us[v].node})
    BY <1>9, <2>1, <2>3
  <2>. QED  BY <2>4, <2>5, <2>6, <2>7
<1>17. CountsAre(j, x, n + 1)
  <2>1. Len(x.visits) = last /\ x.visits = us
    BY <1>8, <1>10
  <2>2. ASSUME NEW v \in 1 .. last
        PROVE  x.visits[v].end = Unfinished <=> IsStart(j, n + 1) /\ v = Len(x.visits)
    BY <1>3, <1>16, <2>1
  <2>. QED  BY <1>16, <2>1, <2>2 DEF CountsAre
<1>18. LastIs(j, x, n + 1)
  <2>1. Len(x.visits) = last /\ x.visits[last].node = r.node
    BY <1>5, <1>6, <1>8, <1>9, <1>10
  <2>. QED  BY <1>3, <1>5, <1>10, <2>1 DEF LastIs, r
<1>. QED  BY <1>1, <1>10, <1>11, <1>15, <1>17, <1>18 DEF Seen, x

LEMMA SeenTakenUp ==
  ASSUME NEW j \in Seq(Record), NEW w, NEW n \in 0 .. Len(j) - 1, Validate(j), Seen(j, w, n),
         j[n + 1].event = "node_started",
         w.closed # 0 /\ continuesVisit(j[w.closed], j[n + 1].node)
  PROVE  Seen(j, VisitRecord(w, j, n + 1), n + 1)
<1>. DEFINE r    == j[n + 1]
            vs   == w.visits
            last == Len(vs)
            e    == TakenUp(vs[last])
            us   == [vs EXCEPT ![last] = e]
            x    == [w EXCEPT !.visits = us]
<1>. DEFINE same == w.closed # 0 /\ continuesVisit(j[w.closed], r.node)
<1>1. VisitRecord(w, j, n + 1) = x
  <2>1. same
    OBVIOUS
  <2>. QED  BY <2>1 DEF VisitRecord, Resumed
<1>2. Len(j) \in Nat /\ n \in Nat /\ n + 1 \in 1 .. Len(j) /\ r \in Record
  OBVIOUS
<1>3. n + 1 \in StartedAt(j) /\ n + 1 \notin FinishedAt(j) /\ IsStart(j, n + 1)
  BY <1>2 DEF StartedAt, FinishedAt, IsStart
<1>4. ~ IsStart(j, n)
  <2>1. n # 0 => MayFollow(j[n], j[n + 1])
    BY <1>2 DEF Validate
  <2>. QED  BY <2>1 DEF IsStart, MayFollow
<1>5. /\ w \in [visits : Seq(VisitRecords), closed : 0 .. n]
      /\ StartsAre(j, w, n) /\ CountsAre(j, w, n) /\ LastIs(j, w, n) /\ ClosedIs(j, w, n)
  BY DEF Seen, WalkTyped
<1>6. vs \in Seq(VisitRecords) /\ last \in Nat /\ last # 0 /\ vs[last].node = r.node
  BY <1>4, <1>5 DEF LastIs, continuesVisit
<1>7. vs[last] \in VisitRecords /\ last \in 1 .. last
  BY <1>6
<1>8. ~ BegunByGraph(j, n + 1)
  BY <1>2, <1>3, <1>5, BegunIs DEF WalkTyped
<1>. HIDE DEF vs
<1>9. /\ e \in VisitRecords /\ e.end = Unfinished
      /\ e.node = vs[last].node /\ e.ordinal = vs[last].ordinal
      /\ e.start = vs[last].start /\ e.executions = vs[last].executions + 1
  <2>. HIDE DEF last
  <2>. QED  BY <1>7, TakenUpIs
<1>. HIDE DEF e
<1>10. /\ us \in Seq(VisitRecords) /\ Len(us) = last
       /\ us[last] = e
       /\ \A v \in 1 .. last : v # last => us[v] = vs[v]
  BY <1>6, <1>7, <1>9, SeqReplace
<1>11. w.visits = vs /\ Len(vs) = last
  BY DEF vs
<1>12. x.visits = us /\ x.closed = w.closed /\ WalkTyped(x, n + 1)
  <2>1. us \in Seq(VisitRecords)
    BY <1>10
  <2>2. \A c \in 0 .. n : c \in 0 .. n + 1
    BY <1>2
  <2>. HIDE DEF us, last
  <2>3. x.visits = us /\ x.closed = w.closed /\ x = [visits |-> us, closed |-> w.closed]
    BY <1>5
  <2>4. w.closed \in 0 .. n + 1
    BY <1>5, <2>2
  <2>. HIDE DEF x
  <2>. QED  BY <2>1, <2>3, <2>4 DEF WalkTyped
<1>. HIDE DEF us, x, last, r
<1>13. \A v \in 1 .. last :
         /\ us[v].node = vs[v].node /\ us[v].ordinal = vs[v].ordinal
         /\ us[v].start = vs[v].start
         /\ us[v].end = IF v = last THEN Unfinished ELSE vs[v].end
         /\ us[v].executions = IF v = last THEN vs[v].executions + 1 ELSE vs[v].executions
  <2>1. ASSUME NEW v \in 1 .. last, v # last
        PROVE  us[v] = vs[v]
    BY <1>10, <2>1
  <2>. QED  BY <1>9, <1>10, <2>1
<1>14. \A v \in 1 .. last : vs[v].start \in StartedAt(j) /\ vs[v].start <= n /\ vs[v].start \in Nat
  BY <1>5, <1>11 DEF StartsAre, StartedAt
<1>15. n + 1 \in ExecutionsOf(j, vs[last].start)
  <2>1. ASSUME NEW l \in StartedAt(j), vs[last].start < l, l <= n + 1, BegunByGraph(j, l)
        PROVE  FALSE
    <3>1. l # n + 1 /\ l \in Nat
      BY <1>8, <2>1 DEF StartedAt
    <3>2. l <= n
      BY <1>2, <2>1, <3>1
    <3>3. PICK v \in 1 .. last : vs[v].start = l
      BY <1>5, <1>11, <2>1, <3>2 DEF StartsAre
    <3>4. v # last => vs[v].start < vs[last].start
      BY <1>5, <1>6, <1>7, <1>11, <3>3 DEF StartsAre
    <3>. QED  BY <1>7, <1>14, <2>1, <3>1, <3>3, <3>4
  <2>2. n + 1 >= vs[last].start
    BY <1>2, <1>7, <1>14
  <2>. QED  BY <1>3, <2>1, <2>2 DEF ExecutionsOf
<1>16. ASSUME NEW v \in 1 .. last, v # last
       PROVE  n + 1 \notin ExecutionsOf(j, vs[v].start)
  <2>1. vs[v].start < vs[last].start /\ vs[last].start <= n + 1
        /\ vs[last].start \in StartedAt(j) /\ BegunByGraph(j, vs[last].start)
    BY <1>2, <1>5, <1>6, <1>7, <1>11, <1>14, <1>16 DEF StartsAre
  <2>. QED  BY <2>1 DEF ExecutionsOf
<1>17. ClosedIs(j, x, n + 1)
  <2>1. \A k \in FinishedAt(j) : k \in Nat /\ (k <= n + 1 => k <= n)
    BY <1>2, <1>3 DEF FinishedAt
  <2>. QED  BY <1>5, <1>12, <2>1 DEF ClosedIs
<1>18. StartsAre(j, x, n + 1)
  <2>1. Len(x.visits) = Len(w.visits)
        /\ \A v \in 1 .. Len(w.visits) : x.visits[v].start = w.visits[v].start
    BY <1>10, <1>11, <1>12, <1>13
  <2>2. \A i \in StartedAt(j) : i <= n + 1 /\ BegunByGraph(j, i) => i <= n
    BY <1>2, <1>8 DEF StartedAt
  <2>3. \A i \in StartedAt(j) : i <= n => i <= n + 1
    BY <1>2 DEF StartedAt
  <2>. QED  BY <1>5, <2>1, <2>2, <2>3 DEF StartsAre
<1>19. ASSUME NEW v \in 1 .. last
       PROVE  /\ us[v].executions = Cardinality(Those(j, us[v].start, n + 1))
              /\ \A k \in Those(j, us[v].start, n + 1) : j[k].node = us[v].node
              /\ us[v].ordinal = Cardinality({u \in 1 .. v : us[u].node = us[v].node})
              /\ us[v].end = Unfinished <=> v = last
  <2>1. /\ vs[v].executions = Cardinality(Those(j, vs[v].start, n))
        /\ \A k \in Those(j, vs[v].start, n) : j[k].node = vs[v].node
        /\ vs[v].ordinal = Cardinality({u \in 1 .. v : vs[u].node = vs[v].node})
        /\ vs[v].end # Unfinished
    BY <1>4, <1>5, <1>11 DEF CountsAre
  <2>2. 1 .. v \subseteq 1 .. last
    BY <1>6
  <2>3. {u \in 1 .. v : us[u].node = us[v].node} = {u \in 1 .. v : vs[u].node = vs[v].node}
    BY <1>13, <2>2
  <2>4. us[v].end = Unfinished <=> v = last
    BY <1>13, <2>1
  <2>5. us[v].ordinal = Cardinality({u \in 1 .. v : us[u].node = us[v].node})
    BY <1>13, <2>1, <2>3
  <2>6. CASE v = last
    <3>1. /\ Those(j, vs[v].start, n + 1) = Those(j, vs[v].start, n) \cup {n + 1}
          /\ Cardinality(Those(j, vs[v].start, n + 1)) = Cardinality(Those(j, vs[v].start, n)) + 1
      BY <1>2, <1>15, <2>6, ThoseNext
    <3>2. j[n + 1].node = vs[v].node
      BY <1>6, <2>6 DEF r
    <3>. QED  BY <1>13, <2>1, <2>4, <2>5, <2>6, <3>1, <3>2
  <2>7. CASE v # last
    <3>1. Those(j, vs[v].start, n + 1) = Those(j, vs[v].start, n)
      BY <1>2, <1>16, <2>7, ThoseNext
    <3>. QED  BY <1>13, <2>1, <2>4, <2>5, <2>7, <3>1
  <2>. QED  BY <2>6, <2>7
<1>20. CountsAre(j, x, n + 1)
  <2>1. Len(x.visits) = last /\ x.visits = us
    BY <1>10, <1>12
  <2>2. ASSUME NEW v \in 1 .. last
        PROVE  x.visits[v].end = Unfinished <=> IsStart(j, n + 1) /\ v = Len(x.visits)
    BY <1>3, <1>19, <2>1
  <2>. QED  BY <1>19, <2>1, <2>2 DEF CountsAre
<1>21. LastIs(j, x, n + 1)
  <2>1. Len(x.visits) = last /\ x.visits[last].node = r.node
    BY <1>6, <1>7, <1>10, <1>12, <1>13
  <2>. QED  BY <1>3, <1>6, <2>1 DEF LastIs, r
<1>. QED  BY <1>1, <1>12, <1>17, <1>18, <1>20, <1>21 DEF Seen

LEMMA SeenBegun ==
  ASSUME NEW j \in Seq(Record), NEW w, NEW n \in 0 .. Len(j) - 1, Validate(j), Seen(j, w, n),
         j[n + 1].event = "node_started",
         ~ (w.closed # 0 /\ continuesVisit(j[w.closed], j[n + 1].node))
  PROVE  Seen(j, VisitRecord(w, j, n + 1), n + 1)
<1>. DEFINE r    == j[n + 1]
            vs   == w.visits
            last == Len(vs)
            e    == NewVisit(vs, r.node, n + 1)
            us   == Append(vs, e)
            x    == [w EXCEPT !.visits = us]
<1>1. VisitRecord(w, j, n + 1) = x
  BY DEF VisitRecord, Begun
<1>2. Len(j) \in Nat /\ n \in Nat /\ n + 1 \in 1 .. Len(j) /\ r \in Record
  OBVIOUS
<1>3. n + 1 \in StartedAt(j) /\ n + 1 \notin FinishedAt(j) /\ IsStart(j, n + 1)
  BY <1>2 DEF StartedAt, FinishedAt, IsStart
<1>4. ~ IsStart(j, n)
  <2>1. n # 0 => MayFollow(j[n], j[n + 1])
    BY <1>2 DEF Validate
  <2>. QED  BY <2>1 DEF IsStart, MayFollow
<1>5. /\ w \in [visits : Seq(VisitRecords), closed : 0 .. n]
      /\ StartsAre(j, w, n) /\ CountsAre(j, w, n) /\ LastIs(j, w, n) /\ ClosedIs(j, w, n)
  BY DEF Seen, WalkTyped
<1>6. vs \in Seq(VisitRecords) /\ last \in Nat
  BY <1>5
<1>8. BegunByGraph(j, n + 1)
  BY <1>2, <1>3, <1>5, BegunIs DEF WalkTyped
<1>. HIDE DEF vs
<1>. DEFINE O == {v \in 1 .. last : vs[v].node = r.node}
<1>7. IsFiniteSet(O) /\ Cardinality(O) \in Nat /\ last + 1 \notin O
  <2>1. IsFiniteSet(O)
    <3>1. O \subseteq 1 .. last /\ last \in Int /\ 1 \in Int
      BY <1>6
    <3>. HIDE DEF O, last
    <3>. QED  BY <3>1, FS_Interval, FS_Subset
  <2>. QED  BY <1>6, <2>1, FS_CardinalityType
<1>9. /\ e \in VisitRecords /\ e.end = Unfinished
      /\ e.node = r.node /\ e.ordinal = Cardinality(O) + 1
      /\ e.start = n + 1 /\ e.executions = 1
  <2>1. OrdinalIn(vs, r.node) = Cardinality(O)
    BY DEF OrdinalIn
  <2>2. r.node \in Names \cup {NoNode}
    BY <1>2 DEF Record
  <2>3. e = [node |-> r.node, ordinal |-> Cardinality(O) + 1, start |-> n + 1,
             end |-> 0, executions |-> 1, status |-> NoStatus]
    BY <2>1 DEF NewVisit, Unfinished
  <2>. HIDE DEF e, O, r
  <2>. QED  BY <1>2, <1>7, <2>2, <2>3 DEF VisitRecords, Unfinished
<1>. HIDE DEF e
<1>10. /\ us \in Seq(VisitRecords) /\ Len(us) = last + 1
       /\ us[last + 1] = e
       /\ \A v \in 1 .. last : us[v] = vs[v]
  BY <1>6, <1>9
<1>11. w.visits = vs /\ Len(vs) = last
  BY DEF vs
<1>12. x.visits = us /\ x.closed = w.closed /\ WalkTyped(x, n + 1)
  <2>1. us \in Seq(VisitRecords)
    BY <1>10
  <2>2. \A c \in 0 .. n : c \in 0 .. n + 1
    BY <1>2
  <2>. HIDE DEF us, last
  <2>3. x.visits = us /\ x.closed = w.closed /\ x = [visits |-> us, closed |-> w.closed]
    BY <1>5
  <2>4. w.closed \in 0 .. n + 1
    BY <1>5, <2>2
  <2>. HIDE DEF x
  <2>. QED  BY <2>1, <2>3, <2>4 DEF WalkTyped
<1>. HIDE DEF us, x, last, r
<1>13. 1 .. last + 1 = (1 .. last) \cup {last + 1} /\ last + 1 \notin 1 .. last
  BY <1>6
<1>14. \A v \in 1 .. last : vs[v].start \in StartedAt(j) /\ vs[v].start <= n /\ vs[v].start \in Nat
  BY <1>5, <1>11 DEF StartsAre, StartedAt
<1>16. ASSUME NEW v \in 1 .. last
       PROVE  n + 1 \notin ExecutionsOf(j, vs[v].start)
  <2>1. vs[v].start < n + 1
    BY <1>2, <1>14
  <2>2. n + 1 <= n + 1
    BY <1>2
  <2>. QED  BY <1>3, <1>8, <2>1, <2>2 DEF ExecutionsOf
<1>15. Those(j, n + 1, n + 1) = {n + 1}
  <2>1. n + 1 \in ExecutionsOf(j, n + 1)
    BY <1>2, <1>3 DEF ExecutionsOf, StartedAt
  <2>2. \A k \in ExecutionsOf(j, n + 1) : k >= n + 1 /\ k \in Nat
    BY DEF ExecutionsOf, StartedAt
  <2>. QED  BY <1>2, <2>1, <2>2 DEF Those
<1>17. ClosedIs(j, x, n + 1)
  <2>1. \A k \in FinishedAt(j) : k \in Nat /\ (k <= n + 1 => k <= n)
    BY <1>2, <1>3 DEF FinishedAt
  <2>. QED  BY <1>5, <1>12, <2>1 DEF ClosedIs
<1>18. StartsAre(j, x, n + 1)
  <2>1. Len(x.visits) = last + 1 /\ x.visits = us
    BY <1>10, <1>12
  <2>2. ASSUME NEW v \in 1 .. last + 1
        PROVE  us[v].start \in StartedAt(j) /\ us[v].start <= n + 1 /\ BegunByGraph(j, us[v].start)
    <3>1. CASE v = last + 1
      BY <1>2, <1>3, <1>8, <1>9, <1>10, <3>1
    <3>2. CASE v \in 1 .. last
      <4>1. us[v] = vs[v] /\ vs[v].start <= n + 1
        BY <1>2, <1>10, <1>14, <3>2
      <4>. QED  BY <1>5, <1>11, <3>2, <4>1 DEF StartsAre
    <3>. QED  BY <1>13, <3>1, <3>2
  <2>3. ASSUME NEW i \in StartedAt(j), i <= n + 1, BegunByGraph(j, i)
        PROVE  \E v \in 1 .. last + 1 : us[v].start = i
    <3>1. CASE i = n + 1
      BY <1>9, <1>10, <1>13, <3>1
    <3>2. CASE i # n + 1
      <4>1. i <= n
        BY <1>2, <2>3, <3>2 DEF StartedAt
      <4>2. PICK v \in 1 .. last : vs[v].start = i
        BY <1>5, <1>11, <2>3, <4>1 DEF StartsAre
      <4>. QED  BY <1>10, <1>13, <4>2
    <3>. QED  BY <3>1, <3>2
  <2>4. ASSUME NEW u \in 1 .. last + 1, NEW v \in 1 .. last + 1, u < v
        PROVE  us[u].start < us[v].start
    <3>1. u \in 1 .. last
      BY <1>6, <2>4
    <3>2. CASE v = last + 1
      BY <1>2, <1>9, <1>10, <1>14, <3>1, <3>2
    <3>3. CASE v \in 1 .. last
      <4>1. vs[u].start < vs[v].start
        BY <1>5, <1>11, <2>4, <3>1, <3>3 DEF StartsAre
      <4>. QED  BY <1>10, <3>1, <3>3, <4>1
    <3>. QED  BY <1>13, <3>2, <3>3
  <2>. QED  BY <2>1, <2>2, <2>3, <2>4 DEF StartsAre
<1>19. ASSUME NEW v \in 1 .. last + 1
       PROVE  /\ us[v].executions = Cardinality(Those(j, us[v].start, n + 1))
              /\ \A k \in Those(j, us[v].start, n + 1) : j[k].node = us[v].node
              /\ us[v].ordinal = Cardinality({u \in 1 .. v : us[u].node = us[v].node})
              /\ us[v].end = Unfinished <=> v = last + 1
  <2>1. CASE v = last + 1
    <3>1. us[v] = e
      BY <1>10, <2>1
    <3>2. Cardinality({n + 1}) = 1
      BY FS_Singleton
    <3>3. {u \in 1 .. v : us[u].node = r.node} = O \cup {last + 1}
      BY <1>9, <1>10, <1>13, <2>1, <3>1
    <3>4. Cardinality(O \cup {last + 1}) = Cardinality(O) + 1
      BY <1>7, FS_AddElement
    <3>5. us[v].ordinal = Cardinality({u \in 1 .. v : us[u].node = us[v].node})
      BY <1>9, <3>1, <3>3, <3>4
    <3>6. \A k \in Those(j, us[v].start, n + 1) : j[k].node = us[v].node
      BY <1>9, <1>15, <3>1 DEF r
    <3>7. us[v].executions = Cardinality(Those(j, us[v].start, n + 1))
      BY <1>9, <1>15, <3>1, <3>2
    <3>. QED  BY <1>9, <2>1, <3>1, <3>5, <3>6, <3>7
  <2>2. CASE v \in 1 .. last
    <3>1. us[v] = vs[v] /\ v # last + 1 /\ 1 .. v \subseteq 1 .. last
      BY <1>6, <1>10, <2>2
    <3>2. /\ vs[v].executions = Cardinality(Those(j, vs[v].start, n))
          /\ \A k \in Those(j, vs[v].start, n) : j[k].node = vs[v].node
          /\ vs[v].ordinal = Cardinality({u \in 1 .. v : vs[u].node = vs[v].node})
          /\ vs[v].end # Unfinished
      BY <1>4, <1>5, <1>11, <2>2 DEF CountsAre
    <3>3. Those(j, vs[v].start, n + 1) = Those(j, vs[v].start, n)
      BY <1>2, <1>16, <2>2, ThoseNext
    <3>4. {u \in 1 .. v : us[u].node = us[v].node} = {u \in 1 .. v : vs[u].node = vs[v].node}
      BY <1>10, <3>1
    <3>. QED  BY <3>1, <3>2, <3>3, <3>4
  <2>. QED  BY <1>13, <2>1, <2>2
<1>20. CountsAre(j, x, n + 1)
  <2>1. Len(x.visits) = last + 1 /\ x.visits = us
    BY <1>10, <1>12
  <2>2. ASSUME NEW v \in 1 .. last + 1
        PROVE  x.visits[v].end = Unfinished <=> IsStart(j, n + 1) /\ v = Len(x.visits)
    BY <1>3, <1>19, <2>1
  <2>3. ASSUME NEW v \in 1 .. last + 1
        PROVE  LET y == x.visits[v]
               IN  /\ y.executions = Cardinality(Those(j, y.start, n + 1))
                   /\ \A k \in Those(j, y.start, n + 1) : j[k].node = y.node
                   /\ y.ordinal = Cardinality({u \in 1 .. v : x.visits[u].node = y.node})
    BY <1>19, <2>1
  <2>. QED  BY <2>1, <2>2, <2>3 DEF CountsAre
<1>21. LastIs(j, x, n + 1)
  <2>1. Len(x.visits) = last + 1 /\ x.visits[last + 1].node = r.node /\ last + 1 # 0
    BY <1>6, <1>9, <1>10, <1>12
  <2>. QED  BY <1>3, <2>1 DEF LastIs, r
<1>. QED  BY <1>1, <1>12, <1>17, <1>18, <1>20, <1>21 DEF Seen

LEMMA SeenNothing ==
  ASSUME NEW j \in Seq(Record)
  PROVE  Seen(j, NoVisits, 0)
<1>1. NoVisits.visits = <<>> /\ NoVisits.closed = 0 /\ Len(<<>>) = 0
  BY DEF NoVisits
<1>2. WalkTyped(NoVisits, 0)
  BY DEF WalkTyped, NoVisits
<1>3. \A k \in FinishedAt(j) : ~ k <= 0
  BY DEF FinishedAt
<1>4. \A k \in StartedAt(j) : ~ k <= 0
  BY DEF StartedAt
<1>. QED  BY <1>1, <1>2, <1>3, <1>4 DEF Seen, ClosedIs, StartsAre, CountsAre, LastIs, IsStart

LEMMA WalkSeen ==
  ASSUME NEW j \in Seq(Record), Validate(j), NEW f, WalkTo(f, j, Len(j)), NEW n \in 0 .. Len(j)
  PROVE  Seen(j, f[n], n)
<1>. DEFINE D == {k \in 0 .. Len(j) : ~ Seen(j, f[k], k)}
<1>. SUFFICES ASSUME D # {} PROVE FALSE
  OBVIOUS
<1>1. D \in SUBSET Nat /\ Len(j) \in Nat
  OBVIOUS
<1>2. PICK x \in D : \A y \in D : x <= y
  BY <1>1, LeastOfASet
<1>3. f[0] = NoVisits
  BY <1>1, WalkStarts
<1>4. x # 0
  BY <1>2, <1>3, SeenNothing
<1>. DEFINE i == x - 1
<1>5. i \in 0 .. Len(j) - 1 /\ i + 1 = x /\ i \notin D /\ i \in 0 .. Len(j)
  BY <1>1, <1>2, <1>4
<1>. HIDE DEF i
<1>6. Seen(j, f[i], i)
  BY <1>5
<1>7. f[i + 1] = VisitRecord(f[i], j, i + 1)
  BY <1>1, <1>5, WalkStep
<1>8. Seen(j, VisitRecord(f[i], j, i + 1), i + 1)
  <2>1. CASE j[i + 1].event \notin {"node_started", "node_finished"}
    BY <1>5, <1>6, <2>1, SeenMarker
  <2>2. CASE j[i + 1].event = "node_finished"
    BY <1>5, <1>6, <2>2, SeenFinished
  <2>3. CASE j[i + 1].event = "node_started"
    BY <1>5, <1>6, <2>3, SeenTakenUp, SeenBegun
  <2>. QED  BY <2>1, <2>2, <2>3
<1>. QED  BY <1>2, <1>5, <1>7, <1>8

\* What VisitsOf makes of a journal.
LEMMA VisitsAreSeen ==
  ASSUME NEW j \in Seq(Record), Validate(j)
  PROVE  \E w : Seen(j, w, Len(j)) /\ VisitsOf(j) = w.visits
<1>1. Len(j) \in Nat /\ Len(j) \in 0 .. Len(j)
  OBVIOUS
<1>2. PICK f : WalkTo(f, j, Len(j)) /\ VisitsOf(j) = f[Len(j)].visits
  BY <1>1, VisitsAreWalked
<1>3. Seen(j, f[Len(j)], Len(j))
  BY <1>1, <1>2, WalkSeen
<1>. QED  BY <1>2, <1>3

VisitsAreRight(j) ==
  LET vs == VisitsOf(j)
  IN  /\ {vs[v].start : v \in 1 .. Len(vs)} = {i \in StartedAt(j) : BegunByGraph(j, i)}
      /\ \A v \in 1 .. Len(vs) :
           LET those == ExecutionsOf(j, vs[v].start)
           IN  /\ \A w \in 1 .. v - 1 : vs[w].start < vs[v].start
               /\ vs[v].executions = Cardinality(those)
               /\ \A k \in those : j[k].node = vs[v].node
               /\ vs[v].ordinal = Cardinality({w \in 1 .. v : vs[w].node = vs[v].node})
               /\ vs[v].end = Unfinished <=> IsOpen(j) /\ Len(j) \in those

LEMMA EveryJournalsVisits ==
  ASSUME NEW j \in Seq(Record), Validate(j)
  PROVE  VisitsAreRight(j)
<1>. DEFINE vs == VisitsOf(j)
            n  == Len(j)
<1>1. PICK w : Seen(j, w, n) /\ vs = w.visits
  BY VisitsAreSeen
<1>2. n \in Nat /\ IsASequence(j)
  BY DEF IsASequence
<1>3. /\ StartsAre(j, w, n) /\ CountsAre(j, w, n) /\ LastIs(j, w, n)
      /\ Len(vs) \in Nat
  BY <1>1 DEF Seen, WalkTyped
<1>4. \A k \in StartedAt(j) : k <= n /\ k \in Nat /\ k # 0
  BY <1>2 DEF StartedAt
<1>5. \A i : Those(j, i, n) = ExecutionsOf(j, i)
  BY <1>4 DEF Those, ExecutionsOf
<1>6. IsOpen(j) <=> IsStart(j, n)
  BY <1>2, EmptyJournal DEF IsOpen, IsStart
<1>. HIDE DEF vs
<1>7. {vs[v].start : v \in 1 .. Len(vs)} = {i \in StartedAt(j) : BegunByGraph(j, i)}
  BY <1>1, <1>3, <1>4 DEF StartsAre
<1>8. ASSUME NEW v \in 1 .. Len(vs)
      PROVE  /\ \A u \in 1 .. v - 1 : vs[u].start < vs[v].start
             /\ vs[v].executions = Cardinality(ExecutionsOf(j, vs[v].start))
             /\ \A k \in ExecutionsOf(j, vs[v].start) : j[k].node = vs[v].node
             /\ vs[v].ordinal = Cardinality({u \in 1 .. v : vs[u].node = vs[v].node})
             /\ vs[v].end = Unfinished <=> IsOpen(j) /\ n \in ExecutionsOf(j, vs[v].start)
  <2>1. \A u \in 1 .. v - 1 : u \in 1 .. Len(vs) /\ u < v
    BY <1>3
  <2>2. \A u \in 1 .. v - 1 : vs[u].start < vs[v].start
    BY <1>1, <1>3, <2>1 DEF StartsAre
  <2>3. /\ vs[v].executions = Cardinality(ExecutionsOf(j, vs[v].start))
        /\ \A k \in ExecutionsOf(j, vs[v].start) : j[k].node = vs[v].node
        /\ vs[v].ordinal = Cardinality({u \in 1 .. v : vs[u].node = vs[v].node})
        /\ vs[v].end = Unfinished <=> IsStart(j, n) /\ v = Len(vs)
    BY <1>1, <1>3, <1>5 DEF CountsAre
  <2>4. ASSUME IsStart(j, n)
        PROVE  n \in ExecutionsOf(j, vs[v].start) <=> v = Len(vs)
    <3>1. n \in StartedAt(j) /\ vs[v].start \in StartedAt(j) /\ vs[v].start <= n
      BY <1>1, <1>2, <1>3, <2>4 DEF StartedAt, IsStart, StartsAre
    <3>2. CASE v = Len(vs)
      <4>1. ASSUME NEW l \in StartedAt(j), vs[v].start < l, BegunByGraph(j, l)
            PROVE  FALSE
        <5>1. PICK u \in 1 .. Len(vs) : vs[u].start = l
          BY <1>1, <1>3, <1>4, <4>1 DEF StartsAre
        <5>2. u # v => vs[u].start < vs[v].start
          BY <1>1, <1>3, <3>2, <5>1 DEF StartsAre
        <5>. QED  BY <1>4, <3>1, <4>1, <5>1, <5>2
      <4>2. n >= vs[v].start
        BY <1>2, <1>4, <3>1
      <4>. QED  BY <3>1, <3>2, <4>1, <4>2 DEF ExecutionsOf
    <3>3. CASE v # Len(vs)
      <4>. DEFINE l == vs[Len(vs)].start
      <4>1. Len(vs) \in 1 .. Len(vs) /\ v < Len(vs)
        BY <1>3, <3>3
      <4>2. vs[v].start < l /\ l \in StartedAt(j) /\ l <= n /\ BegunByGraph(j, l)
        BY <1>1, <1>3, <4>1 DEF StartsAre
      <4>. QED  BY <3>3, <4>2 DEF ExecutionsOf
    <3>. QED  BY <3>2, <3>3
  <2>5. vs[v].end = Unfinished <=> IsOpen(j) /\ n \in ExecutionsOf(j, vs[v].start)
    BY <1>6, <2>3, <2>4
  <2>. QED  BY <2>2, <2>3, <2>5
<1>. QED  BY <1>7, <1>8 DEF VisitsAreRight, vs

(***************************************************************************)
(* The inductive invariant.                                                *)
(***************************************************************************)
Boards == [attempts : Nat, plan : Nat]
Snapshots == [step : Nat \ {0}, digest : [TreeFiles -> Nat], board : Boards]

There(r)    == man[r] # None
OwnOf(m)    == IF m.origin = None THEN 0 ELSE m.origin.start
Again(j)    == ResolveStart(j).attempt # 1
Ones(j)     == {i \in StartedAt(j) : j[i].attempt = 1}
IsLastOf(j, m) == \A k \in Ones(j) : k <= m

\* The visits to n before and at i, when those of attempt 1 are the visits.
OnesTo(j, n, i) == {k \in Ones(j) : k <= i /\ j[k].node = n}
VisitIn(j, n, ordinal, start) ==
  /\ start \in Ones(j) /\ j[start].node = n /\ ordinal = Cardinality(OnesTo(j, n, start))

\* A journal's records before n, as a fork inherits them.
Stripped(j, n) == [i \in 1 .. n - 1 |-> [j[i] EXCEPT !.usage = 0]]

\* The graph begins an execution with attempt 1, and no other.
Graphed(j) ==
  /\ \A i \in StartedAt(j) : /\ j[i].node \in Names /\ j[i].attempt # 0
                             /\ j[i].attempt = 1 <=> BegunByGraph(j, i)
  /\ \A i \in FinishedAt(j) : j[i].status # "paused" /\ j[i].attempt # 0
JournalOK(j) == j \in Seq(Record) /\ Validate(j) /\ Graphed(j)

\* What is run again, and the snapshots and worths there are.
SnapsOK(own, j, sd, wd) ==
  /\ Again(j) => \E m \in Ones(j) : own < m /\ IsLastOf(j, m) /\ j[m].node = ResolveStart(j).node
  /\ \A i \in Ones(j) : own < i => /\ i \in wd
                                   /\ i \in sd \/ (Again(j) /\ IsLastOf(j, i))
  /\ sd \subseteq wd /\ wd \subseteq Ones(j)

MoneyOK(m, j, wa, w) ==
  /\ w = Inherited(m) + Cardinality(Dollars(j, Len(j)))
  /\ \A i \in DOMAIN wa : wa[i] = Inherited(m) + Cardinality(Dollars(j, i - 1))

RunOK(m, j, sn, t, wa, w) ==
  /\ m \in Manifests /\ t \in [TreeFiles -> Nat]
  /\ \A i \in DOMAIN sn : sn[i] \in Snapshots
  /\ SnapsOK(OwnOf(m), j, DOMAIN sn, DOMAIN wa)
  /\ MoneyOK(m, j, wa, w)

\* A fork that has finished nothing of its own is at its visit.
FirstIn(o, j) == \A i \in FinishedAt(j) : i < o.start \/ Interrupted(j[i])
FirstOK(o, g, j, step, b, sn) ==
  /\ FirstIn(o, j) => /\ ResolveStart(j).node = o.node
                      /\ step = o.step - 1 /\ b = g.board
                      /\ \A i \in DOMAIN sn : sn[i].board = g.board
  /\ o.start + 1 \in StartedAt(j) => /\ j[o.start + 1].node = o.node
                                     /\ j[o.start + 1].attempt = 1
                                     /\ FirstIn(o, j) \/ o.start + 1 \in DOMAIN sn
  /\ Len(j) = o.start => ~ Again(j)
  /\ o.start + 1 \in DOMAIN sn => sn[o.start + 1].step = o.step

\* How a fork goes back to its source, with journal js and snapshots ss.
BackOK(o, floor, j, c, js, ss) ==
  /\ o.start \in DOMAIN ss
  /\ o.step = ss[o.start].step
  /\ VisitIn(js, o.node, o.visit, o.start)
  /\ Len(j) >= o.start /\ j[o.start] = Boundary
  /\ \A i \in 1 .. o.start - 1 : j[i] = [js[i] EXCEPT !.usage = 0]
  /\ ~ o.changed => c.tree = ss[o.start].digest
  /\ o.node = "code" => c.plan = ss[o.start].board.plan
  /\ floor = IF o.node = "fix" /\ ss[o.start].board.attempts >= GiveUp
               THEN ss[o.start].board.attempts + 1 ELSE 0

LinkOK(m, j, c, b, sn, js, ss) ==
  /\ BackOK(m.origin, m.floor, j, c, js, ss)
  /\ FirstOK(m.origin, ss[m.origin.start], j, m.step, b, sn)

ShapeInv ==
  /\ DOMAIN man = Runs /\ DOMAIN journal = Runs /\ DOMAIN snaps = Runs /\ DOMAIN board = Runs
  /\ DOMAIN files = Runs /\ DOMAIN planFile = Runs /\ DOMAIN proc = Runs /\ DOMAIN worth = Runs
  /\ DOMAIN worthAt = Runs /\ DOMAIN copied = Runs
  /\ \A r \in Runs : There(r) => (man[r].origin = None <=> r = ForkSource)
  /\ There(ForkSource) /\ gaveUp = {}

AnyOK(m, j, b, p, sn, wa, pr) ==
  /\ JournalOK(j) /\ b \in Boards /\ p \in Nat
  /\ m = None => pr = "none" /\ DOMAIN sn = {} /\ DOMAIN wa = {}

AnyInv == \A r \in Runs :
  AnyOK(man[r], journal[r], board[r], planFile[r], snaps[r], worthAt[r], proc[r])
RunInv == \A r \in Runs : There(r) =>
  RunOK(man[r], journal[r], snaps[r], files[r], worthAt[r], worth[r])
LinkInv == \A f \in Runs : There(f) /\ man[f].origin # None =>
  LET s == man[f].origin.run
  IN  /\ There(s) /\ s # f
      /\ LinkOK(man[f], journal[f], copied[f], board[f], snaps[f], journal[s], snaps[s])
BankInv == Cardinality(UNION {{r} \X Charged(r) : r \in Made \cup {ForkSource}}) = bank

\* The command, stage by stage.
Read   == {"survey"} \cup Making
Copied == {"state", "journal file", "manifest"}
ReadFields   == {"pc", "src", "visit", "snap", "prefix", "inherited", "digest"}
MakingFields == {"changed", "plan", "floor", "again", "fork"}
AskedInv ==
  cmd.pc \in {"journal", "survey"} =>
    LET s == cmd.src
    IN  /\ s \in Runs /\ There(s) /\ ForkOf[s] \in Forks
        /\ ~ There(ForkOf[s]) /\ files[ForkOf[s]] = None
        /\ cmd.pc = "journal" => Inherited(cmd.source) = Inherited(man[s])
ReadOK(v, sn, prefix, inherited, js, ss, wa) ==
  /\ v.start \in DOMAIN ss /\ sn = ss[v.start]
  /\ VisitIn(js, v.node, v.ordinal, v.start)
  /\ prefix = Stripped(js, v.start)
  /\ startsAt(prefix, v.node)
  /\ inherited = wa[v.start]
ReadInv ==
  cmd.pc \in Read =>
    LET s == cmd.src
    IN  /\ ReadFields \subseteq DOMAIN cmd
        /\ s \in Runs /\ There(s)
        /\ ReadOK(cmd.visit, cmd.snap, cmd.prefix, cmd.inherited, journal[s], snaps[s], worthAt[s])
        /\ IsPartTree(cmd.digest)
        /\ \A x \in DOMAIN cmd.digest : cmd.digest[x] <= files[s][x]
MakingInv ==
  cmd.pc \in Making =>
    LET f == cmd.fork
    IN  /\ MakingFields \subseteq DOMAIN cmd
        /\ f \in Forks /\ ~ There(f)
        /\ DOMAIN cmd.digest = TreeFiles
        /\ cmd.changed = FilesChanged
        /\ cmd.visit.node = "code" => cmd.plan = cmd.snap.board.plan
        /\ cmd.plan \in Nat /\ cmd.floor = noteGiveUp
        /\ cmd.pc \in Copied => files[f] = cmd.digest
        /\ cmd.pc \in {"journal file", "manifest"} =>
             board[f] = cmd.snap.board /\ planFile[f] = cmd.plan
        /\ cmd.pc = "manifest" => journal[f] = Append(cmd.prefix, Boundary)
Between(d, c, s) == \A x \in DOMAIN c : d[x] <= c[x] /\ c[x] <= s[x]
CopyInv ==
  /\ cmd.pc = "copy" =>
       LET f == cmd.fork
       IN  /\ cmd.again = Empty
           /\ files[f] = None \/ (IsPartTree(files[f]) /\ Between(cmd.digest, files[f], files[cmd.src]))
  /\ cmd.pc = "surveyAgain" =>
       LET f == cmd.fork
       IN  /\ files[f] \in [TreeFiles -> Nat] /\ Between(cmd.digest, files[f], files[cmd.src])
           /\ IsPartTree(cmd.again) /\ Between(files[f], cmd.again, files[cmd.src])
CmdInv == /\ cmd.pc \in {"idle", "journal"} \cup Read
          /\ AskedInv /\ ReadInv /\ MakingInv /\ CopyInv

ForkInv == ShapeInv /\ AnyInv /\ RunInv /\ LinkInv /\ BankInv /\ CmdInv

(***************************************************************************)
(* Counting visits.                                                        *)
(***************************************************************************)
LEMMA SameCount ==
  ASSUME NEW S, NEW T, IsFiniteSet(S), NEW f \in [S -> T],
         \A x, y \in S : f[x] = f[y] => x = y,
         \A y \in T : \E x \in S : f[x] = y
  PROVE  IsFiniteSet(T) /\ Cardinality(T) = Cardinality(S)
<1>1. f \in Bijection(S, T)
  BY DEF Bijection, Injection, Surjection, IsInjective
<1>2. ExistsBijection(S, T)
  BY <1>1 DEF ExistsBijection
<1>. QED  BY <1>2, FS_Bijection

\* Each of the visits is one to its node, numbered as it says.
LEMMA VisitsAreOnes ==
  ASSUME NEW j, JournalOK(j)
  PROVE  LET vs == VisitsOf(j)
         IN  /\ Len(vs) \in Nat
             /\ \A v \in 1 .. Len(vs) :
                  /\ VisitIn(j, vs[v].node, vs[v].ordinal, vs[v].start)
                  /\ v = Cardinality({k \in Ones(j) : k <= vs[v].start})
                  /\ vs[v].start \in Nat
             /\ \A i \in Ones(j) : \E v \in 1 .. Len(vs) : vs[v].start = i
             /\ \A u, v \in 1 .. Len(vs) : u < v => vs[u].start < vs[v].start
<1>. DEFINE vs == VisitsOf(j)
<1>1. j \in Seq(Record) /\ Validate(j) /\ Graphed(j)
  BY DEF JournalOK
<1>2. Len(vs) \in Nat
  BY <1>1, VisitsAreSeen DEF Seen, WalkTyped
<1>3. VisitsAreRight(j)
  BY <1>1, EveryJournalsVisits
<1>. HIDE DEF vs
<1>4. /\ {vs[v].start : v \in 1 .. Len(vs)} = {i \in StartedAt(j) : BegunByGraph(j, i)}
      /\ \A v \in 1 .. Len(vs) :
           /\ \A w \in 1 .. v - 1 : vs[w].start < vs[v].start
           /\ \A k \in ExecutionsOf(j, vs[v].start) : j[k].node = vs[v].node
           /\ vs[v].ordinal = Cardinality({w \in 1 .. v : vs[w].node = vs[v].node})
  BY <1>3 DEF VisitsAreRight, vs
<1>5. Ones(j) = {i \in StartedAt(j) : BegunByGraph(j, i)}
  BY <1>1 DEF Graphed, Ones
<1>6. \A i \in Ones(j) : i \in Nat /\ i \in StartedAt(j)
  BY DEF Ones, StartedAt
<1>7. \A v \in 1 .. Len(vs) : vs[v].start \in Ones(j) /\ vs[v].start \in Nat
  BY <1>4, <1>5, <1>6
<1>8. \A i \in Ones(j) : \E v \in 1 .. Len(vs) : vs[v].start = i
  BY <1>4, <1>5
<1>9. \A u, v \in 1 .. Len(vs) : u < v => vs[u].start < vs[v].start
  <2>1. \A u, v \in 1 .. Len(vs) : u < v => u \in 1 .. v - 1
    BY <1>2
  <2>. QED  BY <1>4, <2>1
<1>10. \A v \in 1 .. Len(vs) : j[vs[v].start].node = vs[v].node
  <2>1. ASSUME NEW i \in StartedAt(j)
        PROVE  i \in ExecutionsOf(j, i)
    <3>1. i \in Nat
      BY DEF StartedAt
    <3>2. \A l \in StartedAt(j) : ~ (i < l /\ l <= i)
      BY <3>1 DEF StartedAt
    <3>. QED  BY <3>1, <3>2 DEF ExecutionsOf
  <2>. QED  BY <1>4, <1>6, <1>7, <2>1
<1>11. ASSUME NEW v \in 1 .. Len(vs), NEW K
       PROVE  Cardinality({k \in Ones(j) : k <= vs[v].start /\ k \in K})
                = Cardinality({w \in 1 .. v : vs[w].start \in K})
  <2>. DEFINE S == {w \in 1 .. v : vs[w].start \in K}
              T == {k \in Ones(j) : k <= vs[v].start /\ k \in K}
              f == [w \in S |-> vs[w].start]
  <2>1. \A w \in S : w \in 1 .. Len(vs) /\ w \in 1 .. v
    BY <1>2
  <2>2. IsFiniteSet(S)
    <3>1. IsFiniteSet(1 .. v) /\ S \subseteq 1 .. v
      BY <1>2, FS_Interval
    <3>. QED  BY <3>1, FS_Subset
  <2>3. \A w \in S : vs[w].start <= vs[v].start
    BY <1>2, <1>7, <1>9, <2>1
  <2>4. f \in [S -> T]
    BY <1>7, <2>1, <2>3
  <2>5. ASSUME NEW x \in S, NEW y \in S, f[x] = f[y]
        PROVE  x = y
    <3>1. vs[x].start = vs[y].start /\ x \in 1 .. Len(vs) /\ y \in 1 .. Len(vs)
      BY <2>1, <2>5
    <3>2. ~ (x < y) /\ ~ (y < x)
      BY <1>7, <1>9, <3>1
    <3>. QED  BY <1>2, <3>1, <3>2
  <2>6. ASSUME NEW y \in T
        PROVE  \E x \in S : f[x] = y
    <3>1. PICK u \in 1 .. Len(vs) : vs[u].start = y
      BY <1>8
    <3>2. ~ (v < u)
      BY <1>6, <1>7, <1>9, <3>1
    <3>3. u \in 1 .. v
      BY <1>2, <3>1, <3>2
    <3>4. u \in S
      BY <3>1, <3>3
    <3>. QED  BY <3>1, <3>4
  <2>. HIDE DEF S, T, f
  <2>7. Cardinality(T) = Cardinality(S)
    BY <2>2, <2>4, <2>5, <2>6, SameCount
  <2>. QED  BY <2>7 DEF S, T
<1>12. ASSUME NEW v \in 1 .. Len(vs)
       PROVE  v = Cardinality({k \in Ones(j) : k <= vs[v].start})
  <2>. DEFINE K == Ones(j)
  <2>1. Cardinality({k \in Ones(j) : k <= vs[v].start /\ k \in K})
          = Cardinality({w \in 1 .. v : vs[w].start \in K})
    BY <1>11
  <2>2. {w \in 1 .. v : vs[w].start \in K} = 1 .. v
    BY <1>2, <1>7
  <2>3. {k \in Ones(j) : k <= vs[v].start /\ k \in K} = {k \in Ones(j) : k <= vs[v].start}
    OBVIOUS
  <2>4. Cardinality(1 .. v) = v
    BY <1>2, FS_Interval
  <2>. QED  BY <2>1, <2>2, <2>3, <2>4
<1>13. ASSUME NEW v \in 1 .. Len(vs)
       PROVE  VisitIn(j, vs[v].node, vs[v].ordinal, vs[v].start)
  <2>. DEFINE n    == vs[v].node
              K == {k \in Ones(j) : j[k].node = n}
  <2>1. Cardinality({k \in Ones(j) : k <= vs[v].start /\ k \in K})
          = Cardinality({w \in 1 .. v : vs[w].start \in K})
    BY <1>11
  <2>2. \A w \in 1 .. v : vs[w].start \in K <=> vs[w].node = n
    BY <1>2, <1>7, <1>10
  <2>3. {w \in 1 .. v : vs[w].start \in K} = {w \in 1 .. v : vs[w].node = n}
    BY <2>2
  <2>4. OnesTo(j, n, vs[v].start) = {k \in Ones(j) : k <= vs[v].start /\ k \in K}
    BY DEF OnesTo
  <2>5. vs[v].ordinal = Cardinality(OnesTo(j, n, vs[v].start))
    BY <1>4, <2>1, <2>3, <2>4
  <2>. QED  BY <1>7, <1>10, <2>5 DEF VisitIn
<1>. QED  BY <1>2, <1>7, <1>8, <1>9, <1>12, <1>13 DEF vs

(***************************************************************************)
(* What one more record does to a journal, and what a fork inherits of it. *)
(***************************************************************************)
Alike(j, k, n) ==
  /\ n \in Nat /\ n <= Len(j) /\ n <= Len(k)
  /\ \A i \in 1 .. n : /\ j[i].event = k[i].event /\ j[i].node = k[i].node
                       /\ j[i].attempt = k[i].attempt /\ j[i].status = k[i].status
                       /\ j[i].next = k[i].next

LEMMA ClosedBeforeIs ==
  ASSUME NEW j, NEW i, NEW m \in FinishedAt(j), m < i,
         \A l \in FinishedAt(j) : l < i => l <= m
  PROVE  ClosedBefore(j, i) = m
<1>1. \A l \in FinishedAt(j) : l \in Int
  BY DEF FinishedAt
<1>2. \A k \in FinishedAt(j) : k < i /\ (\A l \in FinishedAt(j) : l < i => l <= k) => k = m
  BY <1>1
<1>. QED  BY <1>2 DEF ClosedBefore

\* Whether the graph began an execution is told by the records before it.
LEMMA AlikeBegun ==
  ASSUME NEW j, NEW k, IsASequence(j), IsASequence(k), NEW n, Alike(j, k, n), NEW i \in 1 .. n
  PROVE  /\ i \in StartedAt(j) <=> i \in StartedAt(k)
         /\ i \in FinishedAt(j) <=> i \in FinishedAt(k)
         /\ i \in Ones(j) <=> i \in Ones(k)
         /\ i \in StartedAt(j) => (BegunByGraph(j, i) <=> BegunByGraph(k, i))
<1>1. Len(j) \in Nat /\ Len(k) \in Nat /\ n \in Nat
  BY AppendFacts DEF Alike
<1>2. \A l \in 1 .. n : /\ l \in StartedAt(j) <=> l \in StartedAt(k)
                        /\ l \in FinishedAt(j) <=> l \in FinishedAt(k)
                        /\ l \in Ones(j) <=> l \in Ones(k)
  BY <1>1 DEF Alike, StartedAt, FinishedAt, Ones
<1>3. ASSUME i \in StartedAt(j)
      PROVE  BegunByGraph(j, i) <=> BegunByGraph(k, i)
  <2>1. /\ \A l \in FinishedAt(j) : l \in Nat /\ l # 0
        /\ \A l \in FinishedAt(k) : l \in Nat /\ l # 0
    BY DEF FinishedAt
  <2>2. i \notin FinishedAt(j) /\ i \notin FinishedAt(k)
    BY <1>2, <1>3 DEF StartedAt, FinishedAt
  <2>3. /\ \A l \in FinishedAt(j) : l < i => l \in FinishedAt(k)
        /\ \A l \in FinishedAt(k) : l < i => l \in FinishedAt(j)
    BY <1>1, <1>2, <2>1
  <2>4. CASE \A l \in FinishedAt(j) : ~ l < i
    <3>1. \A l \in FinishedAt(j) : l > i
      BY <2>1, <2>2, <2>4
    <3>2. \A l \in FinishedAt(k) : l > i
      BY <2>1, <2>2, <2>3, <2>4
    <3>. QED  BY <3>1, <3>2 DEF BegunByGraph
  <2>5. CASE \E l \in FinishedAt(j) : l < i
    <3>. DEFINE S == {l \in FinishedAt(j) : l < i}
    <3>1. S \in SUBSET (1 .. Len(j)) /\ S # {}
      BY <2>5 DEF FinishedAt
    <3>2. PICK m \in S : \A l \in S : l <= m
      BY <1>1, <3>1, LastOfASet
    <3>3. ClosedBefore(j, i) = m
      BY <3>2, ClosedBeforeIs
    <3>4. m \in FinishedAt(k) /\ m < i /\ \A l \in FinishedAt(k) : l < i => l <= m
      BY <2>3, <3>2
    <3>5. ClosedBefore(k, i) = m
      BY <3>4, ClosedBeforeIs
    <3>6. m \in 1 .. n
      BY <1>1, <2>1, <3>2
    <3>7. continuesVisit(j[m], j[i].node) <=> continuesVisit(k[m], k[i].node)
      BY <3>6 DEF continuesVisit, Alike
    <3>8. /\ ~ \A l \in FinishedAt(j) : l > i
          /\ ~ \A l \in FinishedAt(k) : l > i
      BY <2>1, <3>2, <3>4
    <3>. QED  BY <3>3, <3>5, <3>7, <3>8 DEF BegunByGraph
  <2>. QED  BY <2>4, <2>5
<1>. QED  BY <1>2, <1>3

LEMMA AlikeAppended ==
  ASSUME NEW j, NEW r, IsASequence(j)
  PROVE  Alike(j, Append(j, r), Len(j)) /\ Alike(Append(j, r), j, Len(j))
<1>1. Len(j) \in Nat /\ Len(Append(j, r)) = Len(j) + 1
      /\ \A i \in 1 .. Len(j) : Append(j, r)[i] = j[i]
  BY AppendFacts
<1>. QED  BY <1>1 DEF Alike

LEMMA AppendStarted ==
  ASSUME NEW j, NEW r, IsASequence(j)
  PROVE  StartedAt(Append(j, r)) =
           StartedAt(j) \cup (IF r.event = "node_started" THEN {Len(j) + 1} ELSE {})
<1>1. /\ Len(j) \in Nat
      /\ Len(Append(j, r)) = Len(j) + 1
      /\ Append(j, r)[Len(j) + 1] = r
      /\ \A i \in 1 .. Len(j) : Append(j, r)[i] = j[i]
  BY AppendFacts
<1>2. 1 .. Len(j) + 1 = (1 .. Len(j)) \cup {Len(j) + 1}
  BY <1>1
<1>. QED  BY <1>1, <1>2 DEF StartedAt

\* One more record, of any kind.
LEMMA AppendGraphed ==
  ASSUME NEW j, JournalOK(j), NEW r \in Record, Validate(Append(j, r)),
         r.event = "node_finished" => r.status # "paused" /\ r.attempt # 0,
         r.event = "node_started" =>
           /\ r.node \in Names /\ r.attempt # 0
           /\ r.attempt = 1 <=> BegunByGraph(Append(j, r), Len(j) + 1)
  PROVE  JournalOK(Append(j, r))
<1>. DEFINE k == Append(j, r)
<1>1. j \in Seq(Record) /\ k \in Seq(Record) /\ IsASequence(j) /\ IsASequence(k)
  BY DEF JournalOK, IsASequence
<1>2. /\ Len(j) \in Nat /\ Len(k) = Len(j) + 1 /\ k[Len(j) + 1] = r
      /\ \A i \in 1 .. Len(j) : k[i] = j[i]
  BY <1>1, AppendFacts
<1>3. Alike(j, k, Len(j))
  BY <1>1, AlikeAppended
<1>4. /\ StartedAt(k) = StartedAt(j) \cup (IF r.event = "node_started" THEN {Len(j) + 1} ELSE {})
      /\ FinishedAt(k) = FinishedAt(j) \cup (IF r.event = "node_finished" THEN {Len(j) + 1} ELSE {})
  BY <1>1, AppendStarted, AppendFinished
<1>. HIDE DEF k
<1>5. \A i \in 1 .. Len(j) : i \in StartedAt(j) => (BegunByGraph(j, i) <=> BegunByGraph(k, i))
  BY <1>1, <1>3, AlikeBegun
<1>6. /\ \A i \in StartedAt(j) : i \in 1 .. Len(j)
      /\ \A i \in FinishedAt(j) : i \in 1 .. Len(j)
  BY DEF StartedAt, FinishedAt
<1>7. Graphed(j)
  BY DEF JournalOK
<1>8. ASSUME NEW i \in StartedAt(k)
      PROVE  /\ k[i].node \in Names /\ k[i].attempt # 0
             /\ k[i].attempt = 1 <=> BegunByGraph(k, i)
  <2>1. CASE i \in StartedAt(j)
    BY <1>2, <1>5, <1>6, <1>7, <2>1 DEF Graphed
  <2>2. CASE i \notin StartedAt(j)
    <3>1. i = Len(j) + 1 /\ r.event = "node_started"
      BY <1>4, <2>2
    <3>. QED  BY <1>2, <3>1 DEF k
  <2>. QED  BY <2>1, <2>2
<1>9. ASSUME NEW i \in FinishedAt(k)
      PROVE  k[i].status # "paused" /\ k[i].attempt # 0
  <2>1. CASE i \in FinishedAt(j)
    BY <1>2, <1>6, <1>7, <2>1 DEF Graphed
  <2>2. CASE i \notin FinishedAt(j)
    <3>1. i = Len(j) + 1 /\ r.event = "node_finished"
      BY <1>4, <2>2
    <3>. QED  BY <1>2, <3>1
  <2>. QED  BY <2>1, <2>2
<1>10. Graphed(k)
  BY <1>8, <1>9 DEF Graphed
<1>. QED  BY <1>1, <1>10 DEF JournalOK, k

LEMMA MarkersAreRecords ==
  ASSUME NEW e \in RunEvents
  PROVE  /\ RunMarker(e) \in Record
         /\ RunMarker(e).event = e /\ RunMarker(e).usage = 0
         /\ e # "node_started" /\ e # "node_finished"
BY DEF RunMarker, Record, Events, RunEvents, Notes, Successors, NoNode, NoStatus

LEMMA StartsAreRecords ==
  ASSUME NEW n \in Names, NEW a \in Nat
  PROVE  LET r == NodeStarted(n, a)
         IN  /\ r \in Record /\ r.event = "node_started" /\ r.node = n
             /\ r.attempt = a /\ r.usage = 0
BY DEF NodeStarted, Record, Events, Notes, Successors, NoNode, NoStatus

LEMMA FinishesAreRecords ==
  ASSUME NEW n \in Names, NEW a \in Nat, NEW s \in Statuses, NEW x \in Successors,
         NEW u \in Nat, NEW w \in Notes
  PROVE  LET r == NodeFinished(n, a, s, x, u, w)
         IN  /\ r \in Record /\ r.event = "node_finished" /\ r.node = n
             /\ r.attempt = a /\ r.status = s /\ r.next = x /\ r.usage = u
BY DEF NodeFinished, Record, Events

\* A marker of the run.
LEMMA MarkerIsFine ==
  ASSUME NEW j, JournalOK(j), ~ IsOpen(j), NEW e \in RunEvents
  PROVE  LET k == Append(j, RunMarker(e))
         IN  /\ JournalOK(k) /\ ~ IsOpen(k)
             /\ ResolveStart(k).node = ResolveStart(j).node
             /\ ResolveStart(k).attempt = ResolveStart(j).attempt
             /\ StartedAt(k) = StartedAt(j) /\ FinishedAt(k) = FinishedAt(j)
<1>. DEFINE r == RunMarker(e)
            k == Append(j, r)
<1>1. j \in Seq(Record) /\ IsASequence(j) /\ Validate(j)
  BY DEF JournalOK, IsASequence
<1>2. r \in Record /\ r.event = e /\ e # "node_started" /\ e # "node_finished"
  BY MarkersAreRecords
<1>3. ResolveStart(k).node = ResolveStart(j).node /\ ResolveStart(k).attempt = ResolveStart(j).attempt
  BY <1>1, ResolveAfterMarker DEF Start
<1>. HIDE DEF r
<1>4. Validate(k) /\ ~ IsOpen(k)
  BY <1>1, <1>2, AppendToClosed, AppendOpen
<1>5. JournalOK(k)
  BY <1>2, <1>4, AppendGraphed
<1>6. StartedAt(k) = StartedAt(j) /\ FinishedAt(k) = FinishedAt(j)
  BY <1>1, <1>2, AppendStarted, AppendFinished
<1>. HIDE DEF k
<1>. QED  BY <1>3, <1>4, <1>5, <1>6 DEF k, r

\* A journal whose last record is a start.
LEMMA OpenIs ==
  ASSUME NEW j, JournalOK(j), IsOpen(j)
  PROVE  LET r == j[Len(j)]
         IN  /\ Len(j) \in StartedAt(j) /\ r.event = "node_started"
             /\ r.node \in Names /\ r.attempt \in Nat /\ r.attempt # 0
             /\ ResolveStart(j).node = r.node /\ ResolveStart(j).attempt = r.attempt + 1
             /\ Again(j) /\ ResolveStart(j).state = "runnable"
<1>1. j \in Seq(Record) /\ Graphed(j) /\ IsASequence(j)
  BY DEF JournalOK, IsASequence
<1>2. Len(j) \in Nat /\ Len(j) # 0 /\ Len(j) \in 1 .. Len(j)
  BY <1>1, EmptyJournal DEF IsOpen
<1>3. j[Len(j)] \in Record /\ j[Len(j)].event = "node_started" /\ Len(j) \in StartedAt(j)
  BY <1>1, <1>2 DEF IsOpen, StartedAt
<1>4. j[Len(j)].node \in Names /\ j[Len(j)].attempt \in Nat /\ j[Len(j)].attempt # 0
  BY <1>1, <1>3 DEF Graphed, Record
<1>5. ResolveStart(j) = Start("runnable", j[Len(j)].node, j[Len(j)].attempt + 1)
  BY DEF ResolveStart
<1>6. /\ ResolveStart(j).node = j[Len(j)].node
      /\ ResolveStart(j).attempt = j[Len(j)].attempt + 1
      /\ ResolveStart(j).state = "runnable"
  BY <1>5 DEF Start
<1>7. Again(j)
  BY <1>4, <1>6 DEF Again
<1>. QED  BY <1>3, <1>4, <1>6, <1>7

\* The start the journal asks for.
LEMMA StartIsFine ==
  ASSUME NEW j, JournalOK(j), ~ IsOpen(j), ResolveStart(j).node \in Names
  PROVE  LET at == ResolveStart(j)
             k  == Append(j, NodeStarted(at.node, at.attempt))
         IN  /\ JournalOK(k) /\ at.attempt \in Nat /\ at.attempt # 0
             /\ ResolveStart(k).node = at.node /\ Again(k)
             /\ StartedAt(k) = StartedAt(j) \cup {Len(j) + 1}
             /\ FinishedAt(k) = FinishedAt(j)
             /\ Ones(k) = Ones(j) \cup (IF at.attempt = 1 THEN {Len(j) + 1} ELSE {})
<1>. DEFINE at == ResolveStart(j)
            r  == NodeStarted(at.node, at.attempt)
            k  == Append(j, r)
<1>1. j \in Seq(Record) /\ IsASequence(j) /\ Validate(j) /\ Graphed(j)
  BY DEF JournalOK, IsASequence
<1>3. ASSUME FinishedAt(j) # {}
      PROVE  LET last == j[LastFinished(j)]
             IN  /\ LastFinished(j) \in FinishedAt(j) /\ LastFinished(j) \in 1 .. Len(j)
                 /\ \A i \in FinishedAt(j) : i <= LastFinished(j)
                 /\ last \in Record /\ last.attempt # 0 /\ last.status # "paused"
                 /\ last.event = "node_finished"
                 /\ at.node = last.next
                 /\ at.attempt = IF Interrupted(last) THEN last.attempt + 1 ELSE 1
  <2>1. /\ LastFinished(j) \in FinishedAt(j) /\ LastFinished(j) \in 1 .. Len(j)
        /\ \A i \in FinishedAt(j) : i <= LastFinished(j)
    BY <1>1, <1>3, LastFinishedIsLast
  <2>2. j[LastFinished(j)] \in Record /\ j[LastFinished(j)].event = "node_finished"
    BY <1>1, <2>1 DEF FinishedAt
  <2>3. j[LastFinished(j)].attempt # 0 /\ j[LastFinished(j)].status # "paused"
    BY <1>1, <2>1 DEF Graphed
  <2>4. /\ at.node = j[LastFinished(j)].next
        /\ at.attempt = IF Interrupted(j[LastFinished(j)]) THEN j[LastFinished(j)].attempt + 1 ELSE 1
    BY <1>3 DEF ResolveStart, Start
  <2>. QED  BY <2>1, <2>2, <2>3, <2>4
<1>4. at.attempt \in Nat /\ at.attempt # 0
  <2>1. CASE FinishedAt(j) = {}
    BY <2>1 DEF ResolveStart, Start
  <2>2. CASE FinishedAt(j) # {}
    <3>1. j[LastFinished(j)].attempt \in Nat
      BY <1>3, <2>2 DEF Record
    <3>. QED  BY <1>3, <2>2, <3>1
  <2>. QED  BY <2>1, <2>2
<1>5. at.node \in Names /\ at.node # NoNode
  BY NamesAssumption
<1>6. /\ r \in Record /\ r.event = "node_started" /\ r.node = at.node
      /\ r.attempt = at.attempt
  BY <1>4, <1>5, StartsAreRecords
<1>7. /\ Len(j) \in Nat /\ Len(k) = Len(j) + 1 /\ k[Len(j) + 1] = r
      /\ \A i \in 1 .. Len(j) : k[i] = j[i]
  BY <1>1, AppendFacts
<1>8. Validate(k)
  BY <1>1, <1>6, AppendToClosed
<1>9. FinishedAt(k) = FinishedAt(j) /\ StartedAt(k) = StartedAt(j) \cup {Len(j) + 1}
  BY <1>1, <1>6, AppendFinished, AppendStarted
<1>10. ResolveStart(k).node = at.node /\ ResolveStart(k).attempt = at.attempt + 1
  BY <1>1, ResolveAfterStarted DEF Start
<1>. HIDE DEF at, r, k
<1>11. r.attempt = 1 <=> BegunByGraph(k, Len(j) + 1)
  <2>1. \A i \in FinishedAt(k) : i < Len(j) + 1 /\ ~ (i > Len(j) + 1)
    BY <1>7, <1>9 DEF FinishedAt
  <2>2. CASE FinishedAt(j) = {}
    <3>1. at.attempt = 1
      BY <2>2 DEF ResolveStart, Start, at
    <3>. QED  BY <1>6, <1>9, <2>2, <3>1 DEF BegunByGraph
  <2>3. CASE FinishedAt(j) # {}
    <3>. DEFINE m    == LastFinished(j)
                last == j[m]
    <3>1. m \in FinishedAt(k) /\ m < Len(j) + 1 /\ \A i \in FinishedAt(k) : i <= m
      BY <1>3, <1>9, <2>1, <2>3
    <3>2. ClosedBefore(k, Len(j) + 1) = m
      BY <3>1, ClosedBeforeIs
    <3>3. k[m] = last /\ k[Len(j) + 1].node = at.node
      BY <1>3, <1>6, <1>7, <2>3
    <3>4. BegunByGraph(k, Len(j) + 1) <=> ~ continuesVisit(last, at.node)
      BY <2>1, <3>1, <3>2, <3>3 DEF BegunByGraph
    <3>5. continuesVisit(last, at.node) <=> Interrupted(last)
      BY <1>3, <1>5, <2>3 DEF continuesVisit, Interrupted
    <3>6. at.attempt = 1 <=> ~ Interrupted(last)
      <4>1. last.attempt \in Nat /\ last.attempt # 0
        BY <1>3, <2>3 DEF Record
      <4>2. at.attempt = IF Interrupted(last) THEN last.attempt + 1 ELSE 1
        BY <1>3, <2>3
      <4>. QED  BY <4>1, <4>2
    <3>. QED  BY <1>6, <3>4, <3>5, <3>6
  <2>. QED  BY <2>2, <2>3
<1>12. JournalOK(k)
  <2>1. r.event # "node_finished"
    BY <1>6
  <2>2. k = Append(j, r)
    BY DEF k
  <2>. QED  BY <1>4, <1>5, <1>6, <1>8, <1>11, <2>1, <2>2, AppendGraphed
<1>13. Ones(k) = Ones(j) \cup (IF at.attempt = 1 THEN {Len(j) + 1} ELSE {})
  <2>1. \A i \in StartedAt(j) : i \in 1 .. Len(j)
    BY DEF StartedAt
  <2>. QED  BY <1>6, <1>7, <1>9, <2>1 DEF Ones
<1>14. Again(k)
  BY <1>4, <1>10 DEF Again
<1>. QED  BY <1>4, <1>9, <1>10, <1>12, <1>13, <1>14 DEF at, r, k

\* The completion of the attempt that is open.
LEMMA FinishIsFine ==
  ASSUME NEW j, JournalOK(j), IsOpen(j),
         NEW s \in {"ok", "failed", "aborted"}, NEW x \in Successors, NEW u \in Nat, NEW w \in Notes,
         NEW n, n = j[Len(j)].node, NEW r, r = NodeFinished(n, j[Len(j)].attempt, s, x, u, w)
  PROVE  LET k == Append(j, r)
         IN  /\ JournalOK(k) /\ ~ IsOpen(k) /\ k[Len(j) + 1] = r
             /\ r \in Record /\ r.usage = u
             /\ ResolveStart(k).node = x
             /\ s # "aborted" => ~ Again(k) /\ ~ Interrupted(r)
             /\ s = "aborted" /\ x = n => Again(k) /\ Interrupted(r)
             /\ StartedAt(k) = StartedAt(j)
             /\ FinishedAt(j) \subseteq FinishedAt(k) /\ Len(j) + 1 \in FinishedAt(k)
             /\ \A i \in FinishedAt(k) : i \in FinishedAt(j) \/ i = Len(j) + 1
<1>. DEFINE a == j[Len(j)].attempt
            k == Append(j, r)
<1>1. j \in Seq(Record) /\ IsASequence(j) /\ Validate(j)
  BY DEF JournalOK, IsASequence
<1>2. n \in Names /\ n # NoNode /\ a \in Nat /\ a # 0
  BY OpenIs, NamesAssumption
<1>3. s \in Statuses /\ s # "paused"
  BY DEF Statuses
<1>4. /\ r \in Record /\ r.event = "node_finished" /\ r.node = n /\ r.attempt = a
      /\ r.status = s /\ r.next = x /\ r.usage = u
  <2>1. r = NodeFinished(n, a, s, x, u, w)
    OBVIOUS
  <2>. HIDE DEF a
  <2>. QED  BY <1>2, <1>3, <2>1, FinishesAreRecords
<1>5. /\ Len(j) \in Nat /\ k[Len(j) + 1] = r
  BY <1>1, AppendFacts
<1>6. Validate(k) /\ ~ IsOpen(k)
  BY <1>1, <1>4, AppendToOpen, AppendOpen
<1>7. JournalOK(k)
  BY <1>2, <1>3, <1>4, <1>6, AppendGraphed
<1>8. ResolveStart(k) = Start("runnable", x, IF Interrupted(r) THEN a + 1 ELSE 1)
  BY <1>1, <1>4, ResolveAfterFinished
<1>9. ResolveStart(k).node = x /\ ResolveStart(k).attempt = IF Interrupted(r) THEN a + 1 ELSE 1
  BY <1>8 DEF Start
<1>10. Again(k) <=> Interrupted(r)
  <2>. HIDE DEF k, a
  <2>. QED  BY <1>2, <1>9 DEF Again
<1>11. /\ s # "aborted" => ~ Interrupted(r)
       /\ s = "aborted" /\ x = n => Interrupted(r)
  BY <1>2, <1>4 DEF Interrupted
<1>12. StartedAt(k) = StartedAt(j)
  BY <1>1, <1>4, AppendStarted
<1>13. FinishedAt(k) = FinishedAt(j) \cup {Len(j) + 1}
  BY <1>1, <1>4, AppendFinished
<1>. HIDE DEF k
<1>. QED  BY <1>13, <1>4, <1>5, <1>6, <1>7, <1>9, <1>10, <1>11, <1>12 DEF k

(***************************************************************************)
(* Dollars.                                                                *)
(***************************************************************************)
LEMMA PairsAre ==
  ASSUME NEW i, NEW u \in Nat
  PROVE  LET S == {<<i, d>> : d \in 1 .. u}
         IN  IsFiniteSet(S) /\ Cardinality(S) = u
<1>. DEFINE S == {<<i, d>> : d \in 1 .. u}
            f == [d \in 1 .. u |-> <<i, d>>]
<1>1. IsFiniteSet(1 .. u) /\ Cardinality(1 .. u) = u
  BY FS_Interval
<1>2. /\ f \in [1 .. u -> S]
      /\ \A x, y \in 1 .. u : f[x] = f[y] => x = y
      /\ \A y \in S : \E x \in 1 .. u : f[x] = y
  OBVIOUS
<1>. HIDE DEF f, S
<1>3. IsFiniteSet(S) /\ Cardinality(S) = Cardinality(1 .. u)
  BY <1>1, <1>2, SameCount
<1>. QED  BY <1>1, <1>3 DEF S

LEMMA DollarsNext ==
  ASSUME NEW j, NEW n \in Nat, j[n + 1].usage \in Nat, IsFiniteSet(Dollars(j, n))
  PROVE  /\ IsFiniteSet(Dollars(j, n + 1))
         /\ Cardinality(Dollars(j, n + 1)) = Cardinality(Dollars(j, n)) + j[n + 1].usage
<1>. DEFINE S == {<<n + 1, d>> : d \in 1 .. j[n + 1].usage}
<1>1. 1 .. n + 1 = (1 .. n) \cup {n + 1}
  OBVIOUS
<1>2. Dollars(j, n + 1) = Dollars(j, n) \cup S
  BY <1>1 DEF Dollars
<1>3. Dollars(j, n) \cap S = {}
  <2>1. \A p \in Dollars(j, n) : p[1] \in 1 .. n
    BY DEF Dollars
  <2>2. \A p \in S : p[1] = n + 1
    OBVIOUS
  <2>. QED  BY <2>1, <2>2
<1>4. IsFiniteSet(S) /\ Cardinality(S) = j[n + 1].usage
  BY PairsAre
<1>. HIDE DEF S
<1>5. /\ IsFiniteSet(Dollars(j, n) \cup S)
      /\ Cardinality(Dollars(j, n) \cup S)
           = Cardinality(Dollars(j, n)) + Cardinality(S) - Cardinality(Dollars(j, n) \cap S)
  BY <1>4, FS_Union
<1>6. Cardinality(Dollars(j, n) \cap S) = 0 /\ Cardinality(Dollars(j, n)) \in Nat
  BY <1>3, FS_EmptySet, FS_CardinalityType
<1>7. Cardinality(Dollars(j, n) \cup S) = Cardinality(Dollars(j, n)) + j[n + 1].usage
  <2>. DEFINE a == Cardinality(Dollars(j, n))
              b == j[n + 1].usage
              c == Cardinality(Dollars(j, n) \cup S)
  <2>1. a \in Nat /\ b \in Nat /\ c = a + b - 0
    BY <1>4, <1>5, <1>6
  <2>. HIDE DEF a, b, c
  <2>2. c = a + b
    BY <2>1
  <2>. QED  BY <2>2 DEF a, b, c
<1>. QED  BY <1>2, <1>5, <1>7

LEMMA NoDollars ==
  ASSUME NEW j, NEW n \in Nat, \A i \in 1 .. n : j[i].usage = 0
  PROVE  Dollars(j, n) = {}
BY DEF Dollars

LEMMA DollarsFinite ==
  ASSUME NEW j \in Seq(Record), NEW n \in 0 .. Len(j)
  PROVE  IsFiniteSet(Dollars(j, n)) /\ Cardinality(Dollars(j, n)) \in Nat
<1>1. IsFiniteSet(Dollars(j, n))
  <2>. DEFINE D == {k \in 0 .. Len(j) : ~ IsFiniteSet(Dollars(j, k))}
  <2>. SUFFICES ASSUME D # {} PROVE FALSE
    OBVIOUS
  <2>1. D \in SUBSET Nat /\ Len(j) \in Nat
    OBVIOUS
  <2>2. PICK x \in D : \A y \in D : x <= y
    BY <2>1, LeastOfASet
  <2>3. x # 0
    <3>1. Dollars(j, 0) = {}
      BY DEF Dollars
    <3>. QED  BY <2>2, <3>1, FS_EmptySet
  <2>. DEFINE i == x - 1
  <2>4. i \in Nat /\ i + 1 = x /\ i \notin D /\ i \in 0 .. Len(j) /\ i + 1 \in 1 .. Len(j)
    BY <2>1, <2>2, <2>3
  <2>. HIDE DEF i
  <2>5. j[i + 1] \in Record
    BY <2>4
  <2>6. j[i + 1].usage \in Nat
    BY <2>5 DEF Record
  <2>7. IsFiniteSet(Dollars(j, i + 1))
    BY <2>4, <2>6, DollarsNext
  <2>. QED  BY <2>2, <2>4, <2>7
<1>. QED  BY <1>1, FS_CardinalityType

LEMMA SameDollars ==
  ASSUME NEW j, NEW k, NEW n, \A i \in 1 .. n : j[i] = k[i]
  PROVE  Dollars(j, n) = Dollars(k, n)
BY DEF Dollars

LEMMA DollarsAppended ==
  ASSUME NEW j \in Seq(Record), NEW r \in Record
  PROVE  LET k == Append(j, r)
         IN  /\ Cardinality(Dollars(k, Len(k))) = Cardinality(Dollars(j, Len(j))) + r.usage
             /\ \A n \in 0 .. Len(j) : Dollars(k, n) = Dollars(j, n)
<1>. DEFINE k == Append(j, r)
<1>1. /\ k \in Seq(Record) /\ Len(k) = Len(j) + 1 /\ k[Len(j) + 1] = r /\ Len(j) \in Nat
      /\ \A i \in 1 .. Len(j) : k[i] = j[i]
  OBVIOUS
<1>. HIDE DEF k
<1>2. ASSUME NEW n \in 0 .. Len(j)
      PROVE  Dollars(k, n) = Dollars(j, n)
  <2>1. \A i \in 1 .. n : k[i] = j[i]
    BY <1>1
  <2>. QED  BY <2>1, SameDollars
<1>3. IsFiniteSet(Dollars(k, Len(j))) /\ Dollars(k, Len(j)) = Dollars(j, Len(j))
  BY <1>1, <1>2, DollarsFinite
<1>4. r.usage \in Nat
  BY DEF Record
<1>5. Cardinality(Dollars(k, Len(j) + 1)) = Cardinality(Dollars(k, Len(j))) + k[Len(j) + 1].usage
  BY <1>1, <1>3, <1>4, DollarsNext
<1>. QED  BY <1>1, <1>2, <1>3, <1>5 DEF k

\* What one more record is charged is added to what the run cost, and leaves
\* what it had cost before any record as it was.
LEMMA MoneyAppended ==
  ASSUME NEW m, NEW j \in Seq(Record), NEW wa, NEW w, MoneyOK(m, j, wa, w),
         DOMAIN wa \subseteq Ones(j), NEW r \in Record, Inherited(m) \in Nat
  PROVE  MoneyOK(m, Append(j, r), wa, w + r.usage) /\ w \in Nat
<1>. DEFINE k == Append(j, r)
<1>1. /\ Cardinality(Dollars(k, Len(k))) = Cardinality(Dollars(j, Len(j))) + r.usage
      /\ \A n \in 0 .. Len(j) : Dollars(k, n) = Dollars(j, n)
  BY DollarsAppended
<1>2. Len(j) \in Nat /\ Cardinality(Dollars(j, Len(j))) \in Nat /\ r.usage \in Nat
  <2>1. Len(j) \in Nat /\ Len(j) \in 0 .. Len(j)
    OBVIOUS
  <2>. QED  BY <2>1, DollarsFinite DEF Record
<1>3. \A i \in DOMAIN wa : i - 1 \in 0 .. Len(j)
  BY <1>2 DEF Ones, StartedAt
<1>. HIDE DEF k
<1>. QED  BY <1>1, <1>2, <1>3 DEF MoneyOK, k

(***************************************************************************)
(* What all the runs charge.                                               *)
(***************************************************************************)
Total(R, C) == UNION {{r} \X C[r] : r \in R}

LEMMA TotalFinite ==
  ASSUME NEW R, NEW C, IsFiniteSet(R), \A r \in R : IsFiniteSet(C[r])
  PROVE  IsFiniteSet(Total(R, C)) /\ Cardinality(Total(R, C)) \in Nat
<1>. DEFINE T == {{r} \X C[r] : r \in R}
            f == [r \in R |-> {r} \X C[r]]
<1>1. f \in Surjection(R, T)
  BY DEF Surjection
<1>2. \A t \in T : IsFiniteSet(t)
  <2>. SUFFICES ASSUME NEW r \in R PROVE IsFiniteSet({r} \X C[r])
    OBVIOUS
  <2>1. IsFiniteSet({r}) /\ IsFiniteSet(C[r])
    BY FS_Singleton
  <2>. QED  BY <2>1, FS_Product
<1>. HIDE DEF f, T
<1>3. IsFiniteSet(T)
  BY <1>1, FS_Surjection
<1>4. IsFiniteSet(UNION T)
  BY <1>2, <1>3, FS_UNION
<1>. QED  BY <1>4, FS_CardinalityType DEF Total, T

LEMMA TotalGrows ==
  ASSUME NEW R, NEW C, NEW D, NEW r \in R, IsFiniteSet(R), \A x \in R : IsFiniteSet(C[x]),
         \A x \in R : x # r => D[x] = C[x], IsFiniteSet(D[r]), C[r] \subseteq D[r]
  PROVE  /\ Cardinality(Total(R, D)) + Cardinality(C[r])
              = Cardinality(Total(R, C)) + Cardinality(D[r])
         /\ Cardinality(Total(R, C)) \in Nat /\ Cardinality(C[r]) \in Nat
         /\ Cardinality(D[r]) \in Nat /\ Cardinality(Total(R, D)) \in Nat
<1>. DEFINE N == D[r] \ C[r]
            S == {r} \X N
<1>1. Total(R, D) = Total(R, C) \cup S
  BY DEF Total
<1>2. Total(R, C) \cap S = {}
  BY DEF Total
<1>3. /\ IsFiniteSet(N)
      /\ Cardinality(N) = Cardinality(D[r]) - Cardinality(D[r] \cap C[r])
  BY FS_Difference
<1>4. D[r] \cap C[r] = C[r]
  OBVIOUS
<1>5. Cardinality(N) \in Nat /\ Cardinality(C[r]) \in Nat /\ Cardinality(D[r]) \in Nat
  BY <1>3, FS_CardinalityType
<1>6. IsFiniteSet({r}) /\ Cardinality({r}) = 1
  BY FS_Singleton
<1>. HIDE DEF N
<1>7. IsFiniteSet(S) /\ Cardinality(S) = Cardinality(N)
  <2>. DEFINE b == Cardinality(N)
  <2>1. IsFiniteSet(S) /\ Cardinality(S) = 1 * b
    BY <1>3, <1>6, FS_Product
  <2>2. b \in Nat
    BY <1>5
  <2>. HIDE DEF b
  <2>3. 1 * b = b
    BY <2>2
  <2>. QED  BY <2>1, <2>3 DEF b
<1>8. IsFiniteSet(Total(R, C)) /\ Cardinality(Total(R, C)) \in Nat
  BY TotalFinite
<1>. HIDE DEF S
<1>9. Cardinality(Total(R, C) \cup S)
        = Cardinality(Total(R, C)) + Cardinality(S) - Cardinality(Total(R, C) \cap S)
  BY <1>7, <1>8, FS_Union
<1>10. Cardinality(Total(R, C) \cap S) = 0
  BY <1>2, FS_EmptySet
<1>. DEFINE a == Cardinality(Total(R, C))
            b == Cardinality(C[r])
            c == Cardinality(D[r])
            d == Cardinality(Total(R, D))
<1>11. a \in Nat /\ b \in Nat /\ c \in Nat /\ d = a + (c - b) - 0 /\ c - b \in Nat
  BY <1>1, <1>3, <1>4, <1>5, <1>7, <1>8, <1>9, <1>10
<1>. HIDE DEF a, b, c, d
<1>12. d + b = a + c /\ d \in Nat
  BY <1>11
<1>. QED  BY <1>11, <1>12 DEF a, b, c, d

LEMMA TotalWithNothing ==
  ASSUME NEW R, NEW C, NEW f, C[f] = {}
  PROVE  Total(R \cup {f}, C) = Total(R, C)
BY DEF Total

(***************************************************************************)
(* What is inherited.                                                      *)
(***************************************************************************)
LEMMA StripIsFine ==
  ASSUME NEW j, JournalOK(j), NEW n \in StartedAt(j)
  PROVE  LET p == Stripped(j, n)
             k == Append(p, Boundary)
         IN  /\ p \in Seq(Record) /\ Len(p) = n - 1 /\ ~ IsOpen(p)
             /\ JournalOK(k) /\ Len(k) = n /\ k[n] = Boundary /\ Boundary.event = "run_started"
             /\ \A i \in 1 .. n - 1 : k[i] = [j[i] EXCEPT !.usage = 0]
             /\ n \in Nat /\ n <= Len(j)
             /\ Dollars(k, Len(k)) = {}
             /\ \A i \in StartedAt(k) \cup FinishedAt(k) : i < n
<1>. DEFINE p == Stripped(j, n)
            k == Append(p, Boundary)
<1>1. j \in Seq(Record) /\ IsASequence(j) /\ Validate(j) /\ Graphed(j)
  BY DEF JournalOK, IsASequence
<1>2. Len(j) \in Nat /\ n \in 1 .. Len(j) /\ j[n].event = "node_started"
  BY <1>1 DEF StartedAt
<1>3. ASSUME NEW i \in 1 .. n - 1
      PROVE  LET r == [j[i] EXCEPT !.usage = 0]
             IN  /\ r \in Record /\ r.event = j[i].event /\ r.node = j[i].node /\ r.usage = 0
                 /\ r.attempt = j[i].attempt /\ r.status = j[i].status /\ r.next = j[i].next
  <2>1. j[i] \in Record /\ 0 \in Nat
    BY <1>1, <1>2
  <2>. QED  BY <2>1 DEF Record
<1>4. p = [i \in 1 .. n - 1 |-> [j[i] EXCEPT !.usage = 0]]
  BY DEF Stripped
<1>5. p \in Seq(Record) /\ Len(p) = n - 1
  BY <1>2, <1>3, <1>4
<1>6. \A i \in 1 .. n - 1 : /\ p[i] = [j[i] EXCEPT !.usage = 0]
                            /\ p[i].event = j[i].event /\ p[i].node = j[i].node
                            /\ p[i].attempt = j[i].attempt /\ p[i].status = j[i].status
                            /\ p[i].next = j[i].next /\ p[i].usage = 0
  BY <1>3, <1>4
<1>. HIDE DEF p
<1>7. Alike(p, j, n - 1) /\ IsASequence(p)
  BY <1>2, <1>5, <1>6 DEF Alike, IsASequence
<1>8. \A i \in 1 .. n - 1 : /\ i \in StartedAt(p) <=> i \in StartedAt(j)
                            /\ i \in FinishedAt(p) <=> i \in FinishedAt(j)
                            /\ i \in StartedAt(p) => (BegunByGraph(p, i) <=> BegunByGraph(j, i))
  BY <1>1, <1>7, AlikeBegun
<1>9. \A i \in StartedAt(p) \cup FinishedAt(p) : i \in 1 .. n - 1
  BY <1>5 DEF StartedAt, FinishedAt
<1>10. Validate(p)
  <2>1. p # <<>> => p[1].event # "node_finished"
    <3>1. p # <<>> => 1 \in 1 .. n - 1 /\ j # <<>>
      BY <1>1, <1>2, <1>5, <1>7, EmptyJournal
    <3>. QED  BY <1>1, <1>6, <3>1 DEF Validate
  <2>2. ASSUME NEW i \in 1 .. Len(p) - 1
        PROVE  MayFollow(p[i], p[i + 1])
    <3>1. i \in 1 .. n - 1 /\ i + 1 \in 1 .. n - 1 /\ i \in 1 .. Len(j) - 1
      BY <1>2, <1>5
    <3>2. MayFollow(j[i], j[i + 1])
      BY <1>1, <3>1 DEF Validate
    <3>. QED  BY <1>6, <3>1, <3>2 DEF MayFollow
  <2>. QED  BY <2>1, <2>2 DEF Validate
<1>11. ~ IsOpen(p)
  <2>. SUFFICES ASSUME p # <<>> PROVE p[Len(p)].event # "node_started"
    BY DEF IsOpen
  <2>1. n - 1 \in 1 .. n - 1 /\ n - 1 \in 1 .. Len(j) - 1 /\ (n - 1) + 1 = n
    BY <1>2, <1>5, <1>7, EmptyJournal
  <2>2. MayFollow(j[n - 1], j[n])
    BY <1>1, <2>1 DEF Validate
  <2>. QED  BY <1>2, <1>5, <1>6, <2>1, <2>2 DEF MayFollow
<1>12. Graphed(p)
  BY <1>1, <1>6, <1>8, <1>9 DEF Graphed
<1>13. JournalOK(p)
  BY <1>5, <1>10, <1>12 DEF JournalOK
<1>14. "run_started" \in RunEvents /\ Boundary = RunMarker("run_started")
  BY DEF RunEvents, Boundary
<1>15. Boundary.event = "run_started" /\ Boundary.usage = 0
  BY <1>14, MarkersAreRecords
<1>16. JournalOK(k) /\ StartedAt(k) = StartedAt(p) /\ FinishedAt(k) = FinishedAt(p)
  BY <1>11, <1>13, <1>14, MarkerIsFine
<1>17. Len(k) = n /\ k[n] = Boundary /\ \A i \in 1 .. n - 1 : k[i] = p[i]
  BY <1>2, <1>5, <1>7, AppendFacts
<1>. HIDE DEF k
<1>18. Dollars(k, Len(k)) = {}
  <2>1. \A i \in 1 .. n : k[i].usage = 0
    <3>1. \A i \in 1 .. n : i = n \/ i \in 1 .. n - 1
      BY <1>2
    <3>2. \A i \in 1 .. n - 1 : k[i].usage = 0
      BY <1>6, <1>17
    <3>. QED  BY <1>15, <1>17, <3>1, <3>2
  <2>. QED  BY <1>2, <1>17, <2>1, NoDollars
<1>19. \A i \in StartedAt(k) \cup FinishedAt(k) : i < n
  BY <1>2, <1>9, <1>16
<1>. QED  BY <1>2, <1>5, <1>6, <1>11, <1>15, <1>16, <1>17, <1>18, <1>19 DEF p, k

(***************************************************************************)
(* Journals that go on.                                                    *)
(***************************************************************************)
Follows(j, k) == /\ Len(j) \in Nat /\ Len(k) \in Nat /\ Len(j) <= Len(k)
                 /\ \A i \in 1 .. Len(j) : k[i] = j[i]

LEMMA AppendFollows ==
  ASSUME NEW j, NEW r, IsASequence(j)
  PROVE  Follows(j, Append(j, r))
BY AppendFacts DEF Follows

LEMMA FollowsOn ==
  ASSUME NEW j, NEW k, NEW l, Follows(j, k), Follows(k, l)
  PROVE  Follows(j, l)
BY DEF Follows

\* Nothing was begun, and the place is the same.
Held(j, k) ==
  /\ Follows(j, k) /\ Len(j) < Len(k)
  /\ StartedAt(k) = StartedAt(j) /\ FinishedAt(j) \subseteq FinishedAt(k)
  /\ \A i \in FinishedAt(k) : i \in FinishedAt(j) \/ Interrupted(k[i])
  /\ ResolveStart(k).node = ResolveStart(j).node
  /\ Again(k) <=> Again(j)

LEMMA FollowsOnes ==
  ASSUME NEW j, NEW k, Follows(j, k), StartedAt(k) = StartedAt(j)
  PROVE  Ones(k) = Ones(j) /\ \A i \in Ones(j) : k[i].node = j[i].node
BY DEF Follows, Ones, StartedAt

LEMMA HeldOn ==
  ASSUME NEW j, NEW k, NEW l, Held(j, k), Held(k, l)
  PROVE  Held(j, l)
<1>1. Follows(j, l)
  BY FollowsOn DEF Held
<1>2. \A i \in FinishedAt(k) : l[i] = k[i]
  BY DEF Held, Follows, FinishedAt
<1>. QED  BY <1>1, <1>2 DEF Held, Follows

LEMMA MarkerHolds ==
  ASSUME NEW j, JournalOK(j), ~ IsOpen(j), NEW e \in RunEvents
  PROVE  LET k == Append(j, RunMarker(e)) IN JournalOK(k) /\ ~ IsOpen(k) /\ Held(j, k)
<1>. DEFINE k == Append(j, RunMarker(e))
<1>1. IsASequence(j)
  BY DEF JournalOK, IsASequence
<1>2. Follows(j, k) /\ Len(j) < Len(k)
  BY <1>1, AppendFacts, AppendFollows
<1>3. /\ JournalOK(k) /\ ~ IsOpen(k)
      /\ ResolveStart(k).node = ResolveStart(j).node
      /\ ResolveStart(k).attempt = ResolveStart(j).attempt
      /\ StartedAt(k) = StartedAt(j) /\ FinishedAt(k) = FinishedAt(j)
  BY MarkerIsFine
<1>. QED  BY <1>2, <1>3 DEF Held, Again

LEMMA LostHolds ==
  ASSUME NEW j, JournalOK(j), IsOpen(j), NEW u \in Nat, NEW w \in Notes
  PROVE  LET r == InterruptedAttempt(j[Len(j)].node, j[Len(j)].attempt, u, w)
             k == Append(j, r)
         IN  JournalOK(k) /\ ~ IsOpen(k) /\ Held(j, k) /\ r \in Record /\ r.usage = u
<1>. DEFINE n == j[Len(j)].node
            r == InterruptedAttempt(n, j[Len(j)].attempt, u, w)
            k == Append(j, r)
<1>1. IsASequence(j)
  BY DEF JournalOK, IsASequence
<1>2. Follows(j, k) /\ Len(j) < Len(k)
  BY <1>1, AppendFacts, AppendFollows
<1>3. r = NodeFinished(n, j[Len(j)].attempt, "aborted", n, u, w)
  BY DEF InterruptedAttempt
<1>4. n \in Successors /\ n \in Names /\ j[Len(j)].attempt \in Nat
  BY OpenIs DEF Successors
<1>5. r \in Record /\ r.usage = u
  BY <1>3, <1>4, FinishesAreRecords DEF Statuses
<1>6. ASSUME NEW s \in {"ok", "failed", "aborted"}, s = "aborted", NEW m \in Successors,
             m = j[Len(j)].node, NEW q, q = NodeFinished(m, j[Len(j)].attempt, s, m, u, w)
      PROVE  LET h == Append(j, q)
             IN  /\ JournalOK(h) /\ ~ IsOpen(h) /\ h[Len(j) + 1] = q
                 /\ ResolveStart(h).node = m /\ Again(h) /\ Interrupted(q)
                 /\ StartedAt(h) = StartedAt(j) /\ FinishedAt(j) \subseteq FinishedAt(h)
                 /\ \A i \in FinishedAt(h) : i \in FinishedAt(j) \/ i = Len(j) + 1
  <2>. HIDE DEF n, r, k
  <2>. QED  BY <1>6, FinishIsFine
<1>61. /\ JournalOK(k) /\ ~ IsOpen(k) /\ k[Len(j) + 1] = r
       /\ ResolveStart(k).node = n /\ Again(k) /\ Interrupted(r)
       /\ StartedAt(k) = StartedAt(j) /\ FinishedAt(j) \subseteq FinishedAt(k)
       /\ \A i \in FinishedAt(k) : i \in FinishedAt(j) \/ i = Len(j) + 1
  BY <1>3, <1>4, <1>6
<1>7. Again(j) /\ ResolveStart(j).node = n
  BY OpenIs
<1>. HIDE DEF k, r, n
<1>8. Held(j, k)
  BY <1>2, <1>61, <1>7 DEF Held
<1>. QED  BY <1>5, <1>61, <1>8 DEF k, r, n

(***************************************************************************)
(* The snapshots of a run that goes on.                                    *)
(***************************************************************************)
LEMMA OnesAre ==
  ASSUME NEW j, JournalOK(j)
  PROVE  \A i \in Ones(j) : /\ i \in Nat /\ i # 0 /\ i <= Len(j) /\ i \in StartedAt(j)
                            /\ j[i].attempt = 1 /\ Len(j) \in Nat
<1>1. Len(j) \in Nat
  BY DEF JournalOK
<1>. QED  BY <1>1 DEF Ones, StartedAt

LEMMA SnapsHeld ==
  ASSUME NEW own, NEW j, NEW sd, NEW wd, SnapsOK(own, j, sd, wd), NEW k, Held(j, k)
  PROVE  SnapsOK(own, k, sd, wd)
<1>1. Ones(k) = Ones(j) /\ \A i \in Ones(j) : k[i].node = j[i].node
  BY FollowsOnes DEF Held
<1>2. \A m : IsLastOf(k, m) <=> IsLastOf(j, m)
  BY <1>1 DEF IsLastOf
<1>. QED  BY <1>1, <1>2 DEF SnapsOK, Held

\* The snapshot that is looked for is the one of the visit under way.
LEMMA SnapSeqIs ==
  ASSUME NEW j, JournalOK(j), IsOpen(j), NEW own, NEW sd, NEW wd, SnapsOK(own, j, sd, wd)
  PROVE  LET m == AttemptOneSeq(j, j[Len(j)].node)
         IN  m \in Ones(j) /\ own < m /\ IsLastOf(j, m) /\ m \in wd /\ j[m].node = j[Len(j)].node
<1>. DEFINE n == j[Len(j)].node
<1>1. Again(j) /\ ResolveStart(j).node = n
  BY OpenIs
<1>2. PICK m \in Ones(j) : own < m /\ IsLastOf(j, m) /\ j[m].node = n
  BY <1>1 DEF SnapsOK
<1>3. m \in AttemptOnes(j, n) /\ \A i \in AttemptOnes(j, n) : i \in Ones(j)
  BY <1>2 DEF AttemptOnes, Ones, StartedAt
<1>4. \A i \in AttemptOnes(j, n) : i <= m
  BY <1>2, <1>3 DEF IsLastOf
<1>. HIDE DEF n
<1>5. AttemptOneSeq(j, n) = m
  BY <1>3, <1>4, AttemptOneSeqIs
<1>6. m \in wd
  BY <1>2 DEF SnapsOK
<1>. QED  BY <1>2, <1>5, <1>6 DEF n

LEMMA SnapsSaved ==
  ASSUME NEW own, NEW j, NEW sd, NEW wd, SnapsOK(own, j, sd, wd), NEW m \in wd
  PROVE  SnapsOK(own, j, sd \cup {m}, wd)
BY DEF SnapsOK

LEMMA SnapsStarted ==
  ASSUME NEW own, NEW j, JournalOK(j), ~ IsOpen(j), ResolveStart(j).node \in Names,
         NEW sd, NEW wd, SnapsOK(own, j, sd, wd), own \in Nat, own <= Len(j)
  PROVE  LET at == ResolveStart(j)
         IN  SnapsOK(own, Append(j, NodeStarted(at.node, at.attempt)), sd,
                     wd \cup (IF at.attempt = 1 THEN {Len(j) + 1} ELSE {}))
<1>. DEFINE at == ResolveStart(j)
            r  == NodeStarted(at.node, at.attempt)
            k  == Append(j, r)
<1>1. /\ ResolveStart(k).node = at.node /\ Again(k)
      /\ Ones(k) = Ones(j) \cup (IF at.attempt = 1 THEN {Len(j) + 1} ELSE {})
  BY StartIsFine
<1>2. /\ Len(j) \in Nat /\ k[Len(j) + 1] = r
      /\ \A i \in 1 .. Len(j) : k[i] = j[i]
  BY AppendFacts DEF JournalOK, IsASequence
<1>3. \A i \in Ones(j) : i \in Nat /\ i <= Len(j) /\ i \in 1 .. Len(j)
  BY <1>2, OnesAre
<1>4. r.node = at.node
  BY DEF NodeStarted
<1>5. Again(j) <=> at.attempt # 1
  BY DEF Again
<1>. HIDE DEF at, r, k
<1>6. CASE at.attempt = 1
  <2>1. IsLastOf(k, Len(j) + 1)
    BY <1>1, <1>2, <1>3, <1>6 DEF IsLastOf
  <2>2. \A i \in Ones(j) : own < i => i \in wd /\ i \in sd
    BY <1>5, <1>6 DEF SnapsOK
  <2>3. Len(j) + 1 \in Ones(k) /\ own < Len(j) + 1 /\ k[Len(j) + 1].node = ResolveStart(k).node
    BY <1>1, <1>2, <1>4, <1>6
  <2>4. sd \subseteq wd /\ wd \subseteq Ones(j)
    BY DEF SnapsOK
  <2>5. SnapsOK(own, k, sd, wd \cup {Len(j) + 1})
    BY <1>1, <1>6, <2>1, <2>2, <2>3, <2>4 DEF SnapsOK
  <2>. QED  BY <1>6, <2>5 DEF at, r, k
<1>7. CASE at.attempt # 1
  <2>1. Ones(k) = Ones(j) /\ \A i \in Ones(j) : k[i].node = j[i].node
    BY <1>1, <1>2, <1>3, <1>7
  <2>2. \A m : IsLastOf(k, m) <=> IsLastOf(j, m)
    BY <2>1 DEF IsLastOf
  <2>3. ResolveStart(k).node = ResolveStart(j).node
    BY <1>1 DEF at
  <2>4. SnapsOK(own, k, sd, wd)
    BY <1>1, <1>5, <1>7, <2>1, <2>2, <2>3 DEF SnapsOK
  <2>5. wd \cup (IF at.attempt = 1 THEN {Len(j) + 1} ELSE {}) = wd
    BY <1>7
  <2>. QED  BY <2>4, <2>5 DEF at, r, k
<1>. QED  BY <1>6, <1>7

LEMMA SnapsFinished ==
  ASSUME NEW own, NEW j, JournalOK(j), IsOpen(j), NEW sd, NEW wd, SnapsOK(own, j, sd, wd),
         AttemptOneSeq(j, j[Len(j)].node) \in sd,
         NEW k, Follows(j, k), StartedAt(k) = StartedAt(j), ~ Again(k)
  PROVE  SnapsOK(own, k, sd, wd)
<1>. DEFINE m == AttemptOneSeq(j, j[Len(j)].node)
<1>1. m \in Ones(j) /\ IsLastOf(j, m) /\ m \in sd
  BY SnapSeqIs
<1>. HIDE DEF m
<1>2. Ones(k) = Ones(j)
  BY FollowsOnes
<1>3. \A i \in Ones(j) : IsLastOf(j, i) => i = m
  BY <1>1, OnesAre DEF IsLastOf
<1>. QED  BY <1>1, <1>2, <1>3 DEF SnapsOK

(***************************************************************************)
(* A fork that goes on.                                                    *)
(***************************************************************************)
LEMMA FirstHeld ==
  ASSUME NEW o, NEW g, NEW j, NEW step, NEW b, NEW sn, FirstOK(o, g, j, step, b, sn),
         NEW k, Held(j, k), o.start \in Nat, o.start <= Len(j)
  PROVE  FirstOK(o, g, k, step, b, sn)
<1>1. \A i \in FinishedAt(j) : i \in 1 .. Len(j)
  BY DEF FinishedAt
<1>2. \A i \in FinishedAt(j) : k[i] = j[i]
  BY <1>1 DEF Held, Follows
<1>3. FirstIn(o, k) <=> FirstIn(o, j)
  <2>1. FirstIn(o, k) => FirstIn(o, j)
    BY <1>2 DEF FirstIn, Held
  <2>2. ASSUME FirstIn(o, j), NEW i \in FinishedAt(k)
        PROVE  i < o.start \/ Interrupted(k[i])
    BY <1>2, <2>2 DEF FirstIn, Held
  <2>. QED  BY <2>1, <2>2 DEF FirstIn
<1>4. o.start + 1 \in StartedAt(j) => k[o.start + 1] = j[o.start + 1]
  BY DEF Held, Follows, StartedAt
<1>5. Len(k) # o.start
  BY DEF Held, Follows
<1>. QED  BY <1>3, <1>4, <1>5 DEF FirstOK, Held

LEMMA FirstStarted ==
  ASSUME NEW o, NEW g, NEW j, NEW step, NEW b, NEW sn, FirstOK(o, g, j, step, b, sn),
         JournalOK(j), ~ IsOpen(j), ResolveStart(j).node \in Names,
         o.start \in Nat, o.start <= Len(j),
         Len(j) = o.start => FirstIn(o, j)
  PROVE  LET at == ResolveStart(j)
         IN  FirstOK(o, g, Append(j, NodeStarted(at.node, at.attempt)), step, b, sn)
<1>. DEFINE at == ResolveStart(j)
            r  == NodeStarted(at.node, at.attempt)
            k  == Append(j, r)
<1>1. /\ ResolveStart(k).node = at.node /\ Again(k)
      /\ StartedAt(k) = StartedAt(j) \cup {Len(j) + 1} /\ FinishedAt(k) = FinishedAt(j)
  BY StartIsFine
<1>2. /\ Len(j) \in Nat /\ k[Len(j) + 1] = r /\ Len(k) = Len(j) + 1
      /\ \A i \in 1 .. Len(j) : k[i] = j[i]
  BY AppendFacts DEF JournalOK, IsASequence
<1>3. r.node = at.node /\ r.attempt = at.attempt
  BY DEF NodeStarted
<1>4. Len(j) = o.start => at.attempt = 1 /\ at.node = o.node
  BY DEF FirstOK, Again
<1>. HIDE DEF r, k
<1>5. FirstIn(o, k) <=> FirstIn(o, j)
  <2>1. \A i \in FinishedAt(j) : k[i] = j[i]
    BY <1>2 DEF FinishedAt
  <2>. QED  BY <1>1, <2>1 DEF FirstIn
<1>6. o.start + 1 \in StartedAt(k) =>
        /\ k[o.start + 1].node = o.node /\ k[o.start + 1].attempt = 1
        /\ FirstIn(o, k) \/ o.start + 1 \in DOMAIN sn
  <2>1. CASE Len(j) = o.start
    BY <1>2, <1>3, <1>4, <1>5, <2>1
  <2>2. CASE Len(j) # o.start
    <3>1. o.start + 1 \in StartedAt(k) => o.start + 1 \in StartedAt(j)
      BY <1>1, <1>2, <2>2
    <3>2. o.start + 1 \in StartedAt(j) => k[o.start + 1] = j[o.start + 1]
      BY <1>2 DEF StartedAt
    <3>. QED  BY <1>5, <3>1, <3>2 DEF FirstOK
  <2>. QED  BY <2>1, <2>2
<1>7. Len(k) # o.start
  BY <1>2
<1>8. FirstOK(o, g, k, step, b, sn)
  BY <1>1, <1>5, <1>6, <1>7 DEF FirstOK
<1>. QED  BY <1>8 DEF r, k

\* The snapshot of a fork's first visit is of what it was given.
LEMMA FirstSaved ==
  ASSUME NEW o, NEW g, NEW j, NEW step, NEW b, NEW sn, FirstOK(o, g, j, step, b, sn),
         NEW m \in Ones(j), m \notin DOMAIN sn, NEW ss, DOMAIN ss = DOMAIN sn \cup {m},
         \A i \in DOMAIN sn : ss[i] = sn[i],
         ss[m].step = step + 1, ss[m].board = b, o.step \in Nat
  PROVE  FirstOK(o, g, j, step, b, ss)
<1>1. FirstIn(o, j) => \A i \in DOMAIN ss : ss[i].board = g.board
  BY DEF FirstOK
<1>2. o.start + 1 \in DOMAIN ss => ss[o.start + 1].step = o.step
  <2>1. CASE o.start + 1 = m
    <3>1. o.start + 1 \in StartedAt(j)
      BY <2>1 DEF Ones
    <3>2. step = o.step - 1
      BY <2>1, <3>1 DEF FirstOK
    <3>. QED  BY <2>1, <3>2
  <2>2. CASE o.start + 1 # m
    BY <2>2 DEF FirstOK
  <2>. QED  BY <2>1, <2>2
<1>. QED  BY <1>1, <1>2 DEF FirstOK

LEMMA FirstFinished ==
  ASSUME NEW o, NEW g, NEW j, NEW step, NEW b, NEW sn, FirstOK(o, g, j, step, b, sn),
         JournalOK(j), IsOpen(j), NEW wd, SnapsOK(o.start, j, DOMAIN sn, wd),
         AttemptOneSeq(j, j[Len(j)].node) \in DOMAIN sn, o.start \in Nat, o.start <= Len(j),
         NEW k, Follows(j, k), Len(j) < Len(k), StartedAt(k) = StartedAt(j),
         Len(j) + 1 \in FinishedAt(k), ~ Interrupted(k[Len(j) + 1]),
         NEW step2, NEW b2
  PROVE  FirstOK(o, g, k, step2, b2, sn)
<1>. DEFINE m == AttemptOneSeq(j, j[Len(j)].node)
<1>1. m \in Ones(j) /\ IsLastOf(j, m) /\ m \in DOMAIN sn
  BY SnapSeqIs
<1>. HIDE DEF m
<1>2. Len(j) \in Nat /\ Len(k) \in Nat
  BY DEF Follows
<1>3. ~ FirstIn(o, k) /\ Len(k) # o.start
  BY <1>2 DEF FirstIn
<1>4. ASSUME o.start + 1 \in StartedAt(j)
      PROVE  /\ k[o.start + 1].node = o.node /\ k[o.start + 1].attempt = 1
             /\ o.start + 1 \in DOMAIN sn
  <2>1. k[o.start + 1] = j[o.start + 1] /\ o.start < o.start + 1
    BY <1>4 DEF Follows, StartedAt
  <2>2. j[o.start + 1].node = o.node /\ j[o.start + 1].attempt = 1
    BY <1>4 DEF FirstOK
  <2>3. o.start + 1 \in Ones(j)
    BY <1>4, <2>2 DEF Ones
  <2>4. o.start + 1 \in DOMAIN sn \/ IsLastOf(j, o.start + 1)
    BY <2>1, <2>3 DEF SnapsOK
  <2>5. IsLastOf(j, o.start + 1) => o.start + 1 = m
    BY <1>1, <2>3, OnesAre DEF IsLastOf
  <2>. QED  BY <1>1, <2>1, <2>2, <2>4, <2>5
<1>. QED  BY <1>3, <1>4 DEF FirstOK

(***************************************************************************)
(* A source that goes on.                                                  *)
(***************************************************************************)
LEMMA VisitStays ==
  ASSUME NEW j, NEW k, JournalOK(j), JournalOK(k), Follows(j, k), NEW n, NEW ordinal, NEW start,
         VisitIn(j, n, ordinal, start)
  PROVE  VisitIn(k, n, ordinal, start)
<1>1. start \in Ones(j) /\ start \in 1 .. Len(j) /\ start \in Nat
  BY OnesAre DEF VisitIn
<1>2. Len(j) \in Nat /\ Len(k) \in Nat /\ Len(j) <= Len(k) /\ \A i \in 1 .. Len(j) : k[i] = j[i]
  BY DEF Follows
<1>3. \A i \in 1 .. Len(j) : i \in Ones(k) <=> i \in Ones(j)
  BY <1>2 DEF Ones, StartedAt
<1>4. \A i \in Ones(k) \cup Ones(j) : i \in Nat /\ i # 0
  BY OnesAre
<1>5. OnesTo(k, n, start) = OnesTo(j, n, start)
  <2>1. \A i \in OnesTo(k, n, start) \cup OnesTo(j, n, start) : i \in 1 .. Len(j)
    BY <1>1, <1>2, <1>4 DEF OnesTo
  <2>. QED  BY <1>2, <1>3, <2>1 DEF OnesTo
<1>. QED  BY <1>1, <1>2, <1>3, <1>5 DEF VisitIn

LEMMA StrippedStays ==
  ASSUME NEW j, NEW k, Follows(j, k), NEW n \in 1 .. Len(j)
  PROVE  Stripped(k, n) = Stripped(j, n)
<1>1. \A i \in 1 .. n - 1 : k[i] = j[i]
  BY DEF Follows
<1>. QED  BY <1>1 DEF Stripped

\* Whatever a fork goes back to stays.
Kept(f, g) == \A i \in DOMAIN f : i \in DOMAIN g /\ g[i] = f[i]

LEMMA BackStays ==
  ASSUME NEW o, NEW floor, NEW j, NEW c, NEW js, NEW ss, BackOK(o, floor, j, c, js, ss),
         NEW k, Follows(j, k), NEW ks, JournalOK(js), JournalOK(ks), Follows(js, ks),
         NEW st, Kept(ss, st), o.start \in Nat
  PROVE  BackOK(o, floor, k, c, ks, st) /\ o.start <= Len(j) /\ st[o.start] = ss[o.start]
<1>1. o.start \in DOMAIN st /\ st[o.start] = ss[o.start]
  BY DEF BackOK, Kept
<1>2. VisitIn(ks, o.node, o.visit, o.start)
  BY VisitStays DEF BackOK
<1>3. o.start \in 1 .. Len(js) /\ o.start \in 1 .. Len(j) /\ Len(j) \in Nat /\ o.start <= Len(j)
  BY OnesAre DEF BackOK, VisitIn, Follows
<1>4. Len(k) >= o.start /\ k[o.start] = Boundary
  BY <1>3 DEF BackOK, Follows
<1>5. \A i \in 1 .. o.start - 1 : k[i] = j[i] /\ ks[i] = js[i]
  BY <1>3 DEF Follows
<1>6. \A i \in 1 .. o.start - 1 : k[i] = [ks[i] EXCEPT !.usage = 0]
  BY <1>5 DEF BackOK
<1>. QED  BY <1>1, <1>2, <1>3, <1>4, <1>6 DEF BackOK

(***************************************************************************)
(* A step of one run, whichever.                                           *)
(***************************************************************************)
Shaped ==
  /\ DOMAIN man = Runs /\ DOMAIN journal = Runs /\ DOMAIN snaps = Runs /\ DOMAIN board = Runs
  /\ DOMAIN files = Runs /\ DOMAIN planFile = Runs /\ DOMAIN proc = Runs /\ DOMAIN worth = Runs
  /\ DOMAIN worthAt = Runs

SameRun(x) ==
  /\ man'[x] = man[x] /\ journal'[x] = journal[x] /\ snaps'[x] = snaps[x] /\ board'[x] = board[x]
  /\ files'[x] = files[x] /\ planFile'[x] = planFile[x] /\ proc'[x] = proc[x]
  /\ worth'[x] = worth[x] /\ worthAt'[x] = worthAt[x]

GoesOn(r) ==
  /\ man'[r] # None /\ man'[r].origin = man[r].origin /\ man'[r].floor = man[r].floor
  /\ Follows(journal[r], journal'[r])
  /\ Kept(snaps[r], snaps'[r]) /\ Kept(worthAt[r], worthAt'[r])
  /\ \A x \in TreeFiles : files[r][x] <= files'[r][x]

RunOf(r) == RunOK(man[r], journal[r], snaps[r], files[r], worthAt[r], worth[r])
FirstOf(r) == man[r].origin # None =>
  FirstOK(man[r].origin, Given(r), journal[r], man[r].step, board[r], snaps[r])

OneRun(r) ==
  /\ r \in Runs /\ There(r)
  /\ cmd' = cmd /\ copied' = copied /\ gaveUp' = {}
  /\ Shaped' /\ \A x \in Runs : x # r => SameRun(x)
  /\ GoesOn(r)
  /\ JournalOK(journal'[r]) /\ board'[r] \in Boards /\ planFile'[r] \in Nat
  /\ RunOf(r)'
  /\ man[r].origin # None =>
       FirstOK(man[r].origin, Given(r), journal'[r], man'[r].step, board'[r], snaps'[r])
  /\ bank' \in Nat /\ bank' + worth[r] = bank + worth'[r]

LEMMA FollowsItself ==
  ASSUME NEW j, JournalOK(j)
  PROVE  Follows(j, j)
BY DEF JournalOK, Follows

LEMMA OneRunShape ==
  ASSUME NEW r, ForkInv, OneRun(r)
  PROVE  /\ ShapeInv' /\ AnyInv' /\ RunInv'
         /\ \A x \in Runs : There(x)' <=> There(x)
         /\ \A x \in Runs : /\ Follows(journal[x], journal'[x]) /\ JournalOK(journal[x])
                            /\ JournalOK(journal'[x])
                            /\ Kept(snaps[x], snaps'[x]) /\ Kept(worthAt[x], worthAt'[x])
         /\ \A x \in Runs : There(x) =>
              /\ \A f \in TreeFiles : files[x] \in [TreeFiles -> Nat] /\ files'[x] \in [TreeFiles -> Nat]
                                  /\ files[x][f] <= files'[x][f]
              /\ man'[x].origin = man[x].origin
<1>1. \A x \in Runs : There(x)' <=> There(x)
  BY DEF OneRun, SameRun, GoesOn, There
<1>2. \A x \in Runs : man'[x].origin = man[x].origin
  BY DEF OneRun, SameRun, GoesOn
<1>3. ShapeInv'
  BY <1>1, <1>2 DEF ForkInv, ShapeInv, OneRun, Shaped, There, Runs
<1>4. \A x \in Runs : JournalOK(journal[x]) /\ JournalOK(journal'[x])
  BY DEF ForkInv, AnyInv, AnyOK, OneRun, SameRun
<1>5. ASSUME NEW x \in Runs
      PROVE  /\ Follows(journal[x], journal'[x])
             /\ Kept(snaps[x], snaps'[x]) /\ Kept(worthAt[x], worthAt'[x])
  <2>1. CASE x = r
    BY <2>1 DEF OneRun, GoesOn
  <2>2. CASE x # r
    <3>1. SameRun(x)
      BY <2>2 DEF OneRun
    <3>. QED  BY <1>4, <3>1, FollowsItself DEF SameRun, Kept
  <2>. QED  BY <2>1, <2>2
<1>6. AnyInv'
  <2>. SUFFICES ASSUME NEW x \in Runs
                PROVE  AnyOK(man'[x], journal'[x], board'[x], planFile'[x], snaps'[x], worthAt'[x], proc'[x])
    BY DEF AnyInv
  <2>1. CASE x = r
    BY <2>1 DEF OneRun, GoesOn, AnyOK
  <2>2. CASE x # r
    BY <2>2 DEF ForkInv, AnyInv, OneRun, SameRun
  <2>. QED  BY <2>1, <2>2
<1>7. RunInv'
  <2>. SUFFICES ASSUME NEW x \in Runs, There(x)
                PROVE  RunOK(man'[x], journal'[x], snaps'[x], files'[x], worthAt'[x], worth'[x])
    BY <1>1 DEF RunInv
  <2>1. CASE x = r
    BY <2>1 DEF OneRun, RunOf
  <2>2. CASE x # r
    BY <2>2 DEF ForkInv, RunInv, OneRun, SameRun
  <2>. QED  BY <2>1, <2>2
<1>8. ASSUME NEW x \in Runs, There(x), NEW f \in TreeFiles
      PROVE  files[x] \in [TreeFiles -> Nat] /\ files'[x] \in [TreeFiles -> Nat] /\ files[x][f] <= files'[x][f]
  <2>1. files[x] \in [TreeFiles -> Nat] /\ files'[x] \in [TreeFiles -> Nat]
    BY <1>1, <1>7, <1>8 DEF ForkInv, RunInv, RunOK
  <2>2. CASE x = r
    BY <2>1, <2>2 DEF OneRun, GoesOn
  <2>3. CASE x # r
    BY <2>1, <2>3 DEF OneRun, SameRun
  <2>. QED  BY <2>1, <2>2, <2>3
<1>. QED  BY <1>1, <1>2, <1>3, <1>4, <1>5, <1>6, <1>7, <1>8

LEMMA OneRunLink ==
  ASSUME NEW r, ForkInv, OneRun(r)
  PROVE  LinkInv'
<1>. SUFFICES ASSUME NEW f \in Runs, There(f)', man'[f].origin # None
              PROVE  LET s == man'[f].origin.run
                     IN  /\ man'[s] # None /\ s # f
                         /\ LinkOK(man'[f], journal'[f], copied'[f], board'[f], snaps'[f],
                                   journal'[s], snaps'[s])
  BY DEF LinkInv, There
<1>. DEFINE s == man[f].origin.run
            o == man[f].origin
<1>1. There(f) /\ man'[f].origin = man[f].origin /\ man'[f].floor = man[f].floor
  BY DEF OneRun, SameRun, GoesOn, There
<1>2. There(s) /\ s # f /\ LinkOK(man[f], journal[f], copied[f], board[f], snaps[f], journal[s], snaps[s])
  BY <1>1 DEF ForkInv, LinkInv
<1>3. s \in Runs /\ o.start \in Nat
  <2>1. man[f] \in Manifests
    BY <1>1 DEF ForkInv, RunInv, RunOK
  <2>2. o \in Origins
    BY <1>1, <2>1 DEF Manifests
  <2>. QED  BY <2>2 DEF Origins
<1>4. man'[s] # None
  BY <1>2, <1>3, OneRunShape DEF There
<1>5. /\ BackOK(o, man[f].floor, journal'[f], copied[f], journal'[s], snaps'[s])
      /\ snaps'[s][o.start] = snaps[s][o.start]
  <2>1. BackOK(o, man[f].floor, journal[f], copied[f], journal[s], snaps[s])
    BY <1>2 DEF LinkOK
  <2>2. /\ Follows(journal[f], journal'[f]) /\ Follows(journal[s], journal'[s])
        /\ JournalOK(journal[s]) /\ JournalOK(journal'[s]) /\ Kept(snaps[s], snaps'[s])
    BY <1>3, OneRunShape
  <2>. HIDE DEF s, o
  <2>. QED  BY <1>3, <2>1, <2>2, BackStays
<1>6. FirstOK(o, snaps'[s][o.start], journal'[f], man'[f].step, board'[f], snaps'[f])
  <2>1. CASE f = r
    BY <1>1, <1>5, <2>1 DEF OneRun, Given
  <2>2. CASE f # r
    <3>1. FirstOK(o, snaps[s][o.start], journal[f], man[f].step, board[f], snaps[f])
      BY <1>2 DEF LinkOK
    <3>2. SameRun(f)
      BY <2>2 DEF OneRun
    <3>. QED  BY <1>5, <3>1, <3>2 DEF SameRun
  <2>. QED  BY <2>1, <2>2
<1>7. copied' = copied
  BY DEF OneRun
<1>8. /\ man'[f].origin = o /\ man'[f].origin.run = s /\ man'[f].floor = man[f].floor
      /\ copied'[f] = copied[f]
  BY <1>1, <1>7
<1>. HIDE DEF s, o
<1>9. LinkOK(man'[f], journal'[f], copied'[f], board'[f], snaps'[f], journal'[s], snaps'[s])
  BY <1>5, <1>6, <1>8 DEF LinkOK
<1>. QED  BY <1>2, <1>4, <1>8, <1>9

LEMMA ChargedFinite ==
  ASSUME NEW r, JournalOK(journal[r])
  PROVE  IsFiniteSet(Charged(r)) /\ Cardinality(Charged(r)) \in Nat
<1>1. journal[r] \in Seq(Record) /\ Len(journal[r]) \in 0 .. Len(journal[r])
  BY DEF JournalOK
<1>. QED  BY <1>1, DollarsFinite DEF Charged

LEMMA OneRunBank ==
  ASSUME NEW r, ForkAssumption, ForkInv, OneRun(r)
  PROVE  BankInv'
<1>. DEFINE R == Made \cup {ForkSource}
            C == [x \in R |-> Charged(x)]
            D == [x \in R |-> Charged(x)']
<1>1. Made' = Made
  BY OneRunShape DEF Made, There, Runs
<1>2. IsFiniteSet(R)
  <2>1. IsFiniteSet(Made)
    BY FS_Subset DEF Made, ForkAssumption
  <2>. QED  BY <2>1, FS_AddElement
<1>3. R \subseteq Runs /\ r \in R /\ \A x \in R : There(x)
  BY DEF Made, Runs, OneRun, ForkInv, ShapeInv, There
<1>4. \A x \in Runs : JournalOK(journal[x]) /\ JournalOK(journal'[x])
  BY OneRunShape
<1>5. \A x \in R : IsFiniteSet(C[x]) /\ IsFiniteSet(D[x])
  <2>. SUFFICES ASSUME NEW x \in R PROVE IsFiniteSet(Charged(x)) /\ IsFiniteSet(Charged(x)')
    OBVIOUS
  <2>1. JournalOK(journal[x]) /\ JournalOK(journal'[x]) /\ Len(journal[x]) \in 0 .. Len(journal[x])
        /\ Len(journal'[x]) \in 0 .. Len(journal'[x])
    BY <1>3, <1>4 DEF JournalOK
  <2>. QED  BY <2>1, DollarsFinite DEF Charged, JournalOK
<1>6. \A x \in R : x # r => D[x] = C[x]
  BY <1>3 DEF OneRun, SameRun, Charged
<1>7. C[r] \subseteq D[r]
  <2>1. Follows(journal[r], journal'[r])
    BY DEF OneRun, GoesOn
  <2>. QED  BY <1>3, <2>1 DEF Charged, Dollars, Follows
<1>8. /\ worth[r] = Inherited(man[r]) + Cardinality(Charged(r))
      /\ worth'[r] = Inherited(man[r]) + Cardinality(Charged(r)')
  <2>1. RunOf(r) /\ RunOf(r)'
    BY DEF ForkInv, RunInv, OneRun, RunOf
  <2>2. man'[r].origin = man[r].origin
    BY DEF OneRun, GoesOn
  <2>. QED  BY <2>1, <2>2 DEF RunOf, RunOK, MoneyOK, Charged, Inherited
<1>81. C[r] = Charged(r) /\ D[r] = Charged(r)'
  BY <1>3
<1>9. Inherited(man[r]) \in Nat
  <2>1. man[r] \in Manifests
    BY DEF ForkInv, RunInv, RunOK, OneRun
  <2>. QED  BY <2>1 DEF Inherited, Manifests, Origins
<1>10. Cardinality(Total(R, C)) = bank
  <2>1. Total(R, C) = UNION {{x} \X Charged(x) : x \in R}
    BY DEF Total
  <2>. QED  BY <2>1 DEF ForkInv, BankInv
<1>11. Total(R, D) = UNION {{x} \X Charged(x)' : x \in R}
  BY DEF Total
<1>12. bank' \in Nat /\ bank' + worth[r] = bank + worth'[r]
  BY DEF OneRun
<1>. HIDE DEF C, D, R
<1>13. /\ Cardinality(Total(R, D)) + Cardinality(C[r])
              = Cardinality(Total(R, C)) + Cardinality(D[r])
       /\ Cardinality(Total(R, C)) \in Nat /\ Cardinality(C[r]) \in Nat
       /\ Cardinality(D[r]) \in Nat /\ Cardinality(Total(R, D)) \in Nat
  BY <1>2, <1>3, <1>5, <1>6, <1>7, TotalGrows
<1>14. Cardinality(Total(R, D)) = bank'
  <2>. DEFINE i == Inherited(man[r])
              c == Cardinality(C[r])
              d == Cardinality(D[r])
              t == Cardinality(Total(R, D))
              b == bank'
  <2>1. /\ i \in Nat /\ c \in Nat /\ d \in Nat /\ t \in Nat /\ bank \in Nat /\ b \in Nat
        /\ b + (i + c) = bank + (i + d) /\ t + c = bank + d
    BY <1>8, <1>81, <1>9, <1>10, <1>12, <1>13
  <2>. HIDE DEF i, c, d, t, b
  <2>2. t = b
    BY <2>1
  <2>. QED  BY <2>2 DEF t, b
<1>15. BankInv' <=> Cardinality(Total(R, D)) = bank'
  BY <1>1, <1>11 DEF BankInv, R
<1>. QED  BY <1>14, <1>15

(***************************************************************************)
(* Trees that are being copied.                                            *)
(***************************************************************************)
LEMMA PartTreeIs ==
  ASSUME NEW t, IsPartTree(t)
  PROVE  /\ DOMAIN t \subseteq TreeFiles /\ \A x \in DOMAIN t : t[x] \in Nat
         /\ DOMAIN t = TreeFiles => t \in [TreeFiles -> Nat]
         /\ t = [x \in DOMAIN t |-> t[x]]
<1>1. PICK D \in SUBSET TreeFiles : t \in [D -> Nat]
  BY DEF IsPartTree
<1>. QED  BY <1>1

LEMMA IsAPartTree ==
  ASSUME NEW D \in SUBSET TreeFiles, NEW t \in [D -> Nat]
  PROVE  IsPartTree(t)
BY DEF IsPartTree

LEMMA EmptyIsPart == IsPartTree(Empty) /\ DOMAIN Empty = {}
<1>1. DOMAIN Empty = {}
  BY DEF Empty
<1>2. Empty = [x \in {} |-> 0]
  BY <1>1 DEF Empty
<1>3. Empty \in [{} -> Nat] /\ {} \in SUBSET TreeFiles
  BY <1>2
<1>. QED  BY <1>1, <1>3, IsAPartTree

LEMMA WithNextIs ==
  ASSUME NEW t, IsPartTree(t), DOMAIN t # TreeFiles, files[cmd.src] \in [TreeFiles -> Nat]
  PROVE  LET u == WithNext(t)
             s == files[cmd.src]
         IN  \E f \in TreeFiles \ DOMAIN t :
               /\ IsPartTree(u) /\ DOMAIN u = DOMAIN t \cup {f} /\ u[f] = s[f]
               /\ \A x \in DOMAIN t : u[x] = t[x]
<1>. DEFINE f == CHOOSE f \in TreeFiles \ DOMAIN t : TRUE
            s == files[cmd.src]
            u == [x \in {f} \cup DOMAIN t |-> IF x = f THEN s[f] ELSE t[x]]
<1>1. DOMAIN t \subseteq TreeFiles /\ \A x \in DOMAIN t : t[x] \in Nat
  BY PartTreeIs
<1>2. f \in TreeFiles /\ f \notin DOMAIN t
  BY <1>1
<1>3. WithNext(t) = u
  BY DEF WithNext, WithAt
<1>4. s[f] \in Nat
  BY <1>2
<1>. HIDE DEF f, s
<1>5. u \in [{f} \cup DOMAIN t -> Nat] /\ {f} \cup DOMAIN t \in SUBSET TreeFiles
  BY <1>1, <1>2, <1>4
<1>6. IsPartTree(u)
  BY <1>5, IsAPartTree
<1>7. DOMAIN u = DOMAIN t \cup {f} /\ u[f] = s[f] /\ \A x \in DOMAIN t : u[x] = t[x]
  BY <1>2
<1>. QED  BY <1>2, <1>3, <1>6, <1>7 DEF s

(***************************************************************************)
(* The command, while a run goes on.                                       *)
(***************************************************************************)
LEMMA OneRunCmd ==
  ASSUME NEW r, ForkAssumption, ForkInv, OneRun(r)
  PROVE  CmdInv'
<1>1. /\ \A x \in Runs : There(x)' <=> There(x)
      /\ \A x \in Runs : /\ Follows(journal[x], journal'[x]) /\ JournalOK(journal[x])
                         /\ JournalOK(journal'[x])
                         /\ Kept(snaps[x], snaps'[x]) /\ Kept(worthAt[x], worthAt'[x])
      /\ \A x \in Runs : There(x) =>
           /\ \A f \in TreeFiles : files[x] \in [TreeFiles -> Nat] /\ files'[x] \in [TreeFiles -> Nat]
                               /\ files[x][f] <= files'[x][f]
           /\ man'[x].origin = man[x].origin
  BY OneRunShape
<1>2. cmd' = cmd /\ \A x \in Runs : ~ There(x) => SameRun(x)
  BY DEF OneRun
<1>3. CmdInv
  BY DEF ForkInv
<1>4. Forks \subseteq Runs
  BY DEF Runs
<1>5. AskedInv'
  <2>1. ASSUME cmd.pc \in {"journal", "survey"}
        PROVE  LET s == cmd.src
               IN  /\ s \in Runs /\ man'[s] # None /\ ForkOf[s] \in Forks
                   /\ ~ (man'[ForkOf[s]] # None) /\ files'[ForkOf[s]] = None
                   /\ cmd.pc = "journal" => Inherited(cmd.source) = Inherited(man'[s])
    BY <1>1, <1>2, <1>3, <1>4, <2>1 DEF CmdInv, AskedInv, SameRun, Inherited, There
  <2>. QED  BY <1>2, <2>1 DEF AskedInv, There
<1>6. ReadInv'
  <2>. SUFFICES ASSUME cmd.pc \in Read
                PROVE  LET s == cmd.src
                       IN  /\ ReadFields \subseteq DOMAIN cmd
                           /\ s \in Runs /\ man'[s] # None
                           /\ ReadOK(cmd.visit, cmd.snap, cmd.prefix, cmd.inherited,
                                     journal'[s], snaps'[s], worthAt'[s])
                           /\ IsPartTree(cmd.digest)
                           /\ \A x \in DOMAIN cmd.digest : cmd.digest[x] <= files'[s][x]
    BY <1>2 DEF ReadInv, There, Read, Making
  <2>. DEFINE s == cmd.src
              v == cmd.visit
  <2>1. /\ ReadFields \subseteq DOMAIN cmd
        /\ s \in Runs /\ There(s)
        /\ ReadOK(v, cmd.snap, cmd.prefix, cmd.inherited, journal[s], snaps[s], worthAt[s])
        /\ IsPartTree(cmd.digest)
        /\ \A x \in DOMAIN cmd.digest : cmd.digest[x] <= files[s][x]
    BY <1>3 DEF CmdInv, ReadInv
  <2>2. /\ Follows(journal[s], journal'[s]) /\ JournalOK(journal[s]) /\ JournalOK(journal'[s])
        /\ Kept(snaps[s], snaps'[s]) /\ Kept(worthAt[s], worthAt'[s])
    BY <1>1, <2>1
  <2>3. RunOK(man[s], journal[s], snaps[s], files[s], worthAt[s], worth[s])
    BY <2>1 DEF ForkInv, RunInv
  <2>4. v.start \in DOMAIN snaps[s] /\ v.start \in DOMAIN worthAt[s] /\ v.start \in Ones(journal[s])
    BY <2>1, <2>3 DEF ReadOK, RunOK, SnapsOK
  <2>5. /\ v.start \in DOMAIN snaps'[s] /\ snaps'[s][v.start] = snaps[s][v.start]
        /\ worthAt'[s][v.start] = worthAt[s][v.start]
    BY <2>2, <2>4 DEF Kept
  <2>6. VisitIn(journal'[s], v.node, v.ordinal, v.start)
    <3>. HIDE DEF s, v
    <3>. QED  BY <2>1, <2>2, VisitStays DEF ReadOK
  <2>7. Stripped(journal'[s], v.start) = Stripped(journal[s], v.start)
    <3>1. v.start \in 1 .. Len(journal[s])
      BY <2>2, <2>4, OnesAre
    <3>. HIDE DEF s, v
    <3>. QED  BY <2>2, <3>1, StrippedStays
  <2>8. ReadOK(v, cmd.snap, cmd.prefix, cmd.inherited, journal'[s], snaps'[s], worthAt'[s])
    BY <2>1, <2>5, <2>6, <2>7 DEF ReadOK
  <2>9. ASSUME NEW x \in DOMAIN cmd.digest
        PROVE  cmd.digest[x] <= files'[s][x]
    <3>1. x \in TreeFiles /\ cmd.digest[x] \in Nat /\ cmd.digest[x] <= files[s][x]
      BY <2>1, PartTreeIs
    <3>2. files[s][x] \in Nat /\ files'[s][x] \in Nat /\ files[s][x] <= files'[s][x]
      BY <1>1, <2>1, <3>1
    <3>. QED  BY <3>1, <3>2
  <2>10. man'[s] # None
    BY <1>1, <2>1 DEF There
  <2>. QED  BY <2>1, <2>8, <2>9, <2>10
<1>7. MakingInv'
  <2>1. cmd.pc \in Making => SameRun(cmd.fork)
    BY <1>2, <1>3, <1>4 DEF CmdInv, MakingInv
  <2>2. FilesChanged' = FilesChanged /\ noteGiveUp' = noteGiveUp
    BY <1>2 DEF FilesChanged, noteGiveUp
  <2>3. ASSUME cmd.pc \in Making
        PROVE  LET f == cmd.fork
               IN  /\ MakingFields \subseteq DOMAIN cmd
                   /\ f \in Forks /\ ~ (man'[f] # None)
                   /\ DOMAIN cmd.digest = TreeFiles
                   /\ cmd.changed = FilesChanged
                   /\ cmd.visit.node = "code" => cmd.plan = cmd.snap.board.plan
                   /\ cmd.plan \in Nat /\ cmd.floor = noteGiveUp
                   /\ cmd.pc \in Copied => files'[f] = cmd.digest
                   /\ cmd.pc \in {"journal file", "manifest"} =>
                        board'[f] = cmd.snap.board /\ planFile'[f] = cmd.plan
                   /\ cmd.pc = "manifest" => journal'[f] = Append(cmd.prefix, Boundary)
    BY <1>3, <2>1, <2>3 DEF CmdInv, MakingInv, SameRun, There
  <2>. QED  BY <1>2, <2>2, <2>3 DEF MakingInv, There
<1>8. CopyInv'
  <2>1. ASSUME cmd.pc \in {"copy", "surveyAgain"}
        PROVE  LET f == cmd.fork
                   s == cmd.src
               IN  /\ files'[f] = files[f]
                   /\ \A x \in TreeFiles : /\ files[s] \in [TreeFiles -> Nat] /\ files'[s] \in [TreeFiles -> Nat]
                                           /\ files[s][x] <= files'[s][x]
    <3>1. cmd.pc \in Making /\ cmd.pc \in Read
      BY <2>1 DEF Making, Read
    <3>2. SameRun(cmd.fork)
      BY <1>2, <1>3, <1>4, <3>1 DEF CmdInv, MakingInv
    <3>3. cmd.src \in Runs /\ There(cmd.src)
      BY <1>3, <3>1 DEF CmdInv, ReadInv
    <3>. QED  BY <1>1, <3>2, <3>3 DEF SameRun
  <2>2. ASSUME NEW d, NEW c, NEW s, NEW t, DOMAIN c \subseteq TreeFiles, \A x \in DOMAIN c : c[x] \in Nat,
               \A x \in TreeFiles : s \in [TreeFiles -> Nat] /\ t \in [TreeFiles -> Nat] /\ s[x] <= t[x],
               Between(d, c, s)
        PROVE  Between(d, c, t)
    <3>1. ASSUME NEW x \in DOMAIN c
          PROVE  c[x] <= t[x]
      <4>1. c[x] \in Nat /\ s[x] \in Nat /\ t[x] \in Nat /\ c[x] <= s[x] /\ s[x] <= t[x]
        BY <2>2 DEF Between
      <4>. QED  BY <4>1
    <3>. QED  BY <2>2, <3>1 DEF Between
  <2>3. ASSUME cmd.pc = "copy"
        PROVE  /\ cmd.again = Empty
               /\ \/ files'[cmd.fork] = None
                  \/ IsPartTree(files'[cmd.fork]) /\ Between(cmd.digest, files'[cmd.fork], files'[cmd.src])
    <3>1. CASE files[cmd.fork] = None
      BY <1>3, <2>1, <2>3, <3>1 DEF CmdInv, CopyInv
    <3>2. CASE files[cmd.fork] # None
      <4>1. IsPartTree(files[cmd.fork]) /\ Between(cmd.digest, files[cmd.fork], files[cmd.src])
            /\ cmd.again = Empty
        BY <1>3, <2>3, <3>2 DEF CmdInv, CopyInv
      <4>2. /\ DOMAIN files[cmd.fork] \subseteq TreeFiles
            /\ \A x \in DOMAIN files[cmd.fork] : files[cmd.fork][x] \in Nat
        BY <4>1, PartTreeIs
      <4>3. Between(cmd.digest, files[cmd.fork], files'[cmd.src])
        BY <2>1, <2>2, <2>3, <4>1, <4>2
      <4>. QED  BY <2>1, <2>3, <4>1, <4>3
    <3>. QED  BY <3>1, <3>2
  <2>4. ASSUME cmd.pc = "surveyAgain"
        PROVE  /\ files'[cmd.fork] \in [TreeFiles -> Nat]
               /\ Between(cmd.digest, files'[cmd.fork], files'[cmd.src])
               /\ IsPartTree(cmd.again) /\ Between(files'[cmd.fork], cmd.again, files'[cmd.src])
    <3>1. /\ files[cmd.fork] \in [TreeFiles -> Nat]
          /\ Between(cmd.digest, files[cmd.fork], files[cmd.src])
          /\ IsPartTree(cmd.again) /\ Between(files[cmd.fork], cmd.again, files[cmd.src])
      BY <1>3, <2>4 DEF CmdInv, CopyInv
    <3>2. DOMAIN cmd.again \subseteq TreeFiles /\ \A x \in DOMAIN cmd.again : cmd.again[x] \in Nat
      BY <3>1, PartTreeIs
    <3>3. Between(cmd.digest, files[cmd.fork], files'[cmd.src])
      BY <2>1, <2>2, <2>4, <3>1
    <3>4. Between(files[cmd.fork], cmd.again, files'[cmd.src])
      BY <2>1, <2>2, <2>4, <3>1, <3>2
    <3>. QED  BY <2>1, <2>4, <3>1, <3>3, <3>4
  <2>. QED  BY <1>2, <2>3, <2>4 DEF CopyInv
<1>9. cmd'.pc \in {"idle", "journal"} \cup Read'
  BY <1>2, <1>3 DEF CmdInv, Read, Making
<1>. QED  BY <1>5, <1>6, <1>7, <1>8, <1>9 DEF CmdInv

\* A step of one run keeps the invariant.
LEMMA OneRunKeeps ==
  ASSUME NEW r, ForkAssumption, ForkInv, OneRun(r)
  PROVE  ForkInv'
<1>1. ShapeInv' /\ AnyInv' /\ RunInv'
  BY OneRunShape
<1>. QED  BY <1>1, OneRunLink, OneRunBank, OneRunCmd DEF ForkInv

LEMMA LoggedIs ==
  ASSUME NEW j \in Seq(Record), NEW a, NEW b
  PROVE  j \o <<a>> = Append(j, a) /\ j \o <<a, b>> = Append(Append(j, a), b)
OBVIOUS

LEMMA BankIsNat ==
  ASSUME ForkAssumption, ForkInv
  PROVE  bank \in Nat
<1>. DEFINE R == Made \cup {ForkSource}
            C == [x \in R |-> Charged(x)]
<1>1. IsFiniteSet(R)
  <2>1. IsFiniteSet(Made)
    BY FS_Subset DEF Made, ForkAssumption
  <2>. QED  BY <2>1, FS_AddElement
<1>2. \A x \in R : IsFiniteSet(C[x])
  <2>1. \A x \in R : JournalOK(journal[x])
    BY DEF Made, Runs, ForkInv, AnyInv, AnyOK
  <2>. QED  BY <2>1, ChargedFinite
<1>3. Cardinality(Total(R, C)) = bank
  <2>1. Total(R, C) = UNION {{x} \X Charged(x) : x \in R}
    BY DEF Total
  <2>. QED  BY <2>1 DEF ForkInv, BankInv
<1>. HIDE DEF R, C
<1>. QED  BY <1>1, <1>2, <1>3, TotalFinite

\* What there is to know of a run that goes on.
LEMMA RunFacts ==
  ASSUME NEW r \in Runs, There(r), ForkAssumption, ForkInv
  PROVE  LET j == journal[r]
             m == man[r]
             o == man[r].origin
         IN  /\ Shaped /\ DOMAIN copied = Runs /\ gaveUp = {}
             /\ JournalOK(j) /\ j \in Seq(Record) /\ IsASequence(j) /\ Len(j) \in Nat
             /\ board[r] \in Boards /\ planFile[r] \in Nat
             /\ m \in Manifests /\ m # None /\ files[r] \in [TreeFiles -> Nat]
             /\ \A i \in DOMAIN snaps[r] : snaps[r][i] \in Snapshots
             /\ SnapsOK(OwnOf(m), j, DOMAIN snaps[r], DOMAIN worthAt[r])
             /\ MoneyOK(m, j, worthAt[r], worth[r])
             /\ DOMAIN worthAt[r] \subseteq Ones(j) /\ DOMAIN snaps[r] \subseteq DOMAIN worthAt[r]
             /\ Inherited(m) \in Nat /\ OwnOf(m) \in Nat /\ OwnOf(m) <= Len(j)
             /\ worth[r] \in Nat /\ bank \in Nat
             /\ o # None => /\ FirstOK(o, Given(r), j, m.step, board[r], snaps[r])
                            /\ OwnOf(m) = o.start /\ o.start \in Nat /\ o.step \in Nat
                            /\ o.start <= Len(j) /\ j[o.start] = Boundary
                            /\ Len(j) = o.start => FirstIn(o, j)
                            /\ m.floor = IF o.node = "fix" /\ Given(r).board.attempts >= GiveUp
                                           THEN Given(r).board.attempts + 1 ELSE 0
                            /\ Given(r).board \in Boards
<1>. DEFINE j == journal[r]
            m == man[r]
            o == man[r].origin
<1>1. Shaped /\ DOMAIN copied = Runs /\ gaveUp = {}
  BY DEF ForkInv, ShapeInv, Shaped
<1>2. JournalOK(j) /\ board[r] \in Boards /\ planFile[r] \in Nat
  BY DEF ForkInv, AnyInv, AnyOK
<1>3. j \in Seq(Record) /\ IsASequence(j) /\ Len(j) \in Nat
  BY <1>2 DEF JournalOK, IsASequence
<1>4. RunOK(m, j, snaps[r], files[r], worthAt[r], worth[r])
  BY DEF ForkInv, RunInv
<1>5. /\ m \in Manifests /\ m # None /\ files[r] \in [TreeFiles -> Nat]
      /\ \A i \in DOMAIN snaps[r] : snaps[r][i] \in Snapshots
      /\ SnapsOK(OwnOf(m), j, DOMAIN snaps[r], DOMAIN worthAt[r])
      /\ MoneyOK(m, j, worthAt[r], worth[r])
  BY <1>4 DEF RunOK, There
<1>6. o = None \/ o \in Origins
  BY <1>5 DEF Manifests
<1>7. Inherited(m) \in Nat
  BY <1>6 DEF Inherited, Origins
<1>8. worth[r] \in Nat
  <2>1. Cardinality(Charged(r)) \in Nat
    BY <1>2, ChargedFinite
  <2>. QED  BY <1>5, <1>7, <2>1 DEF MoneyOK, Charged
<1>9. DOMAIN worthAt[r] \subseteq Ones(j) /\ DOMAIN snaps[r] \subseteq DOMAIN worthAt[r]
  BY <1>5 DEF SnapsOK
<1>10. ASSUME o # None
       PROVE  /\ FirstOK(o, Given(r), j, m.step, board[r], snaps[r])
              /\ OwnOf(m) = o.start /\ o.start \in Nat /\ o.step \in Nat
              /\ o.start <= Len(j) /\ j[o.start] = Boundary
              /\ Len(j) = o.start => FirstIn(o, j)
              /\ m.floor = IF o.node = "fix" /\ Given(r).board.attempts >= GiveUp
                             THEN Given(r).board.attempts + 1 ELSE 0
              /\ Given(r).board \in Boards
  <2>1. /\ There(o.run)
        /\ LinkOK(m, j, copied[r], board[r], snaps[r], journal[o.run], snaps[o.run])
    BY <1>10 DEF ForkInv, LinkInv
  <2>2. o.start \in Nat /\ o.step \in Nat /\ o.run \in Runs
    BY <1>6, <1>10 DEF Origins
  <2>3. /\ BackOK(o, m.floor, j, copied[r], journal[o.run], snaps[o.run])
        /\ FirstOK(o, Given(r), j, m.step, board[r], snaps[r])
    BY <2>1 DEF LinkOK, Given
  <2>4. /\ o.start <= Len(j) /\ j[o.start] = Boundary /\ o.start \in DOMAIN snaps[o.run]
        /\ m.floor = IF o.node = "fix" /\ Given(r).board.attempts >= GiveUp
                       THEN Given(r).board.attempts + 1 ELSE 0
    <3>1. Len(j) >= o.start
      BY <2>3 DEF BackOK
    <3>. QED  BY <1>3, <2>2, <2>3, <3>1 DEF BackOK, Given
  <2>5. Given(r) \in Snapshots
    <3>1. RunOK(man[o.run], journal[o.run], snaps[o.run], files[o.run], worthAt[o.run], worth[o.run])
      BY <2>1, <2>2 DEF ForkInv, RunInv
    <3>. QED  BY <2>4, <3>1 DEF RunOK, Given
  <2>6. Given(r).board \in Boards
    BY <2>5 DEF Snapshots
  <2>7. ASSUME Len(j) = o.start
        PROVE  FirstIn(o, j)
    <3>1. Boundary.event # "node_finished"
      BY DEF Boundary, RunMarker
    <3>2. \A i \in FinishedAt(j) : i <= Len(j) /\ i # o.start /\ i \in Nat
      BY <1>3, <2>4, <3>1 DEF FinishedAt
    <3>. QED  BY <2>2, <2>7, <3>2 DEF FirstIn
  <2>8. OwnOf(m) = o.start
    BY <1>10 DEF OwnOf
  <2>. QED  BY <2>2, <2>3, <2>4, <2>6, <2>7, <2>8
<1>11. OwnOf(m) \in Nat /\ OwnOf(m) <= Len(j)
  <2>1. CASE o = None
    BY <1>3, <2>1 DEF OwnOf
  <2>2. CASE o # None
    BY <1>10, <2>2
  <2>. QED  BY <2>1, <2>2
<1>12. bank \in Nat
  BY BankIsNat
<1>. QED  BY <1>1, <1>2, <1>3, <1>5, <1>7, <1>8, <1>9, <1>10, <1>11, <1>12

LEMMA DrivenIsThere ==
  ASSUME NEW r \in Runs, ForkInv, proc[r] # "none"
  PROVE  There(r)
BY DEF ForkInv, AnyInv, AnyOK, There

-----------------------------------------------------------------------------
(***************************************************************************)
(* Each of the steps.                                                      *)
(***************************************************************************)
LEMMA BeginNodeKeeps ==
  ASSUME NEW r \in Runs, ForkAssumption, ForkInv, BeginNode(r)
  PROVE  OneRun(r)
<1>. DEFINE j  == journal[r]
            m  == man[r]
            at == ResolveStart(j)
            k  == Append(j, NodeStarted(at.node, at.attempt))
            wa == worthAt[r]
            xa == IF at.attempt = 1 THEN WithAt(wa, Len(j) + 1, worth[r]) ELSE wa
<1>1. There(r)
  BY DrivenIsThere DEF BeginNode
<1>2. ~ IsOpen(j) /\ at.node \in Names
  BY DEF BeginNode
<1>3. /\ Shaped /\ DOMAIN copied = Runs /\ gaveUp = {}
      /\ JournalOK(j) /\ j \in Seq(Record) /\ IsASequence(j) /\ Len(j) \in Nat
      /\ board[r] \in Boards /\ planFile[r] \in Nat
      /\ m \in Manifests /\ m # None /\ files[r] \in [TreeFiles -> Nat]
      /\ \A i \in DOMAIN snaps[r] : snaps[r][i] \in Snapshots
      /\ SnapsOK(OwnOf(m), j, DOMAIN snaps[r], DOMAIN wa)
      /\ MoneyOK(m, j, wa, worth[r])
      /\ DOMAIN wa \subseteq Ones(j)
      /\ Inherited(m) \in Nat /\ OwnOf(m) \in Nat /\ OwnOf(m) <= Len(j)
      /\ worth[r] \in Nat /\ bank \in Nat
      /\ m.origin # None => /\ FirstOK(m.origin, Given(r), j, m.step, board[r], snaps[r])
                            /\ m.origin.start \in Nat /\ m.origin.start <= Len(j)
                            /\ Len(j) = m.origin.start => FirstIn(m.origin, j)
  BY <1>1, RunFacts
<1>4. /\ journal' = [journal EXCEPT ![r] = k]
      /\ DOMAIN worthAt' = Runs /\ worthAt'[r] = xa
      /\ \A x \in Runs : x # r => worthAt'[x] = worthAt[x]
      /\ UNCHANGED <<man, snaps, board, files, planFile, proc, cmd, bank, worth, copied, gaveUp>>
  <2>1. journal' = [journal EXCEPT ![r] = j \o <<NodeStarted(at.node, at.attempt)>>]
    BY DEF BeginNode, Log
  <2>2. j \o <<NodeStarted(at.node, at.attempt)>> = k
    BY <1>3, LoggedIs
  <2>3. /\ DOMAIN worthAt' = Runs /\ worthAt'[r] = xa
        /\ \A x \in Runs : x # r => worthAt'[x] = worthAt[x]
    <3>0. DOMAIN worthAt = Runs
      BY <1>3 DEF Shaped
    <3>1. CASE at.attempt = 1
      <4>1. worthAt' = [worthAt EXCEPT ![r] = xa]
        BY <3>1 DEF BeginNode
      <4>. HIDE DEF xa
      <4>. QED  BY <3>0, <4>1
    <3>2. CASE at.attempt # 1
      <4>1. worthAt' = worthAt /\ xa = worthAt[r]
        BY <3>2 DEF BeginNode
      <4>. QED  BY <3>0, <4>1
    <3>. QED  BY <3>1, <3>2
  <2>. QED  BY <2>1, <2>2, <2>3 DEF BeginNode
<1>5. JournalOK(k) /\ at.attempt \in Nat /\ at.attempt # 0
  BY <1>2, <1>3, StartIsFine
<1>6. SnapsOK(OwnOf(m), k, DOMAIN snaps[r],
              DOMAIN wa \cup (IF at.attempt = 1 THEN {Len(j) + 1} ELSE {}))
  BY <1>2, <1>3, SnapsStarted
<1>7. m.origin # None => FirstOK(m.origin, Given(r), k, m.step, board[r], snaps[r])
  BY <1>2, <1>3, FirstStarted
<1>8. NodeStarted(at.node, at.attempt) \in Record /\ NodeStarted(at.node, at.attempt).usage = 0
  BY <1>2, <1>5, StartsAreRecords
<1>9. MoneyOK(m, k, wa, worth[r])
  <2>1. MoneyOK(m, k, wa, worth[r] + NodeStarted(at.node, at.attempt).usage)
    BY <1>3, <1>8, MoneyAppended
  <2>2. worth[r] + NodeStarted(at.node, at.attempt).usage = worth[r]
    BY <1>3, <1>8
  <2>. QED  BY <2>1, <2>2
<1>10. /\ DOMAIN xa = DOMAIN wa \cup (IF at.attempt = 1 THEN {Len(j) + 1} ELSE {})
       /\ \A i \in DOMAIN wa : xa[i] = wa[i]
       /\ at.attempt = 1 => xa[Len(j) + 1] = worth[r]
  <2>1. \A i \in DOMAIN wa : i # Len(j) + 1
    BY <1>3, OnesAre
  <2>2. CASE at.attempt = 1
    <3>. DEFINE g == WithAt(wa, Len(j) + 1, worth[r])
    <3>1. /\ DOMAIN g = {Len(j) + 1} \cup DOMAIN wa /\ g[Len(j) + 1] = worth[r]
          /\ \A y \in DOMAIN wa : y # Len(j) + 1 => g[y] = wa[y]
      BY Zenon DEF WithAt
    <3>2. xa = g
      BY <2>2
    <3>. HIDE DEF g, xa, at, j, wa
    <3>. QED  BY <2>1, <2>2, <3>1, <3>2
  <2>3. CASE at.attempt # 1
    BY <2>3
  <2>. QED  BY <2>2, <2>3
<1>11. Follows(j, k)
  BY <1>3, AppendFollows
<1>. HIDE DEF k, at, xa, j, m, wa
<1>12. MoneyOK(m, k, xa, worth[r])
  <2>1. worth[r] = Inherited(m) + Cardinality(Dollars(k, (Len(j) + 1) - 1))
    <3>1. Dollars(k, Len(j)) = Dollars(j, Len(j)) /\ (Len(j) + 1) - 1 = Len(j)
      BY <1>3, <1>8, DollarsAppended DEF k
    <3>. QED  BY <1>3, <3>1 DEF MoneyOK
  <2>. QED  BY <1>9, <1>10, <2>1 DEF MoneyOK
<1>13. /\ man'[r] = m /\ journal'[r] = k /\ snaps'[r] = snaps[r] /\ files'[r] = files[r]
       /\ worthAt'[r] = xa /\ worth'[r] = worth[r] /\ board'[r] = board[r]
       /\ planFile'[r] = planFile[r]
  BY <1>3, <1>4 DEF m, Shaped
<1>14. RunOf(r)'
  <2>1. RunOK(m, k, snaps[r], files[r], xa, worth[r])
    BY <1>3, <1>6, <1>10, <1>12 DEF RunOK
  <2>. QED  BY <1>13, <2>1 DEF RunOf
<1>15. Kept(snaps[r], snaps[r]) /\ Kept(wa, xa)
  BY <1>10 DEF Kept
<1>16. GoesOn(r)
  BY <1>3, <1>11, <1>13, <1>15 DEF GoesOn, m, j, wa
<1>17. Shaped' /\ \A x \in Runs : x # r => SameRun(x)
  BY <1>3, <1>4 DEF Shaped, SameRun
<1>. QED  BY <1>1, <1>3, <1>4, <1>5, <1>7, <1>13, <1>14, <1>16, <1>17 DEF OneRun, m

LEMMA SaveSnapshotKeeps ==
  ASSUME NEW r \in Runs, ForkAssumption, ForkInv, SaveSnapshotOnce(r)
  PROVE  OneRun(r)
<1>. DEFINE j  == journal[r]
            m  == man[r]
            sn == snaps[r]
            wa == worthAt[r]
            n  == SnapSeq(r)
            v  == [step |-> m.step + 1, digest |-> files[r], board |-> board[r]]
            ss == WithAt(sn, n, v)
<1>1. There(r)
  BY DrivenIsThere DEF SaveSnapshotOnce
<1>2. IsOpen(j) /\ n \notin DOMAIN sn /\ n = AttemptOneSeq(j, j[Len(j)].node)
  BY DEF SaveSnapshotOnce, SnapSeq, OpenNode
<1>3. /\ Shaped /\ DOMAIN copied = Runs /\ gaveUp = {}
      /\ JournalOK(j) /\ j \in Seq(Record) /\ IsASequence(j) /\ Len(j) \in Nat
      /\ board[r] \in Boards /\ planFile[r] \in Nat
      /\ m \in Manifests /\ m # None /\ files[r] \in [TreeFiles -> Nat]
      /\ \A i \in DOMAIN sn : sn[i] \in Snapshots
      /\ SnapsOK(OwnOf(m), j, DOMAIN sn, DOMAIN wa)
      /\ MoneyOK(m, j, wa, worth[r])
      /\ worth[r] \in Nat /\ bank \in Nat
      /\ m.origin # None => FirstOK(m.origin, Given(r), j, m.step, board[r], sn) /\ m.origin.step \in Nat
  BY <1>1, RunFacts
<1>4. /\ snaps' = [snaps EXCEPT ![r] = ss]
      /\ UNCHANGED <<man, journal, worthAt, board, files, planFile, proc, cmd, bank, worth, copied, gaveUp>>
  BY DEF SaveSnapshotOnce, forkHist
<1>5. n \in Ones(j) /\ n \in DOMAIN wa
  BY <1>2, <1>3, SnapSeqIs
<1>6. m.step \in Nat
  BY <1>3 DEF Manifests
<1>7. v \in Snapshots
  BY <1>3, <1>6 DEF Snapshots
<1>8. v.step = m.step + 1 /\ v.board = board[r]
  OBVIOUS
<1>. HIDE DEF v, n
<1>9. /\ DOMAIN ss = DOMAIN sn \cup {n} /\ ss[n] = v
      /\ \A i \in DOMAIN sn : i # n => ss[i] = sn[i]
  BY DEF WithAt
<1>. HIDE DEF ss
<1>10. SnapsOK(OwnOf(m), j, DOMAIN ss, DOMAIN wa)
  BY <1>3, <1>5, <1>9, SnapsSaved
<1>11. \A i \in DOMAIN sn : ss[i] = sn[i]
  BY <1>2, <1>9
<1>12. m.origin # None => FirstOK(m.origin, Given(r), j, m.step, board[r], ss)
  <2>. HIDE DEF j, m, sn
  <2>. QED  BY <1>2, <1>3, <1>5, <1>8, <1>9, <1>11, FirstSaved
<1>13. \A i \in DOMAIN ss : ss[i] \in Snapshots
  BY <1>3, <1>7, <1>9, <1>11
<1>14. /\ man'[r] = m /\ journal'[r] = j /\ snaps'[r] = ss /\ files'[r] = files[r]
       /\ worthAt'[r] = wa /\ worth'[r] = worth[r] /\ board'[r] = board[r]
       /\ planFile'[r] = planFile[r]
  BY <1>3, <1>4 DEF Shaped
<1>. HIDE DEF j, m, sn, wa
<1>15. RunOf(r)'
  <2>1. RunOK(m, j, ss, files[r], wa, worth[r])
    BY <1>3, <1>10, <1>13 DEF RunOK
  <2>. QED  BY <1>14, <2>1 DEF RunOf
<1>16. Kept(sn, ss) /\ Kept(wa, wa)
  BY <1>9, <1>11 DEF Kept
<1>17. \A x \in TreeFiles : files[r][x] <= files'[r][x]
  BY <1>3, <1>14
<1>18. GoesOn(r)
  <2>1. Follows(j, j)
    BY <1>3, FollowsItself
  <2>. QED  BY <1>3, <1>14, <1>16, <1>17, <2>1 DEF GoesOn, m, j, wa, sn
<1>19. Shaped' /\ \A x \in Runs : x # r => SameRun(x)
  BY <1>3, <1>4 DEF Shaped, SameRun
<1>20. gaveUp' = {} /\ cmd' = cmd /\ copied' = copied /\ bank' = bank
  BY <1>3, <1>4
<1>. QED  BY <1>1, <1>3, <1>12, <1>14, <1>15, <1>18, <1>19, <1>20 DEF OneRun, m

\* An attempt that is finished, and the marker of the run after it, if any.
Finishes(j, k, u) ==
  \E s \in {"ok", "failed"}, x \in Successors, w \in Notes, e \in RunEvents, fin \in Record :
    /\ fin = NodeFinished(j[Len(j)].node, j[Len(j)].attempt, s, x, u, w)
    /\ k = Append(j, fin) \/ k = Append(Append(j, fin), RunMarker(e))

LEMMA FinishedIs ==
  ASSUME NEW j, JournalOK(j), IsOpen(j), j \in Seq(Record), IsASequence(j),
         NEW own, NEW sd, NEW wd, SnapsOK(own, j, sd, wd),
         AttemptOneSeq(j, j[Len(j)].node) \in sd,
         NEW m, NEW wa, NEW wo, MoneyOK(m, j, wa, wo), DOMAIN wa \subseteq Ones(j),
         Inherited(m) \in Nat, NEW u \in Nat, NEW k, Finishes(j, k, u)
  PROVE  /\ JournalOK(k) /\ Follows(j, k) /\ Len(j) < Len(k) /\ StartedAt(k) = StartedAt(j)
         /\ Len(j) + 1 \in FinishedAt(k) /\ ~ Interrupted(k[Len(j) + 1]) /\ ~ Again(k)
         /\ SnapsOK(own, k, sd, wd) /\ MoneyOK(m, k, wa, wo + u) /\ wo \in Nat
<1>. PICK s \in {"ok", "failed"}, x \in Successors, w \in Notes, e \in RunEvents, fin \in Record :
       /\ fin = NodeFinished(j[Len(j)].node, j[Len(j)].attempt, s, x, u, w)
       /\ k = Append(j, fin) \/ k = Append(Append(j, fin), RunMarker(e))
  BY DEF Finishes
<1>. DEFINE l == Append(j, fin)
<1>0. Len(j) \in Nat
  BY DEF IsASequence
<1>1. s \in {"ok", "failed", "aborted"} /\ s # "aborted"
  OBVIOUS
<1>2. /\ JournalOK(l) /\ ~ IsOpen(l) /\ l[Len(j) + 1] = fin
      /\ fin \in Record /\ fin.usage = u
      /\ ~ Again(l) /\ ~ Interrupted(fin)
      /\ StartedAt(l) = StartedAt(j) /\ Len(j) + 1 \in FinishedAt(l)
  <2>1. \E n : n = j[Len(j)].node /\ fin = NodeFinished(n, j[Len(j)].attempt, s, x, u, w)
    OBVIOUS
  <2>2. PICK n : n = j[Len(j)].node /\ fin = NodeFinished(n, j[Len(j)].attempt, s, x, u, w)
    BY <2>1
  <2>. QED  BY <1>1, <2>2, FinishIsFine
<1>3. Follows(j, l) /\ Len(l) = Len(j) + 1
  BY AppendFollows
<1>4. MoneyOK(m, l, wa, wo + u) /\ wo \in Nat
  BY <1>2, MoneyAppended
<1>. HIDE DEF l
<1>5. CASE k = l
  BY <1>0, <1>2, <1>3, <1>4, <1>5, SnapsFinished
<1>6. CASE k = Append(l, RunMarker(e))
  <2>1. JournalOK(k) /\ Held(l, k)
    BY <1>2, <1>6, MarkerHolds
  <2>2. /\ Follows(l, k) /\ Len(l) < Len(k) /\ StartedAt(k) = StartedAt(l)
        /\ Len(j) + 1 \in FinishedAt(k) /\ ~ Again(k)
    BY <1>2, <2>1 DEF Held
  <2>3. Follows(j, k) /\ Len(j) < Len(k) /\ StartedAt(k) = StartedAt(j)
    <3>1. Len(k) \in Nat
      BY <2>2 DEF Follows
    <3>. QED  BY <1>0, <1>2, <1>3, <2>2, <3>1, FollowsOn
  <2>4. ~ Interrupted(k[Len(j) + 1])
    <3>1. k[Len(j) + 1] = l[Len(j) + 1]
      BY <1>0, <1>3, <2>2 DEF Follows
    <3>. QED  BY <1>2, <3>1
  <2>5. MoneyOK(m, k, wa, wo + u)
    <3>1. RunMarker(e) \in Record /\ RunMarker(e).usage = 0
      BY MarkersAreRecords
    <3>2. DOMAIN wa \subseteq Ones(l)
      BY <1>2, <1>3, FollowsOnes
    <3>3. l \in Seq(Record)
      BY <1>2 DEF JournalOK
    <3>4. MoneyOK(m, Append(l, RunMarker(e)), wa, (wo + u) + RunMarker(e).usage)
      BY <1>4, <3>1, <3>2, <3>3, MoneyAppended
    <3>5. (wo + u) + RunMarker(e).usage = wo + u
      BY <1>4, <3>1
    <3>. QED  BY <1>6, <3>4, <3>5
  <2>6. SnapsOK(own, k, sd, wd)
    BY <2>2, <2>3, SnapsFinished
  <2>. QED  BY <1>4, <2>1, <2>2, <2>3, <2>4, <2>5, <2>6
<1>. QED  BY <1>5, <1>6 DEF l

\* An attempt that was cut short, if there is one, and a marker of the run.
IsCut(j, k, u, e, w) ==
  \/ /\ IsOpen(j)
     /\ k = Append(Append(j, InterruptedAttempt(j[Len(j)].node, j[Len(j)].attempt, u, w)), RunMarker(e))
  \/ ~ IsOpen(j) /\ u = 0 /\ k = Append(j, RunMarker(e))
Cuts(j, k, u) == \E e \in RunEvents, w \in Notes : IsCut(j, k, u, e, w)

LEMMA CutIs ==
  ASSUME NEW j, JournalOK(j), j \in Seq(Record), IsASequence(j),
         NEW own, NEW sd, NEW wd, SnapsOK(own, j, sd, wd),
         NEW m, NEW wa, NEW wo, MoneyOK(m, j, wa, wo), DOMAIN wa \subseteq Ones(j),
         Inherited(m) \in Nat, wo \in Nat, NEW u \in Nat, NEW k, Cuts(j, k, u)
  PROVE  /\ JournalOK(k) /\ Held(j, k) /\ SnapsOK(own, k, sd, wd) /\ MoneyOK(m, k, wa, wo + u)
<1>. PICK e \in RunEvents, w \in Notes : IsCut(j, k, u, e, w)
  BY DEF Cuts
<1>. DEFINE lost == InterruptedAttempt(j[Len(j)].node, j[Len(j)].attempt, u, w)
<1>1. RunMarker(e) \in Record /\ RunMarker(e).usage = 0
  BY MarkersAreRecords
<1>2. CASE ~ IsOpen(j) /\ u = 0 /\ k = Append(j, RunMarker(e))
  <2>1. JournalOK(k) /\ Held(j, k)
    BY <1>2, MarkerHolds
  <2>2. MoneyOK(m, k, wa, wo + RunMarker(e).usage)
    BY <1>1, <1>2, MoneyAppended
  <2>3. wo + RunMarker(e).usage = wo + u
    BY <1>1, <1>2
  <2>. QED  BY <2>1, <2>2, <2>3, SnapsHeld
<1>3. CASE /\ IsOpen(j)
           /\ k = Append(Append(j, lost), RunMarker(e))
  <2>. DEFINE l == Append(j, lost)
  <2>1. JournalOK(l) /\ ~ IsOpen(l) /\ Held(j, l) /\ lost \in Record /\ lost.usage = u
    BY <1>3, LostHolds
  <2>2. MoneyOK(m, l, wa, wo + u)
    BY <2>1, MoneyAppended
  <2>3. k = Append(l, RunMarker(e))
    BY <1>3
  <2>. HIDE DEF l
  <2>4. JournalOK(k) /\ Held(l, k)
    BY <2>1, <2>3, MarkerHolds
  <2>5. Held(j, k)
    BY <2>1, <2>4, HeldOn
  <2>6. DOMAIN wa \subseteq Ones(l)
    <3>1. Follows(j, l) /\ StartedAt(l) = StartedAt(j)
      BY <2>1 DEF Held
    <3>. QED  BY <3>1, FollowsOnes
  <2>7. l \in Seq(Record)
    BY <2>1 DEF JournalOK
  <2>8. MoneyOK(m, Append(l, RunMarker(e)), wa, (wo + u) + RunMarker(e).usage)
    BY <1>1, <2>2, <2>6, <2>7, MoneyAppended
  <2>9. (wo + u) + RunMarker(e).usage = wo + u
    BY <1>1, <1>3
  <2>. QED  BY <2>3, <2>4, <2>5, <2>8, <2>9, SnapsHeld
<1>. QED  BY <1>2, <1>3 DEF IsCut

\* A function of the runs that is changed for one of them.
ChangedFor(r, f, g, v) ==
  DOMAIN g = Runs /\ g[r] = v /\ \A x \in Runs : x # r => g[x] = f[x]

LEMMA ChangedIs ==
  ASSUME NEW r \in Runs, NEW f, DOMAIN f = Runs
  PROVE  /\ \A v : ChangedFor(r, f, [f EXCEPT ![r] = v], v)
         /\ ChangedFor(r, f, f, f[r])
BY DEF ChangedFor

\* The records a node's end leaves, and the manifest.
LEMMA ClosingIs ==
  ASSUME NEW r \in Runs, ForkInv, NEW fin, journal[r] \in Seq(Record), man[r] \in Manifests,
         NEW status \in {"failed", "completed"}, GoOn(r, fin) \/ EndRun(r, fin, status)
  PROVE  \E k, m2, p2 :
           /\ \E e \in RunEvents : \/ k = Append(journal[r], fin)
                                   \/ k = Append(Append(journal[r], fin), RunMarker(e))
           /\ m2 \in Manifests /\ m2.origin = man[r].origin /\ m2.floor = man[r].floor
           /\ ChangedFor(r, journal, journal', k) /\ ChangedFor(r, man, man', m2)
           /\ ChangedFor(r, proc, proc', p2)
<1>. DEFINE j == journal[r]
<1>1. DOMAIN man = Runs /\ DOMAIN journal = Runs /\ DOMAIN proc = Runs
  BY DEF ForkInv, ShapeInv
<1>2. man[r].step + 1 \in Nat
  BY DEF Manifests
<1>3. {"run_paused", "run_failed", "run_completed"} \subseteq RunEvents
  BY DEF RunEvents
<1>4. ASSUME NEW status2 \in {"running", "paused", "completed", "failed"},
             NEW m2, m2 = [man[r] EXCEPT !.step = man[r].step + 1, !.status = status2]
      PROVE  m2 \in Manifests /\ m2.origin = man[r].origin /\ m2.floor = man[r].floor
  BY <1>2, <1>4 DEF Manifests
<1>5. ASSUME NEW e \in RunEvents, NEW status2 \in {"running", "paused", "completed", "failed"},
             Log(r, <<fin, RunMarker(e)>>),
             man' = [man EXCEPT ![r].step = @ + 1, ![r].status = status2],
             proc' = [proc EXCEPT ![r] = "none"]
      PROVE  \E k, m2, p2 :
               /\ k = Append(Append(j, fin), RunMarker(e))
               /\ m2 = [man[r] EXCEPT !.step = man[r].step + 1, !.status = status2]
               /\ ChangedFor(r, journal, journal', k) /\ ChangedFor(r, man, man', m2)
               /\ ChangedFor(r, proc, proc', p2)
  <2>. DEFINE k  == Append(Append(j, fin), RunMarker(e))
              m2 == [man[r] EXCEPT !.step = man[r].step + 1, !.status = status2]
  <2>1. j \o <<fin, RunMarker(e)>> = k
    BY LoggedIs
  <2>2. journal' = [journal EXCEPT ![r] = k]
    BY <1>5, <2>1 DEF Log
  <2>3. DOMAIN man' = Runs /\ man'[r] = m2 /\ \A x \in Runs : x # r => man'[x] = man[x]
    BY <1>1, <1>5
  <2>4. ChangedFor(r, man, man', m2)
    BY <2>3 DEF ChangedFor
  <2>. HIDE DEF k, m2
  <2>5. ChangedFor(r, journal, journal', k)
    BY <1>1, <2>2 DEF ChangedFor
  <2>6. ChangedFor(r, proc, proc', "none")
    BY <1>1, <1>5 DEF ChangedFor
  <2>. QED  BY <2>4, <2>5, <2>6 DEF k, m2
<1>6. CASE EndRun(r, fin, status)
  <2>. DEFINE e == IF status = "failed" THEN "run_failed" ELSE "run_completed"
  <2>1. e \in RunEvents /\ status \in {"running", "paused", "completed", "failed"}
    BY <1>3
  <2>2. /\ Log(r, <<fin, RunMarker(e)>>)
        /\ man' = [man EXCEPT ![r].step = @ + 1, ![r].status = status]
        /\ proc' = [proc EXCEPT ![r] = "none"]
    BY <1>6 DEF EndRun
  <2>. HIDE DEF e
  <2>. QED  BY <1>4, <1>5, <2>1, <2>2
<1>7. CASE GoOn(r, fin) /\ proc[r] = "one"
  <2>1. /\ Log(r, <<fin, RunMarker("run_paused")>>)
        /\ man' = [man EXCEPT ![r].step = @ + 1, ![r].status = "paused"]
        /\ proc' = [proc EXCEPT ![r] = "none"]
    BY <1>7 DEF GoOn
  <2>2. "run_paused" \in RunEvents /\ "paused" \in {"running", "paused", "completed", "failed"}
    BY <1>3
  <2>3. PICK k, m2, p2 :
          /\ k = Append(Append(j, fin), RunMarker("run_paused"))
          /\ m2 = [man[r] EXCEPT !.step = man[r].step + 1, !.status = "paused"]
          /\ ChangedFor(r, journal, journal', k) /\ ChangedFor(r, man, man', m2)
          /\ ChangedFor(r, proc, proc', p2)
    BY <1>5, <2>1, <2>2
  <2>4. m2 \in Manifests /\ m2.origin = man[r].origin /\ m2.floor = man[r].floor
    BY <1>4, <2>2, <2>3
  <2>. QED  BY <2>2, <2>3, <2>4
<1>8. CASE GoOn(r, fin) /\ proc[r] # "one"
  <2>. DEFINE k  == Append(j, fin)
              m2 == [man[r] EXCEPT !.step = man[r].step + 1]
  <2>1. j \o <<fin>> = k
    BY LoggedIs
  <2>2. journal' = [journal EXCEPT ![r] = k] /\ man' = [man EXCEPT ![r].step = @ + 1] /\ proc' = proc
    BY <1>8, <2>1 DEF GoOn, Log
  <2>3. m2 \in Manifests /\ m2.origin = man[r].origin /\ m2.floor = man[r].floor
    BY <1>2 DEF Manifests
  <2>4. DOMAIN man' = Runs /\ man'[r] = m2 /\ \A x \in Runs : x # r => man'[x] = man[x]
    BY <1>1, <2>2
  <2>5. ChangedFor(r, man, man', m2)
    BY <2>4 DEF ChangedFor
  <2>6. ChangedFor(r, proc, proc', proc[r])
    BY <1>1, <2>2 DEF ChangedFor
  <2>. HIDE DEF k, m2
  <2>7. ChangedFor(r, journal, journal', k)
    BY <1>1, <2>2 DEF ChangedFor
  <2>. QED  BY <1>3, <2>3, <2>5, <2>6, <2>7 DEF k
<1>. QED  BY <1>6, <1>7, <1>8

\* The end of a node, whatever it did.
LEMMA FinishKeeps ==
  ASSUME NEW r \in Runs, ForkAssumption, ForkInv, There(r), IsOpen(journal[r]),
         SnapSeq(r) \in DOMAIN snaps[r],
         NEW s \in {"ok", "failed"}, NEW x \in Successors, NEW u \in Nat, NEW fin,
         fin = NodeFinished(OpenNode(r), OpenTry(r), s, x, u, "accepted"),
         NEW status \in {"failed", "completed"}, GoOn(r, fin) \/ EndRun(r, fin, status),
         NEW b \in Boards, ChangedFor(r, board, board', b),
         NEW p \in Nat, ChangedFor(r, planFile, planFile', p),
         NEW t \in [TreeFiles -> Nat], ChangedFor(r, files, files', t),
         \A y \in TreeFiles : files[r][y] <= t[y],
         bank' = bank + u, ChangedFor(r, worth, worth', worth[r] + u),
         gaveUp' = {}, UNCHANGED <<snaps, cmd, worthAt, copied>>
  PROVE  OneRun(r)
<1>. DEFINE j  == journal[r]
            m  == man[r]
            sn == snaps[r]
            wa == worthAt[r]
<1>1. /\ Shaped
      /\ JournalOK(j) /\ j \in Seq(Record) /\ IsASequence(j) /\ Len(j) \in Nat
      /\ m \in Manifests /\ m # None
      /\ \A i \in DOMAIN sn : sn[i] \in Snapshots
      /\ SnapsOK(OwnOf(m), j, DOMAIN sn, DOMAIN wa)
      /\ MoneyOK(m, j, wa, worth[r])
      /\ DOMAIN wa \subseteq Ones(j) /\ Inherited(m) \in Nat
      /\ worth[r] \in Nat /\ bank \in Nat
      /\ m.origin # None => /\ FirstOK(m.origin, Given(r), j, m.step, board[r], sn)
                            /\ OwnOf(m) = m.origin.start
                            /\ m.origin.start \in Nat /\ m.origin.start <= Len(j)
  BY RunFacts
<1>2. AttemptOneSeq(j, j[Len(j)].node) \in DOMAIN sn
  BY DEF SnapSeq, OpenNode
<1>3. PICK k, m2, p2 :
        /\ \E e \in RunEvents : \/ k = Append(j, fin)
                                \/ k = Append(Append(j, fin), RunMarker(e))
        /\ m2 \in Manifests /\ m2.origin = m.origin /\ m2.floor = m.floor
        /\ ChangedFor(r, journal, journal', k) /\ ChangedFor(r, man, man', m2)
        /\ ChangedFor(r, proc, proc', p2)
  BY <1>1, ClosingIs
<1>4. "accepted" \in Notes
  BY DEF Notes
<1>5. fin = NodeFinished(j[Len(j)].node, j[Len(j)].attempt, s, x, u, "accepted")
  BY DEF OpenNode, OpenTry
<1>. HIDE DEF j, m, sn, wa
<1>6. /\ JournalOK(k) /\ Follows(j, k) /\ Len(j) < Len(k) /\ StartedAt(k) = StartedAt(j)
      /\ Len(j) + 1 \in FinishedAt(k) /\ ~ Interrupted(k[Len(j) + 1]) /\ ~ Again(k)
      /\ SnapsOK(OwnOf(m), k, DOMAIN sn, DOMAIN wa) /\ MoneyOK(m, k, wa, worth[r] + u)
  <2>1. IsOpen(j)
    BY DEF j
  <2>2. PICK e \in RunEvents : \/ k = Append(j, fin)
                               \/ k = Append(Append(j, fin), RunMarker(e))
    BY <1>3
  <2>3. Finishes(j, k, u)
    <3>1. fin \in Record
      <4>1. j[Len(j)].node \in Names /\ j[Len(j)].attempt \in Nat
        BY <1>1, <2>1, OpenIs
      <4>2. s \in Statuses
        BY DEF Statuses
      <4>. QED  BY <1>4, <1>5, <4>1, <4>2, FinishesAreRecords
    <3>. QED  BY <1>4, <1>5, <2>2, <3>1 DEF Finishes
  <2>. QED  BY <1>1, <1>2, <2>1, <2>3, FinishedIs
<1>7. m.origin # None => FirstOK(m.origin, Given(r), k, m2.step, b, sn)
  <2>1. IsOpen(j)
    BY DEF j
  <2>. QED  BY <1>1, <1>2, <1>6, <2>1, FirstFinished
<1>8. /\ man'[r] = m2 /\ journal'[r] = k /\ snaps'[r] = sn /\ files'[r] = t
      /\ worthAt'[r] = wa /\ worth'[r] = worth[r] + u /\ board'[r] = b
      /\ planFile'[r] = p
  BY <1>3 DEF ChangedFor, sn, wa
<1>9. RunOf(r)'
  <2>1. OwnOf(m2) = OwnOf(m) /\ Inherited(m2) = Inherited(m)
    BY <1>3 DEF OwnOf, Inherited
  <2>2. MoneyOK(m2, k, wa, worth[r] + u)
    BY <1>6, <2>1 DEF MoneyOK
  <2>3. RunOK(m2, k, sn, t, wa, worth[r] + u)
    BY <1>1, <1>3, <1>6, <2>1, <2>2 DEF RunOK
  <2>. QED  BY <1>8, <2>3 DEF RunOf
<1>10. GoesOn(r)
  <2>1. Kept(sn, sn) /\ Kept(wa, wa)
    BY DEF Kept
  <2>2. m2 # None
    BY <1>3 DEF ForkAssumption
  <2>. QED  BY <1>3, <1>6, <1>8, <2>1, <2>2 DEF GoesOn, m, j, wa, sn
<1>11. Shaped' /\ \A y \in Runs : y # r => SameRun(y)
  BY <1>1, <1>3 DEF Shaped, SameRun, ChangedFor
<1>12. bank' \in Nat /\ bank' + worth[r] = bank + worth'[r]
  BY <1>1, <1>8
<1>. QED  BY <1>6, <1>7, <1>8, <1>9, <1>10, <1>11, <1>12 DEF OneRun, m

\* A fork's first visit asks its agent once more.
LEMMA AsksOnceMore ==
  ASSUME NEW r \in Runs, ForkAssumption, ForkInv, There(r), IsOpen(journal[r]),
         SnapSeq(r) \in DOMAIN snaps[r], OpenNode(r) = "fix",
         snaps[r][SnapSeq(r)].board.attempts >= GiveUpFor(r)
  PROVE  ~ FirstOfFork(r)
<1>. DEFINE j == journal[r]
            o == man[r].origin
            g == Given(r).board
<1>1. /\ JournalOK(j)
      /\ o # None => /\ FirstOK(o, Given(r), j, man[r].step, board[r], snaps[r])
                     /\ man[r].floor = IF o.node = "fix" /\ g.attempts >= GiveUp
                                         THEN g.attempts + 1 ELSE 0
                     /\ g \in Boards
  BY RunFacts
<1>. SUFFICES ASSUME FirstOfFork(r)
              PROVE  FALSE
  OBVIOUS
<1>2. o # None /\ FirstIn(o, j)
  BY DEF FirstOfFork, FirstIn
<1>3. /\ ResolveStart(j).node = o.node
      /\ snaps[r][SnapSeq(r)].board = g
  BY <1>1, <1>2 DEF FirstOK
<1>4. ResolveStart(j).node = "fix"
  <2>1. ResolveStart(j).node = j[Len(j)].node
    BY <1>1, OpenIs
  <2>. QED  BY <2>1 DEF OpenNode
<1>5. g.attempts \in Nat /\ GiveUp \in Nat
  BY <1>1, <1>2 DEF Boards, ForkAssumption
<1>6. man[r].floor = IF g.attempts >= GiveUp THEN g.attempts + 1 ELSE 0
  BY <1>1, <1>2, <1>3, <1>4
<1>7. g.attempts >= GiveUpFor(r)
  BY <1>3
<1>. HIDE DEF g
<1>. QED  BY <1>5, <1>6, <1>7 DEF GiveUpFor

LEMMA RunNodeKeeps ==
  ASSUME NEW r \in Runs, ForkAssumption, ForkInv, RunNode(r)
  PROVE  OneRun(r)
<1>. DEFINE n     == OpenNode(r)
            given == snaps[r][SnapSeq(r)].board
            Finished(s, x, u) == NodeFinished(n, OpenTry(r), s, x, u, "accepted")
            Edited == {files[r]} \cup {[files[r] EXCEPT ![f] = @ + 1] : f \in Worked}
<1>1. There(r)
  BY DrivenIsThere DEF RunNode
<1>2. /\ IsOpen(journal[r]) /\ SnapSeq(r) \in DOMAIN snaps[r]
      /\ UNCHANGED <<snaps, cmd, worthAt, copied>>
  BY DEF RunNode
<1>3. /\ Shaped /\ gaveUp = {} /\ planFile[r] \in Nat /\ files[r] \in [TreeFiles -> Nat]
      /\ \A i \in DOMAIN snaps[r] : snaps[r][i] \in Snapshots
      /\ worth[r] \in Nat /\ board[r] \in Boards /\ bank \in Nat
  BY <1>1, RunFacts
<1>4. given \in Boards /\ given.attempts \in Nat /\ given.plan \in Nat
  <2>1. snaps[r][SnapSeq(r)] \in Snapshots
    BY <1>2, <1>3
  <2>. QED  BY <2>1 DEF Snapshots, Boards
<1>5. /\ DOMAIN board = Runs /\ DOMAIN planFile = Runs /\ DOMAIN files = Runs /\ DOMAIN worth = Runs
  BY <1>3 DEF Shaped
<1>6. /\ {"code", "fix", NoNode, End} \subseteq Successors
  BY DEF ForkAssumption, Successors
<1>7. Price(n) \in Nat
  BY DEF Price
<1>8. ASSUME NEW t \in Edited
      PROVE  t \in [TreeFiles -> Nat] /\ \A f \in TreeFiles : files[r][f] <= t[f]
  <2>1. CASE t = files[r]
    BY <1>3, <2>1
  <2>2. CASE t # files[r]
    <3>1. PICK f \in Worked : t = [files[r] EXCEPT ![f] = @ + 1]
      BY <2>2
    <3>2. f \in TreeFiles
      BY DEF ForkAssumption
    <3>. QED  BY <1>3, <3>1, <3>2
  <2>. QED  BY <2>1, <2>2
<1>9. files[r] \in Edited
  OBVIOUS
<1>10. [given EXCEPT !.plan = planFile[r] + 1] \in Boards
       /\ [given EXCEPT !.attempts = @ + 1] \in Boards
  <2>. HIDE DEF given
  <2>. QED  BY <1>3, <1>4 DEF Boards
<1>11. \A v : /\ board' = [board EXCEPT ![r] = v] => ChangedFor(r, board, board', v)
              /\ planFile' = [planFile EXCEPT ![r] = v] => ChangedFor(r, planFile, planFile', v)
              /\ files' = [files EXCEPT ![r] = v] => ChangedFor(r, files, files', v)
              /\ worth' = [worth EXCEPT ![r] = v] => ChangedFor(r, worth, worth', v)
  BY <1>5 DEF ChangedFor
<1>12. /\ board' = board => ChangedFor(r, board, board', board[r])
       /\ planFile' = planFile => ChangedFor(r, planFile, planFile', planFile[r])
       /\ files' = files => ChangedFor(r, files, files', files[r])
       /\ worth' = worth => ChangedFor(r, worth, worth', worth[r] + 0)
  BY <1>3, <1>5 DEF ChangedFor
<1>13. \A u : Pay(r, u) => bank' = bank + u /\ ChangedFor(r, worth, worth', worth[r] + u)
  BY <1>11 DEF Pay
<1>14. ASSUME NEW u \in Nat, Pay(r, u), NEW x \in Successors, NEW status \in {"failed", "completed"},
              GoOn(r, Finished("ok", x, u)) \/ EndRun(r, Finished("ok", x, u), status),
              NEW b \in Boards, board' = [board EXCEPT ![r] = b],
              NEW p \in Nat, ChangedFor(r, planFile, planFile', p),
              NEW t \in Edited, ChangedFor(r, files, files', t), gaveUp' = gaveUp
       PROVE  OneRun(r)
  <2>1. bank' = bank + u /\ ChangedFor(r, worth, worth', worth[r] + u)
    BY <1>13, <1>14
  <2>2. ChangedFor(r, board, board', b)
    BY <1>11, <1>14
  <2>3. t \in [TreeFiles -> Nat] /\ \A f \in TreeFiles : files[r][f] <= t[f]
    BY <1>8
  <2>4. gaveUp' = {}
    BY <1>3, <1>14
  <2>. HIDE DEF given, Edited
  <2>5. "ok" \in {"ok", "failed"}
    OBVIOUS
  <2>6. ChangedFor(r, planFile, planFile', p) /\ ChangedFor(r, files, files', t)
    BY <1>14
  <2>. DEFINE fin == Finished("ok", x, u)
  <2>7. GoOn(r, fin) \/ EndRun(r, fin, status)
    BY <1>14
  <2>8. fin = NodeFinished(OpenNode(r), OpenTry(r), "ok", x, u, "accepted")
    OBVIOUS
  <2>. HIDE DEF fin
  <2>. QED  BY <1>1, <1>2, <2>1, <2>2, <2>3, <2>4, <2>5, <2>6, <2>7, <2>8, FinishKeeps
<1>15. CASE n = "plan"
  <2>1. /\ planFile' = [planFile EXCEPT ![r] = @ + 1]
        /\ board' = [board EXCEPT ![r] = [given EXCEPT !.plan = planFile[r] + 1]]
        /\ GoOn(r, Finished("ok", "code", Price(n))) /\ Pay(r, Price(n))
        /\ UNCHANGED <<files, gaveUp>>
    BY <1>15 DEF RunNode
  <2>2. planFile' = [planFile EXCEPT ![r] = planFile[r] + 1] /\ planFile[r] + 1 \in Nat
    BY <1>3, <2>1
  <2>. HIDE DEF given, Edited, Finished, n
  <2>. QED  BY <1>6, <1>7, <1>9, <1>10, <1>11, <1>12, <1>14, <2>1, <2>2
<1>16. CASE n = "code"
  <2>1. /\ board' = [board EXCEPT ![r] = given]
        /\ \E edited \in Edited \ {files[r]} : files' = [files EXCEPT ![r] = edited]
        /\ GoOn(r, Finished("ok", "fix", Price(n))) /\ Pay(r, Price(n))
        /\ UNCHANGED <<planFile, gaveUp>>
    BY <1>16 DEF RunNode
  <2>. HIDE DEF given, Edited, Finished, n
  <2>. QED  BY <1>3, <1>4, <1>6, <1>7, <1>11, <1>12, <1>14, <2>1
<1>17. CASE n = "fix" /\ given.attempts >= GiveUpFor(r)
  <2>1. /\ EndRun(r, Finished("failed", NoNode, 0), "failed")
        /\ gaveUp' = IF FirstOfFork(r) THEN gaveUp \cup {r} ELSE gaveUp
        /\ UNCHANGED <<board, files, planFile, bank, worth>>
    BY <1>17 DEF RunNode
  <2>2. gaveUp' = {}
    BY <1>1, <1>2, <1>3, <1>17, <2>1, AsksOnceMore
  <2>3. bank' = bank + 0 /\ 0 \in Nat
    BY <1>3, <2>1
  <2>4. files[r] \in [TreeFiles -> Nat] /\ \A y \in TreeFiles : files[r][y] <= files[r][y]
    BY <1>3
  <2>. DEFINE fin == Finished("failed", NoNode, 0)
  <2>5. GoOn(r, fin) \/ EndRun(r, fin, "failed")
    BY <2>1
  <2>6. fin = NodeFinished(OpenNode(r), OpenTry(r), "failed", NoNode, 0, "accepted")
    OBVIOUS
  <2>7. /\ "failed" \in {"ok", "failed"} /\ "failed" \in {"failed", "completed"}
        /\ NoNode \in Successors
    BY <1>6
  <2>8. /\ ChangedFor(r, board, board', board[r]) /\ ChangedFor(r, planFile, planFile', planFile[r])
        /\ ChangedFor(r, files, files', files[r]) /\ ChangedFor(r, worth, worth', worth[r] + 0)
    BY <1>12, <2>1
  <2>. HIDE DEF fin
  <2>. QED  BY <1>1, <1>2, <1>3, <2>2, <2>3, <2>4, <2>5, <2>6, <2>7, <2>8, FinishKeeps
<1>18. CASE n # "plan" /\ n # "code" /\ ~ (n = "fix" /\ given.attempts >= GiveUpFor(r))
  <2>1. /\ board' = [board EXCEPT ![r] = [given EXCEPT !.attempts = @ + 1]]
        /\ \E edited \in Edited : files' = [files EXCEPT ![r] = edited]
        /\ \/ GoOn(r, Finished("ok", "fix", Price(n)))
           \/ EndRun(r, Finished("ok", End, Price(n)), "completed")
        /\ Pay(r, Price(n))
        /\ UNCHANGED <<planFile, gaveUp>>
    BY <1>18 DEF RunNode
  <2>. HIDE DEF given, Edited, Finished, n
  <2>. QED  BY <1>3, <1>6, <1>7, <1>10, <1>11, <1>12, <1>14, <2>1
<1>. QED  BY <1>15, <1>16, <1>17, <1>18

\* A run that is stopped, or taken up again, between nodes or within one.
LEMMA CutKeeps ==
  ASSUME NEW r \in Runs, ForkAssumption, ForkInv, There(r), NEW e \in RunEvents,
         IF IsOpen(journal[r])
           THEN Log(r, <<Lost(r), RunMarker(e)>>) /\ Pay(r, CutShort)
           ELSE Log(r, <<RunMarker(e)>>) /\ UNCHANGED <<bank, worth>>,
         NEW status \in {"running", "paused", "completed", "failed"},
         man' = [man EXCEPT ![r].status = status],
         NEW p, proc' = [proc EXCEPT ![r] = p],
         UNCHANGED <<snaps, board, files, planFile, cmd, worthAt, copied, gaveUp>>
  PROVE  OneRun(r)
<1>. DEFINE j  == journal[r]
            m  == man[r]
            sn == snaps[r]
            wa == worthAt[r]
            m2 == [m EXCEPT !.status = status]
<1>1. /\ Shaped /\ gaveUp = {}
      /\ JournalOK(j) /\ j \in Seq(Record) /\ IsASequence(j) /\ Len(j) \in Nat
      /\ board[r] \in Boards /\ planFile[r] \in Nat
      /\ m \in Manifests /\ m # None /\ files[r] \in [TreeFiles -> Nat]
      /\ \A i \in DOMAIN sn : sn[i] \in Snapshots
      /\ SnapsOK(OwnOf(m), j, DOMAIN sn, DOMAIN wa)
      /\ MoneyOK(m, j, wa, worth[r])
      /\ DOMAIN wa \subseteq Ones(j) /\ Inherited(m) \in Nat
      /\ worth[r] \in Nat /\ bank \in Nat
      /\ m.origin # None => /\ FirstOK(m.origin, Given(r), j, m.step, board[r], sn)
                            /\ m.origin.start \in Nat /\ m.origin.start <= Len(j)
  BY RunFacts
<1>2. PICK k, u : /\ u \in Nat /\ Cuts(j, k, u)
                  /\ journal' = [journal EXCEPT ![r] = k]
                  /\ bank' = bank + u /\ ChangedFor(r, worth, worth', worth[r] + u)
  <2>1. CASE IsOpen(j)
    <3>. DEFINE k == Append(Append(j, Lost(r)), RunMarker(e))
    <3>1. Log(r, <<Lost(r), RunMarker(e)>>) /\ Pay(r, CutShort)
      BY <2>1
    <3>2. journal' = [journal EXCEPT ![r] = k]
      <4>1. j \o <<Lost(r), RunMarker(e)>> = k
        BY <1>1, LoggedIs
      <4>. QED  BY <3>1, <4>1 DEF Log
    <3>3. "crashed" \in Notes /\ CutShort \in Nat
      BY DEF Notes, CutShort
    <3>4. k = Append(Append(j, InterruptedAttempt(j[Len(j)].node, j[Len(j)].attempt, CutShort, "crashed")), RunMarker(e))
      BY DEF Lost, OpenNode, OpenTry
    <3>. HIDE DEF k
    <3>5. Cuts(j, k, CutShort)
      BY <2>1, <3>3, <3>4 DEF Cuts, IsCut
    <3>6. bank' = bank + CutShort /\ ChangedFor(r, worth, worth', worth[r] + CutShort)
      BY <1>1, <3>1 DEF Pay, ChangedFor, Shaped
    <3>. QED  BY <3>2, <3>3, <3>5, <3>6
  <2>2. CASE ~ IsOpen(j)
    <3>. DEFINE k == Append(j, RunMarker(e))
    <3>1. Log(r, <<RunMarker(e)>>) /\ UNCHANGED <<bank, worth>>
      BY <2>2
    <3>2. journal' = [journal EXCEPT ![r] = k]
      <4>1. j \o <<RunMarker(e)>> = k
        BY <1>1, LoggedIs
      <4>. QED  BY <3>1, <4>1 DEF Log
    <3>3. "crashed" \in Notes /\ 0 \in Nat
      BY DEF Notes
    <3>4. Cuts(j, k, 0)
      BY <2>2, <3>3 DEF Cuts, IsCut
    <3>5. bank' = bank + 0 /\ ChangedFor(r, worth, worth', worth[r] + 0)
      BY <1>1, <3>1 DEF ChangedFor, Shaped
    <3>. QED  BY <3>2, <3>3, <3>4, <3>5
  <2>. QED  BY <2>1, <2>2
<1>3. m2 \in Manifests /\ m2.origin = m.origin /\ m2.floor = m.floor /\ m2.step = m.step
  BY <1>1 DEF Manifests
<1>4. ChangedFor(r, man, man', m2) /\ ChangedFor(r, journal, journal', k)
  <2>1. DOMAIN man = Runs /\ DOMAIN journal = Runs
    BY <1>1 DEF Shaped
  <2>2. DOMAIN man' = Runs /\ man'[r] = m2 /\ \A x \in Runs : x # r => man'[x] = man[x]
    BY <2>1
  <2>. QED  BY <1>2, <2>1, <2>2 DEF ChangedFor
<1>. HIDE DEF m2
<1>5. JournalOK(k) /\ Held(j, k) /\ SnapsOK(OwnOf(m), k, DOMAIN sn, DOMAIN wa)
      /\ MoneyOK(m, k, wa, worth[r] + u)
  BY <1>1, <1>2, CutIs
<1>. HIDE DEF j, m, sn, wa
<1>6. m.origin # None => FirstOK(m.origin, Given(r), k, m.step, board[r], sn)
  BY <1>1, <1>5, FirstHeld
<1>7. /\ man'[r] = m2 /\ journal'[r] = k /\ snaps'[r] = sn /\ files'[r] = files[r]
      /\ worthAt'[r] = wa /\ worth'[r] = worth[r] + u /\ board'[r] = board[r]
      /\ planFile'[r] = planFile[r]
  BY <1>2, <1>4 DEF ChangedFor, sn, wa
<1>8. RunOf(r)'
  <2>1. OwnOf(m2) = OwnOf(m) /\ Inherited(m2) = Inherited(m)
    BY <1>3 DEF OwnOf, Inherited
  <2>2. MoneyOK(m2, k, wa, worth[r] + u)
    BY <1>5, <2>1 DEF MoneyOK
  <2>3. RunOK(m2, k, sn, files[r], wa, worth[r] + u)
    BY <1>1, <1>3, <1>5, <2>1, <2>2 DEF RunOK
  <2>. QED  BY <1>7, <2>3 DEF RunOf
<1>9. GoesOn(r)
  <2>1. Kept(sn, sn) /\ Kept(wa, wa)
    BY DEF Kept
  <2>2. m2 # None
    BY <1>3 DEF ForkAssumption
  <2>3. \A x \in TreeFiles : files[r][x] <= files'[r][x]
    BY <1>1, <1>7
  <2>. QED  BY <1>3, <1>5, <1>7, <2>1, <2>2, <2>3 DEF GoesOn, Held, m, j, wa, sn
<1>10. Shaped' /\ \A y \in Runs : y # r => SameRun(y)
  BY <1>1, <1>2, <1>4 DEF Shaped, SameRun, ChangedFor
<1>11. bank' \in Nat /\ bank' + worth[r] = bank + worth'[r]
  BY <1>1, <1>2, <1>7
<1>12. gaveUp' = {}
  BY <1>1
<1>. QED  BY <1>1, <1>3, <1>5, <1>6, <1>7, <1>8, <1>9, <1>10, <1>11, <1>12 DEF OneRun, m

LEMMA StopKeeps ==
  ASSUME NEW r \in Runs, ForkAssumption, ForkInv, Stop(r)
  PROVE  OneRun(r)
<1>1. There(r)
  BY DrivenIsThere DEF Stop
<1>2. "run_paused" \in RunEvents /\ "paused" \in {"running", "paused", "completed", "failed"}
  BY DEF RunEvents
<1>. QED  BY <1>1, <1>2, CutKeeps DEF Stop

LEMMA ResumeKeeps ==
  ASSUME NEW r \in Runs, ForkAssumption, ForkInv, ResumeRun(r)
  PROVE  OneRun(r)
<1>1. There(r)
  BY DEF ResumeRun, There
<1>2. "run_resumed" \in RunEvents /\ "running" \in {"running", "paused", "completed", "failed"}
  BY DEF RunEvents
<1>. QED  BY <1>1, <1>2, CutKeeps DEF ResumeRun

\* A run whose files are touched, or whose process dies.
LEMMA StandingKeeps ==
  ASSUME NEW r \in Runs, ForkAssumption, ForkInv, There(r),
         NEW t \in [TreeFiles -> Nat], ChangedFor(r, files, files', t),
         \A x \in TreeFiles : files[r][x] <= t[x],
         NEW p \in Nat, ChangedFor(r, planFile, planFile', p),
         NEW d, ChangedFor(r, proc, proc', d),
         UNCHANGED <<man, journal, snaps, board, cmd, bank, worth, worthAt, copied, gaveUp>>
  PROVE  OneRun(r)
<1>1. /\ Shaped /\ gaveUp = {} /\ JournalOK(journal[r])
      /\ board[r] \in Boards /\ man[r] # None /\ worth[r] \in Nat /\ bank \in Nat
      /\ man[r].origin # None =>
           FirstOK(man[r].origin, Given(r), journal[r], man[r].step, board[r], snaps[r])
  BY RunFacts
<1>2. RunOK(man[r], journal[r], snaps[r], files[r], worthAt[r], worth[r])
  BY DEF ForkInv, RunInv
<1>3. RunOf(r)'
  <2>1. RunOK(man[r], journal[r], snaps[r], t, worthAt[r], worth[r])
    BY <1>2 DEF RunOK
  <2>2. files'[r] = t
    BY DEF ChangedFor
  <2>. QED  BY <2>1, <2>2 DEF RunOf
<1>4. GoesOn(r)
  <2>1. Kept(snaps[r], snaps[r]) /\ Kept(worthAt[r], worthAt[r])
    BY DEF Kept
  <2>2. Follows(journal[r], journal[r])
    BY <1>1, FollowsItself
  <2>. QED  BY <1>1, <2>1, <2>2 DEF GoesOn, ChangedFor
<1>5. Shaped' /\ \A y \in Runs : y # r => SameRun(y)
  BY <1>1 DEF Shaped, SameRun, ChangedFor
<1>6. planFile'[r] \in Nat
  BY DEF ChangedFor
<1>7. /\ journal'[r] = journal[r] /\ board'[r] = board[r] /\ man'[r] = man[r] /\ snaps'[r] = snaps[r]
      /\ gaveUp' = {} /\ bank' = bank /\ worth'[r] = worth[r]
  BY <1>1
<1>. QED  BY <1>1, <1>3, <1>4, <1>5, <1>6, <1>7 DEF OneRun

LEMMA DieKeeps ==
  ASSUME NEW r \in Runs, ForkAssumption, ForkInv, RunDies(r)
  PROVE  OneRun(r)
<1>1. There(r)
  BY DrivenIsThere DEF RunDies
<1>2. Shaped /\ files[r] \in [TreeFiles -> Nat] /\ planFile[r] \in Nat
  BY <1>1, RunFacts
<1>3. ChangedFor(r, proc, proc', "none")
  BY <1>2 DEF RunDies, Shaped, ChangedFor
<1>4. ChangedFor(r, files, files', files[r]) /\ ChangedFor(r, planFile, planFile', planFile[r])
  BY <1>2 DEF RunDies, runDirs, Shaped, ChangedFor
<1>5. UNCHANGED <<man, journal, snaps, board, cmd, bank, worth, worthAt, copied, gaveUp>>
  BY DEF RunDies, runDirs, forkHist
<1>6. \A x \in TreeFiles : files[r][x] <= files[r][x]
  BY <1>2
<1>. QED  BY <1>1, <1>2, <1>3, <1>4, <1>5, <1>6, StandingKeeps

LEMMA EditKeeps ==
  ASSUME NEW r \in Runs, ForkAssumption, ForkInv, EditRun(r)
  PROVE  OneRun(r)
<1>1. There(r)
  BY DEF EditRun, There
<1>2. Shaped /\ files[r] \in [TreeFiles -> Nat] /\ planFile[r] \in Nat
  BY <1>1, RunFacts
<1>3. UNCHANGED <<man, journal, snaps, board, cmd, bank, worth, worthAt, copied, gaveUp>>
  BY DEF EditRun, forkHist
<1>4. ChangedFor(r, proc, proc', proc[r])
  BY <1>2 DEF EditRun, Shaped, ChangedFor
<1>5. CASE \E f \in DOMAIN files[r] : files' = [files EXCEPT ![r][f] = @ + 1] /\ UNCHANGED planFile
  <2>1. PICK f \in TreeFiles : files' = [files EXCEPT ![r][f] = @ + 1] /\ UNCHANGED planFile
    BY <1>2, <1>5
  <2>. DEFINE t == [files[r] EXCEPT ![f] = @ + 1]
  <2>2. t \in [TreeFiles -> Nat] /\ \A x \in TreeFiles : files[r][x] <= t[x]
    BY <1>2
  <2>3. ChangedFor(r, files, files', t)
    BY <1>2, <2>1 DEF Shaped, ChangedFor
  <2>4. ChangedFor(r, planFile, planFile', planFile[r])
    BY <1>2, <2>1 DEF Shaped, ChangedFor
  <2>. HIDE DEF t
  <2>. QED  BY <1>1, <1>2, <1>3, <1>4, <2>2, <2>3, <2>4, StandingKeeps
<1>6. CASE planFile[r] > 0 /\ planFile' = [planFile EXCEPT ![r] = @ + 1] /\ UNCHANGED files
  <2>1. planFile[r] + 1 \in Nat /\ ChangedFor(r, planFile, planFile', planFile[r] + 1)
    BY <1>2, <1>6 DEF Shaped, ChangedFor
  <2>2. ChangedFor(r, files, files', files[r]) /\ \A x \in TreeFiles : files[r][x] <= files[r][x]
    BY <1>2, <1>6 DEF Shaped, ChangedFor
  <2>. QED  BY <1>1, <1>2, <1>3, <1>4, <2>1, <2>2, StandingKeeps
<1>. QED  BY <1>5, <1>6 DEF EditRun

(***************************************************************************)
(* The steps of the command.                                               *)
(***************************************************************************)
\* Those that write nothing.
LEMMA CmdOnlyKeeps ==
  ASSUME ForkInv, UNCHANGED <<runDirs, proc, forkHist>>, CmdInv'
  PROVE  ForkInv'
<1>. USE DEF runDirs, forkHist
<1>1. ShapeInv'
  BY DEF ForkInv, ShapeInv, There
<1>2. AnyInv'
  BY DEF ForkInv, AnyInv
<1>3. RunInv'
  BY DEF ForkInv, RunInv, There
<1>4. LinkInv'
  BY DEF ForkInv, LinkInv, There
<1>5. BankInv'
  <2>1. Made' = Made
    BY DEF Made
  <2>2. \A r \in Runs : Charged(r)' = Charged(r)
    BY DEF Charged
  <2>3. UNION {{r} \X Charged(r)' : r \in Made \cup {ForkSource}} = UNION {{r} \X Charged(r) : r \in Made \cup {ForkSource}}
    BY DEF Charged
  <2>. QED  BY <2>1, <2>3 DEF ForkInv, BankInv
<1>. QED  BY <1>1, <1>2, <1>3, <1>4, <1>5 DEF ForkInv

LEMMA IdleIs ==
  ASSUME cmd' = NoCommand
  PROVE  CmdInv'
BY DEF NoCommand, CmdInv, AskedInv, ReadInv, MakingInv, CopyInv, Read, Making

\* What there is to know of the source, and of the copy.
LEMMA ReadFacts ==
  ASSUME ForkAssumption, ForkInv, cmd.pc \in Read
  PROVE  LET s == cmd.src
         IN  /\ ReadFields \subseteq DOMAIN cmd
             /\ s \in Runs /\ There(s)
             /\ ReadOK(cmd.visit, cmd.snap, cmd.prefix, cmd.inherited, journal[s], snaps[s], worthAt[s])
             /\ IsPartTree(cmd.digest)
             /\ \A x \in DOMAIN cmd.digest : cmd.digest[x] <= files[s][x]
             /\ files[s] \in [TreeFiles -> Nat] /\ planFile[s] \in Nat /\ JournalOK(journal[s])
             /\ cmd.snap \in Snapshots
<1>1. ReadInv
  BY DEF ForkInv, CmdInv
<1>2. cmd.src \in Runs /\ There(cmd.src)
  BY <1>1 DEF ReadInv
<1>3. RunOK(man[cmd.src], journal[cmd.src], snaps[cmd.src], files[cmd.src], worthAt[cmd.src], worth[cmd.src])
  BY <1>2 DEF ForkInv, RunInv
<1>4. planFile[cmd.src] \in Nat /\ JournalOK(journal[cmd.src])
  BY <1>2 DEF ForkInv, AnyInv, AnyOK
<1>. QED  BY <1>1, <1>3, <1>4 DEF ReadInv, RunOK, ReadOK

LEMMA MakingFacts ==
  ASSUME ForkAssumption, ForkInv, cmd.pc \in Making
  PROVE  LET f == cmd.fork
         IN  /\ MakingFields \subseteq DOMAIN cmd
             /\ f \in Forks /\ ~ There(f) /\ f \in Runs /\ f # ForkSource /\ f # cmd.src
             /\ DOMAIN cmd.digest = TreeFiles
             /\ cmd.changed = FilesChanged
             /\ cmd.visit.node = "code" => cmd.plan = cmd.snap.board.plan
             /\ cmd.plan \in Nat /\ cmd.floor = noteGiveUp
             /\ cmd.pc \in Read
<1>1. MakingInv
  BY DEF ForkInv, CmdInv
<1>2. cmd.pc \in Read
  BY DEF Read
<1>3. There(cmd.src)
  BY <1>2, ReadFacts
<1>. QED  BY <1>1, <1>2, <1>3 DEF MakingInv, Runs, ForkAssumption

LEMMA RefuseKeeps ==
  ASSUME ForkInv, RefuseFork
  PROVE  ForkInv'
BY IdleIs, CmdOnlyKeeps DEF RefuseFork, Continue

LEMMA CommandDiesKeeps ==
  ASSUME ForkInv, CommandDies
  PROVE  ForkInv'
BY IdleIs, CmdOnlyKeeps DEF CommandDies

LEMMA AskForkKeeps ==
  ASSUME NEW s \in Runs, ForkAssumption, ForkInv, AskFork(s)
  PROVE  ForkInv'
<1>1. /\ cmd' = [pc |-> "journal", src |-> s, source |-> man[s]]
      /\ man[s] # None /\ ForkOf[s] # None /\ man[ForkOf[s]] = None /\ files[ForkOf[s]] = None
      /\ UNCHANGED <<runDirs, proc, forkHist>>
  BY DEF AskFork, Continue
<1>2. cmd'.pc = "journal" /\ cmd'.src = s /\ cmd'.source = man[s]
  BY <1>1
<1>3. ForkOf[s] \in Forks
  BY <1>1 DEF ForkAssumption
<1>4. AskedInv'
  BY <1>1, <1>2, <1>3 DEF AskedInv, There, runDirs
<1>5. CmdInv'
  BY <1>2, <1>4 DEF CmdInv, ReadInv, MakingInv, CopyInv, Read, Making
<1>. QED  BY <1>1, <1>5, CmdOnlyKeeps

\* What is read of the journal of a run that there is.
LEMMA ReadingIs ==
  ASSUME ForkAssumption, ForkInv, cmd.pc = "journal",
         NEW n, NEW ordinal, NEW v \in choose(VisitsOf(journal[cmd.src]), n, ordinal),
         HasSnapshot(cmd.src, v), startsAt(inherit(journal[cmd.src], v.start).prefix, v.node)
  PROVE  LET s   == cmd.src
             had == inherit(journal[s], v.start)
         IN  ReadOK(v, snaps[s][v.start], had.prefix, had.usage + Inherited(cmd.source),
                    journal[s], snaps[s], worthAt[s])
<1>. DEFINE s   == cmd.src
            j   == journal[s]
            vs  == VisitsOf(j)
            had == inherit(j, v.start)
<1>1. s \in Runs /\ There(s) /\ Inherited(cmd.source) = Inherited(man[s])
  BY DEF ForkInv, CmdInv, AskedInv
<1>2. JournalOK(j)
  BY <1>1 DEF ForkInv, AnyInv, AnyOK
<1>3. RunOK(man[s], j, snaps[s], files[s], worthAt[s], worth[s])
  BY <1>1 DEF ForkInv, RunInv
<1>4. PICK i \in 1 .. Len(vs) : v = vs[i]
  BY DEF choose
<1>5. VisitIn(j, v.node, v.ordinal, v.start)
  <2>1. /\ Len(vs) \in Nat
        /\ \A w \in 1 .. Len(vs) : VisitIn(j, vs[w].node, vs[w].ordinal, vs[w].start)
    BY <1>2, VisitsAreOnes
  <2>. QED  BY <1>4, <2>1
<1>6. v.start \in DOMAIN snaps[s] /\ v.start \in DOMAIN worthAt[s]
  BY <1>3 DEF HasSnapshot, RunOK, SnapsOK
<1>7. /\ had.prefix = Stripped(j, v.start)
      /\ had.usage = Cardinality(Dollars(j, v.start - 1))
  BY DEF inherit, Stripped
<1>8. worthAt[s][v.start] = Inherited(man[s]) + had.usage
  BY <1>3, <1>6, <1>7 DEF RunOK, MoneyOK
<1>9. had.usage \in Nat /\ Inherited(man[s]) \in Nat
  <2>1. v.start - 1 \in 0 .. Len(j)
    <3>1. v.start \in Ones(j)
      BY <1>5 DEF VisitIn
    <3>2. v.start \in Nat /\ v.start # 0 /\ v.start <= Len(j) /\ Len(j) \in Nat
      BY <1>2, <3>1, OnesAre
    <3>. QED  BY <3>2
  <2>2. j \in Seq(Record)
    BY <1>2 DEF JournalOK
  <2>3. had.usage \in Nat
    BY <1>7, <2>1, <2>2, DollarsFinite
  <2>4. man[s] \in Manifests
    BY <1>3 DEF RunOK
  <2>. QED  BY <2>3, <2>4 DEF Inherited, Manifests, Origins
<1>10. had.usage + Inherited(cmd.source) = worthAt[s][v.start]
  <2>. HIDE DEF had, s
  <2>. QED  BY <1>1, <1>8, <1>9
<1>. QED  BY <1>5, <1>6, <1>7, <1>10 DEF ReadOK

LEMMA ReadSourceKeeps ==
  ASSUME NEW n \in Names, NEW ordinal, ForkAssumption, ForkInv, ReadSource(n, ordinal)
  PROVE  ForkInv'
<1>. DEFINE s == cmd.src
            j == journal[s]
<1>0. cmd.pc = "journal"
  BY DEF ReadSource, CommandAt
<1>1. CASE RefuseFork
  BY <1>1, RefuseKeeps
<1>2. CASE ~ RefuseFork
  <2>1. PICK v \in choose(VisitsOf(j), n, ordinal) :
          /\ HasSnapshot(s, v)
          /\ startsAt(inherit(j, v.start).prefix, v.node)
          /\ cmd' = [pc |-> "survey", src |-> s, visit |-> v,
                     snap |-> snaps[s][v.start], prefix |-> inherit(j, v.start).prefix,
                     inherited |-> inherit(j, v.start).usage + Inherited(cmd.source),
                     digest |-> Empty]
          /\ Continue
    BY <1>2 DEF ReadSource
  <2>. DEFINE had  == inherit(j, v.start)
              paid == had.usage + Inherited(cmd.source)
  <2>2. ReadOK(v, snaps[s][v.start], had.prefix, paid, j, snaps[s], worthAt[s])
    BY <1>0, <2>1, ReadingIs
  <2>3. UNCHANGED <<runDirs, proc, forkHist>>
    BY <2>1 DEF Continue
  <2>4. s \in Runs /\ There(s) /\ ForkOf[s] \in Forks /\ ~ There(ForkOf[s]) /\ files[ForkOf[s]] = None
    BY <1>0 DEF ForkInv, CmdInv, AskedInv
  <2>. HIDE DEF had, paid
  <2>5. /\ cmd'.pc = "survey" /\ cmd'.src = s /\ cmd'.visit = v /\ cmd'.snap = snaps[s][v.start]
        /\ cmd'.prefix = had.prefix /\ cmd'.inherited = paid /\ cmd'.digest = Empty
        /\ ReadFields \subseteq DOMAIN cmd'
    BY <2>1 DEF ReadFields, had, paid
  <2>. HIDE DEF s, j
  <2>6. AskedInv'
    BY <2>3, <2>4, <2>5 DEF AskedInv, There, runDirs
  <2>7. ReadInv'
    <3>1. /\ IsPartTree(Empty) /\ DOMAIN Empty = {}
      BY EmptyIsPart
    <3>2. ReadOK(cmd'.visit, cmd'.snap, cmd'.prefix, cmd'.inherited, journal'[s], snaps'[s], worthAt'[s])
      BY <2>2, <2>3, <2>5 DEF runDirs, forkHist, j
    <3>3. man'[s] # None
      BY <2>3, <2>4 DEF There, runDirs
    <3>. QED  BY <2>4, <2>5, <3>1, <3>2, <3>3 DEF ReadInv, There
  <2>8. CmdInv'
    BY <2>5, <2>6, <2>7 DEF CmdInv, MakingInv, CopyInv, Read, Making
  <2>. QED  BY <2>3, <2>8, CmdOnlyKeeps
<1>. QED  BY <1>1, <1>2

LEMMA SurveyKeeps ==
  ASSUME ForkAssumption, ForkInv, Survey
  PROVE  ForkInv'
<1>. DEFINE s == cmd.src
            d == WithNext(cmd.digest)
<1>1. /\ cmd.pc = "survey" /\ DOMAIN cmd.digest # TreeFiles
      /\ cmd' = [cmd EXCEPT !.digest = WithNext(@)]
      /\ UNCHANGED <<runDirs, proc, forkHist>>
  BY DEF Survey, CommandAt, Continue
<1>2. /\ ReadFields \subseteq DOMAIN cmd
      /\ s \in Runs /\ There(s)
      /\ ReadOK(cmd.visit, cmd.snap, cmd.prefix, cmd.inherited, journal[s], snaps[s], worthAt[s])
      /\ IsPartTree(cmd.digest)
      /\ \A x \in DOMAIN cmd.digest : cmd.digest[x] <= files[s][x]
      /\ files[s] \in [TreeFiles -> Nat]
  BY <1>1, ReadFacts DEF Read
<1>3. /\ cmd'.pc = "survey" /\ cmd'.src = s /\ cmd'.visit = cmd.visit /\ cmd'.snap = cmd.snap
      /\ cmd'.prefix = cmd.prefix /\ cmd'.inherited = cmd.inherited /\ cmd'.digest = d
      /\ DOMAIN cmd' = DOMAIN cmd
  BY <1>1, <1>2 DEF ReadFields
<1>4. IsPartTree(d) /\ \A x \in DOMAIN d : d[x] <= files[s][x]
  <2>1. PICK f \in TreeFiles \ DOMAIN cmd.digest :
          /\ IsPartTree(d) /\ DOMAIN d = DOMAIN cmd.digest \cup {f} /\ d[f] = files[s][f]
          /\ \A x \in DOMAIN cmd.digest : d[x] = cmd.digest[x]
    BY <1>1, <1>2, WithNextIs
  <2>2. files[s][f] \in Nat
    BY <1>2
  <2>. HIDE DEF d
  <2>. QED  BY <1>2, <2>1, <2>2
<1>. HIDE DEF s, d
<1>5. AskedInv'
  <2>1. s \in Runs /\ There(s) /\ ForkOf[s] \in Forks /\ ~ There(ForkOf[s]) /\ files[ForkOf[s]] = None
    BY <1>1 DEF ForkInv, CmdInv, AskedInv, s
  <2>. QED  BY <1>1, <1>3, <2>1 DEF AskedInv, There, runDirs
<1>6. ReadInv'
  BY <1>1, <1>2, <1>3, <1>4 DEF ReadInv, There, runDirs, forkHist
<1>7. CmdInv'
  BY <1>3, <1>5, <1>6 DEF CmdInv, MakingInv, CopyInv, Read, Making
<1>. QED  BY <1>1, <1>7, CmdOnlyKeeps

LEMMA checkFilesAndPlanKeeps ==
  ASSUME NEW accept \in BOOLEAN, ForkAssumption, ForkInv, checkFilesAndPlan(accept)
  PROVE  ForkInv'
<1>. DEFINE s == cmd.src
<1>1. cmd.pc = "survey" /\ DOMAIN cmd.digest = TreeFiles
  BY DEF checkFilesAndPlan, CommandAt
<1>2. CASE RefuseFork
  BY <1>2, RefuseKeeps
<1>3. CASE ~ RefuseFork
  <2>1. /\ ~ PlanRefused /\ UNCHANGED <<runDirs, proc, forkHist>>
        /\ cmd' = [pc |-> "copy", src |-> cmd.src, visit |-> cmd.visit, snap |-> cmd.snap,
                    prefix |-> cmd.prefix, inherited |-> cmd.inherited, digest |-> cmd.digest,
                    changed |-> FilesChanged, plan |-> planFile[cmd.src], floor |-> noteGiveUp,
                    again |-> Empty, fork |-> ForkOf[cmd.src]]
    BY <1>3 DEF checkFilesAndPlan, Continue
  <2>2. /\ ReadFields \subseteq DOMAIN cmd
        /\ s \in Runs /\ There(s)
        /\ ReadOK(cmd.visit, cmd.snap, cmd.prefix, cmd.inherited, journal[s], snaps[s], worthAt[s])
        /\ IsPartTree(cmd.digest)
        /\ \A x \in DOMAIN cmd.digest : cmd.digest[x] <= files[s][x]
        /\ planFile[s] \in Nat
    BY <1>1, ReadFacts DEF Read
  <2>3. /\ cmd'.pc = "copy" /\ cmd'.src = s /\ cmd'.visit = cmd.visit /\ cmd'.snap = cmd.snap
        /\ cmd'.prefix = cmd.prefix /\ cmd'.inherited = cmd.inherited /\ cmd'.digest = cmd.digest
        /\ cmd'.changed = FilesChanged /\ cmd'.plan = planFile[s] /\ cmd'.floor = noteGiveUp
        /\ cmd'.again = Empty /\ cmd'.fork = ForkOf[s]
        /\ ReadFields \subseteq DOMAIN cmd' /\ MakingFields \subseteq DOMAIN cmd'
    BY <2>1 DEF ReadFields, MakingFields
  <2>4. ForkOf[s] \in Forks /\ ~ There(ForkOf[s]) /\ files[ForkOf[s]] = None
    BY <1>1 DEF ForkInv, CmdInv, AskedInv
  <2>. HIDE DEF s
  <2>5. ReadInv'
    BY <2>1, <2>2, <2>3 DEF ReadInv, There, runDirs, forkHist
  <2>6. FilesChanged' = FilesChanged /\ noteGiveUp' = noteGiveUp
    BY <2>3 DEF FilesChanged, noteGiveUp
  <2>7. MakingInv'
    <3>1. cmd.visit.node = "code" => planFile[s] = cmd.snap.board.plan
      BY <2>1 DEF PlanRefused, s
    <3>2. man'[ForkOf[s]] = None
      BY <2>1, <2>4 DEF There, runDirs
    <3>3. cmd'.pc \notin Copied' /\ cmd'.pc \notin {"journal file", "manifest"}
      BY <2>3 DEF Copied
    <3>. QED  BY <1>1, <2>2, <2>3, <2>4, <2>6, <3>1, <3>2, <3>3 DEF MakingInv, There
  <2>8. CopyInv'
    BY <2>1, <2>3, <2>4 DEF CopyInv, runDirs
  <2>9. AskedInv'
    BY <2>3 DEF AskedInv
  <2>10. CmdInv'
    BY <2>3, <2>5, <2>7, <2>8, <2>9 DEF CmdInv, Read, Making
  <2>. QED  BY <2>1, <2>10, CmdOnlyKeeps
<1>. QED  BY <1>2, <1>3

LEMMA SurveyAgainKeeps ==
  ASSUME ForkAssumption, ForkInv, SurveyAgain
  PROVE  ForkInv'
<1>. DEFINE s == cmd.src
            f == cmd.fork
            d == WithNext(cmd.again)
<1>1. /\ cmd.pc = "surveyAgain" /\ DOMAIN cmd.again # TreeFiles
      /\ cmd' = [cmd EXCEPT !.again = WithNext(@)]
      /\ UNCHANGED <<runDirs, proc, forkHist>>
  BY DEF SurveyAgain, CommandAt, Continue
<1>2. /\ ReadFields \subseteq DOMAIN cmd
      /\ s \in Runs /\ There(s)
      /\ ReadOK(cmd.visit, cmd.snap, cmd.prefix, cmd.inherited, journal[s], snaps[s], worthAt[s])
      /\ IsPartTree(cmd.digest)
      /\ \A x \in DOMAIN cmd.digest : cmd.digest[x] <= files[s][x]
      /\ files[s] \in [TreeFiles -> Nat]
  BY <1>1, ReadFacts DEF Read, Making
<1>3. /\ MakingFields \subseteq DOMAIN cmd
      /\ f \in Forks /\ ~ There(f)
      /\ DOMAIN cmd.digest = TreeFiles
      /\ cmd.changed = FilesChanged
      /\ cmd.visit.node = "code" => cmd.plan = cmd.snap.board.plan
      /\ cmd.plan \in Nat /\ cmd.floor = noteGiveUp
  BY <1>1, MakingFacts DEF Making
<1>4. /\ cmd'.pc = "surveyAgain" /\ cmd'.src = s /\ cmd'.visit = cmd.visit /\ cmd'.snap = cmd.snap
      /\ cmd'.prefix = cmd.prefix /\ cmd'.inherited = cmd.inherited /\ cmd'.digest = cmd.digest
      /\ cmd'.changed = cmd.changed /\ cmd'.plan = cmd.plan /\ cmd'.floor = cmd.floor
      /\ cmd'.again = d /\ cmd'.fork = f
      /\ DOMAIN cmd' = DOMAIN cmd
  BY <1>1, <1>2, <1>3 DEF ReadFields, MakingFields
<1>5. /\ files[f] \in [TreeFiles -> Nat] /\ Between(cmd.digest, files[f], files[s])
      /\ IsPartTree(cmd.again) /\ Between(files[f], cmd.again, files[s])
  BY <1>1 DEF ForkInv, CmdInv, CopyInv
<1>6. IsPartTree(d) /\ Between(files[f], d, files[s])
  <2>1. PICK x \in TreeFiles \ DOMAIN cmd.again :
          /\ IsPartTree(d) /\ DOMAIN d = DOMAIN cmd.again \cup {x} /\ d[x] = files[s][x]
          /\ \A y \in DOMAIN cmd.again : d[y] = cmd.again[y]
    BY <1>1, <1>2, <1>5, WithNextIs
  <2>2. files[s][x] \in Nat /\ files[f][x] <= files[s][x]
    BY <1>2, <1>5 DEF Between
  <2>. HIDE DEF d
  <2>. QED  BY <1>5, <2>1, <2>2 DEF Between
<1>. HIDE DEF s, f, d
<1>7. FilesChanged' = FilesChanged /\ noteGiveUp' = noteGiveUp
  BY <1>4 DEF FilesChanged, noteGiveUp
<1>8. ReadInv'
  BY <1>1, <1>2, <1>4 DEF ReadInv, There, runDirs, forkHist
<1>9. MakingInv'
  <2>1. cmd'.pc \notin Copied' /\ cmd'.pc \notin {"journal file", "manifest"}
    BY <1>4 DEF Copied
  <2>2. man'[f] = None
    BY <1>1, <1>3 DEF There, runDirs
  <2>. QED  BY <1>3, <1>4, <1>7, <2>1, <2>2 DEF MakingInv, There
<1>10. CopyInv'
  BY <1>1, <1>4, <1>5, <1>6 DEF CopyInv, runDirs
<1>11. AskedInv'
  BY <1>4 DEF AskedInv
<1>12. CmdInv'
  BY <1>4, <1>8, <1>9, <1>10, <1>11 DEF CmdInv, Read, Making
<1>. QED  BY <1>1, <1>12, CmdOnlyKeeps

\* The copy that was surveyed again is the tree that was surveyed first.
LEMMA SandwichIs ==
  ASSUME NEW t \in [TreeFiles -> Nat], NEW a, IsPartTree(a), DOMAIN a = TreeFiles,
         NEW d, IsPartTree(d), DOMAIN d = TreeFiles, NEW s,
         Between(d, t, s), Between(t, a, s), a = d
  PROVE  t = d
<1>1. a \in [TreeFiles -> Nat]
  BY PartTreeIs
<1>2. ASSUME NEW x \in TreeFiles
      PROVE  t[x] = d[x]
  <2>1. d[x] <= t[x] /\ t[x] <= a[x] /\ a[x] = d[x] /\ d[x] \in Nat /\ t[x] \in Nat
    BY <1>1 DEF Between
  <2>. QED  BY <2>1
<1>. QED  BY <1>1, <1>2

LEMMA CheckCopyKeeps ==
  ASSUME ForkAssumption, ForkInv, CheckCopy
  PROVE  ForkInv'
<1>. DEFINE s == cmd.src
            f == cmd.fork
<1>1. /\ cmd.pc = "surveyAgain" /\ DOMAIN cmd.again = TreeFiles /\ cmd.again = cmd.digest
      /\ cmd' = [cmd EXCEPT !.pc = "state"]
      /\ UNCHANGED <<runDirs, proc, forkHist>>
  BY DEF CheckCopy, CommandAt, Continue, Still, StepTo
<1>2. /\ ReadFields \subseteq DOMAIN cmd
      /\ s \in Runs /\ There(s)
      /\ ReadOK(cmd.visit, cmd.snap, cmd.prefix, cmd.inherited, journal[s], snaps[s], worthAt[s])
      /\ IsPartTree(cmd.digest)
      /\ \A x \in DOMAIN cmd.digest : cmd.digest[x] <= files[s][x]
  BY <1>1, ReadFacts DEF Read, Making
<1>3. /\ MakingFields \subseteq DOMAIN cmd
      /\ f \in Forks /\ ~ There(f)
      /\ DOMAIN cmd.digest = TreeFiles
      /\ cmd.changed = FilesChanged
      /\ cmd.visit.node = "code" => cmd.plan = cmd.snap.board.plan
      /\ cmd.plan \in Nat /\ cmd.floor = noteGiveUp
  BY <1>1, MakingFacts DEF Making
<1>4. /\ cmd'.pc = "state" /\ cmd'.src = s /\ cmd'.visit = cmd.visit /\ cmd'.snap = cmd.snap
      /\ cmd'.prefix = cmd.prefix /\ cmd'.inherited = cmd.inherited /\ cmd'.digest = cmd.digest
      /\ cmd'.changed = cmd.changed /\ cmd'.plan = cmd.plan /\ cmd'.floor = cmd.floor
      /\ cmd'.again = cmd.again /\ cmd'.fork = f
      /\ DOMAIN cmd' = DOMAIN cmd
  BY <1>1, <1>2, <1>3 DEF ReadFields, MakingFields
<1>5. files[f] = cmd.digest
  <2>1. /\ files[f] \in [TreeFiles -> Nat] /\ Between(cmd.digest, files[f], files[s])
        /\ IsPartTree(cmd.again) /\ Between(files[f], cmd.again, files[s])
    BY <1>1 DEF ForkInv, CmdInv, CopyInv
  <2>. HIDE DEF f, s
  <2>. QED  BY <1>1, <1>2, <2>1, SandwichIs
<1>. HIDE DEF s, f
<1>6. FilesChanged' = FilesChanged /\ noteGiveUp' = noteGiveUp
  BY <1>4 DEF FilesChanged, noteGiveUp
<1>7. ReadInv'
  BY <1>1, <1>2, <1>4 DEF ReadInv, There, runDirs, forkHist
<1>8. MakingInv'
  <2>1. man'[f] = None /\ files'[f] = cmd.digest
    BY <1>1, <1>3, <1>5 DEF There, runDirs
  <2>. QED  BY <1>3, <1>4, <1>6, <2>1 DEF MakingInv, There
<1>9. CopyInv' /\ AskedInv'
  BY <1>4 DEF CopyInv, AskedInv
<1>10. CmdInv'
  BY <1>4, <1>7, <1>8, <1>9 DEF CmdInv, Read, Making
<1>. QED  BY <1>1, <1>10, CmdOnlyKeeps

LEMMA NothingIsFine == JournalOK(<<>>)
<1>1. <<>> \in Seq(Record) /\ Len(<<>>) = 0
  OBVIOUS
<1>2. Validate(<<>>)
  BY <1>1 DEF Validate
<1>3. Graphed(<<>>)
  BY <1>1 DEF Graphed, StartedAt, FinishedAt
<1>. QED  BY <1>1, <1>2, <1>3 DEF JournalOK

\* Those that write to the directory of a fork there is not yet.
LEMMA MakingKeeps ==
  ASSUME ForkAssumption, ForkInv, cmd.pc \in Making,
         NEW k, JournalOK(k), ChangedFor(cmd.fork, journal, journal', k),
         NEW b \in Boards, ChangedFor(cmd.fork, board, board', b),
         NEW p \in Nat, ChangedFor(cmd.fork, planFile, planFile', p),
         NEW t, ChangedFor(cmd.fork, files, files', t),
         UNCHANGED <<man, snaps, proc, forkHist>>, CmdInv'
  PROVE  ForkInv'
<1>. DEFINE f == cmd.fork
<1>1. f \in Forks /\ ~ There(f) /\ f \in Runs /\ f # ForkSource
  BY MakingFacts
<1>. HIDE DEF f
<1>2. \A x \in Runs : There(x)' = There(x)
  BY DEF There
<1>3. ASSUME NEW x \in Runs, x # f
      PROVE  /\ journal'[x] = journal[x] /\ board'[x] = board[x] /\ planFile'[x] = planFile[x]
             /\ files'[x] = files[x]
  BY <1>3 DEF ChangedFor, f
<1>4. UNCHANGED <<man, snaps, proc, bank, worth, worthAt, copied, gaveUp>>
  BY DEF forkHist
<1>5. ShapeInv'
  BY <1>2, <1>4 DEF ForkInv, ShapeInv, ChangedFor, There
<1>6. AnyInv'
  <2>. SUFFICES ASSUME NEW x \in Runs
                PROVE  AnyOK(man[x], journal'[x], board'[x], planFile'[x], snaps[x], worthAt[x], proc[x])
    BY <1>4 DEF AnyInv
  <2>1. AnyOK(man[x], journal[x], board[x], planFile[x], snaps[x], worthAt[x], proc[x])
    BY DEF ForkInv, AnyInv
  <2>2. CASE x # f
    BY <1>3, <2>1, <2>2
  <2>3. CASE x = f
    <3>1. journal'[x] = k /\ board'[x] = b /\ planFile'[x] = p
      BY <2>3 DEF ChangedFor, f
    <3>. QED  BY <2>1, <3>1 DEF AnyOK
  <2>. QED  BY <2>2, <2>3
<1>7. RunInv'
  BY <1>1, <1>3, <1>4 DEF ForkInv, RunInv, There
<1>8. LinkInv'
  <2>. SUFFICES ASSUME NEW x \in Runs, There(x), man[x].origin # None
                PROVE  LET s == man[x].origin.run
                       IN  /\ There(s) /\ s # x
                           /\ LinkOK(man[x], journal'[x], copied[x], board'[x], snaps[x],
                                     journal'[s], snaps[s])
    BY <1>4 DEF LinkInv, There
  <2>. DEFINE s == man[x].origin.run
  <2>1. /\ There(s) /\ s # x
        /\ LinkOK(man[x], journal[x], copied[x], board[x], snaps[x], journal[s], snaps[s])
    BY DEF ForkInv, LinkInv
  <2>2. s \in Runs
    <3>1. man[x] \in Manifests
      BY DEF ForkInv, RunInv, RunOK
    <3>. QED  BY <3>1 DEF Manifests, Origins
  <2>3. s # f /\ x # f
    BY <1>1, <2>1
  <2>4. journal'[s] = journal[s] /\ journal'[x] = journal[x] /\ board'[x] = board[x]
    BY <1>3, <2>2, <2>3
  <2>. QED  BY <2>1, <2>4
<1>9. BankInv'
  <2>1. Made' = Made
    BY <1>4 DEF Made
  <2>2. \A x \in Made \cup {ForkSource} : x \in Runs /\ x # f
    BY <1>1 DEF Made, There, Runs
  <2>3. \A x \in Made \cup {ForkSource} : Charged(x)' = Charged(x)
    BY <1>3, <2>2 DEF Charged
  <2>4. UNION {{r} \X Charged(r)' : r \in Made \cup {ForkSource}} = UNION {{r} \X Charged(r) : r \in Made \cup {ForkSource}}
    BY <2>3
  <2>. QED  BY <1>4, <2>1, <2>4 DEF ForkInv, BankInv
<1>. QED  BY <1>5, <1>6, <1>7, <1>8, <1>9 DEF ForkInv

\* What is written to no run there is.
LEMMA MakingFrame ==
  ASSUME ForkInv
  PROVE  \A f \in Runs :
           /\ JournalOK(journal[f]) /\ board[f] \in Boards /\ planFile[f] \in Nat
           /\ journal' = journal => ChangedFor(f, journal, journal', journal[f])
           /\ board' = board => ChangedFor(f, board, board', board[f])
           /\ planFile' = planFile => ChangedFor(f, planFile, planFile', planFile[f])
           /\ files' = files => ChangedFor(f, files, files', files[f])
           /\ \A v : /\ journal' = [journal EXCEPT ![f] = v] => ChangedFor(f, journal, journal', v)
                     /\ board' = [board EXCEPT ![f] = v] => ChangedFor(f, board, board', v)
                     /\ planFile' = [planFile EXCEPT ![f] = v] => ChangedFor(f, planFile, planFile', v)
                     /\ files' = [files EXCEPT ![f] = v] => ChangedFor(f, files, files', v)
<1>1. DOMAIN journal = Runs /\ DOMAIN board = Runs /\ DOMAIN planFile = Runs /\ DOMAIN files = Runs
  BY DEF ForkInv, ShapeInv
<1>. QED  BY <1>1 DEF ForkInv, AnyInv, AnyOK, ChangedFor

LEMMA DestroyKeeps ==
  ASSUME ForkAssumption, ForkInv, Destroy
  PROVE  ForkInv'
<1>. DEFINE f == cmd.fork
<1>1. /\ cmd.pc \in Making
      /\ journal' = [journal EXCEPT ![f] = <<>>] /\ board' = [board EXCEPT ![f] = NewBoard]
      /\ files' = [files EXCEPT ![f] = None] /\ planFile' = [planFile EXCEPT ![f] = 0]
      /\ cmd' = NoCommand /\ UNCHANGED <<man, snaps, proc, forkHist>>
  BY DEF Destroy, NoRunMoves
<1>2. f \in Runs
  BY <1>1, MakingFacts
<1>3. NewBoard \in Boards /\ 0 \in Nat
  BY DEF NewBoard, Boards
<1>4. CmdInv'
  BY <1>1, IdleIs
<1>5. /\ ChangedFor(f, journal, journal', <<>>) /\ ChangedFor(f, board, board', NewBoard)
      /\ ChangedFor(f, planFile, planFile', 0) /\ ChangedFor(f, files, files', None)
  BY <1>1, <1>2, MakingFrame
<1>. QED  BY <1>1, <1>3, <1>4, <1>5, NothingIsFine, MakingKeeps

\* What the command has read stands while it writes.
LEMMA MakingCmd ==
  ASSUME ForkAssumption, ForkInv, cmd.pc \in Making, NEW p \in Making,
         (cmd' = cmd /\ p = cmd.pc) \/ cmd' = [cmd EXCEPT !.pc = p],
         UNCHANGED <<man, snaps, forkHist>>,
         NEW k, ChangedFor(cmd.fork, journal, journal', k),
         NEW t, ChangedFor(cmd.fork, files, files', t)
  PROVE  /\ cmd'.pc = p /\ cmd'.src = cmd.src /\ cmd'.fork = cmd.fork /\ cmd'.digest = cmd.digest
         /\ cmd'.visit = cmd.visit /\ cmd'.snap = cmd.snap /\ cmd'.prefix = cmd.prefix
         /\ cmd'.plan = cmd.plan /\ cmd'.again = cmd.again
         /\ cmd'.inherited = cmd.inherited
         /\ files'[cmd.src] = files[cmd.src]
         /\ AskedInv' /\ ReadInv'
         /\ LET f == cmd.fork
            IN  /\ MakingFields \subseteq DOMAIN cmd'
                /\ f \in Forks /\ man'[f] = None
                /\ DOMAIN cmd'.digest = TreeFiles
                /\ cmd'.changed = FilesChanged'
                /\ cmd'.visit.node = "code" => cmd'.plan = cmd'.snap.board.plan
                /\ cmd'.plan \in Nat /\ cmd'.floor = noteGiveUp'
<1>. DEFINE s == cmd.src
            f == cmd.fork
<1>1. /\ MakingFields \subseteq DOMAIN cmd
      /\ f \in Forks /\ ~ There(f) /\ f \in Runs /\ f # ForkSource /\ f # s
      /\ DOMAIN cmd.digest = TreeFiles
      /\ cmd.changed = FilesChanged
      /\ cmd.visit.node = "code" => cmd.plan = cmd.snap.board.plan
      /\ cmd.plan \in Nat /\ cmd.floor = noteGiveUp
      /\ cmd.pc \in Read
  BY MakingFacts
<1>2. /\ ReadFields \subseteq DOMAIN cmd
      /\ s \in Runs /\ There(s)
      /\ ReadOK(cmd.visit, cmd.snap, cmd.prefix, cmd.inherited, journal[s], snaps[s], worthAt[s])
      /\ IsPartTree(cmd.digest)
      /\ \A x \in DOMAIN cmd.digest : cmd.digest[x] <= files[s][x]
  BY <1>1, ReadFacts
<1>3. /\ cmd'.pc = p /\ cmd'.src = cmd.src /\ cmd'.fork = cmd.fork /\ cmd'.digest = cmd.digest
      /\ cmd'.visit = cmd.visit /\ cmd'.snap = cmd.snap /\ cmd'.prefix = cmd.prefix
      /\ cmd'.plan = cmd.plan /\ cmd'.again = cmd.again /\ cmd'.floor = cmd.floor
      /\ cmd'.inherited = cmd.inherited /\ cmd'.changed = cmd.changed
      /\ DOMAIN cmd' = DOMAIN cmd
  BY <1>1, <1>2 DEF ReadFields, MakingFields
<1>4. journal'[s] = journal[s] /\ files'[s] = files[s]
  BY <1>1, <1>2 DEF ChangedFor
<1>. HIDE DEF s, f
<1>5. FilesChanged' = FilesChanged /\ noteGiveUp' = noteGiveUp
  BY <1>3 DEF FilesChanged, noteGiveUp
<1>6. AskedInv'
  BY <1>3 DEF AskedInv, Making
<1>7. ReadInv'
  BY <1>2, <1>3, <1>4 DEF ReadInv, There, forkHist, s
<1>. QED  BY <1>1, <1>3, <1>4, <1>5, <1>6, <1>7 DEF There, s, f

LEMMA WriteBlackboardKeeps ==
  ASSUME ForkAssumption, ForkInv, WriteBlackboard
  PROVE  ForkInv'
<1>. DEFINE f == cmd.fork
<1>1. /\ cmd.pc = "state"
      /\ board' = [board EXCEPT ![f] = cmd.snap.board]
      /\ planFile' = [planFile EXCEPT ![f] = cmd.plan]
      /\ cmd' = [cmd EXCEPT !.pc = "journal file"]
      /\ UNCHANGED <<man, journal, snaps, files, proc, forkHist>>
  BY DEF WriteBlackboard, CommandAt, StepTo, NoRunMoves
<1>2. cmd.pc \in Making /\ "journal file" \in Making
  BY <1>1 DEF Making
<1>3. f \in Runs /\ cmd.plan \in Nat /\ cmd.pc \in Read
  BY <1>2, MakingFacts
<1>4. cmd.snap.board \in Boards
  BY <1>3, ReadFacts DEF Snapshots
<1>5. /\ JournalOK(journal[f])
      /\ ChangedFor(f, journal, journal', journal[f]) /\ ChangedFor(f, board, board', cmd.snap.board)
      /\ ChangedFor(f, planFile, planFile', cmd.plan) /\ ChangedFor(f, files, files', files[f])
  BY <1>1, <1>3, MakingFrame
<1>6. /\ cmd'.pc = "journal file" /\ cmd'.src = cmd.src /\ cmd'.fork = f /\ cmd'.digest = cmd.digest
      /\ cmd'.snap = cmd.snap /\ cmd'.plan = cmd.plan
      /\ AskedInv' /\ ReadInv'
      /\ MakingFields \subseteq DOMAIN cmd'
      /\ f \in Forks /\ man'[f] = None
      /\ DOMAIN cmd'.digest = TreeFiles
      /\ cmd'.changed = FilesChanged'
      /\ cmd'.visit.node = "code" => cmd'.plan = cmd'.snap.board.plan
      /\ cmd'.plan \in Nat /\ cmd'.floor = noteGiveUp'
  BY <1>1, <1>2, <1>5, MakingCmd
<1>7. files[f] = cmd.digest
  BY <1>1, <1>2 DEF ForkInv, CmdInv, MakingInv, Copied
<1>8. MakingInv'
  <2>1. files'[f] = cmd.digest /\ board'[f] = cmd.snap.board /\ planFile'[f] = cmd.plan
    BY <1>5, <1>7 DEF ChangedFor
  <2>. HIDE DEF f
  <2>. QED  BY <1>6, <2>1 DEF MakingInv, There
<1>9. CmdInv'
  BY <1>6, <1>8 DEF CmdInv, CopyInv, Read, Making
<1>. QED  BY <1>1, <1>2, <1>3, <1>4, <1>5, <1>9, MakingKeeps

LEMMA CreateJournalKeeps ==
  ASSUME ForkAssumption, ForkInv, CreateJournal
  PROVE  ForkInv'
<1>. DEFINE f == cmd.fork
            k == Append(cmd.prefix, Boundary)
<1>1. /\ cmd.pc = "journal file"
      /\ journal' = [journal EXCEPT ![f] = k]
      /\ cmd' = [cmd EXCEPT !.pc = "manifest"]
      /\ UNCHANGED <<man, snaps, board, files, planFile, proc, forkHist>>
  BY DEF CreateJournal, CommandAt, StepTo, NoRunMoves
<1>2. cmd.pc \in Making /\ "manifest" \in Making
  BY <1>1 DEF Making
<1>3. f \in Runs /\ cmd.plan \in Nat /\ cmd.pc \in Read
  BY <1>2, MakingFacts
<1>4. JournalOK(k)
  <2>1. /\ ReadOK(cmd.visit, cmd.snap, cmd.prefix, cmd.inherited, journal[cmd.src], snaps[cmd.src],
                  worthAt[cmd.src])
        /\ JournalOK(journal[cmd.src])
    BY <1>3, ReadFacts
  <2>2. cmd.visit.start \in StartedAt(journal[cmd.src])
        /\ cmd.prefix = Stripped(journal[cmd.src], cmd.visit.start)
    BY <2>1 DEF ReadOK, VisitIn, Ones
  <2>. QED  BY <2>1, <2>2, StripIsFine
<1>5. /\ board[f] \in Boards /\ planFile[f] \in Nat
      /\ ChangedFor(f, board, board', board[f])
      /\ ChangedFor(f, planFile, planFile', planFile[f]) /\ ChangedFor(f, files, files', files[f])
      /\ ChangedFor(f, journal, journal', k)
  <2>. HIDE DEF k
  <2>. QED  BY <1>1, <1>3, MakingFrame
<1>. HIDE DEF k
<1>6. /\ cmd'.pc = "manifest" /\ cmd'.src = cmd.src /\ cmd'.fork = f /\ cmd'.digest = cmd.digest
      /\ cmd'.snap = cmd.snap /\ cmd'.plan = cmd.plan /\ cmd'.prefix = cmd.prefix
      /\ AskedInv' /\ ReadInv'
      /\ MakingFields \subseteq DOMAIN cmd'
      /\ f \in Forks /\ man'[f] = None
      /\ DOMAIN cmd'.digest = TreeFiles
      /\ cmd'.changed = FilesChanged'
      /\ cmd'.visit.node = "code" => cmd'.plan = cmd'.snap.board.plan
      /\ cmd'.plan \in Nat /\ cmd'.floor = noteGiveUp'
  BY <1>1, <1>2, <1>5, MakingCmd
<1>7. files[f] = cmd.digest /\ board[f] = cmd.snap.board /\ planFile[f] = cmd.plan
  BY <1>1, <1>2 DEF ForkInv, CmdInv, MakingInv, Copied
<1>8. MakingInv'
  <2>1. /\ files'[f] = cmd.digest /\ board'[f] = cmd.snap.board /\ planFile'[f] = cmd.plan
        /\ journal'[f] = Append(cmd.prefix, Boundary)
    BY <1>5, <1>7 DEF ChangedFor, k
  <2>. HIDE DEF f
  <2>. QED  BY <1>6, <2>1 DEF MakingInv, There
<1>9. CmdInv'
  BY <1>6, <1>8 DEF CmdInv, CopyInv, Read, Making
<1>. QED  BY <1>1, <1>2, <1>4, <1>5, <1>9, MakingKeeps

LEMMA CopyTreeKeeps ==
  ASSUME ForkAssumption, ForkInv, CopyTree
  PROVE  ForkInv'
<1>. DEFINE s == cmd.src
            f == cmd.fork
<1>1. /\ cmd.pc = "copy" /\ UNCHANGED <<man, journal, snaps, board, planFile, proc, forkHist>>
  BY DEF CopyTree, CommandAt, NoRunMoves
<1>2. cmd.pc \in Making /\ {"copy", "surveyAgain"} \subseteq Making
  BY <1>1 DEF Making
<1>3. f \in Runs /\ cmd.pc \in Read /\ DOMAIN cmd.digest = TreeFiles
  BY <1>2, MakingFacts
<1>4. /\ files[s] \in [TreeFiles -> Nat]
      /\ IsPartTree(cmd.digest) /\ \A x \in DOMAIN cmd.digest : cmd.digest[x] <= files[s][x]
  BY <1>3, ReadFacts
<1>5. /\ cmd.again = Empty
      /\ files[f] # None => IsPartTree(files[f]) /\ Between(cmd.digest, files[f], files[s])
  BY <1>1 DEF ForkInv, CmdInv, CopyInv
<1>6. ASSUME NEW p \in Making, p \in {"copy", "surveyAgain"},
             (cmd' = cmd /\ p = cmd.pc) \/ cmd' = [cmd EXCEPT !.pc = p],
             NEW t, ChangedFor(f, files, files', t), IsPartTree(t), Between(cmd.digest, t, files[s]),
             p = "surveyAgain" => DOMAIN t = TreeFiles
      PROVE  ForkInv'
  <2>1. /\ JournalOK(journal[f]) /\ board[f] \in Boards /\ planFile[f] \in Nat
        /\ ChangedFor(f, journal, journal', journal[f]) /\ ChangedFor(f, board, board', board[f])
        /\ ChangedFor(f, planFile, planFile', planFile[f])
    BY <1>1, <1>3, MakingFrame
  <2>2. /\ cmd'.pc = p /\ cmd'.src = s /\ cmd'.fork = f /\ cmd'.digest = cmd.digest
        /\ cmd'.again = cmd.again /\ files'[s] = files[s]
        /\ AskedInv' /\ ReadInv'
        /\ MakingFields \subseteq DOMAIN cmd'
        /\ f \in Forks /\ man'[f] = None
        /\ DOMAIN cmd'.digest = TreeFiles
        /\ cmd'.changed = FilesChanged'
        /\ cmd'.visit.node = "code" => cmd'.plan = cmd'.snap.board.plan
        /\ cmd'.plan \in Nat /\ cmd'.floor = noteGiveUp'
    BY <1>1, <1>2, <1>6, <2>1, MakingCmd
  <2>3. files'[f] = t
    BY <1>6 DEF ChangedFor
  <2>4. MakingInv'
    <3>1. cmd'.pc \notin Copied' /\ cmd'.pc \notin {"journal file", "manifest"}
      BY <1>6, <2>2 DEF Copied
    <3>. HIDE DEF f, s
    <3>. QED  BY <2>2, <3>1 DEF MakingInv, There
  <2>5. CopyInv'
    <3>1. IsPartTree(Empty) /\ Between(t, Empty, files[s])
      BY EmptyIsPart DEF Between
    <3>2. p = "surveyAgain" => t \in [TreeFiles -> Nat]
      BY <1>6, PartTreeIs
    <3>. HIDE DEF f, s
    <3>. QED  BY <1>5, <1>6, <2>2, <2>3, <3>1, <3>2 DEF CopyInv
  <2>6. CmdInv'
    BY <1>6, <2>2, <2>4, <2>5 DEF CmdInv, Read, Making
  <2>. QED  BY <1>1, <1>2, <1>6, <2>1, <2>6, MakingKeeps
<1>7. CASE files[f] # None /\ DOMAIN files[f] = TreeFiles
  <2>1. cmd' = [cmd EXCEPT !.pc = "surveyAgain"] /\ files' = files
    BY <1>7 DEF CopyTree, StepTo
  <2>2. ChangedFor(f, files, files', files[f])
    BY <1>3, <2>1, MakingFrame
  <2>. QED  BY <1>2, <1>5, <1>6, <1>7, <2>1, <2>2
<1>8. CASE files[f] = None
  <2>1. cmd' = cmd /\ files' = [files EXCEPT ![f] = Empty]
    BY <1>8 DEF CopyTree
  <2>2. ChangedFor(f, files, files', Empty)
    BY <1>3, <2>1, MakingFrame
  <2>3. IsPartTree(Empty) /\ Between(cmd.digest, Empty, files[s])
    BY EmptyIsPart DEF Between
  <2>. QED  BY <1>1, <1>2, <1>6, <2>1, <2>2, <2>3
<1>9. CASE files[f] # None /\ DOMAIN files[f] # TreeFiles
  <2>. DEFINE t == WithNext(files[f])
  <2>1. cmd' = cmd /\ files' = [files EXCEPT ![f] = t]
    BY <1>9 DEF CopyTree
  <2>2. PICK x \in TreeFiles \ DOMAIN files[f] :
          /\ IsPartTree(t) /\ DOMAIN t = DOMAIN files[f] \cup {x} /\ t[x] = files[s][x]
          /\ \A y \in DOMAIN files[f] : t[y] = files[f][y]
    BY <1>4, <1>5, <1>9, WithNextIs
  <2>. HIDE DEF t
  <2>3. ChangedFor(f, files, files', t)
    BY <1>3, <2>1, MakingFrame
  <2>4. Between(cmd.digest, t, files[s])
    <3>1. files[s][x] \in Nat /\ cmd.digest[x] <= files[s][x]
      BY <1>3, <1>4
    <3>. QED  BY <1>5, <1>9, <2>2, <3>1 DEF Between
  <2>. QED  BY <1>1, <1>2, <1>6, <2>1, <2>2, <2>3, <2>4
<1>. QED  BY <1>7, <1>8, <1>9

\* The run that writing a manifest makes.
LEMMA MadeIs ==
  ASSUME ForkAssumption, ForkInv, LastToWrite
  PROVE  LET f  == cmd.fork
             s  == cmd.src
             m2 == Manifest("running", stepBefore(cmd.snap), cmd.floor, Origin)
         IN  /\ m2 \in Manifests /\ m2.origin = Origin /\ Origin # None /\ Origin.run = s /\ m2 # None
             /\ s \in Runs /\ f \in Forks /\ f \in Runs /\ There(s) /\ ~ There(f) /\ f # s /\ f # ForkSource
             /\ RunOK(m2, journal[f], snaps[f], files[f], worthAt[f], worthAt[s][cmd.visit.start])
             /\ LinkOK(m2, journal[f], [tree |-> files[f], plan |-> planFile[f]], board[f], snaps[f],
                       journal[s], snaps[s])
             /\ Charged(f) = {}
<1>. DEFINE f == cmd.fork
            s == cmd.src
            v == cmd.visit
            n == v.start
            k == journal[f]
            o == Origin
            m2 == Manifest("running", stepBefore(cmd.snap), cmd.floor, o)
            w == worthAt[s][n]
            c == [tree |-> files[f], plan |-> planFile[f]]
<1>0. cmd.pc = "manifest" /\ cmd.pc \in Making /\ cmd.pc \in Copied
  BY DEF LastToWrite, CommandAt, Making, Copied
<1>1. /\ f \in Forks /\ ~ There(f) /\ f \in Runs /\ f # ForkSource /\ f # s
      /\ DOMAIN cmd.digest = TreeFiles
      /\ cmd.changed = FilesChanged
      /\ cmd.visit.node = "code" => cmd.plan = cmd.snap.board.plan
      /\ cmd.plan \in Nat /\ cmd.floor = noteGiveUp
      /\ cmd.pc \in Read
  BY <1>0, MakingFacts
<1>2. /\ s \in Runs /\ There(s)
      /\ ReadOK(v, cmd.snap, cmd.prefix, cmd.inherited, journal[s], snaps[s], worthAt[s])
      /\ IsPartTree(cmd.digest)
      /\ JournalOK(journal[s]) /\ cmd.snap \in Snapshots
  BY <1>1, ReadFacts
<1>3. /\ files[f] = cmd.digest /\ board[f] = cmd.snap.board /\ planFile[f] = cmd.plan
      /\ k = Append(cmd.prefix, Boundary)
  BY <1>0 DEF ForkInv, CmdInv, MakingInv
<1>4. /\ n \in DOMAIN snaps[s] /\ cmd.snap = snaps[s][n]
      /\ VisitIn(journal[s], v.node, v.ordinal, n)
      /\ cmd.prefix = Stripped(journal[s], n)
      /\ ResolveStart(k) = Start("runnable", v.node, 1)
      /\ cmd.inherited = w
  BY <1>2, <1>3 DEF ReadOK, startsAt
<1>5. n \in StartedAt(journal[s]) /\ n \in Ones(journal[s]) /\ v.node = journal[s][n].node
  BY <1>4 DEF VisitIn, Ones
<1>6. /\ JournalOK(k) /\ Len(k) = n /\ k[n] = Boundary
      /\ \A i \in 1 .. n - 1 : k[i] = [journal[s][i] EXCEPT !.usage = 0]
      /\ n \in Nat /\ n <= Len(journal[s])
      /\ Dollars(k, Len(k)) = {}
      /\ \A i \in StartedAt(k) \cup FinishedAt(k) : i < n
  BY <1>2, <1>3, <1>4, <1>5, StripIsFine
<1>7. DOMAIN snaps[f] = {} /\ DOMAIN worthAt[f] = {} /\ board[f] \in Boards /\ planFile[f] \in Nat
  BY <1>1 DEF ForkInv, AnyInv, AnyOK, There
<1>8. RunOK(man[s], journal[s], snaps[s], files[s], worthAt[s], worth[s])
  BY <1>2 DEF ForkInv, RunInv
<1>9. ResolveStart(k).node = v.node /\ ~ Again(k)
  BY <1>4 DEF Again, Start
<1>10. w \in Nat
  <2>1. n \in DOMAIN worthAt[s]
    BY <1>4, <1>8 DEF RunOK, SnapsOK
  <2>2. w = Inherited(man[s]) + Cardinality(Dollars(journal[s], n - 1))
    BY <1>8, <2>1 DEF RunOK, MoneyOK
  <2>3. n - 1 \in 0 .. Len(journal[s]) /\ journal[s] \in Seq(Record)
    <3>1. n # 0 /\ Len(journal[s]) \in Nat
      BY <1>2, <1>5, OnesAre
    <3>. QED  BY <1>2, <1>6, <3>1 DEF JournalOK
  <2>4. Cardinality(Dollars(journal[s], n - 1)) \in Nat
    BY <2>3, DollarsFinite
  <2>5. man[s] \in Manifests
    BY <1>8 DEF RunOK
  <2>6. Inherited(man[s]) \in Nat
    BY <2>5 DEF Inherited, Manifests, Origins
  <2>. HIDE DEF s, n, w
  <2>. QED  BY <2>2, <2>4, <2>6
<1>11. v.ordinal \in Nat /\ v.node \in Names
  <2>1. v.ordinal = Cardinality(OnesTo(journal[s], v.node, n))
    BY <1>4 DEF VisitIn
  <2>2. IsFiniteSet(OnesTo(journal[s], v.node, n))
    <3>1. OnesTo(journal[s], v.node, n) \subseteq 1 .. n
      <4>1. \A i \in Ones(journal[s]) : i \in Nat /\ i # 0
        BY <1>2, OnesAre
      <4>. QED  BY <1>6, <4>1 DEF OnesTo
    <3>2. IsFiniteSet(1 .. n)
      <4>1. n \in Int /\ 1 \in Int
        BY <1>6
      <4>. HIDE DEF n
      <4>. QED  BY <4>1, FS_Interval
    <3>. HIDE DEF n
    <3>. QED  BY <3>1, <3>2, FS_Subset
  <2>3. v.ordinal \in Nat
    BY <2>1, <2>2, FS_CardinalityType
  <2>. QED  BY <1>2, <1>5, <2>3 DEF JournalOK, Graphed
<1>12. /\ o \in Origins /\ o.run = s /\ o.node = v.node /\ o.visit = v.ordinal /\ o.start = n
       /\ o.inherited = w /\ o.changed = FilesChanged /\ o.step = cmd.snap.step
  <2>1. /\ o.run = s /\ o.node = v.node /\ o.visit = v.ordinal /\ o.start = n
        /\ o.inherited = w /\ o.changed = FilesChanged /\ o.step = cmd.snap.step
    BY <1>1, <1>4 DEF Origin
  <2>2. o = [run |-> s, node |-> v.node, visit |-> v.ordinal, start |-> n, inherited |-> w,
             changed |-> FilesChanged, step |-> cmd.snap.step]
    BY <1>1, <1>4 DEF Origin
  <2>3. cmd.snap.step \in Nat /\ FilesChanged \in BOOLEAN
    BY <1>2 DEF Snapshots, FilesChanged
  <2>4. [run |-> s, node |-> v.node, visit |-> v.ordinal, start |-> n, inherited |-> w,
         changed |-> FilesChanged, step |-> cmd.snap.step] \in Origins
    <3>. HIDE DEF s, v, n, w
    <3>. QED  BY <1>2, <1>6, <1>10, <1>11, <2>3 DEF Origins
  <2>. QED  BY <2>1, <2>2, <2>4
<1>13. cmd.floor = IF v.node = "fix" /\ cmd.snap.board.attempts >= GiveUp
                     THEN cmd.snap.board.attempts + 1 ELSE 0
  BY <1>1 DEF noteGiveUp
<1>14. m2 \in Manifests /\ m2.origin = o /\ m2.step = cmd.snap.step - 1 /\ m2.floor = cmd.floor
  <2>1. cmd.floor \in Nat
    BY <1>2, <1>13 DEF Snapshots, Boards
  <2>2. cmd.snap.step - 1 \in Nat
    BY <1>2 DEF Snapshots
  <2>. HIDE DEF o
  <2>. QED  BY <1>12, <2>1, <2>2 DEF Manifest, Manifests, stepBefore
<1>15. m2 # None /\ o # None
  BY <1>12, <1>14 DEF ForkAssumption
<1>. HIDE DEF f, s, v, n, k, o, m2, w, c
<1>16. Inherited(m2) = w /\ OwnOf(m2) = n
  BY <1>12, <1>14, <1>15 DEF Inherited, OwnOf
<1>17. RunOK(m2, k, snaps[f], files[f], worthAt[f], w)
  <2>1. SnapsOK(n, k, {}, {})
    <3>1. \A i \in Ones(k) : i < n /\ i \in Nat
      BY <1>6, OnesAre
    <3>. QED  BY <1>6, <1>9, <3>1 DEF SnapsOK
  <2>2. MoneyOK(m2, k, worthAt[f], w)
    <3>1. Cardinality(Dollars(k, Len(k))) = 0
      BY <1>6, FS_EmptySet
    <3>2. w = Inherited(m2) + Cardinality(Dollars(k, Len(k)))
      BY <1>10, <1>16, <3>1
    <3>. QED  BY <1>7, <3>2 DEF MoneyOK
  <2>3. files[f] \in [TreeFiles -> Nat]
    BY <1>1, <1>2, <1>3, PartTreeIs
  <2>. QED  BY <1>7, <1>14, <1>16, <2>1, <2>2, <2>3 DEF RunOK
<1>18. LinkOK(m2, k, c, board[f], snaps[f], journal[s], snaps[s])
  <2>1. c.tree = cmd.digest /\ c.plan = cmd.plan
    BY <1>3 DEF c
  <2>2. ~ FilesChanged => cmd.digest = cmd.snap.digest
    BY DEF FilesChanged
  <2>3. o.node = "code" => cmd.plan = cmd.snap.board.plan
    BY <1>1, <1>12 DEF v
  <2>4. BackOK(o, cmd.floor, k, c, journal[s], snaps[s])
    BY <1>4, <1>6, <1>12, <1>13, <2>1, <2>2, <2>3 DEF BackOK
  <2>5. FirstOK(o, cmd.snap, k, cmd.snap.step - 1, board[f], snaps[f])
    <3>1. n + 1 \notin StartedAt(k)
      BY <1>6
    <3>. QED  BY <1>3, <1>7, <1>9, <1>12, <3>1 DEF FirstOK
  <2>. QED  BY <1>4, <1>12, <1>14, <2>4, <2>5 DEF LinkOK
<1>19. Charged(f) = {}
  BY <1>6 DEF Charged, k
<1>20. s \in Runs /\ There(s)
  BY <1>2 DEF s
<1>21. o.run = s
  BY <1>12
<1>22. f \in Forks /\ ~ There(f) /\ f \in Runs /\ f # ForkSource /\ f # s
  BY <1>1 DEF f, s
<1>. QED  BY <1>14, <1>15, <1>17, <1>18, <1>19, <1>20, <1>21, <1>22 DEF f, s, v, n, k, o, m2, w, c

LEMMA WriteManifestKeeps ==
  ASSUME ForkAssumption, ForkInv, WriteManifest
  PROVE  ForkInv'
<1>. DEFINE f  == cmd.fork
            s  == cmd.src
            m2 == Manifest("running", stepBefore(cmd.snap), cmd.floor, Origin)
            w  == worthAt[s][cmd.visit.start]
            c  == [tree |-> files[f], plan |-> planFile[f]]
<1>1. /\ LastToWrite
      /\ man' = [man EXCEPT ![f] = m2] /\ proc' = [proc EXCEPT ![f] = "one"] /\ cmd' = NoCommand
      /\ worth' = [worth EXCEPT ![f] = w] /\ copied' = [copied EXCEPT ![f] = c]
      /\ UNCHANGED <<journal, snaps, board, files, planFile, bank, worthAt, gaveUp>>
  BY DEF WriteManifest
<1>2. /\ m2.origin # None /\ m2.origin.run = s /\ m2 # None
      /\ s \in Runs /\ f \in Forks /\ f \in Runs /\ There(s) /\ ~ There(f) /\ f # s /\ f # ForkSource
      /\ RunOK(m2, journal[f], snaps[f], files[f], worthAt[f], w)
      /\ LinkOK(m2, journal[f], c, board[f], snaps[f], journal[s], snaps[s])
      /\ Charged(f) = {}
  BY <1>1, MadeIs
<1>. HIDE DEF m2, w, c, f, s
<1>3. /\ DOMAIN man = Runs /\ DOMAIN proc = Runs /\ DOMAIN worth = Runs /\ DOMAIN copied = Runs
  BY DEF ForkInv, ShapeInv
<1>4. /\ man'[f] = m2 /\ worth'[f] = w /\ copied'[f] = c /\ proc'[f] = "one"
      /\ DOMAIN man' = Runs /\ DOMAIN proc' = Runs /\ DOMAIN worth' = Runs /\ DOMAIN copied' = Runs
      /\ \A x \in Runs : x # f => /\ man'[x] = man[x] /\ worth'[x] = worth[x]
                                  /\ copied'[x] = copied[x] /\ proc'[x] = proc[x]
  BY <1>1, <1>2, <1>3
<1>5. ShapeInv'
  <2>1. There(ForkSource)' /\ gaveUp' = {}
    BY <1>1, <1>2, <1>4 DEF ForkInv, ShapeInv, There, Runs
  <2>2. ASSUME NEW x \in Runs, man'[x] # None
        PROVE  man'[x].origin = None <=> x = ForkSource
    BY <1>2, <1>4, <2>2 DEF ForkInv, ShapeInv, There
  <2>. QED  BY <1>1, <1>4, <2>1, <2>2 DEF ForkInv, ShapeInv, There
<1>6. AnyInv'
  <2>. SUFFICES ASSUME NEW x \in Runs
                PROVE  AnyOK(man'[x], journal[x], board[x], planFile[x], snaps[x], worthAt[x], proc'[x])
    BY <1>1 DEF AnyInv
  <2>1. AnyOK(man[x], journal[x], board[x], planFile[x], snaps[x], worthAt[x], proc[x])
    BY DEF ForkInv, AnyInv
  <2>. QED  BY <1>2, <1>4, <2>1 DEF AnyOK
<1>7. RunInv'
  <2>. SUFFICES ASSUME NEW x \in Runs, man'[x] # None
                PROVE  RunOK(man'[x], journal[x], snaps[x], files[x], worthAt[x], worth'[x])
    BY <1>1 DEF RunInv, There
  <2>1. CASE x = f
    BY <1>2, <1>4, <2>1
  <2>2. CASE x # f
    BY <1>4, <2>2 DEF ForkInv, RunInv, There
  <2>. QED  BY <2>1, <2>2
<1>8. LinkInv'
  <2>. SUFFICES ASSUME NEW x \in Runs, man'[x] # None, man'[x].origin # None
                PROVE  LET y == man'[x].origin.run
                       IN  /\ man'[y] # None /\ y # x
                           /\ LinkOK(man'[x], journal[x], copied'[x], board[x], snaps[x],
                                     journal[y], snaps[y])
    BY <1>1 DEF LinkInv, There
  <2>1. CASE x = f
    <3>1. man'[s] # None
      BY <1>2, <1>4 DEF There
    <3>. QED  BY <1>2, <1>4, <2>1, <3>1
  <2>2. CASE x # f
    <3>. DEFINE y == man[x].origin.run
    <3>1. man'[x] = man[x] /\ copied'[x] = copied[x] /\ There(x)
      BY <1>4, <2>2 DEF There
    <3>2. /\ There(y) /\ y # x
          /\ LinkOK(man[x], journal[x], copied[x], board[x], snaps[x], journal[y], snaps[y])
      BY <3>1 DEF ForkInv, LinkInv
    <3>3. y \in Runs
      <4>1. man[x] \in Manifests
        BY <3>1 DEF ForkInv, RunInv, RunOK
      <4>. QED  BY <3>1, <4>1 DEF Manifests, Origins
    <3>4. y # f
      BY <1>2, <3>2
    <3>5. man'[y] # None
      BY <1>4, <3>2, <3>3, <3>4 DEF There
    <3>. QED  BY <3>1, <3>2, <3>5
  <2>. QED  BY <2>1, <2>2
<1>9. BankInv'
  <2>. DEFINE R == Made \cup {ForkSource}
              C == [x \in Runs |-> Charged(x)]
  <2>1. Made' = Made \cup {f}
    BY <1>2, <1>4 DEF Made, Runs
  <2>2. R \cup {f} = Made' \cup {ForkSource}
    BY <2>1
  <2>3. R \cup {f} \subseteq Runs
    BY <1>2 DEF Made, Runs
  <2>4. \A x \in Runs : Charged(x)' = C[x]
    BY <1>1 DEF Charged
  <2>5. C[f] = {}
    BY <1>2
  <2>6. Total(R, C) = UNION {{r} \X Charged(r) : r \in R}
    BY <2>3 DEF Total
  <2>7. Total(R \cup {f}, C) = UNION {{r} \X Charged(r)' : r \in R \cup {f}}
    BY <2>3, <2>4 DEF Total
  <2>. HIDE DEF R, C
  <2>8. Total(R \cup {f}, C) = Total(R, C)
    BY <2>5, TotalWithNothing
  <2>9. Cardinality(UNION {{r} \X Charged(r) : r \in R}) = bank
    BY DEF ForkInv, BankInv, R
  <2>10. Cardinality(UNION {{r} \X Charged(r)' : r \in R \cup {f}}) = bank'
    BY <1>1, <2>6, <2>7, <2>8, <2>9
  <2>. QED  BY <2>2, <2>10 DEF BankInv
<1>10. CmdInv'
  BY <1>1, IdleIs
<1>. QED  BY <1>5, <1>6, <1>7, <1>8, <1>9, <1>10 DEF ForkInv

(***************************************************************************)
(* What the invariant says.                                                *)
(***************************************************************************)
LEMMA OneMoreEach ==
  ASSUME NEW S, IsFiniteSet(S), NEW x, NEW y, x \notin S, y \notin S
  PROVE  Cardinality(S \cup {x}) = Cardinality(S \cup {y})
BY FS_AddElement

LEMMA OnesFinite ==
  ASSUME NEW j, JournalOK(j), NEW n \in Nat, NEW S, S \subseteq Ones(j), \A i \in S : i <= n
  PROVE  IsFiniteSet(S)
<1>1. S \subseteq 1 .. n
  <2>1. \A i \in S : i \in Nat /\ i # 0 /\ i <= n
    BY OnesAre
  <2>. QED  BY <2>1
<1>2. IsFiniteSet(1 .. n)
  BY FS_Interval
<1>. QED  BY <1>1, <1>2, FS_Subset

\* A fork's journal up to its visit and its source's begin visits alike.
TakenFrom(jf, js, n) == \A i \in 1 .. n - 1 : jf[i] = [js[i] EXCEPT !.usage = 0]

LEMMA SameOnes ==
  ASSUME NEW jf, NEW js, JournalOK(jf), JournalOK(js), NEW n \in Nat, n <= Len(jf), n <= Len(js), n # 0,
         TakenFrom(jf, js, n)
  PROVE  \A a \in 1 .. n - 1 : /\ a \in Ones(jf) <=> a \in Ones(js)
                               /\ jf[a].node = js[a].node
<1>1. /\ jf \in Seq(Record) /\ js \in Seq(Record) /\ Len(jf) \in Nat /\ Len(js) \in Nat
      /\ IsASequence(jf) /\ IsASequence(js)
  BY DEF JournalOK, IsASequence
<1>2. \A i \in 1 .. n - 1 : js[i] \in Record
  BY <1>1
<1>3. \A i \in 1 .. n - 1 : /\ jf[i].event = js[i].event /\ jf[i].node = js[i].node
                            /\ jf[i].attempt = js[i].attempt /\ jf[i].status = js[i].status
                            /\ jf[i].next = js[i].next
  BY <1>2 DEF Record, TakenFrom
<1>4. Alike(jf, js, n - 1)
  BY <1>1, <1>3 DEF Alike
<1>. QED  BY <1>1, <1>3, <1>4, AlikeBegun

\* Visits that are numbered alike, and those that are not.
LEMMA VisitAt ==
  ASSUME NEW j, JournalOK(j), NEW i, NEW a \in Ones(j), i = Cardinality({k \in Ones(j) : k <= a})
  PROVE  LET us == VisitsOf(j)
         IN  us[i].start = a /\ us[i].node = j[a].node
             /\ us[i].ordinal = Cardinality(OnesTo(j, j[a].node, a))
<1>. DEFINE us == VisitsOf(j)
<1>1. /\ \A v \in 1 .. Len(us) :
           /\ VisitIn(j, us[v].node, us[v].ordinal, us[v].start)
           /\ v = Cardinality({k \in Ones(j) : k <= us[v].start})
      /\ \A b \in Ones(j) : \E v \in 1 .. Len(us) : us[v].start = b
  BY VisitsAreOnes
<1>2. PICK v \in 1 .. Len(us) : us[v].start = a
  BY <1>1
<1>3. v = i
  BY <1>1, <1>2
<1>. HIDE DEF us
<1>. QED  BY <1>1, <1>2, <1>3 DEF VisitIn, us

LEMMA VisitHasSnapshot ==
  ASSUME ForkInv, NEW s \in Runs, There(s), NEW n \in Ones(journal[s]),
         NEW a \in Ones(journal[s]), a < n
  PROVE  \/ a \in DOMAIN snaps[s]
         \/ man[s].origin # None /\ a < man[s].origin.start
<1>. DEFINE j   == journal[s]
            own == OwnOf(man[s])
<1>1. JournalOK(j)
  BY DEF ForkInv, AnyInv, AnyOK
<1>2. RunOK(man[s], j, snaps[s], files[s], worthAt[s], worth[s])
  BY DEF ForkInv, RunInv
<1>3. a \in Nat /\ n \in Nat /\ a # 0 /\ a \in StartedAt(j)
  BY <1>1, OnesAre
<1>4. own < a => a \in DOMAIN snaps[s]
  <2>1. ~ IsLastOf(j, a)
    BY <1>3 DEF IsLastOf
  <2>. QED  BY <1>2, <2>1 DEF RunOK, SnapsOK
<1>5. CASE man[s].origin = None
  BY <1>3, <1>4, <1>5 DEF OwnOf
<1>6. CASE man[s].origin # None
  <2>. DEFINE o == man[s].origin
  <2>1. own = o.start /\ o.start \in Nat /\ j[o.start] = Boundary
    <3>1. LinkOK(man[s], j, copied[s], board[s], snaps[s], journal[o.run], snaps[o.run])
      BY <1>6 DEF ForkInv, LinkInv
    <3>2. o \in Origins
      BY <1>2, <1>6 DEF RunOK, Manifests
    <3>. QED  BY <1>6, <3>1, <3>2 DEF LinkOK, BackOK, OwnOf, Origins
  <2>2. a # o.start
    <3>1. Boundary.event # "node_started"
      BY DEF Boundary, RunMarker
    <3>. QED  BY <1>3, <2>1, <3>1 DEF StartedAt
  <2>. QED  BY <1>3, <1>4, <1>6, <2>1, <2>2
<1>. QED  BY <1>5, <1>6

LEMMA ForkSameVisits ==
  ASSUME ForkAssumption, ForkInv
  PROVE  SameVisitsAsItsSource
<1>. SUFFICES ASSUME NEW f \in Made
              PROVE  LET o  == man[f].origin
                         vs == VisitsOf(journal[f])
                         us == VisitsOf(journal[o.run])
                         Same(v, u) == v.node = u.node /\ v.ordinal = u.ordinal
                     IN  \A i \in 1 .. Len(vs) :
                           /\ vs[i].start < o.start =>
                                /\ Same(vs[i], us[i]) /\ vs[i].start = us[i].start
                                /\ \/ us[i].start \in DOMAIN snaps[o.run]
                                   \/ man[o.run].origin # None /\ us[i].start < man[o.run].origin.start
                           /\ vs[i].start = o.start + 1 =>
                                /\ Same(vs[i], us[i]) /\ us[i].start = o.start
                                /\ vs[i].node = o.node /\ vs[i].ordinal = o.visit
                                /\ vs[i].start \in DOMAIN snaps[f] => snaps[f][vs[i].start].step = o.step
                           /\ vs[i].start # o.start
  BY DEF SameVisitsAsItsSource
<1>. DEFINE o  == man[f].origin
            s  == o.run
            n  == o.start
            jf == journal[f]
            js == journal[s]
            vs == VisitsOf(jf)
            us == VisitsOf(js)
<1>1. f \in Runs /\ There(f) /\ f # ForkSource
  BY DEF Made, Runs, There, ForkAssumption
<1>2. o # None
  BY <1>1 DEF ForkInv, ShapeInv
<1>3. There(s) /\ LinkOK(man[f], jf, copied[f], board[f], snaps[f], js, snaps[s])
  BY <1>1, <1>2 DEF ForkInv, LinkInv
<1>4. o \in Origins
  <2>1. man[f] \in Manifests
    BY <1>1 DEF ForkInv, RunInv, RunOK
  <2>. QED  BY <1>2, <2>1 DEF Manifests
<1>5. s \in Runs /\ n \in Nat
  BY <1>4 DEF Origins
<1>6. JournalOK(jf) /\ JournalOK(js)
  BY <1>1, <1>5 DEF ForkInv, AnyInv, AnyOK
<1>7. /\ VisitIn(js, o.node, o.visit, n)
      /\ n <= Len(jf) /\ jf[n] = Boundary
      /\ \A i \in 1 .. n - 1 : jf[i] = [js[i] EXCEPT !.usage = 0]
  <2>1. Len(jf) \in Nat
    BY <1>6 DEF JournalOK
  <2>2. /\ VisitIn(js, o.node, o.visit, n)
        /\ Len(jf) >= n /\ jf[n] = Boundary
        /\ \A i \in 1 .. n - 1 : jf[i] = [js[i] EXCEPT !.usage = 0]
    BY <1>3 DEF LinkOK, BackOK
  <2>. HIDE DEF n, jf
  <2>. QED  BY <1>5, <2>1, <2>2
<1>8. /\ n + 1 \in StartedAt(jf) => jf[n + 1].node = o.node
      /\ n + 1 \in DOMAIN snaps[f] => snaps[f][n + 1].step = o.step
  BY <1>3 DEF LinkOK, FirstOK
<1>9. n \in Ones(js) /\ js[n].node = o.node /\ o.visit = Cardinality(OnesTo(js, o.node, n))
  BY <1>7 DEF VisitIn
<1>10. n # 0 /\ n <= Len(js)
  <2>. HIDE DEF js, n
  <2>. QED  BY <1>6, <1>9, OnesAre
<1>11. Boundary.event # "node_started"
  BY DEF Boundary, RunMarker
<1>. HIDE DEF n, jf, js, o, s, vs, us
<1>12. \A a \in 1 .. n - 1 : /\ a \in Ones(jf) <=> a \in Ones(js)
                             /\ jf[a].node = js[a].node
  <2>1. TakenFrom(jf, js, n)
    BY <1>7 DEF TakenFrom
  <2>. QED  BY <1>5, <1>6, <1>7, <1>10, <2>1, SameOnes
<1>13. /\ \A k \in Ones(jf) : k \in Nat /\ k # 0 /\ k # n /\ k \in StartedAt(jf)
       /\ \A k \in Ones(js) : k \in Nat /\ k # 0
  <2>1. \A k \in StartedAt(jf) : k # n
    BY <1>7, <1>11 DEF StartedAt
  <2>. QED  BY <1>6, <2>1, OnesAre
<1>14. ASSUME NEW i \in 1 .. Len(vs)
       PROVE  /\ vs[i].start \in Ones(jf) /\ vs[i].node = jf[vs[i].start].node
              /\ vs[i].ordinal = Cardinality(OnesTo(jf, vs[i].node, vs[i].start))
              /\ i = Cardinality({k \in Ones(jf) : k <= vs[i].start})
  <2>1. /\ VisitIn(jf, vs[i].node, vs[i].ordinal, vs[i].start)
        /\ i = Cardinality({k \in Ones(jf) : k <= vs[i].start})
    BY <1>6, VisitsAreOnes DEF vs
  <2>. QED  BY <2>1 DEF VisitIn
<1>15. ASSUME NEW i \in 1 .. Len(vs), vs[i].start < n
       PROVE  /\ vs[i].node = us[i].node /\ vs[i].ordinal = us[i].ordinal /\ vs[i].start = us[i].start
              /\ \/ us[i].start \in DOMAIN snaps[s]
                 \/ man[s].origin # None /\ us[i].start < man[s].origin.start
  <2>. DEFINE a == vs[i].start
  <2>1. a \in Ones(jf) /\ a \in 1 .. n - 1
    <3>1. a \in Ones(jf) /\ a < n
      BY <1>14, <1>15
    <3>. HIDE DEF a
    <3>. QED  BY <1>5, <1>13, <3>1
  <2>2. a \in Ones(js) /\ jf[a].node = js[a].node
    BY <1>12, <2>1
  <2>. HIDE DEF a
  <2>3. {k \in Ones(jf) : k <= a} = {k \in Ones(js) : k <= a}
    <3>1. \A k \in Ones(jf) \cup Ones(js) : k <= a => k \in 1 .. n - 1
      BY <1>5, <1>13, <2>1
    <3>. QED  BY <1>12, <3>1
  <2>4. OnesTo(jf, jf[a].node, a) = OnesTo(js, js[a].node, a)
    <3>1. \A k \in Ones(jf) \cup Ones(js) : k <= a => k \in 1 .. n - 1
      BY <1>5, <1>13, <2>1
    <3>. QED  BY <1>12, <2>2, <3>1 DEF OnesTo
  <2>5. i = Cardinality({k \in Ones(js) : k <= a})
    BY <1>14, <2>3 DEF a
  <2>6. us[i].start = a /\ us[i].node = js[a].node /\ us[i].ordinal = Cardinality(OnesTo(js, js[a].node, a))
    BY <1>6, <2>2, <2>5, VisitAt DEF us
  <2>7. vs[i].node = jf[a].node /\ vs[i].ordinal = Cardinality(OnesTo(jf, jf[a].node, a))
    BY <1>14 DEF a
  <2>8. a < n
    BY <1>15 DEF a
  <2>9. \/ a \in DOMAIN snaps[s]
        \/ man[s].origin # None /\ a < man[s].origin.start
    BY <1>3, <1>5, <1>9, <2>2, <2>8, VisitHasSnapshot DEF js
  <2>. QED  BY <2>2, <2>4, <2>6, <2>7, <2>9 DEF a
<1>16. ASSUME NEW i \in 1 .. Len(vs), vs[i].start = n + 1
       PROVE  /\ vs[i].node = us[i].node /\ vs[i].ordinal = us[i].ordinal /\ us[i].start = n
              /\ vs[i].node = o.node /\ vs[i].ordinal = o.visit
  <2>1. n + 1 \in Ones(jf) /\ jf[n + 1].node = o.node /\ vs[i].node = o.node
    BY <1>8, <1>13, <1>14, <1>16
  <2>. DEFINE S == {k \in Ones(jf) : k < n}
              T == {k \in S : jf[k].node = o.node}
  <2>2. {k \in Ones(jf) : k <= n + 1} = S \cup {n + 1}
    BY <1>5, <1>13, <2>1
  <2>3. {k \in Ones(js) : k <= n} = S \cup {n}
    <3>1. \A k \in Ones(jf) \cup Ones(js) : k < n => k \in 1 .. n - 1
      BY <1>5, <1>13
    <3>2. \A k \in Ones(js) : k <= n <=> k < n \/ k = n
      BY <1>5, <1>13
    <3>3. \A k : k \in {l \in Ones(js) : l <= n} <=> k \in S \cup {n}
      <4>1. ~ (n < n) /\ n <= n
        BY <1>5
      <4>. QED  BY <1>9, <1>12, <3>1, <3>2, <4>1
    <3>. QED  BY <3>3
  <2>4. OnesTo(jf, o.node, n + 1) = T \cup {n + 1}
    BY <1>5, <1>13, <2>1 DEF OnesTo
  <2>5. OnesTo(js, o.node, n) = T \cup {n}
    <3>1. \A k \in Ones(jf) \cup Ones(js) : k < n => k \in 1 .. n - 1
      BY <1>5, <1>13
    <3>2. \A k \in Ones(js) : k <= n <=> k < n \/ k = n
      BY <1>5, <1>13
    <3>3. \A k : k \in OnesTo(js, o.node, n) <=> k \in T \cup {n}
      <4>1. ~ (n < n) /\ n <= n
        BY <1>5
      <4>. QED  BY <1>9, <1>12, <3>1, <3>2, <4>1 DEF OnesTo
    <3>. QED  BY <3>3
  <2>6. IsFiniteSet(S)
    <3>1. S \subseteq Ones(jf) /\ \A k \in S : k <= n
      BY <1>5, <1>13
    <3>. HIDE DEF S
    <3>. QED  BY <1>5, <1>6, <3>1, OnesFinite
  <2>7. IsFiniteSet(T)
    BY <2>6, FS_Subset
  <2>8. n \notin S /\ n + 1 \notin S /\ n \notin T /\ n + 1 \notin T
    BY <1>5
  <2>. HIDE DEF S, T
  <2>9. Cardinality(S \cup {n + 1}) = Cardinality(S \cup {n}) /\ Cardinality(T \cup {n + 1}) = Cardinality(T \cup {n})
    BY <2>6, <2>7, <2>8, OneMoreEach
  <2>10. i = Cardinality({k \in Ones(js) : k <= n})
    <3>1. i = Cardinality({k \in Ones(jf) : k <= vs[i].start})
      BY <1>14
    <3>2. i = Cardinality({k \in Ones(jf) : k <= n + 1})
      BY <1>16, <3>1
    <3>. QED  BY <2>2, <2>3, <2>9, <3>2
  <2>11. us[i].start = n /\ us[i].node = js[n].node /\ us[i].ordinal = Cardinality(OnesTo(js, js[n].node, n))
    BY <1>6, <1>9, <2>10, VisitAt DEF us
  <2>12. vs[i].ordinal = Cardinality(OnesTo(jf, o.node, n + 1))
    BY <1>14, <1>16, <2>1
  <2>. QED  BY <1>9, <2>1, <2>4, <2>5, <2>9, <2>11, <2>12
<1>17. \A i \in 1 .. Len(vs) : vs[i].start # n
  BY <1>13, <1>14
<1>18. ASSUME NEW i \in 1 .. Len(vs)
       PROVE  /\ vs[i].start < n =>
                   /\ vs[i].node = us[i].node /\ vs[i].ordinal = us[i].ordinal /\ vs[i].start = us[i].start
                   /\ \/ us[i].start \in DOMAIN snaps[s]
                      \/ man[s].origin # None /\ us[i].start < man[s].origin.start
              /\ vs[i].start = n + 1 =>
                   /\ vs[i].node = us[i].node /\ vs[i].ordinal = us[i].ordinal /\ us[i].start = n
                   /\ vs[i].node = o.node /\ vs[i].ordinal = o.visit
                   /\ vs[i].start \in DOMAIN snaps[f] => snaps[f][vs[i].start].step = o.step
              /\ vs[i].start # n
  BY <1>8, <1>15, <1>16, <1>17
<1>. QED  BY <1>18 DEF n, jf, js, o, s, vs, us

LEMMA ForkVisitsBegan ==
  ASSUME ForkInv
  PROVE  VisitsAreWhatTheGraphBegan
<1>1. \A r \in Runs : journal[r] \in Seq(Record) /\ Validate(journal[r])
  BY DEF ForkInv, AnyInv, AnyOK, JournalOK
<1>2. \A r \in Runs : VisitsAreRight(journal[r])
  BY <1>1, EveryJournalsVisits
<1>. QED  BY <1>2 DEF VisitsAreWhatTheGraphBegan, VisitsAreRight

\* Whatever the invariant holds of is a fork as it should be.
LEMMA ForkInvSaysIt ==
  ASSUME ForkAssumption, ForkInv
  PROVE  ForkIsItsVisits
<1>1. \A f \in Made : /\ f \in Runs /\ There(f) /\ f # ForkSource /\ man[f].origin # None
                      /\ LET o == man[f].origin
                         IN  LinkOK(man[f], journal[f], copied[f], board[f], snaps[f],
                                    journal[o.run], snaps[o.run])
  BY DEF Made, Runs, There, ForkAssumption, ForkInv, ShapeInv, LinkInv
<1>2. ForkIsWhole
  BY <1>1 DEF ForkIsWhole, LinkOK, BackOK
<1>3. CopyIsOfOneTree
  BY DEF CopyIsOfOneTree, ForkInv, CmdInv, MakingInv, Making, Copied
<1>4. GivenWhatTheVisitWas
  BY <1>1 DEF GivenWhatTheVisitWas, LinkOK, BackOK, Given
<1>5. RoundIsKept
  BY DEF RoundIsKept, ForkInv, ShapeInv
<1>6. EveryDollarOnce
  <2>1. \A f \in Made : man[f].origin.inherited + Cardinality(Charged(f)) = worth[f]
    <3>1. \A f \in Made : MoneyOK(man[f], journal[f], worthAt[f], worth[f])
      BY <1>1 DEF ForkInv, RunInv, RunOK
    <3>. QED  BY <1>1, <3>1 DEF MoneyOK, Inherited, Charged
  <2>. QED  BY <2>1 DEF EveryDollarOnce, ForkInv, BankInv
<1>. QED  BY <1>2, <1>3, <1>4, <1>5, <1>6, ForkSameVisits, ForkVisitsBegan DEF ForkIsItsVisits

(***************************************************************************)
(* Where it begins.                                                        *)
(***************************************************************************)
LEMMA PlanDoneIs ==
  ASSUME ForkAssumption
  PROVE  LET j == PlanDone
         IN  /\ JournalOK(j) /\ Len(j) = 3 /\ Ones(j) = {2} /\ ~ Again(j)
             /\ Dollars(j, 3) = {<<3, 1>>} /\ Dollars(j, 1) = {}
<1>. DEFINE j == PlanDone
            a == RunMarker("run_started")
            b == NodeStarted("plan", 1)
            c == NodeFinished("plan", 1, "ok", "code", 1, "accepted")
<1>1. /\ a \in Record /\ a.event = "run_started" /\ a.usage = 0
  BY MarkersAreRecords DEF RunEvents
<1>2. "plan" \in Names /\ "code" \in Successors
  BY NamesAssumption DEF FirstNode, ForkAssumption, Successors
<1>3. b \in Record /\ b.event = "node_started" /\ b.node = "plan" /\ b.attempt = 1 /\ b.usage = 0
  BY <1>2, StartsAreRecords
<1>4. /\ c \in Record /\ c.event = "node_finished" /\ c.node = "plan" /\ c.attempt = 1
      /\ c.status = "ok" /\ c.next = "code" /\ c.usage = 1
  <2>1. "ok" \in Statuses /\ "accepted" \in Notes
    BY DEF Statuses, Notes
  <2>. QED  BY <1>2, <2>1, FinishesAreRecords
<1>5. j = <<a, b, c>>
  BY DEF PlanDone, Price
<1>. HIDE DEF j, a, b, c
<1>6. /\ j \in Seq(Record) /\ Len(j) = 3 /\ j[1] = a /\ j[2] = b /\ j[3] = c /\ j # <<>>
  BY <1>1, <1>3, <1>4, <1>5
<1>7. StartedAt(j) = {2} /\ FinishedAt(j) = {3}
  <2>1. 1 .. Len(j) = {1, 2, 3}
    BY <1>6
  <2>. QED  BY <1>1, <1>3, <1>4, <1>6, <2>1 DEF StartedAt, FinishedAt
<1>8. Validate(j) /\ ~ IsOpen(j)
  <2>1. \A i \in 1 .. Len(j) - 1 : i = 1 \/ i = 2
    BY <1>6
  <2>2. MayFollow(a, b) /\ MayFollow(b, c)
    BY <1>1, <1>3, <1>4 DEF MayFollow
  <2>3. \A i \in 1 .. Len(j) - 1 : MayFollow(j[i], j[i + 1])
    BY <1>6, <2>1, <2>2
  <2>. QED  BY <1>1, <1>4, <1>6, <2>3 DEF Validate, IsOpen
<1>9. JournalOK(j)
  <2>1. BegunByGraph(j, 2)
    BY <1>7 DEF BegunByGraph
  <2>2. Graphed(j)
    BY <1>2, <1>3, <1>4, <1>6, <1>7, <2>1 DEF Graphed
  <2>. QED  BY <1>6, <1>8, <2>2 DEF JournalOK
<1>10. Ones(j) = {2}
  BY <1>3, <1>6, <1>7 DEF Ones
<1>11. ~ Again(j)
  <2>1. LastFinished(j) = 3
    BY <1>7 DEF LastFinished
  <2>2. ~ Interrupted(j[3])
    BY <1>4, <1>6 DEF Interrupted
  <2>3. ResolveStart(j).attempt = 1
    BY <1>7, <1>8, <2>1, <2>2 DEF ResolveStart, Start
  <2>. QED  BY <2>3 DEF Again
<1>12. Dollars(j, 3) = {<<3, 1>>} /\ Dollars(j, 1) = {}
  <2>1. /\ \A i \in 1 .. 3 : i = 1 \/ i = 2 \/ i = 3
        /\ j[1].usage = 0 /\ j[2].usage = 0 /\ j[3].usage = 1
    BY <1>1, <1>3, <1>4, <1>6
  <2>2. 1 .. 0 = {} /\ 1 .. 1 = {1} /\ 3 \in 1 .. 3
    OBVIOUS
  <2>3. \A x : x \in Dollars(j, 3) <=> x = <<3, 1>>
    BY <2>1, <2>2 DEF Dollars
  <2>4. \A x : x \notin Dollars(j, 1)
    BY <2>1, <2>2 DEF Dollars
  <2>. QED  BY <2>3, <2>4
<1>. QED  BY <1>6, <1>9, <1>10, <1>11, <1>12 DEF j

LEMMA ForkBegins ==
  ASSUME ForkAssumption, ForkInit
  PROVE  ForkInv
<1>. DEFINE j == PlanDone
            m == Manifest("running", 1, 0, None)
            wa == WithAt(Empty, 2, 0)
<1>1. ForkSource \in Runs /\ ForkSource \notin Forks /\ Runs = Forks \cup {ForkSource}
  BY DEF Runs, ForkAssumption
<1>3. /\ DOMAIN man = Runs /\ DOMAIN journal = Runs /\ DOMAIN snaps = Runs /\ DOMAIN board = Runs
      /\ DOMAIN files = Runs /\ DOMAIN planFile = Runs /\ DOMAIN proc = Runs /\ DOMAIN worth = Runs
      /\ DOMAIN worthAt = Runs /\ DOMAIN copied = Runs
      /\ gaveUp = {} /\ cmd = NoCommand /\ bank = 1
  BY DEF ForkInit, Only, Price
<1>4. /\ man[ForkSource] = m /\ journal[ForkSource] = j /\ snaps[ForkSource] = PlanSnap
      /\ board[ForkSource] = [NewBoard EXCEPT !.plan = 1] /\ files[ForkSource] = NewTree
      /\ planFile[ForkSource] = 1 /\ worth[ForkSource] = 1 /\ worthAt[ForkSource] = wa
  BY <1>1 DEF ForkInit, Only, Price
<1>5. \A f \in Runs : f # ForkSource => /\ man[f] = None /\ journal[f] = <<>> /\ snaps[f] = Empty
                                        /\ board[f] = NewBoard /\ planFile[f] = 0 /\ proc[f] = "none"
                                        /\ worthAt[f] = Empty
  BY DEF ForkInit, Only
<1>6. /\ JournalOK(j) /\ Len(j) = 3 /\ Ones(j) = {2} /\ ~ Again(j)
      /\ Dollars(j, 3) = {<<3, 1>>} /\ Dollars(j, 1) = {}
  BY PlanDoneIs
<1>7. DOMAIN Empty = {}
  BY EmptyIsPart
<1>8. /\ DOMAIN wa = {2} /\ wa[2] = 0
      /\ DOMAIN PlanSnap = {2}
      /\ PlanSnap[2] = [step |-> 1, digest |-> NewTree, board |-> NewBoard]
  BY <1>7 DEF WithAt, PlanSnap
<1>9. /\ NewBoard \in Boards /\ [NewBoard EXCEPT !.plan = 1] \in Boards
      /\ NewTree \in [TreeFiles -> Nat]
      /\ [step |-> 1, digest |-> NewTree, board |-> NewBoard] \in Snapshots
  BY DEF NewBoard, Boards, NewTree, Snapshots
<1>10. m \in Manifests /\ m # None /\ m.origin = None /\ OwnOf(m) = 0 /\ Inherited(m) = 0
  <2>1. m \in Manifests /\ m.origin = None
    BY DEF Manifest, Manifests
  <2>. HIDE DEF m
  <2>. QED  BY <2>1 DEF OwnOf, Inherited, ForkAssumption
<1>. HIDE DEF j, m, wa
<1>11. ShapeInv
  BY <1>1, <1>3, <1>4, <1>5, <1>10 DEF ShapeInv, There
<1>12. AnyInv
  BY <1>4, <1>5, <1>6, <1>7, <1>9, <1>10, NothingIsFine DEF AnyInv, AnyOK
<1>13. RunInv
  <2>1. MoneyOK(m, j, wa, 1)
    <3>1. Cardinality({<<3, 1>>}) = 1 /\ Cardinality({}) = 0
      BY FS_Singleton, FS_EmptySet
    <3>2. \A i \in DOMAIN wa : i = 2 /\ i - 1 = 1 /\ wa[i] = 0
      BY <1>8
    <3>. QED  BY <1>6, <1>10, <3>1, <3>2 DEF MoneyOK
  <2>2. SnapsOK(0, j, {2}, {2})
    BY <1>6 DEF SnapsOK
  <2>3. RunOK(m, j, PlanSnap, NewTree, wa, 1)
    BY <1>8, <1>9, <1>10, <2>1, <2>2 DEF RunOK
  <2>. QED  BY <1>4, <1>5, <2>3 DEF RunInv, There
<1>14. LinkInv
  BY <1>4, <1>5, <1>10 DEF LinkInv, There
<1>15. BankInv
  <2>1. Made \cup {ForkSource} = {ForkSource}
    BY <1>1, <1>5 DEF Made
  <2>2. Charged(ForkSource) = {<<3, 1>>}
    BY <1>4, <1>6 DEF Charged
  <2>3. UNION {{r} \X Charged(r) : r \in Made \cup {ForkSource}} = {<<ForkSource, <<3, 1>>>>}
    BY <2>1, <2>2
  <2>. QED  BY <1>3, <2>3, FS_Singleton DEF BankInv
<1>16. CmdInv
  BY <1>3 DEF NoCommand, CmdInv, AskedInv, ReadInv, MakingInv, CopyInv, Read, Making
<1>. QED  BY <1>11, <1>12, <1>13, <1>14, <1>15, <1>16 DEF ForkInv

(***************************************************************************)
(* Every step.                                                             *)
(***************************************************************************)
LEMMA RunMovesKeep ==
  ASSUME NEW r \in Runs, ForkAssumption, ForkInv, RunMoves(r) \/ EditRun(r)
  PROVE  ForkInv'
<1>1. CASE BeginNode(r)
  BY <1>1, BeginNodeKeeps, OneRunKeeps
<1>2. CASE SaveSnapshotOnce(r)
  BY <1>2, SaveSnapshotKeeps, OneRunKeeps
<1>3. CASE RunNode(r)
  BY <1>3, RunNodeKeeps, OneRunKeeps
<1>4. CASE Stop(r)
  BY <1>4, StopKeeps, OneRunKeeps
<1>5. CASE RunDies(r)
  BY <1>5, DieKeeps, OneRunKeeps
<1>6. CASE ResumeRun(r)
  BY <1>6, ResumeKeeps, OneRunKeeps
<1>7. CASE EditRun(r)
  BY <1>7, EditKeeps, OneRunKeeps
<1>. QED  BY <1>1, <1>2, <1>3, <1>4, <1>5, <1>6, <1>7 DEF RunMoves

LEMMA ForkStepKeeps ==
  ASSUME ForkAssumption, ForkInv, [ForkNext]_forkVars
  PROVE  ForkInv'
<1>1. CASE \E r \in Runs : RunMoves(r) \/ EditRun(r)
  BY <1>1, RunMovesKeep
<1>2. CASE \E s \in Runs : AskFork(s)
  BY <1>2, AskForkKeeps
<1>3. CASE \E n \in Names, ordinal \in 0 .. 1 : ReadSource(n, ordinal)
  BY <1>3, ReadSourceKeeps
<1>4. CASE Survey
  BY <1>4, SurveyKeeps
<1>5. CASE \E accept \in BOOLEAN : checkFilesAndPlan(accept)
  BY <1>5, checkFilesAndPlanKeeps
<1>6. CASE CopyTree
  BY <1>6, CopyTreeKeeps
<1>7. CASE SurveyAgain
  BY <1>7, SurveyAgainKeeps
<1>8. CASE CheckCopy
  BY <1>8, CheckCopyKeeps
<1>9. CASE WriteBlackboard
  BY <1>9, WriteBlackboardKeeps
<1>10. CASE CreateJournal
  BY <1>10, CreateJournalKeeps
<1>11. CASE WriteManifest
  BY <1>11, WriteManifestKeeps
<1>12. CASE Destroy
  BY <1>12, DestroyKeeps
<1>13. CASE CommandDies
  BY <1>13, CommandDiesKeeps
<1>14. CASE UNCHANGED forkVars
  <2>1. UNCHANGED <<runDirs, proc, forkHist>> /\ cmd' = cmd
    BY <1>14 DEF forkVars
  <2>2. CmdInv'
    <3>1. AskedInv'
      BY <2>1 DEF ForkInv, CmdInv, AskedInv, There, runDirs
    <3>2. ReadInv'
      BY <2>1 DEF ForkInv, CmdInv, ReadInv, There, runDirs, forkHist, Read, Making
    <3>3. MakingInv' /\ CopyInv'
      BY <2>1 DEF ForkInv, CmdInv, MakingInv, CopyInv, There, runDirs, Making, Copied,
                  FilesChanged, noteGiveUp
    <3>. QED  BY <2>1, <3>1, <3>2, <3>3 DEF ForkInv, CmdInv, Read, Making
  <2>. QED  BY <2>1, <2>2, CmdOnlyKeeps
<1>. QED
  BY <1>1, <1>2, <1>3, <1>4, <1>5, <1>6, <1>7, <1>8, <1>9, <1>10, <1>11, <1>12, <1>13, <1>14 DEF ForkNext

\* A fork is whole, begins with what its visit was given, of one tree, goes
\* on as its source would have, numbers visits as it does, and counts every
\* dollar once (internal/fork, state/origin.go), whatever is edited, resumed
\* or cut off while it is made.
THEOREM ForksAreTheirVisits == ForkSpec => []ForkIsItsVisits
<1>1. ForkAssumption
  BY ForksAssumption
<1>2. ForkInit => ForkInv
  BY <1>1, ForkBegins
<1>3. ForkInv /\ [ForkNext]_forkVars => ForkInv'
  BY <1>1, ForkStepKeeps
<1>4. ForkInv => ForkIsItsVisits
  BY <1>1, ForkInvSaysIt
<1>. QED  BY <1>2, <1>3, <1>4, PTL DEF ForkSpec

=============================================================================
