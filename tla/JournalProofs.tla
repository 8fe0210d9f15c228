--------------------------- MODULE JournalProofs ---------------------------
(***************************************************************************)
(* What one more record does to a journal.  Nothing here depends on what   *)
(* the records hold beyond the fields the definitions read, so a journal   *)
(* is any sequence, of members of any set.                                 *)
(***************************************************************************)
EXTENDS Journal, TLAPS, WellFoundedInduction

IsASequence(j) == \E S : j \in Seq(S)

\* Append adds one record at the end and touches no other.
LEMMA AppendFacts ==
  ASSUME NEW j, NEW r, IsASequence(j)
  PROVE  /\ IsASequence(Append(j, r))
         /\ Append(j, r) # <<>>
         /\ Len(j) \in Nat
         /\ Len(Append(j, r)) = Len(j) + 1
         /\ Append(j, r)[Len(j) + 1] = r
         /\ \A i \in 1 .. Len(j) : Append(j, r)[i] = j[i]
<1>1. PICK S : j \in Seq(S)
  BY DEF IsASequence
<1>2. j \in Seq(S \cup {r})
  BY <1>1
<1>3. Append(j, r) \in Seq(S \cup {r})
  BY <1>2
<1>4. QED
  BY <1>2, <1>3 DEF IsASequence

\* A journal is empty exactly when it has no record.
LEMMA EmptyJournal ==
  ASSUME NEW j, IsASequence(j)
  PROVE  j = <<>> <=> Len(j) = 0
BY DEF IsASequence

\* A record that may follow the last one keeps a journal valid; the first
\* record may be any but a node_finished (journal.Validate).
LEMMA AppendValid ==
  ASSUME NEW j, NEW r, IsASequence(j), Validate(j),
         j = <<>> => r.event # "node_finished",
         j # <<>> => MayFollow(j[Len(j)], r)
  PROVE  Validate(Append(j, r))
<1> DEFINE k == Append(j, r)
<1>1. /\ Len(j) \in Nat
      /\ Len(k) = Len(j) + 1
      /\ k[Len(j) + 1] = r
      /\ \A i \in 1 .. Len(j) : k[i] = j[i]
  BY AppendFacts
<1>2. j = <<>> <=> Len(j) = 0
  BY EmptyJournal
<1> HIDE DEF k
<1>3. k[1].event # "node_finished"
  <2>1. CASE Len(j) = 0
    BY <2>1, <1>1, <1>2
  <2>2. CASE Len(j) # 0
    <3>1. k[1] = j[1]
      BY <2>2, <1>1
    <3>2. QED
      BY <3>1, <2>2, <1>2 DEF Validate
  <2>3. QED
    BY <2>1, <2>2
<1>4. ASSUME NEW i \in 1 .. Len(k) - 1
      PROVE  MayFollow(k[i], k[i + 1])
  <2>1. i \in 1 .. Len(j)
    BY <1>1
  <2>2. CASE i = Len(j)
    <3>1. k[i] = j[i] /\ k[i + 1] = r
      BY <2>1, <2>2, <1>1
    <3>2. j # <<>>
      BY <2>1, <2>2, <1>1, <1>2
    <3>3. QED
      BY <3>1, <3>2, <2>2
  <2>3. CASE i # Len(j)
    <3>1. i + 1 \in 1 .. Len(j) /\ i \in 1 .. Len(j) - 1
      BY <2>1, <2>3, <1>1
    <3>2. k[i] = j[i] /\ k[i + 1] = j[i + 1]
      BY <2>1, <3>1, <1>1
    <3>3. QED
      BY <3>1, <3>2 DEF Validate
  <2>4. QED
    BY <2>2, <2>3
<1>5. QED
  BY <1>3, <1>4 DEF Validate, k

\* Only a journal that ends in a node_started is open.
LEMMA AppendOpen ==
  ASSUME NEW j, NEW r, IsASequence(j)
  PROVE  /\ IsOpen(Append(j, r)) <=> r.event = "node_started"
         /\ Append(j, r)[Len(Append(j, r))] = r
BY AppendFacts DEF IsOpen

\* Whatever is not a node_finished may follow a journal that is not open,
\* and the completion of its last record may follow one that is.
LEMMA AppendToClosed ==
  ASSUME NEW j, NEW r, IsASequence(j), Validate(j), ~ IsOpen(j),
         r.event # "node_finished"
  PROVE  Validate(Append(j, r))
<1>1. j # <<>> => MayFollow(j[Len(j)], r)
  BY DEF IsOpen, MayFollow
<1>2. QED
  BY <1>1, AppendValid

LEMMA AppendToOpen ==
  ASSUME NEW j, NEW r, IsASequence(j), Validate(j), IsOpen(j),
         r.event = "node_finished", r.node = j[Len(j)].node,
         r.attempt = j[Len(j)].attempt
  PROVE  Validate(Append(j, r))
<1>1. j # <<>> /\ MayFollow(j[Len(j)], r)
  BY DEF IsOpen, MayFollow
<1>2. QED
  BY <1>1, AppendValid

\* The completions of a longer journal are those it had, and the new record
\* when it is one.
LEMMA AppendFinished ==
  ASSUME NEW j, NEW r, IsASequence(j)
  PROVE  FinishedAt(Append(j, r)) =
           FinishedAt(j) \cup (IF r.event = "node_finished" THEN {Len(j) + 1} ELSE {})
<1>1. /\ Len(j) \in Nat
      /\ Len(Append(j, r)) = Len(j) + 1
      /\ Append(j, r)[Len(j) + 1] = r
      /\ \A i \in 1 .. Len(j) : Append(j, r)[i] = j[i]
  BY AppendFacts
<1>2. 1 .. Len(j) + 1 = (1 .. Len(j)) \cup {Len(j) + 1}
  BY <1>1
<1>3. QED
  BY <1>1, <1>2 DEF FinishedAt

-----------------------------------------------------------------------------
(***************************************************************************)
(* Where a run resumes, after one more record.  Every set of positions of  *)
(* a journal has a last one, which is what the searches return.            *)
(***************************************************************************)
LEMMA LeastOfASet ==
  ASSUME NEW S \in SUBSET Nat, S # {}
  PROVE  \E m \in S : \A k \in S : m <= k
<1>1. PICK x \in S : \A y \in S : ~ (<<y, x>> \in OpToRel(<, Nat))
  BY WFMin, NatLessThanWellFounded
<1>2. \A y \in S : x <= y
  <2> SUFFICES ASSUME NEW y \in S, ~ (x <= y) PROVE FALSE
    OBVIOUS
  <2>1. <<y, x>> \in Nat \X Nat /\ <<y, x>>[1] < <<y, x>>[2]
    OBVIOUS
  <2>2. QED
    BY <1>1, <2>1 DEF OpToRel
<1>3. QED
  BY <1>2

LEMMA LastOfASet ==
  ASSUME NEW n \in Nat, NEW S \in SUBSET (1 .. n), S # {}
  PROVE  \E m \in S : \A k \in S : k <= m
<1> DEFINE U == {u \in Nat : \A k \in S : k <= u}
<1>1. U \in SUBSET Nat /\ n \in U
  OBVIOUS
<1>2. PICK x \in U : \A y \in U : x <= y
  BY <1>1, LeastOfASet
<1>3. x \in S
  <2> SUFFICES ASSUME x \notin S PROVE FALSE
    OBVIOUS
  <2>1. PICK s \in S : s \in 1 .. n
    OBVIOUS
  <2>2. x \in Nat /\ s <= x
    BY <2>1
  <2>3. x - 1 \in Nat
    BY <2>1, <2>2
  <2>4. ASSUME NEW k \in S PROVE k <= x - 1
    <3>1. k \in Nat /\ k <= x /\ k # x
      OBVIOUS
    <3>2. QED
      BY <2>2, <3>1
  <2>5. x - 1 \in U
    BY <2>3, <2>4
  <2>6. x <= x - 1
    BY <1>2, <2>5
  <2>7. QED
    BY <2>2, <2>6
<1>4. QED
  BY <1>2, <1>3

LEMMA LastFinishedIs ==
  ASSUME NEW j, NEW m \in FinishedAt(j), \A k \in FinishedAt(j) : k <= m
  PROVE  LastFinished(j) = m
<1>1. /\ LastFinished(j) \in FinishedAt(j)
      /\ \A k \in FinishedAt(j) : k <= LastFinished(j)
  BY DEF LastFinished
<1>2. m <= LastFinished(j) /\ LastFinished(j) <= m
  BY <1>1
<1>3. m \in Int /\ LastFinished(j) \in Int
  BY <1>1 DEF FinishedAt
<1>4. QED
  BY <1>2, <1>3

LEMMA LastFinishedIsLast ==
  ASSUME NEW j, IsASequence(j), FinishedAt(j) # {}
  PROVE  /\ LastFinished(j) \in FinishedAt(j)
         /\ LastFinished(j) \in 1 .. Len(j)
         /\ \A k \in FinishedAt(j) : k <= LastFinished(j)
<1>1. Len(j) \in Nat /\ FinishedAt(j) \in SUBSET (1 .. Len(j))
  BY AppendFacts DEF FinishedAt
<1>2. PICK m \in FinishedAt(j) : \A k \in FinishedAt(j) : k <= m
  BY <1>1, LastOfASet
<1>3. LastFinished(j) = m
  BY <1>2, LastFinishedIs
<1>4. QED
  BY <1>1, <1>2, <1>3

\* A completion is the last one; any other record leaves the last one where
\* it was.
LEMMA AppendLastFinished ==
  ASSUME NEW j, NEW r, IsASequence(j)
  PROVE  /\ r.event = "node_finished" => LastFinished(Append(j, r)) = Len(j) + 1
         /\ r.event # "node_finished" /\ FinishedAt(j) # {} =>
              /\ LastFinished(Append(j, r)) = LastFinished(j)
              /\ Append(j, r)[LastFinished(j)] = j[LastFinished(j)]
<1>1. Len(j) \in Nat
  BY AppendFacts
<1>2. \A k \in FinishedAt(j) : k \in 1 .. Len(j)
  BY DEF FinishedAt
<1>3. FinishedAt(Append(j, r)) =
        FinishedAt(j) \cup (IF r.event = "node_finished" THEN {Len(j) + 1} ELSE {})
  BY AppendFinished
<1>4. ASSUME r.event = "node_finished"
      PROVE  LastFinished(Append(j, r)) = Len(j) + 1
  <2>1. Len(j) + 1 \in FinishedAt(Append(j, r))
    BY <1>3, <1>4
  <2>2. \A k \in FinishedAt(Append(j, r)) : k <= Len(j) + 1
    BY <1>1, <1>2, <1>3, <1>4
  <2>3. QED
    BY <2>1, <2>2, LastFinishedIs
<1>5. ASSUME r.event # "node_finished", FinishedAt(j) # {}
      PROVE  /\ LastFinished(Append(j, r)) = LastFinished(j)
             /\ Append(j, r)[LastFinished(j)] = j[LastFinished(j)]
  <2>1. FinishedAt(Append(j, r)) = FinishedAt(j)
    BY <1>3, <1>5
  <2>2. QED
    BY <1>5, <2>1, LastFinishedIsLast, AppendFacts DEF LastFinished
<1>6. QED
  BY <1>4, <1>5

LEMMA AppendStartedANode ==
  ASSUME NEW j, NEW r, IsASequence(j)
  PROVE  StartedANode(Append(j, r)) <=>
           StartedANode(j) \/ r.event \in {"node_started", "node_finished"}
BY AppendFacts DEF StartedANode

\* A journal that is open, or holds a completion, has started a node.
LEMMA StartedIsStarted ==
  ASSUME NEW j, IsASequence(j), IsOpen(j) \/ FinishedAt(j) # {}
  PROVE  StartedANode(j)
<1>1. Len(j) \in Nat /\ (j # <<>> => Len(j) \in 1 .. Len(j))
  BY AppendFacts, EmptyJournal
<1>2. QED
  BY <1>1 DEF StartedANode, IsOpen, FinishedAt

\* A run marker leaves the place and changes the state.
LEMMA ResolveAfterMarker ==
  ASSUME NEW j, IsASequence(j), ~ IsOpen(j), NEW e \in RunEvents
  PROVE  ResolveStart(Append(j, RunMarker(e))) =
           Start(RunStateOf(e), ResolveStart(j).node, ResolveStart(j).attempt)
<1> DEFINE r == RunMarker(e)
           k == Append(j, r)
<1>1. r.event = e /\ e # "node_started" /\ e # "node_finished"
  BY DEF RunMarker, RunEvents
<1> HIDE DEF r
<1>2. ~ IsOpen(k) /\ k # <<>> /\ k[Len(k)].event = e
  BY <1>1, AppendOpen, AppendFacts
<1>3. FinishedAt(k) = FinishedAt(j)
  BY <1>1, AppendFinished
<1>4. FinishedAt(j) # {} => LastFinished(k) = LastFinished(j) /\ k[LastFinished(j)] = j[LastFinished(j)]
  BY <1>1, AppendLastFinished
<1> HIDE DEF k
<1>5. CASE FinishedAt(j) = {}
  <2>1. ResolveStart(k) = Start(RunStateOf(e), FirstNode, 1)
    BY <1>2, <1>3, <1>5 DEF ResolveStart
  <2>2. ResolveStart(j).node = FirstNode /\ ResolveStart(j).attempt = 1
    BY <1>5 DEF ResolveStart, Start
  <2>3. QED
    BY <2>1, <2>2 DEF k, r
<1>6. CASE FinishedAt(j) # {}
  <2> DEFINE last == j[LastFinished(j)]
             a    == IF Interrupted(last) THEN last.attempt + 1 ELSE 1
  <2>1. ResolveStart(k) = Start(RunStateOf(e), last.next, a)
    BY <1>2, <1>3, <1>4, <1>6 DEF ResolveStart
  <2>2. ResolveStart(j).node = last.next /\ ResolveStart(j).attempt = a
    BY <1>6 DEF ResolveStart, Start
  <2> HIDE DEF last, a
  <2>3. QED
    BY <2>1, <2>2 DEF k, r
<1>7. QED
  BY <1>5, <1>6

LEMMA ResolveAfterStarted ==
  ASSUME NEW j, IsASequence(j), NEW n, NEW a
  PROVE  ResolveStart(Append(j, NodeStarted(n, a))) = Start("runnable", n, a + 1)
<1> DEFINE r == NodeStarted(n, a)
           k == Append(j, r)
<1>1. r.event = "node_started" /\ r.node = n /\ r.attempt = a
  BY DEF NodeStarted
<1> HIDE DEF r
<1>2. IsOpen(k) /\ k[Len(k)] = r
  BY <1>1, AppendOpen
<1> HIDE DEF k
<1>3. ResolveStart(k) = Start("runnable", n, a + 1)
  BY <1>1, <1>2 DEF ResolveStart
<1>4. QED
  BY <1>3 DEF k, r

LEMMA ResolveAfterFinished ==
  ASSUME NEW j, IsASequence(j), NEW r, r.event = "node_finished"
  PROVE  ResolveStart(Append(j, r)) =
           Start("runnable", r.next, IF Interrupted(r) THEN r.attempt + 1 ELSE 1)
<1> DEFINE k == Append(j, r)
<1>1. ~ IsOpen(k) /\ k # <<>> /\ k[Len(k)] = r
  BY AppendOpen, AppendFacts
<1>2. FinishedAt(k) # {} /\ k[LastFinished(k)] = r
  <2>1. FinishedAt(k) = FinishedAt(j) \cup {Len(j) + 1}
    BY AppendFinished
  <2>2. LastFinished(k) = Len(j) + 1 /\ k[Len(j) + 1] = r
    BY AppendLastFinished, AppendFacts
  <2>3. QED
    BY <2>1, <2>2
<1>3. RunStateOf("node_finished") = "runnable"
  BY DEF RunStateOf
<1> HIDE DEF k
<1>4. ResolveStart(k) = Start("runnable", r.next, IF Interrupted(r) THEN r.attempt + 1 ELSE 1)
  BY <1>1, <1>2, <1>3 DEF ResolveStart
<1>5. QED
  BY <1>4 DEF k

(***************************************************************************)
(* The attempt a re-run repeats.                                           *)
(***************************************************************************)
LEMMA AppendAttemptOnes ==
  ASSUME NEW j, NEW r, NEW n, IsASequence(j)
  PROVE  AttemptOnes(Append(j, r), n) =
           AttemptOnes(j, n) \cup
             (IF r.event = "node_started" /\ r.node = n /\ r.attempt = 1 THEN {Len(j) + 1} ELSE {})
<1>1. /\ Len(j) \in Nat
      /\ Len(Append(j, r)) = Len(j) + 1
      /\ Append(j, r)[Len(j) + 1] = r
      /\ \A i \in 1 .. Len(j) : Append(j, r)[i] = j[i]
  BY AppendFacts
<1>2. 1 .. Len(j) + 1 = (1 .. Len(j)) \cup {Len(j) + 1}
  BY <1>1
<1>3. QED
  BY <1>1, <1>2 DEF AttemptOnes

LEMMA AttemptOneSeqIs ==
  ASSUME NEW j, NEW n, NEW m \in AttemptOnes(j, n), \A k \in AttemptOnes(j, n) : k <= m
  PROVE  AttemptOneSeq(j, n) = m
<1>1. /\ AttemptOneSeq(j, n) \in AttemptOnes(j, n)
      /\ \A k \in AttemptOnes(j, n) : k <= AttemptOneSeq(j, n)
  BY DEF AttemptOneSeq
<1>2. m <= AttemptOneSeq(j, n) /\ AttemptOneSeq(j, n) <= m
  BY <1>1
<1>3. m \in Int /\ AttemptOneSeq(j, n) \in Int
  BY <1>1 DEF AttemptOnes
<1>4. QED
  BY <1>2, <1>3

LEMMA AttemptOneSeqIsLast ==
  ASSUME NEW j, NEW n, IsASequence(j)
  PROVE  /\ AttemptOnes(j, n) = {} => AttemptOneSeq(j, n) = 0
         /\ AttemptOnes(j, n) # {} => /\ AttemptOneSeq(j, n) \in AttemptOnes(j, n)
                                      /\ AttemptOneSeq(j, n) \in 1 .. Len(j)
         /\ AttemptOneSeq(j, n) \in Nat
<1>1. Len(j) \in Nat /\ AttemptOnes(j, n) \in SUBSET (1 .. Len(j))
  BY AppendFacts DEF AttemptOnes
<1>2. CASE AttemptOnes(j, n) # {}
  <2>1. PICK m \in AttemptOnes(j, n) : \A k \in AttemptOnes(j, n) : k <= m
    BY <1>1, <1>2, LastOfASet
  <2>2. AttemptOneSeq(j, n) = m
    BY <2>1, AttemptOneSeqIs
  <2>3. QED
    BY <1>1, <1>2, <2>1, <2>2
<1>3. CASE AttemptOnes(j, n) = {}
  BY <1>3 DEF AttemptOneSeq
<1>4. QED
  BY <1>2, <1>3

LEMMA AppendAttemptOneSeq ==
  ASSUME NEW j, NEW r, NEW n, IsASequence(j)
  PROVE  AttemptOneSeq(Append(j, r), n) =
           IF r.event = "node_started" /\ r.node = n /\ r.attempt = 1
             THEN Len(j) + 1 ELSE AttemptOneSeq(j, n)
<1>1. Len(j) \in Nat
  BY AppendFacts
<1>2. \A k \in AttemptOnes(j, n) : k \in 1 .. Len(j)
  BY DEF AttemptOnes
<1>3. CASE r.event = "node_started" /\ r.node = n /\ r.attempt = 1
  <2>1. AttemptOnes(Append(j, r), n) = AttemptOnes(j, n) \cup {Len(j) + 1}
    BY <1>3, AppendAttemptOnes
  <2>2. \A k \in AttemptOnes(Append(j, r), n) : k <= Len(j) + 1
    BY <1>1, <1>2, <2>1
  <2>3. QED
    BY <1>3, <2>1, <2>2, AttemptOneSeqIs
<1>4. CASE ~ (r.event = "node_started" /\ r.node = n /\ r.attempt = 1)
  <2>1. AttemptOnes(Append(j, r), n) = AttemptOnes(j, n)
    <3>1. AttemptOnes(Append(j, r), n) = AttemptOnes(j, n) \cup {}
      BY <1>4, AppendAttemptOnes
    <3>2. QED
      BY <3>1
  <2>2. QED
    BY <1>4, <2>1 DEF AttemptOneSeq
<1>5. QED
  BY <1>3, <1>4

=============================================================================
