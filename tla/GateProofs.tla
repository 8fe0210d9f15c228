----------------------------- MODULE GateProofs -----------------------------
(***************************************************************************)
(* Nobody's work begins on a plan nobody approved, and no plan is paid for *)
(* that nobody asked for: for any plans, limits, requests, crashes and     *)
(* re-runs.                                                                *)
(*                                                                         *)
(* What a person decides is written into the blackboard between two        *)
(* dispatches, and what the gate decides is read from the snapshot its     *)
(* visit took, which may be older.  So the invariant is of every plan      *)
(* block that is still to be read: the blackboard's, the one the accepted  *)
(* results add up to, and that of the visit's snapshot.                    *)
(***************************************************************************)
EXTENDS Gate, DispatcherProofs, FiniteSetTheorems

PlansAt(j) == {i \in Accepted(j) : j[i].node = "plan"}
Planned    == Cardinality(PlansAt(journal))

\* A plan block says no more than what happened: it is approved only where a
\* person approved the plan in hand, and counts each plan asked for.
Sound(p) == /\ p.approved => WasApproved
            /\ p.served <= p.request
            /\ Planned <= 1 + p.served

\* When the plan node is next, the plan it will write is the first one, or
\* one more was asked for than there are.
Due(p) == StartOf(journal).node = "plan" => Planned = 0 \/ Planned <= p.request

BoardSound == /\ Sound(board["plan"]) /\ Sound(committed["plan"]) /\ Due(board["plan"])

SnapSound ==
  StartOf(journal).attempt > 1 /\ Key \in DOMAIN snaps =>
    /\ Sound(snaps[Key]["plan"]) /\ Due(snaps[Key]["plan"])
    /\ snaps[Key]["plan"].request <= board["plan"].request

HandedOn == StartOf(journal).node = "code" => WasApproved

\* A plan is new to everybody until the gate has paused over it.
PauseSeen ==
  /\ FinishedAt(journal) # {}
  /\ journal[LastFinished(journal)].node = "approve"
  /\ journal[LastFinished(journal)].status = "paused"
  => approval # "unseen"

PatchInHand ==
  pc = "finish" /\ closing.note = "accepted" /\ "plan" \in DOMAIN patch => board = patch

GateInv == BoardSound /\ SnapSound /\ HandedOn /\ PauseSeen /\ PatchInHand

\* What holds of the dispatcher, whatever its nodes do.
RunHolds == Inv /\ TypeInv /\ CtlInv /\ HandInv

-----------------------------------------------------------------------------
(***************************************************************************)
(* Plan blocks and the results of nodes.                                   *)
(***************************************************************************)
LEMMA PlanOf ==
  ASSUME NEW b \in Boards
  PROVE  /\ b["plan"] \in Plans
         /\ b["plan"].request \in Nat /\ b["plan"].served \in Nat
         /\ b["plan"].approved \in BOOLEAN
         /\ b = [plan |-> b["plan"]]
BY GateAssumption DEF Boards, GateFields, Plans

LEMMA BoardOf ==
  ASSUME NEW p \in Plans
  PROVE  [plan |-> p] \in Boards
BY GateAssumption DEF Boards, GateFields

LEMMA PatchedIs ==
  ASSUME NEW b \in Boards, NEW q
  PROVE  /\ Patched(b, [plan |-> q]) = [plan |-> q]
         /\ Patched(b, <<>>) = b
         /\ "plan" \notin DOMAIN <<>>
<1>1. Fields = {"plan"}
  BY GateAssumption DEF GateFields
<1>2. DOMAIN [plan |-> q] = {"plan"} /\ DOMAIN <<>> = {}
  OBVIOUS
<1>3. Patched(b, [plan |-> q]) = [plan |-> q]
  BY <1>1, <1>2 DEF Patched
<1>4. Patched(b, <<>>) = b
  BY <1>1, <1>2 DEF Patched, Boards
<1>5. QED
  BY <1>2, <1>3, <1>4

\* What a node's result may set: a new plan, never approved; an edit's
\* digest, and nothing else.
NewPlan(q, p) == \E doc \in Docs : q = [plan |-> PlanFor(p, doc)]
EditOf(q, p)  == q = <<>> \/ \E doc \in Docs : q = [plan |-> [p EXCEPT !.digest = doc]]

PlanResult(p, r) == r.status = "ok" /\ r.next = "approve" /\ NewPlan(r.patch, p)

GateResult(p, r) ==
  /\ EditOf(r.patch, p)
  /\ \/ r.status = "ok" /\ r.next = "plan" /\ Pending(p)
     \/ r.status = "ok" /\ r.next = "code" /\ p.approved
     \/ r.status = "paused"

LEMMA PlanNodeIs ==
  ASSUME NEW p, NEW file, NEW r \in PlanNode(p, file), r.err = "none"
  PROVE  PlanResult(p, r)
BY DEF PlanNode, Returns, Fails, PlanResult, NewPlan

LEMMA EditPatchIs ==
  ASSUME NEW p, NEW file
  PROVE  EditOf(EditPatch(p, file), p) /\ EditOf(<<>>, p)
BY DEF EditPatch, EditOf

LEMMA ApproveNodeIs ==
  ASSUME NEW p, NEW file, NEW r \in ApproveNode(p, file), r.err = "none"
  PROVE  GateResult(p, r)
<1> DEFINE e == EditPatch(p, file)
<1>1. EditOf(e, p) /\ EditOf(<<>>, p)
  BY EditPatchIs
<1> HIDE DEF e
<1>2. CASE Pending(p)
  <2>1. r = Returns("ok", "plan", e, 0, file)
    BY <1>2 DEF ApproveNode, e
  <2>2. QED
    BY <1>1, <1>2, <2>1 DEF Returns, GateResult
<1>3. CASE ~ Pending(p)
  <2>1. r = IF file = Empty THEN Returns("paused", NoNode, <<>>, 0, file)
            ELSE IF file = Unreadable THEN Fails(0, file)
            ELSE IF p.approved THEN Returns("ok", "code", e, 0, file)
            ELSE Returns("paused", NoNode, e, 0, file)
    BY <1>3 DEF ApproveNode, e
  <2>2. QED
    BY <1>1, <2>1 DEF Returns, Fails, GateResult
<1>4. QED
  BY <1>2, <1>3

LEMMA ResultIs ==
  ASSUME NEW n \in Nodes, NEW b \in Boards, NEW w \in Worlds,
         NEW r \in NodeResults(n, b, w), Acceptable(r)
  PROVE  LET p == b["plan"]
         IN  \/ n = "plan" /\ PlanResult(p, r)
             \/ n = "approve" /\ GateResult(p, r)
             \/ n = "code" /\ r.status = "ok" /\ r.next = End /\ r.patch = <<>>
<1>1. r \in GateResults(n, b, w) /\ n \in {"plan", "approve", "code"} /\ r.err = "none"
  BY GateAssumption DEF GateNames, Acceptable
<1>2. CASE n = "plan"
  BY <1>1, <1>2, PlanNodeIs DEF GateResults
<1>3. CASE n = "approve"
  BY <1>1, <1>3, ApproveNodeIs DEF GateResults
<1>4. CASE n = "code"
  BY <1>1, <1>4 DEF GateResults, CodeNode, Coded, Returns, Fails
<1>5. QED
  BY <1>1, <1>2, <1>3, <1>4

-----------------------------------------------------------------------------
(***************************************************************************)
(* What one more record does to the plans paid for, and to the last        *)
(* completion.                                                             *)
(***************************************************************************)
LEMMA PlansAreFinite ==
  ASSUME NEW j, IsASequence(j)
  PROVE  IsFiniteSet(PlansAt(j)) /\ Cardinality(PlansAt(j)) \in Nat
<1>1. Len(j) \in Nat /\ PlansAt(j) \subseteq 1 .. Len(j)
  BY AppendFacts DEF PlansAt, Accepted, FinishedAt
<1>2. IsFiniteSet(1 .. Len(j))
  BY <1>1, FS_Interval
<1>3. IsFiniteSet(PlansAt(j))
  BY <1>1, <1>2, FS_Subset
<1>4. QED
  BY <1>3, FS_CardinalityType

IsAPlan(r) == r.event = "node_finished" /\ r.note = "accepted" /\ r.node = "plan"

LEMMA AppendPlans ==
  ASSUME NEW j, NEW r, IsASequence(j)
  PROVE  Cardinality(PlansAt(Append(j, r))) =
           Cardinality(PlansAt(j)) + (IF IsAPlan(r) THEN 1 ELSE 0)
<1> DEFINE k == Append(j, r)
<1>1. /\ Len(j) \in Nat /\ k[Len(j) + 1] = r
      /\ \A i \in 1 .. Len(j) : k[i] = j[i]
  BY AppendFacts
<1>2. FinishedAt(k) = FinishedAt(j) \cup
        (IF r.event = "node_finished" THEN {Len(j) + 1} ELSE {})
  BY AppendFinished
<1>3. FinishedAt(j) \subseteq 1 .. Len(j)
  BY DEF FinishedAt
<1> HIDE DEF k
<1>4. PlansAt(k) = PlansAt(j) \cup (IF IsAPlan(r) THEN {Len(j) + 1} ELSE {})
  <2>1. ASSUME NEW i \in FinishedAt(j)
        PROVE  i \in PlansAt(k) <=> i \in PlansAt(j)
    BY <1>1, <1>2, <1>3, <2>1 DEF PlansAt, Accepted
  <2>2. PlansAt(j) \subseteq FinishedAt(j) /\ PlansAt(k) \subseteq FinishedAt(k)
    BY DEF PlansAt, Accepted
  <2>3. Len(j) + 1 \in PlansAt(k) <=> IsAPlan(r)
    BY <1>1, <1>2, <1>3 DEF PlansAt, Accepted, IsAPlan
  <2>4. IsAPlan(r) => r.event = "node_finished"
    BY DEF IsAPlan
  <2>5. QED
    BY <1>2, <2>1, <2>2, <2>3, <2>4
<1>5. Len(j) + 1 \notin PlansAt(j)
  BY <1>1, <1>3 DEF PlansAt, Accepted
<1>6. IsFiniteSet(PlansAt(j)) /\ Cardinality(PlansAt(j)) \in Nat
  BY PlansAreFinite
<1>7. CASE IsAPlan(r)
  BY <1>4, <1>5, <1>6, <1>7, FS_AddElement DEF k
<1>8. CASE ~ IsAPlan(r)
  BY <1>4, <1>6, <1>8 DEF k
<1>9. QED
  BY <1>7, <1>8

\* Only a completion that pauses the gate can be the last one to have.
LEMMA AppendPause ==
  ASSUME NEW r, IsASequence(journal), journal' = Append(journal, r),
         PauseSeen, r.event # "node_finished" => approval' = approval,
         r.event = "node_finished" /\ r.node = "approve" /\ r.status = "paused" =>
           approval' # "unseen"
  PROVE  PauseSeen'
<1>1. CASE r.event = "node_finished"
  <2>1. LastFinished(journal') = Len(journal) + 1 /\ journal'[Len(journal) + 1] = r
    BY <1>1, AppendLastFinished, AppendFacts
  <2>2. QED
    BY <1>1, <2>1 DEF PauseSeen
<1>2. CASE r.event # "node_finished"
  <2>1. FinishedAt(journal') = FinishedAt(journal)
    BY <1>2, AppendFinished
  <2>2. FinishedAt(journal) # {} => /\ LastFinished(journal') = LastFinished(journal)
                                    /\ journal'[LastFinished(journal)] = journal[LastFinished(journal)]
    BY <1>2, AppendLastFinished
  <2>3. QED
    BY <1>2, <2>1, <2>2 DEF PauseSeen
<1>3. QED
  BY <1>1, <1>2

-----------------------------------------------------------------------------
(***************************************************************************)
(* Steps that write no plan.                                               *)
(***************************************************************************)
LEMMA PlaceKeepsGate ==
  ASSUME GateInv, UNCHANGED <<board, snaps, committed, approval>>, PauseSeen',
         StartOf(journal').node = StartOf(journal).node,
         StartOf(journal').attempt = StartOf(journal).attempt,
         AttemptOneSeq(journal', StartOf(journal).node) = AttemptOneSeq(journal, StartOf(journal).node),
         Planned' = Planned,
         \/ pc' # "finish"
         \/ UNCHANGED <<pc, closing, patch>>
         \/ closing'.note # "accepted"
  PROVE  GateInv'
<1>1. Key' = Key
  BY DEF Key
<1>2. \A p : (Sound(p) => Sound(p)') /\ (Due(p) => Due(p)')
  BY DEF Sound, Due, WasApproved
<1>3. BoardSound'
  BY <1>2 DEF GateInv, BoardSound, Sound, Due
<1>4. SnapSound'
  BY <1>1, <1>2 DEF GateInv, SnapSound, Sound, Due
<1>5. HandedOn' /\ PatchInHand'
  BY DEF GateInv, HandedOn, PatchInHand, WasApproved
<1>6. QED
  BY <1>3, <1>4, <1>5 DEF GateInv

LEMMA InterruptedGate ==
  ASSUME Inv, GateInv, NEW r, r.event = "node_finished", Interrupted(r), IsOpen(journal),
         r.node = Last(journal).node, r.attempt = Last(journal).attempt, r.note # "accepted",
         journal' = Append(journal, r), pc' # "finish",
         UNCHANGED <<board, snaps, committed, approval>>
  PROVE  GateInv'
<1>1. IsASequence(journal)
  BY DEF Inv, ControlInv
<1>2. StartOf(journal') = StartOf(journal)
      /\ \A n : AttemptOneSeq(journal', n) = AttemptOneSeq(journal, n)
  BY <1>1, InterruptedKeepsPlace
<1>3. Planned' = Planned
  <2>1. Planned' = Planned + 0
    BY <1>1, AppendPlans DEF IsAPlan, Planned
  <2>2. QED
    BY <1>1, <2>1, PlansAreFinite DEF Planned
<1>4. r.status = "aborted"
  BY DEF Interrupted
<1>5. PauseSeen'
  BY <1>1, <1>4, AppendPause DEF GateInv
<1>6. QED
  BY <1>2, <1>3, <1>5, PlaceKeepsGate

LEMMA InterruptionsKeepGate ==
  ASSUME Inv, TypeInv, GateInv, HealClose \/ SnapshotFails, approval' = approval
  PROVE  GateInv'
<1>1. /\ IsOpen(journal) /\ UNCHANGED <<board, snaps, committed>> /\ pc' # "finish"
      /\ \E u, why : /\ why # "accepted"
                     /\ journal' = Append(journal,
                          InterruptedAttempt(Last(journal).node, Last(journal).attempt, u, why))
  BY DEF HealClose, SnapshotFails, AppendRecord, Continue, Exit, files, Inv, JournalInv, Inside
<1>2. Last(journal).node # NoNode
  BY <1>1, NamesAssumption, DispatcherAssumption DEF TypeInv
<1>3. QED
  BY <1>1, <1>2, InterruptedGate DEF InterruptedAttempt, NodeFinished, Interrupted

LEMMA MarkersKeepGate ==
  ASSUME Inv, GateInv, HealOwed \/ ResumePaused \/ Proceed \/ EndMark, approval' = approval
  PROVE  GateInv'
<1>1. /\ UNCHANGED <<board, snaps, committed>> /\ pc' # "finish"
      /\ \/ journal' = journal
         \/ \E e \in RunEvents : journal' = Append(journal, RunMarker(e))
  <2>1. CASE HealOwed
    BY <2>1, OwedIsARunEvent DEF HealOwed, AppendRecord, Continue, files
  <2>2. CASE ResumePaused
    BY <2>2 DEF ResumePaused, AppendRecord, RunEvents, Continue, files
  <2>3. CASE Proceed
    BY <2>3 DEF Proceed, AppendRecord, RunEvents, Continue, files, log
  <2>4. CASE EndMark
    BY <2>4 DEF EndMark, AppendRecord, Continue, files, Inv, JournalInv
  <2>5. QED
    BY <2>1, <2>2, <2>3, <2>4
<1>2. CASE journal' = journal
  BY <1>1, <1>2, PlaceKeepsGate DEF Planned, PauseSeen, GateInv
<1>3. ASSUME NEW e \in RunEvents, journal' = Append(journal, RunMarker(e)) PROVE GateInv'
  <2>1. IsASequence(journal) /\ ~ IsOpen(journal)
    BY DEF Inv, ControlInv, JournalInv, Between, HealOwed, Owes, IsOpen, Last, ResumePaused,
           Proceed, EndMark
  <2>2. /\ StartOf(journal') = Start(RunStateOf(e), StartOf(journal).node, StartOf(journal).attempt)
        /\ \A n : AttemptOneSeq(journal', n) = AttemptOneSeq(journal, n)
    BY <1>3, <2>1, MarkerKeepsPlace
  <2>3. /\ StartOf(journal').node = StartOf(journal).node
        /\ StartOf(journal').attempt = StartOf(journal).attempt
    BY <2>2 DEF Start
  <2>4. RunMarker(e).event # "node_finished"
    BY MarkerEvent, Events_Disjoint
  <2>5. Planned' = Planned + 0
    BY <1>3, <2>1, <2>4, AppendPlans DEF IsAPlan, Planned
  <2>6. Planned' = Planned
    BY <2>1, <2>5, PlansAreFinite DEF Planned
  <2>7. PauseSeen'
    BY <1>3, <2>1, <2>4, AppendPause DEF GateInv
  <2>8. QED
    BY <1>1, <2>2, <2>3, <2>6, <2>7, PlaceKeepsGate
<1>4. QED
  BY <1>1, <1>2, <1>3

LEMMA RestKeepsGate ==
  ASSUME GateInv, approval' = approval,
         \/ \E cfg \in Configs, resuming \in BOOLEAN : Open(cfg, resuming)
         \/ HealReap \/ HealPersist \/ NothingToHeal \/ Refuse \/ LoopEnds \/ PersistRunning
         \/ EndPersist \/ Crash \/ Cancel \/ OrphanWrites \/ PersonEdits \/ UNCHANGED vars
  PROVE  GateInv'
<1>1. /\ UNCHANGED <<journal, board, snaps, committed>>
      /\ pc' # "finish" \/ UNCHANGED <<pc, closing, patch>>
  BY DEF Open, HealReap, HealPersist, NothingToHeal, Refuse, LoopEnds, PersistRunning, EndPersist,
     Crash, Cancel, OrphanWrites, PersonEdits, vars, Continue, EndRun, Exit, log, files, exec
<1>2. QED
  BY <1>1, PlaceKeepsGate DEF Planned, PauseSeen, GateInv

LEMMA SettleKeepsGate ==
  ASSUME GateInv, approval' = approval, pc = "run", NEW r, NEW timedOut, Settle(r, timedOut)
  PROVE  GateInv'
<1>1. /\ UNCHANGED <<journal, board, snaps, committed>>
      /\ closing' = ClosingRecord(r, Verdict(r, timedOut))
      /\ pc' = "finish" => Verdict(r, timedOut) # "accepted"
  BY DEF Settle, Continue, log, files
<1>2. pc' = "finish" => closing'.note # "accepted"
  BY <1>1, ClosingMatches
<1>3. QED
  BY <1>1, <1>2, PlaceKeepsGate DEF Planned, PauseSeen, GateInv

LEMMA StartNodeGate ==
  ASSUME Inv, TypeInv, CtlInv, GateInv, StartNode, approval' = approval PROVE GateInv'
<1> DEFINE r == NodeStarted(at.node, at.attempt)
           n == StartOf(journal).node
           a == StartOf(journal).attempt
<1>1. /\ IsASequence(journal) /\ journal' = Append(journal, r) /\ pc' = "snapshot"
      /\ UNCHANGED <<board, snaps, committed>>
      /\ at.node = n /\ at.attempt = a
  BY DEF StartNode, AppendRecord, Continue, files, Inv, ControlInv, CtlInv, PlaceInv
<1>2. StartOf(journal') = Start("runnable", n, a + 1)
  BY <1>1, AfterStarted
<1>3. a \in Nat /\ a >= 1 /\ Len(journal) \in Nat /\ DOMAIN snaps \subseteq 1 .. Len(journal)
  BY <1>1, PlaceIsTyped DEF TypeInv, TypeOK, Places, CtlInv, VisitInv
<1>4. StartOf(journal').node = n
  BY <1>2 DEF Start
<1>5. r.event = "node_started" /\ r.node = n /\ r.attempt = a
  BY <1>1 DEF NodeStarted
<1> HIDE DEF r
<1>6. AttemptOneSeq(journal', n) = IF a = 1 THEN Len(journal) + 1 ELSE AttemptOneSeq(journal, n)
  BY <1>1, <1>5, AppendAttemptOneSeq
<1>7. Key' = IF a = 1 THEN Len(journal) + 1 ELSE Key
  BY <1>4, <1>6 DEF Key
<1>8. Len(journal) + 1 \notin DOMAIN snaps
  BY <1>3
<1>9. Planned' = Planned + 0
  BY <1>1, <1>5, AppendPlans DEF IsAPlan, Planned
<1>10. Planned' = Planned
  BY <1>1, <1>9, PlansAreFinite DEF Planned
<1>11. PauseSeen'
  BY <1>1, <1>5, AppendPause DEF GateInv
<1>12. \A p : (Sound(p) => Sound(p)') /\ (Due(p) => Due(p)')
  BY <1>4, <1>10 DEF Sound, Due, WasApproved
<1>13. BoardSound'
  BY <1>1, <1>4, <1>10 DEF GateInv, BoardSound, Sound, Due, WasApproved
<1>14. SnapSound'
  <2>1. CASE a = 1
    BY <2>1, <1>1, <1>7, <1>8 DEF SnapSound
  <2>2. CASE a # 1
    BY <2>2, <1>1, <1>3, <1>4, <1>7, <1>10 DEF GateInv, SnapSound, Sound, Due, WasApproved
  <2>3. QED
    BY <2>1, <2>2
<1>15. HandedOn' /\ PatchInHand'
  BY <1>1, <1>4 DEF GateInv, HandedOn, PatchInHand, WasApproved
<1>16. QED
  BY <1>11, <1>13, <1>14, <1>15 DEF GateInv

LEMMA TakeSnapshotGate ==
  ASSUME TypeInv, CtlInv, GateInv, TakeSnapshot, approval' = approval PROVE GateInv'
<1>1. /\ pc = "snapshot" /\ pc' = "run" /\ UNCHANGED <<journal, board, committed>>
      /\ snaps' = [k \in DOMAIN snaps \cup {SnapshotKey} |->
                     IF k \in DOMAIN snaps THEN snaps[k] ELSE board]
  BY DEF TakeSnapshot, Continue, log
<1>2. SnapshotKey = Key /\ Key' = Key
  BY <1>1 DEF CtlInv, VisitInv, Inside, Key
<1>3. snaps'[Key] = IF Key \in DOMAIN snaps THEN snaps[Key] ELSE board
  BY <1>1, <1>2
<1>4. board["plan"].request <= board["plan"].request
  BY PlanOf DEF TypeInv, TypeOK
<1>5. BoardSound' /\ HandedOn' /\ PauseSeen' /\ PatchInHand'
  BY <1>1 DEF GateInv, BoardSound, Sound, Due, Planned, HandedOn, PauseSeen, PatchInHand,
     WasApproved
<1>6. SnapSound'
  <2>1. Key \notin DOMAIN snaps => Sound(board["plan"]) /\ Due(board["plan"])
    BY DEF GateInv, BoardSound
  <2>2. QED
    BY <1>1, <1>2, <1>3, <1>4, <2>1 DEF GateInv, SnapSound, Sound, Due, Planned, WasApproved
<1>7. QED
  BY <1>5, <1>6 DEF GateInv

-----------------------------------------------------------------------------
(***************************************************************************)
(* The result in hand, and what it makes of the plan block.                *)
(***************************************************************************)
\* A block written from another: what was asked for stays asked for, and
\* nobody's approval is made up.
Follows(x, p) == /\ x.request = p.request
                 /\ x.served \in Nat /\ p.served <= x.served /\ x.served <= x.request
                 /\ x.approved => p.approved

LEMMA EditFollows ==
  ASSUME NEW p \in Plans, p.served <= p.request, NEW q, EditOf(q, p)
  PROVE  q = <<>> \/ \E x : q = [plan |-> x] /\ Follows(x, p)
<1>1. CASE q = <<>>
  BY <1>1
<1>2. ASSUME NEW doc \in Docs, q = [plan |-> [p EXCEPT !.digest = doc]]
      PROVE  \E x : q = [plan |-> x] /\ Follows(x, p)
  <2> DEFINE x == [p EXCEPT !.digest = doc]
  <2>1. Follows(x, p)
    BY GateAssumption DEF Follows, Plans
  <2>2. QED
    BY <1>2, <2>1
<1>3. QED
  BY <1>1, <1>2 DEF EditOf

LEMMA NewPlanFollows ==
  ASSUME NEW p \in Plans, p.served <= p.request, NEW q, NewPlan(q, p)
  PROVE  \E x : q = [plan |-> x] /\ Follows(x, p) /\ ~ x.approved /\ x.served = p.request
<1>1. PICK doc \in Docs : q = [plan |-> PlanFor(p, doc)]
  BY DEF NewPlan
<1> DEFINE x == PlanFor(p, doc)
<1>2. Follows(x, p) /\ ~ x.approved /\ x.served = p.request
  BY GateAssumption DEF Follows, PlanFor, served, Plans
<1>3. QED
  BY <1>1, <1>2

LEMMA FollowsIsSound ==
  ASSUME IsASequence(journal), NEW p \in Plans, Sound(p), Due(p), NEW x, Follows(x, p)
  PROVE  Sound(x) /\ Due(x)
<1>1. Planned \in Nat /\ p.served \in Nat
  BY PlansAreFinite, GateAssumption DEF Planned, Plans
<1>2. QED
  BY <1>1 DEF Sound, Due, Follows

LEMMA InHand ==
  ASSUME RunHolds, GateInv, pc \in {"run", "patch", "finish"}
  PROVE  /\ view \in Boards /\ view["plan"] \in Plans
         /\ at.node \in Nodes /\ StartOf(journal).node = at.node
         /\ StartOf(journal).attempt > 1 /\ Key \in DOMAIN snaps /\ view = snaps[Key]
         /\ Sound(view["plan"]) /\ Due(view["plan"])
         /\ view["plan"].request <= board["plan"].request
<1>1. /\ IsASequence(journal) /\ IsOpen(journal) /\ Last(journal).node = at.node
      /\ at.node \in Nodes
  BY DEF RunHolds, Inv, ControlInv, JournalInv, Inside, TypeInv
<1>2. StartOf(journal).node = at.node /\ StartOf(journal).attempt > 1
  BY <1>1, OpenPlace DEF RunHolds, CtlInv, VisitInv, Start
<1>3. Key \in DOMAIN snaps /\ view = snaps[Key] /\ view \in Boards
  BY DEF RunHolds, CtlInv, VisitInv, TypeInv, TypeOK
<1>4. QED
  BY <1>1, <1>2, <1>3, PlanOf DEF GateInv, SnapSound

\* The three ways a result of the run of a plan is accepted.
AcceptedPlan(p) == /\ at.node = "plan" /\ closing.status = "ok" /\ closing.next = "approve"
                   /\ NewPlan(patch, p)
AcceptedGate(p) ==
  /\ at.node = "approve" /\ EditOf(patch, p)
  /\ \/ closing.status = "ok" /\ closing.next = "plan" /\ Pending(p)
     \/ closing.status = "ok" /\ closing.next = "code" /\ p.approved
     \/ closing.status = "paused" /\ closing.next = "approve"
AcceptedCode == at.node = "code" /\ closing.status = "ok" /\ closing.next = End /\ patch = <<>>

LEMMA ResultInHand ==
  ASSUME RunHolds, GateInv, pc \in {"patch", "finish"}, closing.note = "accepted"
  PROVE  /\ closing.node = at.node /\ closing.event = "node_finished"
         /\ AcceptedPlan(view["plan"]) \/ AcceptedGate(view["plan"]) \/ AcceptedCode
<1>1. PICK w \in Worlds : \E r \in NodeResults(at.node, view, w) :
        /\ Acceptable(r) /\ patch = r.patch
        /\ closing.status = r.status /\ closing.next = ResumePointer(r)
  BY DEF RunHolds, HandInv, ResultInv
<1>2. PICK r \in NodeResults(at.node, view, w) :
        /\ Acceptable(r) /\ patch = r.patch
        /\ closing.status = r.status /\ closing.next = ResumePointer(r)
  BY <1>1
<1>3. view \in Boards /\ at.node \in Nodes
  BY InHand
<1> DEFINE p == view["plan"]
<1> HIDE DEF p
<1>4. \/ at.node = "plan" /\ PlanResult(p, r)
      \/ at.node = "approve" /\ GateResult(p, r)
      \/ at.node = "code" /\ r.status = "ok" /\ r.next = End /\ r.patch = <<>>
  BY <1>2, <1>3, ResultIs DEF p
<1>5. /\ r.status = "ok" => closing.next = r.next
      /\ r.status = "paused" => closing.next = at.node
  BY <1>2 DEF ResumePointer
<1>6. AcceptedPlan(p) \/ AcceptedGate(p) \/ AcceptedCode
  <2>1. CASE at.node = "plan" /\ PlanResult(p, r)
    BY <1>2, <1>5, <2>1 DEF PlanResult, AcceptedPlan
  <2>2. CASE at.node = "approve" /\ GateResult(p, r)
    BY <1>2, <1>5, <2>2 DEF GateResult, AcceptedGate
  <2>3. CASE at.node = "code" /\ r.status = "ok" /\ r.next = End /\ r.patch = <<>>
    BY <1>2, <1>5, <2>3 DEF AcceptedCode
  <2>4. QED
    BY <1>4, <2>1, <2>2, <2>3
<1>7. closing.node = at.node /\ closing.event = "node_finished"
  BY DEF RunHolds, Inv, JournalInv, Matches
<1>8. QED
  BY <1>6, <1>7 DEF p

LEMMA ApplyPatchGate ==
  ASSUME RunHolds, GateInv, ApplyPatch, approval' = approval PROVE GateInv'
<1> DEFINE p == view["plan"]
<1>1. /\ pc = "patch" /\ pc' = "finish" /\ board' = Patched(board, patch)
      /\ UNCHANGED <<journal, snaps, committed, closing, patch>>
  BY DEF ApplyPatch, Continue, log, exec
<1>2. /\ p \in Plans /\ Key \in DOMAIN snaps /\ snaps[Key]["plan"] = p
      /\ Sound(p) /\ Due(p) /\ p.request <= board["plan"].request /\ p.served <= p.request
      /\ board \in Boards /\ IsASequence(journal)
  BY <1>1, InHand DEF RunHolds, Inv, ControlInv, TypeInv, TypeOK, Sound
<1> HIDE DEF p
<1>3. closing.note = "accepted"
  BY <1>1 DEF RunHolds, HandInv, RefusalInv
<1>4. patch = <<>> \/ \E x : patch = [plan |-> x] /\ Follows(x, p)
  <2>1. AcceptedPlan(p) \/ AcceptedGate(p) \/ AcceptedCode
    BY <1>1, <1>3, ResultInHand DEF p
  <2>2. QED
    BY <1>2, <2>1, EditFollows, NewPlanFollows DEF AcceptedPlan, AcceptedGate, AcceptedCode
<1>5. Planned' = Planned /\ Key' = Key /\ StartOf(journal)' = StartOf(journal)
  BY <1>1 DEF Planned, Key
<1>6. \A x : (Sound(x) => Sound(x)') /\ (Due(x) => Due(x)')
  BY <1>5 DEF Sound, Due, WasApproved
<1>7. HandedOn' /\ PauseSeen'
  BY <1>1, <1>5 DEF GateInv, HandedOn, PauseSeen, WasApproved
<1>8. CASE patch = <<>>
  <2>1. board' = board /\ "plan" \notin DOMAIN patch
    BY <1>1, <1>2, <1>8, PatchedIs
  <2>2. BoardSound' /\ SnapSound' /\ PatchInHand'
    BY <1>1, <1>5, <2>1 DEF GateInv, BoardSound, SnapSound, PatchInHand, Sound, Due, WasApproved
  <2>3. QED
    BY <1>7, <2>2 DEF GateInv
<1>9. ASSUME NEW x, patch = [plan |-> x], Follows(x, p) PROVE GateInv'
  <2>1. board' = [plan |-> x] /\ board'["plan"] = x
    BY <1>1, <1>2, <1>9, PatchedIs
  <2>2. Sound(x) /\ Due(x) /\ p.request <= x.request
    <3>1. p.request \in Nat
      BY <1>2, GateAssumption DEF Plans
    <3>2. QED
      BY <1>2, <1>9, <3>1, FollowsIsSound DEF Follows
  <2>3. BoardSound'
    BY <1>1, <1>5, <2>1, <2>2 DEF GateInv, BoardSound, Sound, Due, WasApproved
  <2>4. SnapSound'
    BY <1>1, <1>2, <1>5, <2>1, <2>2 DEF SnapSound, Sound, Due, WasApproved
  <2>5. PatchInHand'
    BY <1>1, <1>9, <2>1 DEF PatchInHand
  <2>6. QED
    BY <1>7, <2>3, <2>4, <2>5 DEF GateInv
<1>10. QED
  BY <1>4, <1>8, <1>9

-----------------------------------------------------------------------------
(***************************************************************************)
(* A completion is journalled.                                             *)
(***************************************************************************)
\* What approval becomes when it is.
ApprovalAt == approval' = IF Accepts("plan") THEN "unseen"
                          ELSE IF approval = "unseen" /\ Accepts("approve") /\ closing.status = "paused"
                            THEN "shown" ELSE approval

LEMMA FinishNodeIs ==
  ASSUME RunHolds, FinishNode
  PROVE  /\ pc = "finish" /\ pc' # "finish" /\ journal' = Append(journal, closing)
         /\ journal' # journal /\ IsASequence(journal) /\ Planned \in Nat
         /\ UNCHANGED <<board, snaps>>
         /\ committed' = IF closing.note = "accepted" THEN Patched(committed, patch) ELSE committed
         /\ board \in Boards /\ committed \in Boards
         /\ closing.event = "node_finished" /\ closing.node = at.node
         /\ Planned' = Planned + (IF IsAPlan(closing) THEN 1 ELSE 0)
         /\ ~ Interrupted(closing) => /\ StartOf(journal').node = closing.next
                                      /\ StartOf(journal').attempt = 1
<1>1. /\ pc = "finish" /\ pc' # "finish" /\ journal' = Append(journal, closing)
      /\ UNCHANGED <<board, snaps>>
      /\ committed' = IF closing.note = "accepted" THEN Patched(committed, patch) ELSE committed
  BY DEF FinishNode, AppendRecord, Continue, EndRun, files, exec
<1>2. /\ IsASequence(journal) /\ board \in Boards /\ committed \in Boards
      /\ closing.event = "node_finished" /\ closing.node = at.node
  BY <1>1 DEF RunHolds, Inv, ControlInv, JournalInv, Matches, TypeInv, TypeOK
<1>3. journal' # journal
  <2>1. Len(journal) \in Nat /\ Len(journal') = Len(journal) + 1
    BY <1>1, <1>2, AppendFacts
  <2>2. QED
    BY <2>1
<1>4. StartOf(journal') = Start("runnable", closing.next,
                                IF Interrupted(closing) THEN closing.attempt + 1 ELSE 1)
  BY <1>1, <1>2, AfterFinished
<1>5. ~ Interrupted(closing) => /\ StartOf(journal').node = closing.next
                                /\ StartOf(journal').attempt = 1
  BY <1>4 DEF Start
<1>6. /\ Planned' = Planned + (IF IsAPlan(closing) THEN 1 ELSE 0)
      /\ Planned \in Nat
  BY <1>1, <1>2, AppendPlans, PlansAreFinite DEF Planned
<1>7. QED
  BY <1>1, <1>2, <1>3, <1>5, <1>6

\* A completion that carries no result writes nothing, and goes nowhere new.
LEMMA RefusedGate ==
  ASSUME RunHolds, GateInv, FinishNode, ApprovalAt, closing.note # "accepted"
  PROVE  GateInv'
<1>1. /\ pc = "finish" /\ pc' # "finish" /\ journal' = Append(journal, closing)
      /\ UNCHANGED <<board, snaps, committed>> /\ IsASequence(journal)
      /\ Planned \in Nat /\ Planned' = Planned + (IF IsAPlan(closing) THEN 1 ELSE 0)
      /\ closing.event = "node_finished"
  BY FinishNodeIs
<1>2. approval' = approval /\ Planned' = Planned
  BY <1>1 DEF ApprovalAt, Accepts, IsAPlan
<1>3. /\ IsOpen(journal) /\ closing.node = Last(journal).node
      /\ closing.attempt = Last(journal).attempt
  BY <1>1 DEF RunHolds, Inv, JournalInv, Inside, Matches
<1>4. CASE Interrupted(closing)
  BY <1>1, <1>2, <1>3, <1>4, InterruptedGate DEF RunHolds
<1>5. CASE ~ Interrupted(closing)
  <2>1. closing.status \in {"failed", "aborted"} /\ closing.next = NoNode
    BY <1>1, <1>5 DEF RunHolds, HandInv, RefusalInv, CtlInv, PlaceInv, ClosingShape, Interrupted
  <2>2. StartOf(journal').node = NoNode /\ StartOf(journal').attempt = 1
    BY <1>5, <2>1, FinishNodeIs
  <2>3. BoardSound'
    BY <1>1, <1>2, <2>2 DEF GateInv, BoardSound, Sound, Due, NoNode, WasApproved
  <2>4. SnapSound' /\ HandedOn' /\ PatchInHand'
    BY <1>1, <2>2 DEF SnapSound, HandedOn, PatchInHand, NoNode
  <2>5. PauseSeen'
    BY <1>1, <1>2, <2>1, AppendPause DEF GateInv
  <2>6. QED
    BY <2>3, <2>4, <2>5 DEF GateInv
<1>6. QED
  BY <1>4, <1>5

\* A new plan: one more is paid for, and nobody has seen it.
LEMMA PlanWritten ==
  ASSUME RunHolds, GateInv, FinishNode, ApprovalAt, closing.note = "accepted",
         AcceptedPlan(view["plan"])
  PROVE  GateInv'
<1> DEFINE p == view["plan"]
<1>1. /\ pc = "finish" /\ pc' # "finish" /\ journal' = Append(journal, closing)
      /\ journal' # journal /\ IsASequence(journal) /\ UNCHANGED <<board, snaps>>
      /\ Planned \in Nat /\ Planned' = Planned + (IF IsAPlan(closing) THEN 1 ELSE 0)
      /\ committed' = Patched(committed, patch) /\ committed \in Boards
      /\ closing.event = "node_finished" /\ closing.node = "plan"
      /\ closing.status = "ok" /\ closing.next = "approve"
  BY FinishNodeIs DEF AcceptedPlan
<1>2. p \in Plans /\ at.node = "plan" /\ StartOf(journal).node = at.node /\ Sound(p) /\ Due(p)
  BY <1>1, InHand DEF AcceptedPlan
<1>3. PICK x : /\ patch = [plan |-> x] /\ Follows(x, p)
               /\ ~ x.approved /\ x.served = p.request
  BY <1>2, NewPlanFollows DEF AcceptedPlan, Sound, p
<1> HIDE DEF p
<1>4. board' = [plan |-> x] /\ committed' = [plan |-> x]
  BY <1>1, <1>3, PatchedIs DEF GateInv, PatchInHand
<1>5. Planned' = Planned + 1
  BY <1>1 DEF IsAPlan
<1>6. StartOf(journal').node = "approve" /\ StartOf(journal').attempt = 1
  BY <1>1, FinishNodeIs DEF Interrupted
<1>7. Planned' <= 1 + x.served /\ x.served <= x.request
  <2>1. p.request \in Nat
    BY <1>2, GateAssumption DEF Plans
  <2>2. Planned <= p.request
    BY <1>1, <1>2, <2>1 DEF Due
  <2>3. QED
    BY <1>1, <1>3, <1>5, <2>1, <2>2 DEF Follows
<1>8. BoardSound'
  BY <1>3, <1>4, <1>6, <1>7 DEF BoardSound, Sound, Due
<1>9. SnapSound' /\ HandedOn' /\ PatchInHand'
  BY <1>1, <1>6 DEF SnapSound, HandedOn, PatchInHand
<1>10. PauseSeen'
  <2>1. LastFinished(journal') = Len(journal) + 1 /\ journal'[Len(journal) + 1] = closing
    BY <1>1, AppendLastFinished, AppendFacts
  <2>2. QED
    BY <1>1, <2>1 DEF PauseSeen
<1>11. QED
  BY <1>8, <1>9, <1>10 DEF GateInv

\* The gate's decision, of the block its visit's snapshot holds.
LEMMA GateDecides ==
  ASSUME RunHolds, GateInv, FinishNode, ApprovalAt, closing.note = "accepted",
         AcceptedGate(view["plan"])
  PROVE  GateInv'
<1> DEFINE p == view["plan"]
<1>1. /\ pc = "finish" /\ pc' # "finish" /\ journal' = Append(journal, closing)
      /\ journal' # journal /\ IsASequence(journal) /\ UNCHANGED <<board, snaps>>
      /\ Planned \in Nat /\ Planned' = Planned + (IF IsAPlan(closing) THEN 1 ELSE 0)
      /\ committed' = Patched(committed, patch) /\ committed \in Boards /\ board \in Boards
      /\ closing.event = "node_finished" /\ closing.node = "approve"
      /\ closing.status \in {"ok", "paused"}
  BY FinishNodeIs DEF AcceptedGate
<1>2. p \in Plans /\ Sound(p) /\ Due(p) /\ p.request <= board["plan"].request
  BY <1>1, InHand
<1>3. patch = <<>> \/ \E x : patch = [plan |-> x] /\ Follows(x, p)
  BY <1>2, EditFollows DEF AcceptedGate, Sound, p
<1>4. /\ approval' = IF approval = "unseen" /\ closing.status = "paused" THEN "shown" ELSE approval
      /\ Planned' = Planned
  BY <1>1 DEF ApprovalAt, Accepts, IsAPlan
<1>5. /\ StartOf(journal').node = closing.next /\ StartOf(journal').attempt = 1
      /\ AcceptedGate(p)
  BY <1>1, FinishNodeIs DEF Interrupted, p
<1> HIDE DEF p
<1>6. \A y : Sound(y) => Sound(y)'
  BY <1>4 DEF Sound, WasApproved
<1>7. Sound(committed["plan"])'
  <2>1. CASE patch = <<>>
    <3>1. committed' = committed
      BY <1>1, <2>1, PatchedIs
    <3>2. QED
      BY <1>4, <3>1 DEF GateInv, BoardSound, Sound, WasApproved
  <2>2. ASSUME NEW x, patch = [plan |-> x], Follows(x, p) PROVE Sound(committed["plan"])'
    <3>1. committed'["plan"] = x
      BY <1>1, <2>2, PatchedIs
    <3>2. Sound(x)
      BY <1>1, <1>2, <2>2, FollowsIsSound
    <3>3. QED
      BY <1>4, <3>1, <3>2 DEF Sound, WasApproved
  <2>3. QED
    BY <1>3, <2>1, <2>2
<1>8. Due(board["plan"])'
  <2>1. SUFFICES ASSUME StartOf(journal').node = "plan"
                 PROVE  Planned' <= board'["plan"].request
    BY DEF Due
  <2>2. Pending(p)
    BY <1>5, <2>1 DEF AcceptedGate
  <2>3. p.request \in Nat /\ p.served \in Nat /\ board["plan"].request \in Nat
    BY <1>1, <1>2, PlanOf, GateAssumption DEF Plans
  <2>4. QED
    BY <1>1, <1>2, <1>4, <2>2, <2>3 DEF Pending, Sound
<1>9. BoardSound'
  BY <1>1, <1>4, <1>7, <1>8 DEF GateInv, BoardSound, Sound, WasApproved
<1>10. HandedOn'
  <2>1. SUFFICES ASSUME closing.next = "code" PROVE WasApproved'
    BY <1>5 DEF HandedOn
  <2>2. p.approved /\ closing.status = "ok"
    BY <1>5, <2>1 DEF AcceptedGate
  <2>3. QED
    BY <1>2, <1>4, <2>2 DEF Sound, WasApproved
<1>11. SnapSound' /\ PatchInHand'
  BY <1>1, <1>5 DEF SnapSound, PatchInHand
<1>12. PauseSeen'
  BY <1>1, <1>4, AppendPause DEF GateInv
<1>13. QED
  BY <1>9, <1>10, <1>11, <1>12 DEF GateInv

LEMMA CodeDone ==
  ASSUME RunHolds, GateInv, FinishNode, ApprovalAt, closing.note = "accepted", AcceptedCode
  PROVE  GateInv'
<1>1. /\ pc = "finish" /\ pc' # "finish" /\ journal' = Append(journal, closing)
      /\ journal' # journal /\ IsASequence(journal) /\ UNCHANGED <<board, snaps>>
      /\ Planned \in Nat /\ Planned' = Planned + (IF IsAPlan(closing) THEN 1 ELSE 0)
      /\ committed' = Patched(committed, patch) /\ committed \in Boards
      /\ closing.event = "node_finished" /\ closing.node = "code"
      /\ closing.status = "ok" /\ closing.next = End /\ patch = <<>>
  BY FinishNodeIs DEF AcceptedCode
<1>2. approval' = approval /\ Planned' = Planned /\ committed' = committed
  <2>1. ~ Accepts("plan") /\ ~ Accepts("approve")
    BY <1>1 DEF Accepts
  <2>2. approval' = approval
    BY <2>1 DEF ApprovalAt
  <2>3. Planned' = Planned
    BY <1>1 DEF IsAPlan
  <2>4. QED
    BY <1>1, <2>2, <2>3, PatchedIs
<1>3. StartOf(journal').node = End /\ StartOf(journal').attempt = 1
  BY <1>1, FinishNodeIs DEF Interrupted
<1>4. BoardSound'
  BY <1>1, <1>2, <1>3 DEF GateInv, BoardSound, Sound, Due, End, WasApproved
<1>5. SnapSound' /\ HandedOn' /\ PatchInHand'
  BY <1>1, <1>3 DEF SnapSound, HandedOn, PatchInHand, End
<1>6. PauseSeen'
  BY <1>1, <1>2, AppendPause DEF GateInv
<1>7. QED
  BY <1>4, <1>5, <1>6 DEF GateInv

LEMMA FinishNodeGate == ASSUME RunHolds, GateInv, FinishNode, ApprovalAt PROVE GateInv'
<1>1. CASE closing.note # "accepted"
  BY <1>1, RefusedGate
<1>2. CASE closing.note = "accepted"
  <2>1. pc \in {"patch", "finish"}
    BY FinishNodeIs
  <2>2. AcceptedPlan(view["plan"]) \/ AcceptedGate(view["plan"]) \/ AcceptedCode
    BY <1>2, <2>1, ResultInHand
  <2>3. QED
    BY <1>2, <2>2, PlanWritten, GateDecides, CodeDone
<1>3. QED
  BY <1>1, <1>2

-----------------------------------------------------------------------------
(***************************************************************************)
(* The person's decisions.                                                 *)
(***************************************************************************)
\* A decision touches the blackboard and nothing of the run's place.
LEMMA SaveKeepsTheRun ==
  ASSUME RunHolds, NEW q \in Plans, pc = "down", SavePlan(q)
  PROVE  RunHolds'
<1>1. /\ board' = [plan |-> q] /\ committed' = [plan |-> q]
      /\ UNCHANGED <<journal, torn, hist, snaps, man, world, orphan, opens, pc, at, repeats,
                     view, closing, patch, mem>>
  BY DEF SavePlan, log, env, exec
<1>2. board' \in Boards /\ committed' \in Boards
  BY <1>1, BoardOf
<1>3. Inv'
  BY <1>1 DEF RunHolds, Inv, ControlInv, JournalInv, Matches, TornInv, OrphanInv, PatchInv,
     PatchBeforeJournal
<1>4. TypeInv'
  BY <1>1, <1>2 DEF RunHolds, TypeInv, TypeOK
<1>5. CtlInv'
  <2>1. PlaceInv'
    BY <1>1 DEF RunHolds, CtlInv, PlaceInv, ClosingShape
  <2>2. EndedInv'
    BY <1>1 DEF RunHolds, CtlInv, EndedInv, ManifestNotAhead
  <2>3. VisitInv'
    <3>1. Key' = Key /\ SnapshotKey' = SnapshotKey
      BY <1>1 DEF Key, SnapshotKey
    <3>2. QED
      BY <1>1, <3>1 DEF RunHolds, CtlInv, VisitInv
  <2>4. QED
    BY <2>1, <2>2, <2>3 DEF CtlInv
<1>6. HandInv'
  BY <1>1, HandKept DEF RunHolds
<1>7. QED
  BY <1>3, <1>4, <1>5, <1>6 DEF RunHolds

\* Both decisions ask for no less than was asked for before, and what is
\* approved was shown.
LEMMA SaveKeepsTheGate ==
  ASSUME RunHolds, GateInv, NEW q \in Plans, pc = "down", SavePlan(q),
         q.served <= q.request,
         board["plan"].request <= q.request, board["plan"].served <= q.served,
         approval' = "unseen" => approval = "unseen",
         WasApproved => WasApproved', q.approved => WasApproved'
  PROVE  GateInv'
<1> DEFINE b == board["plan"]
<1>1. /\ board' = [plan |-> q] /\ committed' = [plan |-> q]
      /\ UNCHANGED <<journal, snaps, pc>>
  BY DEF SavePlan, log
<1>2. /\ IsASequence(journal) /\ Planned \in Nat
      /\ b.request \in Nat /\ b.served \in Nat /\ q.request \in Nat /\ q.served \in Nat
  <2>1. IsASequence(journal) /\ board \in Boards
    BY DEF RunHolds, Inv, ControlInv, TypeInv, TypeOK
  <2>2. q.request \in Nat /\ q.served \in Nat
    BY GateAssumption DEF Plans
  <2>3. QED
    BY <2>1, <2>2, PlanOf, PlansAreFinite DEF Planned
<1> HIDE DEF b
<1>3. Planned' = Planned /\ Key' = Key /\ StartOf(journal)' = StartOf(journal)
  BY <1>1 DEF Planned, Key
<1>4. Sound(b) /\ Due(b) /\ b.request <= q.request /\ b.served <= q.served
  BY DEF GateInv, BoardSound, b
<1>5. Sound(q)' /\ Due(q)'
  BY <1>2, <1>3, <1>4 DEF Sound, Due
<1>6. BoardSound'
  BY <1>1, <1>5 DEF BoardSound, Sound, Due
<1>7. SnapSound'
  <2>1. SUFFICES ASSUME StartOf(journal).attempt > 1, Key \in DOMAIN snaps
                 PROVE  /\ Sound(snaps[Key]["plan"])' /\ Due(snaps[Key]["plan"])'
                        /\ snaps[Key]["plan"].request <= q.request
    BY <1>1, <1>3 DEF SnapSound
  <2>2. /\ Sound(snaps[Key]["plan"]) /\ Due(snaps[Key]["plan"])
        /\ snaps[Key]["plan"].request <= b.request
    BY <2>1 DEF GateInv, SnapSound, b
  <2>3. snaps[Key]["plan"].request \in Nat
    BY <2>1, PlanOf DEF RunHolds, TypeInv, TypeOK
  <2>4. Sound(snaps[Key]["plan"])' /\ Due(snaps[Key]["plan"])'
    BY <1>1, <1>3, <2>2 DEF Sound, Due
  <2>5. QED
    BY <1>2, <1>4, <2>2, <2>3, <2>4
<1>8. HandedOn' /\ PauseSeen'
  BY <1>1, <1>3 DEF GateInv, HandedOn, PauseSeen
<1>9. PatchInHand'
  BY <1>1 DEF PatchInHand
<1>10. QED
  BY <1>6, <1>7, <1>8, <1>9 DEF GateInv

LEMMA ApprovePlanKeeps ==
  ASSUME RunHolds, GateInv, ApprovePlan PROVE RunHolds' /\ GateInv'
<1> DEFINE b == board["plan"]
           q == [b EXCEPT !.approved = TRUE, !.served = b.request]
<1>1. pc = "down" /\ SavePlan(q) /\ AwaitsApproval
  BY DEF ApprovePlan
<1>2. b \in Plans /\ b.request \in Nat /\ b.served \in Nat /\ b.served <= b.request
  BY PlanOf DEF RunHolds, TypeInv, TypeOK, GateInv, BoardSound, Sound
<1> HIDE DEF b
<1>3. /\ q \in Plans /\ q.approved = TRUE
      /\ q.request = b.request /\ q.served = b.request
  BY <1>2 DEF Plans
<1> HIDE DEF q
<1>4. approval' = "approved"
  BY <1>1 DEF ApprovePlan, AwaitsApproval, GateInv, PauseSeen
<1>5. QED
  BY <1>1, <1>2, <1>3, <1>4, SaveKeepsTheRun, SaveKeepsTheGate DEF b, WasApproved

LEMMA RequestKeeps ==
  ASSUME RunHolds, GateInv, RequestRegeneration PROVE RunHolds' /\ GateInv'
<1> DEFINE b == board["plan"]
           n == IF Pending(b) THEN b.request ELSE larger(b.request, b.served) + 1
           q == [b EXCEPT !.approved = FALSE, !.request = n]
<1>1. /\ pc = "down" /\ SavePlan(q)
      /\ approval' = IF approval = "approved" THEN "withdrawn" ELSE approval
      /\ Pending(b) \/ larger(b.request, b.served) < MaxRequests
  BY DEF RequestRegeneration
<1>2. b \in Plans /\ b.request \in Nat /\ b.served \in Nat /\ b.served <= b.request
  BY PlanOf DEF RunHolds, TypeInv, TypeOK, GateInv, BoardSound, Sound
<1> HIDE DEF b
<1>3. n \in 0 .. MaxRequests /\ b.request <= n /\ n \in Nat
  BY <1>1, <1>2, GateAssumption DEF larger, Plans, Pending
<1> HIDE DEF n
<1>4. q \in Plans /\ q.approved = FALSE /\ q.request = n /\ q.served = b.served
  BY <1>2, <1>3 DEF Plans
<1> HIDE DEF q
<1>5. q.served <= q.request /\ b.served <= q.served
  BY <1>2, <1>3, <1>4
<1>6. QED
  BY <1>1, <1>3, <1>4, <1>5, SaveKeepsTheRun, SaveKeepsTheGate DEF b, WasApproved

-----------------------------------------------------------------------------
(***************************************************************************)
(* Every step.                                                             *)
(***************************************************************************)
\* Whether a plan has been shown and approved changes with completions only.
LEMMA ApprovalStands ==
  ASSUME DispatcherWorks, ~ FinishNode
  PROVE  approval' = approval
<1>1. pc # "finish" \/ journal' = journal
  BY DEF DispatcherWorks, Advance, HealReap, HealClose, HealOwed, HealPersist, NothingToHeal,
     Refuse, ResumePaused, Proceed, LoopEnds, StartNode, TakeSnapshot, NodeReturns, NodeTimesOut,
     ApplyPatch, PersistRunning, EndMark, EndPersist, SnapshotFails, Cancel, Crash,
     OrphanWrites, PersonEdits, log
<1>2. QED
  BY <1>1, Zenon DEF DispatcherWorks, Accepts

LEMMA DispatcherKeepsGate ==
  ASSUME RunHolds, GateInv, DispatcherWorks PROVE GateInv'
<1>1. CASE FinishNode
  BY <1>1, FinishNodeGate DEF DispatcherWorks, ApprovalAt
<1>2. CASE ~ FinishNode
  <2>1. approval' = approval
    BY <1>2, ApprovalStands
  <2>2. CASE NodeReturns
    BY <2>1, <2>2, SettleKeepsGate DEF NodeReturns, MayReturn
  <2>3. CASE NodeTimesOut
    BY <2>1, <2>3, SettleKeepsGate DEF NodeTimesOut, MayReturn
  <2>4. CASE HealClose \/ SnapshotFails
    BY <2>1, <2>4, InterruptionsKeepGate DEF RunHolds
  <2>5. CASE HealOwed \/ ResumePaused \/ Proceed \/ EndMark
    BY <2>1, <2>5, MarkersKeepGate DEF RunHolds
  <2>6. CASE StartNode \/ TakeSnapshot \/ ApplyPatch
    BY <2>1, <2>6, StartNodeGate, TakeSnapshotGate, ApplyPatchGate DEF RunHolds
  <2>7. CASE \/ HealReap \/ HealPersist \/ NothingToHeal \/ Refuse \/ LoopEnds \/ PersistRunning
             \/ EndPersist \/ Crash \/ Cancel \/ OrphanWrites \/ PersonEdits
    BY <2>1, <2>7, RestKeepsGate
  <2>8. QED
    BY <1>2, <2>2, <2>3, <2>4, <2>5, <2>6, <2>7 DEF DispatcherWorks, Advance
<1>3. QED
  BY <1>1, <1>2

LEMMA RunHoldsNext == ASSUME RunHolds, [Next]_vars PROVE RunHolds'
<1>1. Inv'
  BY NextInv DEF RunHolds
<1>2. TypeInv'
  BY TypeNext DEF RunHolds, CtlInv
<1>3. CtlInv'
  BY CtlNext DEF RunHolds
<1>4. HandInv'
  BY HandNext DEF RunHolds
<1>5. QED
  BY <1>1, <1>2, <1>3, <1>4 DEF RunHolds

LEMMA GateInitInv == GateInit => RunHolds /\ GateInv
<1> SUFFICES ASSUME GateInit PROVE RunHolds /\ GateInv
  OBVIOUS
<1>1. Init
  BY DEF GateInit
<1>2. /\ journal = <<>> /\ board = NoPlan /\ committed = NoPlan /\ pc = "down"
      /\ snaps = <<>> /\ DOMAIN snaps = {}
  BY <1>1, GateAssumption DEF Init
<1>3. RunHolds
  BY <1>1, <1>2, InitInv, InitIsTyped, InitCtl DEF RunHolds, HandInv, ResultInv, RefusalInv
<1>4. FinishedAt(journal) = {} /\ ~ StartedANode(journal) /\ ~ IsOpen(journal)
  BY <1>2 DEF FinishedAt, StartedANode, IsOpen
<1>5. Planned = 0
  <2>1. PlansAt(journal) = {}
    BY <1>4 DEF PlansAt, Accepted
  <2>2. QED
    BY <2>1, FS_EmptySet DEF Planned
<1>6. StartOf(journal).node = "plan"
  BY <1>4, GateAssumption DEF StartOf, ResolveStart, Start, FirstNode
<1>7. BoardSound
  BY <1>2, <1>5 DEF BoardSound, Sound, Due, NoPlan
<1>8. SnapSound /\ HandedOn /\ PauseSeen /\ PatchInHand
  BY <1>2, <1>4, <1>6 DEF SnapSound, HandedOn, PauseSeen, PatchInHand
<1>9. QED
  BY <1>3, <1>7, <1>8 DEF GateInv

LEMMA GateNextInv == RunHolds /\ GateInv /\ [GateNext]_gateVars => RunHolds' /\ GateInv'
<1> SUFFICES ASSUME RunHolds, GateInv, [GateNext]_gateVars PROVE RunHolds' /\ GateInv'
  OBVIOUS
<1>1. CASE Dispatch
  <2>1. approval' = approval /\ \E cfg \in Configs, resuming \in BOOLEAN : Open(cfg, resuming)
    BY <1>1 DEF Dispatch
  <2>2. QED
    BY <2>1, RestKeepsGate, RunHoldsNext DEF Next
<1>2. CASE DispatcherWorks
  <2>1. Next
    BY <1>2 DEF DispatcherWorks, Next
  <2>2. QED
    BY <1>2, <2>1, DispatcherKeepsGate, RunHoldsNext
<1>3. CASE CommandDies \/ UNCHANGED gateVars
  <2>1. UNCHANGED vars /\ approval' = approval
    BY <1>3 DEF CommandDies, gateVars
  <2>2. QED
    BY <2>1, RestKeepsGate, RunHoldsNext
<1>4. CASE ApprovePlan
  BY <1>4, ApprovePlanKeeps
<1>5. CASE RequestRegeneration
  BY <1>5, RequestKeeps
<1>6. QED
  BY <1>1, <1>2, <1>3, <1>4, <1>5 DEF GateNext

THEOREM GateInductive == GateSpec => [](RunHolds /\ GateInv)
BY GateInitInv, GateNextInv, PTL DEF GateSpec

\* nodes/plan and approve: the plan node is paid for the first plan and for
\* each one a person asked for, however often it, the gate or a command died
\* and whatever they had written by then.
THEOREM PlansAlwaysPaidFor == GateSpec => []PlansPaidFor
<1>1. RunHolds /\ GateInv => PlansPaidFor
  <2> SUFFICES ASSUME RunHolds, GateInv PROVE PlansPaidFor
    OBVIOUS
  <2>1. Planned = Cardinality({i \in Accepted(journal) : journal[i].node = "plan"})
    BY DEF Planned, PlansAt
  <2>2. IsASequence(journal) /\ committed \in Boards
    BY DEF RunHolds, Inv, ControlInv, TypeInv, TypeOK
  <2>3. /\ Planned \in Nat /\ Planned <= 1 + committed["plan"].served
        /\ committed["plan"].served <= committed["plan"].request
        /\ committed["plan"].request \in Nat /\ committed["plan"].served \in Nat
    BY <2>2, PlanOf, PlansAreFinite DEF Planned, GateInv, BoardSound, Sound
  <2>4. QED
    BY <2>1, <2>3 DEF PlansPaidFor
<1>2. QED
  BY <1>1, GateInductive, PTL

\* Only the node the run is at is started.
LEMMA StartsWhereItIs ==
  ASSUME RunHolds, [GateNext]_gateVars, Starts("code")
  PROVE  StartOf(journal).node = "code"
<1>1. IsASequence(journal) /\ Len(journal) \in Nat
  BY AppendFacts DEF RunHolds, Inv, ControlInv
<1>2. journal' # journal
  BY <1>1 DEF Starts
<1>3. [Next]_vars
  BY <1>2 DEF GateNext, Dispatch, DispatcherWorks, CommandDies, ApprovePlan,
     RequestRegeneration, SavePlan, gateVars, vars, log, Next
<1>4. CASE StartNode
  <2>1. journal' = Append(journal, NodeStarted(at.node, at.attempt)) /\ pc = "loop"
    BY <1>4 DEF StartNode, AppendRecord
  <2>2. Last(journal') = NodeStarted(at.node, at.attempt)
    BY <1>1, <2>1, AppendFacts DEF Last
  <2>3. at.node = "code"
    BY <2>2 DEF Starts, NodeStarted
  <2>4. QED
    BY <2>1, <2>3 DEF RunHolds, CtlInv, PlaceInv
<1>5. ASSUME NEW r, r.event # "node_started", journal' = Append(journal, r) PROVE FALSE
  BY <1>1, <1>5, AppendFacts DEF Starts, Last
<1>6. QED
  BY <1>2, <1>3, <1>4, <1>5, StepsOfTheJournal DEF RunHolds

\* nodes/approve and cli: no work begins on a plan until a person who was
\* shown the gate's pause over that plan said go on; whatever dies in
\* between, however old the snapshot the gate decides from, and whatever was
\* asked for since.
THEOREM NoWorkStartsUnapproved == GateSpec => NoWorkUnapproved
<1>1. RunHolds /\ GateInv /\ [GateNext]_gateVars
        => [Starts("code") => WasApproved]_gateVars
  BY StartsWhereItIs DEF GateInv, HandedOn
<1>2. QED
  BY <1>1, GateInductive, PTL DEF GateSpec, NoWorkUnapproved

=============================================================================
