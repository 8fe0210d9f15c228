----------------------------- MODULE TreesProofs -----------------------------
(***************************************************************************)
(* What the isolator's calls leave of the repository, and what a run       *)
(* leaves there of its own, for any number of ids, callers, files,         *)
(* candidates, crashes and steps of persons.                               *)
(*                                                                         *)
(* A workspace: no two calls are at one id, so a call's step changes what  *)
(* is of its own id, and every other call fits what is on disk as it did.  *)
(* A branch is deleted at a commit that the run's branch holds, or theirs. *)
(*                                                                         *)
(* A run: belay holds its trees alone between the accounting and the       *)
(* commit, and the run's branch is marked once and for good.               *)
(***************************************************************************)
EXTENDS Worktree, Publish, TLAPS

Commits == Ids \cup {"base", "run"}

Ended   == {"idle", "failed", "done", "kept"}
Begun   == {"source", "status", "dest", "branch"}
Making  == Begun \cup {"add", "unwindReg", "unwindDir", "unwindBranch"}
Letting == {"check", "remove", "removeDir", "tip", "held", "delete"}

CallRecords ==
  [op : {"none", "create", "destroy", "reclaim"}, id : Ids \cup {"none"},
   pc : Ended \cup Making \cup Letting, listed : SUBSET (Ids \cup {"their"}),
   at : SUBSET Commits, made : SUBSET {"branch"}, cancelled : BOOLEAN]

\* What git has registered at an id's path is of that id, or theirs.
RegInv ==
  /\ DOMAIN reg \subseteq Ids
  /\ \A i \in DOMAIN reg : reg[i] \in [branch : {i, "their"}, locked : BOOLEAN]
  /\ dir \in [Ids -> {"gone", "tree", "files", "link"}]

\* A branch made for an id holds of the run's work, and the id's.
RefsInv ==
  /\ "run" \in DOMAIN refs /\ DOMAIN refs \subseteq Ids \cup {"run", "their"}
  /\ \A b \in DOMAIN refs : refs[b] \subseteq Commits
  /\ \A b \in DOMAIN refs \cap Ids : refs[b] \subseteq refs["run"] \cup {b}

\* Where a call is in what it does.
Shaped(k) ==
  /\ k \in CallRecords
  /\ k.op = "none" <=> k.pc \in Ended
  /\ k.op = "create" <=> k.pc \in Making
  /\ k.op # "none" => k.id \in Ids
  /\ k.pc \in Begun => k.made = {}

\* Nothing is registered at the id of a Create that found its path free, nor
\* of a call that has let the worktree go; only one whose add was cancelled
\* leaves what it registered.
AtReg(k) ==
  k.id \in DOMAIN reg =>
     /\ k.pc \in {"status", "dest"} => k.listed # {}
     /\ k.pc \notin {"branch", "add", "removeDir", "tip", "held", "delete"}
     /\ k.pc \in {"unwindReg", "unwindDir", "unwindBranch"} => k.cancelled

\* The commit a call may take away with the branch is one another branch
\* holds: Create's is of the run's, and what Destroy and Reclaim found held
\* elsewhere is on the run's or theirs, neither of which ever goes.
AtRefs(k) ==
  /\ k.pc \in Making \ {"source"} => k.at \subseteq refs["run"]
  /\ k.pc = "held" /\ Exists(k.id) => k.at \subseteq refs[k.id]
  /\ k.pc = "delete" => \/ k.at \subseteq refs["run"]
                        \/ Exists("their") /\ k.at \subseteq refs["their"]

\* Create and Reclaim hold a claim.
Claimed(k) == k.op \in {"create", "reclaim"} => k.id \in inflight

\* No call but a Create that will find the path taken is at a workspace in use.
Spares(k) == k.op # "none" /\ k.id \in mine => k.pc \in Begun

\* One call, with what is on disk.
Fits(k) == Shaped(k) /\ AtReg(k) /\ AtRefs(k) /\ Claimed(k) /\ Spares(k)

\* Every call fits, and no two are at one id.
CallsInv ==
  /\ call \in [Callers -> CallRecords]
  /\ \A c \in Callers : Fits(call[c])
  /\ \A c, d \in Callers : call[c].op # "none" /\ call[d].op # "none"
                           /\ call[c].id = call[d].id => c = d

\* Inductive.
WorktreeInv == RegInv /\ RefsInv /\ CallsInv /\ ReturnedStands

-----------------------------------------------------------------------------
\* A step that leaves what is of every other id as it was.
OnlyAt(id) ==
  /\ \A i : i # id => /\ i \in DOMAIN reg' <=> i \in DOMAIN reg
                      /\ i \in DOMAIN reg => reg'[i] = reg[i]
                      /\ i \in mine' <=> i \in mine
                      /\ i \in Ids => dir'[i] = dir[i]
                      /\ i \in inflight' <=> i \in inflight
                      /\ i \in DOMAIN refs' <=> i \in DOMAIN refs
                      /\ i \in DOMAIN refs => refs'[i] = refs[i]

LEMMA Fields ==
  ASSUME call \in [Callers -> CallRecords], NEW c \in Callers, NEW r \in CallRecords, Step(c, r)
  PROVE  /\ call' \in [Callers -> CallRecords]
         /\ call'[c] = r
         /\ \A d \in Callers \ {c} : call'[d] = call[d]
BY DEF Step

LEMMA GotoFields ==
  ASSUME call \in [Callers -> CallRecords], NEW c \in Callers,
         NEW p \in Ended \cup Making \cup Letting, Goto(c, p)
  PROVE  /\ [call[c] EXCEPT !.pc = p] \in CallRecords
         /\ call' \in [Callers -> CallRecords]
         /\ call'[c] = [call[c] EXCEPT !.pc = p]
         /\ call'[c].pc = p /\ call'[c].op = call[c].op /\ call'[c].id = call[c].id
         /\ call'[c].at = call[c].at /\ call'[c].listed = call[c].listed
         /\ call'[c].made = call[c].made /\ call'[c].cancelled = call[c].cancelled
         /\ \A d \in Callers \ {c} : call'[d] = call[d]
<1>1. [call[c] EXCEPT !.pc = p] \in CallRecords
  BY DEF CallRecords
<1>2. /\ call' \in [Callers -> CallRecords] /\ call'[c] = [call[c] EXCEPT !.pc = p]
      /\ \A d \in Callers \ {c} : call'[d] = call[d]
  BY <1>1, Fields DEF Goto
<1>3. call[c] \in CallRecords
  OBVIOUS
<1>4. QED
  BY <1>1, <1>2, <1>3 DEF CallRecords

\* The call of another id fits after such a step.
LEMMA OtherFits ==
  ASSUME WorktreeInv, NEW id \in Ids, OnlyAt(id), NEW k \in CallRecords, Fits(k),
         k.op # "none" => k.id # id
  PROVE  Fits(k)'
<1>1. refs'["run"] = refs["run"] /\ (Exists("their") => Exists("their")' /\ refs'["their"] = refs["their"])
  BY WorktreeAssumption DEF WorktreeInv, RefsInv, OnlyAt, WorktreeAssumption, Exists
<1>2. CASE k.op = "none"
  BY <1>1, <1>2 DEF Fits, Shaped, AtReg, AtRefs, Claimed, Spares, Ended, Making, Begun
<1>3. CASE k.op # "none"
  <2>1. k.id # id /\ k.id \in Ids
    BY <1>3 DEF Fits, Shaped
  <2>2. AtReg(k)'
    BY <2>1 DEF Fits, AtReg, OnlyAt
  <2>3. AtRefs(k)'
    BY <1>1, <2>1 DEF Fits, AtRefs, OnlyAt, Exists
  <2>4. Claimed(k)' /\ Spares(k)'
    BY <2>1 DEF Fits, Claimed, Spares, OnlyAt
  <2>5. QED
    BY <2>2, <2>3, <2>4 DEF Fits, Shaped
<1>4. QED
  BY <1>2, <1>3

\* A step of the caller c, whose own call fits afterwards.
LEMMA CallerStep ==
  ASSUME WorktreeInv, NEW c \in Callers, call[c].op # "none", OnlyAt(call[c].id),
         call' \in [Callers -> CallRecords],
         \A d \in Callers \ {c} : call'[d] = call[d],
         Fits(call[c])',
         call'[c].op # "none" => call'[c].id = call[c].id
  PROVE  CallsInv'
<1>1. call[c].id \in Ids
  BY DEF WorktreeInv, CallsInv, Fits, Shaped
<1>2. ASSUME NEW d \in Callers PROVE Fits(call[d])'
  <2>1. CASE d = c
    BY <2>1
  <2>2. CASE d # c
    <3>1. PICK k : k = call[d]
      OBVIOUS
    <3>2. k \in CallRecords /\ Fits(k) /\ (k.op # "none" => k.id # call[c].id)
      BY <2>2, <3>1 DEF WorktreeInv, CallsInv
    <3>3. Fits(k)'
      BY <1>1, <3>2, OtherFits
    <3>4. call'[d] = k
      BY <2>2, <3>1
    <3>5. QED
      BY <3>3, <3>4 DEF Fits, Shaped, AtReg, AtRefs, Claimed, Spares
  <2>3. QED
    BY <2>1, <2>2
<1>3. QED
  BY <1>2 DEF WorktreeInv, CallsInv

LEMMA GotoStep ==
  ASSUME WorktreeInv, NEW c \in Callers, call[c].op # "none", OnlyAt(call[c].id),
         NEW p \in Making \cup Letting, Goto(c, p), Fits(call[c])'
  PROVE  CallsInv'
<1>1. /\ call' \in [Callers -> CallRecords]
      /\ call'[c] = [call[c] EXCEPT !.pc = p]
      /\ \A d \in Callers \ {c} : call'[d] = call[d]
  BY GotoFields DEF WorktreeInv, CallsInv
<1>2. call[c] \in CallRecords
  BY DEF WorktreeInv, CallsInv
<1>3. call'[c].id = call[c].id
  BY <1>1, <1>2 DEF CallRecords
<1>4. QED
  BY <1>1, <1>3, CallerStep

LEMMA ReturnFields ==
  ASSUME call \in [Callers -> CallRecords], NEW c \in Callers, NEW p \in Ended, Return(c, p)
  PROVE  /\ call' \in [Callers -> CallRecords]
         /\ call'[c] = [Idle EXCEPT !.pc = p]
         /\ call'[c].op = "none" /\ call'[c].pc = p
         /\ \A d \in Callers \ {c} : call'[d] = call[d]
         /\ inflight' = inflight \/ inflight' = inflight \ {call[c].id}
<1>1. [Idle EXCEPT !.pc = p] \in CallRecords
  BY DEF CallRecords, Idle
<1>2. Step(c, [Idle EXCEPT !.pc = p])
  BY DEF Return
<1>3. /\ call' \in [Callers -> CallRecords]
      /\ call'[c] = [Idle EXCEPT !.pc = p]
      /\ \A d \in Callers \ {c} : call'[d] = call[d]
  BY <1>1, <1>2, Fields
<1>4. call'[c].op = "none" /\ call'[c].pc = p
  BY <1>3 DEF Idle
<1>5. QED
  BY <1>3, <1>4 DEF Return

LEMMA ReturnStep ==
  ASSUME WorktreeInv, NEW c \in Callers, call[c].op # "none", OnlyAt(call[c].id),
         NEW p \in Ended, Return(c, p)
  PROVE  CallsInv'
<1>1. /\ call' \in [Callers -> CallRecords] /\ call'[c].op = "none" /\ call'[c].pc = p
      /\ \A d \in Callers \ {c} : call'[d] = call[d]
  BY ReturnFields DEF WorktreeInv, CallsInv
<1>2. Fits(call[c])'
  BY <1>1 DEF Fits, Shaped, AtReg, AtRefs, Claimed, Spares, Ended, Making, Begun
<1>3. QED
  BY <1>1, <1>2, CallerStep

LEMMA QuietKeeps ==
  ASSUME WorktreeInv, UNCHANGED <<git, past>>
  PROVE  /\ RegInv' /\ RefsInv' /\ ReturnedStands'
BY DEF git, past, WorktreeInv, RegInv, RefsInv, ReturnedStands, Exists

LEMMA QuietReturn ==
  ASSUME WorktreeInv, NEW c \in Callers, call[c].op # "none", NEW p \in Ended, Return(c, p),
         UNCHANGED <<git, past>>
  PROVE  WorktreeInv'
<1>1. OnlyAt(call[c].id)
  BY ReturnFields DEF OnlyAt, git, past, WorktreeInv, CallsInv
<1>2. QED
  BY <1>1, ReturnStep, QuietKeeps DEF WorktreeInv

\* A step of a call that changes nothing on disk.
LEMMA QuietGoto ==
  ASSUME WorktreeInv, NEW c \in Callers, call[c].op # "none",
         call' \in [Callers -> CallRecords],
         \A d \in Callers \ {c} : call'[d] = call[d],
         call'[c].op = call[c].op /\ call'[c].id = call[c].id,
         Shaped(call[c])', AtReg(call'[c]), AtRefs(call'[c]),
         call'[c].pc \in Begun \/ call[c].pc \notin Begun,
         UNCHANGED <<git, inflight, past>>
  PROVE  WorktreeInv'
<1>1. OnlyAt(call[c].id)
  BY DEF OnlyAt, git, past
<1>2. Fits(call[c])'
  BY DEF WorktreeInv, CallsInv, Fits, AtReg, AtRefs, Claimed, Spares, git, past, Exists
<1>3. QED
  BY <1>1, <1>2, CallerStep, QuietKeeps DEF WorktreeInv

-----------------------------------------------------------------------------
LEMMA CallAt ==
  ASSUME WorktreeInv, NEW c \in Callers
  PROVE  /\ call \in [Callers -> CallRecords] /\ call[c] \in CallRecords
         /\ Fits(call[c])
         /\ call[c].pc \in Making \cup Letting => call[c].op # "none" /\ call[c].id \in Ids
BY DEF WorktreeInv, CallsInv, Fits, Shaped, Ended, Making, Letting, Begun

\* A call that begins.
LEMMA BeginStep ==
  ASSUME WorktreeInv, NEW c \in Callers, NEW id \in Ids,
         NEW op \in {"create", "destroy", "reclaim"}, NEW p \in {"source", "check"},
         Begin(c, op, id, p), OnlyAt(id), op = "create" <=> p = "source",
         op # "destroy" => id \in inflight',
         id \in mine' => p = "source",
         \A d \in Callers : call[d].op # "none" => call[d].id # id
  PROVE  CallsInv'
<1> DEFINE r == [Idle EXCEPT !.op = op, !.id = id, !.pc = p]
<1>1. r \in CallRecords /\ r.op = op /\ r.id = id /\ r.pc = p /\ r.made = {}
  BY DEF CallRecords, Idle, Making, Letting, Begun
<1>2. /\ call' \in [Callers -> CallRecords] /\ call'[c] = r
      /\ \A d \in Callers \ {c} : call'[d] = call[d]
  BY <1>1, Fields DEF Begin, WorktreeInv, CallsInv
<1>3. ASSUME NEW k, k = r PROVE Fits(k)'
  BY <1>1, <1>3 DEF Fits, Shaped, AtReg, AtRefs, Claimed, Spares, Ended, Making, Begun
<1>4. ASSUME NEW d \in Callers PROVE Fits(call[d])'
  <2>1. CASE d = c
    <3>1. PICK k : k = call'[d]
      OBVIOUS
    <3>2. Fits(k)'
      BY <1>2, <1>3, <2>1, <3>1
    <3>3. QED
      BY <3>1, <3>2 DEF Fits, Shaped, AtReg, AtRefs, Claimed, Spares
  <2>2. CASE d # c
    <3>1. PICK k : k = call[d]
      OBVIOUS
    <3>2. k \in CallRecords /\ Fits(k) /\ (k.op # "none" => k.id # id)
      BY <2>2, <3>1 DEF WorktreeInv, CallsInv
    <3>3. Fits(k)'
      BY <3>2, OtherFits
    <3>4. call'[d] = k
      BY <1>2, <2>2, <3>1
    <3>5. QED
      BY <3>3, <3>4 DEF Fits, Shaped, AtReg, AtRefs, Claimed, Spares
  <2>3. QED
    BY <2>1, <2>2
<1>5. ASSUME NEW d \in Callers, NEW e \in Callers, call'[d].op # "none", call'[e].op # "none",
             call'[d].id = call'[e].id
      PROVE  d = e
  <2>1. d # c => call'[d] = call[d]
    BY <1>2
  <2>2. e # c => call'[e] = call[e]
    BY <1>2
  <2>3. d # c => call[d].op # "none" /\ call[d].id # id
    BY <1>5, <2>1
  <2>4. e # c => call[e].op # "none" /\ call[e].id # id
    BY <1>5, <2>2
  <2>5. CASE d # c /\ e # c
    BY <1>5, <2>1, <2>2, <2>3, <2>4, <2>5 DEF WorktreeInv, CallsInv
  <2>6. QED
    BY <1>1, <1>2, <1>5, <2>1, <2>2, <2>3, <2>4, <2>5
<1>6. QED
  BY <1>2, <1>4, <1>5 DEF CallsInv

\* A claimed id is nobody else's.
LEMMA ClaimedIsFree ==
  ASSUME WorktreeInv, NEW c \in Callers, NEW id \in Ids, NEW op, NEW p, Begin(c, op, id, p), claim(id)
  PROVE  \A d \in Callers : call[d].op # "none" => call[d].id # id
<1>1. SUFFICES ASSUME NEW d \in Callers, call[d].op # "none", call[d].id = id PROVE FALSE
  OBVIOUS
<1>2. call[d].op \in {"create", "reclaim"}
  BY <1>1 DEF Begin, WorktreeInv, CallsInv, CallRecords
<1>3. id \in inflight
  BY <1>1, <1>2 DEF WorktreeInv, CallsInv, Fits, Claimed
<1>4. QED
  BY <1>3 DEF claim

LEMMA ReleasedKeeps ==
  ASSUME WorktreeInv, UNCHANGED git, NEW id, mine' = mine \ {id}
  PROVE  RegInv' /\ RefsInv' /\ ReturnedStands'
BY DEF WorktreeInv, RegInv, RefsInv, ReturnedStands, git, Exists

LEMMA BeginCreateInv ==
  ASSUME WorktreeInv, NEW c \in Callers, NEW id \in Ids, BeginCreate(c, id)
  PROVE  WorktreeInv'
<1>1. OnlyAt(id) /\ id \in inflight'
  BY DEF BeginCreate, claim, OnlyAt, git, past
<1>2. CallsInv'
  BY <1>1, BeginStep, ClaimedIsFree DEF BeginCreate
<1>3. QED
  BY <1>2, QuietKeeps DEF BeginCreate, WorktreeInv

LEMMA BeginDestroyInv ==
  ASSUME WorktreeInv, NEW c \in Callers, NEW id \in Ids, BeginDestroy(c, id)
  PROVE  WorktreeInv'
<1>1. OnlyAt(id) /\ id \notin mine'
  BY DEF BeginDestroy, OnlyAt, git
<1>2. CallsInv'
  BY <1>1, BeginStep DEF BeginDestroy
<1>3. QED
  BY <1>2, ReleasedKeeps DEF BeginDestroy, WorktreeInv

LEMMA BeginReclaimInv ==
  ASSUME WorktreeInv, NEW c \in Callers, NEW id \in Ids, BeginReclaim(c, id)
  PROVE  WorktreeInv'
<1>1. OnlyAt(id) /\ id \notin mine' /\ id \in inflight'
  BY DEF BeginReclaim, OnlyAt, git, claim
<1>2. CallsInv'
  BY <1>1, BeginStep, ClaimedIsFree DEF BeginReclaim
<1>3. QED
  BY <1>2, ReleasedKeeps DEF BeginReclaim, WorktreeInv

LEMMA QuietNext ==
  ASSUME WorktreeInv, NEW c \in Callers, NEW p \in Making \cup Letting, Goto(c, p),
         call[c].op # "none",
         call[c].op = "create" <=> p \in Making,
         p \in Begun \/ call[c].pc \notin Begun,
         p \in Begun => call[c].made = {},
         UNCHANGED <<git, inflight, past>>,
         AtReg([call[c] EXCEPT !.pc = p]), AtRefs([call[c] EXCEPT !.pc = p])
  PROVE  WorktreeInv'
<1>1. /\ [call[c] EXCEPT !.pc = p] \in CallRecords
      /\ call' \in [Callers -> CallRecords]
      /\ call'[c] = [call[c] EXCEPT !.pc = p]
      /\ \A d \in Callers \ {c} : call'[d] = call[d]
  BY GotoFields DEF WorktreeInv, CallsInv
<1>2. call[c] \in CallRecords /\ Fits(call[c])
  BY CallAt
<1>3. /\ call'[c].op = call[c].op /\ call'[c].id = call[c].id /\ call'[c].pc = p
      /\ call'[c].made = call[c].made
  BY <1>1, <1>2 DEF CallRecords
<1>4. Shaped(call[c])'
  BY <1>1, <1>2, <1>3 DEF Fits, Shaped, Ended, Making, Letting, Begun
<1>5. QED
  BY <1>1, <1>3, <1>4, QuietGoto

LEMMA sourceInv ==
  ASSUME WorktreeInv, NEW c \in Callers, source(c)
  PROVE  WorktreeInv'
<1>1. call[c].pc = "source" /\ call[c].op # "none" /\ UNCHANGED <<git, past>>
  BY CallAt DEF source, Live, At, Making, Begun
<1>2. CASE Return(c, "failed")
  BY <1>1, <1>2, QuietReturn DEF Ended
<1>3. CASE ~ Return(c, "failed")
  <2> DEFINE r == [call[c] EXCEPT !.pc = "status", !.at = refs["run"],
                                  !.listed = Listing(call[c].id)]
  <2>1. Step(c, r) /\ UNCHANGED inflight
    BY <1>3 DEF source
  <2>2. call[c] \in CallRecords /\ Fits(call[c]) /\ call \in [Callers -> CallRecords]
    BY CallAt
  <2>3. refs["run"] \subseteq Commits /\ Listing(call[c].id) \subseteq Ids \cup {"their"}
    BY DEF WorktreeInv, RefsInv, RegInv, Listing
  <2>4. /\ r \in CallRecords /\ r.op = call[c].op /\ r.id = call[c].id /\ r.pc = "status"
        /\ r.made = call[c].made /\ r.at = refs["run"] /\ r.listed = Listing(r.id)
    BY <2>2, <2>3 DEF CallRecords, Making, Begun
  <2>5. /\ call' \in [Callers -> CallRecords] /\ call'[c] = r
        /\ \A d \in Callers \ {c} : call'[d] = call[d]
    BY <2>1, <2>2, <2>4, Fields
  <2> HIDE DEF r
  <2>6. Shaped(call[c])'
    BY <1>1, <2>2, <2>4, <2>5 DEF Fits, Shaped, Ended, Making, Letting, Begun
  <2>7. AtReg(r) /\ AtRefs(r)
    BY <2>4 DEF AtReg, AtRefs, Listing
  <2>8. QED
    BY <1>1, <2>1, <2>4, <2>5, <2>6, <2>7, QuietGoto DEF Begun
<1>4. QED
  BY <1>2, <1>3

LEMMA StatusInv ==
  ASSUME WorktreeInv, NEW c \in Callers, Status(c)
  PROVE  WorktreeInv'
<1>1. call[c].pc = "status" /\ call[c].op # "none" /\ UNCHANGED <<git, past>>
  BY CallAt DEF Status, Live, At, Making, Begun
<1>2. CASE Return(c, "failed")
  BY <1>1, <1>2, QuietReturn DEF Ended
<1>3. CASE Goto(c, "dest") /\ UNCHANGED inflight
  <2>1. call[c] \in CallRecords /\ Fits(call[c])
    BY CallAt
  <2>2. AtReg([call[c] EXCEPT !.pc = "dest"]) /\ AtRefs([call[c] EXCEPT !.pc = "dest"])
    BY <1>1, <2>1 DEF Fits, AtReg, AtRefs, CallRecords, Making, Begun
  <2>3. call[c].op = "create" /\ call[c].made = {}
    BY <1>1, <2>1 DEF Fits, Shaped, Making, Begun
  <2>4. QED
    BY <1>1, <1>3, <2>2, <2>3, QuietNext DEF Making, Begun
<1>4. QED
  BY <1>2, <1>3 DEF Status

LEMMA checkDestinationInv ==
  ASSUME WorktreeInv, NEW c \in Callers, checkDestination(c)
  PROVE  WorktreeInv'
<1>1. call[c].pc = "dest" /\ call[c].op # "none" /\ UNCHANGED <<git, past>>
  BY CallAt DEF checkDestination, At, Making, Begun
<1>2. CASE Return(c, "failed")
  BY <1>1, <1>2, QuietReturn DEF Ended
<1>3. CASE ~ Return(c, "failed")
  <2>1. call[c] \in CallRecords /\ Fits(call[c])
    BY CallAt
  <2>2. Goto(c, "branch") /\ UNCHANGED inflight /\ call[c].listed = {}
    BY <1>3 DEF checkDestination
  <2>3. AtReg([call[c] EXCEPT !.pc = "branch"]) /\ AtRefs([call[c] EXCEPT !.pc = "branch"])
    BY <1>1, <2>1, <2>2 DEF Fits, AtReg, AtRefs, CallRecords, Making, Begun
  <2>4. call[c].op = "create" /\ call[c].made = {}
    BY <1>1, <2>1 DEF Fits, Shaped, Making, Begun
  <2>5. QED
    BY <1>1, <2>2, <2>3, <2>4, QuietNext DEF Making, Begun
<1>4. QED
  BY <1>2, <1>3

LEMMA checkInv ==
  ASSUME WorktreeInv, NEW c \in Callers, check(c)
  PROVE  WorktreeInv'
<1>1. call[c].pc = "check" /\ call[c].op # "none" /\ UNCHANGED <<git, past>>
  BY CallAt DEF check, Live, At, Letting
<1>2. CASE Return(c, "failed")
  BY <1>1, <1>2, QuietReturn DEF Ended
<1>3. CASE Goto(c, "remove") /\ UNCHANGED inflight
  <2>1. call[c] \in CallRecords /\ Fits(call[c])
    BY CallAt
  <2>2. AtReg([call[c] EXCEPT !.pc = "remove"]) /\ AtRefs([call[c] EXCEPT !.pc = "remove"])
    BY <1>1, <2>1 DEF Fits, AtReg, AtRefs, CallRecords, Making, Begun
  <2>3. call[c].op # "create"
    BY <1>1, <2>1 DEF Fits, Shaped, Making, Begun
  <2>4. QED
    BY <1>1, <1>3, <2>2, <2>3, QuietNext DEF Making, Begun, Letting
<1>4. QED
  BY <1>2, <1>3 DEF check

LEMMA BranchTipInv ==
  ASSUME WorktreeInv, NEW c \in Callers, BranchTip(c)
  PROVE  WorktreeInv'
<1>1. call[c].pc = "tip" /\ call[c].op # "none" /\ UNCHANGED <<git, past>>
  BY CallAt DEF BranchTip, Live, At, Letting
<1>2. CASE Return(c, "done")
  BY <1>1, <1>2, QuietReturn DEF Ended
<1>3. CASE ~ Return(c, "done")
  <2> DEFINE r == [call[c] EXCEPT !.pc = "held", !.at = refs[call[c].id]]
  <2>1. Step(c, r) /\ UNCHANGED inflight /\ Exists(call[c].id)
    BY <1>3 DEF BranchTip
  <2>2. call[c] \in CallRecords /\ Fits(call[c]) /\ call \in [Callers -> CallRecords]
    BY CallAt
  <2>3. refs[call[c].id] \subseteq Commits
    BY <2>1 DEF WorktreeInv, RefsInv, Exists
  <2>4. /\ r \in CallRecords /\ r.op = call[c].op /\ r.id = call[c].id /\ r.pc = "held"
        /\ r.made = call[c].made /\ r.at = refs[r.id]
    BY <2>2, <2>3 DEF CallRecords, Letting
  <2>5. /\ call' \in [Callers -> CallRecords] /\ call'[c] = r
        /\ \A d \in Callers \ {c} : call'[d] = call[d]
    BY <2>1, <2>2, <2>4, Fields
  <2> HIDE DEF r
  <2>6. Shaped(call[c])'
    BY <1>1, <2>2, <2>4, <2>5 DEF Fits, Shaped, Ended, Making, Letting, Begun
  <2>7. AtReg(r) /\ AtRefs(r)
    BY <1>1, <2>2, <2>4 DEF Fits, AtReg, AtRefs, Making, Begun
  <2>8. QED
    BY <1>1, <2>1, <2>4, <2>5, <2>6, <2>7, QuietGoto DEF Begun
<1>4. QED
  BY <1>2, <1>3

LEMMA ContainedElsewhereInv ==
  ASSUME WorktreeInv, NEW c \in Callers, ContainedElsewhere(c)
  PROVE  WorktreeInv'
<1>1. call[c].pc = "held" /\ call[c].op # "none" /\ UNCHANGED <<git, past>>
  BY CallAt DEF ContainedElsewhere, Live, At, Letting
<1>2. CASE Return(c, "failed") \/ Return(c, "kept")
  BY <1>1, <1>2, QuietReturn DEF Ended
<1>3. CASE Exists(call[c].id) /\ Held(call[c].id) /\ Goto(c, "delete") /\ UNCHANGED inflight
  <2>1. call[c] \in CallRecords /\ Fits(call[c]) /\ call[c].id \in Ids
    BY <1>1, CallAt DEF Letting
  <2>2. AtReg([call[c] EXCEPT !.pc = "delete"])
    BY <1>1, <2>1 DEF Fits, AtReg, CallRecords
  <2>3. call[c].at \subseteq refs[call[c].id]
    BY <1>1, <1>3, <2>1 DEF Fits, AtRefs
  <2>4. PICK b \in DOMAIN refs \ {call[c].id} : refs[call[c].id] \subseteq refs[b]
    BY <1>3 DEF Held
  <2>5. \/ call[c].at \subseteq refs["run"]
        \/ Exists("their") /\ call[c].at \subseteq refs["their"]
    <3>1. CASE b \in Ids
      <4>1. refs[b] \subseteq refs["run"] \cup {b}
        BY <2>4, <3>1 DEF WorktreeInv, RefsInv
      <4>2. refs[call[c].id] \subseteq refs["run"] \cup {call[c].id}
        BY <1>3, <2>1 DEF WorktreeInv, RefsInv, Exists
      <4>3. QED
        BY <2>3, <2>4, <4>1, <4>2
    <3>2. CASE b \in {"run", "their"}
      BY <2>3, <2>4, <3>2 DEF Exists
    <3>3. QED
      BY <2>4, <3>1, <3>2 DEF WorktreeInv, RefsInv
  <2>6. AtRefs([call[c] EXCEPT !.pc = "delete"])
    BY <2>1, <2>5 DEF AtRefs, CallRecords, Making, Begun
  <2>7. call[c].op # "create"
    BY <1>1, <2>1 DEF Fits, Shaped, Making, Begun
  <2>8. QED
    BY <1>1, <1>3, <2>2, <2>6, <2>7, QuietNext DEF Making, Begun, Letting
<1>4. QED
  BY <1>2, <1>3 DEF ContainedElsewhere

-----------------------------------------------------------------------------
\* What Goto leaves of a call.
LEMMA WentOn ==
  ASSUME WorktreeInv, NEW c \in Callers, NEW p \in Making \cup Letting, Goto(c, p)
  PROVE  /\ call'[c].pc = p /\ call'[c].op = call[c].op /\ call'[c].id = call[c].id
         /\ call'[c].at = call[c].at /\ call'[c].cancelled = call[c].cancelled
BY GotoFields DEF WorktreeInv, CallsInv

\* A step of the caller c that goes on to p, having changed what is at its id.
LEMMA GoesOn ==
  ASSUME WorktreeInv, NEW c \in Callers, call[c].op # "none", OnlyAt(call[c].id),
         NEW p \in Making \cup Letting, Goto(c, p),
         call[c].op = "create" <=> p \in Making,
         p \notin Begun, call[c].pc \notin Begun,
         AtReg(call[c])', AtRefs(call[c])',
         call[c].id \in inflight => call[c].id \in inflight',
         call[c].id \in mine' => call[c].id \in mine
  PROVE  CallsInv'
<1>1. /\ call' \in [Callers -> CallRecords]
      /\ call'[c].op = call[c].op /\ call'[c].id = call[c].id /\ call'[c].pc = p
      /\ call'[c].made = call[c].made
      /\ \A d \in Callers \ {c} : call'[d] = call[d]
  BY GotoFields DEF WorktreeInv, CallsInv
<1>2. Fits(call[c])
  BY CallAt
<1>3. Shaped(call[c])'
  BY <1>1, <1>2 DEF Fits, Shaped, Ended, Making, Letting, Begun
<1>4. Claimed(call[c])' /\ Spares(call[c])'
  BY <1>1, <1>2 DEF Fits, Claimed, Spares
<1>5. QED
  BY <1>3, <1>4, GotoStep DEF Fits

LEMMA CreateBranchInv ==
  ASSUME WorktreeInv, NEW c \in Callers, CreateBranch(c)
  PROVE  WorktreeInv'
<1>1. call[c].pc = "branch" /\ call[c].op # "none" /\ call[c].id \in Ids
  BY CallAt DEF CreateBranch, Live, At, Making, Begun
<1>2. CASE Return(c, "failed") /\ UNCHANGED refs
  BY <1>1, <1>2, QuietReturn DEF Ended, CreateBranch, git
<1>3. CASE ~ (Return(c, "failed") /\ UNCHANGED refs)
  <2> DEFINE id == call[c].id
             r == [call[c] EXCEPT !.pc = "add", !.made = {"branch"}]
  <2>1. /\ Step(c, r) /\ UNCHANGED <<inflight, reg, dir, past>>
        /\ refs' = With(refs, id, call[c].at) /\ ~ Exists(id)
    BY <1>3 DEF CreateBranch, MayCreate
  <2>2. call[c] \in CallRecords /\ Fits(call[c]) /\ call \in [Callers -> CallRecords]
    BY CallAt
  <2>3. /\ r \in CallRecords /\ r.op = call[c].op /\ r.id = id /\ r.pc = "add"
        /\ r.at = call[c].at
    BY <2>2 DEF CallRecords, Making, Begun
  <2>4. /\ call' \in [Callers -> CallRecords] /\ call'[c] = r
        /\ \A d \in Callers \ {c} : call'[d] = call[d]
    BY <2>1, <2>2, <2>3, Fields
  <2>5. call[c].at \subseteq refs["run"] /\ id \notin DOMAIN reg /\ id \notin mine
    BY <1>1, <2>2 DEF Fits, AtReg, AtRefs, Making, Begun, WorktreeInv, ReturnedStands
  <2>6. OnlyAt(id) /\ refs'["run"] = refs["run"] /\ refs'[id] = call[c].at
        /\ DOMAIN refs' = DOMAIN refs \cup {id}
        /\ \A b \in DOMAIN refs : refs'[b] = refs[b]
    BY <1>1, <2>1, WorktreeAssumption DEF OnlyAt, With, WorktreeInv, RefsInv, past, WorktreeAssumption, Exists
  <2> HIDE DEF r
  <2>7. RefsInv'
    BY <1>1, <2>5, <2>6 DEF WorktreeInv, RefsInv
  <2>8. RegInv' /\ ReturnedStands'
    BY <2>1, <2>6 DEF WorktreeInv, RegInv, ReturnedStands, past, Exists
  <2>9. Shaped(call[c])'
    BY <1>1, <2>2, <2>3, <2>4 DEF Fits, Shaped, Ended, Making, Letting, Begun
  <2>10. AtReg(call[c])'
    BY <2>1, <2>3, <2>4, <2>5 DEF AtReg
  <2>11. AtRefs(call[c])'
    BY <2>3, <2>4, <2>5, <2>6 DEF AtRefs
  <2>12. Claimed(call[c])' /\ Spares(call[c])'
    BY <2>1, <2>2, <2>3, <2>4, <2>5 DEF Fits, Claimed, Spares, past
  <2>13. CallsInv'
    BY <1>1, <2>3, <2>4, <2>6, <2>9, <2>10, <2>11, <2>12, CallerStep DEF Fits
  <2>14. QED
    BY <2>7, <2>8, <2>13 DEF WorktreeInv
<1>4. QED
  BY <1>2, <1>3

\* What an add and what an unregistration leave registered.
LEMMA AddedReg ==
  ASSUME WorktreeInv, NEW id \in Ids, id \notin DOMAIN reg,
         reg' = With(reg, id, [branch |-> id, locked |-> FALSE]),
         dir' = [dir EXCEPT ![id] = "tree"]
  PROVE  /\ RegInv'
         /\ id \in DOMAIN reg' /\ reg'[id].branch = id /\ dir'[id] = "tree"
         /\ \A i : i # id => (i \in DOMAIN reg' <=> i \in DOMAIN reg)
                             /\ (i \in DOMAIN reg => reg'[i] = reg[i])
                             /\ (i \in Ids => dir'[i] = dir[i])
<1>1. /\ DOMAIN reg' = DOMAIN reg \cup {id} /\ reg'[id] = [branch |-> id, locked |-> FALSE]
      /\ \A i \in DOMAIN reg : reg'[i] = reg[i]
  BY DEF With
<1>2. /\ dir' \in [Ids -> {"gone", "tree", "files", "link"}] /\ dir'[id] = "tree"
      /\ \A i \in Ids : i # id => dir'[i] = dir[i]
  BY DEF WorktreeInv, RegInv
<1>3. \A i \in DOMAIN reg' : reg'[i] \in [branch : {i, "their"}, locked : BOOLEAN]
  <2>1. [branch |-> id, locked |-> FALSE] \in [branch : {id, "their"}, locked : BOOLEAN]
    OBVIOUS
  <2>2. reg'[id] \in [branch : {id, "their"}, locked : BOOLEAN]
    BY <1>1, <2>1
  <2>3. QED
    BY <1>1, <2>2 DEF WorktreeInv, RegInv
<1>4. RegInv'
  BY <1>1, <1>2, <1>3 DEF WorktreeInv, RegInv
<1>5. reg'[id].branch = id
  BY <1>1
<1>6. QED
  BY <1>1, <1>2, <1>4, <1>5

LEMMA UnregisteredReg ==
  ASSUME WorktreeInv, NEW id \in Ids, Unregistered(id)
  PROVE  /\ RegInv'
         /\ id \notin DOMAIN reg'
         /\ \A i : i # id => (i \in DOMAIN reg' <=> i \in DOMAIN reg)
                             /\ (i \in DOMAIN reg => reg'[i] = reg[i])
                             /\ (i \in Ids => dir'[i] = dir[i])
<1>1. DOMAIN reg' = DOMAIN reg \ {id} /\ \A i \in DOMAIN reg' : reg'[i] = reg[i]
  BY DEF Unregistered, Less, Restrict
<1>2. dir' \in [Ids -> {"gone", "tree", "files", "link"}] /\ \A i \in Ids : i # id => dir'[i] = dir[i]
  BY DEF Unregistered, WorktreeInv, RegInv
<1>3. RegInv'
  BY <1>1, <1>2 DEF WorktreeInv, RegInv
<1>4. QED
  BY <1>1, <1>2, <1>3

LEMMA RemovedReg ==
  ASSUME WorktreeInv, NEW id \in Ids, Removed(id), UNCHANGED reg
  PROVE  /\ RegInv'
         /\ \A i \in Ids : i # id => dir'[i] = dir[i]
BY DEF Removed, WorktreeInv, RegInv

LEMMA SparedStands ==
  ASSUME WorktreeInv, NEW id \in Ids, id \notin mine, OnlyAt(id), UNCHANGED mine
  PROVE  ReturnedStands' /\ (UNCHANGED refs => RefsInv')
BY DEF WorktreeInv, RefsInv, RegInv, ReturnedStands, OnlyAt, Exists

LEMMA AddWorktreeInv ==
  ASSUME WorktreeInv, NEW c \in Callers, AddWorktree(c)
  PROVE  WorktreeInv'
<1> DEFINE id == call[c].id
<1>1. call[c].pc = "add" /\ call[c].op # "none" /\ id \in Ids /\ UNCHANGED refs
  BY CallAt DEF AddWorktree, Live, At, Making, Begun
<1>2. call[c] \in CallRecords /\ Fits(call[c])
  BY CallAt
<1>3. call[c].op = "create" /\ id \notin DOMAIN reg /\ call[c].at \subseteq refs["run"]
  BY <1>1, <1>2 DEF Fits, Shaped, AtReg, AtRefs, Making, Begun
<1>4. CASE /\ Exists(id) /\ ~ CheckedOut(id) /\ id \notin DOMAIN reg /\ dir[id] = "gone"
           /\ reg' = With(reg, id, [branch |-> id, locked |-> FALSE])
           /\ dir' = [dir EXCEPT ![id] = "tree"]
           /\ mine' = mine \cup {id} /\ known' = known \cup {id}
           /\ Return(c, "idle")
  <2>1. /\ RegInv' /\ id \in DOMAIN reg' /\ reg'[id].branch = id /\ dir'[id] = "tree"
        /\ \A i : i # id => (i \in DOMAIN reg' <=> i \in DOMAIN reg)
                            /\ (i \in DOMAIN reg => reg'[i] = reg[i])
                            /\ (i \in Ids => dir'[i] = dir[i])
    BY <1>1, <1>4, AddedReg
  <2>2. inflight' = inflight \/ inflight' = inflight \ {id}
    BY <1>4, ReturnFields, CallAt DEF Ended
  <2>3. OnlyAt(id)
    BY <1>1, <1>4, <2>1, <2>2 DEF OnlyAt
  <2>4. RefsInv'
    BY <1>1 DEF WorktreeInv, RefsInv
  <2>5. ReturnedStands'
    <3>1. ASSUME NEW i \in mine, i # id
          PROVE  /\ i \in DOMAIN reg' /\ reg'[i].branch = i
                 /\ i \in DOMAIN refs' /\ dir'[i] = "tree"
      BY <1>1, <2>1, <3>1 DEF WorktreeInv, ReturnedStands, RegInv, Exists
    <3>2. id \in DOMAIN refs'
      BY <1>1, <1>4 DEF Exists
    <3>3. QED
      BY <1>4, <2>1, <3>1, <3>2 DEF ReturnedStands, Exists
  <2>6. CallsInv'
    BY <1>1, <1>4, <2>3, ReturnStep DEF Ended
  <2>7. QED
    BY <2>1, <2>4, <2>5, <2>6 DEF WorktreeInv
<1>5. CASE Goto(c, "unwindReg") /\ UNCHANGED <<reg, dir, inflight, past>>
  <2>1. AtReg([call[c] EXCEPT !.pc = "unwindReg"]) /\ AtRefs([call[c] EXCEPT !.pc = "unwindReg"])
    BY <1>2, <1>3 DEF AtReg, AtRefs, CallRecords
  <2>2. QED
    BY <1>1, <1>3, <1>5, <2>1, QuietNext DEF Making, Begun, git
<1>6. QED
  BY <1>4, <1>5 DEF AddWorktree

LEMMA unwindRegInv ==
  ASSUME WorktreeInv, NEW c \in Callers, unwindReg(c)
  PROVE  WorktreeInv'
<1> DEFINE id == call[c].id
<1>1. /\ call[c].pc = "unwindReg" /\ ~ call[c].cancelled /\ call[c].op # "none" /\ id \in Ids
      /\ UNCHANGED <<refs, inflight, past>> /\ Goto(c, "unwindDir")
  BY CallAt DEF unwindReg, Live, At, Making, Begun, Keep
<1>2. call[c] \in CallRecords /\ Fits(call[c])
  BY CallAt
<1>3. /\ call[c].op = "create" /\ id \notin DOMAIN reg /\ call[c].at \subseteq refs["run"]
      /\ id \notin mine
  BY <1>1, <1>2 DEF Fits, Shaped, AtReg, AtRefs, Spares, Making, Begun
<1>4. Unregistered(id)
  BY <1>1, <1>3 DEF unwindReg, Locked
<1>5. /\ RegInv' /\ id \notin DOMAIN reg'
      /\ \A i : i # id => (i \in DOMAIN reg' <=> i \in DOMAIN reg)
                          /\ (i \in DOMAIN reg => reg'[i] = reg[i])
                          /\ (i \in Ids => dir'[i] = dir[i])
  BY <1>1, <1>4, UnregisteredReg
<1>6. OnlyAt(id)
  BY <1>1, <1>5 DEF OnlyAt, past
<1>7f. /\ call'[c].pc = "unwindDir" /\ call'[c].id = id
      /\ call'[c].at = call[c].at /\ call'[c].cancelled = call[c].cancelled
  BY <1>1, WentOn DEF Making, Begun, Letting
<1>7. AtReg(call[c])' /\ AtRefs(call[c])'
  BY <1>1, <1>2, <1>3, <1>5, <1>7f DEF Fits, AtReg, AtRefs, Making, Begun
<1>8. CallsInv'
  BY <1>1, <1>3, <1>6, <1>7, GoesOn DEF Making, Begun, past
<1>9. QED
  BY <1>1, <1>3, <1>5, <1>6, <1>8, SparedStands DEF WorktreeInv, past

LEMMA unwindDirInv ==
  ASSUME WorktreeInv, NEW c \in Callers, unwindDir(c)
  PROVE  WorktreeInv'
<1> DEFINE id == call[c].id
<1>1. /\ call[c].pc = "unwindDir" /\ call[c].op # "none" /\ id \in Ids
      /\ UNCHANGED <<refs, reg, inflight, past>> /\ Goto(c, "unwindBranch")
  BY CallAt DEF unwindDir, At, Making, Begun, Keep
<1>2. call[c] \in CallRecords /\ Fits(call[c])
  BY CallAt
<1>3. call[c].op = "create" /\ call[c].at \subseteq refs["run"] /\ id \notin mine
  BY <1>1, <1>2 DEF Fits, Shaped, AtReg, AtRefs, Spares, Making, Begun
<1>4. RegInv' /\ \A i \in Ids : i # id => dir'[i] = dir[i]
  BY <1>1, RemovedReg DEF unwindDir, WorktreeInv, RegInv
<1>5. OnlyAt(id)
  BY <1>1, <1>4 DEF OnlyAt, past
<1>7f. /\ call'[c].pc = "unwindBranch" /\ call'[c].id = id
      /\ call'[c].at = call[c].at /\ call'[c].cancelled = call[c].cancelled
  BY <1>1, WentOn DEF Making, Begun, Letting
<1>6. AtReg(call[c])' /\ AtRefs(call[c])'
  BY <1>1, <1>2, <1>3, <1>7f DEF Fits, AtReg, AtRefs, Making, Begun
<1>7. CallsInv'
  BY <1>1, <1>3, <1>5, <1>6, GoesOn DEF Making, Begun, past
<1>8. QED
  BY <1>1, <1>3, <1>4, <1>5, <1>7, SparedStands DEF WorktreeInv, past

LEMMA RemoveWorktreeInv ==
  ASSUME WorktreeInv, NEW c \in Callers, RemoveWorktree(c)
  PROVE  WorktreeInv'
<1> DEFINE id == call[c].id
<1>1. /\ call[c].pc = "remove" /\ call[c].op # "none" /\ id \in Ids /\ UNCHANGED <<refs, past>>
  BY CallAt DEF RemoveWorktree, Live, At, Letting
<1>2. call[c] \in CallRecords /\ Fits(call[c])
  BY CallAt
<1>3. call[c].op # "create" /\ id \notin mine
  BY <1>1, <1>2 DEF Fits, Shaped, Spares, Making, Begun
<1>4. CASE Return(c, "failed") /\ UNCHANGED <<reg, dir>>
  BY <1>1, <1>4, QuietReturn DEF Ended, git
<1>5. CASE Unregistered(id) /\ Goto(c, "removeDir") /\ UNCHANGED inflight
  <2>1. /\ RegInv' /\ id \notin DOMAIN reg'
        /\ \A i : i # id => (i \in DOMAIN reg' <=> i \in DOMAIN reg)
                            /\ (i \in DOMAIN reg => reg'[i] = reg[i])
                            /\ (i \in Ids => dir'[i] = dir[i])
    BY <1>1, <1>5, UnregisteredReg
  <2>2. OnlyAt(id)
    BY <1>1, <1>5, <2>1 DEF OnlyAt, past
  <2>3f. /\ call'[c].pc = "removeDir" /\ call'[c].id = id
        /\ call'[c].at = call[c].at /\ call'[c].cancelled = call[c].cancelled
    BY <1>5, WentOn DEF Making, Begun, Letting
  <2>3. AtReg(call[c])' /\ AtRefs(call[c])'
    BY <1>2, <2>1, <2>3f DEF Fits, AtReg, AtRefs, Making, Begun
  <2>4. CallsInv'
    BY <1>1, <1>3, <1>5, <2>2, <2>3, GoesOn DEF Making, Letting, Begun, past
  <2>5. QED
    BY <1>1, <1>3, <2>1, <2>2, <2>4, SparedStands DEF WorktreeInv, past
<1>6. QED
  BY <1>4, <1>5 DEF RemoveWorktree

LEMMA removeDirInv ==
  ASSUME WorktreeInv, NEW c \in Callers, removeDir(c)
  PROVE  WorktreeInv'
<1> DEFINE id == call[c].id
<1>1. /\ call[c].pc = "removeDir" /\ call[c].op # "none" /\ id \in Ids
      /\ UNCHANGED <<refs, reg, past>>
  BY CallAt DEF removeDir, At, Letting
<1>2. call[c] \in CallRecords /\ Fits(call[c])
  BY CallAt
<1>3. call[c].op # "create" /\ id \notin mine /\ id \notin DOMAIN reg
  BY <1>1, <1>2 DEF Fits, Shaped, Spares, AtReg, Making, Begun
<1>4. CASE Return(c, "failed") /\ UNCHANGED dir
  BY <1>1, <1>4, QuietReturn DEF Ended, git
<1>5. CASE Removed(id) /\ Goto(c, "tip") /\ UNCHANGED inflight
  <2>1. RegInv' /\ \A i \in Ids : i # id => dir'[i] = dir[i]
    BY <1>1, <1>5, RemovedReg
  <2>2. OnlyAt(id)
    BY <1>1, <1>5, <2>1 DEF OnlyAt, past
  <2>3f. /\ call'[c].pc = "tip" /\ call'[c].id = id
        /\ call'[c].at = call[c].at /\ call'[c].cancelled = call[c].cancelled
    BY <1>5, WentOn DEF Making, Begun, Letting
  <2>3. AtReg(call[c])' /\ AtRefs(call[c])'
    BY <1>1, <1>2, <1>3, <2>3f DEF Fits, AtReg, AtRefs, Making, Begun
  <2>4. CallsInv'
    BY <1>1, <1>3, <1>5, <2>2, <2>3, GoesOn DEF Making, Letting, Begun, past
  <2>5. QED
    BY <1>1, <1>3, <2>1, <2>2, <2>4, SparedStands DEF WorktreeInv, past
<1>6. QED
  BY <1>4, <1>5 DEF removeDir

-----------------------------------------------------------------------------
\* A branch goes.
LEMMA LessRefs ==
  ASSUME WorktreeInv, NEW id \in Ids, refs' = Less(refs, id)
  PROVE  /\ RefsInv' /\ DOMAIN refs' = DOMAIN refs \ {id}
         /\ \A b \in DOMAIN refs' : refs'[b] = refs[b]
<1>1. /\ DOMAIN refs' = DOMAIN refs \ {id} /\ \A b \in DOMAIN refs' : refs'[b] = refs[b]
  BY DEF Less, Restrict
<1>2. QED
  BY <1>1, WorktreeAssumption DEF WorktreeInv, RefsInv, WorktreeAssumption

LEMMA ReturnsLess ==
  ASSUME WorktreeInv, NEW c \in Callers, call[c].op # "none", call[c].id \notin mine,
         NEW p \in Ended, Return(c, p), UNCHANGED <<reg, dir, past>>,
         refs' = refs \/ refs' = Less(refs, call[c].id)
  PROVE  WorktreeInv'
<1>1. call[c].id \in Ids
  BY CallAt DEF Fits, Shaped
<1>2. inflight' = inflight \/ inflight' = inflight \ {call[c].id}
  BY ReturnFields, CallAt
<1>3. RefsInv' /\ OnlyAt(call[c].id)
  <2>1. CASE UNCHANGED refs
    BY <1>2, <2>1 DEF OnlyAt, past, WorktreeInv, RefsInv
  <2>2. CASE refs' = Less(refs, call[c].id)
    <3>1. /\ RefsInv' /\ DOMAIN refs' = DOMAIN refs \ {call[c].id}
          /\ \A b \in DOMAIN refs' : refs'[b] = refs[b]
      BY <1>1, <2>2, LessRefs
    <3>2. QED
      BY <1>2, <3>1 DEF OnlyAt, past
  <2>3. QED
    BY <2>1, <2>2
<1>4. CallsInv'
  BY <1>3, ReturnStep
<1>5. ReturnedStands' /\ RegInv'
  BY <1>1, <1>3, SparedStands DEF past, WorktreeInv, RegInv
<1>6. QED
  BY <1>3, <1>4, <1>5 DEF WorktreeInv

LEMMA unwindBranchInv ==
  ASSUME WorktreeInv, NEW c \in Callers, unwindBranch(c)
  PROVE  WorktreeInv'
<1>1. call[c].pc = "unwindBranch" /\ call[c].op # "none" /\ call[c].id \notin mine
  BY CallAt DEF unwindBranch, Live, At, Making, Begun, Fits, Spares
<1>2. QED
  BY <1>1, ReturnsLess DEF unwindBranch, Unwound, Ended

LEMMA DeleteBranchInv ==
  ASSUME WorktreeInv, NEW c \in Callers, DeleteBranch(c)
  PROVE  WorktreeInv'
<1>1. call[c].pc = "delete" /\ call[c].op # "none" /\ call[c].id \notin mine
  BY CallAt DEF DeleteBranch, Live, At, Letting, Begun, Fits, Spares
<1>2. QED
  BY <1>1, ReturnsLess DEF DeleteBranch, Ended

LEMMA CancelInv ==
  ASSUME WorktreeInv, NEW c \in Callers, Cancel(c)
  PROVE  WorktreeInv'
<1>1. call[c] \in CallRecords /\ Fits(call[c]) /\ call \in [Callers -> CallRecords]
  BY CallAt
<1>2. /\ call' \in [Callers -> CallRecords]
      /\ call'[c] = [call[c] EXCEPT !.cancelled = TRUE]
      /\ \A d \in Callers \ {c} : call'[d] = call[d]
      /\ UNCHANGED <<git, inflight, past>>
  BY <1>1 DEF Cancel, CallRecords
<1>3. /\ call'[c].op = call[c].op /\ call'[c].id = call[c].id /\ call'[c].pc = call[c].pc
      /\ call'[c].at = call[c].at /\ call'[c].made = call[c].made
      /\ call'[c].listed = call[c].listed /\ call'[c].cancelled
  BY <1>1, <1>2 DEF CallRecords
<1>4. call[c].op # "none"
  BY <1>1 DEF Cancel, Free, Fits, Shaped, Ended
<1>5. Shaped(call[c])'
  BY <1>1, <1>2, <1>3 DEF Fits, Shaped
<1>6. AtReg(call'[c]) /\ AtRefs(call'[c])
  BY <1>1, <1>3 DEF Fits, AtReg, AtRefs
<1>7. QED
  BY <1>2, <1>3, <1>4, <1>5, <1>6, QuietGoto

LEMMA GitCancelledInv ==
  ASSUME WorktreeInv, NEW c \in Callers, GitCancelled(c)
  PROVE  WorktreeInv'
<1> DEFINE id == call[c].id
<1>1. /\ call[c].op # "none" /\ id \in Ids /\ UNCHANGED past /\ call[c].cancelled
      /\ call[c] \in CallRecords /\ Fits(call[c])
  BY CallAt DEF GitCancelled, Making, Letting, Begun
<1>2. CASE UNCHANGED git
  <2>1. CASE Return(c, "failed")
    BY <1>1, <1>2, <2>1, QuietReturn DEF Ended
  <2>2. CASE call[c].pc = "add" /\ Goto(c, "unwindReg") /\ UNCHANGED inflight
    <3>1. AtReg([call[c] EXCEPT !.pc = "unwindReg"]) /\ AtRefs([call[c] EXCEPT !.pc = "unwindReg"])
      BY <1>1, <2>2 DEF Fits, AtReg, AtRefs, CallRecords, Making, Begun
    <3>2. call[c].op = "create"
      BY <1>1, <2>2 DEF Fits, Shaped, Making, Begun
    <3>3. QED
      BY <1>1, <1>2, <2>2, <3>1, <3>2, QuietNext DEF Making, Begun
  <2>3. CASE call[c].pc = "unwindReg" /\ Goto(c, "unwindDir") /\ UNCHANGED inflight
    <3>1. AtReg([call[c] EXCEPT !.pc = "unwindDir"]) /\ AtRefs([call[c] EXCEPT !.pc = "unwindDir"])
      BY <1>1, <2>3 DEF Fits, AtReg, AtRefs, CallRecords, Making, Begun
    <3>2. call[c].op = "create"
      BY <1>1, <2>3 DEF Fits, Shaped, Making, Begun
    <3>3. QED
      BY <1>1, <1>2, <2>3, <3>1, <3>2, QuietNext DEF Making, Begun
  <2>4. QED
    BY <2>1, <2>2, <2>3 DEF GitCancelled
<1>3. CASE /\ call[c].pc = "branch" /\ MayCreate(id)
           /\ refs' = With(refs, id, call[c].at) /\ UNCHANGED <<reg, dir>>
  <2>1. Return(c, "failed") /\ ~ Exists(id)
    BY <1>3 DEF GitCancelled, MayCreate
  <2>2. call[c].at \subseteq refs["run"] /\ id \notin mine
    BY <1>1, <1>3, <2>1 DEF Fits, AtRefs, Making, Begun, WorktreeInv, ReturnedStands
  <2>3. /\ refs'["run"] = refs["run"] /\ refs'[id] = call[c].at
        /\ DOMAIN refs' = DOMAIN refs \cup {id}
        /\ \A b \in DOMAIN refs : refs'[b] = refs[b]
    BY <1>1, <1>3, <2>1, WorktreeAssumption
       DEF With, WorktreeInv, RefsInv, WorktreeAssumption, Exists
  <2>4. RefsInv'
    BY <1>1, <2>2, <2>3 DEF WorktreeInv, RefsInv
  <2>5. inflight' = inflight \/ inflight' = inflight \ {id}
    BY <2>1, ReturnFields, CallAt DEF Ended
  <2>6. OnlyAt(id)
    BY <1>1, <1>3, <2>3, <2>5 DEF OnlyAt, past
  <2>7. CallsInv'
    BY <1>1, <2>1, <2>6, ReturnStep DEF Ended
  <2>8. ReturnedStands' /\ RegInv'
    BY <1>1, <1>3, <2>2, <2>6, SparedStands DEF past, WorktreeInv, RegInv
  <2>9. QED
    BY <2>4, <2>7, <2>8 DEF WorktreeInv
<1>4. CASE /\ call[c].pc = "add" /\ id \notin DOMAIN reg
           /\ reg' = With(reg, id, [branch |-> id, locked |-> FALSE])
           /\ dir' = [dir EXCEPT ![id] = "tree"]
           /\ UNCHANGED refs
  <2>1. Goto(c, "unwindReg") /\ UNCHANGED inflight
    BY <1>4 DEF GitCancelled
  <2>2. call[c].op = "create" /\ id \notin mine /\ call[c].at \subseteq refs["run"]
    BY <1>1, <1>4 DEF Fits, Shaped, Spares, AtRefs, Making, Begun
  <2>3. /\ RegInv'
        /\ \A i : i # id => (i \in DOMAIN reg' <=> i \in DOMAIN reg)
                            /\ (i \in DOMAIN reg => reg'[i] = reg[i])
                            /\ (i \in Ids => dir'[i] = dir[i])
    BY <1>1, <1>4, AddedReg
  <2>4. OnlyAt(id)
    BY <1>1, <1>4, <2>1, <2>3 DEF OnlyAt, past
  <2>5. /\ call'[c].pc = "unwindReg" /\ call'[c].at = call[c].at /\ call'[c].cancelled
    BY <1>1, <2>1, WentOn DEF Making, Begun, Letting
  <2>6. AtReg(call[c])' /\ AtRefs(call[c])'
    BY <1>4, <2>2, <2>5 DEF AtReg, AtRefs, Making, Begun
  <2>7. CallsInv'
    BY <1>1, <1>4, <2>1, <2>2, <2>4, <2>6, GoesOn DEF Making, Begun, past
  <2>8. ReturnedStands' /\ RefsInv'
    BY <1>1, <1>4, <2>2, <2>4, SparedStands DEF past
  <2>9. QED
    BY <2>3, <2>7, <2>8 DEF WorktreeInv
<1>5. QED
  BY <1>2, <1>3, <1>4 DEF GitCancelled

LEMMA DieInv == ASSUME WorktreeInv, Die PROVE WorktreeInv'
<1>1. Idle \in CallRecords /\ Idle.op = "none" /\ Idle.pc = "idle"
  BY DEF Idle, CallRecords, Ended
<1>2. call' \in [Callers -> CallRecords] /\ \A c \in Callers : call'[c] = Idle
  BY <1>1 DEF Die
<1>3. ASSUME NEW c \in Callers PROVE Fits(call[c])'
  BY <1>1, <1>2 DEF Fits, Shaped, AtReg, AtRefs, Claimed, Spares, Ended, Making, Begun
<1>4. CallsInv'
  BY <1>1, <1>2, <1>3 DEF CallsInv
<1>5. QED
  BY <1>4, QuietKeeps DEF Die, WorktreeInv

-----------------------------------------------------------------------------
\* A step of an agent or a person.
Grows == /\ DOMAIN refs \subseteq DOMAIN refs'
         /\ \A b \in Ids : b \in DOMAIN refs' => b \in DOMAIN refs
         /\ \A b \in DOMAIN refs : refs[b] \subseteq refs'[b]

LEMMA OutsideStep ==
  ASSUME WorktreeInv, UNCHANGED <<inflight, call>>, mine' \subseteq mine, DOMAIN reg' = DOMAIN reg,
         Grows
  PROVE  CallsInv'
<1>1. ASSUME NEW c \in Callers PROVE Fits(call[c])'
  <2>1. PICK k : k = call[c]
    OBVIOUS
  <2>2. Fits(k) /\ "run" \in DOMAIN refs
    BY <2>1 DEF WorktreeInv, CallsInv, RefsInv
  <2>3. k.pc = "held" => k.id \in Ids
    BY <2>2 DEF Fits, Shaped, Ended
  <2>4. AtRefs(k)'
    BY <2>2, <2>3 DEF Fits, AtRefs, Grows, Exists
  <2>5. Fits(k)'
    BY <2>2, <2>4 DEF Fits, Shaped, AtReg, Claimed, Spares
  <2>6. QED
    BY <2>1, <2>5 DEF Fits, Shaped, AtReg, AtRefs, Claimed, Spares
<1>2. QED
  BY <1>1 DEF WorktreeInv, CallsInv

\* One that changes the branches alone.
LEMMA OutsideRefs ==
  ASSUME WorktreeInv, UNCHANGED <<inflight, call, reg, dir, past>>, Grows, RefsInv'
  PROVE  WorktreeInv'
<1>1. CallsInv'
  BY OutsideStep DEF past
<1>2. RegInv' /\ ReturnedStands'
  BY DEF WorktreeInv, RegInv, ReturnedStands, past, Grows, Exists
<1>3. QED
  BY <1>1, <1>2 DEF WorktreeInv

LEMMA AgentCommitInv == ASSUME WorktreeInv, NEW id \in Ids, AgentCommit(id) PROVE WorktreeInv' /\ Grows
<1>1. PICK b : b = reg[id].branch
  OBVIOUS
<1>2. b \in {id, "their"} /\ b \in DOMAIN refs
  BY <1>1 DEF AgentCommit, WorktreeInv, RegInv, Exists
<1>3. /\ DOMAIN refs' = DOMAIN refs /\ refs'[b] = refs[b] \cup {id}
      /\ \A x \in DOMAIN refs : x # b => refs'[x] = refs[x]
  BY <1>1, <1>2 DEF AgentCommit
<1>4. Grows /\ RefsInv'
  BY <1>2, <1>3, WorktreeAssumption DEF WorktreeInv, RefsInv, Grows, Commits, WorktreeAssumption
<1>5. QED
  BY <1>4, OutsideRefs DEF AgentCommit, Move

LEMMA MergedInv == ASSUME WorktreeInv, NEW id \in Ids, Merge(id) PROVE WorktreeInv' /\ Grows
<1>1. /\ DOMAIN refs' = DOMAIN refs /\ refs'["run"] = refs["run"] \cup refs[id]
      /\ \A x \in DOMAIN refs : x # "run" => refs'[x] = refs[x]
      /\ id \in DOMAIN refs
  BY DEF Merge, WorktreeInv, RefsInv, Exists
<1>2. Grows /\ RefsInv'
  BY <1>1, WorktreeAssumption DEF WorktreeInv, RefsInv, Grows, Commits, WorktreeAssumption
<1>3. QED
  BY <1>2, OutsideRefs DEF Merge, Move

LEMMA PushOntoInv == ASSUME WorktreeInv, NEW id \in Ids, PushOnto(id) PROVE WorktreeInv' /\ Grows
<1>1. /\ DOMAIN refs' = DOMAIN refs /\ refs'[id] = refs[id] \cup {id}
      /\ \A x \in DOMAIN refs : x # id => refs'[x] = refs[x]
      /\ id \in DOMAIN refs
  BY DEF PushOnto, Exists
<1>2. Grows /\ RefsInv'
  BY <1>1, WorktreeAssumption DEF WorktreeInv, RefsInv, Grows, Commits, WorktreeAssumption
<1>3. QED
  BY <1>2, OutsideRefs DEF PushOnto, Move

LEMMA EditInv == ASSUME WorktreeInv, Edit PROVE WorktreeInv' /\ Grows
<1>1. CASE UNCHANGED refs
  <2>1. Grows /\ RefsInv'
    BY <1>1 DEF Grows, WorktreeInv, RefsInv
  <2>2. QED
    BY <2>1, OutsideRefs DEF Edit, Move
<1>2. CASE refs' = [refs EXCEPT !["run"] = @ \cup {"run"}]
  <2>1. /\ DOMAIN refs' = DOMAIN refs /\ refs'["run"] = refs["run"] \cup {"run"}
        /\ \A x \in DOMAIN refs : x # "run" => refs'[x] = refs[x]
    BY <1>2 DEF WorktreeInv, RefsInv
  <2>2. Grows /\ RefsInv'
    BY <2>1, WorktreeAssumption DEF WorktreeInv, RefsInv, Grows, Commits, WorktreeAssumption
  <2>3. QED
    BY <2>2, OutsideRefs DEF Edit, Move
<1>3. QED
  BY <1>1, <1>2 DEF Edit

LEMMA CheckoutInv == ASSUME WorktreeInv, NEW id \in Ids, Checkout(id) PROVE WorktreeInv' /\ Grows
<1>1. Grows /\ RefsInv'
  <2>1. CASE UNCHANGED refs
    BY <2>1 DEF Grows, WorktreeInv, RefsInv
  <2>2. CASE refs' = With(refs, "their", Base) /\ ~ Exists("their")
    <3>1. /\ DOMAIN refs' = DOMAIN refs \cup {"their"} /\ refs'["their"] = Base
          /\ \A x \in DOMAIN refs : refs'[x] = refs[x]
      BY <2>2 DEF With, Exists
    <3>2. QED
      BY <3>1, WorktreeAssumption
         DEF WorktreeInv, RefsInv, Grows, Commits, Base, WorktreeAssumption
  <2>3. QED
    BY <2>1, <2>2 DEF Checkout
<1>2. /\ DOMAIN reg' = DOMAIN reg /\ id \in DOMAIN reg
      /\ reg'[id] = [reg[id] EXCEPT !.branch = "their"]
      /\ \A i \in DOMAIN reg : i # id => reg'[i] = reg[i]
      /\ mine' = mine \ {id} /\ UNCHANGED <<dir, inflight, call>>
  BY DEF Checkout, Move
<1>3. RegInv'
  <2>1. reg'[id] \in [branch : {id, "their"}, locked : BOOLEAN]
    BY <1>2 DEF WorktreeInv, RegInv
  <2>2. QED
    BY <1>2, <2>1 DEF WorktreeInv, RegInv
<1>4. ReturnedStands'
  BY <1>1, <1>2 DEF WorktreeInv, ReturnedStands, Grows, Exists
<1>5. CallsInv'
  BY <1>1, <1>2, OutsideStep
<1>6. QED
  BY <1>1, <1>3, <1>4, <1>5 DEF WorktreeInv

LEMMA LockInv == ASSUME WorktreeInv, NEW id \in Ids, Lock(id) PROVE WorktreeInv' /\ Grows
<1>1. Grows /\ RefsInv'
  BY DEF Lock, Grows, WorktreeInv, RefsInv
<1>2. /\ DOMAIN reg' = DOMAIN reg /\ id \in DOMAIN reg
      /\ reg'[id] = [reg[id] EXCEPT !.locked = TRUE]
      /\ \A i \in DOMAIN reg : i # id => reg'[i] = reg[i]
      /\ UNCHANGED <<dir, refs, inflight, call, past>>
  BY DEF Lock, Move
<1>3. /\ reg'[id] \in [branch : {id, "their"}, locked : BOOLEAN]
      /\ reg'[id].branch = reg[id].branch
  BY <1>2 DEF WorktreeInv, RegInv
<1>4. RegInv'
  BY <1>2, <1>3 DEF WorktreeInv, RegInv
<1>5. ReturnedStands'
  BY <1>2, <1>3 DEF WorktreeInv, ReturnedStands, Exists, past
<1>6. CallsInv'
  BY <1>1, <1>2, OutsideStep DEF past
<1>7. QED
  BY <1>1, <1>4, <1>5, <1>6 DEF WorktreeInv

LEMMA ReplaceInv ==
  ASSUME WorktreeInv, NEW id \in Ids, NEW what \in {"gone", "files", "link"}, Replace(id, what)
  PROVE  WorktreeInv'
<1>1. /\ UNCHANGED <<reg, refs, inflight, call>> /\ mine' = mine \ {id}
      /\ dir' = [dir EXCEPT ![id] = what]
  BY DEF Replace, Move
<1>2. RegInv' /\ RefsInv' /\ ReturnedStands'
  BY <1>1 DEF WorktreeInv, RegInv, RefsInv, ReturnedStands, Exists
<1>3. CallsInv'
  BY <1>1, OutsideStep DEF Grows
<1>4. QED
  BY <1>2, <1>3 DEF WorktreeInv

-----------------------------------------------------------------------------
LEMMA WorktreeInitInv == Init => WorktreeInv
<1> SUFFICES ASSUME Init PROVE WorktreeInv
  OBVIOUS
<1>1. DOMAIN refs = {"run"} /\ refs["run"] = Base /\ DOMAIN reg = {}
  BY DEF Init
<1>2. RegInv /\ RefsInv /\ ReturnedStands
  BY <1>1, WorktreeAssumption DEF Init, RegInv, RefsInv, ReturnedStands, Base, Commits, WorktreeAssumption
<1>3. Idle \in CallRecords /\ Idle.op = "none" /\ Idle.pc = "idle"
  BY DEF Idle, CallRecords, Ended
<1>4. call \in [Callers -> CallRecords] /\ \A c \in Callers : call[c] = Idle
  BY <1>3 DEF Init
<1>5. ASSUME NEW c \in Callers PROVE Fits(call[c])
  BY <1>3, <1>4 DEF Fits, Shaped, AtReg, AtRefs, Claimed, Spares, Ended, Making, Begun
<1>6. QED
  BY <1>2, <1>3, <1>4, <1>5 DEF WorktreeInv, CallsInv

LEMMA CreateInv == ASSUME WorktreeInv, NEW c \in Callers, Create(c) PROVE WorktreeInv'
BY BeginCreateInv, sourceInv, StatusInv, checkDestinationInv, CreateBranchInv, AddWorktreeInv,
   unwindRegInv, unwindDirInv, unwindBranchInv DEF Create

LEMMA ReleaseInv == ASSUME WorktreeInv, NEW c \in Callers, Release(c) PROVE WorktreeInv'
BY BeginDestroyInv, BeginReclaimInv, checkInv, RemoveWorktreeInv, removeDirInv, BranchTipInv,
   ContainedElsewhereInv, DeleteBranchInv DEF Release

LEMMA OutsideInv == ASSUME WorktreeInv, Outside PROVE WorktreeInv'
BY AgentCommitInv, MergedInv, PushOntoInv, CheckoutInv, LockInv, ReplaceInv, EditInv DEF Outside

LEMMA WorktreeNextInv == WorktreeInv /\ [Next]_vars => WorktreeInv'
<1> SUFFICES ASSUME WorktreeInv, [Next]_vars PROVE WorktreeInv'
  OBVIOUS
<1>1. CASE UNCHANGED vars
  BY <1>1 DEF vars, git, past, WorktreeInv, RegInv, RefsInv, ReturnedStands, Exists,
              CallsInv, Fits, Shaped, AtReg, AtRefs, Claimed, Spares
<1>2. CASE Next
  BY <1>2, CreateInv, ReleaseInv, CancelInv, GitCancelledInv, DieInv, OutsideInv DEF Next
<1>3. QED
  BY <1>1, <1>2

\* The invariant holds of every behaviour of the isolator.
THEOREM WorktreeSpecInv == Spec => []WorktreeInv
BY WorktreeInitInv, WorktreeNextInv, PTL DEF Spec

\* worktree.go:413-428: a workspace Create returned stands as it returned it
\* until somebody releases it or works over it by hand.
THEOREM ReturnedWorkspacesStand == Spec => []ReturnedStands
<1>1. WorktreeInv => ReturnedStands
  BY DEF WorktreeInv
<1>2. QED
  BY <1>1, WorktreeSpecInv, PTL

-----------------------------------------------------------------------------
\* What a step takes from one branch, another has.
Covers == \A b \in DOMAIN refs : \E x \in DOMAIN refs' : refs[b] \subseteq refs'[x]

LEMMA CoversWork == Covers => Work \subseteq Work'
BY DEF Covers, Work

LEMMA NotCheckedOut ==
  ASSUME WorktreeInv, NEW id \in Ids, id \notin DOMAIN reg
  PROVE  ~ CheckedOut(id)
BY WorktreeAssumption DEF CheckedOut, WorktreeInv, RegInv, WorktreeAssumption

LEMMA LessCovers ==
  ASSUME WorktreeInv, NEW id \in Ids, refs' = Less(refs, id),
         NEW b \in {"run", "their"}, Exists(id) => Exists(b) /\ refs[id] \subseteq refs[b]
  PROVE  Covers
<1>1. /\ DOMAIN refs' = DOMAIN refs \ {id}
      /\ \A x \in DOMAIN refs' : refs'[x] = refs[x]
  BY LessRefs
<1>2. b # id
  BY WorktreeAssumption DEF WorktreeAssumption
<1>3. QED
  BY <1>1, <1>2 DEF Covers, Exists

LEMMA CreateCovers == ASSUME WorktreeInv, NEW c \in Callers, Create(c) PROVE Covers
<1>1. CASE UNCHANGED refs
  BY <1>1 DEF Covers
<1>2. CASE CreateBranch(c) /\ ~ UNCHANGED refs
  BY <1>2 DEF CreateBranch, MayCreate, With, Covers, Exists
<1>3. CASE unwindBranch(c) /\ ~ UNCHANGED refs
  <2>1. /\ call[c].pc = "unwindBranch" /\ call[c].id \in Ids /\ Deletable(call[c].id, call[c].at)
        /\ refs' = Less(refs, call[c].id)
    BY <1>3, CallAt DEF unwindBranch, Live, At, Unwound, Making
  <2>2. call[c].at \subseteq refs["run"] /\ Exists("run")
    BY <2>1, CallAt DEF Fits, AtRefs, Making, Begun, WorktreeInv, RefsInv, Exists
  <2>3. QED
    BY <2>1, <2>2, LessCovers DEF Deletable
<1>4. QED
  BY <1>1, <1>2, <1>3 DEF Create, BeginCreate, source, Status, checkDestination, AddWorktree,
                          unwindReg, unwindDir, git

LEMMA ReleaseCovers == ASSUME WorktreeInv, NEW c \in Callers, Release(c) PROVE Covers
<1>1. CASE UNCHANGED refs
  BY <1>1 DEF Covers
<1>2. CASE DeleteBranch(c) /\ ~ UNCHANGED refs
  <2>1. /\ call[c].pc = "delete" /\ call[c].id \in Ids /\ Deletable(call[c].id, call[c].at)
        /\ refs' = Less(refs, call[c].id)
    BY <1>2, CallAt DEF DeleteBranch, Live, At, Letting
  <2>2. \/ call[c].at \subseteq refs["run"] /\ Exists("run")
        \/ Exists("their") /\ call[c].at \subseteq refs["their"]
    BY <2>1, CallAt DEF Fits, AtRefs, WorktreeInv, RefsInv, Exists
  <2>3. QED
    BY <2>1, <2>2, LessCovers DEF Deletable
<1>3. QED
  BY <1>1, <1>2 DEF Release, BeginDestroy, BeginReclaim, check, RemoveWorktree, removeDir,
                    BranchTip, ContainedElsewhere, git

LEMMA NextCovers == ASSUME WorktreeInv, [Next]_vars PROVE Covers
<1>1. CASE UNCHANGED refs
  BY <1>1 DEF Covers
<1>2. ASSUME NEW c \in Callers, GitCancelled(c), ~ UNCHANGED refs PROVE Covers
  BY <1>2 DEF GitCancelled, git, MayCreate, With, Covers, Exists
<1>3. CASE Outside
  <2>1. Grows \/ UNCHANGED refs
    BY <1>3, AgentCommitInv, MergedInv, PushOntoInv, CheckoutInv, LockInv, EditInv
       DEF Outside, Replace
  <2>2. QED
    BY <1>1, <2>1 DEF Grows, Covers
<1>4. QED
  BY <1>1, <1>2, <1>3, CreateCovers, ReleaseCovers DEF Next, Cancel, Die, vars, git

\* The calls of the others go on as they were.
LEMMA OthersStay ==
  ASSUME WorktreeInv, NEW c \in Callers, NEW d \in Callers, c # d,
         Create(d) \/ Release(d) \/ Cancel(d) \/ GitCancelled(d)
  PROVE  call'[c] = call[c]
<1>1. call \in [Callers -> CallRecords]
  BY DEF WorktreeInv, CallsInv
<1>2. ASSUME NEW r, Step(d, r) PROVE call'[c] = call[c]
  BY <1>1, <1>2 DEF Step
<1>3. ASSUME NEW p, Goto(d, p) \/ Return(d, p) PROVE call'[c] = call[c]
  BY <1>2, <1>3 DEF Goto, Return
<1>4. CASE Create(d)
  BY <1>2, <1>3, <1>4 DEF Create, BeginCreate, Begin, source, Status, checkDestination,
        CreateBranch, AddWorktree, unwindReg, unwindDir, unwindBranch
<1>5. CASE Release(d)
  BY <1>2, <1>3, <1>5 DEF Release, BeginDestroy, BeginReclaim, Begin, check, RemoveWorktree,
        removeDir, BranchTip, ContainedElsewhere, DeleteBranch
<1>6. CASE Cancel(d)
  BY <1>1, <1>6 DEF Cancel
<1>7. CASE GitCancelled(d)
  BY <1>3, <1>7 DEF GitCancelled
<1>8. QED
  BY <1>4, <1>5, <1>6, <1>7

\* What a call's own steps lead to.
LEMMA LeadsTo ==
  ASSUME WorktreeInv, NEW c \in Callers, NEW p \in Ended \cup Making \cup Letting,
         Goto(c, p) \/ (p \in Ended /\ Return(c, p))
  PROVE  call'[c].pc = p
BY GotoFields, ReturnFields, CallAt

\* A Create that had made its branch fails, when not cancelled, at the end of
\* unwind and nowhere else.
LEMMA MakingFails ==
  ASSUME WorktreeInv, NEW c \in Callers, Create(c) \/ Release(c) \/ Cancel(c) \/ GitCancelled(c),
         Fails(c), ~ call[c].cancelled
  PROVE  unwindBranch(c)
<1>1. /\ call[c].pc \in {"add", "unwindReg", "unwindDir", "unwindBranch"}
      /\ call'[c].pc = "failed"
  BY CallAt DEF Fails, At, Fits, Shaped, Making
<1>2. ASSUME NEW p \in {"idle", "unwindReg", "unwindDir", "unwindBranch"},
             Goto(c, p) \/ (p = "idle" /\ Return(c, p))
      PROVE  FALSE
  BY <1>1, <1>2, LeadsTo DEF Ended, Making, Begun
<1>3. ~ AddWorktree(c) /\ ~ unwindReg(c) /\ ~ unwindDir(c)
  BY <1>2 DEF AddWorktree, unwindReg, unwindDir
<1>4. ~ Cancel(c)
  BY <1>1, CallAt DEF Cancel, CallRecords
<1>5. ~ GitCancelled(c)
  BY DEF GitCancelled
<1>6. ~ Release(c)
  BY <1>1 DEF Release, BeginDestroy, BeginReclaim, Begin, Free, check, RemoveWorktree, removeDir,
              BranchTip, ContainedElsewhere, DeleteBranch, Live, At
<1>7. CASE Create(c)
  BY <1>1, <1>3, <1>7 DEF Create, BeginCreate, Begin, Free, source, Status, checkDestination,
              CreateBranch, Live, At
<1>8. QED
  BY <1>4, <1>5, <1>6, <1>7

LEMMA UnwoundLeavesNothing ==
  ASSUME WorktreeInv, NEW c \in Callers, unwindBranch(c)
  PROVE  NothingLeft(c)
<1> DEFINE id == call[c].id
<1>1. id \in Ids /\ id \notin DOMAIN reg
  BY CallAt DEF unwindBranch, Live, At, Making, Fits, AtReg
<1>2. CASE Deletable(id, call[c].at)
  <2>1. DOMAIN refs' = DOMAIN refs \ {id}
    BY <1>1, <1>2, LessRefs DEF unwindBranch, Unwound
  <2>2. QED
    BY <2>1 DEF NothingLeft
<1>3. CASE ~ Deletable(id, call[c].at)
  BY <1>1, <1>3, NotCheckedOut DEF unwindBranch, Unwound, Deletable, NothingLeft, Exists
<1>4. QED
  BY <1>2, <1>3

LEMMA NextLeavesNothing ==
  ASSUME WorktreeInv, [Next]_vars, NEW c \in Callers, Fails(c), ~ call[c].cancelled
  PROVE  NothingLeft(c)
<1>1. call'[c] # call[c] /\ call'[c].pc = "failed"
  BY DEF Fails, At
<1>2. ~ Die
  BY <1>1 DEF Die, Idle
<1>3. ~ Outside /\ ~ UNCHANGED vars
  BY <1>1 DEF Outside, Move, AgentCommit, Merge, PushOnto, Checkout, Lock, Replace, Edit, vars
<1>4. PICK d \in Callers : Create(d) \/ Release(d) \/ Cancel(d) \/ GitCancelled(d)
  BY <1>2, <1>3 DEF Next
<1>5. c = d
  BY <1>1, <1>4, OthersStay
<1>6. QED
  BY <1>4, <1>5, MakingFails, UnwoundLeavesNothing

\* Three steps end a Reclaim that did what it was called for.
LEMMA LettingEnds ==
  ASSUME WorktreeInv, NEW c \in Callers, Create(c) \/ Release(c) \/ Cancel(c) \/ GitCancelled(c),
         call[c].op = "reclaim", call'[c].pc \in {"done", "kept"}
  PROVE  BranchTip(c) \/ ContainedElsewhere(c) \/ DeleteBranch(c)
<1>1. call[c].pc \in Letting
  BY CallAt DEF Fits, Shaped, CallRecords
<1>2. ASSUME NEW p \in {"failed", "remove", "removeDir", "tip", "unwindReg", "unwindDir"},
             Goto(c, p) \/ (p = "failed" /\ Return(c, p))
      PROVE  FALSE
  BY <1>2, LeadsTo DEF Ended, Making, Letting
<1>3. ~ check(c) /\ ~ RemoveWorktree(c) /\ ~ removeDir(c)
  BY <1>2 DEF check, RemoveWorktree, removeDir
<1>4. ~ Cancel(c)
  BY <1>1, CallAt DEF Cancel, CallRecords, Letting
<1>5. ~ GitCancelled(c)
  BY <1>2 DEF GitCancelled
<1>6. ~ Create(c)
  BY <1>1 DEF Create, BeginCreate, Begin, Free, source, Status, checkDestination, CreateBranch,
              AddWorktree, unwindReg, unwindDir, unwindBranch, Live, At, Letting
<1>7. CASE Release(c)
  BY <1>1, <1>3, <1>7 DEF Release, BeginDestroy, BeginReclaim, Begin, Free, Letting
<1>8. QED
  BY <1>4, <1>5, <1>6, <1>7

LEMMA EndsFree ==
  ASSUME WorktreeInv, NEW c \in Callers, BranchTip(c) \/ ContainedElsewhere(c) \/ DeleteBranch(c),
         call'[c].pc \in {"done", "kept"}
  PROVE  call[c].id \notin DOMAIN reg' /\ (call'[c].pc = "done" => call[c].id \notin DOMAIN refs')
<1> DEFINE id == call[c].id
<1>1. /\ call[c].pc \in {"tip", "held", "delete"} /\ id \in Ids
      /\ id \notin DOMAIN reg /\ UNCHANGED reg
  BY CallAt DEF BranchTip, ContainedElsewhere, DeleteBranch, Live, At, Letting, Fits, AtReg, git
<1>2. CASE BranchTip(c)
  <2>1. ASSUME Exists(id) PROVE FALSE
    <3>1. /\ call \in [Callers -> CallRecords]
          /\ call' = [call EXCEPT ![c] = [call[c] EXCEPT !.pc = "held", !.at = refs[id]]]
      BY <1>2, <2>1, CallAt DEF BranchTip, Step
    <3>2. call'[c].pc = "held"
      BY <3>1 DEF CallRecords
    <3>3. QED
      BY <3>2
  <2>2. QED
    BY <1>1, <1>2, <2>1 DEF BranchTip, Exists, git
<1>3. CASE ContainedElsewhere(c)
  <2>1. ASSUME NEW p \in {"failed", "delete"}, Goto(c, p) \/ (p = "failed" /\ Return(c, p))
        PROVE  FALSE
    BY <2>1, LeadsTo DEF Ended, Letting
  <2>2. Return(c, "kept")
    BY <1>3, <2>1 DEF ContainedElsewhere
  <2>3. call'[c].pc = "kept"
    BY <2>2, LeadsTo DEF Ended
  <2>4. QED
    BY <1>1, <2>3
<1>4. CASE DeleteBranch(c)
  <2>1. ASSUME Return(c, "failed") PROVE FALSE
    BY <2>1, LeadsTo DEF Ended
  <2>2. refs' = Less(refs, id)
    BY <1>4, <2>1 DEF DeleteBranch
  <2>3. QED
    BY <1>1, <2>2, LessRefs
<1>5. QED
  BY <1>2, <1>3, <1>4

LEMMA NextFrees ==
  ASSUME WorktreeInv, [Next]_vars, NEW c \in Callers,
         call[c].op = "reclaim", call'[c].pc \in {"done", "kept"}
  PROVE  call[c].id \notin DOMAIN reg' /\ (call'[c].pc = "done" => call[c].id \notin DOMAIN refs')
<1>1. call'[c] # call[c]
  BY CallAt DEF Fits, Shaped, Ended
<1>2. ~ Die
  BY DEF Die, Idle
<1>3. ~ Outside /\ ~ UNCHANGED vars
  BY <1>1 DEF Outside, Move, AgentCommit, Merge, PushOnto, Checkout, Lock, Replace, Edit, vars
<1>4. PICK d \in Callers : Create(d) \/ Release(d) \/ Cancel(d) \/ GitCancelled(d)
  BY <1>2, <1>3 DEF Next
<1>5. c = d
  BY <1>1, <1>4, OthersStay
<1>6. QED
  BY <1>4, <1>5, LettingEnds, EndsFree

\* worktree.go:381-385, 564-569, reclaim.go:10-13: no call loses a commit, a
\* Create that fails takes back what it made, and what Reclaim released can be
\* created again, for any number of ids, calls, crashes and hands.
THEOREM TreesAreLetGo == Spec => TreesLetGo
<1>1. ASSUME WorktreeInv, [Next]_vars PROVE [Work \subseteq Work']_vars
  BY <1>1, NextCovers, CoversWork
<1>2. ASSUME WorktreeInv, [Next]_vars
      PROVE  [\A c \in Callers : Fails(c) /\ ~ call[c].cancelled => NothingLeft(c)]_vars
  BY <1>2, NextLeavesNothing
<1>3. ASSUME WorktreeInv, [Next]_vars
      PROVE  [\A c \in Callers : (call[c].op = "reclaim" /\ call'[c].pc \in {"done", "kept"})
                => call[c].id \notin DOMAIN reg' /\ (At(c, "done")' => call[c].id \notin DOMAIN refs')]_vars
  BY <1>3, NextFrees DEF At
<1>4. Spec => WorkIsKept
  BY <1>1, WorktreeSpecInv, PTL DEF Spec, WorkIsKept
<1>5. Spec => FailedLeavesNothing
  BY <1>2, WorktreeSpecInv, PTL DEF Spec, FailedLeavesNothing
<1>6. Spec => ReclaimFrees
  BY <1>3, WorktreeSpecInv, PTL DEF Spec, ReclaimFrees
<1>7. QED
  BY <1>4, <1>5, <1>6 DEF TreesLetGo

-----------------------------------------------------------------------------
(***************************************************************************)
(* What a run publishes.                                                   *)
(***************************************************************************)
Promoting == {"begin", "account", "archive", "commit", "integrate", "merge", "carries", "record", "clean", "done"}
Closing   == {"after", "note", "remove", "publish", "create", "finish"}

PublishTypes ==
  /\ kind \in Kinds
  /\ pc \in Promoting \cup Closing \cup {"down", "exit"}
  /\ status \in {"running", "paused", "failed", "completed"}
  /\ tree \in [Trees -> SUBSET (Files \cup {Plan})]
  /\ tip \in [Trees -> [holds : SUBSET (Files \cup {Plan}), marked : BOOLEAN]]
  /\ merging \in {"none", "belay", "hand"}
  /\ hands \in Nat /\ made \in Nat

\* The run's status says which part belay is in.
StageInv ==
  /\ pc \in Promoting => status = "running"
  /\ pc \in Closing => status = "completed"
  /\ status # "completed" => kind.branched
  /\ pc \in {"integrate", "merge", "carries", "clean"} => kind.fanout

\* A merge is in progress only of a run that fanned out and is not yet on its
\* branch; belay commits and merges only while it is not.
MergingInv ==
  /\ merging # "none" => kind.fanout /\ ~ tip["run"].marked
  /\ pc \in {"carries", "record", "clean", "done"} \/ status = "completed" => merging = "none"
  /\ kind.fanout /\ pc \in {"account", "archive", "commit", "integrate", "merge"} => ~ tip["run"].marked
  /\ carried => tip["run"].marked

\* A winner once committed is as committed, or a person has been at it since.
WinnerInv ==
  /\ pc \in {"integrate", "merge"} => Visible(Winner) = tip[Winner].holds
  /\ (tip[Winner].marked \/ (kind.fanout /\ tip["run"].marked)) /\ Winner \in dirs
       => Visible(Winner) = tip[Winner].holds \/ Winner \in touched

\* From the accounting to the commit nobody else is at the tree.
ScopeInv ==
  /\ OnlyOfTheRun
  /\ pc \in {"archive", "commit"} => Visible(Source) \subseteq Recorded \cup {Plan}

\* With no hands at the trees, what is committed is what is there.
OnceInv ==
  hands = 0 =>
    LET over == kind.fanout /\ tip["run"].marked
    IN  /\ made <= IF over THEN 2 ELSE 1
        /\ made > 0 /\ status # "completed" /\ ~ over
             => tip[Source].marked /\ Visible(Source) = tip[Source].holds

\* A plan git sees in the run's tree is on its branch.
PlanIn == Plan \in Visible("run") => Plan \in tip["run"].holds
\* It is once nothing is being merged and the change is committed; so the copy
\* goes only when the repository keeps the plan.
PlanInv ==
  /\ pc = "merge" => (Plan \in Visible("run") => Plan \in tip["run"].holds \cup tip[Winner].holds)
  /\ kind.branched /\ merging = "none" /\ (kind.fanout \/ pc \in {"record", "done"} \/ status = "completed")
       => PlanIn
  /\ pc \in {"note", "remove"} /\ copy = "plan" /\ ~ kind.ignored => Kept


\* Inductive.
PublishInv == PublishTypes /\ StageInv /\ MergingInv /\ WinnerInv /\ ScopeInv /\ OnceInv /\ PlanInv

-----------------------------------------------------------------------------
LEMMA Named ==
  /\ Winner \in Trees /\ "run" \in Trees /\ Winner # "run" /\ Winner \in Candidates
  /\ Plan \notin Recorded /\ Plan \notin Files /\ Recorded \subseteq Files
BY PublishAssumption DEF PublishAssumption, Trees

LEMMA SourceIs == Source \in Trees /\ Source \in {Winner, "run"} /\ (kind.fanout => Source = Winner)
                  /\ (~ kind.fanout => Source = "run")
BY Named DEF Source

\* What a step that leaves the trees alone leaves.
LEMMA SameTrees ==
  ASSUME UNCHANGED <<kind, tree, tip>>
  PROVE  /\ Source' = Source /\ \A t : Visible(t)' = Visible(t)
         /\ PlanIn' = PlanIn
BY DEF Source, Visible, PlanIn

LEMMA TypesStay ==
  ASSUME PublishTypes, UNCHANGED <<kind, tree, tip, merging, hands, made>>,
         pc' \in Promoting \cup Closing \cup {"down", "exit"},
         status' \in {"running", "paused", "failed", "completed"}
  PROVE  PublishTypes'
BY DEF PublishTypes

LEMMA PromoteErrsInv == ASSUME PublishInv, PromoteErrs PROVE PublishInv'
<1> USE DEF PromoteErrs, FailRun, Proceed, On, Promoting, Closing, ofGit, plan, hist
<1>1. PublishTypes'
  BY DEF PublishInv, PublishTypes
<1>2. StageInv'
  BY DEF PublishInv, StageInv, PublishTypes
<1>3. MergingInv'
  BY DEF PublishInv, MergingInv, StageInv
<1>4. WinnerInv'
  BY SameTrees DEF PublishInv, WinnerInv
<1>5. ScopeInv'
  BY SameTrees DEF PublishInv, ScopeInv, OnlyOfTheRun
<1>6. OnceInv'
  BY SameTrees DEF PublishInv, OnceInv, StageInv, PublishTypes
<1>7. PlanInv'
  BY SameTrees DEF PublishInv, PlanInv, StageInv, MergingInv, Kept
<1>8. QED
  BY <1>1, <1>2, <1>3, <1>4, <1>5, <1>6, <1>7 DEF PublishInv

LEMMA BeginPromoteInv == ASSUME PublishInv, BeginPromote PROVE PublishInv'
<1> USE DEF BeginPromote, FailRun, Proceed, On, Promoting, Closing, ofGit, plan, hist
<1>1. PublishTypes'
  BY DEF PublishInv, PublishTypes
<1>2. StageInv'
  BY DEF PublishInv, StageInv, PublishTypes
<1>3. MergingInv'
  BY DEF PublishInv, MergingInv, StageInv
<1>4. WinnerInv'
  BY SameTrees DEF PublishInv, WinnerInv
<1>5. ScopeInv'
  BY SameTrees DEF PublishInv, ScopeInv, OnlyOfTheRun
<1>6. OnceInv'
  BY SameTrees DEF PublishInv, OnceInv, StageInv, PublishTypes
<1>7. PlanInv'
  BY SameTrees DEF PublishInv, PlanInv, StageInv, MergingInv, Kept
<1>8. QED
  BY <1>1, <1>2, <1>3, <1>4, <1>5, <1>6, <1>7 DEF PublishInv

LEMMA accountForInv == ASSUME PublishInv, accountFor PROVE PublishInv'
<1> USE DEF accountFor, Pause, Unaccounted, Proceed, On, Promoting, Closing, ofGit, plan, hist
<1>1. PublishTypes'
  BY DEF PublishInv, PublishTypes
<1>2. StageInv'
  BY DEF PublishInv, StageInv, PublishTypes
<1>3. MergingInv'
  BY DEF PublishInv, MergingInv, StageInv
<1>4. WinnerInv'
  BY SameTrees DEF PublishInv, WinnerInv
<1>5. ScopeInv'
  BY SameTrees DEF PublishInv, ScopeInv, OnlyOfTheRun
<1>6. OnceInv'
  BY SameTrees DEF PublishInv, OnceInv, StageInv, PublishTypes
<1>7. PlanInv'
  BY SameTrees DEF PublishInv, PlanInv, StageInv, MergingInv, Kept
<1>8. QED
  BY <1>1, <1>2, <1>3, <1>4, <1>5, <1>6, <1>7 DEF PublishInv

LEMMA CarriesInv == ASSUME PublishInv, Carries PROVE PublishInv'
<1> USE DEF Carries, Proceed, On, Promoting, Closing, ofGit, plan, hist
<1>1. PublishTypes'
  BY DEF PublishInv, PublishTypes
<1>2. StageInv'
  BY DEF PublishInv, StageInv, PublishTypes
<1>3. MergingInv'
  BY DEF PublishInv, MergingInv, StageInv
<1>4. WinnerInv'
  BY SameTrees DEF PublishInv, WinnerInv
<1>5. ScopeInv'
  BY SameTrees DEF PublishInv, ScopeInv, OnlyOfTheRun
<1>6. OnceInv'
  BY SameTrees DEF PublishInv, OnceInv, StageInv, PublishTypes
<1>7. PlanInv'
  BY SameTrees DEF PublishInv, PlanInv, StageInv, MergingInv, Kept
<1>8. QED
  BY <1>1, <1>2, <1>3, <1>4, <1>5, <1>6, <1>7 DEF PublishInv

LEMMA recordInv == ASSUME PublishInv, record PROVE PublishInv'
<1> USE DEF record, Proceed, On, Promoting, Closing, ofGit, plan, hist
<1>1. PublishTypes'
  BY DEF PublishInv, PublishTypes
<1>2. StageInv'
  BY DEF PublishInv, StageInv, PublishTypes
<1>3. MergingInv'
  BY DEF PublishInv, MergingInv, StageInv
<1>4. WinnerInv'
  BY SameTrees DEF PublishInv, WinnerInv
<1>5. ScopeInv'
  BY SameTrees DEF PublishInv, ScopeInv, OnlyOfTheRun
<1>6. OnceInv'
  BY SameTrees DEF PublishInv, OnceInv, StageInv, PublishTypes
<1>7. PlanInv'
  BY SameTrees DEF PublishInv, PlanInv, StageInv, MergingInv, Kept
<1>8. QED
  BY <1>1, <1>2, <1>3, <1>4, <1>5, <1>6, <1>7 DEF PublishInv

LEMMA promotedInv == ASSUME PublishInv, promoted PROVE PublishInv'
<1> USE DEF promoted, Proceed, On, Promoting, Closing, ofGit, plan, hist
<1>1. PublishTypes'
  BY DEF PublishInv, PublishTypes
<1>2. StageInv'
  BY DEF PublishInv, StageInv, PublishTypes
<1>3. MergingInv'
  BY DEF PublishInv, MergingInv, StageInv
<1>4. WinnerInv'
  BY SameTrees DEF PublishInv, WinnerInv
<1>5. ScopeInv'
  BY SameTrees DEF PublishInv, ScopeInv, OnlyOfTheRun
<1>6. OnceInv'
  BY SameTrees DEF PublishInv, OnceInv, StageInv, PublishTypes
<1>7. PlanInv'
  BY SameTrees DEF PublishInv, PlanInv, StageInv, MergingInv, Kept
<1>8. QED
  BY <1>1, <1>2, <1>3, <1>4, <1>5, <1>6, <1>7 DEF PublishInv

LEMMA RecordPlanInv == ASSUME PublishInv, RecordPlan PROVE PublishInv'
<1> USE DEF RecordPlan, Filed, Proceed, On, Promoting, Closing, ofGit, plan, hist
<1>1. PublishTypes'
  BY DEF PublishInv, PublishTypes
<1>2. StageInv'
  BY DEF PublishInv, StageInv, PublishTypes
<1>3. MergingInv'
  BY DEF PublishInv, MergingInv, StageInv
<1>4. WinnerInv'
  BY SameTrees DEF PublishInv, WinnerInv
<1>5. ScopeInv'
  BY SameTrees DEF PublishInv, ScopeInv, OnlyOfTheRun
<1>6. OnceInv'
  BY SameTrees DEF PublishInv, OnceInv, StageInv, PublishTypes
<1>7. PlanInv'
  BY SameTrees DEF PublishInv, PlanInv, StageInv, MergingInv, Kept
<1>8. QED
  BY <1>1, <1>2, <1>3, <1>4, <1>5, <1>6, <1>7 DEF PublishInv

LEMMA removeInv == ASSUME PublishInv, remove PROVE PublishInv'
<1> USE DEF remove, Filed, Proceed, On, Promoting, Closing, ofGit, plan, hist
<1>1. PublishTypes'
  BY DEF PublishInv, PublishTypes
<1>2. StageInv'
  BY DEF PublishInv, StageInv, PublishTypes
<1>3. MergingInv'
  BY DEF PublishInv, MergingInv, StageInv
<1>4. WinnerInv'
  BY SameTrees DEF PublishInv, WinnerInv
<1>5. ScopeInv'
  BY SameTrees DEF PublishInv, ScopeInv, OnlyOfTheRun
<1>6. OnceInv'
  BY SameTrees DEF PublishInv, OnceInv, StageInv, PublishTypes
<1>7. PlanInv'
  BY SameTrees DEF PublishInv, PlanInv, StageInv, MergingInv, Kept
<1>8. QED
  BY <1>1, <1>2, <1>3, <1>4, <1>5, <1>6, <1>7 DEF PublishInv

LEMMA publishInv == ASSUME PublishInv, publish PROVE PublishInv'
<1> USE DEF publish, Proceed, On, Promoting, Closing, ofGit, plan, hist
<1>1. PublishTypes'
  BY DEF PublishInv, PublishTypes
<1>2. StageInv'
  BY DEF PublishInv, StageInv, PublishTypes
<1>3. MergingInv'
  BY DEF PublishInv, MergingInv, StageInv
<1>4. WinnerInv'
  BY SameTrees DEF PublishInv, WinnerInv
<1>5. ScopeInv'
  BY SameTrees DEF PublishInv, ScopeInv, OnlyOfTheRun
<1>6. OnceInv'
  BY SameTrees DEF PublishInv, OnceInv, StageInv, PublishTypes
<1>7. PlanInv'
  BY SameTrees DEF PublishInv, PlanInv, StageInv, MergingInv, Kept
<1>8. QED
  BY <1>1, <1>2, <1>3, <1>4, <1>5, <1>6, <1>7 DEF PublishInv

LEMMA createPullRequestInv == ASSUME PublishInv, createPullRequest PROVE PublishInv'
<1> USE DEF createPullRequest, Proceed, On, Promoting, Closing, ofGit, plan, hist
<1>1. PublishTypes'
  BY DEF PublishInv, PublishTypes
<1>2. StageInv'
  BY DEF PublishInv, StageInv, PublishTypes
<1>3. MergingInv'
  BY DEF PublishInv, MergingInv, StageInv
<1>4. WinnerInv'
  BY SameTrees DEF PublishInv, WinnerInv
<1>5. ScopeInv'
  BY SameTrees DEF PublishInv, ScopeInv, OnlyOfTheRun
<1>6. OnceInv'
  BY SameTrees DEF PublishInv, OnceInv, StageInv, PublishTypes
<1>7. PlanInv'
  BY SameTrees DEF PublishInv, PlanInv, StageInv, MergingInv, Kept
<1>8. QED
  BY <1>1, <1>2, <1>3, <1>4, <1>5, <1>6, <1>7 DEF PublishInv

LEMMA CrashInv == ASSUME PublishInv, Crash PROVE PublishInv'
<1> USE DEF Crash, Proceed, On, Promoting, Closing, ofGit, plan, hist
<1>1. PublishTypes'
  BY DEF PublishInv, PublishTypes
<1>2. StageInv'
  BY DEF PublishInv, StageInv, PublishTypes
<1>3. MergingInv'
  BY DEF PublishInv, MergingInv, StageInv
<1>4. WinnerInv'
  BY SameTrees DEF PublishInv, WinnerInv
<1>5. ScopeInv'
  BY SameTrees DEF PublishInv, ScopeInv, OnlyOfTheRun
<1>6. OnceInv'
  BY SameTrees DEF PublishInv, OnceInv, StageInv, PublishTypes
<1>7. PlanInv'
  BY SameTrees DEF PublishInv, PlanInv, StageInv, MergingInv, Kept
<1>8. QED
  BY <1>1, <1>2, <1>3, <1>4, <1>5, <1>6, <1>7 DEF PublishInv

LEMMA ResumeInv == ASSUME PublishInv, Resume PROVE PublishInv'
<1> USE DEF Resume, Proceed, On, Promoting, Closing, ofGit, plan, hist
<1>1. PublishTypes'
  BY DEF PublishInv, PublishTypes
<1>2. StageInv'
  BY DEF PublishInv, StageInv, PublishTypes
<1>3. MergingInv'
  BY DEF PublishInv, MergingInv, StageInv
<1>4. WinnerInv'
  BY SameTrees DEF PublishInv, WinnerInv
<1>5. ScopeInv'
  BY SameTrees DEF PublishInv, ScopeInv, OnlyOfTheRun
<1>6. OnceInv'
  BY SameTrees DEF PublishInv, OnceInv, StageInv, PublishTypes
<1>7. PlanInv'
  BY SameTrees DEF PublishInv, PlanInv, StageInv, MergingInv, Kept
<1>8. QED
  BY <1>1, <1>2, <1>3, <1>4, <1>5, <1>6, <1>7 DEF PublishInv

LEMMA archivePlanNowInv == ASSUME PublishInv, archivePlanNow PROVE PublishInv'
<1> USE DEF archivePlanNow, Proceed, On, Promoting, Closing, ofGit, plan, hist
<1>1. PublishTypes'
  BY DEF PublishInv, PublishTypes
<1>2. StageInv'
  BY DEF PublishInv, StageInv, PublishTypes
<1>3. MergingInv'
  BY DEF PublishInv, MergingInv, StageInv
<1>4. WinnerInv'
  BY SameTrees DEF PublishInv, WinnerInv
<1>5. ScopeInv'
  BY SameTrees DEF PublishInv, ScopeInv, OnlyOfTheRun
<1>6. OnceInv'
  BY SameTrees DEF PublishInv, OnceInv, StageInv, PublishTypes
<1>7. PlanInv'
  BY SameTrees DEF PublishInv, PlanInv, StageInv, MergingInv, Kept
<1>8. QED
  BY <1>1, <1>2, <1>3, <1>4, <1>5, <1>6, <1>7 DEF PublishInv

LEMMA EditPlanInv == ASSUME PublishInv, EditPlan PROVE PublishInv'
<1> USE DEF EditPlan, ByHand, Proceed, On, Promoting, Closing, ofGit, plan, hist
<1>1. PublishTypes'
  BY DEF PublishInv, PublishTypes
<1>2. StageInv'
  BY DEF PublishInv, StageInv, PublishTypes
<1>3. MergingInv'
  BY DEF PublishInv, MergingInv, StageInv
<1>4. WinnerInv'
  BY SameTrees DEF PublishInv, WinnerInv
<1>5. ScopeInv'
  BY SameTrees DEF PublishInv, ScopeInv, OnlyOfTheRun
<1>6. OnceInv'
  BY SameTrees DEF PublishInv, OnceInv, StageInv, PublishTypes
<1>7. PlanInv'
  BY SameTrees DEF PublishInv, PlanInv, StageInv, MergingInv, Kept
<1>8. QED
  BY <1>1, <1>2, <1>3, <1>4, <1>5, <1>6, <1>7 DEF PublishInv

LEMMA archiveInv == ASSUME PublishInv, archive PROVE PublishInv'
<1> USE DEF archive, MayPlace, Proceed, On, Promoting, Closing, ofGit, plan, hist
<1>1. /\ tree' \in [Trees -> SUBSET (Files \cup {Plan})]
      /\ tip' \in [Trees -> [holds : SUBSET (Files \cup {Plan}), marked : BOOLEAN]]
  BY Named, SourceIs DEF PublishInv, PublishTypes, Visible
<1>2. /\ pc = "archive" /\ pc' = "commit" /\ UNCHANGED tip
      /\ \A t \in Trees \ {Source} : tree'[t] = tree[t]
      /\ tree'[Source] = tree[Source] \/ (tree'[Source] = tree[Source] \cup {Plan} /\ ~ tip[Source].marked)
      /\ \A t \in Trees : tree'[t] \in SUBSET (Files \cup {Plan})
  BY Named, SourceIs DEF PublishInv, PublishTypes, Cleanable, Dirty, Visible, Both
<1>3. Source' = Source /\ UNCHANGED kind
  BY DEF Source
<1>4. PublishTypes'
  BY <1>1 DEF PublishInv, PublishTypes
<1>5. StageInv'
  BY DEF PublishInv, StageInv, PublishTypes
<1>6. MergingInv'
  BY <1>2, Named, SourceIs DEF PublishInv, PublishTypes, MergingInv, StageInv
<1>7. WinnerInv'
  BY <1>2, <1>3, Named, SourceIs DEF PublishInv, PublishTypes, WinnerInv, MergingInv, StageInv, Visible
<1>8. ScopeInv'
  BY <1>2, <1>3, Named, SourceIs DEF PublishInv, PublishTypes, ScopeInv, OnlyOfTheRun, Visible
<1>9. OnceInv'
  BY <1>2, <1>3, Named, SourceIs DEF PublishInv, PublishTypes, OnceInv, MergingInv, StageInv, Visible
<1>10. PlanInv'
  BY <1>2, <1>3, Named, SourceIs
     DEF PublishInv, PublishTypes, PlanInv, PlanIn, StageInv, MergingInv, Kept, Visible
<1>11. QED
  BY <1>4, <1>5, <1>6, <1>7, <1>8, <1>9, <1>10 DEF PublishInv

LEMMA CommitInv == ASSUME PublishInv, Commit PROVE PublishInv'
<1> USE DEF Commit, Proceed, On, Promoting, Closing, ofGit, plan, hist
<1>1. /\ tree' \in [Trees -> SUBSET (Files \cup {Plan})]
      /\ tip' \in [Trees -> [holds : SUBSET (Files \cup {Plan}), marked : BOOLEAN]]
  <2>1. Visible(Source) \in SUBSET (Files \cup {Plan})
    BY SourceIs DEF PublishInv, PublishTypes, Visible
  <2>2. [holds |-> Visible(Source), marked |-> TRUE]
          \in [holds : SUBSET (Files \cup {Plan}), marked : BOOLEAN]
    BY <2>1
  <2>3. QED
    BY <2>2, SourceIs DEF PublishInv, PublishTypes
<1>2. /\ pc = "commit" /\ UNCHANGED tree
      /\ \A t \in Trees \ {Source} : tip'[t] = tip[t]
      /\ \/ UNCHANGED <<tip, made>> /\ Visible(Source) = tip[Source].holds
         \/ /\ tip'[Source].holds = Visible(Source) /\ tip'[Source].marked
            /\ Visible(Source) # tip[Source].holds /\ made' = made + 1
  <2>1. CASE Visible(Source) = tip[Source].holds
    BY <2>1
  <2>2. CASE Visible(Source) # tip[Source].holds
    <3>1. /\ tip' = [tip EXCEPT ![Source] = [holds |-> Visible(Source), marked |-> TRUE]]
          /\ made' = made + 1
      BY <2>2
    <3>2. tip'[Source] = [holds |-> Visible(Source), marked |-> TRUE]
      BY <3>1, SourceIs DEF PublishInv, PublishTypes
    <3>3. QED
      BY <2>2, <3>1, <3>2 DEF PublishInv, PublishTypes
  <2>3. QED
    BY <2>1, <2>2
<1>3. Source' = Source /\ UNCHANGED kind
  BY DEF Source
<1>4. PublishTypes'
  BY <1>1 DEF PublishInv, PublishTypes
<1>5. StageInv'
  BY DEF PublishInv, StageInv, PublishTypes
<1>6. MergingInv'
  BY <1>2, Named, SourceIs DEF PublishInv, PublishTypes, MergingInv, StageInv
<1>7. WinnerInv'
  BY <1>2, <1>3, Named, SourceIs DEF PublishInv, PublishTypes, WinnerInv, MergingInv, StageInv, Visible
<1>8. ScopeInv'
  BY <1>2, <1>3, Named, SourceIs DEF PublishInv, PublishTypes, ScopeInv, OnlyOfTheRun, Visible
<1>9. OnceInv'
  BY <1>2, <1>3, Named, SourceIs DEF PublishInv, PublishTypes, OnceInv, MergingInv, StageInv, Visible
<1>10. PlanInv'
  BY <1>2, <1>3, Named, SourceIs
     DEF PublishInv, PublishTypes, PlanInv, PlanIn, StageInv, MergingInv, Kept, Visible
<1>11. QED
  BY <1>4, <1>5, <1>6, <1>7, <1>8, <1>9, <1>10 DEF PublishInv

LEMMA AbortInterruptedMergeInv == ASSUME PublishInv, AbortInterruptedMerge PROVE PublishInv'
<1> USE DEF AbortInterruptedMerge, Proceed, On, Promoting, Closing, ofGit, plan, hist
<1>1. /\ tree' \in [Trees -> SUBSET (Files \cup {Plan})]
      /\ tip' \in [Trees -> [holds : SUBSET (Files \cup {Plan}), marked : BOOLEAN]]
  BY Named, SourceIs DEF PublishInv, PublishTypes, Visible
<1>2. /\ pc = "integrate" /\ pc' = pc /\ UNCHANGED tip /\ merging = "belay" /\ merging' = "none"
      /\ \A t \in Trees \ {"run"} : tree'[t] = tree[t]
      /\ tree'["run"] = tip["run"].holds \cup (tree["run"] \ Visible("run"))
  BY Named, SourceIs DEF PublishInv, PublishTypes, Cleanable, Dirty, Visible, Both
<1>3. Source' = Source /\ UNCHANGED kind
  BY DEF Source
<1>4. PublishTypes'
  BY <1>1 DEF PublishInv, PublishTypes
<1>5. StageInv'
  BY DEF PublishInv, StageInv, PublishTypes
<1>6. MergingInv'
  BY <1>2, Named, SourceIs DEF PublishInv, PublishTypes, MergingInv, StageInv
<1>7. WinnerInv'
  BY <1>2, <1>3, Named, SourceIs DEF PublishInv, PublishTypes, WinnerInv, MergingInv, StageInv, Visible
<1>8. ScopeInv'
  BY <1>2, <1>3, Named, SourceIs DEF PublishInv, PublishTypes, ScopeInv, OnlyOfTheRun, Visible
<1>9. OnceInv'
  BY <1>2, <1>3, Named, SourceIs DEF PublishInv, PublishTypes, OnceInv, MergingInv, StageInv, Visible
<1>10. PlanInv'
  BY <1>2, <1>3, Named, SourceIs
     DEF PublishInv, PublishTypes, PlanInv, PlanIn, StageInv, MergingInv, Kept, Visible
<1>11. QED
  BY <1>4, <1>5, <1>6, <1>7, <1>8, <1>9, <1>10 DEF PublishInv

LEMMA IntegrateInv == ASSUME PublishInv, Integrate PROVE PublishInv'
<1> USE DEF Integrate, Pause, FailRun, Proceed, On, Promoting, Closing, ofGit, plan, hist
<1>1. /\ tree' \in [Trees -> SUBSET (Files \cup {Plan})]
      /\ tip' \in [Trees -> [holds : SUBSET (Files \cup {Plan}), marked : BOOLEAN]]
  BY Named, SourceIs DEF PublishInv, PublishTypes, Visible
<1>2. /\ pc = "integrate" /\ UNCHANGED tip
      /\ \A t \in Trees \ {"run"} : tree'[t] = tree[t]
      /\ \/ UNCHANGED <<tree, merging>> /\ pc' # "merge" /\ (pc' = "carries" => merging = "none")
         \/ /\ tree'["run"] = tree["run"] \cup tip[Winner].holds /\ pc' = "merge"
            /\ Visible("run") = tip["run"].holds /\ merging' = "belay"
  BY Named, SourceIs DEF PublishInv, PublishTypes, Cleanable, Dirty, Visible, Both
<1>3. Source' = Source /\ UNCHANGED kind
  BY DEF Source
<1>4. PublishTypes'
  BY <1>1 DEF PublishInv, PublishTypes
<1>5. StageInv'
  BY DEF PublishInv, StageInv, PublishTypes
<1>6. MergingInv'
  BY <1>2, Named, SourceIs DEF PublishInv, PublishTypes, MergingInv, StageInv
<1>7. WinnerInv'
  BY <1>2, <1>3, Named, SourceIs DEF PublishInv, PublishTypes, WinnerInv, MergingInv, StageInv, Visible
<1>8. ScopeInv'
  BY <1>2, <1>3, Named, SourceIs DEF PublishInv, PublishTypes, ScopeInv, OnlyOfTheRun, Visible
<1>9. OnceInv'
  BY <1>2, <1>3, Named, SourceIs DEF PublishInv, PublishTypes, OnceInv, MergingInv, StageInv, Visible
<1>10. PlanInv'
  BY <1>2, <1>3, Named, SourceIs
     DEF PublishInv, PublishTypes, PlanInv, PlanIn, StageInv, MergingInv, Kept, Visible
<1>11. QED
  BY <1>4, <1>5, <1>6, <1>7, <1>8, <1>9, <1>10 DEF PublishInv

LEMMA FinishMergeInv == ASSUME PublishInv, FinishMerge PROVE PublishInv'
<1> USE DEF FinishMerge, Proceed, On, Promoting, Closing, ofGit, plan, hist
<1>1. /\ tree' \in [Trees -> SUBSET (Files \cup {Plan})]
      /\ tip' \in [Trees -> [holds : SUBSET (Files \cup {Plan}), marked : BOOLEAN]]
  BY Named, SourceIs DEF PublishInv, PublishTypes, Visible
<1>2. /\ pc = "merge" /\ pc' = "carries" /\ UNCHANGED tree
      /\ \A t \in Trees \ {"run"} : tip'[t] = tip[t]
      /\ tip'["run"].holds = tip["run"].holds \cup tip[Winner].holds /\ tip'["run"].marked
  BY Named, SourceIs DEF PublishInv, PublishTypes, Cleanable, Dirty, Visible, Both
<1>3. Source' = Source /\ UNCHANGED kind
  BY DEF Source
<1>4. PublishTypes'
  BY <1>1 DEF PublishInv, PublishTypes
<1>5. StageInv'
  BY DEF PublishInv, StageInv, PublishTypes
<1>6. MergingInv'
  BY <1>2, Named, SourceIs DEF PublishInv, PublishTypes, MergingInv, StageInv
<1>7. WinnerInv'
  BY <1>2, <1>3, Named, SourceIs DEF PublishInv, PublishTypes, WinnerInv, MergingInv, StageInv, Visible
<1>8. ScopeInv'
  BY <1>2, <1>3, Named, SourceIs DEF PublishInv, PublishTypes, ScopeInv, OnlyOfTheRun, Visible
<1>9. OnceInv'
  BY <1>2, <1>3, Named, SourceIs DEF PublishInv, PublishTypes, OnceInv, MergingInv, StageInv, Visible
<1>10. PlanInv'
  BY <1>2, <1>3, Named, SourceIs
     DEF PublishInv, PublishTypes, PlanInv, PlanIn, StageInv, MergingInv, Kept, Visible
<1>11. QED
  BY <1>4, <1>5, <1>6, <1>7, <1>8, <1>9, <1>10 DEF PublishInv

LEMMA cleanInv == ASSUME PublishInv, clean PROVE PublishInv'
<1> USE DEF clean, Proceed, On, Promoting, Closing, ofGit, plan, hist
<1>1. /\ tree' \in [Trees -> SUBSET (Files \cup {Plan})]
      /\ tip' \in [Trees -> [holds : SUBSET (Files \cup {Plan}), marked : BOOLEAN]]
  BY Named, SourceIs DEF PublishInv, PublishTypes, Visible
<1>2. /\ pc = "clean" /\ UNCHANGED tip
      /\ tree'["run"] = tree["run"]
      /\ dirs' \subseteq dirs
      /\ tree'[Winner] = tree[Winner] \/ (carried /\ Winner \notin dirs')
  <2>1. CASE UNCHANGED <<dirs, tree>>
    BY <2>1
  <2>2. ASSUME NEW c \in Cleanable, dirs' = dirs \ {c}, tree' = [tree EXCEPT ![c] = {}]
        PROVE  /\ tree'["run"] = tree["run"] /\ dirs' \subseteq dirs
               /\ tree'[Winner] = tree[Winner] \/ (carried /\ Winner \notin dirs')
    <3>1. c \in Candidates /\ c # "run" /\ (c = Winner => carried)
      BY PublishAssumption DEF Cleanable, PublishAssumption
    <3>2. QED
      BY <2>2, <3>1, Named DEF PublishInv, PublishTypes
  <2>3. QED
    BY <2>1, <2>2
<1>3. Source' = Source /\ UNCHANGED kind
  BY DEF Source
<1>4. PublishTypes'
  BY <1>1 DEF PublishInv, PublishTypes
<1>5. StageInv'
  BY DEF PublishInv, StageInv, PublishTypes
<1>6. MergingInv'
  BY <1>2, Named, SourceIs DEF PublishInv, PublishTypes, MergingInv, StageInv
<1>7. WinnerInv'
  BY <1>2, <1>3, Named, SourceIs DEF PublishInv, PublishTypes, WinnerInv, MergingInv, StageInv, Visible
<1>8. ScopeInv'
  BY <1>2, <1>3, Named, SourceIs DEF PublishInv, PublishTypes, ScopeInv, OnlyOfTheRun, Visible
<1>9. OnceInv'
  BY <1>2, <1>3, Named, SourceIs DEF PublishInv, PublishTypes, OnceInv, MergingInv, StageInv, Visible
<1>10. PlanInv'
  BY <1>2, <1>3, Named, SourceIs
     DEF PublishInv, PublishTypes, PlanInv, PlanIn, StageInv, MergingInv, Kept, Visible
<1>11. QED
  BY <1>4, <1>5, <1>6, <1>7, <1>8, <1>9, <1>10 DEF PublishInv

LEMMA FileInv == ASSUME PublishInv, File PROVE PublishInv'
<1> USE DEF File, Placed, Filed, Holds, Proceed, On, Promoting, Closing, ofGit, plan, hist
<1>1. /\ tree' \in [Trees -> SUBSET (Files \cup {Plan})]
      /\ tip' \in [Trees -> [holds : SUBSET (Files \cup {Plan}), marked : BOOLEAN]]
  BY Named, SourceIs DEF PublishInv, PublishTypes, Visible
<1>2. /\ pc = "after" /\ UNCHANGED tip
      /\ \A t \in Trees \ {"run"} : tree'[t] = tree[t]
      /\ tree'["run"] = tree["run"] \/ (tree'["run"] = tree["run"] \cup {Plan} /\ ~ kind.branched)
      /\ pc' \in {"note", "remove"} /\ copy = "plan" => Plan \in tree'["run"]
  BY Named, SourceIs DEF PublishInv, PublishTypes, Cleanable, Dirty, Visible, Both
<1>3. Source' = Source /\ UNCHANGED kind
  BY DEF Source
<1>4. PublishTypes'
  BY <1>1 DEF PublishInv, PublishTypes
<1>5. StageInv'
  BY DEF PublishInv, StageInv, PublishTypes
<1>6. MergingInv'
  BY <1>2, Named, SourceIs DEF PublishInv, PublishTypes, MergingInv, StageInv
<1>7. WinnerInv'
  BY <1>2, <1>3, Named, SourceIs DEF PublishInv, PublishTypes, WinnerInv, MergingInv, StageInv, Visible
<1>8. ScopeInv'
  BY <1>2, <1>3, Named, SourceIs DEF PublishInv, PublishTypes, ScopeInv, OnlyOfTheRun, Visible
<1>9. OnceInv'
  BY <1>2, <1>3, Named, SourceIs DEF PublishInv, PublishTypes, OnceInv, MergingInv, StageInv, Visible
<1>10. PlanInv'
  BY <1>2, <1>3, Named, SourceIs
     DEF PublishInv, PublishTypes, PlanInv, PlanIn, StageInv, MergingInv, Kept, Visible
<1>11. QED
  BY <1>4, <1>5, <1>6, <1>7, <1>8, <1>9, <1>10 DEF PublishInv

LEMMA finishRunInv == ASSUME PublishInv, finishRun PROVE PublishInv'
<1> USE DEF finishRun, Proceed, On, Promoting, Closing, ofGit, plan, hist
<1>1. /\ tree' \in [Trees -> SUBSET (Files \cup {Plan})]
      /\ tip' \in [Trees -> [holds : SUBSET (Files \cup {Plan}), marked : BOOLEAN]]
  BY Named, SourceIs DEF PublishInv, PublishTypes, Visible
<1>2. /\ pc = "finish" /\ UNCHANGED tip
      /\ \A t \in Trees \ {"run"} : tree'[t] = tree[t] /\ (t \in dirs' <=> t \in dirs)
      /\ tree'["run"] = tree["run"] \/ tree'["run"] = {}
  BY Named, SourceIs DEF PublishInv, PublishTypes, Cleanable, Dirty, Visible, Both
<1>3. Source' = Source /\ UNCHANGED kind
  BY DEF Source
<1>4. PublishTypes'
  BY <1>1 DEF PublishInv, PublishTypes
<1>5. StageInv'
  BY DEF PublishInv, StageInv, PublishTypes
<1>6. MergingInv'
  BY <1>2, Named, SourceIs DEF PublishInv, PublishTypes, MergingInv, StageInv
<1>7. WinnerInv'
  BY <1>2, <1>3, Named, SourceIs DEF PublishInv, PublishTypes, WinnerInv, MergingInv, StageInv, Visible
<1>8. ScopeInv'
  BY <1>2, <1>3, Named, SourceIs DEF PublishInv, PublishTypes, ScopeInv, OnlyOfTheRun, Visible
<1>9. OnceInv'
  BY <1>2, <1>3, Named, SourceIs DEF PublishInv, PublishTypes, OnceInv, MergingInv, StageInv, Visible
<1>10. PlanInv'
  BY <1>2, <1>3, Named, SourceIs
     DEF PublishInv, PublishTypes, PlanInv, PlanIn, StageInv, MergingInv, Kept, Visible
<1>11. QED
  BY <1>4, <1>5, <1>6, <1>7, <1>8, <1>9, <1>10 DEF PublishInv

LEMMA HandEditInv == ASSUME PublishInv, NEW t \in Trees, NEW f \in Files \cup {Plan}, HandEdit(t, f) PROVE PublishInv'
<1> USE DEF HandEdit, ByHand, Proceed, On, Promoting, Closing, ofGit, plan, hist
<1>1. /\ tree' \in [Trees -> SUBSET (Files \cup {Plan})]
      /\ tip' \in [Trees -> [holds : SUBSET (Files \cup {Plan}), marked : BOOLEAN]]
  BY Named, SourceIs DEF PublishInv, PublishTypes, Visible
<1>2. /\ pc \in {"down", "exit"} /\ UNCHANGED tip /\ t \in Trees
      /\ \A u \in Trees \ {t} : tree'[u] = tree[u]
      /\ tree'[t] \in SUBSET (Files \cup {Plan})
      /\ Plan \in tree'[t] => Plan \in tree[t]
      /\ hands' # 0 /\ t \in touched' /\ touched \subseteq touched'
      /\ merging = "none" <=> merging' = "none"
  BY Named, SourceIs DEF PublishInv, PublishTypes, Cleanable, Dirty, Visible, Both
<1>3. Source' = Source /\ UNCHANGED kind
  BY DEF Source
<1>4. PublishTypes'
  BY <1>1 DEF PublishInv, PublishTypes
<1>5. StageInv'
  BY DEF PublishInv, StageInv, PublishTypes
<1>6. MergingInv'
  BY <1>2, Named, SourceIs DEF PublishInv, PublishTypes, MergingInv, StageInv
<1>7. WinnerInv'
  BY <1>2, <1>3, Named, SourceIs DEF PublishInv, PublishTypes, WinnerInv, MergingInv, StageInv, Visible
<1>8. ScopeInv'
  BY <1>2, <1>3, Named, SourceIs DEF PublishInv, PublishTypes, ScopeInv, OnlyOfTheRun, Visible
<1>9. OnceInv'
  BY <1>2, <1>3, Named, SourceIs DEF PublishInv, PublishTypes, OnceInv, MergingInv, StageInv, Visible
<1>10. PlanInv'
  BY <1>2, <1>3, Named, SourceIs
     DEF PublishInv, PublishTypes, PlanInv, PlanIn, StageInv, MergingInv, Kept, Visible
<1>11. QED
  BY <1>4, <1>5, <1>6, <1>7, <1>8, <1>9, <1>10 DEF PublishInv

LEMMA HandCommitInv == ASSUME PublishInv, NEW t \in Trees, HandCommit(t) PROVE PublishInv'
<1> USE DEF HandCommit, ByHand, Proceed, On, Promoting, Closing, ofGit, plan, hist
<1>1. /\ tree' \in [Trees -> SUBSET (Files \cup {Plan})]
      /\ tip' \in [Trees -> [holds : SUBSET (Files \cup {Plan}), marked : BOOLEAN]]
  BY Named, SourceIs DEF PublishInv, PublishTypes, Visible
<1>2. /\ pc \in {"down", "exit"} /\ UNCHANGED tree /\ t \in Trees
      /\ \A u \in Trees \ {t} : tip'[u] = tip[u]
      /\ tip'[t].holds = Visible(t) /\ Visible(t) \subseteq tip[t].holds \cup handed'
      /\ tip'[t].marked = (tip[t].marked \/ (t = "run" /\ merging # "none" /\ tip[Winner].marked))
      /\ hands' # 0 /\ handed \subseteq handed'
      /\ merging' = merging \/ (merging' = "none" /\ t = "run")
  BY Named, SourceIs DEF PublishInv, PublishTypes, Cleanable, Dirty, Visible, Both
<1>3. Source' = Source /\ UNCHANGED kind
  BY DEF Source
<1>4. PublishTypes'
  BY <1>1 DEF PublishInv, PublishTypes
<1>5. StageInv'
  BY DEF PublishInv, StageInv, PublishTypes
<1>6. MergingInv'
  BY <1>2, Named, SourceIs DEF PublishInv, PublishTypes, MergingInv, StageInv
<1>7. WinnerInv'
  BY <1>2, <1>3, Named, SourceIs DEF PublishInv, PublishTypes, WinnerInv, MergingInv, StageInv, Visible
<1>8. ScopeInv'
  BY <1>2, <1>3, Named, SourceIs DEF PublishInv, PublishTypes, ScopeInv, OnlyOfTheRun, Visible
<1>9. OnceInv'
  BY <1>2, <1>3, Named, SourceIs DEF PublishInv, PublishTypes, OnceInv, MergingInv, StageInv, Visible
<1>10. PlanInv'
  BY <1>2, <1>3, Named, SourceIs
     DEF PublishInv, PublishTypes, PlanInv, PlanIn, StageInv, MergingInv, Kept, Visible
<1>11. QED
  BY <1>4, <1>5, <1>6, <1>7, <1>8, <1>9, <1>10 DEF PublishInv

LEMMA HandMergeInv == ASSUME PublishInv, HandMerge PROVE PublishInv'
<1> USE DEF HandMerge, ByHand, Proceed, On, Promoting, Closing, ofGit, plan, hist
<1>1. /\ tree' \in [Trees -> SUBSET (Files \cup {Plan})]
      /\ tip' \in [Trees -> [holds : SUBSET (Files \cup {Plan}), marked : BOOLEAN]]
  BY Named, SourceIs DEF PublishInv, PublishTypes, Visible
<1>2. /\ pc \in {"down", "exit"} /\ kind.fanout /\ merging = "none"
      /\ \A u \in Trees \ {"run"} : tip'[u] = tip[u] /\ tree'[u] = tree[u]
      /\ tip'["run"].holds = tip["run"].holds \cup tip[Winner].holds
      /\ tip'["run"].marked = (tip["run"].marked \/ tip[Winner].marked)
      /\ tree'["run"] = tree["run"] \cup tip[Winner].holds
      /\ hands' # 0 /\ handed \subseteq handed' /\ tip[Winner].holds \subseteq handed' 
  BY Named, SourceIs DEF PublishInv, PublishTypes, Cleanable, Dirty, Visible, Both
<1>3. Source' = Source /\ UNCHANGED kind
  BY DEF Source
<1>4. PublishTypes'
  BY <1>1 DEF PublishInv, PublishTypes
<1>5. StageInv'
  BY DEF PublishInv, StageInv, PublishTypes
<1>6. MergingInv'
  BY <1>2, Named, SourceIs DEF PublishInv, PublishTypes, MergingInv, StageInv
<1>7. WinnerInv'
  BY <1>2, <1>3, Named, SourceIs DEF PublishInv, PublishTypes, WinnerInv, MergingInv, StageInv, Visible
<1>8. ScopeInv'
  BY <1>2, <1>3, Named, SourceIs DEF PublishInv, PublishTypes, ScopeInv, OnlyOfTheRun, Visible
<1>9. OnceInv'
  BY <1>2, <1>3, Named, SourceIs DEF PublishInv, PublishTypes, OnceInv, MergingInv, StageInv, Visible
<1>10. PlanInv'
  BY <1>2, <1>3, Named, SourceIs
     DEF PublishInv, PublishTypes, PlanInv, PlanIn, StageInv, MergingInv, Kept, Visible
<1>11. QED
  BY <1>4, <1>5, <1>6, <1>7, <1>8, <1>9, <1>10 DEF PublishInv


-----------------------------------------------------------------------------
LEMMA PublishInitInv == PublishInit => PublishInv
<1> SUFFICES ASSUME PublishInit PROVE PublishInv
  OBVIOUS
<1>1. PICK work \in SUBSET Recorded : tree = [t \in Trees |-> IF t = Source THEN work ELSE {}]
  BY DEF PublishInit
<1>2. /\ \A t \in Trees : tree[t] \subseteq Recorded
      /\ \A t \in Trees : tip[t].holds = {} /\ tip[t].marked = FALSE
      /\ Plan \notin tree["run"]
      /\ tree \in [Trees -> SUBSET (Files \cup {Plan})]
      /\ tip \in [Trees -> [holds : SUBSET (Files \cup {Plan}), marked : BOOLEAN]]
  BY <1>1, Named DEF PublishInit
<1>3. kind \in Kinds /\ (kind.fanout => kind.branched)
  BY PublishAssumption DEF PublishInit, PublishAssumption
<1>4. PublishTypes /\ StageInv
  BY <1>2, <1>3 DEF PublishInit, PublishTypes, StageInv, Promoting, Closing
<1>5. MergingInv /\ WinnerInv
  BY <1>2, Named DEF PublishInit, MergingInv, WinnerInv
<1>6. ScopeInv /\ OnceInv
  BY <1>2, SourceIs DEF PublishInit, ScopeInv, OnlyOfTheRun, OnceInv
<1>7. PlanInv
  BY <1>2, Named DEF PublishInit, PlanInv, PlanIn, Visible
<1>8. QED
  BY <1>4, <1>5, <1>6, <1>7 DEF PublishInv

LEMMA PublishNextInv == PublishInv /\ [PublishNext]_publishVars => PublishInv'
<1> SUFFICES ASSUME PublishInv, [PublishNext]_publishVars PROVE PublishInv'
  OBVIOUS
<1>1. CASE UNCHANGED publishVars
  BY <1>1, SameTrees
     DEF publishVars, ofGit, plan, hist, PublishInv, PublishTypes, StageInv, MergingInv, WinnerInv,
         ScopeInv, OnlyOfTheRun, OnceInv, PlanInv, Kept
<1>2. CASE Belay
  BY <1>2, BeginPromoteInv, accountForInv, archiveInv, CommitInv, AbortInterruptedMergeInv,
     IntegrateInv, FinishMergeInv, CarriesInv, recordInv, cleanInv, promotedInv, FileInv,
     RecordPlanInv, removeInv, publishInv, createPullRequestInv, finishRunInv DEF Belay
<1>3. CASE Person
  BY <1>3, ResumeInv, archivePlanNowInv, HandMergeInv, EditPlanInv, HandCommitInv, HandEditInv
     DEF Person
<1>4. QED
  BY <1>1, <1>2, <1>3, PromoteErrsInv, CrashInv DEF PublishNext

\* The invariant holds of every behaviour of promote and what follows it.
THEOREM PublishSpecInv == PublishSpec => []PublishInv
BY PublishInitInv, PublishNextInv, PTL DEF PublishSpec

\* promote.go, accountFor and commit: what belay commits its steps recorded, or
\* is the plan, and it commits it once, however often it died.
THEOREM OnlyTheRunsIsCommitted == PublishSpec => []OnlyRecordedIsCommitted
<1>1. PublishInv => OnlyRecordedIsCommitted
  <2> SUFFICES ASSUME PublishInv PROVE OnlyRecordedIsCommitted
    OBVIOUS
  <2>1. OnlyOfTheRun
    BY DEF PublishInv, ScopeInv
  <2>2. OnePromotion
    BY DEF PublishInv, PublishTypes, OnceInv, OnePromotion
  <2>3. QED
    BY <2>1, <2>2 DEF OnlyRecordedIsCommitted
<1>2. QED
  BY <1>1, PublishSpecInv, PTL

\* Only clean takes a workspace or a branch away, but for the run's own tree.
LEMMA OnlyCleanTakes ==
  ASSUME PublishInv, [PublishNext]_publishVars,
         Winner \in dirs \ dirs' \/ Winner \in branches \ branches'
  PROVE  clean
<1> USE DEF ofGit, plan, hist
<1>1. ~ Crash /\ ~ PromoteErrs /\ ~ UNCHANGED publishVars
  BY DEF Crash, PromoteErrs, publishVars
<1>2. ~ Person
  BY DEF Person, Resume, archivePlanNow, HandMerge, EditPlan, HandCommit, HandEdit
<1>3. ~ finishRun
  BY Named DEF finishRun
<1>4. QED
  BY <1>1, <1>2, <1>3 DEF PublishNext, Belay, BeginPromote, accountFor, archive, Commit,
     AbortInterruptedMerge, Integrate, FinishMerge, Carries, record, promoted, File, RecordPlan,
     remove, publish, createPullRequest

LEMMA CleanKeepsWinner ==
  ASSUME PublishInv, clean
  PROVE  /\ Winner \in dirs \ dirs' => /\ Visible(Winner) = tip[Winner].holds \/ Winner \in touched
                                       /\ tip["run"].marked
         /\ Winner \in branches \ branches' => merged
<1>1. kind.fanout /\ (carried => tip["run"].marked)
  BY DEF clean, On, PublishInv, StageInv, MergingInv
<1>2. ASSUME Winner \in dirs \ dirs'
      PROVE  (Visible(Winner) = tip[Winner].holds \/ Winner \in touched) /\ tip["run"].marked
  <2>1. Winner \in Cleanable
    BY <1>2 DEF clean
  <2>2. tip["run"].marked
    BY <1>1, <2>1 DEF Cleanable
  <2>3. QED
    BY <1>1, <1>2, <2>2 DEF PublishInv, WinnerInv
<1>3. Winner \in branches \ branches' => merged
  BY DEF clean, releaseBranch
<1>4. QED
  BY <1>2, <1>3

LEMMA OnlyRemoveMoves ==
  ASSUME [PublishNext]_publishVars, copy' = "gone", copy = "plan"
  PROVE  remove
<1> USE DEF ofGit, plan, hist
<1>1. ~ Crash /\ ~ PromoteErrs /\ ~ UNCHANGED publishVars
  BY DEF Crash, PromoteErrs, publishVars
<1>2. ~ Person
  BY DEF Person, Resume, archivePlanNow, HandMerge, EditPlan, HandCommit, HandEdit
<1>3. QED
  BY <1>1, <1>2 DEF PublishNext, Belay, BeginPromote, accountFor, archive, Commit,
     AbortInterruptedMerge, Integrate, FinishMerge, Carries, record, clean, promoted, File,
     RecordPlan, publish, createPullRequest, finishRun

\* clean and remove: the winner's workspace and branch, and the run's copy of
\* its plan, go only when the run's branch has what they held.
THEOREM NothingOfTheRunIsLost == PublishSpec => NothingIsLost
<1>1. ASSUME PublishInv, [PublishNext]_publishVars
      PROVE  [/\ Winner \in dirs \ dirs' => /\ Visible(Winner) = tip[Winner].holds \/ Winner \in touched
                                            /\ tip["run"].marked
              /\ Winner \in branches \ branches' => merged]_publishVars
  BY <1>1, OnlyCleanTakes, CleanKeepsWinner
<1>2. ASSUME PublishInv, [PublishNext]_publishVars
      PROVE  [copy' = "gone" /\ copy = "plan" /\ ~ kind.ignored => Kept]_publishVars
  BY <1>2, OnlyRemoveMoves DEF remove, On, PublishInv, PlanInv
<1>3. PublishSpec => WinnerIsKept
  BY <1>1, PublishSpecInv, PTL DEF PublishSpec, WinnerIsKept
<1>4. PublishSpec => PlanIsMoved
  BY <1>2, PublishSpecInv, PTL DEF PublishSpec, PlanIsMoved
<1>5. QED
  BY <1>3, <1>4 DEF NothingIsLost
=============================================================================
