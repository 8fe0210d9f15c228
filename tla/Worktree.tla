------------------------------ MODULE Worktree ------------------------------
(***************************************************************************)
(* Workspaces that are git worktrees (internal/isolate/worktree over       *)
(* internal/git): Create makes a branch and checks it out under the        *)
(* candidate root, Destroy and Reclaim take both away again.               *)
(*                                                                         *)
(* A call is a sequence of git commands, and between two of them the other *)
(* calls, an agent at work in its worktree and a person at the repository  *)
(* may act, the call's context may be cancelled and belay may die.  A      *)
(* commit is the set of changes it holds, so one commit contains another   *)
(* when it is a superset; a branch is named by the id it was made for.     *)
(***************************************************************************)
EXTENDS Naturals, FiniteSets, Functions

CONSTANTS
  Ids,         \* workspace ids
  Callers,     \* goroutines that may call the isolator
  MaxMoves,    \* bound: steps of agents and persons
  MaxCancels,  \* bound: cancelled calls
  MaxCrashes   \* bound: deaths of belay

ASSUME WorktreeAssumption ==
  /\ "run" \notin Ids /\ "their" \notin Ids
  /\ MaxMoves \in Nat /\ MaxCancels \in Nat /\ MaxCrashes \in Nat

VARIABLES
  refs,       \* branches that exist, and the commit of each
  reg,        \* git's registrations of worktrees, by the id whose path they are at
  dir,        \* what is at an id's path
  src,        \* whether the source can be branched from
  inflight,   \* ids claimed in memory
  call,       \* each caller's call
  left,       \* bounds still to spend
  known,      \* workspaces Create returned, as the journal and blackboard know them
  mine        \* history: those of them nobody has acted on since

git  == <<refs, reg, dir>>
past == <<known, mine>>
vars == <<git, src, inflight, call, left, past>>

Base == {"base"}
Idle == [op |-> "none", id |-> "none", pc |-> "idle", listed |-> {}, at |-> {},
         made |-> {}, cancelled |-> FALSE]

Init ==
  /\ refs = [b \in {"run"} |-> Base]
  /\ reg = [i \in {} |-> Base]
  /\ dir = [i \in Ids |-> "gone"]
  /\ src \in {"clean", "foreign", "unborn"}
  /\ inflight = {} /\ call = [c \in Callers |-> Idle]
  /\ left = [moves |-> MaxMoves, cancels |-> MaxCancels, crashes |-> MaxCrashes]
  /\ known = {} /\ mine = {}

Exists(b) == b \in DOMAIN refs
With(f, k, v) == [x \in DOMAIN f \cup {k} |-> IF x = k THEN v ELSE f[x]]
Less(f, k)    == Restrict(f, DOMAIN f \ {k})

At(c, p)   == call[c].pc = p
Live(c, p) == At(c, p) /\ ~ call[c].cancelled
Step(c, r) == call' = [call EXCEPT ![c] = r] /\ UNCHANGED <<src, left>>
Goto(c, p) == Step(c, [call[c] EXCEPT !.pc = p])
Keep       == UNCHANGED <<inflight, past>>

\* The call returns, and gives up what it claimed.
Claims(c) == call[c].op \in {"create", "reclaim"}
Return(c, result) ==
  /\ Step(c, [Idle EXCEPT !.pc = result])
  /\ inflight' = IF Claims(c) THEN inflight \ {call[c].id} ELSE inflight

-----------------------------------------------------------------------------
(***************************************************************************)
(* Create.                                                                 *)
(***************************************************************************)
Free(c) == call[c].pc \in {"idle", "failed", "done", "kept"}

\* The promote node releases a run's workspaces one after the other, once
\* nothing else works on them.
Begin(c, op, id, p) ==
  /\ Free(c) /\ \A d \in Callers : ~ (call[d].op = "destroy" /\ call[d].id = id)
  /\ Step(c, [Idle EXCEPT !.op = op, !.id = id, !.pc = p])

\* Slip: nothing is reserved.
claimNothing(id) == UNCHANGED inflight

claim(id) == id \notin inflight /\ inflight' = inflight \cup {id}

\* What git lists at the id's path, and the commit the source is at.
Listing(id) == IF id \in DOMAIN reg THEN {reg[id].branch} ELSE {}

BeginCreate(c, id) ==
  /\ Begin(c, "create", id, "source") /\ claim(id)
  /\ UNCHANGED <<git, past>>

\* The working tree that holds the source, and the commit to branch from.
source(c) ==
  /\ Live(c, "source")
  /\ IF src \in {"foreign", "unborn"}
     THEN Return(c, "failed")
     ELSE /\ Step(c, [call[c] EXCEPT !.pc = "status", !.at = refs["run"],
                                     !.listed = Listing(call[c].id)])
          /\ UNCHANGED inflight
  /\ UNCHANGED <<git, past>>

Status(c) ==
  /\ Live(c, "status")
  /\ IF src = "dirty" THEN Return(c, "failed") ELSE Goto(c, "dest") /\ UNCHANGED inflight
  /\ UNCHANGED <<git, past>>

checkDestination(c) ==
  /\ At(c, "dest")
  /\ IF call[c].listed # {} \/ dir[call[c].id] # "gone"
     THEN Return(c, "failed") ELSE Goto(c, "branch") /\ UNCHANGED inflight
  /\ UNCHANGED <<git, past>>

\* update-ref from the all-zero id: only a branch that is not there.
MayCreate(b) == ~ Exists(b)

CreateBranch(c) == LET id == call[c].id IN
  /\ Live(c, "branch")
  /\ IF MayCreate(id)
     THEN /\ refs' = With(refs, id, call[c].at)
          /\ Step(c, [call[c] EXCEPT !.pc = "add", !.made = {"branch"}])
          /\ UNCHANGED inflight
     ELSE Return(c, "failed") /\ UNCHANGED refs
  /\ UNCHANGED <<reg, dir, past>>

\* The branch is checked out in a worktree at most once, and the path must
\* not hold files; git may refuse for reasons of its own.  A failed add
\* leaves nothing behind.
CheckedOut(b) == \E i \in DOMAIN reg : reg[i].branch = b

AddWorktree(c) == LET id == call[c].id IN
  /\ Live(c, "add")
  /\ \/ /\ Exists(id) /\ ~ CheckedOut(id) /\ id \notin DOMAIN reg /\ dir[id] = "gone"
        /\ reg' = With(reg, id, [branch |-> id, locked |-> FALSE])
        /\ dir' = [dir EXCEPT ![id] = "tree"]
        /\ mine' = mine \cup {id} /\ known' = known \cup {id}
        /\ Return(c, "idle")
     \/ /\ Goto(c, "unwindReg")
        /\ UNCHANGED <<reg, dir, inflight, past>>
  /\ UNCHANGED refs

Locked(id) == id \in DOMAIN reg /\ reg[id].locked

\* Slip: a registration whose directory is gone already is left.
UnregisteredUnlessStale(id) ==
  /\ ~ Locked(id)
  /\ reg' = IF dir[id] = "gone" THEN reg ELSE Less(reg, id)
  /\ dir' = IF id \in DOMAIN reg THEN [dir EXCEPT ![id] = "gone"] ELSE dir

\* RemoveWorktree: nothing registered is nothing to do, a lock is honoured.
Unregistered(id) ==
  /\ ~ Locked(id)
  /\ reg' = Less(reg, id)
  /\ dir' = IF id \in DOMAIN reg THEN [dir EXCEPT ![id] = "gone"] ELSE dir

\* removeDir: what is left at the path, when it is a directory.
Removed(id) == dir[id] # "link" /\ dir' = [dir EXCEPT ![id] = "gone"]

\* Slip: the branch goes, wherever it is by now.
DeletableAnywhere(b, expect) == ~ CheckedOut(b)

\* DeleteBranch: only while it points where it was last seen, and nothing
\* has it checked out.  A branch that is gone is as wanted.
Deletable(b, expect) == ~ CheckedOut(b) /\ (Exists(b) => refs[b] = expect)

\* Slip: the branch is left for the next Create to use.
UnwoundKeepsBranch(b, expect) == refs

\* unwind deletes the branch only at the commit Create made it at.
Unwound(b, expect) == IF Deletable(b, expect) THEN Less(refs, b) ELSE refs

\* Each part is tried whatever became of the one before it.
unwindReg(c) == LET id == call[c].id IN
  /\ Live(c, "unwindReg") /\ Goto(c, "unwindDir")
  /\ \/ Unregistered(id)
     \/ Locked(id) /\ UNCHANGED <<reg, dir>>
  /\ UNCHANGED refs /\ Keep

unwindDir(c) == LET id == call[c].id IN
  /\ At(c, "unwindDir") /\ Goto(c, "unwindBranch")
  /\ \/ Removed(id)
     \/ dir[id] = "link" /\ UNCHANGED dir
  /\ UNCHANGED <<refs, reg>> /\ Keep

unwindBranch(c) ==
  /\ Live(c, "unwindBranch") /\ Return(c, "failed")
  /\ refs' = Unwound(call[c].id, call[c].at)
  /\ UNCHANGED <<reg, dir, past>>

Create(c) ==
  \/ \E id \in Ids : BeginCreate(c, id)
  \/ source(c) \/ Status(c) \/ checkDestination(c) \/ CreateBranch(c) \/ AddWorktree(c)
  \/ unwindReg(c) \/ unwindDir(c) \/ unwindBranch(c)

-----------------------------------------------------------------------------
(***************************************************************************)
(* Destroy and Reclaim, which share everything but how they begin: Destroy *)
(* is handed a workspace Create returned, Reclaim only an id.              *)
(***************************************************************************)
\* Only a workspace Create returned derives to its own directory.
matches(id) == id \in known

BeginDestroy(c, id) ==
  /\ matches(id)
  /\ \A d \in Callers : call[d].id # id
  /\ Begin(c, "destroy", id, "check")
  /\ mine' = mine \ {id} /\ UNCHANGED known
  /\ UNCHANGED <<git, inflight>>

BeginReclaim(c, id) ==
  /\ Begin(c, "reclaim", id, "check") /\ claim(id)
  /\ mine' = mine \ {id} /\ UNCHANGED known
  /\ UNCHANGED git

\* A worktree somebody checked another branch out in is theirs.
Ours(id) == id \in DOMAIN reg => reg[id].branch = id

check(c) ==
  /\ Live(c, "check")
  /\ IF Ours(call[c].id) THEN Goto(c, "remove") /\ UNCHANGED inflight ELSE Return(c, "failed")
  /\ UNCHANGED <<git, past>>

RemoveWorktree(c) == LET id == call[c].id IN
  /\ Live(c, "remove")
  /\ \/ Unregistered(id) /\ Goto(c, "removeDir") /\ UNCHANGED inflight
     \/ Locked(id) /\ Return(c, "failed") /\ UNCHANGED <<reg, dir>>
  /\ UNCHANGED <<refs, past>>

removeDir(c) == LET id == call[c].id IN
  /\ At(c, "removeDir")
  /\ \/ Removed(id) /\ Goto(c, "tip") /\ UNCHANGED inflight
     \/ dir[id] = "link" /\ Return(c, "failed") /\ UNCHANGED dir
  /\ UNCHANGED <<refs, reg, past>>

BranchTip(c) == LET id == call[c].id IN
  /\ Live(c, "tip")
  /\ IF Exists(id)
     THEN Step(c, [call[c] EXCEPT !.pc = "held", !.at = refs[id]]) /\ UNCHANGED inflight
     ELSE Return(c, "done")
  /\ UNCHANGED <<git, past>>

\* ContainedElsewhere: some other ref contains the branch's tip.
Held(b) == \E r \in DOMAIN refs \ {b} : refs[b] \subseteq refs[r]

\* The branch is asked about as it now is: a tip that no other ref holds is
\* kept, and the call has then done all it will do.
ContainedElsewhere(c) == LET id == call[c].id IN
  /\ Live(c, "held")
  /\ \/ ~ Exists(id) /\ Return(c, "failed")
     \/ Exists(id) /\ Held(id) /\ Goto(c, "delete") /\ UNCHANGED inflight
     \/ /\ Exists(id) /\ ~ Held(id)
        /\ Return(c, "kept")
  /\ UNCHANGED <<git, past>>

DeleteBranch(c) == LET id == call[c].id IN
  /\ Live(c, "delete")
  /\ IF Deletable(id, call[c].at)
     THEN refs' = Less(refs, id) /\ Return(c, "done")
     ELSE Return(c, "failed") /\ UNCHANGED refs
  /\ UNCHANGED <<reg, dir, past>>

Release(c) ==
  \/ \E id \in Ids : BeginDestroy(c, id) \/ BeginReclaim(c, id)
  \/ check(c) \/ RemoveWorktree(c) \/ removeDir(c)
  \/ BranchTip(c) \/ ContainedElsewhere(c) \/ DeleteBranch(c)

-----------------------------------------------------------------------------
(***************************************************************************)
(* A cancelled call and the death of belay.  Every git command of a        *)
(* cancelled call fails, and the one it was cancelled under may have done  *)
(* its work; unwind runs under the same context.                           *)
(***************************************************************************)
Cancel(c) ==
  /\ left.cancels > 0 /\ ~ Free(c) /\ ~ call[c].cancelled
  /\ left' = [left EXCEPT !.cancels = @ - 1]
  /\ call' = [call EXCEPT ![c].cancelled = TRUE]
  /\ UNCHANGED <<git, src, inflight, past>>

\* Of the commands of a cancelled call, the add leads to unwind and the
\* rest end it.
GitCancelled(c) == LET id == call[c].id IN
  /\ call[c].cancelled
  /\ \/ /\ call[c].pc \in {"source", "status", "branch", "check", "remove", "tip", "held", "delete"}
        /\ Return(c, "failed")
     \/ call[c].pc = "unwindBranch" /\ Return(c, "failed")
     \/ call[c].pc = "add" /\ Goto(c, "unwindReg") /\ UNCHANGED inflight
     \/ call[c].pc = "unwindReg" /\ Goto(c, "unwindDir") /\ UNCHANGED inflight
  /\ \/ UNCHANGED git
     \/ /\ call[c].pc = "branch" /\ MayCreate(id)
        /\ refs' = With(refs, id, call[c].at) /\ UNCHANGED <<reg, dir>>
     \/ /\ call[c].pc = "add" /\ Exists(id) /\ ~ CheckedOut(id)
        /\ id \notin DOMAIN reg /\ dir[id] = "gone"
        /\ reg' = With(reg, id, [branch |-> id, locked |-> FALSE])
        /\ dir' = [dir EXCEPT ![id] = "tree"]
        /\ UNCHANGED refs
  /\ UNCHANGED past

\* What was in flight is forgotten, and the claims with it.
Die ==
  /\ left.crashes > 0
  /\ left' = [left EXCEPT !.crashes = @ - 1]
  /\ call' = [c \in Callers |-> Idle] /\ inflight' = {}
  /\ UNCHANGED <<git, src, past>>

-----------------------------------------------------------------------------
(***************************************************************************)
(* Agents and persons.                                                     *)
(***************************************************************************)
Move ==
  /\ left.moves > 0
  /\ left' = [left EXCEPT !.moves = @ - 1]
  /\ UNCHANGED <<inflight, call>>

\* A commit on whatever branch the worktree is on.
AgentCommit(id) ==
  /\ Move /\ id \in DOMAIN reg /\ dir[id] = "tree" /\ Exists(reg[id].branch)
  /\ refs' = [refs EXCEPT ![reg[id].branch] = @ \cup {id}]
  /\ UNCHANGED <<reg, dir, src, past>>

\* The branch is merged into the run's, or moved by hand with no worktree on it.
Merge(id) ==
  /\ Move /\ Exists(id)
  /\ refs' = [refs EXCEPT !["run"] = @ \cup refs[id]]
  /\ UNCHANGED <<reg, dir, src, past>>

PushOnto(id) ==
  /\ Move /\ Exists(id) /\ ~ CheckedOut(id)
  /\ refs' = [refs EXCEPT ![id] = @ \cup {id}]
  /\ UNCHANGED <<reg, dir, src, past>>

\* Another branch is checked out in a worktree, which makes it theirs.
Checkout(id) ==
  /\ Move /\ id \in DOMAIN reg /\ ~ CheckedOut("their")
  /\ reg' = [reg EXCEPT ![id].branch = "their"]
  /\ refs' = IF Exists("their") THEN refs ELSE With(refs, "their", Base)
  /\ mine' = mine \ {id} /\ UNCHANGED known
  /\ UNCHANGED <<dir, src>>

Lock(id) ==
  /\ Move /\ id \in DOMAIN reg /\ ~ reg[id].locked
  /\ reg' = [reg EXCEPT ![id].locked = TRUE]
  /\ UNCHANGED <<refs, dir, src, past>>

\* The directory is deleted by hand, or something else put at the path.
Replace(id, what) ==
  /\ Move /\ dir[id] # what
  /\ dir' = [dir EXCEPT ![id] = what]
  /\ mine' = mine \ {id} /\ UNCHANGED known
  /\ UNCHANGED <<refs, reg, src>>

\* Somebody works in the source, and commits it.
Edit ==
  /\ Move /\ src \in {"clean", "dirty"}
  /\ \/ src = "clean" /\ src' = "dirty" /\ UNCHANGED refs
     \/ src = "dirty" /\ src' = "clean" /\ refs' = [refs EXCEPT !["run"] = @ \cup {"run"}]
  /\ UNCHANGED <<reg, dir, past>>

Outside ==
  \/ \E id \in Ids : \/ AgentCommit(id) \/ Merge(id) \/ PushOnto(id) \/ Checkout(id) \/ Lock(id)
                     \/ \E what \in {"gone", "files", "link"} : Replace(id, what)
  \/ Edit

Next == (\E c \in Callers : Create(c) \/ Release(c) \/ Cancel(c) \/ GitCancelled(c)) \/ Die \/ Outside

Spec == Init /\ [][Next]_vars

-----------------------------------------------------------------------------
(***************************************************************************)
(* Properties.                                                             *)
(***************************************************************************)
Work == UNION {refs[b] : b \in DOMAIN refs}

\* worktree.go:564-569, releaseBranch: work some branch held is on a branch
\* still.  Neither a workspace released, nor one released twice, nor one
\* whose branch moved while it was being released, loses a commit.
WorkIsKept == [][Work \subseteq Work']_vars

\* worktree.go:413-428: a workspace Create returned stays as it returned it
\* until somebody releases it: no other call unregisters it, empties it or
\* takes its branch, however the calls and their retries interleave.
ReturnedStands ==
  \A id \in mine : /\ id \in DOMAIN reg /\ reg[id].branch = id
                   /\ Exists(id) /\ dir[id] = "tree"

\* A Create that had made its branch returns its error.
Fails(c) == /\ call[c].op = "create" /\ call[c].made # {}
            /\ ~ At(c, "failed") /\ At(c, "failed")'

\* The branch it made is gone, or somebody has moved it on since.
NothingLeft(c) == LET id == call[c].id IN id \in DOMAIN refs' => refs'[id] # call[c].at

\* worktree.go:381-385: a Create that fails leaves nothing of its own, unless
\* it is cancelled: what it made before the step that failed is taken back.
FailedLeavesNothing == [][\A c \in Callers : Fails(c) /\ ~ call[c].cancelled => NothingLeft(c)]_vars

\* reclaim.go:10-13: what Reclaim released can be created again.  When it
\* returns, whatever a crash, a cancelled call or a person left at the id,
\* nothing is registered there and no branch is in the way but one it kept.
ReclaimFrees ==
  [][\A c \in Callers : (call[c].op = "reclaim" /\ call'[c].pc \in {"done", "kept"})
       => call[c].id \notin DOMAIN reg' /\ (At(c, "done")' => call[c].id \notin DOMAIN refs')]_vars

\* No call that releases a workspace, fails to make one or clears one away
\* loses a commit, leaves half of what it made, or leaves something in the
\* way of the next.
TreesLetGo == WorkIsKept /\ FailedLeavesNothing /\ ReclaimFrees
=============================================================================
