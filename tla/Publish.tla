------------------------------ MODULE Publish ------------------------------
(***************************************************************************)
(* How a run's change leaves it: the promote node commits it to the run's  *)
(* branch, or commits the winning candidate's and merges it                *)
(* (internal/nodes/promote over internal/git), and once the run is         *)
(* complete the command files its plan, pushes the branch, opens a pull    *)
(* request and removes the worktree (internal/planarchive, internal/cli).  *)
(*                                                                         *)
(* A tree is the set of paths in which it differs from the run's base      *)
(* commit, a branch the same and whether a commit of it carries the run's  *)
(* trailers.  Belay may die between any two steps.  While it is not        *)
(* running, a person may work in the trees: that is what a pause asks for. *)
(***************************************************************************)
EXTENDS Naturals, FiniteSets

CONSTANTS
  Files,        \* paths a run may change
  Recorded,     \* those of them its steps recorded
  Plan,         \* the path its plan is archived at
  Candidates, Winner,
  Kinds,        \* how runs may be set up
  MaxHands,     \* bound: steps of a person
  MaxDeaths     \* bound: deaths of belay

ASSUME PublishAssumption ==
  /\ Recorded \subseteq Files /\ Plan \notin Files
  /\ Winner \in Candidates /\ "run" \notin Candidates
  /\ Kinds \subseteq [branched: BOOLEAN, fanout: BOOLEAN, archives: BOOLEAN,
                      ignored: BOOLEAN, occupied: BOOLEAN, pr: BOOLEAN]
  /\ \A k \in Kinds : k.fanout \/ k.pr => k.branched
  /\ MaxHands \in Nat /\ MaxDeaths \in Nat

VARIABLES
  kind,
  pc, alone,  \* where belay is; whether only to archive a plan
  status,     \* the run's, on disk
  dirs,       \* trees on disk
  tree, tip,  \* what each tree holds, and its branch
  branches,   \* branches there are
  merged,     \* the run's branch contains the winner's
  merging,    \* a merge in progress in the run's tree: none, belay or hand
  carried,    \* promoteWinner: the run's branch carries the winner's trailers
  promotion,  \* blackboard: the files promoted
  copy,       \* the run's own copy of its plan: plan, edited or gone
  filed,      \* manifest: archived_plan.path
  remote,     \* the branch as pushed, and the pull requests open for it
  hands, crashes,
  handed,     \* history: files a person committed
  touched,    \* history: trees a person edited
  made        \* history: commits belay made

ofGit == <<tree, tip, branches, merged, merging>>
plan  == <<copy, filed>>
hist  == <<hands, crashes, handed, touched, made>>
publishVars ==
  <<kind, pc, alone, status, dirs, ofGit, carried, promotion, plan, remote, hist>>

Trees == Candidates \cup {"run"}

\* The tree whose change is promoted.
Source == IF kind.fanout THEN Winner ELSE "run"

\* What git sees of a tree.
Visible(t) == IF kind.ignored THEN tree[t] \ {Plan} ELSE tree[t]

PublishInit ==
  /\ kind \in Kinds
  /\ status = IF kind.branched THEN "running" ELSE "completed"
  /\ pc = IF kind.branched THEN "begin" ELSE "after"
  /\ alone = FALSE
  /\ dirs = IF kind.fanout THEN Trees ELSE {"run"}
  /\ \E work \in SUBSET Recorded : tree = [t \in Trees |-> IF t = Source THEN work ELSE {}]
  /\ tip = [t \in Trees |-> [holds |-> {}, marked |-> FALSE]]
  /\ branches = dirs
  /\ merged = TRUE /\ merging = "none" /\ carried = FALSE
  /\ promotion = {} /\ copy = "plan" /\ filed = FALSE
  /\ remote = [pushed |-> {}, prs |-> 0]
  /\ hands = 0 /\ crashes = 0 /\ handed = {} /\ touched = {} /\ made = 0

On(p)    == pc = p
Proceed(p)  == pc' = p /\ UNCHANGED <<kind, alone, status>>
Pause    == pc' = "down" /\ status' = "paused" /\ UNCHANGED <<kind, alone>>
FailRun  == pc' = "exit" /\ status' = "failed" /\ UNCHANGED <<kind, alone>>

-----------------------------------------------------------------------------
(***************************************************************************)
(* promote.                                                                *)
(***************************************************************************)
\* Git or the file system refuses a step, whatever the step: the node's
\* error fails the run, and what its earlier steps did stays done.
PromoteErrs ==
  /\ pc \in {"begin", "account", "commit", "integrate", "carries", "record"}
  /\ FailRun
  /\ UNCHANGED <<dirs, ofGit, carried, promotion, plan, remote, hist>>

\* A winner already on the branch is not committed or merged again.
BeginPromote ==
  /\ On("begin")
  /\ carried' = (kind.fanout /\ tip["run"].marked)
  /\ \/ carried' /\ Proceed("record")
     \/ ~ carried' /\ Source \in dirs /\ Proceed("account")
     \/ ~ carried' /\ Source \notin dirs /\ FailRun
  /\ UNCHANGED <<dirs, ofGit, promotion, plan, remote, hist>>

\* Slip: a tree belay has committed once is accounted for.
UnaccountedOnce == IF tip[Source].marked THEN {} ELSE Visible(Source) \ (Recorded \cup {Plan})

Unaccounted == Visible(Source) \ (Recorded \cup {Plan})

\* The policy judges the files it is about to commit, too: a person's edit
\* of a recorded file may break it.
accountFor ==
  /\ On("account")
  /\ \/ Unaccounted # {} /\ Pause
     \/ Unaccounted = {} /\ Proceed("archive")
     \/ Unaccounted = {} /\ Source \in touched /\ Pause
  /\ UNCHANGED <<dirs, ofGit, carried, promotion, plan, remote, hist>>

\* Slip: the plan is put where it goes whenever it is not there.
MayPlaceAlways == kind.archives /\ copy = "plan" /\ ~ kind.occupied

\* Only before the commit, so that a run again makes no second one.
MayPlace == kind.archives /\ copy = "plan" /\ ~ kind.occupied /\ ~ tip[Source].marked

\* Whatever keeps the plan out, the change is committed without it.
archive ==
  /\ On("archive")
  /\ \/ MayPlace /\ tree' = [tree EXCEPT ![Source] = @ \cup {Plan}]
     \/ UNCHANGED tree
  /\ Proceed("commit")
  /\ UNCHANGED <<dirs, tip, branches, merged, merging, carried, promotion, plan, remote, hist>>

\* git add --all, and a commit when that staged anything.
Commit ==
  /\ On("commit")
  /\ IF Visible(Source) = tip[Source].holds
       THEN UNCHANGED <<tip, merged, made>>
       ELSE /\ tip' = [tip EXCEPT ![Source] = [holds |-> Visible(Source), marked |-> TRUE]]
            /\ merged' = ~ kind.fanout
            /\ made' = made + 1
  /\ Proceed(IF kind.fanout THEN "integrate" ELSE "record")
  /\ UNCHANGED <<dirs, tree, branches, merging, carried, promotion, plan, remote,
                 hands, crashes, handed, touched>>

Dirty == Visible("run") # tip["run"].holds

Both == (tip["run"].holds \cap tip[Winner].holds) \ {Plan}

\* A merge belay itself began and nobody touched is begun again; any other
\* merge in progress is the person's to finish.
AbortInterruptedMerge ==
  /\ On("integrate") /\ merging = "belay"
  /\ merging' = "none"
  /\ tree' = [tree EXCEPT !["run"] = tip["run"].holds \cup (tree["run"] \ Visible("run"))]
  /\ UNCHANGED <<kind, pc, alone, status, dirs, tip, branches, merged, carried, promotion,
                 plan, remote, hist>>

Integrate ==
  /\ On("integrate") /\ merging # "belay"
  /\ \/ merging = "hand" /\ FailRun /\ UNCHANGED ofGit
     \/ merging = "none" /\ merged /\ Proceed("carries") /\ UNCHANGED ofGit
     \/ merging = "none" /\ ~ merged /\ (Dirty \/ Both # {}) /\ Pause /\ UNCHANGED ofGit
     \/ /\ merging = "none" /\ ~ merged /\ ~ Dirty
        /\ merging' = "belay"
        /\ tree' = [tree EXCEPT !["run"] = @ \cup tip[Winner].holds]
        /\ Proceed("merge")
        /\ UNCHANGED <<tip, branches, merged>>
  /\ UNCHANGED <<dirs, carried, promotion, plan, remote, hist>>

FinishMerge ==
  /\ On("merge")
  /\ merging' = "none" /\ merged' = TRUE
  /\ tip' = [tip EXCEPT !["run"] = [holds |-> @.holds \cup tip[Winner].holds, marked |-> TRUE]]
  /\ made' = made + 1
  /\ Proceed("carries")
  /\ UNCHANGED <<dirs, tree, branches, carried, promotion, plan, remote,
                 hands, crashes, handed, touched>>

Carries ==
  /\ On("carries")
  /\ carried' = tip["run"].marked
  /\ Proceed("record")
  /\ UNCHANGED <<dirs, ofGit, promotion, plan, remote, hist>>

record ==
  /\ On("record")
  /\ promotion' = tip["run"].holds
  /\ Proceed(IF kind.fanout THEN "clean" ELSE "done")
  /\ UNCHANGED <<dirs, ofGit, carried, plan, remote, hist>>

\* A branch goes with its worktree only when another ref holds its commits.
\* Only the winner's ever has any: promote is the only step that commits.
releaseBranch(c) ==
  IF (c = Winner /\ merged) \/ (c # Winner /\ tip[c].holds = {})
    THEN branches' = branches \ {c}
    ELSE UNCHANGED branches

\* Slip: the winner's workspace goes with the others.
CleanableAll == dirs \cap Candidates

\* The winner's workspace stays unless the branch is known to carry it.
Cleanable == (dirs \cap Candidates) \ (IF carried THEN {} ELSE {Winner})

clean ==
  /\ On("clean")
  /\ \/ \E c \in Cleanable :
          /\ dirs' = dirs \ {c}
          /\ tree' = [tree EXCEPT ![c] = {}]
          /\ releaseBranch(c)
          /\ UNCHANGED <<kind, pc, alone, status>>
     \/ Proceed("done") /\ UNCHANGED <<dirs, tree, branches>>  \* and one that cannot be removed is left
  /\ UNCHANGED <<tip, merged, merging, carried, promotion, plan, remote, hist>>

promoted ==
  /\ On("done")
  /\ pc' = "after" /\ status' = "completed"
  /\ UNCHANGED <<kind, alone, dirs, ofGit, carried, promotion, plan, remote, hist>>

-----------------------------------------------------------------------------
(***************************************************************************)
(* After completion.  File is three durable steps, and run again it goes   *)
(* on from where it stopped.                                               *)
(***************************************************************************)
Filed == IF alone THEN "exit" ELSE "publish"

\* Slip: what promote placed is taken to be there.
HoldsAssumed == "run" \in dirs

Holds == "run" \in dirs /\ Plan \in tree["run"]

\* A run in place places its plan; a branch run's is in its tree or nowhere.
Placed ==
  /\ kind.archives /\ copy = "plan" /\ ~ filed
  /\ IF kind.branched
       THEN Holds /\ UNCHANGED tree
       ELSE ~ kind.occupied /\ tree' = [tree EXCEPT !["run"] = @ \cup {Plan}]

File ==
  /\ On("after")
  /\ \/ Placed /\ Proceed("note")
     \/ filed /\ Proceed(IF copy = "plan" /\ Holds THEN "remove" ELSE Filed) /\ UNCHANGED tree
     \/ ~ filed /\ Proceed(Filed) /\ UNCHANGED tree     \* kept, or not asked for, or an error
  /\ UNCHANGED <<dirs, tip, branches, merged, merging, carried, promotion, plan, remote, hist>>

RecordPlan ==
  /\ On("note")
  /\ filed' = TRUE
  /\ Proceed("remove")
  /\ UNCHANGED <<dirs, ofGit, carried, promotion, copy, remote, hist>>

remove ==
  /\ On("remove")
  /\ copy' = "gone"
  /\ Proceed(Filed)
  /\ UNCHANGED <<dirs, ofGit, carried, promotion, filed, remote, hist>>

Proposes == kind.pr /\ promotion # {}

\* An existing pull request is the one; a push or gh may fail.
publish ==
  /\ On("publish")
  /\ \/ Proposes /\ remote.prs = 0
        /\ remote' = [remote EXCEPT !.pushed = tip["run"].holds]
        /\ Proceed("create")
     \/ Proceed("finish") /\ UNCHANGED remote
  /\ UNCHANGED <<dirs, ofGit, carried, promotion, plan, hist>>

createPullRequest ==
  /\ On("create")
  /\ \/ remote' = [remote EXCEPT !.prs = @ + 1]
     \/ UNCHANGED remote
  /\ Proceed("finish")
  /\ UNCHANGED <<dirs, ofGit, carried, promotion, plan, hist>>

finishRun ==
  /\ On("finish")
  /\ Proceed("exit")
  /\ \/ /\ kind.branched
        /\ dirs' = dirs \ {"run"}
        /\ tree' = [tree EXCEPT !["run"] = {}]
     \/ UNCHANGED <<dirs, tree>>                     \* in place, or a locked worktree
  /\ UNCHANGED <<tip, branches, merged, merging, carried, promotion, plan, remote, hist>>

-----------------------------------------------------------------------------
(***************************************************************************)
(* Belay dies; a person resumes a run that has not ended, or finishes      *)
(* moving the plan of one that completed.                                  *)
(***************************************************************************)
Crash ==
  /\ pc \notin {"down", "exit"} /\ crashes < MaxDeaths
  /\ crashes' = crashes + 1
  /\ pc' = "down"
  /\ UNCHANGED <<kind, alone, status, dirs, ofGit, carried, promotion, plan, remote,
                 hands, handed, touched, made>>

Resume ==
  /\ On("down") /\ status \in {"running", "paused"}
  /\ pc' = "begin" /\ status' = "running"
  /\ UNCHANGED <<kind, alone, dirs, ofGit, carried, promotion, plan, remote, hist>>

archivePlanNow ==
  /\ pc \in {"down", "exit"} /\ status = "completed" /\ ~ alone
  /\ pc' = "after" /\ alone' = TRUE
  /\ UNCHANGED <<kind, status, dirs, ofGit, carried, promotion, plan, remote, hist>>

-----------------------------------------------------------------------------
(***************************************************************************)
(* A person, while belay is not running.                                   *)
(***************************************************************************)
ByHand == pc \in {"down", "exit"} /\ hands < MaxHands /\ hands' = hands + 1

\* A file made, changed or deleted, the archived plan deleted.
HandEdit(t, f) ==
  /\ ByHand /\ t \in dirs
  /\ f = Plan => Plan \in tree[t]
  /\ tree' = [tree EXCEPT ![t] = IF f \in @ THEN @ \ {f} ELSE @ \cup {f}]
  /\ touched' = touched \cup {t}
  /\ merging' = IF t = "run" /\ merging = "belay" THEN "hand" ELSE merging
  /\ UNCHANGED <<kind, pc, alone, status, dirs, tip, branches, merged, carried, promotion,
                 plan, remote, crashes, handed, made>>

\* Committing in the run's tree finishes a merge in progress there.
HandCommit(t) ==
  LET merges == t = "run" /\ merging # "none"
  IN  /\ ByHand /\ t \in dirs /\ (Visible(t) # tip[t].holds \/ merges)
      /\ tip' = [tip EXCEPT ![t] = [holds |-> Visible(t),
                                    marked |-> @.marked \/ (merges /\ tip[Winner].marked)]]
      /\ handed' = handed \cup (Visible(t) \ tip[t].holds)
      /\ merged' = (merges \/ (merged /\ t # Winner))
      /\ merging' = IF merges THEN "none" ELSE merging
      /\ UNCHANGED <<kind, pc, alone, status, dirs, tree, branches, carried, promotion,
                     plan, remote, crashes, touched, made>>

\* The merge a conflict's note asks for.
HandMerge ==
  /\ ByHand /\ kind.fanout /\ "run" \in dirs /\ Winner \in branches
  /\ merging = "none" /\ ~ merged /\ ~ Dirty
  /\ tip' = [tip EXCEPT !["run"] = [holds |-> @.holds \cup tip[Winner].holds,
                                    marked |-> @.marked \/ tip[Winner].marked]]
  /\ tree' = [tree EXCEPT !["run"] = @ \cup tip[Winner].holds]
  /\ handed' = handed \cup tip[Winner].holds
  /\ merged' = TRUE
  /\ UNCHANGED <<kind, pc, alone, status, dirs, branches, merging, carried, promotion,
                 plan, remote, crashes, touched, made>>

EditPlan ==
  /\ ByHand /\ copy = "plan"
  /\ copy' = "edited"
  /\ UNCHANGED <<kind, pc, alone, status, dirs, ofGit, carried, promotion, filed, remote,
                 crashes, handed, touched, made>>

-----------------------------------------------------------------------------
Belay ==
  \/ BeginPromote \/ accountFor \/ archive \/ Commit
  \/ AbortInterruptedMerge \/ Integrate \/ FinishMerge \/ Carries \/ record \/ clean
  \/ promoted \/ File \/ RecordPlan \/ remove \/ publish \/ createPullRequest \/ finishRun

Person ==
  \/ Resume \/ archivePlanNow \/ HandMerge \/ EditPlan
  \/ \E t \in Trees : HandCommit(t) \/ \E f \in Files \cup {Plan} : HandEdit(t, f)

PublishNext == Belay \/ PromoteErrs \/ Crash \/ Person

PublishSpec == PublishInit /\ [][PublishNext]_publishVars /\ WF_publishVars(Belay \/ PromoteErrs)

-----------------------------------------------------------------------------
(***************************************************************************)
(* Properties.                                                             *)
(***************************************************************************)
\* Belay commits only what its steps recorded, and the plan: whatever else a
\* branch holds, a person committed, however often promote was cut short and
\* whatever was done to the trees in between.
OnlyOfTheRun ==
  \A t \in Trees : tip[t].holds \subseteq Recorded \cup {Plan} \cup handed

\* The winner's workspace is not destroyed before its work is committed, nor
\* its commits dropped before the run's branch has them.
WinnerIsKept ==
  [][/\ Winner \in dirs \ dirs' => /\ Visible(Winner) = tip[Winner].holds \/ Winner \in touched
                                   /\ tip["run"].marked
     /\ Winner \in branches \ branches' => merged]_publishVars

\* A promotion cut short and run again is the same promotion: one commit of
\* the change, and one merge, unless a person changed something in between.
OnePromotion == hands = 0 => made <= IF kind.fanout THEN 2 ELSE 1

\* What belay commits is the run's own, once.
OnlyRecordedIsCommitted == OnlyOfTheRun /\ OnePromotion

\* A branch run's repository has what it committed, a run in place what is in
\* its workspace.
Kept == IF kind.branched THEN Plan \in tip["run"].holds ELSE Plan \in tree["run"]

\* planarchive/file.go, "A move": the run's copy of its plan goes only once
\* the repository has the plan, where git does not ignore the directory plans
\* are archived in.
PlanIsMoved == [][copy' = "gone" /\ copy = "plan" /\ ~ kind.ignored => Kept]_publishVars

\* Work and plan leave a tree only for another place that has them.
NothingIsLost == WinnerIsKept /\ PlanIsMoved

=============================================================================
