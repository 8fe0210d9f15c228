------------------------------ MODULE CopyTree ------------------------------
(***************************************************************************)
(* Workspaces that are copies of a tree (internal/isolate/dircopy): Create *)
(* walks the source and recreates each entry under the candidate root,     *)
(* Destroy and Reclaim remove a copy again.                                *)
(*                                                                         *)
(* A path is the sequence of names below the file system's root.  A tree   *)
(* is a function from the paths in it, relative to its top, to what is     *)
(* there: a directory, a file or a symbolic link and the text it holds,    *)
(* itself a sequence of names.  What lies outside the copy is directories. *)
(***************************************************************************)
EXTENDS Naturals, Sequences, FiniteSets, SequencesExt

CONSTANTS
  Trees,       \* what the source may hold
  Lively,      \* those it is edited between, and copied from more than once
  Order,       \* the paths of all of them, in the order WalkDir visits them
  Skip,        \* names a copy omits
  Dst,         \* path of the copy
  Beside,      \* directories outside the copy
  Callers,     \* goroutines that may call the isolator
  maxLinkHops, \* links followed for one path
  MaxEdits, MaxCalls, MaxCrashes \* bounds

VARIABLES
  origin,    \* the tree being copied
  copy,      \* what is at Dst: a tree whose entries say which call made them
  there,     \* whether the directory Dst exists
  inflight,  \* the id is claimed
  call,      \* each caller's call
  spent,     \* steps counted against the bounds
  whole,     \* history: number of the Create whose copy was returned, or 0
  torn       \* history: belay died over a copy that nobody has removed since

disk == <<copy, there>>
vars == <<origin, disk, inflight, call, spent, whole, torn>>
past == <<whole, torn>>

Empty == [p \in {} |-> [kind |-> "file"]]
Idle  == [op |-> "none", pc |-> "idle", n |-> 0, at |-> 0, dir |-> Dst]

Init ==
  /\ origin \in Trees
  /\ copy = Empty /\ there = FALSE /\ inflight = FALSE
  /\ call = [c \in Callers |-> Idle]
  /\ spent = IF origin \in Lively THEN [edits |-> 0, calls |-> 0, crashes |-> 0]
             ELSE [edits |-> MaxEdits, calls |-> MaxCalls - 1, crashes |-> MaxCrashes]
  /\ whole = 0 /\ torn = FALSE

At(c, p)    == call[c].pc = p
Set(c, r)   == call' = [call EXCEPT ![c] = r] /\ UNCHANGED <<origin, spent>>
Goto(c, p)  == Set(c, [call[c] EXCEPT !.pc = p])

-----------------------------------------------------------------------------
(***************************************************************************)
(* Where a link leads.                                                     *)
(***************************************************************************)
Up(p) == IF p = <<>> THEN p ELSE Front(p)

\* filepath.Clean of text read from directory p: every name a directory.
Join(p, text) == FoldLeft(LAMBDA at, name : IF name = ".." THEN Up(at) ELSE Append(at, name), p, text)

\* isAncestorOf, or the path itself, by whole names.
Inside(p) == IsPrefix(Dst, p)

\* Judged from the text alone, as the tree is still being built.
escapes(target, link) ==
  \/ link # <<>> /\ link[1] = "/"
  \/ ~ Inside(Join(Up(Dst \o target), link))

Within(p) == SubSeq(p, Len(Dst) + 1, Len(p))
IsLinkIn(tree, p) == Inside(p) /\ Within(p) \in DOMAIN tree /\ tree[Within(p)].kind = "link"
ExistsIn(tree, p) == \/ p = Dst \/ p \in Beside
                     \/ Inside(p) /\ Within(p) \in DOMAIN tree

\* endsInside from "at" with "rest" to go: a link is replaced by its text,
\* ".." climbs from where the path has really got to, and below a name that
\* is not there the rest is read as text.
RECURSIVE Ends(_, _, _, _)
Ends(tree, at, rest, hops) ==
  IF rest = <<>> THEN Inside(at)
  ELSE LET name == Head(rest)
           next == Append(at, name) IN
    IF name = "/" THEN Ends(tree, <<>>, Tail(rest), hops)
    ELSE IF name = ".." THEN Ends(tree, Up(at), Tail(rest), hops)
    ELSE IF ~ ExistsIn(tree, next) THEN Inside(Join(next, Tail(rest)))
    ELSE IF ~ IsLinkIn(tree, next) THEN Ends(tree, next, Tail(rest), hops)
    ELSE hops < maxLinkHops /\ Ends(tree, at, tree[Within(next)].text \o Tail(rest), hops + 1)

\* Slip: a link's text is followed no further than it reads.
endsInsideAsRead(tree, link) == ~ escapes(link, tree[link].text)

endsInside(tree, link) == Ends(tree, <<>>, Dst \o link, 0)

-----------------------------------------------------------------------------
(***************************************************************************)
(* Create.                                                                 *)
(***************************************************************************)
\* Slip: nothing is reserved.
claimNothing == UNCHANGED inflight

claim == ~ inflight /\ inflight' = TRUE

Begin(c, op, p, at) ==
  /\ At(c, "idle") /\ spent.calls < MaxCalls
  /\ spent' = [spent EXCEPT !.calls = @ + 1]
  /\ call' = [call EXCEPT ![c] = [Idle EXCEPT !.op = op, !.pc = p, !.n = spent.calls + 1, !.dir = at]]
  /\ UNCHANGED <<origin, disk>>

Return(c) ==
  /\ Set(c, Idle)
  /\ inflight' = IF call[c].op \in {"create", "reclaim"} THEN FALSE ELSE inflight

BeginCreate(c) == Begin(c, "create", "dest", Dst) /\ claim /\ UNCHANGED past

\* An empty directory is as good as none.
MayFill == ~ there \/ DOMAIN copy = {}

prepareDest(c) ==
  /\ At(c, "dest")
  /\ IF MayFill
     THEN /\ there' = TRUE /\ Goto(c, "estimate") /\ UNCHANGED inflight
     ELSE Return(c) /\ UNCHANGED there
  /\ UNCHANGED <<copy, past>>

\* No disk is measured here: a copy may always be refused for want of room.
checkSpace(c) == Goto(c, "cleanup")

\* What the walk will visit, and whether it fits.
estimate(c) ==
  /\ At(c, "estimate")
  /\ \/ Set(c, [call[c] EXCEPT !.pc = "walk", !.at = 1])
     \/ checkSpace(c)
  /\ UNCHANGED <<disk, inflight, past>>

\* A skipped directory is not descended into.
Omitted(p) == \E i \in 1..Len(p) : p[i] \in Skip

Made(c, p) ==
  [q \in DOMAIN copy \cup {p} |-> IF q = p THEN [origin[p] EXCEPT !.by = call[c].n] ELSE copy[q]]

\* A link whose text leads out is not made.
Recreated(c, p) ==
  IF origin[p].kind = "link" /\ escapes(p, origin[p].text) THEN copy ELSE Made(c, p)

\* One entry of the walk: gone by now, omitted, or recreated where nothing
\* must be in the way and its directory must be there.
CopyEntry(c) == LET p == Order[call[c].at] IN
  /\ At(c, "walk") /\ call[c].at <= Len(Order)
  /\ IF p \notin DOMAIN origin \/ Omitted(p)
     THEN /\ Set(c, [call[c] EXCEPT !.at = @ + 1]) /\ UNCHANGED copy
     ELSE IF p \in DOMAIN copy \/ ~ there \/ (Len(p) > 1 /\ Front(p) \notin DOMAIN copy)
     THEN /\ Goto(c, "cleanup") /\ UNCHANGED copy
     ELSE /\ Set(c, [call[c] EXCEPT !.at = @ + 1])
          /\ copy' = Recreated(c, p)
  /\ UNCHANGED <<there, inflight, past>>

\* An entry cannot be read or written, or the context has been cancelled.
CopyFails(c) ==
  /\ At(c, "walk") /\ Goto(c, "cleanup")
  /\ UNCHANGED <<disk, inflight, past>>

\* Every link is judged in the tree as built, then those that lead out go.
Leading(tree) == {p \in DOMAIN tree : tree[p].kind = "link" /\ ~ endsInside(tree, p)}
confine(tree) == [p \in DOMAIN tree \ Leading(tree) |-> tree[p]]

Confine(c) ==
  /\ At(c, "walk") /\ call[c].at > Len(Order)
  /\ copy' = confine(copy) /\ whole' = call[c].n /\ UNCHANGED torn
  /\ Return(c)
  /\ UNCHANGED there

\* Slip: of a failed copy the files go, and the directories stay.
RemainingDirs(p) == {q \in DOMAIN copy : copy[q].kind = "dir"}

\* RemoveAll of a path: what lies below it goes with it, links as links.
Remaining(p) == {q \in DOMAIN copy : ~ IsPrefix(p, Dst \o q)}

\* remove is the one place a tree is deleted.
remove(p) ==
  /\ copy' = [q \in Remaining(p) |-> copy[q]]
  /\ there' = (there /\ (p # Dst \/ Remaining(p) # {}))
  /\ torn' = (torn /\ there')

\* Whatever failed it, and under whatever context.
cleanupPartial(c) ==
  /\ At(c, "cleanup") /\ remove(Dst)
  /\ Return(c)
  /\ UNCHANGED whole

Create(c) == \/ BeginCreate(c) \/ prepareDest(c) \/ estimate(c) \/ CopyEntry(c)
             \/ CopyFails(c) \/ Confine(c) \/ cleanupPartial(c)

-----------------------------------------------------------------------------
(***************************************************************************)
(* Reclaim and Destroy, and what may happen around them.                   *)
(***************************************************************************)
BeginReclaim(c) ==
  /\ Begin(c, "reclaim", "remove", Dst) /\ claim
  /\ whole' = 0 /\ UNCHANGED torn

Root == Front(Dst)

\* A direct child of the candidate root.
isChildOf(p) == Len(p) = Len(Root) + 1 /\ IsPrefix(Root, p)

\* What Destroy is handed may come from a file: only a workspace that says
\* an isolator made it, and where the isolator makes them, is acted on.
ownedPath(ws) == ws.ephemeral /\ isChildOf(ws.dir)

Workspaces == [dir: {Dst, Root, Append(Dst, "a")} \cup Beside, ephemeral: BOOLEAN]

\* Nothing else is done to the workspace meanwhile.
BeginDestroy(c, ws) ==
  /\ whole # 0 /\ \A d \in Callers : At(d, "idle")
  /\ ownedPath(ws)
  /\ Begin(c, "destroy", "remove", ws.dir)
  /\ whole' = IF ws.dir = Dst THEN 0 ELSE whole
  /\ UNCHANGED <<inflight, torn>>

RemoveAll(c) ==
  /\ At(c, "remove")
  /\ remove(call[c].dir) /\ Return(c)
  /\ UNCHANGED whole

Die ==
  /\ spent.crashes < MaxCrashes
  /\ spent' = [spent EXCEPT !.crashes = @ + 1]
  /\ call' = [c \in Callers |-> Idle] /\ inflight' = FALSE
  /\ torn' = (there /\ whole = 0)
  /\ UNCHANGED <<origin, disk, whole>>

\* The source is worked on, during a copy or between two.
Edit ==
  /\ spent.edits < MaxEdits
  /\ spent' = [spent EXCEPT !.edits = @ + 1]
  /\ origin' \in Lively \ {origin}
  /\ UNCHANGED <<disk, inflight, call, past>>

Next ==
  \/ \E c \in Callers : Create(c) \/ BeginReclaim(c) \/ RemoveAll(c)
                       \/ \E ws \in Workspaces : BeginDestroy(c, ws)
  \/ Die \/ Edit

Spec == Init /\ [][Next]_vars

-----------------------------------------------------------------------------
(***************************************************************************)
(* Properties.                                                             *)
(***************************************************************************)
\* Where the kernel ends up: nowhere when a name is not there or links do
\* not come to an end.
RECURSIVE Kernel(_, _, _)
Kernel(at, rest, hops) ==
  IF hops > maxLinkHops THEN {}
  ELSE IF rest = <<>> THEN {at}
  ELSE LET next == IF Head(rest) = "/" THEN <<>>
                   ELSE IF Head(rest) = ".." THEN Up(at) ELSE Append(at, Head(rest)) IN
    IF Head(rest) \notin {"/", ".."} /\ ~ ExistsIn(copy, next) THEN {}
    ELSE IF IsLinkIn(copy, next)
    THEN Kernel(at, copy[Within(next)].text \o Tail(rest), hops + 1)
    ELSE Kernel(next, Tail(rest), hops)

\* copy.go:340-347, confine: no link of a copy that was handed out leads out
\* of it, through however many other links, links that were removed from
\* under it included.
NothingLeadsOut ==
  whole # 0 =>
    \A p \in DOMAIN copy : copy[p].kind = "link" =>
      \A end \in Kernel(<<>>, Dst \o p, 0) : Inside(end)

\* dircopy.go:844-846, prepareDest: a copy that was handed out is one
\* Create's work from its first entry to its last: nothing of a copy a crash
\* tore, and nothing missing that a Reclaim took from under it.
OneCopysWork ==
  whole # 0 =>
    /\ there
    /\ \A p \in DOMAIN copy : copy[p].by = whole
    /\ \A p \in DOMAIN copy : Len(p) > 1 => Front(p) \in DOMAIN copy

\* dircopy.go:494-497: after a Create that returned an error the id is free:
\* when nothing is in flight, a copy is there only if it was handed out, or
\* if belay died over it.
FailureLeavesNothing ==
  (\A c \in Callers : At(c, "idle")) /\ whole = 0 /\ ~ torn => ~ there
=============================================================================
