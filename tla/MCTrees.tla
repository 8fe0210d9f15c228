------------------------------ MODULE MCTrees ------------------------------
(***************************************************************************)
(* The trees of files runs work in: how one is made and let go, as a git   *)
(* worktree or as a copy; how a run is forked from another's, and what a   *)
(* run publishes of its own.  The four share no state here, so each is     *)
(* explored with the others as they began: worktrees for two ids and       *)
(* callers nothing tells apart; copies of a tree a/b with a link at each   *)
(* level, of every text that matters; a run, a fork of it and a fork of    *)
(* that; and a run in place, one on a branch and one that fanned out, each *)
(* with its plan archived or not, into a directory git ignores or not.     *)
(***************************************************************************)
EXTENDS Worktree, Publish, Fork, TLC

CONSTANTS maxLinkHops, MaxEdits, MaxCalls,
          Parts  \* what this run explores

VARIABLES
  part,
  origin, taken, there, copying, calls, spent, whole, torn

Dst == <<"r", "w">>
Beside == {<<"r">>, <<"o">>}
Order == <<<<"a">>, <<"a", "b">>, <<"a", "b", "n">>, <<"a", "m">>, <<"f">>, <<"l">>, <<"s">>, <<"s", "t">>>>

Texts(names, k) == UNION {[1..i -> names] : i \in 1..k}
aDir  == [kind |-> "dir", text |-> <<>>, by |-> 0]
aFile == [kind |-> "file", text |-> <<>>, by |-> 0]
aLink(t) == [kind |-> "link", text |-> t, by |-> 0]
Tree(l, m, n) == <<"a">> :> aDir @@ <<"a", "b">> :> aDir @@ <<"a", "b", "n">> :> aLink(n)
                 @@ <<"a", "m">> :> aLink(m) @@ <<"f">> :> aFile @@ <<"l">> :> aLink(l)
                 @@ <<"s">> :> aDir @@ <<"s", "t">> :> aFile
Without(t, p) == [q \in DOMAIN t \ {p} |-> t[q]]

\* A source with a link that leads out only through another, with and
\* without its file.
Lively ==
  LET t == Tree(<<"a", "b", "n", "..", "..">>, <<"b">>, <<"..", "..">>)
  IN {t, Without(t, <<"f">>), Without(t, <<"a", "m">>)}

Originals ==
  LET full == {Tree(l, m, n) :
                 l \in Texts({"a", "m", ".."}, 3) \cup
                       {<<"a", "b", "n", "..">>, <<"a", "b", "n", "..", "..">>, <<"a", "m", "..", "w">>,
                        <<"..", "w", "a">>, <<"/", "o">>, <<"/", "r", "w">>},
                 m \in {<<"b">>, <<"..">>, <<"b", "n">>, <<"b", "n", "..", "..", "..">>, <<"..", "l">>},
                 n \in {<<"..", "..">>, <<"..">>, <<"..", "m">>, <<"..", "..", "l">>}}
  IN full \cup Lively

Skip == {"s"}

Copies == INSTANCE CopyTree
            WITH copy <- taken, inflight <- copying, call <- calls, Trees <- Originals

\* Two forks, the second of the first.  The source has time for its fix loop,
\* a fork for the visit it is of.
MCForkOf    == [r \in Runs |-> CASE r = "r" -> "f" [] r = "f" -> "g" [] OTHER -> None]
MCMaxVisits == [r \in Runs |-> IF r = ForkSource THEN 4 ELSE 1]

K(b, f, a, i, o, p) == [branched |-> b, fanout |-> f, archives |-> a, ignored |-> i,
                        occupied |-> o, pr |-> p]
MCKinds == {K(FALSE, FALSE, TRUE, FALSE, FALSE, FALSE),
            K(FALSE, FALSE, TRUE, FALSE, TRUE, FALSE),
            K(TRUE, FALSE, TRUE, FALSE, FALSE, TRUE),
            K(TRUE, FALSE, FALSE, FALSE, FALSE, FALSE),
            K(TRUE, TRUE, TRUE, FALSE, FALSE, TRUE),
            K(TRUE, TRUE, TRUE, FALSE, TRUE, FALSE)}

copyVars    == <<origin, taken, there, copying, calls, spent, whole, torn>>

InitOne ==
  /\ part \in Parts
  /\ part = "worktree" \/ src = "clean"
  /\ part = "dircopy" \/ origin = CHOOSE t \in Lively : TRUE
  /\ part = "publish" \/ kind = CHOOSE k \in Kinds : TRUE
  /\ Init /\ Copies!Init /\ ForkInit /\ PublishInit
  /\ part = "publish" \/ \A t \in DOMAIN tree : tree[t] = {}

\* At most MaxTroubles of the moves, cancellations and deaths of one worktree
\* behaviour.
Calm == left'.moves + left'.cancels + left'.crashes >= MaxMoves + MaxCancels + MaxCrashes - MaxTroubles

NextOne ==
  /\ UNCHANGED part
  /\ \/ part = "worktree" /\ Next /\ Calm /\ UNCHANGED <<copyVars, forkVars, publishVars>>
     \/ part = "dircopy" /\ Copies!Next /\ UNCHANGED <<vars, forkVars, publishVars>>
     \/ part = "fork" /\ ForkNext /\ UNCHANGED <<vars, copyVars, publishVars>>
     \/ part = "publish" /\ PublishNext /\ UNCHANGED <<vars, copyVars, forkVars>>

SpecOne == InitOne /\ [][NextOne]_<<vars, copyVars, forkVars, publishVars, part>>

Symmetry == Permutations(Ids) \cup Permutations(Callers)

-----------------------------------------------------------------------------
\* isolate/dircopy: a copy is one Create's, whole, no link of it leads out,
\* and a Create that failed left none.
CopiesStand ==
  Copies!NothingLeadsOut /\ Copies!OneCopysWork /\ Copies!FailureLeavesNothing

=============================================================================
