---------------------------- MODULE MCDispatcher ----------------------------
(***************************************************************************)
(* A graph that exercises every way a dispatch can go:                     *)
(*   code    spends, and may fail or meet a limit;                         *)
(*   work    adds one to the blackboard's tries, so that a patch applied   *)
(*           twice shows, repeats itself, returns an unusable result, or   *)
(*           goes to the gate;                                             *)
(*   fanout  supervises candidate runs, which spend;                       *)
(*   gate    cannot spend: it pauses, ends the run either way, or names a  *)
(*           node nobody registered.                                       *)
(* The world says which of them the run meets: "calm", "rough", where      *)
(* anything may go wrong, "stuck", where nodes hang until a person puts it *)
(* right, or a number, what the candidates of a fanout have spent in all.  *)
(***************************************************************************)
EXTENDS Dispatcher

CONSTANT Kinds   \* the worlds a run may be created in

MCNames       == {"plan", "code", "work", "fanout", "gate", "ghost"}
MCNodes       == MCNames \ {"plan", "ghost"}
MCUnpriced    == {"gate"}
MCSupervisors == {"fanout"}
MCFields      == {"tries"}
MCValues      == 0 .. 3
MCNewBoard    == [f \in MCFields |-> 0]

Tree(kind, spent) == [kind |-> kind, spent |-> spent]
New     == Tree("new", 0)
MCWorlds == {Tree(k, 0) : k \in {"new", "calm", "rough", "stuck"}} \cup {Tree("fanout", n) : n \in 0 .. 3}

\* A person makes a run's workspace before it is first dispatched, and puts
\* right one that is stuck.
MCEdits(w) == CASE w.kind = "new"   -> {Tree(k, 0) : k \in Kinds}
                [] w.kind = "stuck" -> {Tree("calm", 0)}
                [] OTHER            -> {}

MCConfigs == {[max_usd |-> 3, max_steps |-> 4]}

OneMoreTry(b) == [tries |-> IF b["tries"] = 3 THEN 3 ELSE b["tries"] + 1]

MCNodeResults(n, b, w) ==
  LET Ret(err, status, next, p, usage) ==
        [err |-> err, status |-> status, next |-> next, patch |-> p, usage |-> usage, world |-> w]
      Calm == CASE n = "code" -> {Ret("none", "ok", IF w.kind = "fanout" THEN "fanout" ELSE "work", <<>>, 2)}
                [] n = "work" -> {Ret("none", "ok", "gate", OneMoreTry(b), 1),
                                  Ret("none", "ok", "work", OneMoreTry(b), 1)}
                [] n = "gate" -> {Ret("none", "paused", NoNode, <<>>, 0),
                                  Ret("none", "ok", End, <<>>, 0)}
                [] OTHER      -> {}
      Rough == CASE n = "code" -> {Ret("error", NoStatus, NoNode, <<>>, 1)}
                 [] n = "work" -> {Ret("none", "ok", NoNode, OneMoreTry(b), 1),
                                   Ret("limit", NoStatus, NoNode, <<>>, 1)}
                 [] n = "gate" -> {Ret("none", "ok", "ghost", <<>>, 0),
                                   Ret("none", "failed", NoNode, <<>>, 0),
                                   Ret("none", "aborted", NoNode, <<>>, 0)}
                 [] OTHER      -> {}
      \* What fanout says it spent is what its candidates have, in all.
      Fanout == UNION {{[Ret("limit", NoStatus, NoNode, <<>>, v) EXCEPT !.world = Tree("fanout", v)],
                        [Ret("none", "ok", "gate", OneMoreTry(b), v) EXCEPT !.world = Tree("fanout", v)]}
                       : v \in {w.spent, IF w.spent = 3 THEN 3 ELSE w.spent + 1}}
  IN  CASE w.kind \in {"new", "stuck"}          -> {}
        [] w.kind = "fanout" /\ n = "fanout" -> Fanout
        [] w.kind = "rough"                  -> Calm \cup Rough
        [] OTHER                             -> Calm

\* A third dispatch is explored where little else goes wrong.
MCNext == Next /\ (opens' <= 2 \/ world'.kind \in {"calm", "stuck"})
MCSpec == Init /\ [][MCNext]_vars /\ WF_vars(Advance)

\* The view is the accepted results' only where the results supersede.
ASSUME MCResultsSupersede == ResultsSupersede

=============================================================================
