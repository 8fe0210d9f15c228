------------------------------- MODULE MCWork -------------------------------
(***************************************************************************)
(* How a run's change comes about: by the loop of work, gates and repair,  *)
(* or by candidate runs that each go through that loop in a process tree   *)
(* of their own.  The loop is explored with every wiring a command can ask *)
(* for, three files, one of which a reply may name by another spelling,    *)
(* and an attempt of the agent cut short; fanout with two candidates, a    *)
(* pool of two, and two attempts under a ceiling that may be unset, too    *)
(* low to divide, or raised.  The two share no state: one is explored with *)
(* the other as it began.                                                  *)
(***************************************************************************)
EXTENDS Candidates, WorkLoop

CONSTANT Parts  \* what this run explores: "fanout", "loop"

VARIABLE part

MCNames == {"plan", "fanout"}

\* One that passes clean, one with an issue, one that breaks the policy, and
\* one whose run fails.
MCEndings ==
  {[run |-> "completed", passed |-> TRUE,  issues |-> 0, violations |-> 0],
   [run |-> "completed", passed |-> TRUE,  issues |-> 1, violations |-> 0],
   [run |-> "failed",    passed |-> TRUE,  issues |-> 0, violations |-> 1]}

MCFold(f) == IF f = "Go.mod" THEN "go.mod" ELSE f

\* nodes.Default with its options, and nodes.Candidate.
W(a, p, b, f, c, r, m) ==
  [approval |-> a, policy |-> p, branch |-> b, fanout |-> f, candidate |-> c,
   recorded |-> r, mode |-> m]

MCGraphs ==
  {W(FALSE, FALSE, FALSE, FALSE, FALSE, FALSE, "lint"),
   W(TRUE, TRUE, TRUE, FALSE, FALSE, TRUE, "ai"),
   W(FALSE, TRUE, FALSE, FALSE, FALSE, FALSE, "lint"),
   W(FALSE, FALSE, FALSE, TRUE, FALSE, TRUE, "lint"),
   W(TRUE, FALSE, TRUE, TRUE, FALSE, TRUE, "lint"),
   W(FALSE, TRUE, FALSE, FALSE, TRUE, TRUE, "ai")}

InitOne ==
  /\ part \in Parts
  /\ Init /\ LoopInit
  /\ \/ part = "loop"
     \/ giveUp = 0 /\ graph = W(FALSE, FALSE, FALSE, TRUE, FALSE, TRUE, "lint")

FansOut == part = "fanout" /\ Next /\ UNCHANGED loopVars
Loops   == part = "loop" /\ LoopNext /\ UNCHANGED vars

NextOne == UNCHANGED part /\ (FansOut \/ Loops)

SpecOne ==
  /\ InitOne /\ [][NextOne]_<<vars, loopVars, part>>
  /\ WF_vars(part = "fanout" /\ Advance)
  /\ WF_loopVars(part = "loop" /\ Work)

-----------------------------------------------------------------------------
\* internal/nodes/fix: no run repairs its work for ever.
LoopEnds == <>(part = "loop" => Ended)

\* What belay sets to work stops by itself: the pool of a fanout drains, and
\* the loop gives up.
PoolAndLoopEnd == AttemptEnds /\ LoopEnds

=============================================================================
