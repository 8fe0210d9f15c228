------------------------------ MODULE RunSpec ------------------------------
(***************************************************************************)
(* What a run promises, with no process, file or crash in it: nodes run    *)
(* one after another, each once, each given the blackboard the results     *)
(* before it add up to.  A node's result names the node after it, pauses   *)
(* the run, or ends it.  A run may be paused between two results, and      *)
(* stays where it is when it is.  A run that has ended never changes.      *)
(*                                                                         *)
(* This is the contract the ordering section of graph.Dispatcher's doc     *)
(* argues for.  Dispatcher implements it (RefinesRunSpec there).               *)
(***************************************************************************)
EXTENDS Journal

CONSTANTS Nodes, Fields, Worlds, NodeResults(_, _, _), NewBoard, Entry

VARIABLES node, board, status

runVars == <<node, board, status>>

Init == /\ node = IF Entry = NoNode THEN FirstNode ELSE Entry
        /\ board = NewBoard
        /\ status = "runnable"

\* The node reads the run's blackboard and the workspace as it finds it.
Step ==
  /\ status = "runnable" /\ node \in Nodes
  /\ \E w \in Worlds : \E r \in NodeResults(node, board, w) :
       /\ r.err = "none" /\ r.status # NoStatus
       /\ board' = [f \in Fields |-> IF f \in DOMAIN r.patch THEN r.patch[f] ELSE board[f]]
       /\ CASE r.status = "ok"     -> r.next # NoNode /\ node' = r.next /\ status' = "runnable"
            [] r.status = "paused" -> node' = node /\ status' = "paused"
            [] OTHER               -> node' = NoNode /\ status' = r.status

Pause == /\ status = "runnable"
         /\ status' = "paused"
         /\ UNCHANGED <<node, board>>

Resume == /\ status = "paused"
          /\ status' = "runnable"
          /\ UNCHANGED <<node, board>>

Complete == /\ status = "runnable" /\ node = End
            /\ status' = "completed"
            /\ UNCHANGED <<node, board>>

\* A node that broke its contract, or that the run was stopped inside, leaves
\* nothing of its result behind; a node nobody registered cannot be run.
Give_up == /\ status = "runnable"
           /\ status' \in {"failed", "aborted"}
           /\ node' \in {node, NoNode}
           /\ UNCHANGED board

Next == Step \/ Pause \/ Resume \/ Complete \/ Give_up

Spec == Init /\ [][Next]_runVars

=============================================================================
