------------------------------ MODULE MCQueue ------------------------------
(***************************************************************************)
(* Two starts of the queue at once, one terminal beside them.              *)
(***************************************************************************)
EXTENDS Queue, TLC

SameWorkers == Permutations(Workers)

=============================================================================
