------------------------------- MODULE MCGate -------------------------------
(***************************************************************************)
(* The gate with no limits in the way but graph.max_steps.                 *)
(***************************************************************************)
EXTENDS Gate

MCConfigs == {[max_usd |-> 0, max_steps |-> 6]}

=============================================================================
