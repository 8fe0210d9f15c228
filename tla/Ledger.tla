------------------------------- MODULE Ledger -------------------------------
(***************************************************************************)
(* A run's spend (internal/budget): what the dispatcher charges, and       *)
(* measures against the ceiling.                                           *)
(*                                                                         *)
(* Go counts dollars and two kinds of tokens, each on its own and by the   *)
(* same rules.  One dimension is kept here, in whole units, as the code    *)
(* keeps micro-dollars.  The sticky "estimated" flag is left out.          *)
(***************************************************************************)
EXTENDS Journal

larger(a, b) == IF a >= b THEN a ELSE b

(***************************************************************************)
(* A ledger: the total, the part of it each node has recorded, and the     *)
(* most one node execution has recorded.                                   *)
(***************************************************************************)
Ledgers == [total: Nat, of: [Names -> Nat], largest: Nat]

NewLedger == [total |-> 0, of |-> [n \in Names |-> 0], largest |-> 0]

\* A sum is other runs' spend: no evidence of what one step costs.
RecordSum(l, n, u) == [l EXCEPT !.total = @ + u, !.of[n] = @ + u]

RecordUsage(l, n, u) == [RecordSum(l, n, u) EXCEPT !.largest = larger(@, u)]

\* How much of a cumulative report no earlier record of n covers.
Unrecorded(l, n, cumulative) ==
  IF cumulative > l.of[n] THEN cumulative - l.of[n] ELSE 0

\* The ledger as it would be had n recorded nothing; largest is kept.
Without(l, n) == [l EXCEPT !.total = @ - l.of[n], !.of[n] = 0]

\* A node in sums reports what its candidate runs have spent.
ChargeTo(l, n, u, sums) ==
  IF n \in sums THEN RecordSum(l, n, u) ELSE RecordUsage(l, n, u)

(***************************************************************************)
(* Rebuild: the usage of every node_finished, with the manifest's figure   *)
(* as the floor beneath the total.                                         *)
(***************************************************************************)
Replayed(j, sums) ==
  LET upTo[k \in 0 .. Len(j)] ==
        IF k = 0 THEN NewLedger
        ELSE IF j[k].event # "node_finished" THEN upTo[k - 1]
        ELSE ChargeTo(upTo[k - 1], j[k].node, j[k].usage, sums)
  IN  upTo[Len(j)]

\* Slip: the manifest's figure is taken for the run's spend.
RebuildFromManifest(j, floor, sums) == [NewLedger EXCEPT !.total = floor]

Rebuild(j, floor, sums) == [Replayed(j, sums) EXCEPT !.total = larger(@, floor)]

\* A ceiling of zero is no ceiling.
OverCeiling(l, limit) == limit > 0 /\ l.total > limit

=============================================================================
