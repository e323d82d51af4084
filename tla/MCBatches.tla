------------------------------ MODULE MCBatches -----------------------------
(* Instances of Batches for TLC. *)
EXTENDS Batches, TLC

Batch(l, e, q) == [loc |-> l, exp |-> e, got |-> q, left |-> q]

(* An expired and a good batch on the floor, and one without a location. *)
MCOpening == (1 :> Batch(NoLoc, Ahead, 1)) @@ (2 :> Batch(Floor, Expired, 1))
               @@ (3 :> Batch(Floor, Ahead, 1))

Symmetry == Permutations(StockRequests)
=============================================================================
