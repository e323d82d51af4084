---------------------------- MODULE MCSaleReturns ---------------------------
(* Instances of SaleReturns for TLC. *)
EXTENDS SaleReturns, TLC

(* One line sold once, one sold twice. *)
MCLines == {1, 2}
MCQuantity == [l \in MCLines |-> l]

(* Requests are interchangeable: used with safety only. *)
RequestSymmetry == Permutations(Requests)
=============================================================================
