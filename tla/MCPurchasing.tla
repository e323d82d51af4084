---------------------------- MODULE MCPurchasing ----------------------------
(* Instances of Purchasing for TLC. *)
EXTENDS Purchasing, TLC

(* Requests, orders and products are interchangeable: safety only. *)
Symmetry == Permutations(Requests) \cup Permutations(Orders) \cup Permutations(Products)
=============================================================================
