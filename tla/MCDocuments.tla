----------------------------- MODULE MCDocuments ----------------------------
(* Instances of Documents for TLC. *)
EXTENDS Documents, TLC

(* Requests are interchangeable, and so are products: safety only. *)
Symmetry == Permutations(Requests) \cup Permutations(Products)
=============================================================================
