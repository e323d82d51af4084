----------------------------- MODULE MCApprovals ----------------------------
(* Instances of Approvals for TLC. *)
EXTENDS Approvals, TLC

(* Calls, actions and purposes are interchangeable: safety only. *)
Symmetry == Permutations(Asks) \cup Permutations(Actions) \cup Permutations(Purposes)
=============================================================================
