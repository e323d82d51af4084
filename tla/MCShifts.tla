------------------------------ MODULE MCShifts ------------------------------
(* Shifts for TLC: requests, shifts and cashiers are interchangeable. *)
EXTENDS Shifts, TLC

Symmetry == Permutations(Requests) \cup Permutations(Shifts) \cup Permutations(Cashiers)
=============================================================================
