--------------------------- MODULE MCReservations --------------------------
(* Reservations for TLC, without symmetry because of OverdueIsSwept. *)
EXTENDS Reservations
=============================================================================
