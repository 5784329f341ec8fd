---------------------------- MODULE MCSeatsPage -----------------------------
(* Small instances of SeatsPage. *)
EXTENDS SeatsPage

CONSTANT za
=============================================================================
