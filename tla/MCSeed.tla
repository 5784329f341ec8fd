-------------------------------- MODULE MCSeed --------------------------------
(* Small instances of Seed for TLC.                                            *)
EXTENDS Seed

CONSTANTS e1, e2, z1, z2
=============================================================================
