------------------------------ MODULE MCFlags ------------------------------
(* Small instances of FlagCache for TLC.                                   *)
EXTENDS FlagCache, TLC

CONSTANTS p1, p2, t1, t2, t3

\* Two threads of one replica, and one of another.
TwoReplicas == [t \in {t1, t2, t3} |-> IF t = t3 THEN p2 ELSE p1]
=============================================================================
