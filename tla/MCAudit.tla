------------------------------ MODULE MCAudit ------------------------------
(* Small instances of Audit for TLC.                                       *)
EXTENDS Audit, TLC

\* A zone of two seats, a numbered one and general ones, and one of a single seat.
MCZone == {1, 2}
MCCapacity == <<2, 1>>
MCPrebooked == <<0, 0>>
MCLine == {"a1", "g1", "g2"}
MCZoneOf == [l \in MCLine |-> IF l = "g2" THEN 2 ELSE 1]
MCSeatOf == [l \in MCLine |-> IF l = "a1" THEN 1 ELSE NoSeat]

Ask(L) == [user |-> "ann", key |-> NullKey, lines |-> L]
MCPayload == {Ask({"a1"}), Ask({"a1", "g1"}), Ask({"g1", "g2"})}
MCKnownUser == {"ann"}

\* The audit only reads while everything runs, or repairs while nothing does.
Look == [repair |-> FALSE, stopTraffic |-> FALSE, stopWorkers |-> FALSE]
RepairStopped == [repair |-> TRUE, stopTraffic |-> TRUE, stopWorkers |-> TRUE]
MCConduct == {Look, RepairStopped}

Actors == Permutations(Request) \cup Permutations(Sweeper)
=============================================================================
