------------------------------ MODULE MCOutbox ------------------------------
(* Small instances of OutboxWorker for TLC: a zone of one seat.            *)
EXTENDS OutboxWorker, TLC

MCZone == {1}
MCCapacity == <<1>>
MCPrebooked == <<0>>
MCLine == {"g1"}
MCZoneOf == [l \in MCLine |-> 1]
MCSeatOf == [l \in MCLine |-> NoSeat]
MCPayload == {[user |-> "ann", key |-> NullKey, lines |-> {"g1"}]}
MCKnownUser == {"ann"}

=============================================================================
