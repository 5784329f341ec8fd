----------------------------- MODULE MCBooking -----------------------------
(* Small instances of Booking for TLC.                                     *)
EXTENDS BookingRefinement, TLC

MCZone == {1, 2}
MCCapacity == <<2, 1>>
MCPrebooked == <<0, 0>>

\* a1 and a1x spell the same numbered seat of zone 1, g1 is a general ticket of
\* zone 1, g2 one of zone 2, and nowhere is a zone the event does not have.
MCLine == {"a1", "a1x", "g1", "g2", "nowhere"}
MCZoneOf == [l \in MCLine |-> CASE l \in {"a1", "a1x", "g1"} -> 1 [] l = "g2" -> 2 [] OTHER -> NoZone]
MCSeatOf == [l \in MCLine |-> IF l \in {"a1", "a1x"} THEN 1 ELSE NoSeat]

Ask(u, k, L) == [user |-> u, key |-> k, lines |-> L]

\* Keyed retries of one purchase in two spellings, another purchase under the
\* same key, an unknown user, an invalid zone and anonymous competitors.
MCPayload ==
    {Ask("ann", "k", {"a1", "g2"}), Ask("ann", "k", {"a1x", "g2"}), Ask("ann", "k", {"g1"}),
     Ask("ghost", "k", {"g1"}), Ask("bob", NullKey, {"a1x", "g1", "g2"}),
     Ask("bob", NullKey, {"a1"}), Ask("bob", NullKey, {"nowhere"}),
     Ask("bob", EmptyKey, {"g2"})}

\* Enough for liveness: two spellings of one keyed purchase and a competitor for
\* all of zone 1.
MCFewPayload ==
    {Ask("ann", "k", {"a1", "g2"}), Ask("ann", "k", {"a1x", "g2"}), Ask("bob", NullKey, {"a1x", "g1"})}

\* Each request wants the whole of zone 1 and no numbered seat of the other's.
MCTightPayload == {Ask("ann", NullKey, {"a1", "g1"}), Ask("bob", NullKey, {"g1"})}

MCKnownUser == {"ann", "bob"}

Actors == Permutations(Request) \cup Permutations(Payer) \cup Permutations(Sweeper)
=============================================================================
