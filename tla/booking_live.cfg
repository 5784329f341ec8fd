\* Liveness, one fault allowed, a lost COMMIT answer included.
CONSTANTS
    Request = {r1, r2}
    Payer = {p1}
    Sweeper = {s1}
    Zone <- MCZone
    Capacity <- MCCapacity
    Prebooked <- MCPrebooked
    Line <- MCLine
    ZoneOf <- MCZoneOf
    SeatOf <- MCSeatOf
    Payload <- MCFewPayload
    KnownUser <- MCKnownUser
    Batch = 2
    MaxFaults = 1
    LostAck = TRUE
SPECIFICATION FairSpec
INVARIANTS CounterInRange
PROPERTIES RequestsEnd SeatsComeBack
