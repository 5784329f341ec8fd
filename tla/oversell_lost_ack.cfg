\* A lost COMMIT answer sells a zone beyond its capacity.
CONSTANTS
    Request = {r1, r2}
    Payer = {}
    Sweeper = {s1}
    Zone <- MCZone
    Capacity <- MCCapacity
    Prebooked <- MCPrebooked
    Line <- MCLine
    ZoneOf <- MCZoneOf
    SeatOf <- MCSeatOf
    Payload <- MCTightPayload
    KnownUser <- MCKnownUser
    Batch = 2
    MaxFaults = 1
    LostAck = TRUE
SPECIFICATION Spec
SYMMETRY Actors
INVARIANTS NoOversell
