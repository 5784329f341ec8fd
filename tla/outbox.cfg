\* Two replicas, one order, two faults.
CONSTANTS
    Request = {r1}
    Payer = {p1}
    Sweeper = {s1, s2}
    Zone <- MCZone
    Capacity <- MCCapacity
    Prebooked <- MCPrebooked
    Line <- MCLine
    ZoneOf <- MCZoneOf
    SeatOf <- MCSeatOf
    Payload <- MCPayload
    KnownUser <- MCKnownUser
    Batch = 1
    MaxFaults = 2
    LostAck = FALSE
    MarkBatch = 2
    PurgeBatch = 1
SPECIFICATION FairWorkerSpec
INVARIANTS HandledOnce
PROPERTIES EventsHandled HoldsEnd
