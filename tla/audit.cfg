\* The audit beside running orders, a payment and a worker, or a repair while all are
\* stopped; two faults before, during or after it.
CONSTANTS
    Request = {r1, r2}
    Payer = {p1}
    Sweeper = {s1}
    Zone <- MCZone
    Capacity <- MCCapacity
    Prebooked <- MCPrebooked
    Line <- MCLine
    ZoneOf <- MCZoneOf
    SeatOf <- MCSeatOf
    Payload <- MCPayload
    KnownUser <- MCKnownUser
    Batch = 1
    MaxFaults = 2
    LostAck = FALSE
    Retries = 1
    Conduct <- MCConduct
SPECIFICATION AuditSpec
INVARIANTS NoFalseAlarm RepairLasts
SYMMETRY Actors
