\* Requests, payments and workers race over one catalog; two crashes or failed calls.
CONSTANTS
    Request = {r1, r2}
    Payer = {p1, p2}
    Sweeper = {s1, s2}
    Zone <- MCZone
    Capacity <- MCCapacity
    Prebooked <- MCPrebooked
    Line <- MCLine
    ZoneOf <- MCZoneOf
    SeatOf <- MCSeatOf
    Payload <- MCPayload
    KnownUser <- MCKnownUser
    Batch = 1
    MaxFaults = 2
    LostAck = FALSE
SPECIFICATION Spec
SYMMETRY Actors
INVARIANTS Inv NoOversell NoLostSeat SeatSoldOnce LedgerAgrees AnswerIsStoredOrder ErrorSavesNothing
PROPERTIES ResolvedOrdersStay ImplementsSale
