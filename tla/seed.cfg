\* Two runs that may die, without and with orders of the API; e2 is not on sale yet.
CONSTANTS
    e1 = e1
    e2 = e2
    z1 = z1
    z2 = z2
    Event = {e1, e2}
    OnSale = {e1}
    ZoneName = {z1, z2}
    Capacity = 2
    RowLength = 2
    UserCounts = {2, 3}
    Orders = 2
    MaxTickets = 2
    MaxRuns = 2
SPECIFICATION SeedSpec
INVARIANTS SeedMatches NothingLeftOver NeverFails AllOrNothing
CHECK_DEADLOCK FALSE
