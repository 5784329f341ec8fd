SPECIFICATION PageSpec
CONSTANTS
    za = za
    Zone = {za}
    Seats = 2
    MaxTickets = 2
    MaxCalls = 1
    MaxLoads = 0
INVARIANTS RefusedIsGreyed
CHECK_DEADLOCK FALSE
