SPECIFICATION PageSpec
CONSTANTS
    za = za
    Zone = {za}
    Seats = 2
    MaxTickets = 2
    MaxCalls = 2
    MaxLoads = 2
PROPERTIES ShownWasPicked RetryFindsItsOrder
CHECK_DEADLOCK FALSE
