SPECIFICATION GuardsSpec
CONSTANTS
    Book = Book  Pay = Pay
    Tables = 3
    Payments = 3
    Api = {Book, Pay}
    Uses <- MCUses
    Attempts = 5
    MaxRuns = 4
    MaxCrashes = 2
INVARIANTS GuardsHold NoIndexLeftOver
CHECK_DEADLOCK FALSE
