\* Forward and back through the phases, while two replicas take writes and the
\* backfill works through the rows.
CONSTANTS
    p1 = p1
    p2 = p2
    w1 = w1
    w2 = w2
    Null = Null
    NoRow = NoRow
    Job = Job
    Nobody = Nobody
    Replica = {p1, p2}
    Request = {w1, w2}
    Home <- Homes
    User = {1, 2}
    OldName <- OneOld
    Course <- Ways
    BatchSize = 1
    MaxSweeps = 2
    RefillBatch = 2
    MaxWrites = 2
    MaxStops = 1
SPECIFICATION FairNamesSpec
INVARIANTS NamesTypeOK ShownIsSaved BodiesSound NoneDisagree NoRequestFails NobodyNameless
CHECK_DEADLOCK FALSE
PROPERTIES EveryRowMigrated
