\* The database answers: flips arrive everywhere.
CONSTANTS
    p1 = p1
    p2 = p2
    t1 = t1
    t2 = t2
    t3 = t3
    Replica = {p1, p2}
    Thread = {t1, t2, t3}
    Home <- TwoReplicas
    Ttl = 1
    MaxRead = 1
    MaxFlips = 1
    MaxFaults = 1
    NoThread = NoThread
SPECIFICATION FairFlagSpec
INVARIANTS FlagInv AnswersInTime
PROPERTIES NeverGoesBack FlipsArrive
