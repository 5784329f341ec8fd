\* Two connections; orders over the same seats, with one key or with the empty key, payments of one
\* order, and calls that ask for the flags.
CONSTANTS
    W1 = W1
    W2 = W2
    R1 = R1
    R2 = R2
    R3 = R3
    E1 = E1
    E2 = E2
    P1 = P1
    P2 = P2
    U1 = U1
    U2 = U2
    G1 = G1
    K1 = K1
    K2 = K2
    Writer = {W1, W2, R1, R2, R3, E1, E2, P1, P2}
    Register = {U1, U2}
    Reader = {G1}
    Conn = {K1, K2}
    Entries = 5
    Kind <- MCKind
    Asked <- MCAsked
    Setting <- MCSetting
    Nobody = Nobody
SPECIFICATION FairWaitsSpec
INVARIANTS NoDeadlock 
PROPERTIES TransactionIsAtomic EveryCallEnds
CHECK_DEADLOCK FALSE
