SPECIFICATION FairSpec
CONSTANTS
    a = a
    b = b
    c = c
    f = f
    r = r
    w = w
    m = m
    n = n
    Intents = {a, b}
    Others = {}
    Readers = {r}
    Sweeps = {w}
    Nonces = {m, n}
    Symbol <- Market
    Side <- AllBuy
    Qty <- OneOrTwo
    Mode <- MakersAndTaker
    StartPosition <- Flat
    MaxPosition = 2
    MaxOpenOrders = 1
    MaxSessions = 1
CONSTRAINTS
    InTurn
    TwoInPlay
INVARIANTS
    OpenOrderLimit
PROPERTIES
    ImplementsLedger
    EndedOrdersResolve
