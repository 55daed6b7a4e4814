SPECIFICATION Spec
CONSTANTS
    a = a
    b = b
    c = c
    f = f
    r = r
    w = w
    m = m
    n = n
    Intents = {a, b}
    Others = {f}
    Readers = {r}
    Sweeps = {}
    Nonces = {m, n}
    Symbol <- Market
    Side <- AllBuy
    Qty <- OneLot
    Mode <- MakersAndTaker
    StartPosition <- Flat
    MaxPosition = 3
    MaxOpenOrders = 3
    MaxSessions = 1
PROPERTIES
    UnreconciledRejected
