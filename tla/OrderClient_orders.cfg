SPECIFICATION Spec
CONSTANTS
    a = a
    b = b
    c = c
    f = f
    r = r
    w = w
    m = m
    n = n
    Intents = {a, b, c}
    Others = {f}
    Readers = {r}
    Sweeps = {w}
    Nonces = {m, n}
    Symbol <- Market
    Side <- AllBuy
    Qty <- OneOrTwo
    Mode <- MakersAndTaker
    StartPosition <- Flat
    MaxPosition = 2
    MaxOpenOrders = 2
    MaxSessions = 1
SYMMETRY
    AnyNonce
CONSTRAINT
    TwoInPlay
INVARIANTS
    TypeOK
    NoForgottenOrder
    OneActiveMarket
PROPERTIES
    RoomForEveryRestingOrder
    NoOverlapWithCancelled
