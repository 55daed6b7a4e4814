SPECIFICATION RunSpec
CONSTANTS
    Contexts = {c1, c2}
    None = none
    MaxRotations = 2
    Quotes = 4
INVARIANTS
    PassMeansClean
    CleanupReachesEveryOrder
    OneSigningContext
    TradeReturnsSettled
    RaisedIsOnRecord
    OrdersOnlyIfAsked
PROPERTIES
    EndsAccountedFor
CHECK_DEADLOCK FALSE
