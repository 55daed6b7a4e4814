SPECIFICATION Spec
CONSTANTS
    Limit = 5
    Lease = 2
    Scale = 20
    Ticks <- SomeTicks
    HalfSpread = 3
    Quantity = 2
    MaxPosition = 5
    MaxNotional = 20
    MinPrice = 2
    MinNotional = 6
    MaxPrice = 14
    MaxAge = 1
    Positions <- SomePositions
    Bands <- SomeBands
    BandBps = {2, 8}
    Indexes <- SomeIndexes
    WorstPrices <- SomeWorstPrices
INVARIANTS
    SignedBitsMatchRequest
    WordsAreCanonical
    CheckedClocksFit
    BoundUnderEitherFill
    QuotesStayOutside
    PriceIsAcceptable
    PriceIsBest
    NothingUnpermittedLeaves
    TransportServesClient
CHECK_DEADLOCK FALSE
