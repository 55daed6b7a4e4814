SPECIFICATION Spec
CONSTANTS
    Ticks = 3
    MaxLots = 1
    Depth = 1
    MaxAge = 1
    MaxTime = 2
    MaxId = 3
INVARIANTS
    TypeOK
    HeldLevelsAreTrue
    TopIsVenueTop
    MissingChangesAreRecent
