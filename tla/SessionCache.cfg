SPECIFICATION Spec
CONSTANTS
    Owners = {o1, o2}
    Lifetime = 2
    Window = 1
    MaxTime = 3
    MaxTokens = 3
INVARIANTS
    TypeOK
    CacheIsNewestOrRenewed
    NoSupersededSession
