SPECIFICATION FairSpec
CONSTANTS
    MaxEvents = 3
    MaxReconnects = 1
    MaxIterators = 2
    MaxSequence = 3
INVARIANTS
    TypeOK
    LossIsFlagged
    StoppedStreamBlocks
PROPERTIES
    IteratorEnds
