SPECIFICATION Spec
CONSTANTS
    MaxEvents = 2
    MaxReconnects = 0
    MaxIterators = 1
    MaxSequence = 2
INVARIANTS
    NoSendWhileBlocked
