SPECIFICATION Spec
CONSTANTS
    MaxSessions = 3
    MaxTokens = 3
INVARIANTS
    TypeOK
    AcceptedUnderOneSession
    NoEventAcrossSessions
CHECK_DEADLOCK FALSE
