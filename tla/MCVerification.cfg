\* Two threads that make two calls each, a cache that holds one item.
SPECIFICATION Spec
CONSTANTS
    Thread = {t1, t2}
    PrefersWriters = FALSE
    Item <- MCItem
    Valid <- MCValid
    Parsed <- MCParsed
    Call <- MCCall
    Capacity = 1
    MaxCalls = 2
    NoCall = NoCall
    NoAnswer = NoAnswer
INVARIANT
    LocksFollowCalls
    OnlyVerified
PROPERTIES
    ImplementsVerifier
    EveryCallEnds
CHECK_DEADLOCK FALSE
