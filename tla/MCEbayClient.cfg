\* Two searches under fairness, with lifetimes below and above the leeway; one unit of
\* time is 30 s, and a search may take six of them.
SPECIFICATION TimedFairSpec
CONSTANTS
    Calls = {c1, c2}
    Leeway = 2
    MaxLatency = 1
    Lifetimes = {1, 4}
    DefaultLife = 4
    MaxTime = 1
INVARIANTS
    TypeOK
    RetryUsesNewerToken
    InFlightTokenAlive
    LockHeldForHandshake
    EverySearchEndsInTime
PROPERTIES
    UsableTokenIsKept
    CacheNeverGoesBack
    KeepsServicePromise
    EverySearchEnds
