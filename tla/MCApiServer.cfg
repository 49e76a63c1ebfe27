\* Three searches and a health check on two threads.
SPECIFICATION FairSpec
CONSTANTS
    Searches = {s1, s2, s3}
    Probes = {h1}
    NoClient = NoClient
    Threads = 2
INVARIANTS
    TypeOK
    BlameIsRight
    OneClientAfterColdStart
    HealthTellsTheTruth
    NobodyIsStuck
PROPERTIES
    EveryRequestAnswered
