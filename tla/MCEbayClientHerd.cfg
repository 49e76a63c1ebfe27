\* Three searches whose shared token eBay refuses.
SPECIFICATION TimedSpec
CONSTANTS
    Calls = {c1, c2, c3}
    Leeway = 2
    MaxLatency = 1
    Lifetimes = {5}
    DefaultLife = 5
    MaxTime = 2
SYMMETRY CallSymmetry
PROPERTY
    ConcurrentCallsShareHandshake
