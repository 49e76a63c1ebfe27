\* A request timeout the settings allow (up to 300 s) but the leeway does not
\* cover; one unit of time is 60 s, the timeout is 180 s.
SPECIFICATION TimedSpec
CONSTANTS
    Calls = {c1, c2}
    Leeway = 1
    MaxLatency = 3
    Lifetimes = {5}
    DefaultLife = 5
    MaxTime = 6
SYMMETRY CallSymmetry
INVARIANT
    InFlightTokenAlive
