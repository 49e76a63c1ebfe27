\* The exit status of a run whose every query fails.
SPECIFICATION Spec
CONSTANTS
    Runs = {r1, r2}
    Items = {i1, i2}
    NoId = NoId
    Plan <- TwoSearches
    Offers <- TwoOffers
    Top = 2
    Modes = {FALSE}
    Overlap = FALSE
INVARIANT
    TotalFailureIsReported
