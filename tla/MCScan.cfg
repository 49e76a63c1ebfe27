\* Two runs, one after the other, each with or without --include-seen.
SPECIFICATION Spec
CONSTANTS
    Runs = {r1, r2}
    Items = {i1, i2}
    NoId = NoId
    Plan <- TwoSearches
    Offers <- TwoOffers
    Top = 1
    Modes = {TRUE, FALSE}
    Overlap = FALSE
SYMMETRY Symmetry
INVARIANTS
    TypeOK
    CandidatesAreRecorded
    RejectedStayHidden
    EveryQueryCounted
    NewCountsAddUp
PROPERTIES
    NothingSurfacesTwice
    KeepsDigestPromise
