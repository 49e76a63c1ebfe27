\* Whether what a run leaves out as known has been shown.
SPECIFICATION Spec
CONSTANTS
    Runs = {r1, r2}
    Items = {i1, i2}
    NoId = NoId
    Plan <- OneSearch
    Offers <- TwoOffers
    Top = 2
    Modes = {FALSE}
    Overlap = FALSE
PROPERTY
    LeftOutWereShown
