SPECIFICATION Spec
CONSTANTS
    Units <- MCUnits
    Bids <- MCBids
    CostPerMile = 65
    HourlyValue = 2500
    Hours = 30
INVARIANTS
    WalkAwayBidBreaksEven
    WarnedAboveWalkAway
PROPERTY
    HigherBidNeverNetsMore
