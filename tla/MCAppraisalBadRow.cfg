SPECIFICATION Spec
CONSTANTS
    Pages <- MCPages
    Points <- MCPoints
    Routes <- MCRoutes
    Searches <- MCSearches
    Bases <- MCBases
    ServiceAreas <- MCServiceAreas
    Search <- RepairSearch
    Helpers <- MCHelpers
    OneWayLimit = 1312
    Economics <- MCEconomics
    FeeRate = 1325
CHECK_DEADLOCK FALSE
INVARIANT BadRowCostsOnlyItself
