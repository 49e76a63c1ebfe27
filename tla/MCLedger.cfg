\* Two terminals over a ledger of up to three buys, in decimals of one digit.
SPECIFICATION Spec
CONSTANTS
    Terminals = {t1, t2}
    Predictions <- MCPredictions
    Prices <- MCPrices
    Fees <- MCFees
    MaxBuys = 3
    Coefficients = 10
    LastPlaces <- MCLastPlaces
    Quanta = 10
SYMMETRY Symmetry
INVARIANTS
    TypeOK
    NumbersGetAReport
    BadSaleCanBeCorrected
    CountedSalesStay
PROPERTIES
    NothingIsForgotten
