\* One terminal logs sales at half and at 1.2 times their prediction.
SPECIFICATION Spec
CONSTANTS
    Terminals = {t1}
    Predictions <- MedianPredictions
    Prices <- MedianPrices
    Fees <- NoFees
    MaxBuys = 2
    Coefficients = 100
    LastPlaces <- MedianLastPlaces
    Quanta = 100
INVARIANTS
    AdviceIsOnTheMedian
