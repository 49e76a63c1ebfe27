------------------------------- MODULE MCLedger --------------------------------
EXTENDS Ledger, TLC

\* No prediction, one of nothing, one of 2, and one that is no amount.
MCPredictions == {Null, Finite(0), Finite(2), NaN}

\* A price, one whose quotient by 2 has too many digits, and two that are no numbers.
MCPrices == {Finite(3), Finite(200), Infinity, NaN}

MCFees == {Null, Finite(1)}

\* Numbers of one digit, from 0.1 to 90.
MCLastPlaces == {1, 10, 100}

\* Numbers of two digits, from 0.01 to 99: the ratios 0.5 and 1.2 are exact.
MedianLastPlaces == {1, 10, 100}

MedianPredictions == {Finite(10)}

MedianPrices == {Finite(5), Finite(12)}

NoFees == {Null}

Symmetry == Permutations(Terminals)
=============================================================================
