------------------------------- MODULE StorageUnit -----------------------------
(***************************************************************************)
(* evaluate_storage_unit of app/services/storage_auctions.py, asked about  *)
(* one unit at one bid after another, as a bidder does.                    *)
(*                                                                         *)
(* Money is in cents, rates and fractions in hundredths, miles and hours   *)
(* in tenths.  Of the warnings, the one on the outcome and the one on the  *)
(* clear-out are kept.                                                     *)
(***************************************************************************)
EXTENDS Integers, Rounding

CONSTANTS
    Units,        \* units to be auctioned
    Bids,         \* bids asked about
    CostPerMile,
    HourlyValue,
    Hours         \* available_hours_before_deadline, -1 when not given

Unit == [premiumRate : 0..100, taxRate : 0..100, deposit : Nat, contents : Nat,
         sellable : 1..100, miles : Nat, loads : 1..20, disposal : Nat, labor : Nat]

ASSUME UnitsAssumption ==
    /\ Units \subseteq Unit
    /\ \A u \in Units : u.premiumRate + u.taxRate <= 100
    /\ Bids \subseteq Nat
    /\ CostPerMile \in Nat /\ HourlyValue \in Nat /\ Hours \in Nat \cup {-1}

VARIABLES
    unit,         \* the unit considered
    estimate      \* the last StorageUnitEstimate, NoEstimate at first

vars == <<unit, estimate>>

-----------------------------------------------------------------------------
Premium(u, bid) == HalfUp(bid * u.premiumRate, 100)

TaxOnHammerOnlyMutant(u, bid) == HalfUp(bid * u.taxRate, 100)

\* Tax is on the bid and the premium.
Tax(u, bid) == HalfUp((bid + Premium(u, bid)) * u.taxRate, 100)

Labor(u) == HalfUp(u.labor * HourlyValue, 10)

Fixed(u) == HalfUp(u.miles * u.loads * CostPerMile, 10) + u.disposal + Labor(u)

TotalCostOfExtrasMutant(u, bid) == Premium(u, bid) + Tax(u, bid) + Fixed(u)

TotalCost(u, bid) == bid + Premium(u, bid) + Tax(u, bid) + Fixed(u)

Revenue(u) == HalfUp(u.contents * u.sellable, 100)

MaxBidUntaxedMutant(u) ==
    IF Revenue(u) <= Fixed(u) THEN 0
    ELSE HalfUp((Revenue(u) - Fixed(u)) * 100, 100 + u.premiumRate)

\* The bid at which net profit is zero: revenue less fixed costs, over the factor by
\* which premium and tax raise the bid.
MaxBid(u) ==
    IF Revenue(u) <= Fixed(u) THEN 0
    ELSE HalfUp((Revenue(u) - Fixed(u)) * 10000, (100 + u.premiumRate) * (100 + u.taxRate))

Verdict(net, bid, maxBid) ==
    CASE maxBid <= 0                          -> "unprofitable at any bid"
      [] maxBid > 0 /\ net < 0                -> "net loss"
      [] maxBid > 0 /\ net >= 0 /\ bid > maxBid -> "exceeds break-even"
      [] OTHER                                -> "none"

EvaluateStorageUnit(u, bid) ==
    LET net == Revenue(u) - TotalCost(u, bid)
    IN  [bid       |-> bid,
         netProfit |-> net,
         maxBid    |-> MaxBid(u),
         capital   |-> TotalCost(u, bid) + u.deposit,
         feasible  |-> Hours = -1 \/ u.labor <= Hours,
         verdict   |-> Verdict(net, bid, MaxBid(u))]

NoEstimate == [bid |-> 0, netProfit |-> 0, maxBid |-> 0, capital |-> 0,
               feasible |-> TRUE, verdict |-> "not asked"]

Init == unit \in Units /\ estimate = NoEstimate

Evaluate ==
    /\ \E bid \in Bids : estimate' = EvaluateStorageUnit(unit, bid)
    /\ UNCHANGED unit

Next == Evaluate

Spec == Init /\ [][Next]_vars

-----------------------------------------------------------------------------
(* Properties.                                                             *)

Asked == estimate.verdict # "not asked"

\* "Bidding exactly the walk-away figure must land at ~zero profit", within the
\* nickel its test allows, for every unit that has one.
WalkAwayBidBreaksEven ==
    Asked /\ estimate.maxBid > 0 =>
        LET net == EvaluateStorageUnit(unit, estimate.maxBid).netProfit
        IN  -5 <= net /\ net <= 5

\* "Bidding above the walk-away figure loses money": no bid more than a nickel above
\* it escapes a warning, and none a nickel below it is warned about.
WarnedAboveWalkAway ==
    Asked =>
        /\ estimate.bid > estimate.maxBid + 5 => estimate.netProfit < 0 /\ estimate.verdict # "none"
        /\ estimate.bid + 5 < estimate.maxBid => estimate.netProfit > 0 /\ estimate.verdict = "none"

\* A higher bid never nets more nor needs less cash, rounding of premium and tax
\* included.
HigherBidNeverNetsMore ==
    [][Asked /\ estimate'.bid > estimate.bid
         => /\ estimate'.netProfit < estimate.netProfit
            /\ estimate'.capital > estimate.capital]_vars

=============================================================================
