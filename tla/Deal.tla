---------------------------------- MODULE Deal ---------------------------------
(***************************************************************************)
(* What a listing is worth: locate, classify_pickup and score_candidate of *)
(* app/services/scanner.py, with estimate_profit of                        *)
(* app/services/profitability.py.                                          *)
(*                                                                         *)
(* Money is in cents, miles in hundredths, rates in ten-thousandths, a     *)
(* multiple and a score in ten-thousandths; every quantize of the code is  *)
(* a rounding here.  An amount of a listing has at most two decimals, or   *)
(* more digits than ProfitAssumptions takes (max_digits, decimal_places):  *)
(* those of three or four decimals are left out.                           *)
(*                                                                         *)
(* A place is what geo.py computes from its coordinates: the miles to the  *)
(* nearest base (-1: no base), the detour from each route of the search    *)
(* with what the route tolerates, the nearest helper who could collect (0: *)
(* none) and whether some service area contains it.                        *)
(***************************************************************************)
EXTENDS Integers, Sequences, SequencesExt, Rounding, Watchlist

CONSTANTS
    Search,       \* what the searches have in common: resale (-1: not set), minMultiple, repairable,
                  \* diagnosisFee, repairCost, successRate
    Bases,        \* [at], in order
    Helpers,      \* [name, at, maxDetour, favor], in order
    ServiceAreas, \* [at, radius], in order
    OneWayLimit,  \* availability.max_one_way_miles()
    Economics,    \* TripEconomics: mpg, fuelPrice, hourly, mph
    FeeRate       \* marketplace_fee_rate + payment_fee_rate

Unity == 10000

Rate == 0..Unity

ASSUME SearchAssumption ==
    /\ Search.resale \in {-1} \cup (Nat \ {0})
    /\ Search.minMultiple \in Nat \ {0}
    /\ Search.repairable \in BOOLEAN
    /\ Search.diagnosisFee \in Nat
    /\ Search.repairCost \in Nat
    /\ Search.successRate \in Rate \ {0}

ASSUME PlacesAssumption ==
    /\ Bases \in Seq([at : Point])
    /\ Helpers \in Seq([name : STRING, at : Point, maxDetour : UpToMiles(200), favor : Nat])
    /\ ServiceAreas \in Seq([at : Point, radius : UpToMiles(1000)])
    /\ OneWayLimit \in Nat

ASSUME EconomicsAssumption ==
    /\ Economics.mpg \in Nat \ {0}
    /\ Economics.fuelPrice \in Nat
    /\ Economics.hourly \in Nat
    /\ Economics.mph \in Nat \ {0}
    /\ FeeRate \in Rate

-----------------------------------------------------------------------------
(* Where it is.                                                            *)

NoMiles == -1

Nowhere == [base |-> NoMiles, detours |-> <<>>, limits |-> <<>>,
            helper |-> 0, territory |-> FALSE]

\* A point, for a search scoped to these routes.
PlaceAt(p, routes) ==
    LET base == NearestBase(p, Bases)
        Stops(route) == [i \in DOMAIN route.stops |-> route.stops[i].at]
    IN  [base      |-> IF base = 0 THEN NoMiles ELSE Miles(p, Bases[base].at),
         detours   |-> [i \in DOMAIN routes |-> DetourMiles(p, Stops(routes[i]))],
         limits    |-> [i \in DOMAIN routes |-> routes[i].limit],
         helper    |-> NearestHelper(p, Helpers),
         territory |-> \E a \in ToSet(ServiceAreas) : Covers(a, p)]

\* locate: the route of the smallest detour, the first of those equally near.
NearestRoute(place) ==
    LET Least(d) == \A i \in DOMAIN place.detours : d <= place.detours[i]
    IN  SelectInSeq(place.detours, Least)

Detour(place) ==
    IF NearestRoute(place) = 0 THEN NoMiles ELSE place.detours[NearestRoute(place)]

OnRoute(place) ==
    NearestRoute(place) # 0 /\ Detour(place) <= place.limits[NearestRoute(place)]

\* classify_pickup: quick, helper, on_route, in_territory, special_trip.
Tier(place) ==
    CASE place.base # NoMiles /\ place.base <= OneWayLimit -> "quick"
      [] ~(place.base # NoMiles /\ place.base <= OneWayLimit) /\ place.helper # 0 -> "helper"
      [] OTHER -> IF OnRoute(place) THEN "on_route"
                  ELSE IF place.territory THEN "in_territory" ELSE "special_trip"

\* The helper is passed on by name, and the first of that name is charged.
FavorCost(place) ==
    LET SameName(h) == h.name = Helpers[place.helper].name
    IN  Helpers[SelectInSeq(Helpers, SameName)].favor

\* Miles the listing is charged for, one way: from the base, rounded to tenths,
\* for a quick pickup, and from the route otherwise, none when that is unknown.
OneWay(place) ==
    CASE Tier(place) = "quick" -> 10 * HalfEven(place.base, 10)
      [] Tier(place) # "quick" /\ Detour(place) # NoMiles -> Detour(place)
      [] OTHER -> 0

\* A favor, or fuel both ways, and time too unless the trip is made anyway.
DriveCost(place) ==
    LET e == Economics
        fuel == e.fuelPrice * e.mph
        time == IF OnRoute(place) \/ Tier(place) \in {"quick", "in_territory"}
                THEN 0 ELSE e.hourly * e.mpg
    IN  IF Tier(place) = "helper" THEN FavorCost(place)
        ELSE HalfEven(2 * OneWay(place) * (fuel + time), 100 * e.mpg * e.mph)

-----------------------------------------------------------------------------
(* What it earns.                                                          *)

EffectiveResale ==
    IF Search.repairable THEN HalfEven(Search.resale * Search.successRate, 10000)
    ELSE Search.resale

RepairCostOfSavedMutant ==
    IF Search.repairable
    THEN HalfEven((Search.diagnosisFee + Search.repairCost) * Search.successRate, 10000)
    ELSE 0

\* The bench fee is paid on every unit, the repair on those that come back.
RepairCost ==
    IF Search.repairable
    THEN HalfEven(10000 * Search.diagnosisFee + Search.repairCost * Search.successRate, 10000)
    ELSE 0

\* estimate_profit, of amounts in whole cents.
EstimateProfit(resale, purchase, shipping, fuel, repair) ==
    LET fees  == HalfUp(resale * FeeRate, 10000)
        other == shipping + fuel + repair
    IN  [netProfit     |-> resale - purchase - fees - other,
         fees          |-> fees,
         otherCosts    |-> other,
         grossMultiple |-> HalfUp(10000 * resale, purchase),
         grossRoi      |-> HalfUp(10000 * (resale - purchase), purchase),
         qualifies     |-> resale >= 5 * purchase]

\* ProfitAssumptions raises a ValidationError for what no price or shipping cost has the
\* digits of.  It is built for listings that have a price only.
Refused(price, shipping) ==
    /\ price.known /\ price.val > 0 /\ Search.resale # -1
    /\ price.class # "finite" \/ (shipping.known /\ shipping.class # "finite")

NoEstimate == [netProfit |-> 0, fees |-> 0, otherCosts |-> 0,
               grossMultiple |-> 0, grossRoi |-> 0, qualifies |-> FALSE]

ScoreCandidateMultipleCapMutant(price, shipping, place) ==
    LET drive    == DriveCost(place)
        estimate == EstimateProfit(EffectiveResale, price.val, shipping.val, drive, RepairCost)
        miles    == 2 * OneWay(place)
    IN  IF ~price.known \/ price.val <= 0 \/ Search.resale = -1
        THEN [estimate |-> NoEstimate, score |-> 0, drive |-> 0]
        ELSE [estimate |-> estimate, drive |-> drive,
              score |-> IF estimate.grossMultiple > Search.minMultiple THEN 0
                        ELSE HalfEven(10000 * estimate.netProfit, IF miles > 100 THEN miles ELSE 100)]

\* score_candidate: 0 without a price, an assumed resale price or the multiple asked
\* for, and net profit per mile of the round trip otherwise.  An unknown shipping
\* cost is charged as none.  What it returns unless the amounts are Refused.
ScoreCandidate(price, shipping, place) ==
    LET drive    == DriveCost(place)
        estimate == EstimateProfit(EffectiveResale, price.val, shipping.val, drive, RepairCost)
        miles    == 2 * OneWay(place)
    IN  IF ~price.known \/ price.val <= 0 \/ Search.resale = -1
        THEN [estimate |-> NoEstimate, score |-> 0, drive |-> 0]
        ELSE [estimate |-> estimate, drive |-> drive,
              score |-> IF estimate.grossMultiple < Search.minMultiple THEN 0
                        ELSE HalfEven(10000 * estimate.netProfit, IF miles > 100 THEN miles ELSE 100)]

=============================================================================
