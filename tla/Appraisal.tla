------------------------------- MODULE Appraisal -------------------------------
(***************************************************************************)
(* What scan of app/services/scanner.py makes of a page: Normalization     *)
(* turns its rows into listings, Deal locates and scores each of them by   *)
(* the routes of the search whose query was answered (Watchlist).          *)
(* Scan models the rest of the loop, with offers in place of scores.       *)
(***************************************************************************)
EXTENDS Normalization, Deal

CONSTANT Points    \* <<longitude, latitude>> eBay may give, as _project sees them

ASSUME PointsAssumption == Points \subseteq Point

VARIABLES
    query,       \* the query eBay answers
    appraisals,  \* what score_candidate returned for the first listings
    ended        \* a ValidationError has ended the scan

vars == <<rows, at, listings, outcome, query, appraisals, ended>>

\* What the places mean to each search.
Map == [p \in Points |-> [n \in DOMAIN Searches |-> PlaceAt(p, RoutesFor(Searches[n]))]]

\* _listing_point: a listing without coordinates is not guessed.
Located(listing) == listing.latitude.known /\ listing.longitude.known

PointOf(listing) == <<listing.longitude.val, listing.latitude.val>>

PlaceOf(listing) ==
    IF Located(listing) THEN Map[PointOf(listing)][query.search] ELSE Nowhere

\* eBay answers a pickup query with what lies in its circle, as far as it says where.
Answers(row) ==
    (\A v \in {row.longitude, row.latitude} : v.form # "none" /\ v.class \in {"finite", "long"}) =>
        LET where == <<row.longitude.val, row.latitude.val>>
        IN  where \in Points /\ InCircle(where, query)

NotConsidered == [estimate |-> NoEstimate, score |-> 0, drive |-> 0]

Init ==
    /\ query \in {q \in ToSet(Queries) : Accepted(q)}
    /\ PageInit
    /\ \A i \in DOMAIN rows : Answers(rows[i])
    /\ appraisals = <<>>
    /\ ended = FALSE

Normalize == PageNext /\ UNCHANGED <<query, appraisals, ended>>

Scanning == outcome = "returned" /\ ~ended /\ Len(appraisals) < Len(listings)

Current == listings[Len(appraisals) + 1]

CannotBePriced(l) == l.sourceItemId.known /\ Refused(l.price, l.shippingCost)

\* The body of scan's loop over the listings of a page: one without an id is passed over.
Appraise ==
    /\ Scanning
    /\ ~CannotBePriced(Current)
    /\ appraisals' = Append(appraisals,
           IF Current.sourceItemId.known
           THEN ScoreCandidate(Current.price, Current.shippingCost, PlaceOf(Current))
           ELSE NotConsidered)
    /\ UNCHANGED <<rows, at, listings, outcome, query, ended>>

\* Nothing between score_candidate and the caller of scan catches its ValidationError:
\* the listings behind it, and the searches behind this one, are not looked at.
EndScan ==
    /\ Scanning
    /\ CannotBePriced(Current)
    /\ ended' = TRUE
    /\ UNCHANGED <<rows, at, listings, outcome, query, appraisals>>

Next == Normalize \/ Appraise \/ EndScan

Spec == Init /\ [][Next]_vars

-----------------------------------------------------------------------------
(* Properties.                                                             *)

\* A price drop never costs a listing its place in the report: of two sightings
\* that differ in the price only, the cheaper one scores at least as well.
CheaperIsNeverWorse ==
    \A i, j \in DOMAIN appraisals :
       /\ listings[j] = [listings[i] EXCEPT !.price = listings[j].price, !.raw = listings[j].raw]
       /\ listings[i].price.known /\ listings[i].price.val > 0
       /\ listings[i].price.val <= listings[j].price.val
       /\ appraisals[j].score > 0
       => appraisals[i].score >= appraisals[j].score

\* A helper is known by name: what those of the nearest helper's name ask for.
Favors(place) ==
    IF place.helper = 0 THEN {0}
    ELSE {h.favor : h \in {h \in ToSet(Helpers) : h.name = Helpers[place.helper].name}}

\* What the pickup costs: the favor, or fuel both ways, and time if the trip is for
\* this listing alone.
Pickup(place, favor) ==
    LET near  == place.base # NoMiles /\ place.base <= OneWayLimit
        there == IF near THEN place.base
                 ELSE IF place.detours = <<>> THEN 0 ELSE Min(ToSet(place.detours))
        fuel  == (2 * there * Economics.fuelPrice) \div (100 * Economics.mpg)
        time  == (2 * there * Economics.hourly) \div (100 * Economics.mph)
    IN  CASE ~near /\ place.helper # 0 -> favor
          [] ~near /\ place.helper = 0 /\ ~OnRoute(place) /\ ~place.territory -> fuel + time
          [] OTHER -> fuel

\* What a listing earns on average over many like it, in cents rounded down: the
\* resale of the units that can be saved less the fee, the price, the shipping and
\* the pickup, the repair of those saved and the diagnosis of all.
Expected(l, favor) ==
    LET saved  == IF Search.repairable THEN Search.successRate ELSE 10000
        resale == (Search.resale * saved) \div 10000
        fee    == (resale * FeeRate) \div 10000
        repair == Search.diagnosisFee + (Search.repairCost * saved) \div 10000
    IN  resale - fee - l.price.val - l.shippingCost.val - Pickup(PlaceOf(l), favor)
        - (IF Search.repairable THEN repair ELSE 0)

\* Five roundings to a cent, and those of the miles of a quick pickup: they are rounded
\* to tenths, which moves both ways together by up to a tenth of a mile of fuel.
Tolerance(place) ==
    5 + (IF Tier(place) = "quick" THEN Economics.fuelPrice \div (10 * Economics.mpg) ELSE 0)

\* No candidate whose shipping cost is known loses money under the code's own
\* assumptions, whatever the rounding on the way: its net profit is what it earns on
\* average, but for the cents of rounding.
CandidatesMakeMoney ==
    \A i \in DOMAIN appraisals : appraisals[i].score > 0 /\ listings[i].shippingCost.known =>
        \E favor \in Favors(PlaceOf(listings[i])) :
            LET difference == appraisals[i].estimate.netProfit - Expected(listings[i], favor)
                tolerance  == Tolerance(PlaceOf(listings[i]))
            IN  /\ appraisals[i].estimate.netProfit > 0
                /\ -tolerance <= difference /\ difference <= tolerance

\* About k sixteenths of the way from a to b.
Sixteenths(k, a, b) == <<a[1] + (k * (b[1] - a[1])) \div 16, a[2] + (k * (b[2] - a[2])) \div 16>>

\* Points of a route, about a sixteenth of a leg apart.
Along(route) ==
    LET stops == route.stops
    IN  {stops[1].at} \cup {Sixteenths(k, stops[i].at, stops[i + 1].at) :
                                i \in 1..(Len(stops) - 1), k \in 0..16}

\* In line with the ends of a leg, and no farther from either than they are apart.
OnLeg(q, a, b) ==
    /\ (b[1] - a[1]) * (q[2] - a[2]) = (b[2] - a[2]) * (q[1] - a[1])
    /\ SquareOfDistance(q, a) <= SquareOfDistance(a, b)
    /\ SquareOfDistance(q, b) <= SquareOfDistance(a, b)

\* How far those that are on the route exactly are from p.
DistancesOnPath(p, route) ==
    LET stops == route.stops
        Exact(q) == \/ q = stops[1].at
                    \/ \E i \in 1..(Len(stops) - 1) : OnLeg(q, stops[i].at, stops[i + 1].at)
    IN  {Miles(p, q) : q \in {a \in Along(route) : Exact(a)}}

\* How much farther from p than its leg the nearest of such points may be: half a
\* sixteenth of the leg, and what rounding a leg and the miles to it adds.
Gap(p, a, b) ==
    IF a = b THEN 0
    ELSE 2 + (LegLength(a, b) + 44) \div 32 + (Miles(p, a) + 1) \div Miles(a, b)

\* How far all of them are from p, less that gap.
DistancesAlong(p, route) ==
    LET stops == route.stops
        Less(m, n) == IF m < n THEN 0 ELSE m - n
    IN  {Miles(p, stops[1].at)} \cup
        {Less(Miles(p, Sixteenths(k, stops[i].at, stops[i + 1].at)), Gap(p, stops[i].at, stops[i + 1].at)) :
            i \in 1..(Len(stops) - 1), k \in 0..16}

\* The least distance from each point to each route.
Least(Distances(_, _)) ==
    [p \in Points |-> [n \in DOMAIN Searches |->
        LET routes == RoutesFor(Searches[n])
        IN  [i \in DOMAIN routes |-> Min(Distances(p, routes[i]))]]]

LeastOnPath == Least(DistancesOnPath)

LeastAlong == Least(DistancesAlong)

\* "What matters is perpendicular distance to the path already being driven": no point
\* of the path, be it a stop or between two, is nearer than the detour a listing is
\* charged for.
DetourIsShortest ==
    \A i \in DOMAIN appraisals : Located(listings[i]) =>
        LET detours == PlaceOf(listings[i]).detours
            least   == LeastOnPath[PointOf(listings[i])][query.search]
        IN  \A k \in DOMAIN detours : detours[k] <= least[k]

\* Some point of the path is as near as the detour, its ends included (a line would go
\* on): what a listing is charged for can be driven.
DetourReachesThePath ==
    \A i \in DOMAIN appraisals : Located(listings[i]) =>
        LET detours == PlaceOf(listings[i]).detours
            least   == LeastAlong[PointOf(listings[i])][query.search]
        IN  \A k \in DOMAIN detours : least[k] <= detours[k]

\* A find of a local-pickup query that says where it is can be collected on a trip made
\* anyway or by a helper, and is charged for no time: the circles are no wider than
\* any route of the search tolerates, although another route than the one whose stop
\* was asked about may be the nearest.
LocalFindsNeedNoTripOfTheirOwn ==
    \A i \in DOMAIN appraisals : query.local /\ Located(listings[i]) =>
        LET place == PlaceOf(listings[i])
        IN  /\ Tier(place) \in {"quick", "helper", "on_route"}
            /\ OnRoute(place)
            /\ Detour(place) <= 100 * query.radius

=============================================================================
