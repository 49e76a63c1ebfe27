------------------------------- MODULE Watchlist -------------------------------
(***************************************************************************)
(* The watchlist of app/services/watchlist.py, as load_watchlist accepts   *)
(* it, and the queries scan of app/services/scanner.py derives from it: a  *)
(* local-pickup search asks eBay for one circle around each stop of its    *)
(* routes, since eBay's pickup filter is a single circle.                  *)
(*                                                                         *)
(* eBay measures a circle from the postal code, which is taken to lie at   *)
(* the stop that has it.                                                   *)
(*                                                                         *)
(* An operator named ...Mutant is a wrong version of the one that follows  *)
(* it, used to confirm that a property notices the fault.                  *)
(***************************************************************************)
EXTENDS Geo

CONSTANTS
    Routes,    \* [name, limit, stops], stops being [code, at] with NoCode for none
    Searches   \* [enabled, local, routes], routes being names

NoCode == ""

Point == Int \X Int

Stop == [code : STRING, at : Point]

UpToMiles(n) == 1..(100 * n)

Route == [name : STRING, limit : UpToMiles(500), stops : Seq(Stop) \ {<<>>}]

ASSUME RoutesAssumption == Routes \in Seq(Route)

ASSUME SearchesAssumption ==
    Searches \in Seq([enabled : BOOLEAN, local : BOOLEAN, routes : Seq(STRING)])

\* _routes_referenced_must_exist.
ASSUME ReferencedRoutesExist ==
    \A s \in ToSet(Searches) : ToSet(s.routes) \subseteq {r.name : r \in ToSet(Routes)}

\* route_by_name: names may repeat, the first counts.
RouteByName(name) ==
    LET Named(r) == r.name = name IN Routes[SelectInSeq(Routes, Named)]

RoutesFor(s) ==
    IF s.routes = <<>> THEN Routes
    ELSE [i \in DOMAIN s.routes |-> RouteByName(s.routes[i])]

AnchorPostalCodes(route) ==
    LET Code(stop) == IF stop.code = NoCode THEN <<>> ELSE <<stop>>
    IN  FlattenSeq([i \in DOMAIN route.stops |-> Code(route.stops[i])])

\* The stops a local-pickup search is fanned out over.
Anchors(s) ==
    LET routes == RoutesFor(s)
    IN  IF s.local THEN FlattenSeq([i \in DOMAIN routes |-> AnchorPostalCodes(routes[i])])
        ELSE <<>>

RadiusOfWidestMutant(s) ==
    IF RoutesFor(s) = <<>> THEN 25 ELSE Max({r.limit : r \in ToSet(RoutesFor(s))}) \div 100

\* pickup_radius_miles: the least tolerance, in whole miles.
Radius(s) ==
    IF RoutesFor(s) = <<>> THEN 25 ELSE Min({r.limit : r \in ToSet(RoutesFor(s))}) \div 100

\* Without anchors there is one query, and local_pickup_only is not set.
QueriesOf(n) ==
    LET s == Searches[n]
    IN  IF Anchors(s) = <<>>
        THEN <<[search |-> n, local |-> FALSE, center |-> <<0, 0>>, radius |-> Radius(s)]>>
        ELSE [i \in DOMAIN Anchors(s) |-> [search |-> n, local |-> TRUE,
                                          center |-> Anchors(s)[i].at, radius |-> Radius(s)]]

\* active_searches, and the loop over their anchors.
Queries ==
    FlattenSeq([n \in DOMAIN Searches |-> IF Searches[n].enabled THEN QueriesOf(n) ELSE <<>>])

\* build_search_params: the check of the circle.
Accepted(query) == query.local => query.radius \in 1..500

\* eBay has a listing at p for the query.
InCircle(p, query) == query.local => Miles(query.center, p) <= 100 * query.radius
=============================================================================
