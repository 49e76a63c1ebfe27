---------------------------------- MODULE Geo ----------------------------------
(***************************************************************************)
(* The distances of app/services/geo.py.  A point is what _project makes   *)
(* of a latitude and a longitude: miles east and north of some origin.     *)
(* Over the spans of a watchlist the great-circle distances of the code    *)
(* agree with those of the plane ("well under a mile").  Miles are in      *)
(* hundredths, rounded down.                                               *)
(*                                                                         *)
(* An operator named ...Mutant is a wrong version of the one that follows  *)
(* it, used to confirm that a property notices the fault.                  *)
(***************************************************************************)
EXTENDS Integers, Sequences, SequencesExt

Square(n) == n * n

\* As many steps from low, at most limit, as the root of n is away.
Towards(n, low, step, limit) ==
    low + step * (CHOOSE k \in 0..limit : /\ Square(low + step * k) <= n
                                          /\ n < Square(low + step * (k + 1)))

\* The whole part of the root, in ever smaller steps.
SquareRoot(n) ==
    LET far  == Towards(n, 0, 1024, n \div Square(1024))
        near == Towards(n, far, 32, 31)
    IN  Towards(n, near, 1, 31)

Magnitude(n) == IF n < 0 THEN -n ELSE n

SquareOfDistance(p, q) == Square(p[1] - q[1]) + Square(p[2] - q[2])

\* haversine_miles.
Miles(p, q) == SquareRoot(SquareOfDistance(p, q))

\* The length of a leg, rounded up, so that what it divides is rounded down.
LegLength(a, b) ==
    IF Square(Miles(a, b)) = SquareOfDistance(a, b) THEN Miles(a, b) ELSE Miles(a, b) + 1

PointToLineMutant(p, a, b) ==
    LET dx == b[1] - a[1]
        dy == b[2] - a[2]
        across == dx * (p[2] - a[2]) - dy * (p[1] - a[1])
    IN  IF a = b THEN Miles(p, a) ELSE Magnitude(across) \div LegLength(a, b)

\* point_to_segment_miles: the foot of the perpendicular, clamped to the segment.
PointToSegment(p, a, b) ==
    LET dx     == b[1] - a[1]
        dy     == b[2] - a[2]
        along  == (p[1] - a[1]) * dx + (p[2] - a[2]) * dy
        across == dx * (p[2] - a[2]) - dy * (p[1] - a[1])
    IN  CASE a = b \/ along <= 0 -> Miles(p, a)
          [] a # b /\ along >= SquareOfDistance(a, b) -> Miles(p, b)
          [] OTHER -> Magnitude(across) \div LegLength(a, b)

DetourToWaypointMutant(p, points) == Min({Miles(p, points[i]) : i \in DOMAIN points})

\* Route.detour_miles, of the points of its waypoints.
DetourMiles(p, points) ==
    IF Len(points) = 1 THEN Miles(p, points[1])
    ELSE Min({PointToSegment(p, points[i], points[i + 1]) : i \in 1..(Len(points) - 1)})

\* The first of the candidates (places by their number) closest to p, 0 if there is none:
\* what min does in nearest_base and nearest_helper.
Nearest(p, places, candidates) ==
    LET Closest(i) == \A j \in candidates : Miles(p, places[i].at) <= Miles(p, places[j].at)
    IN  IF candidates = {} THEN 0 ELSE Min({i \in candidates : Closest(i)})

NearestBase(p, bases) == Nearest(p, bases, DOMAIN bases)

\* nearest_helper: among those who can_collect.
NearestHelper(p, helpers) ==
    Nearest(p, helpers, {h \in DOMAIN helpers : Miles(p, helpers[h].at) <= helpers[h].maxDetour})

\* ServiceArea.contains.
Covers(area, p) == Miles(area.at, p) <= area.radius
=============================================================================
