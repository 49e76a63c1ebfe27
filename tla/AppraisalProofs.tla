---------------------------- MODULE AppraisalProofs ----------------------------
(***************************************************************************)
(* What Normalization guarantees the rest of the scan, for any pages eBay  *)
(* may send, of any length, and what locating and scoring then make of a   *)
(* listing, for any watchlist and economics: first the arithmetic and the  *)
(* geometry, then pages, queries and places, and last the theorems about   *)
(* appraisals.                                                             *)
(***************************************************************************)
EXTENDS Appraisal, WellFoundedInduction, TLAPS

-----------------------------------------------------------------------------
(* The least of a set of numbers.                                          *)

LEMMA MinIsLeast ==
    ASSUME NEW S, S \subseteq Nat, S # {}
    PROVE  Min(S) \in S /\ \A n \in S : Min(S) <= n
<1> DEFINE Below == OpToRel(<, Nat)
<1>1. \A m, n \in Nat : <<m, n>> \in Below <=> m < n
  BY DEF OpToRel
<1>2. IsWellFoundedOn(Below, Nat)
  BY NatLessThanWellFounded
<1> HIDE DEF Below
<1>3. PICK n \in S : \A m \in S : ~ (<<m, n>> \in Below)
  BY <1>2, WFMin
<1>4. \A m \in S : n <= m
  <2> TAKE m \in S
  <2>1. n \in Nat /\ m \in Nat
    OBVIOUS
  <2>2. ~ (m < n)
    BY <1>1, <1>3, <2>1
  <2> QED
    BY <2>1, <2>2
<1>5. \E m \in S : \A k \in S : m <= k
  BY <1>4
<1> QED
  BY <1>5 DEF Min

-----------------------------------------------------------------------------
(* Division and rounding.                                                  *)

LEMMA Division ==
    ASSUME NEW n \in Int, NEW d \in Nat \ {0}
    PROVE  /\ n \div d \in Int /\ n % d \in 0..(d - 1)
           /\ n = d * (n \div d) + (n % d)
  OBVIOUS

LEMMA DivisionIsLeast ==
    ASSUME NEW n \in Int, NEW d \in Nat \ {0}, NEW q \in Int, n < d * (q + 1)
    PROVE  n \div d <= q
  BY Division, Z3

LEMMA DivisionIsMost ==
    ASSUME NEW n \in Int, NEW d \in Nat \ {0}, NEW q \in Int, d * q <= n
    PROVE  q <= n \div d
  BY Division, Z3

LEMMA Larger ==
    ASSUME NEW a \in Int, NEW b \in Int, NEW d \in Nat, a <= b
    PROVE  d * a <= d * b
  OBVIOUS

LEMMA Cancelled ==
    ASSUME NEW a \in Int, NEW b \in Int, NEW d \in Nat \ {0}, d * a < d * b
    PROVE  a < b
<1> SUFFICES ASSUME b <= a PROVE FALSE
  OBVIOUS
<1>1. d * b <= d * a
  BY Larger
<1>2. d * a \in Int /\ d * b \in Int
  OBVIOUS
<1> QED
  BY <1>1, <1>2

LEMMA NearestUp ==
    ASSUME NEW n \in Nat, NEW d \in Nat \ {0}
    PROVE  /\ HalfUp(n, d) \in Nat
           /\ (2 * d) * HalfUp(n, d) <= 2 * n + d
           /\ 2 * n + d < (2 * d) * (HalfUp(n, d) + 1)
<1> DEFINE q == (2 * n + d) \div (2 * d)
           m == 2 * n + d
           e == 2 * d
<1>0. HalfUp(n, d) = q
  BY DEF HalfUp
<1>1. m \in Int /\ m >= 0 /\ e \in Nat \ {0} /\ HalfUp(n, d) = q
  BY <1>0
<1>2. q \in Int /\ m % e \in 0..(e - 1) /\ m = e * q + (m % e)
  BY <1>1, Division
<1> HIDE DEF m, e, q
<1>3. e * q <= m /\ m < e * q + e /\ e * (q + 1) = e * q + e
  BY <1>1, <1>2
<1>4. q >= 0
  <2> SUFFICES ASSUME q <= -1 PROVE FALSE
    BY <1>2
  <2>1. e * (q + 1) <= e * 0
    BY <1>1, <1>2, Larger
  <2> QED
    BY <1>1, <1>2, <1>3, <2>1
<1> QED
  BY <1>1, <1>2, <1>3, <1>4 DEF m, e

LEMMA NearestEven ==
    ASSUME NEW n \in Int, NEW d \in Nat \ {0}
    PROVE  /\ HalfEven(n, d) \in Int
           /\ 2 * (d * HalfEven(n, d)) <= 2 * n + d
           /\ 2 * n <= 2 * (d * HalfEven(n, d)) + d
<1> DEFINE q == n \div d
           r == n % d
           h == HalfEven(n, d)
<1>1. q \in Int /\ r \in 0..(d - 1) /\ n = d * q + r
  BY Division
<1>2. \/ h = q /\ 2 * r <= d
      \/ h = q + 1 /\ 2 * r >= d
  BY <1>1 DEF HalfEven
<1> HIDE DEF q, r, h
<1>3. d * q \in Int /\ d * (q + 1) = d * q + d
  BY <1>1
<1> QED
  BY <1>1, <1>2, <1>3 DEF h

\* Dividing by less gives more, and so does dividing more.
LEMMA UpAntitone ==
    ASSUME NEW n \in Nat, NEW d \in Nat \ {0}, NEW e \in Nat \ {0}, d <= e
    PROVE  HalfUp(n, e) <= HalfUp(n, d)
<1> DEFINE h == HalfUp(n, e)
           k == HalfUp(n, d)
<1>1. /\ h \in Nat /\ (2 * e) * h <= 2 * n + e
      /\ k \in Nat /\ 2 * n + d < (2 * d) * (k + 1)
  BY NearestUp
<1> HIDE DEF h, k
<1> SUFFICES ASSUME k + 1 <= h PROVE FALSE
  BY <1>1 DEF h, k
<1>2. (2 * d) * (k + 1) <= (2 * d) * h
  BY <1>1, Larger
<1>3. (2 * h - 1) * d <= (2 * h - 1) * e
  BY <1>1, Larger
<1>4. /\ (2 * d) * h = (2 * h - 1) * d + d
      /\ (2 * e) * h = (2 * h - 1) * e + e
      /\ (2 * d) * (k + 1) \in Int /\ (2 * h - 1) * d \in Int /\ (2 * h - 1) * e \in Int
  BY <1>1
<1> QED
  BY <1>1, <1>2, <1>3, <1>4

LEMMA EvenMonotone ==
    ASSUME NEW n \in Int, NEW m \in Int, n <= m, NEW d \in Nat \ {0}
    PROVE  HalfEven(n, d) <= HalfEven(m, d)
<1> DEFINE q == n \div d
           r == n % d
           t == m \div d
           s == m % d
<1>1. /\ q \in Int /\ r \in 0..(d - 1) /\ n = d * q + r
      /\ t \in Int /\ s \in 0..(d - 1) /\ m = d * t + s
  BY Division
<1>2. /\ HalfEven(n, d) = IF 2 * r < d \/ (2 * r = d /\ q % 2 = 0) THEN q ELSE q + 1
      /\ HalfEven(m, d) = IF 2 * s < d \/ (2 * s = d /\ t % 2 = 0) THEN t ELSE t + 1
  BY DEF HalfEven
<1> HIDE DEF q, r, t, s
<1>3. q <= t
  <2> SUFFICES ASSUME t + 1 <= q PROVE FALSE
    BY <1>1
  <2>1. d * (t + 1) <= d * q /\ d * (t + 1) = d * t + d
    BY <1>1, Larger
  <2> QED
    BY <1>1, <2>1
<1>4. CASE q = t
  BY <1>1, <1>2, <1>4
<1>5. CASE q < t
  BY <1>1, <1>2, <1>5
<1> QED
  BY <1>1, <1>3, <1>4, <1>5

LEMMA EvenIsPositive ==
    ASSUME NEW n \in Int, NEW d \in Nat \ {0}, HalfEven(n, d) > 0
    PROVE  n > 0
<1>1. HalfEven(n, d) \in Int /\ 2 * (d * HalfEven(n, d)) <= 2 * n + d
  BY NearestEven
<1>2. d * 1 <= d * HalfEven(n, d)
  BY <1>1, Larger
<1>3. d * HalfEven(n, d) \in Int
  BY <1>1
<1> QED
  BY <1>1, <1>2, <1>3

-----------------------------------------------------------------------------
(* Roots and distances.                                                    *)

LEMMA SquareIsNat == ASSUME NEW n \in Int PROVE Square(n) \in Nat
  BY DEF Square

LEMMA SquareGrows ==
    ASSUME NEW a \in Nat, NEW b \in Nat, a <= b
    PROVE  Square(a) <= Square(b)
<1>1. a * a <= a * b /\ b * a <= b * b
  BY Larger
<1>2. a * a \in Int /\ a * b \in Int /\ b * a = a * b /\ b * b \in Int
  OBVIOUS
<1> QED
  BY <1>1, <1>2 DEF Square

LEMMA SquareReflects ==
    ASSUME NEW a \in Nat, NEW b \in Nat, Square(a) < Square(b)
    PROVE  a < b
<1> SUFFICES ASSUME b <= a PROVE FALSE
  OBVIOUS
<1>1. Square(b) <= Square(a) /\ Square(a) \in Nat /\ Square(b) \in Nat
  BY SquareGrows, SquareIsNat
<1> QED
  BY <1>1

LEMMA TowardsTheRoot ==
    ASSUME NEW n \in Nat, NEW low \in Nat, NEW step \in Nat \ {0}, NEW limit \in Nat,
           Square(low) <= n, n < Square(low + step * (limit + 1))
    PROVE  /\ Towards(n, low, step, limit) \in Nat
           /\ Square(Towards(n, low, step, limit)) <= n
           /\ n < Square(Towards(n, low, step, limit) + step)
<1> DEFINE Passed == {m \in Nat : n < Square(low + step * m)}
           past   == Min(Passed)
           Here(k) == Square(low + step * k) <= n /\ n < Square(low + step * (k + 1))
<1>1. limit + 1 \in Passed
  OBVIOUS
<1>2. past \in Passed /\ \A m \in Passed : past <= m
  <2> HIDE DEF Passed
  <2>1. Passed \subseteq Nat
    BY DEF Passed
  <2> QED
    BY <1>1, <2>1, MinIsLeast
<1> HIDE DEF past
<1>3. past # 0
  <2>1. past = 0 => low + step * past = low
    OBVIOUS
  <2> QED
    BY <1>2, <2>1, SquareIsNat
<1>4. past - 1 \in 0..limit /\ past - 1 \notin Passed
  <2>1. past \in Nat
    BY <1>2
  <2>2. past <= limit + 1
    BY <1>1, <1>2
  <2>3. past - 1 \in 0..limit
    BY <1>3, <2>1, <2>2
  <2> HIDE DEF Passed
  <2>4. past - 1 \in Passed => past <= past - 1
    BY <1>2
  <2> QED
    BY <2>1, <2>3, <2>4
<1>5. low + step * (past - 1) \in Nat
  BY <1>4
<1>6. Here(past - 1)
  <2>1. (past - 1) + 1 = past
    BY <1>2
  <2>2. Square(low + step * (past - 1)) \in Nat
    BY <1>5, SquareIsNat
  <2> QED
    BY <1>2, <1>4, <2>1, <2>2
<1> DEFINE k == CHOOSE k \in 0..limit : Here(k)
<1>7. k \in 0..limit /\ Here(k)
  <2> HIDE DEF Here
  <2> QED
    BY <1>4, <1>6
<1>8. Towards(n, low, step, limit) = low + step * k
  BY DEF Towards
<1> HIDE DEF k
<1>9. low + step * k \in Nat /\ low + step * (k + 1) = (low + step * k) + step
  BY <1>7
<1> QED
  BY <1>7, <1>8, <1>9

LEMMA RootIsExact ==
    ASSUME NEW n \in Nat
    PROVE  /\ SquareRoot(n) \in Nat
           /\ Square(SquareRoot(n)) <= n
           /\ n < Square(SquareRoot(n) + 1)
<1> DEFINE q    == n \div Square(1024)
           far  == Towards(n, 0, 1024, q)
           near == Towards(n, far, 32, 31)
<1>1. Square(1024) = 1048576 /\ Square(0) = 0
  BY DEF Square
<1>2. q \in Nat /\ n < 1048576 * (q + 1)
  BY <1>1
<1>3. n < Square(0 + 1024 * (q + 1))
  <2> HIDE DEF q
  <2>1. q + 1 <= Square(q + 1)
    BY <1>2 DEF Square
  <2>2. Square(0 + 1024 * (q + 1)) = 1048576 * Square(q + 1)
    BY <1>2 DEF Square
  <2>3. Square(q + 1) \in Nat
    BY <1>2, SquareIsNat
  <2>4. 1048576 * (q + 1) <= 1048576 * Square(q + 1)
    BY <1>2, <2>1, <2>3
  <2> QED
    BY <1>2, <2>2, <2>3, <2>4
<1> HIDE DEF q
<1>4. far \in Nat /\ Square(far) <= n /\ n < Square(far + 1024)
  BY <1>1, <1>2, <1>3, TowardsTheRoot
<1> HIDE DEF far
<1>5. near \in Nat /\ Square(near) <= n /\ n < Square(near + 32)
  <2>1. far + 32 * (31 + 1) = far + 1024
    BY <1>4
  <2> QED
    BY <1>4, <2>1, TowardsTheRoot
<1> HIDE DEF near
<1>6. SquareRoot(n) = Towards(n, near, 1, 31)
  BY DEF SquareRoot, near, far, q
<1>7. near + 1 * (31 + 1) = near + 32
  BY <1>5
<1> QED
  BY <1>5, <1>6, <1>7, TowardsTheRoot

\* What is at least a number in square is at least it in root.
LEMMA RootBounds ==
    ASSUME NEW n \in Nat, NEW r \in Nat, Square(r) <= n
    PROVE  r <= SquareRoot(n)
<1>1. SquareRoot(n) \in Nat /\ n < Square(SquareRoot(n) + 1)
  BY RootIsExact
<1>2. Square(r) < Square(SquareRoot(n) + 1)
  BY <1>1, SquareIsNat
<1>3. r < SquareRoot(n) + 1
  BY <1>1, <1>2, SquareReflects
<1> QED
  BY <1>1, <1>3

LEMMA RootGrows ==
    ASSUME NEW m \in Nat, NEW n \in Nat, m <= n
    PROVE  SquareRoot(m) <= SquareRoot(n)
<1>1. SquareRoot(m) \in Nat /\ Square(SquareRoot(m)) <= m
  BY RootIsExact
<1>2. Square(SquareRoot(m)) <= n
  BY <1>1, SquareIsNat
<1> QED
  BY <1>1, <1>2, RootBounds

LEMMA DistanceIsNat ==
    ASSUME NEW p \in Point, NEW q \in Point
    PROVE  /\ SquareOfDistance(p, q) \in Nat
           /\ SquareOfDistance(p, q) = SquareOfDistance(q, p)
           /\ Miles(p, q) \in Nat
           /\ Miles(p, q) = Miles(q, p)
<1>1. p[1] - q[1] \in Int /\ p[2] - q[2] \in Int
  BY DEF Point
<1>2. SquareOfDistance(p, q) \in Nat
  BY <1>1, SquareIsNat DEF SquareOfDistance
<1>3. SquareOfDistance(p, q) = SquareOfDistance(q, p)
  BY DEF SquareOfDistance, Square, Point
<1> QED
  BY <1>2, <1>3, RootIsExact DEF Miles

\* The length of a leg is no less than the leg.
LEMMA LegIsCovered ==
    ASSUME NEW a \in Point, NEW b \in Point, a # b
    PROVE  /\ LegLength(a, b) \in Nat \ {0}
           /\ SquareOfDistance(a, b) > 0
           /\ SquareOfDistance(a, b) <= Square(LegLength(a, b))
<1> DEFINE n == SquareOfDistance(a, b)
           r == Miles(a, b)
<1>1. n \in Nat /\ r \in Nat /\ Square(r) <= n /\ n < Square(r + 1)
  BY DistanceIsNat, RootIsExact DEF Miles
<1>2. n > 0
  <2>1. a = <<a[1], a[2]>> /\ b = <<b[1], b[2]>>
    BY DEF Point
  <2>2. a[1] - b[1] # 0 \/ a[2] - b[2] # 0
    BY <2>1 DEF Point
  <2>3. \A m \in Int : m # 0 => m * m > 0
    OBVIOUS
  <2>4. a[1] - b[1] \in Int /\ a[2] - b[2] \in Int
    BY DEF Point
  <2>5. Square(a[1] - b[1]) \in Nat /\ Square(a[2] - b[2]) \in Nat
    BY <2>4, SquareIsNat
  <2>6. Square(a[1] - b[1]) > 0 \/ Square(a[2] - b[2]) > 0
    BY <2>2, <2>3, <2>4 DEF Square
  <2> QED
    BY <2>5, <2>6 DEF SquareOfDistance
<1>3. LegLength(a, b) = IF Square(r) = n THEN r ELSE r + 1
  BY DEF LegLength
<1> HIDE DEF n, r
<1>4. r = 0 => Square(r) = 0
  BY DEF Square
<1>5. LegLength(a, b) # 0
  BY <1>1, <1>2, <1>3, <1>4
<1> QED
  BY <1>1, <1>2, <1>3, <1>5, SquareIsNat DEF n

LEMMA Lagrange ==
    ASSUME NEW x \in Int, NEW y \in Int, NEW u \in Int, NEW v \in Int
    PROVE  Square(x * v - y * u) <= (Square(x) + Square(y)) * (Square(u) + Square(v))
<1>1. Square(x * v - y * u) + Square(u * x + v * y)
         = (Square(x) + Square(y)) * (Square(u) + Square(v))
  BY DEF Square
<1>2. x * v - y * u \in Int /\ u * x + v * y \in Int
  OBVIOUS
<1>3. Square(x * v - y * u) \in Nat /\ Square(u * x + v * y) \in Nat
  BY <1>2, SquareIsNat
<1> QED
  BY <1>1, <1>3

LEMMA Quotient ==
    ASSUME NEW n \in Nat, NEW d \in Nat \ {0}
    PROVE  n \div d \in Nat /\ (n \div d) * d <= n
<1> DEFINE q == n \div d
           r == n % d
<1>1. q \in Int /\ r \in 0..(d - 1) /\ n = d * q + r
  BY Division
<1>2. d * 0 <= n => 0 <= q
  BY DivisionIsMost
<1> HIDE DEF q, r
<1>3. d * q = q * d /\ q * d \in Int
  BY <1>1
<1> QED
  BY <1>1, <1>2, <1>3 DEF q

\* What a cross product is at most, divided by the leg.
LEMMA AcrossIsWithin ==
    ASSUME NEW w \in Nat, NEW leg \in Nat \ {0}, NEW across \in Nat, w * leg <= across,
           NEW n \in Nat \ {0}, n <= Square(leg), NEW m \in Nat, Square(across) <= n * m
    PROVE  w <= SquareRoot(m)
<1>1. Square(w * leg) <= Square(across)
  BY SquareGrows
<1>2. Square(w * leg) = Square(w) * Square(leg)
  BY DEF Square
<1>3. /\ Square(w) \in Nat /\ Square(leg) \in Nat /\ Square(across) \in Nat
      /\ Square(w) * n \in Nat /\ Square(w) * Square(leg) \in Nat /\ n * m \in Nat
  BY SquareIsNat
<1>4. Square(w) * n <= Square(w) * Square(leg)
  BY <1>3, Larger
<1>5. n * Square(w) <= n * m
  BY <1>1, <1>2, <1>3, <1>4
<1>6. Square(w) <= m
  <2> SUFFICES ASSUME m + 1 <= Square(w) PROVE FALSE
    BY <1>3
  <2>1. n * (m + 1) <= n * Square(w) /\ n * (m + 1) = n * m + n
    BY <1>3, Larger
  <2> QED
    BY <1>3, <1>5, <2>1
<1> QED
  BY <1>6, RootBounds

\* Behind an end of a leg, that end is nearest.
LEMMA EndIsNearest ==
    ASSUME NEW x \in Int, NEW y \in Int, NEW u \in Int, NEW v \in Int, NEW s \in Int, NEW t \in Int,
           x * t = y * s, Square(x) + Square(y) > 0,
           (u * x + v * y) * (s * x + t * y) <= 0
    PROVE  Square(u) + Square(v) <= Square(u - s) + Square(v - t)
<1> DEFINE n == Square(x) + Square(y)
           d == u * s + v * t
<1>1. n * d = (u * x + v * y) * (s * x + t * y) + (x * v - y * u) * (x * t - y * s)
  BY DEF Square
<1>2. x * t - y * s = 0
  OBVIOUS
<1>3. (x * v - y * u) * (x * t - y * s) = 0
  <2> DEFINE k == x * v - y * u
             z == x * t - y * s
  <2>1. k \in Int /\ z = 0
    BY <1>2
  <2> HIDE DEF k, z
  <2>2. k * z = 0
    BY <2>1
  <2> QED
    BY <2>2 DEF k, z
<1>4. n * d <= 0
  <2> DEFINE l == (u * x + v * y) * (s * x + t * y)
             k == (x * v - y * u) * (x * t - y * s)
  <2>1. l \in Int /\ l <= 0
    OBVIOUS
  <2>2. k = 0 /\ n * d = l + k
    BY <1>1, <1>3
  <2> HIDE DEF l, k, n, d
  <2> QED
    BY <2>1, <2>2
<1>5. n \in Nat \ {0} /\ d \in Int
  <2>1. Square(x) \in Nat /\ Square(y) \in Nat
    BY SquareIsNat
  <2> QED
    BY <2>1
<1>6. d <= 0
  <2> HIDE DEF n, d
  <2> SUFFICES ASSUME d >= 1 PROVE FALSE
    BY <1>5
  <2>1. n * 1 <= n * d
    BY <1>5, Larger
  <2> QED
    BY <1>4, <1>5, <2>1
<1>7. Square(u - s) + Square(v - t) = Square(u) + Square(v) - 2 * d + (Square(s) + Square(t))
  BY DEF Square
<1> HIDE DEF d, n
<1>8. /\ Square(u) \in Nat /\ Square(v) \in Nat /\ Square(s) \in Nat /\ Square(t) \in Nat
  BY SquareIsNat
<1> QED
  BY <1>5, <1>6, <1>7, <1>8

\* The distance to a segment is no more than that to any of its points.
LEMMA SegmentIsShortest ==
    ASSUME NEW p \in Point, NEW a \in Point, NEW b \in Point, NEW q \in Point, OnLeg(q, a, b)
    PROVE  PointToSegment(p, a, b) \in Nat /\ PointToSegment(p, a, b) <= Miles(p, q)
<1> DEFINE dx == b[1] - a[1]
           dy == b[2] - a[2]
           u  == p[1] - a[1]
           v  == p[2] - a[2]
           s  == q[1] - a[1]
           t  == q[2] - a[2]
           along  == u * dx + v * dy
           across == dx * v - dy * u
           n  == SquareOfDistance(a, b)
           na == SquareOfDistance(p, a)
           nb == SquareOfDistance(p, b)
           nq == SquareOfDistance(p, q)
           qa == SquareOfDistance(q, a)
           qb == SquareOfDistance(q, b)
           c  == s * dx + t * dy
<1>1. /\ dx \in Int /\ dy \in Int /\ u \in Int /\ v \in Int /\ s \in Int /\ t \in Int
  BY DEF Point
<1>2. /\ n \in Nat /\ na \in Nat /\ nb \in Nat /\ nq \in Nat /\ qa \in Nat /\ qb \in Nat
      /\ Miles(p, a) \in Nat /\ Miles(p, b) \in Nat /\ Miles(p, q) \in Nat
      /\ Miles(p, a) = SquareRoot(na) /\ Miles(p, b) = SquareRoot(nb) /\ Miles(p, q) = SquareRoot(nq)
  BY DistanceIsNat DEF Miles
<1>3. PointToSegment(p, a, b) =
          CASE a = b \/ along <= 0 -> Miles(p, a)
            [] a # b /\ along >= n -> Miles(p, b)
            [] OTHER -> Magnitude(across) \div LegLength(a, b)
  BY DEF PointToSegment
<1>4. n = Square(dx) + Square(dy) /\ na = Square(u) + Square(v) /\ qa = Square(s) + Square(t)
  BY DEF SquareOfDistance, Square, Point
<1>5. /\ p[1] - b[1] = u - dx /\ p[2] - b[2] = v - dy
      /\ p[1] - q[1] = u - s /\ p[2] - q[2] = v - t
      /\ q[1] - b[1] = s - dx /\ q[2] - b[2] = t - dy
  BY DEF Point
<1>6. /\ nb = Square(u - dx) + Square(v - dy)
      /\ nq = Square(u - s) + Square(v - t)
      /\ qb = Square(s - dx) + Square(t - dy)
  BY <1>5 DEF SquareOfDistance
<1>7. dx * t = dy * s /\ qa <= n /\ qb <= n
  BY DEF OnLeg
<1> HIDE DEF dx, dy, u, v, s, t, n, na, nb, nq, qa, qb
<1>8. across \in Int /\ along \in Int /\ c \in Int
  BY <1>1
<1>9. 0 <= c /\ c <= n
  <2>1. qb = qa - 2 * c + n
    BY <1>1, <1>4, <1>6 DEF Square
  <2> HIDE DEF c
  <2> QED
    BY <1>2, <1>7, <1>8, <2>1
<1>10. Square(across) <= n * nq
  <2>1. across = dx * (v - t) - dy * (u - s)
    <3>1. dx * (v - t) - dy * (u - s) = (dx * v - dy * u) - (dx * t - dy * s)
      BY <1>1
    <3>2. dx * t - dy * s = 0 /\ dx * v - dy * u \in Int
      BY <1>1, <1>7
    <3> QED
      BY <3>1, <3>2
  <2>2. v - t \in Int /\ u - s \in Int
    BY <1>1
  <2> HIDE DEF across
  <2> QED
    BY <1>1, <1>4, <1>6, <2>1, <2>2, Lagrange
<1>11. CASE a = b
  <2>1. n = 0
    BY <1>11 DEF n, SquareOfDistance, Square, Point
  <2>2. qa = 0
    BY <1>2, <1>7, <2>1
  <2>3. s = 0 /\ t = 0
    <3>1. Square(s) \in Nat /\ Square(t) \in Nat
      BY <1>1, SquareIsNat
    <3>2. s * s = 0 /\ t * t = 0
      BY <1>4, <2>2, <3>1 DEF Square
    <3> QED
      BY <1>1, <3>2
  <2>4. nq = na
    BY <1>1, <1>4, <1>6, <2>3
  <2> QED
    BY <1>2, <1>3, <1>11, <2>4
<1>12. ASSUME a # b PROVE n > 0
  BY <1>12, LegIsCovered DEF n
<1>13. CASE a # b /\ along <= 0
  <2>1. along * c <= 0
    <3> HIDE DEF along, c
    <3>1. c * along <= c * 0
      BY <1>8, <1>9, <1>13, Larger
    <3> QED
      BY <1>8, <3>1
  <2>2. na <= nq
    BY <1>1, <1>4, <1>6, <1>7, <1>12, <1>13, <2>1, EndIsNearest
  <2>3. PointToSegment(p, a, b) = Miles(p, a)
    <3>1. ~(along >= n)
      BY <1>2, <1>8, <1>12, <1>13
    <3> HIDE DEF along
    <3> QED
      BY <1>3, <1>13, <3>1
  <2> QED
    BY <1>2, <2>2, <2>3, RootGrows
<1>14. CASE a # b /\ ~(along <= 0) /\ along >= n
  <2> DEFINE u1 == u - dx
             v1 == v - dy
             s1 == s - dx
             t1 == t - dy
  <2>1. u1 \in Int /\ v1 \in Int /\ s1 \in Int /\ t1 \in Int
    BY <1>1
  <2>2. dx * t1 = dy * s1
    <3>1. dx * t1 = dx * t - dx * dy /\ dy * s1 = dy * s - dx * dy
      BY <1>1
    <3> QED
      BY <1>7, <3>1
  <2>3. u1 * dx + v1 * dy = along - n /\ s1 * dx + t1 * dy = c - n
    BY <1>1, <1>4 DEF Square
  <2>4. (u1 * dx + v1 * dy) * (s1 * dx + t1 * dy) <= 0
    <3> DEFINE k == along - n
               l == n - c
    <3>1. k \in Nat /\ l \in Nat
      <4> HIDE DEF along, c
      <4> QED
        BY <1>2, <1>8, <1>9, <1>14
    <3>2. c - n = -l
      <4> HIDE DEF c
      <4> QED
        BY <1>2, <1>8
    <3> HIDE DEF k, l
    <3>3. k * (-l) <= 0
      <4>1. k * (-l) <= k * 0
        BY <3>1, Larger
      <4> QED
        BY <3>1, <4>1
    <3> QED
      BY <2>3, <3>2, <3>3 DEF k
  <2>5. u1 - s1 = u - s /\ v1 - t1 = v - t
    BY <1>1
  <2> HIDE DEF u1, v1, s1, t1
  <2>6. Square(u1) + Square(v1) <= Square(u1 - s1) + Square(v1 - t1)
    BY <1>1, <1>4, <1>12, <1>14, <2>1, <2>2, <2>4, EndIsNearest
  <2>7. nb <= nq
    BY <1>6, <2>5, <2>6 DEF u1, v1
  <2>8. PointToSegment(p, a, b) = Miles(p, b)
    <3> HIDE DEF along
    <3> QED
      BY <1>3, <1>14
  <2> QED
    BY <1>2, <2>7, <2>8, RootGrows
<1>15. CASE a # b /\ ~(along <= 0) /\ ~(along >= n)
  <2> DEFINE m == Magnitude(across)
             leg == LegLength(a, b)
             w == m \div leg
  <2>1. PointToSegment(p, a, b) = w
    <3> HIDE DEF along
    <3> QED
      BY <1>3, <1>15
  <2>2. m \in Nat /\ Square(m) = Square(across)
    <3> HIDE DEF across
    <3> QED
      BY <1>8 DEF Magnitude, Square
  <2>3. leg \in Nat \ {0} /\ n \in Nat \ {0} /\ n <= Square(leg)
    BY <1>2, <1>12, <1>15, LegIsCovered DEF n
  <2> HIDE DEF m, leg, across
  <2>4. w \in Nat /\ w * leg <= m
    BY <2>2, <2>3, Quotient
  <2> HIDE DEF w
  <2>5. w <= SquareRoot(nq)
    BY <1>2, <1>10, <2>2, <2>3, <2>4, AcrossIsWithin
  <2> QED
    BY <1>2, <2>1, <2>4, <2>5
<1> QED
  BY <1>11, <1>13, <1>14, <1>15

\* Its ends are points of a segment.
LEMMA SegmentIsWithin ==
    ASSUME NEW p \in Point, NEW a \in Point, NEW b \in Point
    PROVE  /\ PointToSegment(p, a, b) \in Nat
           /\ PointToSegment(p, a, b) <= Miles(p, a)
           /\ PointToSegment(p, a, b) <= Miles(p, b)
<1>1. \A q \in Point : SquareOfDistance(q, q) = 0
  BY DEF SquareOfDistance, Square, Point
<1>2. SquareOfDistance(a, b) \in Nat /\ SquareOfDistance(b, a) = SquareOfDistance(a, b)
  BY DistanceIsNat
<1>3. OnLeg(a, a, b)
  <2>1. (b[1] - a[1]) * (a[2] - a[2]) = (b[2] - a[2]) * (a[1] - a[1])
    BY DEF Point
  <2> QED
    BY <1>1, <1>2, <2>1 DEF OnLeg
<1>4. OnLeg(b, a, b)
  <2>1. (b[1] - a[1]) * (b[2] - a[2]) = (b[2] - a[2]) * (b[1] - a[1])
    BY DEF Point
  <2> QED
    BY <1>1, <1>2, <2>1 DEF OnLeg
<1> QED
  BY <1>3, <1>4, SegmentIsShortest

\* The distance to a route is no more than that to any of its points.
LEMMA DetourIsWithin ==
    ASSUME NEW p \in Point, NEW points \in Seq(Point), points # <<>>
    PROVE  /\ DetourMiles(p, points) \in Nat
           /\ \A i \in DOMAIN points : DetourMiles(p, points) <= Miles(p, points[i])
<1> DEFINE legs == {PointToSegment(p, points[i], points[i + 1]) : i \in 1..(Len(points) - 1)}
<1>1. DOMAIN points = 1..Len(points) /\ Len(points) \in Nat \ {0}
  OBVIOUS
<1>2. \A i \in 1..Len(points) : points[i] \in Point /\ Miles(p, points[i]) \in Nat
  <2> TAKE i \in 1..Len(points)
  <2>1. points[i] \in Point
    OBVIOUS
  <2> QED
    BY <2>1, DistanceIsNat
<1>3. CASE Len(points) = 1
  BY <1>1, <1>2, <1>3 DEF DetourMiles
<1>4. CASE Len(points) # 1
  <2>1. \A i \in 1..(Len(points) - 1) :
           /\ PointToSegment(p, points[i], points[i + 1]) \in Nat
           /\ PointToSegment(p, points[i], points[i + 1]) <= Miles(p, points[i])
           /\ PointToSegment(p, points[i], points[i + 1]) <= Miles(p, points[i + 1])
    <3> TAKE i \in 1..(Len(points) - 1)
    <3>1. points[i] \in Point /\ points[i + 1] \in Point
      BY <1>1, <1>2
    <3> QED
      BY <3>1, SegmentIsWithin
  <2>2. legs \subseteq Nat /\ legs # {}
    <3>1. 1 \in 1..(Len(points) - 1)
      BY <1>1, <1>4
    <3> QED
      BY <2>1, <3>1
  <2>3. DetourMiles(p, points) = Min(legs)
    BY <1>4 DEF DetourMiles
  <2>4. Min(legs) \in legs /\ \A m \in legs : Min(legs) <= m
    <3> HIDE DEF legs
    <3> QED
      BY <2>2, MinIsLeast
  <2>5. Min(legs) \in Nat
    BY <2>2, <2>4
  <2> DEFINE least == Min(legs)
  <2>6. ASSUME NEW i \in 1..Len(points) PROVE least <= Miles(p, points[i])
    <3>1. PICK k \in 1..(Len(points) - 1) : i = k \/ i = k + 1
      <4>1. CASE i = 1
        <5>1. 1 \in 1..(Len(points) - 1)
          BY <1>1, <1>4
        <5> QED
          BY <4>1, <5>1
      <4>2. CASE i # 1
        <5>1. i - 1 \in 1..(Len(points) - 1) /\ i = (i - 1) + 1
          BY <1>1, <4>2
        <5> QED
          BY <5>1
      <4> QED
        BY <4>1, <4>2
    <3> DEFINE leg == PointToSegment(p, points[k], points[k + 1])
    <3>2. leg \in legs /\ leg \in Nat /\ leg <= Miles(p, points[i])
      BY <2>1, <3>1
    <3>3. least <= leg
      BY <2>4, <3>2
    <3> HIDE DEF leg, least
    <3> QED
      BY <1>2, <2>5, <3>2, <3>3 DEF least
  <2> QED
    BY <1>1, <2>3, <2>5, <2>6
<1> QED
  BY <1>3, <1>4

-----------------------------------------------------------------------------
(* Sequences put one behind the other.                                     *)

IsFlattened(f, seqs, n) ==
    f = [i \in 1..n |-> IF i = 1 THEN seqs[i] ELSE f[i - 1] \o seqs[i]]

LEMMA FlattenedExists ==
    ASSUME NEW seqs, NEW n \in Nat \ {0}
    PROVE  \E f : IsFlattened(f, seqs, n)
<1> DEFINE Lacking == {m \in 1..n : ~ \E f : IsFlattened(f, seqs, m)}
<1> SUFFICES ASSUME Lacking # {} PROVE FALSE
  OBVIOUS
<1> DEFINE m == Min(Lacking)
<1>1. m \in Lacking /\ \A k \in Lacking : m <= k
  <2>1. Lacking \subseteq Nat
    OBVIOUS
  <2> HIDE DEF Lacking
  <2> QED
    BY <2>1, MinIsLeast
<1> HIDE DEF m
<1>2. CASE m = 1
  <2> DEFINE f == [i \in 1..1 |-> seqs[1]]
  <2>1. IsFlattened(f, seqs, 1)
    BY DEF IsFlattened
  <2> HIDE DEF f
  <2> QED
    BY <1>1, <1>2, <2>1
<1>3. CASE m # 1
  <2>1. m - 1 \in 1..n /\ m - 1 \notin Lacking
    <3>1. m \in 1..n
      BY <1>1
    <3>2. m - 1 \in 1..n /\ ~(m <= m - 1)
      BY <1>3, <3>1
    <3> HIDE DEF Lacking
    <3> QED
      BY <1>1, <3>2
  <2>2. PICK f : IsFlattened(f, seqs, m - 1)
    BY <2>1
  <2> DEFINE g == [i \in 1..m |-> IF i = m THEN f[m - 1] \o seqs[m] ELSE f[i]]
             h == [i \in 1..m |-> IF i = 1 THEN seqs[i] ELSE g[i - 1] \o seqs[i]]
  <2>3. \A i \in 1..(m - 1) : f[i] = IF i = 1 THEN seqs[i] ELSE f[i - 1] \o seqs[i]
    BY <2>2 DEF IsFlattened
  <2>4. ASSUME NEW i \in 1..m PROVE g[i] = h[i]
    <3>1. m \in 1..n /\ m > 1
      BY <1>1, <1>3
    <3>2. CASE i = 1
      BY <2>3, <3>1, <3>2
    <3>3. CASE i # 1
      <4>1. i - 1 \in 1..m /\ i - 1 # m
        BY <3>1, <3>3
      <4>2. g[i - 1] = f[i - 1]
        BY <4>1
      <4>3. CASE i = m
        BY <3>3, <4>2, <4>3
      <4>4. CASE i # m
        <5>1. i \in 1..(m - 1)
          BY <3>1, <4>4
        <5> QED
          BY <2>3, <3>3, <4>2, <4>4, <5>1
      <4> QED
        BY <4>3, <4>4
    <3> QED
      BY <3>2, <3>3
  <2>5. g = h
    BY <2>4
  <2>6. IsFlattened(g, seqs, m)
    <3> HIDE DEF g
    <3> QED
      BY <2>5 DEF IsFlattened
  <2> QED
    BY <1>1, <2>6
<1> QED
  BY <1>2, <1>3

LEMMA FlattenType ==
    ASSUME NEW T, NEW seqs \in Seq(Seq(T))
    PROVE  FlattenSeq(seqs) \in Seq(T)
<1> DEFINE n == Len(seqs)
           f == CHOOSE f : IsFlattened(f, seqs, n)
<1>1. CASE n = 0
  <2>1. FlattenSeq(seqs) = seqs
    BY <1>1 DEF FlattenSeq
  <2> QED
    BY <1>1, <2>1
<1>2. CASE n # 0
  <2>1. n \in Nat \ {0}
    BY <1>2
  <2>2. IsFlattened(f, seqs, n)
    <3> HIDE DEF n
    <3> QED
      BY <2>1, FlattenedExists
  <2>3. FlattenSeq(seqs) = f[n]
    BY <1>2, Zenon DEF FlattenSeq, IsFlattened
  <2> HIDE DEF f, n
  <2> DEFINE Wrong == {i \in 1..n : f[i] \notin Seq(T)}
             least == Min(Wrong)
  <2>4. \A i \in 1..n : /\ seqs[i] \in Seq(T)
                        /\ f[i] = IF i = 1 THEN seqs[i] ELSE f[i - 1] \o seqs[i]
    <3>1. \A i \in 1..n : seqs[i] \in Seq(T)
      BY DEF n
    <3>2. \A i \in 1..n : f[i] = IF i = 1 THEN seqs[i] ELSE f[i - 1] \o seqs[i]
      BY <2>2 DEF IsFlattened
    <3> QED
      BY <3>1, <3>2
  <2>5. ASSUME Wrong # {} PROVE FALSE
    <3>1. least \in Wrong /\ \A k \in Wrong : least <= k
      <4>1. Wrong \subseteq Nat
        OBVIOUS
      <4> HIDE DEF Wrong
      <4> QED
        BY <2>5, <4>1, MinIsLeast
    <3> HIDE DEF least
    <3>2. least \in 1..n /\ f[least] \notin Seq(T)
      BY <3>1
    <3>3. least # 1
      BY <2>4, <3>2
    <3>4. least - 1 \in 1..n /\ ~(least <= least - 1)
      BY <2>1, <3>2, <3>3
    <3>5. f[least - 1] \in Seq(T)
      BY <3>1, <3>4
    <3>6. f[least] = f[least - 1] \o seqs[least] /\ seqs[least] \in Seq(T)
      BY <2>4, <3>2, <3>3
    <3> QED
      BY <3>2, <3>5, <3>6
  <2>6. f[n] \in Seq(T)
    BY <2>1, <2>5
  <2> QED
    BY <2>3, <2>6
<1> QED
  BY <1>1, <1>2

-----------------------------------------------------------------------------
(* The coercions.                                                          *)

Usable(n) == n.known => n.class \in Numbers

LEMMA CoercionsAreUsable ==
    ASSUME NEW v \in Json
    PROVE  /\ Usable(ToDecimal(v)) /\ ToDecimal(v).val \in Nat
           /\ Usable(ToInt(v))
           /\ Usable(ToFloat(v))
<1>1. v.form \in Forms /\ v.class \in Classes /\ v.val \in Int
  BY DEF Json
<1>2. Usable(None) /\ None.val \in Nat
  BY DEF Usable, None
<1>3. \A exception : Usable(Raise(exception))
  BY DEF Usable, Raise, None
<1>4. Some(v).class = v.class /\ Some(v).val = v.val
  BY DEF Some
<1>5. Usable(ToDecimal(v)) /\ ToDecimal(v).val \in Nat
  BY <1>1, <1>2, <1>4 DEF ToDecimal, Usable
<1>6. Usable(ToInt(v))
  <2>1. Whole(v) => v.class \in Numbers
    BY DEF Whole, Numbers
  <2>2. Whole(v) => Usable(Some(v))
    BY <1>4, <2>1 DEF Usable
  <2> HIDE DEF Usable, Whole
  <2> QED
    BY <1>2, <1>3, <2>2 DEF ToInt
<1>7. Usable(ToFloat(v))
  <2>1. v.class \in {"finite", "long"} => Usable(Some(v))
    BY <1>4 DEF Usable, Numbers
  <2> QED
    BY <1>2, <1>3, <2>1 DEF ToFloat
<1> QED
  BY <1>5, <1>6, <1>7

LEMMA ShippingIsUsable ==
    ASSUME NEW row \in Row
    PROVE  Usable(ExtractShippingCost(row)) /\ ExtractShippingCost(row).val \in Nat
<1>1. row.shipping \in Seq(Json)
  BY DEF Row
<1> DEFINE quoted == {i \in 1..Len(row.shipping) : ToDecimal(row.shipping[i]).known}
<1>2. ExtractShippingCost(row) = IF quoted = {} THEN None
                                 ELSE IF Min(quoted) = 0 THEN None
                                 ELSE ToDecimal(row.shipping[Min(quoted)])
  BY DEF ExtractShippingCost, SelectInSeq
<1>3. CASE quoted = {}
  BY <1>2, <1>3 DEF Usable, None
<1>4. CASE quoted # {}
  <2>1. quoted \subseteq Nat
    BY <1>1
  <2> DEFINE first == Min(quoted)
  <2>2. first \in quoted
    <3> HIDE DEF quoted
    <3> QED
      BY <1>4, <2>1, MinIsLeast
  <2>3. first \in 1..Len(row.shipping) /\ row.shipping[first] \in Json
    <3> HIDE DEF first
    <3> QED
      BY <1>1, <2>2
  <2> HIDE DEF quoted
  <2>4. ExtractShippingCost(row) = ToDecimal(row.shipping[first])
    <3>1. first # 0
      BY <1>1, <2>3
    <3> QED
      BY <1>2, <1>4, <3>1
  <2> QED
    BY <2>3, <2>4, CoercionsAreUsable
<1> QED
  BY <1>3, <1>4

-----------------------------------------------------------------------------
(* The listings of a page.                                                 *)

NumbersOf(l) == {l.price, l.shippingCost, l.feedback, l.latitude, l.longitude}

Sound(l) ==
    /\ \A n \in NumbersOf(l) : Usable(n)
    /\ l.price.val >= 0
    /\ l.shippingCost.val >= 0

LEMMA ListingIsSound ==
    ASSUME NEW row \in Row
    PROVE  Sound(Listing(row))
<1>1. /\ row.price \in Json /\ row.feedback \in Json
      /\ row.latitude \in Json /\ row.longitude \in Json
  BY DEF Row
<1>2. /\ Listing(row).price = ToDecimal(row.price)
      /\ Listing(row).shippingCost = ExtractShippingCost(row)
      /\ Listing(row).feedback = ToInt(row.feedback)
      /\ Listing(row).latitude = ToFloat(row.latitude)
      /\ Listing(row).longitude = ToFloat(row.longitude)
  BY DEF Listing
<1>3. /\ Usable(ToDecimal(row.price)) /\ ToDecimal(row.price).val \in Nat
      /\ Usable(ToInt(row.feedback))
      /\ Usable(ToFloat(row.latitude)) /\ Usable(ToFloat(row.longitude))
  BY <1>1, CoercionsAreUsable
<1>4. \A n \in NumbersOf(Listing(row)) : Usable(n)
  BY <1>2, <1>3, ShippingIsUsable DEF NumbersOf
<1>5. Listing(row).price.val >= 0 /\ Listing(row).shippingCost.val >= 0
  BY <1>2, <1>3, ShippingIsUsable
<1> QED
  BY <1>4, <1>5 DEF Sound

\* The loop is at a row of the page or behind the last, where it returns, and every
\* listing is that of some row.
PageInv ==
    /\ rows \in Seq(Row)
    /\ at \in 1..(Len(rows) + 1)
    /\ outcome = "returned" => at = Len(rows) + 1
    /\ listings \in Seq({Listing(row) : row \in Row})

LEMMA PageInductive == PageInv /\ [Next]_vars => PageInv'
<1> SUFFICES ASSUME PageInv, [Next]_vars
             PROVE  PageInv'
  OBVIOUS
<1> USE DEF PageInv
<1>1. CASE AppendRow
  <2>1. rows[at] \in Row
    BY <1>1 DEF AppendRow, Running
  <2>2. Listing(rows[at]) \in {Listing(row) : row \in Row}
    BY <2>1
  <2> QED
    BY <1>1, <2>2 DEF AppendRow, Running
<1>2. CASE SkipRow
  BY <1>2 DEF SkipRow, Running
<1>3. CASE EscapeRow \/ ReturnPage
  BY <1>3 DEF EscapeRow, ReturnPage
<1>4. CASE Appraise \/ EndScan
  BY <1>4 DEF Appraise, EndScan
<1>5. CASE UNCHANGED vars
  BY <1>5 DEF vars
<1> QED
  BY <1>1, <1>2, <1>3, <1>4, <1>5 DEF Next, Normalize, PageNext

LEMMA PageTyped == Spec => []PageInv
<1>1. Init => PageInv
  BY PagesAssumption DEF Init, PageInit, PageInv
<1> QED
  BY <1>1, PageInductive, PTL DEF Spec

\* Whatever eBay sends, no price, shipping cost, feedback score or coordinate of a listing
\* is NaN or infinite, and no price or shipping cost negative (to_decimal, to_int,
\* to_float).  raw is not among them: it may hold a NaN.
THEOREM NumbersCorrect == Spec => []NumbersAreUsable
<1>1. PageInv => NumbersAreUsable
  <2> SUFFICES ASSUME PageInv, NEW i \in DOMAIN listings
               PROVE  Sound(listings[i])
    BY DEF NumbersAreUsable, Sound, NumbersOf, Usable
  <2>1. PICK row \in Row : listings[i] = Listing(row)
    BY DEF PageInv
  <2> QED
    BY <2>1, ListingIsSound
<1> QED
  BY <1>1, PageTyped, PTL

-----------------------------------------------------------------------------
(* The rows whose numbers are numbers.                                     *)

\* None of the conversions of such a row raises.
LEMMA WellFormedConverts ==
    ASSUME NEW row \in Row, WellFormed(row)
    PROVE  Raised(row) = "nothing"
<1> DEFINE calls == <<ToFloat(row.latitude), ToFloat(row.longitude), ToInt(row.feedback)>>
<1>1. \A v : Well(v) => ToFloat(v).raised = "nothing" /\ ToInt(v).raised = "nothing"
  BY DEF Well, ToFloat, ToInt, None, Some
<1>2. calls[1].raised = "nothing" /\ calls[2].raised = "nothing" /\ calls[3].raised = "nothing"
  BY <1>1 DEF WellFormed
<1>3. {i \in 1..Len(calls) : calls[i].raised # "nothing"} = {}
  BY <1>2
<1>4. row.object /\ ~row.deep
  BY DEF WellFormed
<1> QED
  BY <1>3, <1>4 DEF Raised, SelectInSeq

\* The good rows passed so far have their listings, in order.
GoodBefore(n) == {i \in DOMAIN rows : WellFormed(rows[i]) /\ i < n}

Placed(place, n) ==
    /\ place \in [GoodBefore(n) -> DOMAIN listings]
    /\ \A i \in GoodBefore(n) : listings[place[i]] = Listing(rows[i])
    /\ \A i, j \in GoodBefore(n) : i < j => place[i] < place[j]

PlacedInv == \E place : Placed(place, at)

LEMMA PlacedInductive == PageInv /\ PlacedInv /\ [Next]_vars => PlacedInv'
<1> SUFFICES ASSUME PageInv, PlacedInv, [Next]_vars
             PROVE  PlacedInv'
  OBVIOUS
<1>0. PICK place : Placed(place, at)
  BY DEF PlacedInv
<1>t. rows \in Seq(Row) /\ at \in Nat /\ listings \in Seq({Listing(row) : row \in Row})
  BY DEF PageInv
<1>1. CASE AppendRow
  <2> DEFINE here  == Len(listings) + 1
             place2 == [i \in GoodBefore(at + 1) |-> IF i = at THEN here ELSE place[i]]
  <2>1. /\ rows' = rows /\ at' = at + 1 /\ at <= Len(rows)
        /\ listings' = Append(listings, Listing(rows[at]))
    BY <1>1 DEF AppendRow, Running
  <2>2. Listing(rows[at]) \in {Listing(row) : row \in Row}
    BY <1>t, <2>1, <1>1 DEF PageInv, AppendRow
  <2>3. /\ DOMAIN listings' = 1..here
        /\ listings'[here] = Listing(rows[at])
        /\ \A k \in DOMAIN listings : k \in 1..Len(listings) /\ listings'[k] = listings[k]
    BY <1>t, <2>1, <2>2
  <2>4. \A i \in GoodBefore(at + 1) : i = at \/ i \in GoodBefore(at)
    BY <1>t DEF GoodBefore
  <2>5. \A i \in GoodBefore(at) : i \in Nat /\ i < at /\ place[i] \in 1..Len(listings)
    BY <1>0, <1>t DEF GoodBefore, Placed
  <2>6. (GoodBefore(at))' = GoodBefore(at + 1)
    BY <2>1 DEF GoodBefore
  <2>7. place2 \in [GoodBefore(at + 1) -> 1..here]
    BY <1>t, <2>4, <2>5
  <2>8. \A i \in GoodBefore(at + 1) : listings'[place2[i]] = Listing(rows[i])
    BY <1>0, <1>t, <2>3, <2>4, <2>5 DEF Placed
  <2>9. \A i, j \in GoodBefore(at + 1) : i < j => place2[i] < place2[j]
    BY <1>0, <1>t, <2>4, <2>5 DEF Placed
  <2> HIDE DEF place2
  <2> QED
    BY <2>1, <2>3, <2>6, <2>7, <2>8, <2>9 DEF PlacedInv, Placed
<1>2. CASE SkipRow
  <2>1. /\ rows' = rows /\ at' = at + 1 /\ at <= Len(rows) /\ listings' = listings
        /\ Raised(rows[at]) \in {"NormalizationError", "ValueError"}
    BY <1>2 DEF SkipRow, Running
  <2>2. ~ WellFormed(rows[at])
    <3>1. rows[at] \in Row
      BY <1>t, <2>1 DEF PageInv
    <3> QED
      BY <2>1, <3>1, WellFormedConverts
  <2>3. GoodBefore(at + 1) = GoodBefore(at)
    BY <1>t, <2>2 DEF GoodBefore
  <2>4. (GoodBefore(at))' = GoodBefore(at)
    BY <2>1, <2>3 DEF GoodBefore
  <2> QED
    BY <1>0, <2>1, <2>4 DEF PlacedInv, Placed
<1>3. CASE UNCHANGED <<rows, at, listings>>
  BY <1>0, <1>3 DEF PlacedInv, Placed, GoodBefore
<1>4. Normalize \/ Appraise \/ EndScan \/ UNCHANGED vars =>
          AppendRow \/ SkipRow \/ UNCHANGED <<rows, at, listings>>
  BY DEF Normalize, PageNext, EscapeRow, ReturnPage, Appraise, EndScan, vars
<1> QED
  BY <1>1, <1>2, <1>3, <1>4 DEF Next

\* A page that is returned holds the listing of every row whose numbers are numbers,
\* in the order eBay sent them, whatever the rows between them contain.
THEOREM GoodRowsCorrect == Spec => []GoodRowsSurvive
<1>1. Init => PlacedInv
  <2> SUFFICES ASSUME Init PROVE PlacedInv
    OBVIOUS
  <2> DEFINE nowhere == [i \in {} |-> 0]
  <2>1. rows \in Seq(Row) /\ at = 1
    BY PagesAssumption DEF Init, PageInit
  <2>2. GoodBefore(at) = {}
    BY <2>1 DEF GoodBefore
  <2>3. Placed(nowhere, at)
    BY <2>2 DEF Placed
  <2> QED
    BY <2>3 DEF PlacedInv
<1>2. PageInv /\ PlacedInv => GoodRowsSurvive
  <2> SUFFICES ASSUME PageInv, PlacedInv, outcome = "returned"
               PROVE  GoodRowsSurvive
    BY DEF GoodRowsSurvive
  <2>1. PICK place : Placed(place, at)
    BY DEF PlacedInv
  <2>2. GoodBefore(at) = {i \in DOMAIN rows : WellFormed(rows[i])}
    <3>1. rows \in Seq(Row) /\ at = Len(rows) + 1
      BY DEF PageInv
    <3> QED
      BY <3>1 DEF GoodBefore
  <2> QED
    BY <2>1, <2>2 DEF Placed, GoodRowsSurvive
<1> QED
  BY <1>1, <1>2, PageTyped, PlacedInductive, PTL DEF Spec
-----------------------------------------------------------------------------
(* The shipping cost: that of the first option that quotes an amount.      *)

LEMMA ShippingIsTheFirstQuote ==
    ASSUME NEW row \in Row
    PROVE  LET quotes == {k \in DOMAIN row.shipping : Quotes(row.shipping[k])}
               cost == ExtractShippingCost(row)
           IN  /\ cost.known <=> quotes # {}
               /\ cost.known => \E first \in quotes :
                     /\ cost.val = row.shipping[first].val
                     /\ \A k \in quotes : first <= k
<1> DEFINE quotes == {k \in DOMAIN row.shipping : Quotes(row.shipping[k])}
           cost == ExtractShippingCost(row)
<1>1. row.shipping \in Seq(Json) /\ DOMAIN row.shipping = 1..Len(row.shipping)
  BY DEF Row
<1>2. \A option : ToDecimal(option).known <=> Quotes(option)
  BY DEF ToDecimal, Quotes, Some, None
<1>3. \A option : Quotes(option) => ToDecimal(option).val = option.val
  BY DEF ToDecimal, Quotes, Some
<1>4. {i \in 1..Len(row.shipping) : ToDecimal(row.shipping[i]).known} = quotes
  BY <1>1, <1>2
<1>5. cost = IF quotes = {} THEN None
             ELSE IF Min(quotes) = 0 THEN None ELSE ToDecimal(row.shipping[Min(quotes)])
  <2> HIDE DEF quotes
  <2> QED
    BY <1>4 DEF ExtractShippingCost, SelectInSeq
<1>6. CASE quotes = {}
  BY <1>5, <1>6 DEF None
<1>7. CASE quotes # {}
  <2> DEFINE first == Min(quotes)
  <2>1. quotes \subseteq Nat \ {0}
    BY <1>1
  <2>2. first \in quotes /\ \A k \in quotes : first <= k
    <3> HIDE DEF quotes
    <3> QED
      BY <1>7, <2>1, MinIsLeast
  <2>3. Quotes(row.shipping[first])
    BY <2>2
  <2>4. cost = ToDecimal(row.shipping[first])
    <3>1. first # 0
      BY <2>1, <2>2
    <3> HIDE DEF cost, quotes
    <3> QED
      BY <1>5, <1>7, <3>1
  <2> HIDE DEF cost, quotes, first
  <2>5. cost.known /\ cost.val = row.shipping[first].val
    BY <1>2, <1>3, <2>3, <2>4
  <2> QED
    BY <1>7, <2>2, <2>5 DEF cost, quotes
<1> QED
  BY <1>6, <1>7

\* Every listing is that of a row passed, one that did not raise.
FromRows ==
    \A i \in DOMAIN listings : \E k \in DOMAIN rows :
       Raised(rows[k]) = "nothing" /\ listings[i] = Listing(rows[k])

LEMMA FromRowsInductive == PageInv /\ FromRows /\ [Next]_vars => FromRows'
<1> SUFFICES ASSUME PageInv, FromRows, [Next]_vars
             PROVE  FromRows'
  OBVIOUS
<1>1. CASE AppendRow
  <2>1. /\ rows' = rows /\ at \in DOMAIN rows /\ Raised(rows[at]) = "nothing"
        /\ listings' = Append(listings, Listing(rows[at]))
    BY <1>1 DEF AppendRow, Running, PageInv
  <2>2. listings \in Seq({Listing(row) : row \in Row})
    BY DEF PageInv
  <2>3. ASSUME NEW i \in DOMAIN listings'
        PROVE  \E k \in DOMAIN rows :
                  Raised(rows[k]) = "nothing" /\ listings'[i] = Listing(rows[k])
    <3>1. CASE i = Len(listings) + 1
      BY <2>1, <2>2, <3>1
    <3>2. CASE i # Len(listings) + 1
      <4>1. i \in DOMAIN listings /\ listings'[i] = listings[i]
        BY <2>1, <2>2, <2>3, <3>2
      <4> QED
        BY <4>1 DEF FromRows
    <3> QED
      BY <3>1, <3>2
  <2> QED
    BY <2>1, <2>3 DEF FromRows
<1>2. CASE UNCHANGED <<rows, listings>>
  BY <1>2 DEF FromRows
<1> QED
  BY <1>1, <1>2 DEF Next, Normalize, PageNext, SkipRow, EscapeRow, ReturnPage, Appraise, EndScan, vars

LEMMA FromRowsCorrect == Spec => []FromRows
<1>1. Init => FromRows
  BY DEF Init, PageInit, FromRows
<1> QED
  BY <1>1, FromRowsInductive, PageTyped, PTL DEF Spec

\* A listing's shipping cost is unknown only if no option of its row quotes an amount,
\* and else that of the first that does: a free option listed first, or a price after
\* one that cannot be parsed, included (_extract_shipping_cost).
THEOREM ShippingCorrect == Spec => []UnknownMeansNoQuote
<1>1. PageInv /\ FromRows => UnknownMeansNoQuote
  <2> SUFFICES ASSUME PageInv, FromRows, NEW i \in DOMAIN listings
               PROVE  \E row \in ToSet(rows) :
           /\ row.object /\ Listing(row) = listings[i]
           /\ LET quotes == {k \in DOMAIN row.shipping : Quotes(row.shipping[k])}
                  cost == listings[i].shippingCost
              IN  /\ cost.known <=> quotes # {}
                  /\ cost.known => \E first \in quotes :
                        /\ cost.val = row.shipping[first].val
                        /\ \A k \in quotes : first <= k
    BY DEF UnknownMeansNoQuote
  <2>1. PICK n \in DOMAIN rows : Raised(rows[n]) = "nothing" /\ listings[i] = Listing(rows[n])
    BY DEF FromRows
  <2> DEFINE row == rows[n]
  <2>2. row \in Row /\ row \in ToSet(rows)
    BY DEF PageInv, ToSet
  <2>3. row.object
    BY <2>1 DEF Raised
  <2>4. listings[i].shippingCost = ExtractShippingCost(row)
    BY <2>1 DEF Listing
  <2> USE <2>2
  <2> WITNESS row \in ToSet(rows)
  <2> QED
    BY <2>1, <2>3, <2>4, ShippingIsTheFirstQuote
<1> QED
  BY <1>1, PageTyped, FromRowsCorrect, PTL
-----------------------------------------------------------------------------
(* The routes of a search, and the queries it asks.                        *)

LEMMA RouteFields ==
    ASSUME NEW r \in Route
    PROVE  r.limit \in Nat /\ r.stops \in Seq(Stop) /\ r.stops # <<>>
<1>1. r.limit \in UpToMiles(500) /\ r.stops \in Seq(Stop) \ {<<>>}
  BY DEF Route
<1>2. \A n \in Nat : UpToMiles(n) \subseteq Nat
  BY DEF UpToMiles
<1> QED
  BY <1>1, <1>2

LEMMA SearchFields ==
    ASSUME NEW n \in DOMAIN Searches
    PROVE  Searches[n].local \in BOOLEAN /\ Searches[n].routes \in Seq(STRING)
<1> DEFINE Saved == [enabled : BOOLEAN, local : BOOLEAN, routes : Seq(STRING)]
<1>1. Searches[n] \in Saved
  <2>1. Searches \in Seq(Saved)
    BY SearchesAssumption
  <2> HIDE DEF Saved
  <2> QED
    BY <2>1
<1> QED
  BY <1>1

LEMMA RouteByNameIsARoute ==
    ASSUME NEW name \in {r.name : r \in ToSet(Routes)}
    PROVE  RouteByName(name) \in Route
<1> DEFINE named == {i \in 1..Len(Routes) : Routes[i].name = name}
<1>1. DOMAIN Routes = 1..Len(Routes) /\ \A i \in 1..Len(Routes) : Routes[i] \in Route
  BY RoutesAssumption
<1>2. named # {}
  BY <1>1 DEF ToSet
<1>3. Min(named) \in 1..Len(Routes)
  <2>1. named \subseteq Nat /\ named \subseteq 1..Len(Routes)
    OBVIOUS
  <2> HIDE DEF named
  <2> QED
    BY <1>2, <2>1, MinIsLeast
<1>4. RouteByName(name) = Routes[Min(named)]
  BY <1>2 DEF RouteByName, SelectInSeq
<1> QED
  BY <1>1, <1>3, <1>4

LEMMA RoutesForSearch ==
    ASSUME NEW n \in DOMAIN Searches
    PROVE  RoutesFor(Searches[n]) \in Seq(Route)
<1> DEFINE s == Searches[n]
<1>1. s.routes \in Seq(STRING) /\ s \in ToSet(Searches)
  BY SearchFields DEF ToSet
<1>2. ToSet(s.routes) \subseteq {r.name : r \in ToSet(Routes)}
  BY <1>1, ReferencedRoutesExist
<1> HIDE DEF s
<1>3. \A i \in DOMAIN s.routes : RouteByName(s.routes[i]) \in Route
  BY <1>2, RouteByNameIsARoute DEF ToSet
<1>4. [i \in DOMAIN s.routes |-> RouteByName(s.routes[i])] \in Seq(Route)
  BY <1>1, <1>3
<1> QED
  BY <1>4, RoutesAssumption DEF RoutesFor, s

StopsOf(routes) == UNION {ToSet(routes[i].stops) : i \in DOMAIN routes}

LEMMA AnchorsAreStops ==
    ASSUME NEW n \in DOMAIN Searches
    PROVE  Anchors(Searches[n]) \in Seq(StopsOf(RoutesFor(Searches[n])))
<1> DEFINE routes == RoutesFor(Searches[n])
           stops  == StopsOf(routes)
<1>1. routes \in Seq(Route)
  BY RoutesForSearch
<1> HIDE DEF routes
<1>2. ASSUME NEW i \in DOMAIN routes PROVE AnchorPostalCodes(routes[i]) \in Seq(stops)
  <2> DEFINE r == routes[i]
             Code(stop) == IF stop.code = NoCode THEN <<>> ELSE <<stop>>
             codes == [k \in DOMAIN r.stops |-> Code(r.stops[k])]
  <2>1. r.stops \in Seq(Stop)
    <3>1. r \in Route
      BY <1>1
    <3> HIDE DEF r
    <3> QED
      BY <3>1, RouteFields
  <2>2. \A k \in DOMAIN r.stops : r.stops[k] \in stops
    BY DEF StopsOf, ToSet
  <2>3. codes \in Seq(Seq(stops))
    <3>1. \A k \in DOMAIN r.stops : codes[k] \in Seq(stops)
      <4> HIDE DEF stops
      <4> QED
        BY <2>2
    <3>2. DOMAIN codes = 1..Len(r.stops) /\ Len(r.stops) \in Nat
      BY <2>1
    <3>3. codes = [k \in 1..Len(r.stops) |-> codes[k]]
      BY <3>2
    <3> HIDE DEF r, stops, codes
    <3> QED
      BY <3>1, <3>2, <3>3
  <2>4. FlattenSeq(codes) \in Seq(stops)
    <3> HIDE DEF codes, stops
    <3> QED
      BY <2>3, FlattenType
  <2> QED
    BY <2>4 DEF AnchorPostalCodes
<1> HIDE DEF stops
<1>3. [i \in DOMAIN routes |-> AnchorPostalCodes(routes[i])] \in Seq(Seq(stops))
  BY <1>1, <1>2
<1>4. FlattenSeq([i \in DOMAIN routes |-> AnchorPostalCodes(routes[i])]) \in Seq(stops)
  BY <1>3, FlattenType
<1> QED
  BY <1>4 DEF Anchors, routes, stops

\* No circle is wider than a route of the search tolerates.
LEMMA RadiusIsTolerated ==
    ASSUME NEW n \in DOMAIN Searches
    PROVE  LET routes == RoutesFor(Searches[n])
           IN  /\ Radius(Searches[n]) \in Nat
               /\ \A i \in DOMAIN routes : 100 * Radius(Searches[n]) <= routes[i].limit
<1> DEFINE routes == RoutesFor(Searches[n])
           limits == {r.limit : r \in ToSet(routes)}
<1>1. routes \in Seq(Route)
  BY RoutesForSearch
<1> HIDE DEF routes
<1>2. Radius(Searches[n]) = IF routes = <<>> THEN 25 ELSE Min(limits) \div 100
  BY DEF Radius, routes
<1>3. CASE routes = <<>>
  BY <1>2, <1>3 DEF routes
<1>4. CASE routes # <<>>
  <2>1. limits \subseteq Nat /\ limits # {}
    <3>1. 1 \in DOMAIN routes
      BY <1>1, <1>4
    <3>2. \A i \in DOMAIN routes : routes[i].limit \in Nat
      <4> TAKE i \in DOMAIN routes
      <4>1. routes[i] \in Route
        BY <1>1
      <4> QED
        BY <4>1, RouteFields
    <3> QED
      BY <3>1, <3>2 DEF ToSet
  <2> DEFINE least == Min(limits)
  <2>2. least \in Nat /\ \A m \in limits : least <= m
    <3> HIDE DEF limits
    <3> QED
      BY <2>1, MinIsLeast
  <2> HIDE DEF least
  <2>3. least \div 100 \in Nat /\ (least \div 100) * 100 <= least
    BY <2>2, Quotient
  <2>4. \A i \in DOMAIN routes : routes[i].limit \in limits /\ routes[i].limit \in Nat
    BY <2>1 DEF ToSet
  <2>5. Radius(Searches[n]) = least \div 100
    BY <1>2, <1>4 DEF least
  <2> HIDE DEF limits
  <2> QED
    BY <2>2, <2>3, <2>4, <2>5 DEF routes
<1> QED
  BY <1>3, <1>4

Asked == {q \in [search : DOMAIN Searches, local : BOOLEAN, center : Point, radius : Nat] :
             LET routes == RoutesFor(Searches[q.search])
             IN  /\ q.radius = Radius(Searches[q.search])
                 /\ q.local => \E stop \in StopsOf(routes) : q.center = stop.at}

LEMMA QueriesAreAsked == Queries \in Seq(Asked)
<1>1. ASSUME NEW n \in DOMAIN Searches PROVE QueriesOf(n) \in Seq(Asked)
  <2> DEFINE s == Searches[n]
             anchors == Anchors(s)
  <2>1. anchors \in Seq(StopsOf(RoutesFor(s)))
    BY AnchorsAreStops
  <2>2. \A stop \in StopsOf(RoutesFor(s)) : stop.at \in Point
    <3>1. RoutesFor(s) \in Seq(Route)
      BY RoutesForSearch
    <3>2. \A i \in DOMAIN RoutesFor(s) : RoutesFor(s)[i].stops \in Seq(Stop)
      <4> TAKE i \in DOMAIN RoutesFor(s)
      <4>1. RoutesFor(s)[i] \in Route
        BY <3>1
      <4> QED
        BY <4>1, RouteFields
    <3>3. \A i \in DOMAIN RoutesFor(s) : \A k \in DOMAIN RoutesFor(s)[i].stops :
             RoutesFor(s)[i].stops[k] \in Stop
      BY <3>2
    <3> QED
      BY <3>3 DEF StopsOf, ToSet, Stop
  <2>3. Radius(s) \in Nat
    BY RadiusIsTolerated
  <2> DEFINE one == [search |-> n, local |-> FALSE, center |-> <<0, 0>>, radius |-> Radius(s)]
             Around(i) == [search |-> n, local |-> TRUE, center |-> anchors[i].at, radius |-> Radius(s)]
  <2>4. one \in Asked
    <3>1. <<0, 0>> \in Point
      BY DEF Point
    <3> QED
      BY <2>3, <3>1 DEF Asked
  <2>5. ASSUME NEW i \in DOMAIN anchors PROVE Around(i) \in Asked
    <3>1. anchors[i] \in StopsOf(RoutesFor(s))
      BY <2>1
    <3>2. anchors[i].at \in Point
      BY <2>2, <3>1
    <3> QED
      BY <2>3, <3>1, <3>2 DEF Asked
  <2> HIDE DEF anchors, one, Around
  <2>6. [i \in DOMAIN anchors |-> Around(i)] \in Seq(Asked) /\ <<one>> \in Seq(Asked)
    BY <2>1, <2>4, <2>5
  <2>7. QueriesOf(n) = IF anchors = <<>> THEN <<one>> ELSE [i \in DOMAIN anchors |-> Around(i)]
    BY DEF QueriesOf, anchors, one, Around
  <2> QED
    BY <2>6, <2>7
<1> DEFINE all == [n \in DOMAIN Searches |-> IF Searches[n].enabled THEN QueriesOf(n) ELSE <<>>]
<1>2. all \in Seq(Seq(Asked))
  <2>1. \A n \in DOMAIN Searches : all[n] \in Seq(Asked)
    BY <1>1
  <2>2. DOMAIN Searches = 1..Len(Searches) /\ Len(Searches) \in Nat
    BY SearchesAssumption
  <2>3. DOMAIN all = DOMAIN Searches /\ all = [n \in DOMAIN Searches |-> all[n]]
    OBVIOUS
  <2> HIDE DEF all
  <2> QED
    BY <2>1, <2>2, <2>3
<1>3. FlattenSeq(all) \in Seq(Asked)
  <2> HIDE DEF all
  <2> QED
    BY <1>2, FlattenType
<1> QED
  BY <1>3 DEF Queries
-----------------------------------------------------------------------------
(* Places.                                                                 *)

Place == {place \in [base : Nat \cup {NoMiles}, detours : Seq(Nat), limits : Seq(Nat),
                     helper : 0..Len(Helpers), territory : BOOLEAN] :
              Len(place.limits) = Len(place.detours)}

LEMMA NowhereIsAPlace == Nowhere \in Place
<1>1. 0 \in 0..Len(Helpers)
  BY PlacesAssumption
<1>2. <<>> \in Seq(Nat)
  OBVIOUS
<1> QED
  BY <1>1, <1>2 DEF Nowhere, Place, NoMiles

LEMMA NearestIsACandidate ==
    ASSUME NEW p \in Point, NEW places, NEW candidates, candidates \subseteq Nat, candidates # {},
           \A i \in candidates : places[i].at \in Point
    PROVE  Nearest(p, places, candidates) \in candidates
<1> DEFINE distances == {Miles(p, places[i].at) : i \in candidates}
           closest == {i \in candidates :
                          \A j \in candidates : Miles(p, places[i].at) <= Miles(p, places[j].at)}
<1>1. distances \subseteq Nat /\ distances # {}
  BY DistanceIsNat
<1>2. Min(distances) \in distances /\ \A d \in distances : Min(distances) <= d
  <2> HIDE DEF distances
  <2> QED
    BY <1>1, MinIsLeast
<1>3. closest # {}
  <2>1. PICK i \in candidates : Min(distances) = Miles(p, places[i].at)
    BY <1>2
  <2>2. \A j \in candidates : Miles(p, places[j].at) \in distances
    OBVIOUS
  <2> HIDE DEF distances
  <2>3. i \in closest
    BY <1>2, <2>1, <2>2
  <2> QED
    BY <2>3
<1>4. Min(closest) \in closest
  <2>1. closest \subseteq Nat
    OBVIOUS
  <2> HIDE DEF closest
  <2> QED
    BY <1>3, <2>1, MinIsLeast
<1>5. Nearest(p, places, candidates) = Min(closest)
  BY DEF Nearest
<1> HIDE DEF distances
<1> QED
  BY <1>4, <1>5

LEMMA PlaceIsTyped ==
    ASSUME NEW p \in Point, NEW n \in DOMAIN Searches
    PROVE  LET routes == RoutesFor(Searches[n])
               place  == PlaceAt(p, routes)
           IN  /\ place \in Place
               /\ Len(place.detours) = Len(routes)
               /\ \A i \in DOMAIN routes :
                     /\ place.limits[i] = routes[i].limit
                     /\ \A stop \in ToSet(routes[i].stops) : place.detours[i] <= Miles(p, stop.at)
<1> DEFINE routes == RoutesFor(Searches[n])
           Stops(route) == [k \in DOMAIN route.stops |-> route.stops[k].at]
           base == NearestBase(p, Bases)
           helper == NearestHelper(p, Helpers)
           place == PlaceAt(p, routes)
<1>1. routes \in Seq(Route) /\ \A i \in DOMAIN routes : routes[i] \in Route
  BY RoutesForSearch
<1>2. place = [base      |-> IF base = 0 THEN NoMiles ELSE Miles(p, Bases[base].at),
               detours   |-> [i \in DOMAIN routes |-> DetourMiles(p, Stops(routes[i]))],
               limits    |-> [i \in DOMAIN routes |-> routes[i].limit],
               helper    |-> helper,
               territory |-> \E a \in ToSet(ServiceAreas) : Covers(a, p)]
  BY DEF PlaceAt
<1> HIDE DEF routes, place
<1>3. ASSUME NEW r \in Route
      PROVE  /\ DetourMiles(p, Stops(r)) \in Nat
             /\ \A stop \in ToSet(r.stops) : DetourMiles(p, Stops(r)) <= Miles(p, stop.at)
  <2>1. r.stops \in Seq(Stop) /\ r.stops # <<>>
    BY RouteFields
  <2>2. \A k \in DOMAIN r.stops : r.stops[k].at \in Point
    <3> TAKE k \in DOMAIN r.stops
    <3>1. r.stops[k] \in Stop
      BY <2>1
    <3> QED
      BY <3>1 DEF Stop
  <2> DEFINE points == Stops(r)
  <2>3. points \in Seq(Point) /\ points # <<>> /\ DOMAIN points = DOMAIN r.stops
    BY <2>1, <2>2
  <2>4. \A k \in DOMAIN r.stops : points[k] = r.stops[k].at
    OBVIOUS
  <2> HIDE DEF points
  <2>5. /\ DetourMiles(p, points) \in Nat
        /\ \A k \in DOMAIN points : DetourMiles(p, points) <= Miles(p, points[k])
    BY <2>3, DetourIsWithin
  <2> QED
    BY <2>3, <2>4, <2>5 DEF points, ToSet
<1> HIDE DEF Stops
<1>4. \A i \in DOMAIN routes : /\ DetourMiles(p, Stops(routes[i])) \in Nat
                               /\ routes[i].limit \in Nat
  BY <1>1, <1>3, RouteFields
<1>5. (IF base = 0 THEN NoMiles ELSE Miles(p, Bases[base].at)) \in Nat \cup {NoMiles}
  <2>1. DOMAIN Bases \subseteq Nat
    BY PlacesAssumption
  <2>2. \A i \in DOMAIN Bases : Bases[i].at \in Point
    <3> TAKE i \in DOMAIN Bases
    <3> DEFINE Base == [at : Point]
    <3>1. Bases \in Seq(Base)
      BY PlacesAssumption
    <3> HIDE DEF Base
    <3>2. Bases[i] \in Base
      BY <3>1
    <3> QED
      BY <3>2 DEF Base
  <2>3. CASE DOMAIN Bases = {}
    BY <2>3 DEF NearestBase, Nearest
  <2>4. CASE DOMAIN Bases # {}
    <3>1. base \in DOMAIN Bases
      BY <2>1, <2>2, <2>4, NearestIsACandidate DEF NearestBase
    <3> HIDE DEF base
    <3> QED
      BY <2>2, <3>1, DistanceIsNat
  <2> QED
    BY <2>3, <2>4
<1>6. helper \in 0..Len(Helpers)
  <2> DEFINE able == {h \in DOMAIN Helpers : Miles(p, Helpers[h].at) <= Helpers[h].maxDetour}
             Helper == [name : STRING, at : Point, maxDetour : UpToMiles(200), favor : Nat]
  <2>1. Helpers \in Seq(Helper)
    BY PlacesAssumption
  <2> HIDE DEF Helper
  <2>2. DOMAIN Helpers = 1..Len(Helpers) /\ Len(Helpers) \in Nat
    BY <2>1
  <2>3. \A h \in DOMAIN Helpers : Helpers[h].at \in Point
    <3> TAKE h \in DOMAIN Helpers
    <3>1. Helpers[h] \in Helper
      BY <2>1
    <3> QED
      BY <3>1 DEF Helper
  <2>4. helper = Nearest(p, Helpers, able)
    BY DEF NearestHelper
  <2>5. able \subseteq DOMAIN Helpers
    OBVIOUS
  <2> HIDE DEF able, helper
  <2>6. CASE able = {}
    BY <2>2, <2>4, <2>6 DEF Nearest
  <2>7. CASE able # {}
    <3>1. able \subseteq Nat /\ \A h \in able : Helpers[h].at \in Point
      BY <2>2, <2>3, <2>5
    <3> QED
      BY <2>2, <2>4, <2>5, <2>7, <3>1, NearestIsACandidate
  <2> QED
    BY <2>6, <2>7
<1> HIDE DEF base, helper
<1> DEFINE detours == [i \in DOMAIN routes |-> DetourMiles(p, Stops(routes[i]))]
           limits  == [i \in DOMAIN routes |-> routes[i].limit]
<1>7. /\ detours \in Seq(Nat) /\ Len(detours) = Len(routes)
      /\ limits \in Seq(Nat) /\ Len(limits) = Len(routes)
  <2>1. DOMAIN routes = 1..Len(routes) /\ Len(routes) \in Nat
    BY <1>1
  <2> QED
    BY <1>4, <2>1
<1>8. place \in Place /\ Len(place.detours) = Len(routes)
  <2> DEFINE miles  == IF base = 0 THEN NoMiles ELSE Miles(p, Bases[base].at)
             within == \E a \in ToSet(ServiceAreas) : Covers(a, p)
  <2>1. within \in BOOLEAN
    OBVIOUS
  <2>2. place = [base |-> miles, detours |-> detours, limits |-> limits, helper |-> helper,
                 territory |-> within]
    BY <1>2
  <2>3. miles \in Nat \cup {NoMiles}
    BY <1>5
  <2> HIDE DEF detours, limits, miles, within
  <2> QED
    BY <1>6, <1>7, <2>1, <2>2, <2>3 DEF Place
<1>9. ASSUME NEW i \in DOMAIN routes
      PROVE  /\ place.limits[i] = routes[i].limit
             /\ \A stop \in ToSet(routes[i].stops) : place.detours[i] <= Miles(p, stop.at)
  <2>1. place.limits[i] = routes[i].limit /\ place.detours[i] = DetourMiles(p, Stops(routes[i]))
    BY <1>2
  <2>2. routes[i] \in Route
    BY <1>1
  <2> QED
    BY <1>3, <2>1, <2>2
<1> QED
  BY <1>8, <1>9 DEF routes, place

\* The nearest route is the one of the least detour.
LEMMA NearestRouteIsLeast ==
    ASSUME NEW place \in Place
    PROVE  /\ place.detours = <<>> => NearestRoute(place) = 0 /\ Detour(place) = NoMiles
           /\ place.detours # <<>> =>
                 /\ NearestRoute(place) \in DOMAIN place.detours
                 /\ Detour(place) = place.detours[NearestRoute(place)]
                 /\ Detour(place) \in Nat
                 /\ \A i \in DOMAIN place.detours : Detour(place) <= place.detours[i]
<1> DEFINE detours == place.detours
           least == {k \in 1..Len(detours) : \A i \in DOMAIN detours : detours[k] <= detours[i]}
<1>1. /\ detours \in Seq(Nat) /\ DOMAIN detours = 1..Len(detours) /\ Len(detours) \in Nat
      /\ \A i \in DOMAIN detours : detours[i] \in Nat
  BY DEF Place
<1>2. NearestRoute(place) = IF least # {} THEN Min(least) ELSE 0
  BY DEF NearestRoute, SelectInSeq
<1> HIDE DEF detours
<1>3. CASE detours = <<>>
  <2>1. least = {}
    BY <1>1, <1>3
  <2> QED
    BY <1>2, <1>3, <2>1 DEF Detour, detours
<1>4. CASE detours # <<>>
  <2> DEFINE values == {detours[i] : i \in DOMAIN detours}
  <2>1. values \subseteq Nat /\ values # {}
    BY <1>1, <1>4
  <2>2. Min(values) \in values /\ \A d \in values : Min(values) <= d
    <3> HIDE DEF values
    <3> QED
      BY <2>1, MinIsLeast
  <2>3. least # {}
    <3>1. PICK k \in DOMAIN detours : Min(values) = detours[k]
      BY <2>2
    <3>2. \A i \in DOMAIN detours : detours[i] \in values
      OBVIOUS
    <3> HIDE DEF values
    <3>3. k \in least
      BY <1>1, <2>2, <3>1, <3>2
    <3> QED
      BY <3>3
  <2>4. Min(least) \in least
    <3>1. least \subseteq Nat
      OBVIOUS
    <3> HIDE DEF least
    <3> QED
      BY <2>3, <3>1, MinIsLeast
  <2> DEFINE first == Min(least)
  <2>5. /\ first \in DOMAIN detours /\ first # 0 /\ detours[first] \in Nat
        /\ \A i \in DOMAIN detours : detours[first] <= detours[i]
    BY <1>1, <2>4
  <2>6. NearestRoute(place) = first
    BY <1>2, <2>3
  <2> HIDE DEF first, least, values
  <2>7. Detour(place) = detours[first]
    BY <2>5, <2>6 DEF Detour, detours
  <2> QED
    BY <1>4, <2>5, <2>6, <2>7 DEF detours
<1> QED
  BY <1>3, <1>4 DEF detours
-----------------------------------------------------------------------------
(* The cost of a pickup is a number of cents.                              *)

Near(place) == place.base # NoMiles /\ place.base <= OneWayLimit

LEMMA EconomicsTyped ==
    /\ Economics.mpg \in Nat \ {0} /\ Economics.fuelPrice \in Nat
    /\ Economics.hourly \in Nat /\ Economics.mph \in Nat \ {0}
    /\ FeeRate \in Nat /\ FeeRate <= 10000
<1>1. \A n \in Nat : \A r \in 0..n : r \in Nat /\ r <= n
  OBVIOUS
<1>2. Unity \in Nat /\ FeeRate \in 0..Unity
  BY EconomicsAssumption DEF Rate, Unity
<1>3. FeeRate \in Nat /\ FeeRate <= Unity
  BY <1>1, <1>2
<1> QED
  BY <1>3, EconomicsAssumption DEF Unity

LEMMA ProductIsPositive ==
    ASSUME NEW m \in Nat \ {0}, NEW n \in Nat \ {0}
    PROVE  m * n \in Nat \ {0}
<1>1. m * n >= m * 1
  BY Larger
<1> QED
  BY <1>1

\* What is charged by the mile: from the base for a quick pickup, and off the route.
LEMMA OneWayIsNat ==
    ASSUME NEW place \in Place
    PROVE  /\ OneWay(place) \in Nat
           /\ Tier(place) = "quick" => OneWay(place) = 10 * HalfEven(place.base, 10)
           /\ Tier(place) # "quick" =>
                 OneWay(place) = IF place.detours = <<>> THEN 0 ELSE Detour(place)
<1>1. CASE Tier(place) = "quick"
  <2>1. place.base \in Nat
    BY <1>1 DEF Tier, Place
  <2>2. /\ HalfEven(place.base, 10) \in Int
        /\ 2 * place.base <= 2 * (10 * HalfEven(place.base, 10)) + 10
    BY <2>1, NearestEven
  <2>3. OneWay(place) = 10 * HalfEven(place.base, 10)
    BY <1>1 DEF OneWay
  <2> HIDE DEF OneWay
  <2> QED
    BY <1>1, <2>1, <2>2, <2>3
<1>2. CASE Tier(place) # "quick" /\ place.detours = <<>>
  <2>1. Detour(place) = NoMiles
    BY <1>2, NearestRouteIsLeast
  <2> QED
    BY <1>2, <2>1 DEF OneWay
<1>3. CASE Tier(place) # "quick" /\ place.detours # <<>>
  <2>1. Detour(place) \in Nat
    BY <1>3, NearestRouteIsLeast
  <2>2. Detour(place) # NoMiles
    BY <2>1 DEF NoMiles
  <2> QED
    BY <1>3, <2>1, <2>2 DEF OneWay
<1> QED
  BY <1>1, <1>2, <1>3

LEMMA FavorIsNat ==
    ASSUME NEW place \in Place, Tier(place) = "helper"
    PROVE  /\ place.helper \in DOMAIN Helpers
           /\ FavorCost(place) \in Nat
           /\ \E h \in DOMAIN Helpers : /\ Helpers[h].name = Helpers[place.helper].name
                                        /\ FavorCost(place) = Helpers[h].favor
<1> DEFINE Helper == [name : STRING, at : Point, maxDetour : UpToMiles(200), favor : Nat]
           named == {h \in 1..Len(Helpers) : Helpers[h].name = Helpers[place.helper].name}
<1>1. Helpers \in Seq(Helper)
  BY PlacesAssumption
<1>2. \A h \in DOMAIN Helpers : Helpers[h].favor \in Nat
  <2> TAKE h \in DOMAIN Helpers
  <2> HIDE DEF Helper
  <2>1. Helpers[h] \in Helper
    BY <1>1
  <2> QED
    BY <2>1 DEF Helper
<1> HIDE DEF Helper
<1>3. DOMAIN Helpers = 1..Len(Helpers) /\ Len(Helpers) \in Nat
  BY <1>1
<1>4. place.helper \in 0..Len(Helpers) /\ place.helper # 0
  BY DEF Tier, Place
<1>5. place.helper \in DOMAIN Helpers /\ place.helper \in named
  BY <1>3, <1>4
<1>6. Min(named) \in named
  <2>1. named \subseteq Nat
    OBVIOUS
  <2> HIDE DEF named
  <2> QED
    BY <1>5, <2>1, MinIsLeast
<1>7. FavorCost(place) = Helpers[Min(named)].favor
  <2>1. named # {}
    BY <1>5
  <2> QED
    BY <2>1 DEF FavorCost, SelectInSeq
<1> DEFINE first == Min(named)
<1>8. first \in DOMAIN Helpers /\ Helpers[first].name = Helpers[place.helper].name
  BY <1>3, <1>6
<1> HIDE DEF first
<1> QED
  BY <1>2, <1>5, <1>7, <1>8 DEF first

LEMMA DriveIsWhole ==
    ASSUME NEW place \in Place
    PROVE  DriveCost(place) \in Int
<1> DEFINE e == Economics
           fuel == e.fuelPrice * e.mph
           time == IF OnRoute(place) \/ Tier(place) \in {"quick", "in_territory"}
                   THEN 0 ELSE e.hourly * e.mpg
<1>1. fuel \in Nat /\ time \in Nat
  BY EconomicsTyped
<1>2. 100 * e.mpg * e.mph \in Nat \ {0}
  BY EconomicsTyped, ProductIsPositive
<1>3. DriveCost(place) = IF Tier(place) = "helper" THEN FavorCost(place)
                         ELSE HalfEven(2 * OneWay(place) * (fuel + time), 100 * e.mpg * e.mph)
  BY DEF DriveCost
<1> HIDE DEF fuel, time
<1>4. 2 * OneWay(place) * (fuel + time) \in Int
  BY <1>1, OneWayIsNat
<1>5. CASE Tier(place) = "helper"
  BY <1>3, <1>5, FavorIsNat
<1>6. CASE Tier(place) # "helper"
  <2> DEFINE n == 2 * OneWay(place) * (fuel + time)
             d == 100 * e.mpg * e.mph
  <2>1. n \in Int /\ d \in Nat \ {0}
    BY <1>2, <1>4
  <2>2. DriveCost(place) = HalfEven(n, d)
    BY <1>3, <1>6
  <2> HIDE DEF n, d
  <2> QED
    BY <2>1, <2>2, NearestEven
<1> QED
  BY <1>5, <1>6

-----------------------------------------------------------------------------
(* What has been appraised: the first listings, each where it is.          *)

AppraisalOf(l) ==
    IF l.sourceItemId.known THEN ScoreCandidate(l.price, l.shippingCost, PlaceOf(l))
    ELSE NotConsidered

ScoredInv ==
    /\ query \in Asked
    /\ \A i \in DOMAIN rows : Answers(rows[i])
    /\ outcome # "returned" => appraisals = <<>>
    /\ appraisals \in Seq({AppraisalOf(listings[i]) : i \in DOMAIN listings})
    /\ Len(appraisals) <= Len(listings)
    /\ \A i \in DOMAIN appraisals : appraisals[i] = AppraisalOf(listings[i])

LEMMA ScoredInit == Init => ScoredInv
<1> SUFFICES ASSUME Init PROVE ScoredInv
  OBVIOUS
<1>1. query \in Asked
  <2>1. query \in ToSet(Queries)
    BY DEF Init
  <2> QED
    BY <2>1, QueriesAreAsked DEF ToSet
<1>2. /\ \A i \in DOMAIN rows : Answers(rows[i])
      /\ appraisals = <<>> /\ listings = <<>> /\ outcome = "running"
  BY DEF Init, PageInit
<1> QED
  BY <1>1, <1>2 DEF ScoredInv

LEMMA ScoredInductive == PageInv /\ ScoredInv /\ [Next]_vars => ScoredInv'
<1> SUFFICES ASSUME PageInv, ScoredInv, [Next]_vars
             PROVE  ScoredInv'
  OBVIOUS
<1>0. query' = query /\ rows' = rows
  BY DEF Next, Normalize, PageNext, AppendRow, SkipRow, EscapeRow, ReturnPage, Appraise, EndScan, vars
<1>1. query' \in Asked /\ \A i \in DOMAIN rows' : Answers(rows[i])'
  BY <1>0 DEF ScoredInv, Answers
<1>2. CASE Normalize
  <2>1. appraisals = <<>> /\ appraisals' = <<>>
    BY <1>2 DEF ScoredInv, Normalize, PageNext, AppendRow, SkipRow, EscapeRow, ReturnPage, Running
  <2>2. listings' \in Seq({Listing(row) : row \in Row})
    <3>1. PageInv'
      BY PageInductive
    <3> QED
      BY <3>1 DEF PageInv
  <2>3. Len(listings') \in Nat
    BY <2>2
  <2> QED
    BY <1>1, <2>1, <2>3 DEF ScoredInv
<1>3. CASE Appraise
  <2> DEFINE here == Len(appraisals) + 1
             Values == {AppraisalOf(listings[i]) : i \in DOMAIN listings}
             value == AppraisalOf(listings[here])
  <2>1. /\ listings' = listings /\ outcome' = outcome /\ outcome = "returned"
        /\ Len(appraisals) < Len(listings)
        /\ appraisals' = Append(appraisals, value)
    BY <1>3 DEF Appraise, Scanning, Current, AppraisalOf
  <2>2. listings \in Seq({Listing(row) : row \in Row})
    BY DEF PageInv
  <2>3. appraisals \in Seq(Values) /\ \A i \in DOMAIN appraisals : appraisals[i] = AppraisalOf(listings[i])
    BY DEF ScoredInv
  <2>4. here \in DOMAIN listings
    BY <2>1, <2>2, <2>3
  <2>5. value \in Values
    BY <2>4
  <2> HIDE DEF Values, value
  <2>6. /\ appraisals' \in Seq(Values) /\ Len(appraisals') <= Len(listings)
        /\ \A i \in DOMAIN appraisals' : \/ i \in DOMAIN appraisals /\ appraisals'[i] = appraisals[i]
                                         \/ i = here /\ appraisals'[i] = value
    BY <2>1, <2>2, <2>3, <2>5
  <2>7. \A l : AppraisalOf(l)' = AppraisalOf(l)
    BY <1>0 DEF AppraisalOf, PlaceOf
  <2>8. \A i \in DOMAIN appraisals' : appraisals'[i] = AppraisalOf(listings[i])
    BY <2>3, <2>6 DEF value
  <2>9. Values' = Values
    BY <2>1, <2>7 DEF Values
  <2> QED
    BY <1>1, <2>1, <2>6, <2>7, <2>8, <2>9 DEF ScoredInv, Values
<1>4. CASE EndScan \/ UNCHANGED vars
  <2>1. /\ listings' = listings /\ outcome' = outcome /\ appraisals' = appraisals
    BY <1>4 DEF EndScan, vars
  <2>2. \A l : AppraisalOf(l)' = AppraisalOf(l)
    BY <1>0 DEF AppraisalOf, PlaceOf
  <2> QED
    BY <1>1, <2>1, <2>2 DEF ScoredInv
<1> QED
  BY <1>2, <1>3, <1>4 DEF Next

LEMMA ScoredCorrect == Spec => []ScoredInv
  BY ScoredInit, ScoredInductive, PageTyped, PTL DEF Spec

\* A located listing is at a point eBay gave, inside the circle it was asked about.
LEMMA ListingIsPlaced ==
    ASSUME PageInv, FromRows, ScoredInv, NEW i \in DOMAIN listings
    PROVE  /\ query.search \in DOMAIN Searches
           /\ PlaceOf(listings[i]) \in Place
           /\ Located(listings[i]) =>
                 /\ PointOf(listings[i]) \in Points /\ PointOf(listings[i]) \in Point
                 /\ PlaceOf(listings[i]) = PlaceAt(PointOf(listings[i]), RoutesFor(Searches[query.search]))
                 /\ InCircle(PointOf(listings[i]), query)
<1>1. query.search \in DOMAIN Searches
  BY DEF ScoredInv, Asked
<1> DEFINE l == listings[i]
<1>2. PICK k \in DOMAIN rows : l = Listing(rows[k])
  BY DEF FromRows
<1>3. l.latitude = ToFloat(rows[k].latitude) /\ l.longitude = ToFloat(rows[k].longitude)
  BY <1>2 DEF Listing
<1>4. Answers(rows[k])
  BY DEF ScoredInv
<1> HIDE DEF l
<1>5. Located(l) => PointOf(l) \in Points /\ InCircle(PointOf(l), query)
  <2> DEFINE lon == rows[k].longitude
             lat == rows[k].latitude
  <2> SUFFICES ASSUME Located(l) PROVE PointOf(l) \in Points /\ InCircle(PointOf(l), query)
    OBVIOUS
  <2>1. \A v : ToFloat(v).known => /\ v.form # "none" /\ v.class \in {"finite", "long"}
                                  /\ ToFloat(v).val = v.val
    BY DEF ToFloat, None, Some, Raise
  <2>2. ToFloat(lon).known /\ ToFloat(lat).known /\ PointOf(l) = <<ToFloat(lon).val, ToFloat(lat).val>>
    BY <1>3 DEF Located, PointOf
  <2>3. PointOf(l) = <<lon.val, lat.val>>
    BY <2>1, <2>2
  <2>4. \A v \in {lon, lat} : v.form # "none" /\ v.class \in {"finite", "long"}
    BY <2>1, <2>2
  <2> QED
    BY <1>4, <2>3, <2>4 DEF Answers
<1>6. CASE ~Located(l)
  BY <1>1, <1>6, NowhereIsAPlace DEF PlaceOf, l
<1>7. CASE Located(l)
  <2>1. PointOf(l) \in Point
    BY <1>5, <1>7, PointsAssumption
  <2>2. PlaceOf(l) = Map[PointOf(l)][query.search]
    BY <1>7 DEF PlaceOf
  <2>3. Map[PointOf(l)][query.search] = PlaceAt(PointOf(l), RoutesFor(Searches[query.search]))
    BY <1>1, <1>5, <1>7 DEF Map
  <2>4. PlaceOf(l) \in Place
    BY <1>1, <2>1, <2>2, <2>3, PlaceIsTyped
  <2> QED
    BY <1>1, <1>5, <1>7, <2>1, <2>2, <2>3, <2>4 DEF l
<1> QED
  BY <1>6, <1>7
LEMMA AppraisedIsListed ==
    ASSUME PageInv, ScoredInv, NEW i \in DOMAIN appraisals
    PROVE  i \in DOMAIN listings
<1>1. /\ appraisals \in Seq({AppraisalOf(listings[k]) : k \in DOMAIN listings})
      /\ Len(appraisals) <= Len(listings)
  BY DEF ScoredInv
<1>2. listings \in Seq({Listing(row) : row \in Row})
  BY DEF PageInv
<1> QED
  BY <1>1, <1>2

-----------------------------------------------------------------------------
(* Finds of a local-pickup query.                                          *)

\* The detour from the stop eBay was asked about is within the circle, that from the
\* nearest route no more, and every route of the search tolerates the circle.
LEMMA AskedAroundIsOnRoute ==
    ASSUME query \in Asked, query.local, NEW p \in Point, InCircle(p, query),
           NEW place, place = PlaceAt(p, RoutesFor(Searches[query.search]))
    PROVE  OnRoute(place) /\ Detour(place) <= 100 * query.radius
<1> DEFINE n == query.search
           routes == RoutesFor(Searches[n])
           width == 100 * query.radius
<1>1. n \in DOMAIN Searches /\ query.radius = Radius(Searches[n]) /\ query.center \in Point
  BY DEF Asked
<1>2. PICK stop \in StopsOf(routes) : query.center = stop.at
  BY DEF Asked
<1>3. PICK i \in DOMAIN routes : stop \in ToSet(routes[i].stops)
  BY DEF StopsOf
<1>4. Miles(p, stop.at) <= width
  <2>1. Miles(query.center, p) <= width
    BY DEF InCircle
  <2> QED
    BY <1>1, <1>2, <2>1, DistanceIsNat
<1>5. /\ place \in Place /\ Len(place.detours) = Len(routes)
      /\ \A k \in DOMAIN routes :
            /\ place.limits[k] = routes[k].limit
            /\ \A s \in ToSet(routes[k].stops) : place.detours[k] <= Miles(p, s.at)
  BY <1>1, PlaceIsTyped
<1>6. \A k \in DOMAIN routes : routes[k].limit \in Nat /\ width <= routes[k].limit
  <2>1. \A k \in DOMAIN routes : routes[k] \in Route
    BY <1>1, RoutesForSearch
  <2> QED
    BY <1>1, <2>1, RouteFields, RadiusIsTolerated
<1>7. place.detours \in Seq(Nat)
  BY <1>5 DEF Place
<1>8. routes \in Seq(Route)
  BY <1>1, RoutesForSearch
<1> HIDE DEF routes
<1>9. DOMAIN place.detours = DOMAIN routes
  BY <1>5, <1>7, <1>8
<1>10. place.detours[i] <= width
  <2>1. place.detours[i] <= Miles(p, stop.at)
    BY <1>3, <1>5
  <2>2. /\ place.detours[i] \in Nat /\ width \in Nat
        /\ Miles(p, stop.at) \in Nat
    <3>1. query.radius \in Nat
      BY DEF Asked
    <3> QED
      BY <1>1, <1>2, <1>7, <1>9, <3>1, DistanceIsNat
  <2> HIDE DEF width
  <2> QED
    BY <1>4, <2>1, <2>2
<1>11. place.detours # <<>>
  BY <1>3, <1>9
<1>12. /\ NearestRoute(place) \in DOMAIN place.detours /\ NearestRoute(place) # 0
       /\ Detour(place) = place.detours[NearestRoute(place)]
       /\ Detour(place) \in Nat
       /\ \A k \in DOMAIN place.detours : Detour(place) <= place.detours[k]
  BY <1>5, <1>11, NearestRouteIsLeast
<1>13. Detour(place) <= width
  <2>1. Detour(place) <= place.detours[i] /\ place.detours[i] \in Nat /\ width \in Int
    <3>1. query.radius \in Nat
      BY DEF Asked
    <3> QED
      BY <1>7, <1>9, <1>12, <3>1
  <2> HIDE DEF width
  <2> QED
    BY <1>10, <1>12, <2>1
<1>14. Detour(place) <= place.limits[NearestRoute(place)]
  <2> DEFINE k == NearestRoute(place)
  <2>1. k \in DOMAIN routes
    BY <1>9, <1>12
  <2>2. place.limits[k] \in Nat /\ width <= place.limits[k] /\ width \in Int
    <3>1. query.radius \in Nat
      BY DEF Asked
    <3> QED
      BY <1>5, <1>6, <2>1, <3>1
  <2> HIDE DEF width
  <2> QED
    BY <1>12, <1>13, <2>2
<1> QED
  BY <1>12, <1>13, <1>14 DEF OnRoute

\* What a local-pickup query finds can be collected on a trip made anyway, whichever
\* route is nearest (pickup_radius_miles, anchor_postal_codes, classify_pickup).
THEOREM LocalFindsCorrect == Spec => []LocalFindsNeedNoTripOfTheirOwn
<1>1. PageInv /\ FromRows /\ ScoredInv => LocalFindsNeedNoTripOfTheirOwn
  <2> SUFFICES ASSUME PageInv, FromRows, ScoredInv,
                      NEW i \in DOMAIN appraisals, query.local, Located(listings[i])
               PROVE  LET place == PlaceOf(listings[i])
                      IN  /\ Tier(place) \in {"quick", "helper", "on_route"}
                          /\ OnRoute(place)
                          /\ Detour(place) <= 100 * query.radius
    BY DEF LocalFindsNeedNoTripOfTheirOwn
  <2> DEFINE place == PlaceOf(listings[i])
  <2>1. i \in DOMAIN listings
    BY AppraisedIsListed
  <2>2. /\ PointOf(listings[i]) \in Point
        /\ place = PlaceAt(PointOf(listings[i]), RoutesFor(Searches[query.search]))
        /\ InCircle(PointOf(listings[i]), query)
    BY <2>1, ListingIsPlaced
  <2>3. query \in Asked
    BY DEF ScoredInv
  <2>4. OnRoute(place) /\ Detour(place) <= 100 * query.radius
    BY <2>2, <2>3, AskedAroundIsOnRoute
  <2>5. Tier(place) \in {"quick", "helper", "on_route"}
    <3> HIDE DEF place
    <3> QED
      BY <2>4 DEF Tier
  <2> QED
    BY <2>4, <2>5
<1> QED
  BY <1>1, PageTyped, FromRowsCorrect, ScoredCorrect, PTL
-----------------------------------------------------------------------------
(* Scores.                                                                 *)

LEMMA SearchTyped ==
    /\ Search.resale \in Nat \cup {-1} /\ Search.minMultiple \in Nat \ {0}
    /\ Search.repairable \in BOOLEAN
    /\ Search.diagnosisFee \in Nat /\ Search.repairCost \in Nat
    /\ Search.successRate \in Nat /\ Search.successRate <= 10000
<1>1. \A n \in Nat : \A r \in 0..n : r \in Nat /\ r <= n
  OBVIOUS
<1>2. Unity \in Nat /\ Search.successRate \in 0..Unity
  BY SearchAssumption DEF Rate, Unity
<1>3. Search.successRate \in Nat /\ Search.successRate <= Unity
  BY <1>1, <1>2
<1> QED
  BY <1>3, SearchAssumption DEF Unity

\* A rounded amount is the whole part of the exact one or the next.
LEMMA EvenIsNextToWhole ==
    ASSUME NEW n \in Int, NEW d \in Nat \ {0}
    PROVE  n \div d <= HalfEven(n, d) /\ HalfEven(n, d) <= (n \div d) + 1
<1>1. n \div d \in Int
  BY Division
<1> DEFINE q == n \div d
<1>2. HalfEven(n, d) = q \/ HalfEven(n, d) = q + 1
  BY DEF HalfEven
<1> HIDE DEF q
<1>3. q \in Int
  BY <1>1 DEF q
<1>4. q <= HalfEven(n, d) /\ HalfEven(n, d) <= q + 1
  BY <1>2, <1>3
<1> QED
  BY <1>4 DEF q

LEMMA UpIsNextToWhole ==
    ASSUME NEW n \in Nat, NEW d \in Nat \ {0}
    PROVE  n \div d <= HalfUp(n, d) /\ HalfUp(n, d) <= (n \div d) + 1
<1> DEFINE q == n \div d
           r == n % d
           h == HalfUp(n, d)
<1>1. q \in Int /\ r \in 0..(d - 1) /\ n = d * q + r
  BY Division
<1>2. h \in Nat /\ (2 * d) * h <= 2 * n + d /\ 2 * n + d < (2 * d) * (h + 1)
  BY NearestUp
<1> HIDE DEF q, r, h
<1>3. d * q < d * (h + 1)
  <2>1. d * q \in Int /\ d * (h + 1) \in Int /\ (2 * d) * (h + 1) = 2 * (d * (h + 1))
    BY <1>1, <1>2
  <2> QED
    BY <1>1, <1>2, <2>1
<1>4. d * h < d * (q + 2)
  <2>1. d * q \in Int /\ d * h \in Int /\ (2 * d) * h = 2 * (d * h) /\ d * (q + 2) = d * q + 2 * d
    BY <1>1, <1>2
  <2> QED
    BY <1>1, <1>2, <2>1
<1>5. q < h + 1 /\ h < q + 2
  BY <1>1, <1>2, <1>3, <1>4, Cancelled
<1> QED
  BY <1>1, <1>2, <1>5 DEF q, h

LEMMA EvenIsNat ==
    ASSUME NEW n \in Nat, NEW d \in Nat \ {0}
    PROVE  HalfEven(n, d) \in Nat
<1>1. n \in Int
  OBVIOUS
<1>2. HalfEven(n, d) \in Int
  BY <1>1, NearestEven
<1>3. n \div d <= HalfEven(n, d)
  BY <1>1, EvenIsNextToWhole
<1>4. n \div d \in Nat
  BY Quotient
<1> QED
  BY <1>2, <1>3, <1>4

LEMMA AmountsAreWhole ==
    ASSUME Search.resale # -1
    PROVE  /\ EffectiveResale \in Nat
           /\ RepairCost \in Nat
           /\ HalfUp(EffectiveResale * FeeRate, 10000) \in Nat
<1> USE SearchTyped
<1>1. Search.resale \in Nat
  OBVIOUS
<1>2. EffectiveResale \in Nat
  <2>1. Search.resale * Search.successRate \in Nat
    BY <1>1
  <2> QED
    BY <1>1, <2>1, EvenIsNat DEF EffectiveResale
<1>3. RepairCost \in Nat
  <2>1. 10000 * Search.diagnosisFee + Search.repairCost * Search.successRate \in Nat
    OBVIOUS
  <2> QED
    BY <2>1, EvenIsNat DEF RepairCost
<1>4. EffectiveResale * FeeRate \in Nat
  BY <1>2, EconomicsTyped
<1> QED
  BY <1>2, <1>3, <1>4, NearestUp

Estimate(price, shipping, place) ==
    EstimateProfit(EffectiveResale, price.val, shipping.val, DriveCost(place), RepairCost)

\* The miles a score is divided by.
Divisor(place) == IF 2 * OneWay(place) > 100 THEN 2 * OneWay(place) ELSE 100

Enough(price, shipping, place) ==
    /\ price.known /\ price.val > 0 /\ Search.resale # -1
    /\ ~(Estimate(price, shipping, place).grossMultiple < Search.minMultiple)

LEMMA DivisorIsPositive ==
    ASSUME NEW place \in Place
    PROVE  Divisor(place) \in Nat \ {0}
<1>1. 2 * OneWay(place) \in Nat
  BY OneWayIsNat
<1> QED
  BY <1>1 DEF Divisor

\* What a score above zero takes, and how it comes about.
LEMMA ScoreIsPerMile ==
    ASSUME NEW price, price.val \in Int, NEW shipping, NEW place \in Place
    PROVE  /\ Enough(price, shipping, place) =>
                 /\ ScoreCandidate(price, shipping, place).estimate = Estimate(price, shipping, place)
                 /\ ScoreCandidate(price, shipping, place).score =
                       HalfEven(10000 * Estimate(price, shipping, place).netProfit, Divisor(place))
           /\ ScoreCandidate(price, shipping, place).score > 0 => Enough(price, shipping, place)
<1> DEFINE estimate == Estimate(price, shipping, place)
           scored   == ScoreCandidate(price, shipping, place)
           none     == ~price.known \/ price.val <= 0 \/ Search.resale = -1
           short    == estimate.grossMultiple < Search.minMultiple
           score    == HalfEven(10000 * estimate.netProfit, Divisor(place))
           drive    == DriveCost(place)
<1>1. scored = IF none THEN [estimate |-> NoEstimate, score |-> 0, drive |-> 0]
               ELSE [estimate |-> estimate, drive |-> drive,
                     score |-> IF short THEN 0 ELSE score]
  BY DEF ScoreCandidate, Estimate, Divisor
<1>2. none => scored.score = 0
  <2> HIDE DEF none, estimate, drive, score, short
  <2> QED
    BY <1>1
<1>3. ~none => scored.estimate = estimate /\ scored.score = (IF short THEN 0 ELSE score)
  <2> HIDE DEF none, estimate, drive, score, short
  <2> QED
    BY <1>1
<1>4. Enough(price, shipping, place) <=> ~none /\ ~short
  BY DEF Enough
<1>5. ~none /\ ~short => scored.estimate = estimate /\ scored.score = score
  <2> HIDE DEF none, estimate, scored, score, short
  <2> QED
    BY <1>3
<1>6. scored.score > 0 => ~none /\ ~short
  <2> HIDE DEF none, estimate, scored, score, short
  <2> QED
    BY <1>2, <1>3
<1> QED
  <2> HIDE DEF none, short
  <2> QED
    BY <1>4, <1>5, <1>6
\* Paid less, at the same place and shipping: the same resale in larger multiples, and
\* the difference kept.
LEMMA CheaperScoresMore ==
    ASSUME NEW place \in Place, NEW cheap, NEW dear, NEW shipping,
           cheap.val \in Int, dear.val \in Int, shipping.val \in Int,
           cheap.known, cheap.val > 0, cheap.val <= dear.val,
           ScoreCandidate(dear, shipping, place).score > 0
    PROVE  ScoreCandidate(cheap, shipping, place).score >= ScoreCandidate(dear, shipping, place).score
<1> DEFINE resale == EffectiveResale
           fees   == HalfUp(resale * FeeRate, 10000)
           other  == shipping.val + DriveCost(place) + RepairCost
           Net(price) == resale - price.val - fees - other
           Multiple(price) == HalfUp(10000 * resale, price.val)
<1>1. Enough(dear, shipping, place)
  BY ScoreIsPerMile
<1>2. Search.resale # -1 /\ dear.val > 0 /\ dear.known
  BY <1>1 DEF Enough
<1>3. resale \in Nat /\ fees \in Int /\ other \in Int
  <2>1. resale \in Nat /\ fees \in Nat /\ RepairCost \in Nat
    BY <1>2, AmountsAreWhole
  <2>2. DriveCost(place) \in Int
    BY DriveIsWhole
  <2> HIDE DEF resale, fees
  <2> QED
    BY <2>1, <2>2
<1>4. \A price : /\ Estimate(price, shipping, place).netProfit = Net(price)
                 /\ Estimate(price, shipping, place).grossMultiple = Multiple(price)
  BY DEF Estimate, EstimateProfit
<1>5. Multiple(dear) <= Multiple(cheap) /\ Multiple(dear) \in Int /\ Multiple(cheap) \in Int
  <2>1. 10000 * resale \in Nat
    <3> HIDE DEF resale
    <3> QED
      BY <1>3
  <2>2. cheap.val \in Nat \ {0} /\ dear.val \in Nat \ {0}
    BY <1>2
  <2> DEFINE n == 10000 * resale
             d == cheap.val
             e == dear.val
  <2>3. n \in Nat /\ d \in Nat \ {0} /\ e \in Nat \ {0} /\ d <= e
    BY <2>1, <2>2
  <2> HIDE DEF n, d, e
  <2>4. HalfUp(n, e) <= HalfUp(n, d) /\ HalfUp(n, e) \in Nat /\ HalfUp(n, d) \in Nat
    BY <2>3, UpAntitone, NearestUp
  <2> QED
    BY <2>4 DEF n, d, e
<1>6. Net(dear) <= Net(cheap) /\ Net(dear) \in Int /\ Net(cheap) \in Int
  <2> HIDE DEF resale, fees, other
  <2> QED
    BY <1>3
<1> HIDE DEF Net, Multiple
<1>7. Enough(cheap, shipping, place)
  <2>1. ~(Multiple(dear) < Search.minMultiple)
    BY <1>1, <1>4 DEF Enough
  <2>2. ~(Multiple(cheap) < Search.minMultiple)
    BY <1>5, <2>1, SearchTyped
  <2> QED
    BY <1>2, <1>4, <2>2 DEF Enough
<1> DEFINE Score(price) == HalfEven(10000 * Net(price), Divisor(place))
<1>8. /\ ScoreCandidate(dear, shipping, place).score = Score(dear)
      /\ ScoreCandidate(cheap, shipping, place).score = Score(cheap)
  BY <1>1, <1>4, <1>7, ScoreIsPerMile
<1>9. Score(dear) <= Score(cheap) /\ Score(dear) \in Int /\ Score(cheap) \in Int
  <2>1. /\ 10000 * Net(dear) \in Int /\ 10000 * Net(cheap) \in Int
        /\ 10000 * Net(dear) <= 10000 * Net(cheap)
    BY <1>6
  <2> DEFINE n == 10000 * Net(dear)
             k == 10000 * Net(cheap)
             d == Divisor(place)
  <2>2. n \in Int /\ k \in Int /\ n <= k /\ d \in Nat \ {0}
    BY <2>1, DivisorIsPositive
  <2> HIDE DEF n, k, d
  <2>3. HalfEven(n, d) <= HalfEven(k, d) /\ HalfEven(n, d) \in Int /\ HalfEven(k, d) \in Int
    BY <2>2, EvenMonotone, NearestEven
  <2> QED
    BY <2>3 DEF n, k, d
<1> HIDE DEF Score
<1> QED
  BY <1>8, <1>9

\* A listing's amounts are whole, and unknown ones are zero.
LEMMA AmountsOfListing ==
    ASSUME PageInv, NEW i \in DOMAIN listings
    PROVE  /\ listings[i].price.val \in Nat /\ listings[i].shippingCost.val \in Nat
           /\ \E row \in Row : listings[i] = Listing(row)
<1>1. PICK row \in Row : listings[i] = Listing(row)
  BY DEF PageInv
<1>2. listings[i].price = ToDecimal(row.price) /\ listings[i].shippingCost = ExtractShippingCost(row)
  BY <1>1 DEF Listing
<1>3. row.price \in Json
  BY DEF Row
<1>4. ToDecimal(row.price).val \in Nat
  BY <1>3, CoercionsAreUsable
<1>5. ExtractShippingCost(row).val \in Nat
  BY ShippingIsUsable
<1> QED
  BY <1>1, <1>2, <1>4, <1>5

\* A listing without an id scores nothing.
LEMMA ScoredIsConsidered ==
    ASSUME ScoredInv, NEW i \in DOMAIN appraisals, appraisals[i].score > 0
    PROVE  /\ listings[i].sourceItemId.known
           /\ appraisals[i] =
                 ScoreCandidate(listings[i].price, listings[i].shippingCost, PlaceOf(listings[i]))
<1>1. appraisals[i] = AppraisalOf(listings[i])
  BY DEF ScoredInv
<1>2. NotConsidered.score = 0
  BY DEF NotConsidered
<1> HIDE DEF ScoredInv
<1>3. listings[i].sourceItemId.known
  BY <1>1, <1>2 DEF AppraisalOf
<1> QED
  BY <1>1, <1>3 DEF AppraisalOf

\* A price drop never costs a listing its rank: of two that differ in the price only the
\* cheaper one scores at least as well, through every rounding of score_candidate and
\* estimate_profit.
THEOREM CheaperCorrect == Spec => []CheaperIsNeverWorse
<1>1. PageInv /\ FromRows /\ ScoredInv => CheaperIsNeverWorse
  <2> SUFFICES ASSUME PageInv, FromRows, ScoredInv,
                      NEW i \in DOMAIN appraisals, NEW j \in DOMAIN appraisals,
                      listings[j] = [listings[i] EXCEPT !.price = listings[j].price,
                                                        !.raw = listings[j].raw],
                      listings[i].price.known, listings[i].price.val > 0,
                      listings[i].price.val <= listings[j].price.val,
                      appraisals[j].score > 0
               PROVE  appraisals[i].score >= appraisals[j].score
    BY DEF CheaperIsNeverWorse
  <2> DEFINE l == listings[i]
             m == listings[j]
             place == PlaceOf(l)
  <2>1. i \in DOMAIN listings /\ j \in DOMAIN listings
    BY AppraisedIsListed
  <2>2. /\ l.price.val \in Nat /\ l.shippingCost.val \in Nat /\ m.price.val \in Nat
    BY <2>1, AmountsOfListing
  <2>3. /\ m.sourceItemId = l.sourceItemId /\ m.shippingCost = l.shippingCost
        /\ m.latitude = l.latitude /\ m.longitude = l.longitude
    <3>1. PICK row : l = Listing(row)
      BY <2>1, AmountsOfListing
    <3> DEFINE price == m.price
               raw == m.raw
    <3>2. m = [l EXCEPT !.price = price, !.raw = raw]
      OBVIOUS
    <3> HIDE DEF l, m, price, raw
    <3> QED
      BY <3>1, <3>2 DEF Listing
  <2>4. place \in Place
    BY <2>1, ListingIsPlaced
  <2>5. PlaceOf(m) = place
    BY <2>3 DEF PlaceOf, Located, PointOf
  <2>6. m.sourceItemId.known /\ appraisals[j] = ScoreCandidate(m.price, m.shippingCost, PlaceOf(m))
    BY ScoredIsConsidered
  <2>7. appraisals[i] = AppraisalOf(l)
    BY DEF ScoredInv
  <2>8. appraisals[i] = ScoreCandidate(l.price, l.shippingCost, place)
    BY <2>3, <2>6, <2>7 DEF AppraisalOf
  <2>9. appraisals[j] = ScoreCandidate(m.price, l.shippingCost, place)
    BY <2>3, <2>5, <2>6
  <2>10. l.price.known /\ l.price.val > 0 /\ l.price.val <= m.price.val
    OBVIOUS
  <2> HIDE DEF l, m, place
  <2> QED
    BY <2>2, <2>4, <2>8, <2>9, <2>10, CheaperScoresMore
<1> QED
  BY <1>1, PageTyped, FromRowsCorrect, ScoredCorrect, PTL
-----------------------------------------------------------------------------
(* Net profits.                                                            *)

\* The cost of a pickup is one quotient, of fuel and time together; apart they are rounded
\* down twice.
PerHundred(x, a) == x \div (100 * a)

Together(x, a, y, b) == (x * b + y * a) \div (100 * a * b)

LEMMA TwoQuotients ==
    ASSUME NEW x \in Nat, NEW y \in Nat, NEW a \in Nat \ {0}, NEW b \in Nat \ {0}
    PROVE  /\ Together(x, a, y, b) \in Nat /\ PerHundred(x, a) \in Nat /\ PerHundred(y, b) \in Nat
           /\ PerHundred(x, a) + PerHundred(y, b) <= Together(x, a, y, b)
           /\ Together(x, a, y, b) <= PerHundred(x, a) + PerHundred(y, b) + 1
           /\ y = 0 => Together(x, a, y, b) = PerHundred(x, a)
<1> DEFINE n == x * b + y * a
           d == 100 * a * b
           f == x \div (100 * a)
           t == y \div (100 * b)
           r == x % (100 * a)
           s == y % (100 * b)
<1>1. 100 * a \in Nat \ {0} /\ 100 * b \in Nat \ {0} /\ a * b \in Nat \ {0}
  BY ProductIsPositive
<1>2. d \in Nat \ {0} /\ d = 100 * (a * b)
  BY <1>1
<1>3. f \in Nat /\ t \in Nat
  BY <1>1, Quotient
<1>4. /\ r \in 0..(100 * a - 1) /\ x = (100 * a) * f + r
      /\ s \in 0..(100 * b - 1) /\ y = (100 * b) * t + s
  <2> DEFINE u == 100 * a
             v == 100 * b
  <2>1. u \in Nat \ {0} /\ v \in Nat \ {0}
    BY <1>1
  <2> HIDE DEF u, v
  <2>2. /\ x % u \in 0..(u - 1) /\ x = u * (x \div u) + (x % u)
        /\ y % v \in 0..(v - 1) /\ y = v * (y \div v) + (y % v)
    BY <2>1, Division
  <2> QED
    BY <2>2 DEF u, v
<1> HIDE DEF f, t, r, s
<1>5. n = d * (f + t) + (r * b + s * a)
  <2>1. r \in Int /\ s \in Int /\ f \in Int /\ t \in Int
    BY <1>3, <1>4
  <2>2. x * b = (100 * a * b) * f + r * b
    BY <1>4, <2>1
  <2>3. y * a = (100 * a * b) * t + s * a
    BY <1>4, <2>1
  <2> QED
    BY <2>1, <2>2, <2>3
<1>6. /\ r * b \in Nat /\ r * b < d
      /\ s * a \in Nat /\ s * a < d
  <2>1. r \in Nat /\ r + 1 <= 100 * a /\ s \in Nat /\ s + 1 <= 100 * b
    BY <1>4
  <2>2. b * (r + 1) <= b * (100 * a) /\ a * (s + 1) <= a * (100 * b)
    BY <2>1, Larger
  <2>3. b * (100 * a) = d /\ a * (100 * b) = d
    BY <1>2
  <2>4. b * (r + 1) = r * b + b /\ a * (s + 1) = s * a + a /\ r * b \in Nat /\ s * a \in Nat
    BY <2>1
  <2> HIDE DEF d
  <2> QED
    BY <1>2, <2>2, <2>3, <2>4
<1>7. n \in Nat
  OBVIOUS
<1> HIDE DEF n
<1>8. d * (f + t) <= n
  <2>1. d * (f + t) \in Int
    BY <1>2, <1>3
  <2> HIDE DEF d
  <2> QED
    BY <1>5, <1>6, <2>1
<1>9. n < d * (f + t + 2) /\ (y = 0 => n < d * (f + 1) /\ t = 0)
  <2>1. /\ d * (f + t) \in Int /\ d * (f + t + 2) = d * (f + t) + 2 * d
        /\ d * (f + 1) = d * f + d
    BY <1>2, <1>3
  <2>2. n < d * (f + t + 2)
    <3> HIDE DEF d
    <3> QED
      BY <1>2, <1>5, <1>6, <2>1
  <2>3. ASSUME y = 0 PROVE t = 0 /\ s = 0
    <3>1. (100 * b) * t + s = 0 /\ s \in Nat
      BY <1>4, <2>3
    <3>2. (100 * b) * 0 <= (100 * b) * t
      BY <1>1, <1>3, Larger
    <3>3. (100 * b) * t \in Int /\ (100 * b) * 0 = 0
      BY <1>3
    <3>4. (100 * b) * t = 0 /\ s = 0
      BY <3>1, <3>2, <3>3
    <3>5. t # 0 => (100 * b) * t \in Nat \ {0}
      BY <1>1, <1>3, ProductIsPositive
    <3> QED
      BY <3>4, <3>5
  <2>4. ASSUME y = 0 PROVE n < d * (f + 1)
    <3>1. t = 0 /\ s * a = 0
      BY <2>3, <2>4
    <3>2. n = d * f + r * b
      <4>1. f + t = f
        BY <1>3, <3>1
      <4> HIDE DEF d
      <4> QED
        BY <1>2, <1>3, <1>5, <1>6, <3>1, <4>1
    <3> HIDE DEF d
    <3> QED
      BY <1>2, <1>3, <1>6, <2>1, <3>2
  <2> QED
    BY <2>2, <2>3, <2>4
<1> HIDE DEF d
<1>10. n \div d \in Nat /\ f + t \in Int /\ f + t + 1 \in Int
  BY <1>2, <1>3, <1>7, Quotient
<1>11. f + t <= n \div d
  BY <1>2, <1>7, <1>8, <1>10, DivisionIsMost
<1>12. n \div d <= f + t + 1
  <2> DEFINE q == f + t + 1
  <2>1. q \in Int /\ n < d * (q + 1)
    <3>1. q + 1 = f + t + 2
      BY <1>3
    <3> QED
      BY <1>9, <1>10, <3>1
  <2> HIDE DEF q
  <2>2. n \div d <= q
    BY <1>2, <1>7, <2>1, DivisionIsLeast
  <2> QED
    BY <2>2 DEF q
<1>13. y = 0 => n \div d = f
  <2> SUFFICES ASSUME y = 0 PROVE n \div d = f
    OBVIOUS
  <2>1. n < d * (f + 1) /\ t = 0
    BY <1>9
  <2>2. n \div d <= f
    BY <1>2, <1>3, <1>7, <2>1, DivisionIsLeast
  <2> QED
    BY <1>3, <1>10, <1>11, <2>1, <2>2
<1> QED
  BY <1>3, <1>10, <1>11, <1>12, <1>13 DEF n, d, f, t, PerHundred, Together

\* Shifting the dividend by at most w shifts the quotient by at most w \div d + 1.
LEMMA ShiftedQuotient ==
    ASSUME NEW n \in Nat, NEW m \in Nat, NEW w \in Nat, NEW d \in Nat \ {0},
           m <= n + w, n <= m + w
    PROVE  /\ m \div d <= (n \div d) + (w \div d) + 1
           /\ n \div d <= (m \div d) + (w \div d) + 1
<1>1. ASSUME NEW k \in Nat, NEW l \in Nat, l <= k + w
      PROVE  l \div d <= (k \div d) + (w \div d) + 1
  <2> DEFINE p == k \div d
             q == w \div d
             u == k % d
             v == w % d
  <2>1. /\ p \in Int /\ u \in 0..(d - 1) /\ k = d * p + u
        /\ q \in Int /\ v \in 0..(d - 1) /\ w = d * q + v
    BY Division
  <2> HIDE DEF p, q, u, v
  <2>2. l < d * (p + q + 1 + 1)
    <3>1. d * (p + q + 1 + 1) = d * p + d * q + 2 * d /\ d * p \in Int /\ d * q \in Int
      BY <2>1
    <3> QED
      BY <1>1, <2>1, <3>1
  <2>3. p + q + 1 \in Int
    BY <2>1
  <2> DEFINE t == p + q + 1
  <2>4. t \in Int /\ l < d * (t + 1)
    BY <2>2, <2>3
  <2> HIDE DEF t
  <2>5. l \div d <= t
    BY <2>4, DivisionIsLeast
  <2> QED
    BY <2>5 DEF t, p, q
<1> QED
  BY <1>1
\* The same of a rate, in ten-thousandths.
LEMMA RatedIsNextToWhole ==
    ASSUME NEW n \in Nat
    PROVE  /\ HalfEven(n, 10000) \in Nat /\ HalfUp(n, 10000) \in Nat
           /\ n \div 10000 <= HalfEven(n, 10000) /\ HalfEven(n, 10000) <= (n \div 10000) + 1
           /\ n \div 10000 <= HalfUp(n, 10000) /\ HalfUp(n, 10000) <= (n \div 10000) + 1
<1> DEFINE d == 10000
<1>1. d \in Nat \ {0} /\ n \in Int
  OBVIOUS
<1> HIDE DEF d
<1>2. HalfEven(n, d) \in Nat /\ HalfUp(n, d) \in Nat
  BY <1>1, EvenIsNat, NearestUp
<1>3. n \div d <= HalfEven(n, d) /\ HalfEven(n, d) <= (n \div d) + 1
  BY <1>1, EvenIsNextToWhole
<1>4. n \div d <= HalfUp(n, d) /\ HalfUp(n, d) <= (n \div d) + 1
  BY <1>1, UpIsNextToWhole
<1> QED
  BY <1>2, <1>3, <1>4 DEF d

\* The amounts of Expected, by name.
Saved == IF Search.repairable THEN Search.successRate ELSE 10000

WholeResale == (Search.resale * Saved) \div 10000

WholeFee == (WholeResale * FeeRate) \div 10000

WholeRepair == IF Search.repairable
               THEN Search.diagnosisFee + (Search.repairCost * Saved) \div 10000 ELSE 0

LEMMA ResaleIsNear ==
    ASSUME Search.resale # -1
    PROVE  /\ WholeResale \in Nat /\ EffectiveResale \in Nat
           /\ WholeResale <= EffectiveResale /\ EffectiveResale <= WholeResale + 1
<1>1. /\ Search.resale \in Nat /\ Search.successRate \in Nat /\ Search.repairable \in BOOLEAN
  BY SearchTyped
<1>2. EffectiveResale \in Nat
  BY AmountsAreWhole
<1>3. CASE Search.repairable
  <2> DEFINE n == Search.resale * Search.successRate
  <2>1. n \in Nat /\ n \in Int
    BY <1>1
  <2>2. WholeResale = n \div 10000 /\ EffectiveResale = HalfEven(n, 10000)
    BY <1>3 DEF WholeResale, Saved, EffectiveResale
  <2> HIDE DEF n
  <2>3. n \div 10000 \in Nat
    BY <2>1, Quotient
  <2>4. n \div 10000 <= HalfEven(n, 10000) /\ HalfEven(n, 10000) <= (n \div 10000) + 1
    BY <2>1, RatedIsNextToWhole
  <2> QED
    BY <1>2, <2>2, <2>3, <2>4
<1>4. CASE ~Search.repairable
  <2> DEFINE v == Search.resale
  <2>1. WholeResale = (v * 10000) \div 10000 /\ EffectiveResale = v /\ v \in Nat
    BY <1>1, <1>4 DEF WholeResale, Saved, EffectiveResale
  <2> HIDE DEF v
  <2>2. (v * 10000) \div 10000 = v
    BY <2>1
  <2> QED
    BY <2>1, <2>2
<1> QED
  BY <1>1, <1>3, <1>4

\* A cent more of resale costs less than a cent of fee.
LEMMA FeeIsNear ==
    ASSUME Search.resale # -1
    PROVE  LET fees == HalfUp(EffectiveResale * FeeRate, 10000)
           IN  /\ WholeFee \in Nat /\ fees \in Nat
               /\ WholeFee <= fees /\ fees <= WholeFee + 2
<1> DEFINE whole == WholeResale
           exact == EffectiveResale
           n == whole * FeeRate
           m == exact * FeeRate
           f == n \div 10000
           h == HalfUp(m, 10000)
<1>1. /\ whole \in Nat /\ exact \in Nat /\ whole <= exact /\ exact <= whole + 1
      /\ FeeRate \in Nat /\ FeeRate <= 10000
  BY ResaleIsNear, EconomicsTyped
<1> HIDE DEF whole, exact
<1>2. n \in Nat /\ m \in Nat /\ n <= m /\ m <= n + 10000
  <2>1. exact = whole \/ exact = whole + 1
    BY <1>1
  <2>2. (whole + 1) * FeeRate = whole * FeeRate + FeeRate /\ whole * FeeRate \in Nat
    BY <1>1
  <2> QED
    BY <1>1, <2>1, <2>2
<1> HIDE DEF n, m
<1>3. f \in Nat /\ m \div 10000 \in Nat
  BY <1>2, Quotient
<1>4. h \in Nat /\ m \div 10000 <= h /\ h <= (m \div 10000) + 1
  BY <1>2, RatedIsNextToWhole
<1>5. f <= m \div 10000 /\ m \div 10000 <= f + 1
  BY <1>2
<1>6. f <= h /\ h <= f + 2
  <2> HIDE DEF f, h
  <2> QED
    BY <1>3, <1>4, <1>5
<1> QED
  BY <1>3, <1>4, <1>6 DEF WholeFee, whole, exact, n, m

LEMMA RepairIsNear ==
    /\ WholeRepair \in Nat /\ RepairCost \in Int
    /\ WholeRepair <= RepairCost /\ RepairCost <= WholeRepair + 1
<1>1. /\ Search.diagnosisFee \in Nat /\ Search.repairCost \in Nat
      /\ Search.successRate \in Nat /\ Search.repairable \in BOOLEAN
  BY SearchTyped
<1>2. CASE Search.repairable
  <2> DEFINE x == Search.repairCost * Search.successRate
             fee == Search.diagnosisFee
             n == 10000 * fee + x
  <2>1. x \in Nat /\ fee \in Nat /\ n \in Nat /\ n \in Int
    BY <1>1
  <2>2. WholeRepair = fee + x \div 10000 /\ RepairCost = HalfEven(n, 10000)
    BY <1>2 DEF WholeRepair, Saved, RepairCost
  <2>3. n \div 10000 = fee + x \div 10000 /\ x \div 10000 \in Nat
    <3> HIDE DEF x, fee
    <3> QED
      BY <2>1
  <2> HIDE DEF n
  <2>4. /\ HalfEven(n, 10000) \in Int /\ n \div 10000 <= HalfEven(n, 10000)
        /\ HalfEven(n, 10000) <= (n \div 10000) + 1
    BY <2>1, RatedIsNextToWhole
  <2> HIDE DEF x, fee
  <2> QED
    BY <2>1, <2>2, <2>3, <2>4
<1>3. CASE ~Search.repairable
  <2>1. WholeRepair = 0 /\ RepairCost = 0
    BY <1>3 DEF WholeRepair, RepairCost
  <2> QED
    BY <2>1
<1> QED
  BY <1>1, <1>2, <1>3

\* The least detour, as Pickup writes it.
LEMMA LeastDetour ==
    ASSUME NEW place \in Place, place.detours # <<>>
    PROVE  Min(ToSet(place.detours)) = Detour(place) /\ Detour(place) \in Nat
<1> DEFINE detours == place.detours
           all == ToSet(detours)
           least == Min(all)
           near == NearestRoute(place)
           d == Detour(place)
<1>1. /\ near \in DOMAIN detours /\ d = detours[near] /\ d \in Nat
      /\ \A i \in DOMAIN detours : d <= detours[i]
  BY NearestRouteIsLeast
<1>2. detours \in Seq(Nat)
  BY DEF Place
<1> HIDE DEF detours, d, near
<1>3. all \subseteq Nat /\ d \in all /\ \A n \in all : d <= n
  BY <1>1, <1>2 DEF ToSet
<1>4. least \in all /\ \A n \in all : least <= n
  <2> HIDE DEF all
  <2>1. all # {}
    BY <1>3
  <2> QED
    BY <1>3, <2>1, MinIsLeast
<1>5. least <= d /\ d <= least /\ least \in Nat
  <2> HIDE DEF all, least
  <2> QED
    BY <1>3, <1>4
<1>6. least = d
  <2> HIDE DEF all, least
  <2> QED
    BY <1>1, <1>5
<1> QED
  BY <1>1, <1>6 DEF d, detours
\* How far it is, what fuel and time that takes both ways: the parts of Pickup.
There(place) ==
    IF Near(place) THEN place.base
    ELSE IF place.detours = <<>> THEN 0 ELSE Min(ToSet(place.detours))

Fuel(miles) == (2 * miles * Economics.fuelPrice) \div (100 * Economics.mpg)

Time(miles) == (2 * miles * Economics.hourly) \div (100 * Economics.mph)

LEMMA TierAsPickup ==
    ASSUME NEW place \in Place
    PROVE  /\ Tier(place) = "quick" <=> Near(place)
           /\ Tier(place) = "helper" => ~Near(place) /\ place.helper # 0
           /\ Tier(place) \notin {"quick", "helper"} => ~Near(place) /\ place.helper = 0
           /\ Tier(place) \notin {"quick", "helper"} =>
                 (Tier(place) = "in_territory" <=> ~OnRoute(place) /\ place.territory)
<1>1. CASE Near(place)
  BY <1>1 DEF Tier, Near
<1>2. CASE ~Near(place) /\ place.helper # 0
  BY <1>2 DEF Tier, Near
<1>3. CASE ~Near(place) /\ place.helper = 0
  <2>1. Tier(place) = IF OnRoute(place) THEN "on_route"
                      ELSE IF place.territory THEN "in_territory" ELSE "special_trip"
    BY <1>3 DEF Tier, Near
  <2> QED
    BY <1>3, <2>1
<1> QED
  BY <1>1, <1>2, <1>3

LEMMA PickupIsTheTier ==
    ASSUME NEW place \in Place, NEW favor
    PROVE  /\ Tier(place) = "helper" => Pickup(place, favor) = favor
           /\ Tier(place) # "helper" =>
                 Pickup(place, favor) = IF OnRoute(place) \/ Tier(place) \in {"quick", "in_territory"}
                                 THEN Fuel(There(place))
                                 ELSE Fuel(There(place)) + Time(There(place))
<1> DEFINE f == Fuel(There(place))
           t == Time(There(place))
<1>1. Pickup(place, favor) =
         CASE ~Near(place) /\ place.helper # 0 -> favor
           [] ~Near(place) /\ place.helper = 0 /\ ~OnRoute(place) /\ ~place.territory -> f + t
           [] OTHER -> f
  BY DEF Pickup, Near, There, Fuel, Time
<1> HIDE DEF f, t
<1>2. CASE Near(place)
  BY <1>1, <1>2, TierAsPickup DEF f, t
<1>3. CASE ~Near(place) /\ place.helper # 0
  <2>1. Tier(place) = "helper"
    BY <1>3, TierAsPickup
  <2> QED
    BY <1>1, <1>3, <2>1
<1>4. CASE ~Near(place) /\ place.helper = 0
  <2>1. Pickup(place, favor) = IF ~OnRoute(place) /\ ~place.territory THEN f + t ELSE f
    BY <1>1, <1>4
  <2>2. Tier(place) \notin {"quick", "helper"}
    BY <1>4, TierAsPickup
  <2>3. Tier(place) = "in_territory" <=> ~OnRoute(place) /\ place.territory
    BY <2>2, TierAsPickup
  <2> QED
    BY <2>1, <2>2, <2>3 DEF f, t
<1> QED
  BY <1>2, <1>3, <1>4

LEMMA ThereIsNat ==
    ASSUME NEW place \in Place
    PROVE  /\ There(place) \in Nat /\ OneWay(place) \in Nat
           /\ Tier(place) \notin {"quick", "helper"} => OneWay(place) = There(place)
           /\ Tier(place) = "quick" =>
                 /\ OneWay(place) <= There(place) + 5
                 /\ There(place) <= OneWay(place) + 5
<1>1. OneWay(place) \in Nat
  BY OneWayIsNat
<1>2. CASE Near(place)
  <2>1. place.base \in Nat
    BY <1>2 DEF Near, Place
  <2>2. There(place) = place.base
    BY <1>2 DEF There
  <2>3. Tier(place) = "quick"
    BY <1>2, TierAsPickup
  <2> DEFINE b == place.base
             h == HalfEven(b, 10)
  <2>4. OneWay(place) = 10 * h
    BY <2>3, OneWayIsNat
  <2>5. b \in Int /\ h \in Int /\ 2 * (10 * h) <= 2 * b + 10 /\ 2 * b <= 2 * (10 * h) + 10
    <3> DEFINE d == 10
    <3>1. b \in Int /\ d \in Nat \ {0}
      BY <2>1
    <3> HIDE DEF b, d
    <3>2. /\ HalfEven(b, d) \in Int
          /\ 2 * (d * HalfEven(b, d)) <= 2 * b + d /\ 2 * b <= 2 * (d * HalfEven(b, d)) + d
      BY <3>1, NearestEven
    <3> QED
      BY <3>1, <3>2 DEF d
  <2> HIDE DEF b, h
  <2>6. 10 * h <= b + 5 /\ b <= 10 * h + 5
    BY <2>5
  <2> QED
    BY <1>1, <2>1, <2>2, <2>3, <2>4, <2>6 DEF b
<1>3. CASE ~Near(place)
  <2>1. Tier(place) # "quick"
    BY <1>3, TierAsPickup
  <2>2. OneWay(place) = IF place.detours = <<>> THEN 0 ELSE Detour(place)
    BY <2>1, OneWayIsNat
  <2>3. There(place) = IF place.detours = <<>> THEN 0 ELSE Detour(place)
    BY <1>3, LeastDetour DEF There
  <2> QED
    BY <1>1, <2>1, <2>2, <2>3
<1> QED
  BY <1>2, <1>3

\* The favor that is charged is one of a helper of that name.
IsCharged(favor, place) == Tier(place) = "helper" => favor = FavorCost(place)

LEMMA SomeFavorIsCharged ==
    ASSUME NEW place \in Place
    PROVE  \E favor \in Favors(place) : IsCharged(favor, place)
<1>1. CASE place.helper = 0
  <2>1. Tier(place) # "helper"
    BY <1>1, TierAsPickup
  <2> QED
    BY <1>1, <2>1 DEF Favors, IsCharged
<1>2. CASE place.helper # 0
  <2> DEFINE name == Helpers[place.helper].name
  <2>1. DOMAIN Helpers = 1..Len(Helpers) /\ Len(Helpers) \in Nat
    BY PlacesAssumption
  <2>2. place.helper \in DOMAIN Helpers
    BY <1>2, <2>1 DEF Place
  <2>3. \A h \in DOMAIN Helpers : Helpers[h].name = name => Helpers[h].favor \in Favors(place)
    BY <1>2 DEF Favors, ToSet
  <2>4. CASE Tier(place) = "helper"
    BY <2>3, <2>4, FavorIsNat DEF IsCharged
  <2>5. CASE Tier(place) # "helper"
    BY <2>2, <2>3, <2>5 DEF IsCharged
  <2> QED
    BY <2>4, <2>5
<1> QED
  BY <1>1, <1>2

\* The cents the miles of a quick pickup may be rounded by.
Slack(place) == Tolerance(place) - 5

LEMMA SlackIsNat ==
    ASSUME NEW place
    PROVE  /\ Slack(place) \in Nat /\ Tolerance(place) = Slack(place) + 5
           /\ Tier(place) = "quick" =>
                 Slack(place) = (10 * Economics.fuelPrice) \div (100 * Economics.mpg)
<1> DEFINE m == Economics.mpg
           p == Economics.fuelPrice
           t == p \div (10 * m)
<1>1. m \in Nat \ {0} /\ p \in Nat
  BY EconomicsTyped
<1>2. Tolerance(place) = 5 + (IF Tier(place) = "quick" THEN t ELSE 0)
  BY DEF Tolerance
<1> HIDE DEF m, p
<1>3. 10 * m \in Nat \ {0} /\ 100 * m \in Nat \ {0}
  BY <1>1
<1>4. t \in Nat
  BY <1>1, <1>3, Quotient
<1>5. (10 * p) \div (100 * m) = t
  <2> DEFINE d == 10 * m
             r == p % d
             e == 100 * m
             n == 10 * p
  <2>1. r \in 0..(d - 1) /\ p = d * t + r /\ t \in Int
    <3>1. d \in Nat \ {0} /\ p \in Int /\ t = p \div d
      BY <1>1, <1>3
    <3> HIDE DEF d, t
    <3> QED
      BY <3>1, Division
  <2>2. e \in Nat \ {0} /\ n \in Int /\ e * t = 10 * (d * t) /\ e = 10 * d /\ d * t \in Int /\ d \in Nat
    BY <1>1, <1>3, <1>4
  <2>3. e * (t + 1) = e * t + e /\ e * t \in Int
    BY <1>4, <2>2
  <2> HIDE DEF d, r, t
  <2>4. n = e * t + 10 * r /\ r \in 0..(d - 1)
    BY <2>1, <2>2
  <2> HIDE DEF e, n
  <2>5. e * t <= n /\ n < e * (t + 1)
    BY <2>2, <2>3, <2>4
  <2>6. t <= n \div e /\ n \div e <= t /\ n \div e \in Int
    BY <2>1, <2>2, <2>5, DivisionIsMost, DivisionIsLeast, Division
  <2> QED
    BY <2>1, <2>6 DEF e, n
<1> HIDE DEF t
<1> QED
  BY <1>2, <1>4, <1>5 DEF Slack, m, p
\* What a pickup is charged is what it costs, but for two roundings and the tenths of a
\* quick pickup.
LEMMA DriveIsNear ==
    ASSUME NEW place \in Place, NEW favor, IsCharged(favor, place)
    PROVE  /\ Pickup(place, favor) \in Int /\ DriveCost(place) \in Int
           /\ Pickup(place, favor) <= DriveCost(place) + Slack(place) + 1
           /\ DriveCost(place) <= Pickup(place, favor) + Slack(place) + 2
<1>1. Slack(place) \in Nat /\ DriveCost(place) \in Int
  BY SlackIsNat, DriveIsWhole
<1>2. CASE Tier(place) = "helper"
  <2>1. Pickup(place, favor) = FavorCost(place)
    BY <1>2, PickupIsTheTier DEF IsCharged
  <2>2. DriveCost(place) = FavorCost(place)
    BY <1>2 DEF DriveCost
  <2> QED
    BY <1>1, <2>1, <2>2
<1>3. CASE Tier(place) # "helper"
  <2> DEFINE e == Economics
             a == e.mpg
             b == e.mph
             p == e.fuelPrice
             free == OnRoute(place) \/ Tier(place) \in {"quick", "in_territory"}
             way == OneWay(place)
             there == There(place)
             hourly == IF free THEN 0 ELSE e.hourly
             x == 2 * way * p
             y == 2 * way * hourly
             d == 100 * a * b
             n == x * b + y * a
             fuel == x \div (100 * a)
             time == y \div (100 * b)
             drive == DriveCost(place)
             slack == Slack(place)
             pickup == Pickup(place, favor)
  <2>1. /\ a \in Nat \ {0} /\ b \in Nat \ {0} /\ p \in Nat /\ hourly \in Nat
        /\ way \in Nat /\ there \in Nat
    BY EconomicsTyped, ThereIsNat
  <2>2. drive = HalfEven(2 * way * (p * b + hourly * a), d)
    <3>1. (IF free THEN 0 ELSE e.hourly * a) = hourly * a
      BY <2>1
    <3> HIDE DEF free, way
    <3> QED
      BY <1>3, <3>1 DEF DriveCost, free, way
  <2>3. 2 * way * (p * b + hourly * a) = n /\ x \in Nat /\ y \in Nat
    <3> HIDE DEF a, b, p, hourly, way
    <3> QED
      BY <2>1
  <2>4. d \in Nat \ {0}
    <3> DEFINE c == 100 * a
    <3>1. c \in Nat \ {0}
      BY <2>1
    <3> HIDE DEF a, b, c
    <3>2. c * b \in Nat \ {0}
      BY <2>1, <3>1, ProductIsPositive
    <3> QED
      BY <3>2 DEF c
  <2>5. n \in Int
    <3> HIDE DEF a, b, x, y
    <3> QED
      BY <2>1, <2>3
  <2>6. /\ n \div d \in Nat /\ fuel \in Nat /\ time \in Nat
        /\ fuel + time <= n \div d /\ n \div d <= fuel + time + 1
        /\ y = 0 => n \div d = fuel
    <3>1. x \in Nat /\ y \in Nat /\ a \in Nat \ {0} /\ b \in Nat \ {0}
      BY <2>1, <2>3
    <3> HIDE DEF a, b, x, y
    <3>2. /\ Together(x, a, y, b) \in Nat /\ PerHundred(x, a) \in Nat /\ PerHundred(y, b) \in Nat
          /\ PerHundred(x, a) + PerHundred(y, b) <= Together(x, a, y, b)
          /\ Together(x, a, y, b) <= PerHundred(x, a) + PerHundred(y, b) + 1
          /\ y = 0 => Together(x, a, y, b) = PerHundred(x, a)
      BY <3>1, TwoQuotients
    <3>3. n \div d = Together(x, a, y, b) /\ fuel = PerHundred(x, a) /\ time = PerHundred(y, b)
      BY DEF Together, PerHundred
    <3> HIDE DEF n, d, fuel, time
    <3> QED
      BY <3>2, <3>3
  <2>7. n \div d <= drive /\ drive <= (n \div d) + 1
    <3> HIDE DEF n, d
    <3> QED
      BY <2>2, <2>3, <2>4, <2>5, EvenIsNextToWhole
  <2>8. pickup = IF free THEN Fuel(there) ELSE Fuel(there) + Time(there)
    BY <1>3, PickupIsTheTier
  <2>9. CASE Tier(place) # "quick"
    <3>1. way = there
      BY <1>3, <2>9, ThereIsNat
    <3>2. fuel = Fuel(there)
      BY <3>1 DEF Fuel
    <3>3. ~free => time = Time(there)
      BY <3>1 DEF Time
    <3>4. free => time = 0
      <4> SUFFICES ASSUME free PROVE time = 0
        OBVIOUS
      <4>1. hourly = 0
        OBVIOUS
      <4> HIDE DEF hourly, b, way
      <4>2. y = 0
        BY <2>1, <4>1
      <4>3. 100 * b \in Nat \ {0}
        BY <2>1
      <4> DEFINE k == 100 * b
      <4> HIDE DEF k, y
      <4>4. y \div k = 0
        BY <4>2, <4>3 DEF k
      <4> QED
        BY <4>4 DEF k
    <3> HIDE DEF fuel, time, drive, n, d, free, slack, pickup
    <3>5. pickup = fuel + time
      BY <2>6, <2>8, <3>2, <3>3, <3>4
    <3> DEFINE q == n \div d
    <3> HIDE DEF q
    <3>6. q \in Nat /\ fuel \in Nat /\ time \in Nat /\ fuel + time <= q /\ q <= fuel + time + 1
      BY <2>6 DEF q
    <3>7. q <= drive /\ drive <= q + 1 /\ drive \in Int /\ slack \in Nat
      BY <1>1, <2>7 DEF q, drive, slack
    <3>8. pickup \in Int /\ pickup <= drive + slack + 1 /\ drive <= pickup + slack + 2
      BY <3>5, <3>6, <3>7
    <3> QED
      BY <1>1, <3>8 DEF drive, slack, pickup
  <2>10. CASE Tier(place) = "quick"
    <3>1. way <= there + 5 /\ there <= way + 5
      BY <2>10, ThereIsNat
    <3>2. hourly = 0 /\ pickup = Fuel(there)
      BY <2>8, <2>10
    <3>3. y = 0
      <4> HIDE DEF hourly, way
      <4> QED
        BY <2>1, <3>2
    <3> DEFINE c == 100 * a
               w == 10 * p
               m == 2 * there * p
    <3>4. c \in Nat \ {0} /\ w \in Nat /\ m \in Nat
      <4> HIDE DEF a, p, there
      <4> QED
        BY <2>1
    <3>5. x <= m + w /\ m <= x + w
      <4> HIDE DEF p, way, there
      <4>1. p * way <= p * (there + 5) /\ p * there <= p * (way + 5)
        BY <2>1, <3>1, Larger
      <4>2. /\ p * (there + 5) = p * there + 5 * p /\ p * (way + 5) = p * way + 5 * p
            /\ x = 2 * (p * way) /\ m = 2 * (p * there)
            /\ p * way \in Int /\ p * there \in Int
        BY <2>1
      <4> HIDE DEF x, m
      <4> QED
        BY <2>1, <4>1, <4>2
    <3>6. slack = w \div c
      BY <2>10, SlackIsNat
    <3>7. pickup = m \div c /\ fuel = x \div c
      BY <3>2 DEF Fuel
    <3> HIDE DEF c, w, m, x
    <3>8. /\ m \div c <= (x \div c) + (w \div c) + 1
          /\ x \div c <= (m \div c) + (w \div c) + 1
      BY <2>3, <3>4, <3>5, ShiftedQuotient
    <3>9. m \div c \in Nat /\ x \div c \in Nat
      BY <2>3, <3>4, Quotient
    <3> DEFINE q == n \div d
    <3>10. q = fuel /\ q <= drive /\ drive <= q + 1
      BY <2>6, <2>7, <3>3
    <3> HIDE DEF q, drive, slack, pickup, fuel
    <3>11. pickup <= fuel + slack + 1 /\ fuel <= pickup + slack + 1 /\ pickup \in Nat /\ fuel \in Nat
      BY <3>6, <3>7, <3>8, <3>9
    <3>12. drive \in Int /\ slack \in Nat
      BY <1>1 DEF drive, slack
    <3>13. pickup <= drive + slack + 1 /\ drive <= pickup + slack + 2
      BY <3>10, <3>11, <3>12
    <3> QED
      BY <1>1, <3>11, <3>13 DEF drive, slack, pickup
  <2> QED
    BY <2>9, <2>10
<1> QED
  BY <1>2, <1>3
\* No candidate whose shipping cost is known loses money: its net profit is above zero,
\* and what Expected says but for the cents of every rounding on the way, whatever the
\* prices, rates, places, helpers and economics (score_candidate, estimate_profit).
THEOREM CandidatesCorrect == Spec => []CandidatesMakeMoney
<1>1. PageInv /\ FromRows /\ ScoredInv => CandidatesMakeMoney
  <2> SUFFICES ASSUME PageInv, FromRows, ScoredInv,
                      NEW i \in DOMAIN appraisals, appraisals[i].score > 0
               PROVE  \E favor \in Favors(PlaceOf(listings[i])) :
                        LET difference == appraisals[i].estimate.netProfit - Expected(listings[i], favor)
                            tolerance  == Tolerance(PlaceOf(listings[i]))
                        IN  /\ appraisals[i].estimate.netProfit > 0
                            /\ -tolerance <= difference /\ difference <= tolerance
    BY DEF CandidatesMakeMoney
  <2> DEFINE l == listings[i]
             place == PlaceOf(l)
             net == appraisals[i].estimate.netProfit
             tolerance == Tolerance(place)
             resale == EffectiveResale
             fees == HalfUp(resale * FeeRate, 10000)
             repair == RepairCost
             drive == DriveCost(place)
             slack == Slack(place)
             price == l.price.val
             shipping == l.shippingCost.val
  <2>1. i \in DOMAIN listings
    BY AppraisedIsListed
  <2>2. price \in Nat /\ shipping \in Nat /\ place \in Place
    BY <2>1, AmountsOfListing, ListingIsPlaced
  <2>0. PICK favor \in Favors(place) : IsCharged(favor, place)
    BY <2>2, SomeFavorIsCharged
  <2> DEFINE pickup == Pickup(place, favor)
  <2>3. appraisals[i] = ScoreCandidate(l.price, l.shippingCost, place)
    BY ScoredIsConsidered
  <2>4. /\ Search.resale # -1
        /\ appraisals[i].estimate = Estimate(l.price, l.shippingCost, place)
        /\ appraisals[i].score =
              HalfEven(10000 * Estimate(l.price, l.shippingCost, place).netProfit, Divisor(place))
    <3>1. price \in Int
      BY <2>2
    <3>2. ScoreCandidate(l.price, l.shippingCost, place).score > 0
      BY <2>3
    <3>3. Enough(l.price, l.shippingCost, place)
      BY <2>2, <3>1, <3>2, ScoreIsPerMile
    <3> QED
      BY <2>2, <2>3, <3>1, <3>3, ScoreIsPerMile DEF Enough
  <2>5. net = resale - price - fees - (shipping + drive + repair)
    BY <2>4 DEF Estimate, EstimateProfit
  <2>6. /\ WholeResale \in Nat /\ resale \in Nat /\ WholeResale <= resale /\ resale <= WholeResale + 1
        /\ WholeFee \in Nat /\ fees \in Nat /\ WholeFee <= fees /\ fees <= WholeFee + 2
        /\ WholeRepair \in Nat /\ repair \in Int
        /\ WholeRepair <= repair /\ repair <= WholeRepair + 1
    BY <2>4, ResaleIsNear, FeeIsNear, RepairIsNear
  <2>7. /\ pickup \in Int /\ drive \in Int
        /\ pickup <= drive + slack + 1 /\ drive <= pickup + slack + 2
    BY <2>0, <2>2, DriveIsNear
  <2>8. slack \in Nat /\ tolerance = slack + 5
    BY SlackIsNat
  <2>9. Expected(l, favor) = WholeResale - WholeFee - price - shipping - pickup - WholeRepair
    BY DEF Expected, WholeResale, WholeFee, WholeRepair, Saved
  <2>10. appraisals[i].score = HalfEven(10000 * net, Divisor(place))
    BY <2>4
  <2> DEFINE expected == Expected(l, favor)
  <2>11. net \in Int
    <3> HIDE DEF net, resale, price, fees, shipping, drive, repair
    <3> QED
      BY <2>2, <2>5, <2>6, <2>7
  <2>12. net > 0
    <3> DEFINE n == 10000 * net
               d == Divisor(place)
    <3>1. n \in Int /\ d \in Nat \ {0} /\ HalfEven(n, d) > 0
      BY <2>2, <2>10, <2>11, DivisorIsPositive
    <3> HIDE DEF n, d
    <3>2. n > 0
      BY <3>1, EvenIsPositive
    <3> HIDE DEF net
    <3> QED
      BY <2>11, <3>2 DEF n
  <2> HIDE DEF net, resale, price, fees, shipping, drive, repair, pickup, slack, tolerance, expected
  <2>13. -tolerance <= net - expected /\ net - expected <= tolerance
    BY <2>2, <2>5, <2>6, <2>7, <2>8, <2>9 DEF expected
  <2> QED
    BY <2>0, <2>12, <2>13 DEF net, tolerance, expected
<1> QED
  BY <1>1, PageTyped, FromRowsCorrect, ScoredCorrect, PTL
-----------------------------------------------------------------------------
(* Detours.                                                                *)

\* No point of one of its legs is nearer than a route.
LEMMA DetourIsNoFarther ==
    ASSUME NEW p \in Point, NEW points \in Seq(Point), NEW i \in 1..(Len(points) - 1),
           NEW q \in Point, OnLeg(q, points[i], points[i + 1])
    PROVE  DetourMiles(p, points) <= Miles(p, q)
<1> DEFINE Leg(k) == PointToSegment(p, points[k], points[k + 1])
           legs == {Leg(k) : k \in 1..(Len(points) - 1)}
<1>1. Len(points) \in Nat /\ Len(points) # 1 /\ \A k \in 1..Len(points) : points[k] \in Point
  OBVIOUS
<1>2. \A k \in 1..(Len(points) - 1) : Leg(k) \in Nat
  <2> TAKE k \in 1..(Len(points) - 1)
  <2>1. points[k] \in Point /\ points[k + 1] \in Point
    BY <1>1
  <2> QED
    BY <2>1, SegmentIsWithin
<1>3. Leg(i) \in legs /\ Leg(i) <= Miles(p, q)
  <2>1. points[i] \in Point /\ points[i + 1] \in Point
    BY <1>1
  <2> QED
    BY <2>1, SegmentIsShortest
<1>4. DetourMiles(p, points) = Min(legs)
  BY <1>1 DEF DetourMiles
<1> HIDE DEF Leg
<1>5. legs \subseteq Nat
  BY <1>2
<1> HIDE DEF legs
<1>6. Min(legs) \in Nat /\ Min(legs) <= Leg(i) /\ Leg(i) \in Nat
  BY <1>2, <1>3, <1>5, MinIsLeast
<1>7. Miles(p, q) \in Nat
  BY DistanceIsNat
<1> QED
  BY <1>3, <1>4, <1>6, <1>7

LEMMA SixteenthsArePoints ==
    ASSUME NEW k \in 0..16, NEW a \in Point, NEW b \in Point
    PROVE  Sixteenths(k, a, b) \in Point
<1> DEFINE e == (k * (b[1] - a[1])) \div 16
           f == (k * (b[2] - a[2])) \div 16
<1>1. a[1] \in Int /\ a[2] \in Int /\ b[1] \in Int /\ b[2] \in Int
  BY DEF Point
<1>2. k * (b[1] - a[1]) \in Int /\ k * (b[2] - a[2]) \in Int
  BY <1>1
<1>3. e \in Int /\ f \in Int
  BY <1>2
<1>4. Sixteenths(k, a, b) = <<a[1] + e, a[2] + f>>
  BY DEF Sixteenths
<1> HIDE DEF e, f
<1> QED
  BY <1>1, <1>3, <1>4 DEF Point

LEMMA PointsAlong ==
    ASSUME NEW r \in Route
    PROVE  Along(r) \subseteq Point /\ r.stops[1].at \in Along(r)
<1> DEFINE stops == r.stops
           Leg(i, k) == Sixteenths(k, stops[i].at, stops[i + 1].at)
<1>1. stops \in Seq(Stop) /\ stops # <<>>
  BY RouteFields
<1>2. \A i \in 1..Len(stops) : stops[i].at \in Point
  <2> TAKE i \in 1..Len(stops)
  <2>1. stops[i] \in Stop
    BY <1>1
  <2> QED
    BY <2>1 DEF Stop
<1>3. Along(r) = {stops[1].at} \cup {Leg(i, k) : i \in 1..(Len(stops) - 1), k \in 0..16}
  BY DEF Along
<1>4. Len(stops) \in Nat \ {0}
  BY <1>1
<1> HIDE DEF stops
<1>5. ASSUME NEW i \in 1..(Len(stops) - 1), NEW k \in 0..16 PROVE Leg(i, k) \in Point
  <2>1. stops[i].at \in Point /\ stops[i + 1].at \in Point
    BY <1>2, <1>4
  <2> QED
    BY <2>1, SixteenthsArePoints
<1>6. stops[1].at \in Point
  BY <1>2, <1>4
<1> HIDE DEF Leg
<1>7. Along(r) \subseteq Point /\ stops[1].at \in Along(r)
  BY <1>3, <1>5, <1>6
<1> QED
  BY <1>7 DEF stops

LEMMA DetourOfRouteIsShortest ==
    ASSUME NEW p \in Point, NEW n \in DOMAIN Searches,
           NEW place, place = PlaceAt(p, RoutesFor(Searches[n])),
           NEW k \in DOMAIN RoutesFor(Searches[n])
    PROVE  LET least == Min(DistancesOnPath(p, RoutesFor(Searches[n])[k]))
           IN  place.detours[k] \in Nat /\ place.detours[k] <= least
<1> DEFINE r == RoutesFor(Searches[n])[k]
           points == [i \in DOMAIN r.stops |-> r.stops[i].at]
           path == {q \in Along(r) : \/ q = r.stops[1].at
                                    \/ \E i \in 1..(Len(r.stops) - 1) :
                                          OnLeg(q, r.stops[i].at, r.stops[i + 1].at)}
           distances == {Miles(p, q) : q \in path}
           detour == place.detours[k]
<1>1. r \in Route
  BY RoutesForSearch
<1>2. detour = DetourMiles(p, points)
  BY DEF PlaceAt
<1>3. detour \in Nat /\ \A stop \in ToSet(r.stops) : detour <= Miles(p, stop.at)
  <2> DEFINE routes == RoutesFor(Searches[n])
  <2>1. /\ place \in Place /\ Len(place.detours) = Len(routes)
        /\ \A i \in DOMAIN routes :
              \A stop \in ToSet(routes[i].stops) : place.detours[i] <= Miles(p, stop.at)
    BY PlaceIsTyped
  <2>2. routes \in Seq(Route) /\ place.detours \in Seq(Nat)
    BY <2>1, RoutesForSearch DEF Place
  <2>3. place.detours[k] \in Nat
    <3> HIDE DEF routes
    <3>1. k \in DOMAIN routes
      BY DEF routes
    <3> QED
      BY <2>1, <2>2, <3>1
  <2> QED
    BY <2>1, <2>3
<1> HIDE DEF r, detour
<1>4. r.stops \in Seq(Stop) /\ r.stops # <<>>
  BY <1>1, RouteFields
<1>5. \A i \in DOMAIN r.stops : r.stops[i].at \in Point
  <2> TAKE i \in DOMAIN r.stops
  <2>1. r.stops[i] \in Stop
    BY <1>4
  <2> QED
    BY <2>1 DEF Stop
<1>6. /\ points \in Seq(Point) /\ Len(points) = Len(r.stops)
      /\ \A i \in 1..Len(r.stops) : points[i] = r.stops[i].at
  <2>1. DOMAIN r.stops = 1..Len(r.stops) /\ Len(r.stops) \in Nat
    BY <1>4
  <2> QED
    BY <1>5, <2>1
<1> HIDE DEF points
<1>7. ASSUME NEW q \in path PROVE Miles(p, q) \in Nat /\ detour <= Miles(p, q)
  <2>1. q \in Along(r) /\ q \in Point
    BY <1>1, PointsAlong
  <2>2. CASE q = r.stops[1].at
    <3>1. r.stops[1] \in ToSet(r.stops)
      BY <1>4 DEF ToSet
    <3> QED
      BY <1>3, <2>1, <2>2, <3>1, DistanceIsNat
  <2>3. CASE \E i \in 1..(Len(r.stops) - 1) : OnLeg(q, r.stops[i].at, r.stops[i + 1].at)
    <3>1. PICK i \in 1..(Len(r.stops) - 1) : OnLeg(q, r.stops[i].at, r.stops[i + 1].at)
      BY <2>3
    <3>2. i \in 1..(Len(points) - 1) /\ points[i] = r.stops[i].at /\ points[i + 1] = r.stops[i + 1].at
      BY <1>4, <1>6
    <3>3. OnLeg(q, points[i], points[i + 1])
      BY <3>1, <3>2
    <3>4. DetourMiles(p, points) <= Miles(p, q)
      BY <1>6, <2>1, <3>2, <3>3, DetourIsNoFarther
    <3> QED
      BY <1>2, <2>1, <3>4, DistanceIsNat
  <2> QED
    BY <2>2, <2>3
<1>8. distances \subseteq Nat /\ distances # {} /\ \A d \in distances : detour <= d
  <2>1. r.stops[1].at \in path
    BY <1>1, PointsAlong
  <2> QED
    BY <1>7, <2>1
<1>9. detour <= Min(distances)
  <2> HIDE DEF distances
  <2> QED
    BY <1>8, MinIsLeast
<1> QED
  BY <1>3, <1>9 DEF detour, r, DistancesOnPath

\* No point of the path is nearer than the detour charged for, whatever the route and
\* wherever the listing (point_to_segment_miles, detour_miles).
THEOREM DetourCorrect == Spec => []DetourIsShortest
<1>1. PageInv /\ FromRows /\ ScoredInv => DetourIsShortest
  <2> SUFFICES ASSUME PageInv, FromRows, ScoredInv,
                      NEW i \in DOMAIN appraisals, Located(listings[i])
               PROVE  LET detours == PlaceOf(listings[i]).detours
                          least   == LeastOnPath[PointOf(listings[i])][query.search]
                      IN  \A k \in DOMAIN detours : detours[k] <= least[k]
    BY DEF DetourIsShortest
  <2> DEFINE p == PointOf(listings[i])
             n == query.search
             routes == RoutesFor(Searches[n])
             place == PlaceOf(listings[i])
             Shortest(k) == Min(DistancesOnPath(p, routes[k]))
  <2>1. i \in DOMAIN listings
    BY AppraisedIsListed
  <2>2. p \in Points /\ p \in Point /\ n \in DOMAIN Searches /\ place = PlaceAt(p, routes)
    BY <2>1, ListingIsPlaced
  <2>3. LeastOnPath[p][n] = [k \in DOMAIN routes |-> Shortest(k)]
    BY <2>2 DEF LeastOnPath, Least
  <2>4. DOMAIN place.detours = DOMAIN routes
    BY <2>2 DEF PlaceAt
  <2>5. \A k \in DOMAIN routes : place.detours[k] <= Shortest(k)
    BY <2>2, DetourOfRouteIsShortest
  <2> HIDE DEF Shortest
  <2> QED
    BY <2>3, <2>4, <2>5
<1> QED
  BY <1>1, PageTyped, FromRowsCorrect, ScoredCorrect, PTL

-----------------------------------------------------------------------------
(* The other direction: what is charged for can be driven.                 *)

\* If 1024 times a number is at most a square, 32 times its root is at most that of the
\* square: how a root is compared with a sum of miles and 32nds of miles.
LEMMA RootIsWithin ==
    ASSUME NEW n \in Nat, NEW m \in Nat, Square(32) * n <= Square(m)
    PROVE  32 * SquareRoot(n) <= m
<1> DEFINE r == SquareRoot(n)
<1>1. r \in Nat /\ Square(r) <= n
  BY RootIsExact
<1> HIDE DEF r
<1>2. Square(32 * r) = Square(32) * Square(r)
  BY <1>1 DEF Square
<1>3. /\ Square(r) \in Nat /\ Square(32) \in Nat /\ Square(32) * n \in Nat
      /\ Square(m) \in Nat /\ Square(m + 1) \in Nat /\ Square(32 * r) \in Nat
  BY <1>1, SquareIsNat
<1>4. Square(32) * Square(r) <= Square(32) * n
  BY <1>1, <1>3, Larger
<1>5. Square(m) < Square(m + 1)
  BY DEF Square
<1>6. Square(32 * r) < Square(m + 1)
  BY <1>2, <1>3, <1>4, <1>5
<1>7. 32 * r < m + 1
  BY <1>1, <1>6, SquareReflects
<1> QED
  BY <1>1, <1>7 DEF r

\* The triangle inequality: two vectors of known length.
LEMMA Triangle ==
    ASSUME NEW x \in Int, NEW y \in Int, NEW e \in Int, NEW f \in Int, NEW m \in Nat, NEW l \in Nat,
           Square(x) + Square(y) <= Square(m), Square(e) + Square(f) <= Square(l)
    PROVE  Square(x + e) + Square(y + f) <= Square(m + l)
<1> DEFINE d == x * e + y * f
           v == Square(x) + Square(y)
           w == Square(e) + Square(f)
<1>1. /\ Square(x) \in Nat /\ Square(y) \in Nat /\ Square(e) \in Nat /\ Square(f) \in Nat
      /\ Square(m) \in Nat /\ Square(l) \in Nat
  BY SquareIsNat
<1>2. d \in Int /\ v \in Nat /\ w \in Nat
  BY <1>1
<1>3. Square(d) <= v * w
  <2>1. Square(x * e - y * (-f)) <= (Square(x) + Square(y)) * (Square(-f) + Square(e))
    BY Lagrange
  <2>2. x * e - y * (-f) = d /\ Square(-f) = Square(f)
    BY DEF Square
  <2> QED
    BY <1>1, <2>1, <2>2
<1>4. Square(x + e) + Square(y + f) = v + 2 * d + w
  BY DEF Square
<1>5. Square(m + l) = Square(m) + 2 * (m * l) + Square(l)
  BY DEF Square
<1>6. v <= Square(m) /\ w <= Square(l)
  OBVIOUS
<1> HIDE DEF d, v, w
<1>7. v * w <= Square(m * l)
  <2>1. v * w <= v * Square(l)
    BY <1>1, <1>2, <1>6, Larger
  <2>2. Square(l) * v <= Square(l) * Square(m)
    BY <1>1, <1>2, <1>6, Larger
  <2>3. Square(l) * Square(m) = Square(m * l)
    BY DEF Square
  <2>4. v * Square(l) = Square(l) * v /\ v * w \in Int /\ v * Square(l) \in Int /\ Square(m * l) \in Int
    BY <1>1, <1>2, <2>3
  <2> QED
    BY <2>1, <2>2, <2>3, <2>4
<1>8. d <= m * l
  <2> DEFINE k == m * l
  <2>1. k \in Nat /\ Square(d) <= Square(k)
    <3>1. Square(d) \in Nat /\ v * w \in Nat /\ Square(m * l) \in Nat
      BY <1>2, SquareIsNat
    <3> QED
      BY <1>3, <1>7, <3>1
  <2> HIDE DEF k
  <2> SUFFICES ASSUME k + 1 <= d PROVE FALSE
    BY <1>2, <2>1 DEF k
  <2>2. d \in Nat /\ Square(k + 1) <= Square(d)
    BY <1>2, <2>1, SquareGrows
  <2>3. Square(k) < Square(k + 1)
    BY <2>1 DEF Square
  <2>4. Square(k) \in Nat /\ Square(d) \in Nat /\ Square(k + 1) \in Nat
    BY <1>2, <2>1, SquareIsNat
  <2> QED
    BY <2>1, <2>2, <2>3, <2>4
<1> QED
  BY <1>1, <1>2, <1>4, <1>5, <1>6, <1>8

\* A cross product below y legs is below one more for every time the leg goes into y:
\* what rounding the length of the leg up costs.
LEMMA AcrossIsBelow ==
    ASSUME NEW m \in Nat, NEW y \in Nat, NEW leg \in Nat \ {0}, NEW r \in Nat \ {0},
           leg <= r + 1, m < y * leg
    PROVE  y \div r \in Nat /\ m < (y + (y \div r) + 1) * r
<1> DEFINE x == y \div r
           z == y % r
<1>1. x \in Int /\ z \in 0..(r - 1) /\ y = r * x + z
  BY Division
<1>2. x \in Nat
  BY Quotient
<1> HIDE DEF x, z
<1>3. y <= (x + 1) * r
  BY <1>1
<1>4. y * leg <= y * (r + 1)
  BY Larger
<1>5. y * (r + 1) = y * r + y /\ (y + x + 1) * r = y * r + (x + 1) * r
  BY <1>2
<1>6. /\ y * r \in Int /\ y * leg \in Int /\ (x + 1) * r \in Int /\ y * (r + 1) \in Int
      /\ (y + x + 1) * r \in Int
  BY <1>2
<1>7. m < (y + x + 1) * r
  BY <1>3, <1>4, <1>5, <1>6
<1> QED
  BY <1>2, <1>7 DEF x

\* Of the sixteenths of a leg, the one nearest to the foot of the perpendicular.
LEMMA FootIsReached ==
    ASSUME NEW x \in Int, NEW y \in Int, NEW u \in Int, NEW v \in Int,
           NEW n \in Nat \ {0}, n = Square(x) + Square(y),
           NEW along \in 0..n, along = u * x + v * y,
           NEW leg \in Nat \ {0}, n <= Square(leg),
           NEW r \in Nat \ {0}, Square(r) <= n,
           NEW m \in Nat, Square(m) = Square(x * v - y * u),
           NEW far \in Nat, m < far * r
    PROVE  \E k \in 0..16 : Square(2 * (16 * u - k * x)) + Square(2 * (16 * v - k * y))
                                <= Square(leg + 32 * far)
<1> DEFINE k == (32 * along + n) \div (2 * n)
           z == (32 * along + n) % (2 * n)
           c == 32 * along - 2 * n * k
           across == x * v - y * u
           V == 2 * (16 * u - k * x)
           W == 2 * (16 * v - k * y)
<1>1. k \in Int /\ z \in 0..(2 * n - 1) /\ 32 * along + n = (2 * n) * k + z
  <2> DEFINE d == 2 * n
             t == 32 * along + n
  <2>1. d \in Nat \ {0} /\ t \in Int
    OBVIOUS
  <2> HIDE DEF d, t
  <2>2. t \div d \in Int /\ t % d \in 0..(d - 1) /\ t = d * (t \div d) + (t % d)
    BY <2>1, Division
  <2> QED
    BY <2>2 DEF d, t
<1> HIDE DEF k, z
<1>2. c = z - n /\ c \in Int
  BY <1>1
<1>3. k \in 0..16
  <2>1. k >= 0
    <3> SUFFICES ASSUME k <= -1 PROVE FALSE
      BY <1>1
    <3>1. (2 * n) * k <= (2 * n) * (-1)
      BY <1>1, Larger
    <3> QED
      BY <1>1, <3>1
  <2>2. k <= 16
    <3> SUFFICES ASSUME 17 <= k PROVE FALSE
      BY <1>1
    <3>1. (2 * n) * 17 <= (2 * n) * k
      BY <1>1, Larger
    <3> QED
      BY <1>1, <3>1
  <2> QED
    BY <1>1, <2>1, <2>2
<1>4. Square(c) <= Square(n)
  <2> HIDE DEF c
  <2>1. CASE c >= 0
    <3>1. c \in Nat /\ c <= n
      BY <1>1, <1>2, <2>1
    <3> QED
      BY <3>1, SquareGrows
  <2>2. CASE c < 0
    <3>1. -c \in Nat /\ -c <= n
      BY <1>1, <1>2, <2>2
    <3>2. Square(-c) = Square(c)
      BY <1>2 DEF Square
    <3>3. Square(-c) <= Square(n)
      BY <3>1, SquareGrows
    <3> QED
      BY <3>2, <3>3
  <2> QED
    BY <1>2, <2>1, <2>2
<1>5. V \in Int /\ W \in Int /\ across \in Int
  BY <1>3
<1>6. x * V + y * W = c
  <2>1. x * V + y * W = 32 * (u * x + v * y) - 2 * k * (x * x + y * y)
    BY <1>3
  <2> QED
    BY <1>3, <2>1 DEF Square
<1>7. x * W - y * V = 32 * across
  BY <1>3
<1>8. Square(x * W - y * V) + Square(V * x + W * y) = n * (Square(V) + Square(W))
  <2> HIDE DEF V, W
  <2> QED
    BY <1>5 DEF Square
<1>9. n * (Square(V) + Square(W)) = Square(32 * across) + Square(c)
  <2>1. V * x + W * y = c
    <3> HIDE DEF V, W, c
    <3> QED
      BY <1>5, <1>6
  <2> QED
    BY <1>7, <1>8, <2>1
<1> HIDE DEF V, W, c, across
<1>10. Square(32 * across) <= Square(32 * far) * n
  <2>1. Square(m) <= Square(far * r)
    BY SquareGrows
  <2>2. Square(far * r) = Square(far) * Square(r)
    BY DEF Square
  <2>3. /\ Square(far) \in Nat /\ Square(r) \in Nat /\ Square(m) \in Nat
        /\ Square(far) * Square(r) \in Nat /\ Square(far) * n \in Nat /\ Square(across) \in Nat
    BY <1>5, SquareIsNat
  <2>4. Square(far) * Square(r) <= Square(far) * n
    BY <2>3, Larger
  <2>5. Square(across) <= Square(far) * n
    BY <2>1, <2>2, <2>3, <2>4 DEF across
  <2>6. Square(32 * across) = 1024 * Square(across) /\ Square(32 * far) = 1024 * Square(far)
    BY <1>5 DEF Square
  <2>7. 1024 * Square(across) <= 1024 * (Square(far) * n)
    BY <2>3, <2>5, Larger
  <2>8. 1024 * (Square(far) * n) = (1024 * Square(far)) * n
    BY <2>3
  <2> QED
    BY <2>6, <2>7, <2>8
<1>11. Square(V) + Square(W) <= n + Square(32 * far)
  <2> DEFINE s == Square(V) + Square(W)
             t == n + Square(32 * far)
  <2>1. s \in Nat /\ t \in Nat /\ Square(32 * far) \in Nat
    BY <1>5, SquareIsNat
  <2>2. n * s <= n * t
    <3>1. n * t = Square(n) + Square(32 * far) * n
      BY <2>1 DEF Square
    <3>2. Square(c) \in Int /\ Square(n) \in Int /\ Square(32 * across) \in Int /\ Square(32 * far) * n \in Int
      BY <1>2, <1>5, <2>1, SquareIsNat
    <3> QED
      BY <1>4, <1>9, <1>10, <3>1, <3>2
  <2> HIDE DEF s, t
  <2>3. s <= t
    <3> SUFFICES ASSUME t + 1 <= s PROVE FALSE
      BY <2>1
    <3>1. n * (t + 1) <= n * s /\ n * (t + 1) = n * t + n
      BY <2>1, Larger
    <3>2. n * t \in Int /\ n * s \in Int
      BY <2>1
    <3> QED
      BY <2>2, <3>1, <3>2
  <2> QED
    BY <2>3 DEF s, t
<1>12. n + Square(32 * far) <= Square(leg + 32 * far)
  <2>1. Square(leg + 32 * far) = Square(leg) + 2 * (leg * (32 * far)) + Square(32 * far)
    BY DEF Square
  <2>2. leg * (32 * far) \in Nat /\ Square(leg) \in Nat /\ Square(32 * far) \in Nat
    BY SquareIsNat
  <2> QED
    BY <2>1, <2>2
<1>13. Square(V) + Square(W) <= Square(leg + 32 * far)
  <2>1. Square(V) \in Nat /\ Square(W) \in Nat /\ Square(32 * far) \in Nat /\ Square(leg + 32 * far) \in Nat
    BY <1>5, SquareIsNat
  <2> QED
    BY <1>11, <1>12, <2>1
<1> QED
  BY <1>3, <1>13 DEF V, W

\* A sixteenth, rounded down.
LEMMA SixteenthIsNear ==
    ASSUME NEW k \in 0..16, NEW d \in Int
    PROVE  /\ (k * d) \div 16 \in Int
           /\ \E e \in 0..15 : 16 * ((k * d) \div 16) = k * d - e
<1> DEFINE n == k * d
           q == n \div 16
           e == n % 16
<1>1. n \in Int
  OBVIOUS
<1> HIDE DEF n
<1>2. q \in Int /\ e \in 0..15 /\ n = 16 * q + e
  BY <1>1, Division
<1> HIDE DEF q, e
<1>3. 16 * q = n - e
  BY <1>1, <1>2
<1> QED
  BY <1>2, <1>3 DEF n, q

\* From p to the sixteenth nearest to the foot of its perpendicular.
LEMMA SixteenthIsReached ==
    ASSUME NEW p \in Point, NEW a \in Point, NEW b \in Point, NEW k \in 0..16, NEW m \in Nat,
           Square(2 * (16 * (p[1] - a[1]) - k * (b[1] - a[1])))
               + Square(2 * (16 * (p[2] - a[2]) - k * (b[2] - a[2]))) <= Square(m)
    PROVE  32 * Miles(p, Sixteenths(k, a, b)) <= m + 44
<1> DEFINE q == Sixteenths(k, a, b)
           u == p[1] - a[1]
           v == p[2] - a[2]
           x == b[1] - a[1]
           y == b[2] - a[2]
           s == (k * x) \div 16
           t == (k * y) \div 16
<1>1. u \in Int /\ v \in Int /\ x \in Int /\ y \in Int
  BY DEF Point
<1>2. s \in Int /\ t \in Int /\ \E e \in 0..15 : 16 * s = k * x - e
  BY <1>1, SixteenthIsNear
<1>3. \E f \in 0..15 : 16 * t = k * y - f
  BY <1>1, SixteenthIsNear
<1>4. PICK e \in 0..15 : 16 * s = k * x - e
  BY <1>2
<1>5. PICK f \in 0..15 : 16 * t = k * y - f
  BY <1>3
<1>6. q \in Point
  BY SixteenthsArePoints
<1>7. p[1] - q[1] = u - s /\ p[2] - q[2] = v - t
  <2>1. q[1] = a[1] + s /\ q[2] = a[2] + t
    BY DEF Sixteenths
  <2>2. a[1] \in Int /\ a[2] \in Int /\ p[1] \in Int /\ p[2] \in Int
    BY DEF Point
  <2>3. s \in Int /\ t \in Int
    BY <1>2
  <2> HIDE DEF s, t, q
  <2> QED
    BY <2>1, <2>2, <2>3
<1>8. SquareOfDistance(p, q) = Square(u - s) + Square(v - t)
  BY <1>7 DEF SquareOfDistance
<1> DEFINE V == 2 * (16 * u - k * x)
           W == 2 * (16 * v - k * y)
<1>9. Square(V) + Square(W) <= Square(m)
  OBVIOUS
<1> HIDE DEF q, u, v, x, y, s, t
<1>10. 32 * (u - s) = V + 2 * e /\ 32 * (v - t) = W + 2 * f
  BY <1>1, <1>2, <1>4, <1>5
<1>11. V \in Int /\ W \in Int
  BY <1>1
<1> HIDE DEF V, W
<1>12. Square(2 * e) + Square(2 * f) <= Square(44)
  <2>1. 2 * e <= 30 /\ 2 * f <= 30 /\ 2 * e \in Nat /\ 2 * f \in Nat
    OBVIOUS
  <2>2. Square(2 * e) <= Square(30) /\ Square(2 * f) <= Square(30)
    BY <2>1, SquareGrows
  <2>3. Square(30) = 900 /\ Square(44) = 1936
    BY DEF Square
  <2> QED
    BY <2>1, <2>2, <2>3, SquareIsNat
<1>13. Square(V + 2 * e) + Square(W + 2 * f) <= Square(m + 44)
  BY <1>9, <1>11, <1>12, Triangle
<1>14. Square(32) * (Square(u - s) + Square(v - t)) = Square(32 * (u - s)) + Square(32 * (v - t))
  BY <1>1, <1>2 DEF Square
<1>15. 32 * SquareRoot(SquareOfDistance(p, q)) <= m + 44
  <2>1. SquareOfDistance(p, q) \in Nat
    BY <1>6, DistanceIsNat
  <2>2. Square(32) * SquareOfDistance(p, q) <= Square(m + 44)
    BY <1>8, <1>10, <1>13, <1>14
  <2>3. m + 44 \in Nat
    OBVIOUS
  <2> QED
    BY <2>1, <2>2, <2>3, RootIsWithin
<1> QED
  BY <1>15 DEF Miles, q

\* What a distance is less than, from 32 times it.
LEMMA ReachIsWithin ==
    ASSUME NEW d \in Nat, NEW leg \in Nat, NEW far \in Nat, 32 * d <= leg + 32 * far + 44
    PROVE  d <= far + (leg + 44) \div 32
<1>1. 32 * (d - far) <= leg + 44
  OBVIOUS
<1>2. d - far <= (leg + 44) \div 32
  BY <1>1, DivisionIsMost
<1>3. (leg + 44) \div 32 \in Int
  OBVIOUS
<1> QED
  BY <1>2, <1>3

\* Some sixteenth of a leg is as near as the leg, but for the gap.
LEMMA SegmentIsReached ==
    ASSUME NEW p \in Point, NEW a \in Point, NEW b \in Point
    PROVE  /\ Gap(p, a, b) \in Nat
           /\ \E k \in 0..16 : Miles(p, Sixteenths(k, a, b)) <= PointToSegment(p, a, b) + Gap(p, a, b)
<1> DEFINE dx == b[1] - a[1]
           dy == b[2] - a[2]
           u  == p[1] - a[1]
           v  == p[2] - a[2]
           along  == u * dx + v * dy
           across == dx * v - dy * u
           n   == SquareOfDistance(a, b)
           leg == LegLength(a, b)
           r   == Miles(a, b)
           m   == Magnitude(across)
           det == PointToSegment(p, a, b)
           gap == Gap(p, a, b)
<1>1. dx \in Int /\ dy \in Int /\ u \in Int /\ v \in Int
  BY DEF Point
<1>2. Miles(p, a) \in Nat /\ Miles(p, b) \in Nat /\ n \in Nat /\ r \in Nat
  BY DistanceIsNat
<1>3. det \in Nat /\ det <= Miles(p, a)
  BY SegmentIsWithin
<1>4. det = CASE a = b \/ along <= 0 -> Miles(p, a)
              [] a # b /\ along >= n -> Miles(p, b)
              [] OTHER -> m \div leg
  BY DEF PointToSegment
<1>5. n = Square(dx) + Square(dy)
  BY DEF SquareOfDistance, Square, Point
<1>6. Sixteenths(0, a, b) = a /\ Sixteenths(16, a, b) = b
  <2>1. /\ a = <<a[1], a[2]>> /\ b = <<b[1], b[2]>>
        /\ a[1] \in Int /\ a[2] \in Int /\ b[1] \in Int /\ b[2] \in Int
    BY DEF Point
  <2>2. \A d \in Int : (0 * d) \div 16 = 0 /\ (16 * d) \div 16 = d
    OBVIOUS
  <2>3. a[1] + (0 * dx) \div 16 = a[1] /\ a[2] + (0 * dy) \div 16 = a[2]
    BY <1>1, <2>1, <2>2
  <2>4. a[1] + (16 * dx) \div 16 = b[1] /\ a[2] + (16 * dy) \div 16 = b[2]
    BY <1>1, <2>1, <2>2
  <2> QED
    BY <2>1, <2>3, <2>4 DEF Sixteenths
<1>7. a # b => /\ n > 0 /\ leg \in Nat \ {0} /\ n <= Square(leg) /\ leg <= r + 1
               /\ r \in Nat \ {0} /\ Square(r) <= n
  <2> SUFFICES ASSUME a # b
               PROVE  /\ n > 0 /\ leg \in Nat \ {0} /\ n <= Square(leg) /\ leg <= r + 1
                      /\ r \in Nat \ {0} /\ Square(r) <= n
    OBVIOUS
  <2>1. leg \in Nat \ {0} /\ n > 0 /\ n <= Square(leg)
    BY LegIsCovered
  <2>2. leg <= r + 1
    BY <1>2 DEF LegLength
  <2>3. Square(r) <= n /\ n < Square(r + 1)
    BY <1>2, RootIsExact DEF Miles
  <2>4. r # 0
    <3> SUFFICES ASSUME r = 0 PROVE FALSE
      OBVIOUS
    <3> HIDE DEF r, n
    <3>1. Square(r + 1) = 1
      BY DEF Square
    <3> QED
      BY <1>2, <2>1, <2>3, <3>1
  <2> QED
    BY <1>2, <2>1, <2>2, <2>3, <2>4
<1>8. gap = IF a = b THEN 0 ELSE 2 + (leg + 44) \div 32 + (Miles(p, a) + 1) \div r
  BY DEF Gap
<1>9. gap \in Nat
  <2>1. CASE a = b
    BY <1>8, <2>1
  <2>2. CASE a # b
    <3>1. (leg + 44) \div 32 \in Nat /\ (Miles(p, a) + 1) \div r \in Nat
      BY <1>2, <1>7, <2>2, Quotient
    <3> QED
      BY <1>8, <2>2, <3>1
  <2> QED
    BY <2>1, <2>2
<1> HIDE DEF dx, dy, u, v, n, leg, r, m, det, gap
<1>10. along \in Int /\ across \in Int
  BY <1>1
<1>11. CASE a = b \/ along <= 0
  <2>1. det = Miles(p, a)
    <3>1. a # b => ~ (along >= n)
      <4> HIDE DEF along
      <4> QED
        BY <1>2, <1>7, <1>10, <1>11
    <3> HIDE DEF along
    <3> QED
      BY <1>4, <1>11, <3>1
  <2>2. Miles(p, Sixteenths(0, a, b)) <= det + gap
    BY <1>2, <1>6, <1>9, <2>1
  <2> QED
    BY <1>9, <2>2 DEF det, gap
<1>12. CASE a # b /\ ~ (along <= 0) /\ along >= n
  <2>1. det = Miles(p, b)
    <3> HIDE DEF along
    <3> QED
      BY <1>4, <1>12
  <2>2. Miles(p, Sixteenths(16, a, b)) <= det + gap
    BY <1>2, <1>6, <1>9, <2>1
  <2> QED
    BY <1>9, <2>2 DEF det, gap
<1>13. CASE a # b /\ ~ (along <= 0) /\ ~ (along >= n)
  <2> DEFINE far == (det + 1) + ((det + 1) \div r) + 1
  <2>1. det = m \div leg
    <3> HIDE DEF along
    <3> QED
      BY <1>4, <1>13
  <2>2. m \in Nat /\ Square(m) = Square(across)
    <3> HIDE DEF across
    <3> QED
      BY <1>10 DEF m, Magnitude, Square
  <2>3. leg \in Nat \ {0} /\ r \in Nat \ {0} /\ leg <= r + 1 /\ det + 1 \in Nat
    BY <1>3, <1>7, <1>13
  <2> HIDE DEF across
  <2>4. far \in Nat /\ m < far * r
    <3> DEFINE y == det + 1
               z == m % leg
    <3>1. z \in 0..(leg - 1) /\ m = leg * det + z
      <4>1. m \in Int
        BY <2>2
      <4> QED
        BY <2>1, <2>3, <4>1, Division
    <3> HIDE DEF z
    <3>2. m < y * leg
      BY <1>3, <2>3, <3>1
    <3>3. m \in Nat /\ y \in Nat
      BY <2>2, <2>3
    <3> HIDE DEF y
    <3>4. y \div r \in Nat /\ m < (y + (y \div r) + 1) * r
      BY <2>3, <3>2, <3>3, AcrossIsBelow
    <3>5. far = y + (y \div r) + 1
      BY DEF y
    <3> HIDE DEF far
    <3> QED
      BY <3>3, <3>4, <3>5
  <2>5. along \in 0..n
    <3> HIDE DEF along
    <3> QED
      BY <1>2, <1>10, <1>13
  <2>6. far <= 2 + det + (Miles(p, a) + 1) \div r
    <3>1. (det + 1) \div r <= (Miles(p, a) + 1) \div r
      <4> DEFINE w == (det + 1) \div r
      <4>1. w \in Nat /\ w * r <= det + 1
        BY <1>3, <1>7, <1>13, Quotient
      <4> HIDE DEF w
      <4>2. r * w <= Miles(p, a) + 1
        BY <1>2, <1>3, <1>7, <1>13, <4>1
      <4>3. w <= (Miles(p, a) + 1) \div r
        BY <1>2, <1>7, <1>13, <4>1, <4>2, DivisionIsMost
      <4> QED
        BY <4>3 DEF w
    <3>2. (det + 1) \div r \in Nat /\ (Miles(p, a) + 1) \div r \in Nat
      BY <1>2, <1>3, <1>7, <1>13, Quotient
    <3> QED
      BY <1>3, <3>1, <3>2
  <2> HIDE DEF far, along
  <2>7. \E k \in 0..16 : Square(2 * (16 * u - k * dx)) + Square(2 * (16 * v - k * dy))
                             <= Square(leg + 32 * far)
    <3>1. n \in Nat \ {0} /\ n <= Square(leg) /\ Square(r) <= n
      BY <1>2, <1>7, <1>13
    <3>2. m \in Nat /\ Square(m) = Square(dx * v - dy * u)
      BY <2>2 DEF across
    <3>3. along = u * dx + v * dy
      BY DEF along
    <3> QED
      BY <1>1, <1>5, <2>3, <2>4, <2>5, <3>1, <3>2, <3>3, FootIsReached
  <2>8. PICK k \in 0..16 : Square(2 * (16 * u - k * dx)) + Square(2 * (16 * v - k * dy))
                               <= Square(leg + 32 * far)
    BY <2>7
  <2>9. leg + 32 * far \in Nat
    BY <1>7, <1>13, <2>4
  <2>10. 32 * Miles(p, Sixteenths(k, a, b)) <= (leg + 32 * far) + 44
    BY <2>8, <2>9, SixteenthIsReached DEF u, v, dx, dy
  <2>11. Miles(p, Sixteenths(k, a, b)) \in Nat
    BY SixteenthsArePoints, DistanceIsNat
  <2>12. Miles(p, Sixteenths(k, a, b)) <= far + (leg + 44) \div 32
    BY <1>7, <1>13, <2>4, <2>10, <2>11, ReachIsWithin
  <2>13. (leg + 44) \div 32 \in Nat /\ (Miles(p, a) + 1) \div r \in Nat
    BY <1>2, <1>7, <1>13, Quotient
  <2>14. Miles(p, Sixteenths(k, a, b)) <= det + gap
    BY <1>3, <1>8, <1>13, <2>4, <2>6, <2>11, <2>12, <2>13
  <2> QED
    BY <1>9, <2>14 DEF det, gap
<1> QED
  BY <1>11, <1>12, <1>13

LEMMA RouteIsReached ==
    ASSUME NEW p \in Point, NEW r \in Route,
           NEW points, points = [i \in DOMAIN r.stops |-> r.stops[i].at]
    PROVE  /\ DistancesAlong(p, r) \subseteq Nat
           /\ \E d \in DistancesAlong(p, r) : d <= DetourMiles(p, points)
<1> DEFINE stops == r.stops
           Less(m, l) == IF m < l THEN 0 ELSE m - l
           Far(i, k) == Less(Miles(p, Sixteenths(k, stops[i].at, stops[i + 1].at)),
                             Gap(p, stops[i].at, stops[i + 1].at))
           Leg(i) == PointToSegment(p, points[i], points[i + 1])
           legs == {Leg(i) : i \in 1..(Len(points) - 1)}
<1>1. stops \in Seq(Stop) /\ stops # <<>>
  BY RouteFields
<1>2. \A i \in 1..Len(stops) : stops[i].at \in Point
  <2> TAKE i \in 1..Len(stops)
  <2>1. stops[i] \in Stop
    BY <1>1
  <2> QED
    BY <2>1 DEF Stop
<1>3. DistancesAlong(p, r) = {Miles(p, stops[1].at)} \cup
                             {Far(i, k) : i \in 1..(Len(stops) - 1), k \in 0..16}
  BY DEF DistancesAlong
<1>4. /\ Len(stops) \in Nat \ {0} /\ points \in Seq(Point) /\ Len(points) = Len(stops)
      /\ \A i \in 1..Len(stops) : points[i] = stops[i].at
  <2>1. DOMAIN stops = 1..Len(stops) /\ Len(stops) \in Nat \ {0}
    BY <1>1
  <2> QED
    BY <1>2, <2>1
<1> HIDE DEF stops
<1>5. ASSUME NEW i \in 1..(Len(stops) - 1), NEW k \in 0..16
      PROVE  /\ Far(i, k) \in Nat
             /\ \A d \in Nat : Miles(p, Sixteenths(k, stops[i].at, stops[i + 1].at))
                                   <= d + Gap(p, stops[i].at, stops[i + 1].at) => Far(i, k) <= d
  <2> DEFINE m == Miles(p, Sixteenths(k, stops[i].at, stops[i + 1].at))
             l == Gap(p, stops[i].at, stops[i + 1].at)
  <2>1. stops[i].at \in Point /\ stops[i + 1].at \in Point
    BY <1>2, <1>4
  <2>2. m \in Nat /\ l \in Nat
    BY <2>1, SixteenthsArePoints, DistanceIsNat, SegmentIsReached
  <2> HIDE DEF m, l
  <2>3. Less(m, l) \in Nat /\ \A d \in Nat : m <= d + l => Less(m, l) <= d
    BY <2>2
  <2> QED
    BY <2>3 DEF m, l
<1>6. Miles(p, stops[1].at) \in Nat
  BY <1>2, <1>4, DistanceIsNat
<1> HIDE DEF Far
<1>7. DistancesAlong(p, r) \subseteq Nat
  <2>1. ASSUME NEW i \in 1..(Len(stops) - 1), NEW k \in 0..16 PROVE Far(i, k) \in Nat
    BY <1>5
  <2>2. ASSUME NEW d \in DistancesAlong(p, r) PROVE d \in Nat
    <3>1. d = Miles(p, stops[1].at) \/ \E i \in 1..(Len(stops) - 1), k \in 0..16 : d = Far(i, k)
      BY <1>3
    <3> QED
      BY <1>6, <2>1, <3>1
  <2> QED
    BY <2>2
<1>8. CASE Len(points) = 1
  <2>1. DetourMiles(p, points) = Miles(p, stops[1].at)
    BY <1>4, <1>8 DEF DetourMiles
  <2>2. Miles(p, stops[1].at) \in DistancesAlong(p, r)
    BY <1>3
  <2> QED
    BY <1>6, <1>7, <2>1, <2>2
<1>9. CASE Len(points) # 1
  <2>1. DetourMiles(p, points) = Min(legs)
    BY <1>9 DEF DetourMiles
  <2>2. \A i \in 1..(Len(points) - 1) : Leg(i) \in Nat
    <3> TAKE i \in 1..(Len(points) - 1)
    <3>1. points[i] \in Point /\ points[i + 1] \in Point
      BY <1>4
    <3> QED
      BY <3>1, SegmentIsWithin
  <2>3. Leg(1) \in legs
    <3>1. 1 \in 1..(Len(points) - 1)
      BY <1>4, <1>9
    <3> HIDE DEF Leg
    <3> QED
      BY <3>1
  <2> HIDE DEF Leg
  <2>4. legs \subseteq Nat
    BY <2>2
  <2> HIDE DEF legs
  <2>5. Min(legs) \in legs /\ Min(legs) \in Nat
    BY <2>3, <2>4, MinIsLeast
  <2>6. PICK i \in 1..(Len(points) - 1) : Min(legs) = Leg(i)
    BY <2>5 DEF legs
  <2>7. /\ stops[i].at \in Point /\ stops[i + 1].at \in Point /\ i \in 1..(Len(stops) - 1)
        /\ points[i] = stops[i].at /\ points[i + 1] = stops[i + 1].at
    BY <1>2, <1>4
  <2>8. PICK k \in 0..16 : Miles(p, Sixteenths(k, stops[i].at, stops[i + 1].at))
                               <= Leg(i) + Gap(p, stops[i].at, stops[i + 1].at)
    BY <2>7, SegmentIsReached DEF Leg
  <2>9. Far(i, k) <= Leg(i)
    BY <1>5, <2>2, <2>7, <2>8
  <2>10. Far(i, k) \in DistancesAlong(p, r)
    BY <1>3, <2>7
  <2> QED
    BY <1>7, <2>1, <2>6, <2>9, <2>10
<1> QED
  BY <1>8, <1>9

\* Some point of the path is as near as the detour charged for, but for the spacing of
\* the points it is compared with: the distance is clamped to the ends of the legs
\* (point_to_segment_miles, detour_miles).
THEOREM ReachCorrect == Spec => []DetourReachesThePath
<1>1. PageInv /\ FromRows /\ ScoredInv => DetourReachesThePath
  <2> SUFFICES ASSUME PageInv, FromRows, ScoredInv,
                      NEW i \in DOMAIN appraisals, Located(listings[i])
               PROVE  LET detours == PlaceOf(listings[i]).detours
                          least   == LeastAlong[PointOf(listings[i])][query.search]
                      IN  \A k \in DOMAIN detours : least[k] <= detours[k]
    BY DEF DetourReachesThePath
  <2> DEFINE p == PointOf(listings[i])
             n == query.search
             routes == RoutesFor(Searches[n])
             place == PlaceOf(listings[i])
             Shortest(k) == Min(DistancesAlong(p, routes[k]))
  <2>1. i \in DOMAIN listings
    BY AppraisedIsListed
  <2>2. p \in Points /\ p \in Point /\ n \in DOMAIN Searches /\ place = PlaceAt(p, routes)
    BY <2>1, ListingIsPlaced
  <2>3. LeastAlong[p][n] = [k \in DOMAIN routes |-> Shortest(k)]
    BY <2>2 DEF LeastAlong, Least
  <2>4. DOMAIN place.detours = DOMAIN routes
    BY <2>2 DEF PlaceAt
  <2>5. \A k \in DOMAIN routes : Shortest(k) <= place.detours[k]
    <3> TAKE k \in DOMAIN routes
    <3> DEFINE points == [j \in DOMAIN routes[k].stops |-> routes[k].stops[j].at]
               distances == DistancesAlong(p, routes[k])
    <3>1. routes[k] \in Route
      BY <2>2, RoutesForSearch
    <3>2. place.detours[k] = DetourMiles(p, points)
      BY <2>2 DEF PlaceAt
    <3>3. place.detours[k] \in Nat
      BY <2>2, DetourOfRouteIsShortest
    <3>4. distances \subseteq Nat /\ \E d \in distances : d <= DetourMiles(p, points)
      BY <2>2, <3>1, RouteIsReached
    <3> HIDE DEF distances
    <3>5. PICK d \in distances : d <= place.detours[k]
      BY <3>2, <3>4
    <3>6. Min(distances) \in distances /\ Min(distances) <= d
      BY <3>4, MinIsLeast
    <3> QED
      BY <3>3, <3>4, <3>5, <3>6 DEF distances
  <2> HIDE DEF Shortest
  <2> QED
    BY <2>3, <2>4, <2>5
<1> QED
  BY <1>1, PageTyped, FromRowsCorrect, ScoredCorrect, PTL
=============================================================================
