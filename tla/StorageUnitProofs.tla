--------------------------- MODULE StorageUnitProofs ---------------------------
(***************************************************************************)
(* A higher bid never nets more, the walk-away bid breaks even and bids on *)
(* the wrong side of it are told apart, for every unit and every bid.      *)
(***************************************************************************)
EXTENDS StorageUnit, TLAPS

\* Rounding to a hundredth keeps order.
LEMMA HalfUpMonotone ==
    ASSUME NEW m \in Nat, NEW n \in Nat, m <= n
    PROVE  HalfUp(m, 100) \in Nat /\ HalfUp(m, 100) <= HalfUp(n, 100)
<1>1. HalfUp(m, 100) = (2 * m + 100) \div 200 /\ HalfUp(n, 100) = (2 * n + 100) \div 200
  BY DEF HalfUp
<1>2. (2 * m + 100) \div 200 \in Nat /\ (2 * m + 100) \div 200 <= (2 * n + 100) \div 200
  BY SMT
<1> QED
  BY <1>1, <1>2

LEMMA TimesMonotone ==
    ASSUME NEW a \in Nat, NEW b \in Nat, a <= b, NEW rate \in Nat
    PROVE  a * rate \in Nat /\ a * rate <= b * rate
<1>1. PICK k \in Nat : b = a + k
  <2>1. b - a \in Nat /\ b = a + (b - a)
    OBVIOUS
  <2> QED
    BY <2>1
<1>2. b * rate = a * rate + k * rate /\ k * rate \in Nat /\ a * rate \in Nat
  BY <1>1, SMT
<1> QED
  BY <1>2

\* Premium and tax never fall when the bid rises.
LEMMA ExtrasMonotone ==
    ASSUME NEW u \in Unit, NEW a \in Nat, NEW b \in Nat, a <= b
    PROVE  /\ Premium(u, a) \in Nat /\ Premium(u, a) <= Premium(u, b)
           /\ Tax(u, a) \in Nat /\ Tax(u, a) <= Tax(u, b)
<1>0. u.premiumRate \in Nat /\ u.taxRate \in Nat
  BY DEF Unit
<1>1. /\ a * u.premiumRate \in Nat /\ b * u.premiumRate \in Nat
      /\ a * u.premiumRate <= b * u.premiumRate
  BY <1>0, TimesMonotone
<1>2. /\ Premium(u, a) \in Nat /\ Premium(u, b) \in Nat
      /\ Premium(u, a) <= Premium(u, b)
  BY <1>1, HalfUpMonotone DEF Premium
<1>3. /\ a + Premium(u, a) \in Nat /\ b + Premium(u, b) \in Nat
      /\ a + Premium(u, a) <= b + Premium(u, b)
  BY <1>2
<1>4. /\ (a + Premium(u, a)) * u.taxRate \in Nat
      /\ (b + Premium(u, b)) * u.taxRate \in Nat
      /\ (a + Premium(u, a)) * u.taxRate <= (b + Premium(u, b)) * u.taxRate
  BY <1>0, <1>3, TimesMonotone
<1>5. Tax(u, a) \in Nat /\ Tax(u, a) <= Tax(u, b)
  BY <1>4, HalfUpMonotone DEF Tax
<1> QED
  BY <1>2, <1>5

\* What a unit costs besides the bid and what it brings are numbers of their own.
LEMMA FixedTypes ==
    ASSUME NEW u \in Unit
    PROVE  Fixed(u) \in Int /\ Revenue(u) \in Int
<1>1. /\ u.miles \in Nat /\ u.loads \in Nat /\ u.disposal \in Nat /\ u.labor \in Nat
      /\ u.contents \in Nat /\ u.sellable \in Nat
      /\ CostPerMile \in Nat /\ HourlyValue \in Nat
  BY UnitsAssumption DEF Unit
<1>2. /\ u.miles * u.loads * CostPerMile \in Nat
      /\ u.labor * HourlyValue \in Nat
      /\ u.contents * u.sellable \in Nat
  BY <1>1, SMT
<1>3. \A n \in Nat : HalfUp(n, 10) \in Int /\ HalfUp(n, 100) \in Int
  BY DEF HalfUp
<1> QED
  BY <1>1, <1>2, <1>3 DEF Fixed, Labor, Revenue

\* The total cost of a unit rises with the bid.
LEMMA CostRises ==
    ASSUME NEW u \in Unit, NEW a \in Nat, NEW b \in Nat, a < b
    PROVE  /\ TotalCost(u, a) \in Int /\ TotalCost(u, b) \in Int
           /\ TotalCost(u, a) < TotalCost(u, b)
<1>1. /\ Premium(u, a) \in Nat /\ Premium(u, b) \in Nat /\ Premium(u, a) <= Premium(u, b)
      /\ Tax(u, a) \in Nat /\ Tax(u, b) \in Nat /\ Tax(u, a) <= Tax(u, b)
  BY ExtrasMonotone
<1> QED
  BY <1>1, FixedTypes DEF TotalCost

-----------------------------------------------------------------------------
\* The estimate held is one of the unit considered, at a bid asked about.
Current ==
    /\ unit \in Units
    /\ Asked => \E bid \in Bids : estimate = EvaluateStorageUnit(unit, bid)

LEMMA CurrentInvariance == Spec => []Current
<1>1. Init => Current
  <2>1. NoEstimate.verdict = "not asked"
    BY DEF NoEstimate
  <2> QED
    BY <2>1 DEF Init, Current, Asked
<1>2. Current /\ [Next]_vars => Current'
  <2>1. ASSUME Current, Next PROVE Current'
    BY <2>1 DEF Current, Next, Evaluate
  <2>2. ASSUME Current, UNCHANGED vars PROVE Current'
    BY <2>2 DEF Current, vars, Asked
  <2> QED
    BY <2>1, <2>2
<1> QED
  BY <1>1, <1>2, PTL DEF Spec

\* A higher bid never nets more nor needs less cash, whatever the rates of the unit
\* and although premium and tax are rounded one after the other.
THEOREM HigherBidCorrect == Spec => HigherBidNeverNetsMore
<1>1. Current /\ [Next]_vars
        => [Asked /\ estimate'.bid > estimate.bid
              => /\ estimate'.netProfit < estimate.netProfit
                 /\ estimate'.capital > estimate.capital]_vars
  <2> SUFFICES ASSUME Current, Next, Asked, estimate'.bid > estimate.bid
               PROVE  /\ estimate'.netProfit < estimate.netProfit
                      /\ estimate'.capital > estimate.capital
    BY DEF vars
  <2>1. PICK a \in Bids : estimate = EvaluateStorageUnit(unit, a)
    BY DEF Current
  <2>2. PICK b \in Bids : estimate' = EvaluateStorageUnit(unit, b)
    BY DEF Next, Evaluate
  <2>3. /\ unit \in Unit /\ a \in Nat /\ b \in Nat /\ unit.deposit \in Nat
    BY UnitsAssumption DEF Current, Unit
  <2>4. /\ estimate.bid = a
        /\ estimate.netProfit = Revenue(unit) - TotalCost(unit, a)
        /\ estimate.capital = TotalCost(unit, a) + unit.deposit
    BY <2>1 DEF EvaluateStorageUnit
  <2>5. /\ estimate'.bid = b
        /\ estimate'.netProfit = Revenue(unit) - TotalCost(unit, b)
        /\ estimate'.capital = TotalCost(unit, b) + unit.deposit
    BY <2>2 DEF EvaluateStorageUnit
  <2>6. a < b
    BY <2>4, <2>5
  <2>7. /\ TotalCost(unit, a) \in Int /\ TotalCost(unit, b) \in Int
        /\ TotalCost(unit, a) < TotalCost(unit, b) /\ Revenue(unit) \in Int
    BY <2>3, <2>6, CostRises, FixedTypes
  <2> QED
    BY <2>3, <2>4, <2>5, <2>7
<1> QED
  BY <1>1, CurrentInvariance, PTL DEF Spec, HigherBidNeverNetsMore

-----------------------------------------------------------------------------
(* The walk-away bid.  Four roundings lie between it and the net profit it *)
(* is meant to make zero: its own, the premium's, the tax's and, by way of *)
(* the premium, the tax's base.  Each is off by half a cent times what the *)
(* later ones multiply it by, which the bound on the rates keeps below     *)
(* three cents together.                                                   *)

\* Rounding is off by half a unit.
LEMMA HalfUpError ==
    ASSUME NEW n \in Nat, NEW d \in Nat \ {0}
    PROVE  /\ HalfUp(n, d) \in Nat
           /\ 2 * n - d <= 2 * (d * HalfUp(n, d))
           /\ 2 * (d * HalfUp(n, d)) <= 2 * n + d
<1> DEFINE q == (2 * n + d) \div (2 * d)
           r == (2 * n + d) % (2 * d)
<1>1. HalfUp(n, d) = q
  BY DEF HalfUp
<1>2. 2 * n + d \in Nat /\ 2 * d \in Nat \ {0}
  OBVIOUS
<1>3. \A x \in Nat, y \in Nat \ {0} :
         /\ x \div y \in Nat /\ x % y \in Nat /\ x % y < y
         /\ x = y * (x \div y) + (x % y)
  BY SMT
<1>4. q \in Nat /\ r \in Nat /\ r < 2 * d /\ 2 * n + d = (2 * d) * q + r
  BY <1>2, <1>3
<1> HIDE DEF q, r
<1>5. (2 * d) * q = 2 * (d * q) /\ d * q \in Nat
  BY <1>4, SMT
<1> QED
  BY <1>1, <1>4, <1>5

\* A total is off by a bounded part of what premium and tax are of the bid.
LEMMA CostError ==
    ASSUME NEW u \in Unit, NEW b \in Nat
    PROVE  LET factor == (100 + u.premiumRate) * (100 + u.taxRate)
               cost   == b + Premium(u, b) + Tax(u, b)
           IN  /\ cost \in Nat
               /\ 10000 * cost <= b * factor + 15000
               /\ b * factor <= 10000 * cost + 15000
<1> DEFINE p == u.premiumRate
           t == u.taxRate
           P == Premium(u, b)
           T == Tax(u, b)
<1>1. p \in 0..100 /\ t \in 0..100
  BY DEF Unit
<1>2. b * p \in Nat
  BY <1>1, SMT
<1>3. P \in Nat /\ 2 * (b * p) - 100 <= 2 * (100 * P) /\ 2 * (100 * P) <= 2 * (b * p) + 100
  BY <1>2, HalfUpError DEF Premium
<1> HIDE DEF P
<1>4. (b + P) * t \in Nat
  BY <1>1, <1>3, SMT
<1>5. /\ T \in Nat
      /\ 2 * ((b + P) * t) - 100 <= 2 * (100 * T)
      /\ 2 * (100 * T) <= 2 * ((b + P) * t) + 100
  BY <1>4, HalfUpError DEF Tax, P
<1> HIDE DEF T, p, t
<1> DEFINE before == 100 * (b + P)
           exact  == b * (100 + p)
<1>6. before \in Nat /\ exact \in Nat /\ exact - 50 <= before /\ before <= exact + 50
  <2>1. exact = 100 * b + b * p
    BY <1>1, SMT
  <2> QED
    BY <1>2, <1>3, <2>1
<1>7. \A x, y, k \in Nat : x <= y => x * k <= y * k
  BY SMT
<1>8. exact * (100 + t) <= before * (100 + t) + 10000
      /\ before * (100 + t) <= exact * (100 + t) + 10000
  <2> HIDE DEF before, exact
  <2>1. 100 + t \in Nat /\ 100 + t <= 200
    BY <1>1
  <2>2. exact * (100 + t) <= (before + 50) * (100 + t)
        /\ before * (100 + t) <= (exact + 50) * (100 + t)
    BY <1>6, <1>7, <2>1
  <2>3. /\ (before + 50) * (100 + t) = before * (100 + t) + 50 * (100 + t)
        /\ (exact + 50) * (100 + t) = exact * (100 + t) + 50 * (100 + t)
    BY <1>6, <2>1, SMT
  <2>4. before * (100 + t) \in Nat /\ exact * (100 + t) \in Nat /\ 50 * (100 + t) <= 10000
    BY <1>6, <2>1, SMT
  <2> QED
    BY <2>1, <2>2, <2>3, <2>4
<1>9. /\ before * (100 + t) - 5000 <= 10000 * (b + P + T)
      /\ 10000 * (b + P + T) <= before * (100 + t) + 5000
  <2>1. before * (100 + t) = 10000 * (b + P) + 100 * ((b + P) * t)
    BY <1>1, <1>3, SMT
  <2> QED
    BY <1>3, <1>4, <1>5, <2>1
<1>10. exact * (100 + t) = b * ((100 + p) * (100 + t)) /\ exact * (100 + t) \in Nat
  BY <1>1, SMT
<1>11. before * (100 + t) \in Nat
  BY <1>1, <1>6, SMT
<1>12. b + P + T \in Nat
  BY <1>3, <1>5
<1> HIDE DEF before, exact
<1>13. /\ 10000 * (b + P + T) <= b * ((100 + p) * (100 + t)) + 15000
       /\ b * ((100 + p) * (100 + t)) <= 10000 * (b + P + T) + 15000
  BY <1>8, <1>9, <1>10, <1>11, <1>12
<1> QED
  BY <1>12, <1>13 DEF p, t, P, T

LEMMA FactorBound ==
    ASSUME NEW u \in Units
    PROVE  LET factor == (100 + u.premiumRate) * (100 + u.taxRate)
           IN  factor \in Nat \ {0} /\ factor <= 40000
<1>1. u.premiumRate \in 0..100 /\ u.taxRate \in 0..100
  BY UnitsAssumption DEF Unit
<1>2. \A x, y \in 100..200 : x * y \in Nat \ {0} /\ x * y <= 40000
  <2> SUFFICES ASSUME NEW x \in 100..200, NEW y \in 100..200
               PROVE  x * y \in Nat \ {0} /\ x * y <= 40000
    OBVIOUS
  <2>1. \A a, b, c \in Nat : a <= b => a * c <= b * c
    BY SMT
  <2>2. x \in Nat /\ y \in Nat /\ 100 <= x /\ x <= 200 /\ 100 <= y /\ y <= 200
    OBVIOUS
  <2> DEFINE product == x * y
  <2>3. 100 * y <= product /\ product <= 200 * y /\ product \in Nat
    BY <2>1, <2>2
  <2> HIDE DEF product
  <2>4. product \in Nat \ {0} /\ product <= 40000
    BY <2>2, <2>3
  <2> QED
    BY <2>4 DEF product
<1> DEFINE first == 100 + u.premiumRate
           second == 100 + u.taxRate
<1>3. first \in 100..200 /\ second \in 100..200
  BY <1>1
<1> HIDE DEF first, second
<1>4. first * second \in Nat \ {0} /\ first * second <= 40000
  BY <1>2, <1>3
<1> QED
  BY <1>4 DEF first, second

\* What the walk-away bid nets, if any bid can net something.
LEMMA WalkAwayNet ==
    ASSUME NEW u \in Units, Revenue(u) > Fixed(u)
    PROVE  /\ MaxBid(u) \in Nat
           /\ Revenue(u) - TotalCost(u, MaxBid(u)) \in -5..5
<1> DEFINE factor == (100 + u.premiumRate) * (100 + u.taxRate)
           margin == Revenue(u) - Fixed(u)
           bid    == MaxBid(u)
           cost   == bid + Premium(u, bid) + Tax(u, bid)
<1>1. u \in Unit /\ Fixed(u) \in Int /\ Revenue(u) \in Int
  BY UnitsAssumption, FixedTypes
<1>2. bid = HalfUp(margin * 10000, factor)
  BY <1>1 DEF MaxBid
<1>3. margin \in Nat /\ margin * 10000 \in Nat
  BY <1>1, <1>2
<1>4. factor \in Nat \ {0} /\ factor <= 40000
  BY FactorBound
<1> HIDE DEF factor, margin, bid
<1>5. /\ bid \in Nat
      /\ 2 * (margin * 10000) - factor <= 2 * (factor * bid)
      /\ 2 * (factor * bid) <= 2 * (margin * 10000) + factor
  BY <1>2, <1>3, <1>4, HalfUpError
<1>6. cost \in Nat /\ 10000 * cost <= bid * factor + 15000 /\ bid * factor <= 10000 * cost + 15000
  BY <1>1, <1>5, CostError DEF factor
<1>7. bid * factor = factor * bid /\ factor * bid \in Nat
  BY <1>4, <1>5, SMT
<1> HIDE DEF cost
<1>8. margin - cost \in -5..5
  BY <1>3, <1>4, <1>5, <1>6, <1>7
<1>9. Revenue(u) - TotalCost(u, bid) = margin - cost
  <2>1. TotalCost(u, bid) = cost + Fixed(u)
    BY DEF TotalCost, cost
  <2> QED
    BY <1>1, <1>6, <2>1 DEF margin
<1> QED
  BY <1>5, <1>8, <1>9 DEF bid

LEMMA CurrentTells ==
    ASSUME Current, Asked
    PROVE  /\ unit \in Units /\ unit \in Unit
           /\ estimate.bid \in Nat
           /\ estimate.netProfit = Revenue(unit) - TotalCost(unit, estimate.bid)
           /\ estimate.maxBid = MaxBid(unit)
           /\ estimate.verdict = Verdict(estimate.netProfit, estimate.bid, estimate.maxBid)
<1>1. PICK bid \in Bids : estimate = EvaluateStorageUnit(unit, bid)
  BY DEF Current
<1> QED
  BY <1>1, UnitsAssumption DEF Current, EvaluateStorageUnit

\* Bidding the walk-away figure lands within a nickel of zero, for all rates that add
\* up to at most 100 percent.
THEOREM WalkAwayCorrect == Spec => []WalkAwayBidBreaksEven
<1>1. Current => WalkAwayBidBreaksEven
  <2> SUFFICES ASSUME Current, Asked, estimate.maxBid > 0
               PROVE  LET net == EvaluateStorageUnit(unit, estimate.maxBid).netProfit
                      IN  -5 <= net /\ net <= 5
    BY DEF WalkAwayBidBreaksEven
  <2>0. unit \in Units /\ estimate.maxBid = MaxBid(unit) /\ Revenue(unit) > Fixed(unit)
    <3>1. unit \in Units /\ unit \in Unit /\ estimate.maxBid = MaxBid(unit)
      BY CurrentTells
    <3>2. Revenue(unit) \in Int /\ Fixed(unit) \in Int /\ ~(Revenue(unit) <= Fixed(unit))
      BY <3>1, FixedTypes DEF MaxBid
    <3> QED
      BY <3>1, <3>2
  <2>1. Revenue(unit) - TotalCost(unit, estimate.maxBid) \in -5..5
    BY <2>0, WalkAwayNet
  <2> QED
    BY <2>1 DEF EvaluateStorageUnit
<1> QED
  BY <1>1, CurrentInvariance, PTL

\* The total rises by no less than the bid.
LEMMA CostRisesWithBid ==
    ASSUME NEW u \in Unit, NEW a \in Nat, NEW b \in Nat, a <= b
    PROVE  /\ TotalCost(u, a) \in Int /\ TotalCost(u, b) \in Int
           /\ TotalCost(u, b) >= TotalCost(u, a) + (b - a)
           /\ TotalCost(u, b) >= Fixed(u) + b
<1>1. /\ Premium(u, a) \in Nat /\ Premium(u, b) \in Nat /\ Premium(u, a) <= Premium(u, b)
      /\ Tax(u, a) \in Nat /\ Tax(u, b) \in Nat /\ Tax(u, a) <= Tax(u, b)
  BY ExtrasMonotone
<1> QED
  BY <1>1, FixedTypes DEF TotalCost

\* A bid more than a nickel above the walk-away figure loses money and is warned about,
\* one as far below it makes money and is not.
THEOREM WarningCorrect == Spec => []WarnedAboveWalkAway
<1>1. Current => WarnedAboveWalkAway
  <2> SUFFICES ASSUME Current, Asked PROVE WarnedAboveWalkAway
    BY DEF WarnedAboveWalkAway
  <2> DEFINE bid == estimate.bid
             walkAway == MaxBid(unit)
             net == Revenue(unit) - TotalCost(unit, bid)
  <2>0. /\ unit \in Units /\ unit \in Unit /\ bid \in Nat
        /\ estimate.netProfit = net /\ estimate.maxBid = walkAway
        /\ estimate.verdict = Verdict(net, bid, walkAway)
    BY CurrentTells
  <2>1. Revenue(unit) \in Int /\ Fixed(unit) \in Int /\ TotalCost(unit, bid) \in Int
    BY <2>0, FixedTypes, CostRisesWithBid
  <2>2. CASE Revenue(unit) <= Fixed(unit)
    <3>1. walkAway = 0
      BY <2>2 DEF MaxBid
    <3>2. TotalCost(unit, bid) >= Fixed(unit) + bid
      BY <2>0, CostRisesWithBid
    <3>3. Verdict(net, bid, walkAway) # "none"
      BY <3>1 DEF Verdict
    <3> HIDE DEF bid, walkAway
    <3> QED
      BY <2>0, <2>1, <2>2, <3>1, <3>2, <3>3 DEF WarnedAboveWalkAway, bid
  <2>3. CASE Revenue(unit) > Fixed(unit)
    <3>1. walkAway \in Nat /\ Revenue(unit) - TotalCost(unit, walkAway) \in -5..5
      BY <2>0, <2>3, WalkAwayNet
    <3> HIDE DEF bid, walkAway
    <3>2. TotalCost(unit, walkAway) \in Int
      BY <2>0, <3>1, CostRisesWithBid
    <3>3. ASSUME bid > walkAway + 5 PROVE net < 0 /\ Verdict(net, bid, walkAway) # "none"
      <4>1. TotalCost(unit, bid) >= TotalCost(unit, walkAway) + (bid - walkAway)
        BY <2>0, <3>1, <3>3, CostRisesWithBid
      <4>2. net < 0
        BY <2>0, <2>1, <3>1, <3>2, <3>3, <4>1
      <4> HIDE DEF net
      <4> QED
        BY <3>1, <4>2 DEF Verdict
    <3>4. ASSUME bid + 5 < walkAway PROVE net > 0 /\ Verdict(net, bid, walkAway) = "none"
      <4>1. TotalCost(unit, walkAway) >= TotalCost(unit, bid) + (walkAway - bid)
        BY <2>0, <3>1, <3>4, CostRisesWithBid
      <4>2. net > 0 /\ net \in Int
        BY <2>0, <2>1, <3>1, <3>2, <3>4, <4>1
      <4>3. bid \in Nat
        BY <2>0
      <4> HIDE DEF net
      <4>4. walkAway > 0 /\ ~(walkAway <= 0) /\ ~(net < 0) /\ ~(bid > walkAway)
        BY <3>1, <3>4, <4>2, <4>3
      <4> QED
        BY <4>2, <4>4 DEF Verdict
    <3> QED
      BY <2>0, <3>3, <3>4 DEF WarnedAboveWalkAway, bid
  <2> QED
    BY <2>1, <2>2, <2>3
<1> QED
  BY <1>1, CurrentInvariance, PTL
=============================================================================
