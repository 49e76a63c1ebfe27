----------------------------- MODULE LedgerProofs ------------------------------
(***************************************************************************)
(* Theorems about Ledger, for any terminals, any predictions, prices and   *)
(* fees that Decimal accepts, and any number of buys.                      *)
(***************************************************************************)
EXTENDS Ledger, FiniteSetTheorems, TLAPS

(* What a step of Next is, by cases: used by every step proof below.       *)
LEMMA StepCases ==
    ASSUME [Next]_vars
    PROVE  \/ \E t \in Terminals : Buy(t)
           \/ \E t \in Terminals : Sell(t)
           \/ \E t \in Terminals : ReportSale(t)
           \/ \E t \in Terminals : Interrupt(t)
           \/ \E t \in Terminals : Stats(t)
           \/ UNCHANGED vars
  BY DEF Next

(* Null is no amount, and the classes are told apart.                      *)
LEMMA NullIsNoAmount == Null \notin Amount /\ Null # NaN /\ Null # Infinity /\ NaN # Infinity
  BY DEF Null, NaN, Infinity, Amount

LEMMA ClosedRow ==
    ASSUME NEW row \in Row, NEW price \in Prices, NEW fees \in Fees
    PROVE  /\ CloseOutcome(row, price, fees) \in Row
           /\ CloseOutcome(row, price, fees).predicted = row.predicted
           /\ CloseOutcome(row, price, fees).actual = price
           /\ CloseOutcome(row, price, fees).fees = IF fees = Null THEN row.fees ELSE fees
  BY AmountsAssumption DEF CloseOutcome, Row

(* What a buy and a sale make of the table.                                *)
LEMMA AfterBuy ==
    ASSUME TypeOK, NEW t \in Terminals, Buy(t)
    PROVE  /\ outcomes' \in Seq(Row)
           /\ Len(outcomes') = Len(outcomes) + 1
           /\ \A i \in DOMAIN outcomes : outcomes'[i] = outcomes[i]
           /\ outcomes'[Len(outcomes) + 1].actual = Null
<1>1. PICK p \in Predictions :
          outcomes' = Append(outcomes, [predicted |-> p, actual |-> Null, fees |-> Null])
  BY DEF Buy
<1>2. [predicted |-> p, actual |-> Null, fees |-> Null] \in Row
  BY AmountsAssumption DEF Row
<1> QED
  BY <1>1, <1>2 DEF TypeOK

LEMMA AfterSale ==
    ASSUME TypeOK, NEW t \in Terminals, Sell(t)
    PROVE  \E id \in DOMAIN outcomes, price \in Prices, fees \in Fees :
              /\ outcomes' \in Seq(Row)
              /\ Len(outcomes') = Len(outcomes)
              /\ reporting' = [reporting EXCEPT ![t] = id]
              /\ outcomes'[id] = CloseOutcome(outcomes[id], price, fees)
              /\ \A i \in DOMAIN outcomes : i # id => outcomes'[i] = outcomes[i]
<1>1. PICK id \in DOMAIN outcomes, price \in Prices, fees \in Fees :
          /\ outcomes' = [outcomes EXCEPT ![id] = CloseOutcome(@, price, fees)]
          /\ reporting' = [reporting EXCEPT ![t] = id]
  BY DEF Sell
<1>2. outcomes \in Seq(Row) /\ outcomes[id] \in Row
  BY DEF TypeOK
<1>3. CloseOutcome(outcomes[id], price, fees) \in Row
  BY <1>2, ClosedRow
<1>4. /\ outcomes' \in Seq(Row)
      /\ Len(outcomes') = Len(outcomes)
      /\ outcomes'[id] = CloseOutcome(outcomes[id], price, fees)
      /\ \A i \in DOMAIN outcomes : i # id => outcomes'[i] = outcomes[i]
  BY <1>1, <1>2, <1>3
<1> WITNESS id \in DOMAIN outcomes, price \in Prices, fees \in Fees
<1> QED
  BY <1>1, <1>4

-----------------------------------------------------------------------------
(* Type correctness.  The counted rows are finitely many, so that a report *)
(* has a number of samples.                                                *)

LEMMA CountedIsFinite ==
    ASSUME NEW rows \in Seq(Row)
    PROVE  IsFiniteSet(Counted(rows)) /\ Cardinality(Counted(rows)) \in Nat
<1>1. Counted(rows) \in SUBSET (1..Len(rows)) /\ Len(rows) \in Nat
  BY DEF Counted, Selected
<1>2. IsFiniteSet(1..Len(rows))
  BY <1>1, FS_Interval
<1>3. IsFiniteSet(Counted(rows))
  BY <1>1, <1>2, FS_Subset
<1> QED
  BY <1>3, FS_CardinalityType

LEMMA ReportSamples ==
    LET report == CalibrationReport(outcomes)
    IN  report.status = "ok" => report.samples \in {0, Cardinality(Counted(outcomes))}
<1>1. CASE ReportRaises(outcomes)
  BY <1>1 DEF CalibrationReport, Traceback, Report
<1>2. CASE ~ReportRaises(outcomes) /\ Counted(outcomes) = {}
  BY <1>2 DEF CalibrationReport, NoSales, Report
<1>3. CASE ~ReportRaises(outcomes) /\ Counted(outcomes) # {}
  BY <1>3 DEF CalibrationReport, Report
<1> QED
  BY <1>1, <1>2, <1>3

LEMMA AfterShow ==
    ASSUME TypeOK, NEW t \in Terminals, ShowCalibration(t)
    PROVE  \/ claimed' = claimed
           \/ claimed' = [claimed EXCEPT ![t] = 0]
           \/ claimed' = [claimed EXCEPT ![t] = Cardinality(Counted(outcomes))]
  BY ReportSamples DEF ShowCalibration

LEMMA TypeInductive == TypeOK /\ [Next]_vars => TypeOK'
<1> SUFFICES ASSUME TypeOK, [Next]_vars PROVE TypeOK'
  OBVIOUS
<1>1. ASSUME NEW t \in Terminals, Buy(t) PROVE TypeOK'
  BY <1>1, AfterBuy DEF Buy, TypeOK
<1>2. ASSUME NEW t \in Terminals, Sell(t) PROVE TypeOK'
  <2>1. PICK id \in DOMAIN outcomes :
           /\ outcomes' \in Seq(Row)
           /\ Len(outcomes') = Len(outcomes)
           /\ reporting' = [reporting EXCEPT ![t] = id]
    BY <1>2, AfterSale
  <2>2. DOMAIN outcomes = 1..Len(outcomes) /\ DOMAIN outcomes' = 1..Len(outcomes)
    BY <2>1 DEF TypeOK
  <2> QED
    BY <1>2, <2>1, <2>2 DEF Sell, TypeOK
<1>3. ASSUME NEW t \in Terminals, ReportSale(t) PROVE TypeOK'
  <2>1. claimed' \in [Terminals -> Nat]
    BY <1>3, AfterShow, CountedIsFinite DEF ReportSale, TypeOK
  <2> QED
    BY <1>3, <2>1 DEF ReportSale, TypeOK
<1>4. ASSUME NEW t \in Terminals, Interrupt(t) PROVE TypeOK'
  BY <1>4 DEF Interrupt, TypeOK
<1>5. ASSUME NEW t \in Terminals, Stats(t) PROVE TypeOK'
  BY <1>5, AfterShow, CountedIsFinite DEF Stats, TypeOK
<1>6. CASE UNCHANGED vars
  BY <1>6 DEF vars, TypeOK
<1> QED
  BY <1>1, <1>2, <1>3, <1>4, <1>5, <1>6, StepCases

\* The table and the terminals keep their types: a report is only ever outstanding for
\* a row of the table.
THEOREM TypeCorrect == Spec => []TypeOK
<1>1. Init => TypeOK
  BY DEF Init, TypeOK
<1> QED
  BY <1>1, TypeInductive, PTL DEF Spec

-----------------------------------------------------------------------------
(* What has been logged.                                                   *)

Kept ==
    /\ Len(outcomes') >= Len(outcomes)
    /\ \A i \in DOMAIN outcomes :
          /\ outcomes'[i].predicted = outcomes[i].predicted
          /\ outcomes[i].actual # Null => outcomes'[i].actual # Null
          /\ outcomes[i].fees # Null => outcomes'[i].fees # Null

LEMMA StepKeeps == TypeOK /\ [Next]_vars => Kept
<1> SUFFICES ASSUME TypeOK, [Next]_vars PROVE Kept
  OBVIOUS
<1>1. ASSUME NEW t \in Terminals, Buy(t) PROVE Kept
  BY <1>1, AfterBuy DEF Kept, TypeOK
<1>2. ASSUME NEW t \in Terminals, Sell(t) PROVE Kept
  <2>1. PICK id \in DOMAIN outcomes, price \in Prices, fees \in Fees :
           /\ Len(outcomes') = Len(outcomes)
           /\ outcomes'[id] = CloseOutcome(outcomes[id], price, fees)
           /\ \A i \in DOMAIN outcomes : i # id => outcomes'[i] = outcomes[i]
    BY <1>2, AfterSale
  <2>2. outcomes[id] \in Row
    BY DEF TypeOK
  <2>3. price # Null
    BY AmountsAssumption, NullIsNoAmount
  <2> QED
    BY <2>1, <2>2, <2>3, ClosedRow DEF Kept, TypeOK
<1>3. CASE UNCHANGED outcomes
  BY <1>3 DEF Kept, TypeOK
<1> QED
  BY <1>1, <1>2, <1>3, StepCases DEF ReportSale, Interrupt, Stats, vars

\* No command of any terminal loses a sale, a fee or a prediction that was logged.
THEOREM NothingLost == Spec => NothingIsForgotten
<1>1. TypeOK /\ [Next]_vars => [Kept]_vars
  BY StepKeeps
<1> QED
  BY <1>1, TypeCorrect, PTL DEF Spec, NothingIsForgotten, Kept

-----------------------------------------------------------------------------
(* What reports have counted.                                              *)

LEMMA CountedGrows == TypeOK /\ [Next]_vars => Counted(outcomes) \subseteq Counted(outcomes')
<1> SUFFICES ASSUME TypeOK, [Next]_vars PROVE Counted(outcomes) \subseteq Counted(outcomes')
  OBVIOUS
<1>1. outcomes \in Seq(Row) /\ outcomes' \in Seq(Row)
  BY TypeInductive DEF TypeOK
<1>2. Kept
  BY StepKeeps
<1> QED
  BY <1>1, <1>2 DEF Kept, Counted, Selected

\* What has been claimed is still counted.
ClaimsHold == \A t \in Terminals : claimed[t] <= Cardinality(Counted(outcomes))

LEMMA ClaimsInductive == TypeOK /\ ClaimsHold /\ [Next]_vars => ClaimsHold'
<1> SUFFICES ASSUME TypeOK, ClaimsHold, [Next]_vars PROVE ClaimsHold'
  OBVIOUS
<1> DEFINE before == Cardinality(Counted(outcomes))
           after  == Cardinality(Counted(outcomes'))
<1>1. before \in Nat /\ after \in Nat /\ before <= after
  <2>1. TypeOK'
    BY TypeInductive
  <2>2. before \in Nat
    BY CountedIsFinite DEF TypeOK
  <2>3. IsFiniteSet(Counted(outcomes')) /\ after \in Nat
    BY <2>1, CountedIsFinite DEF TypeOK
  <2> QED
    BY <2>2, <2>3, CountedGrows, FS_Subset
<1>2. claimed \in [Terminals -> Nat] /\ \A t \in Terminals : claimed[t] <= before
  BY DEF TypeOK, ClaimsHold
<1>3. SUFFICES \A t \in Terminals : claimed'[t] <= after
  BY DEF ClaimsHold
<1> HIDE DEF before, after
<1>4. CASE UNCHANGED claimed
  BY <1>1, <1>2, <1>4
<1>5. ASSUME NEW t \in Terminals, ShowCalibration(t) PROVE \A u \in Terminals : claimed'[u] <= after
  <2>1. \/ claimed' = claimed
        \/ claimed' = [claimed EXCEPT ![t] = 0]
        \/ claimed' = [claimed EXCEPT ![t] = before]
    BY <1>5, AfterShow DEF before
  <2> QED
    BY <2>1, <1>1, <1>2
<1> QED
  BY <1>4, <1>5, StepCases DEF Buy, Sell, ReportSale, Interrupt, Stats, vars

-----------------------------------------------------------------------------
(* Decimal quotients.  A number that is one of the context overflows under *)
(* no whole divisor: the nearer to zero, the fewer digits.                 *)

LEMMA Division ==
    ASSUME NEW n \in Int, NEW d \in Nat \ {0}
    PROVE  n \div d \in Int /\ n % d \in 0..(d - 1) /\ n = d * (n \div d) + (n % d)
  OBVIOUS

LEMMA Larger ==
    ASSUME NEW a \in Int, NEW b \in Int, a <= b, NEW d \in Nat
    PROVE  d * a <= d * b
  OBVIOUS

LEMMA NearestEven ==
    ASSUME NEW n \in Int, NEW d \in Nat \ {0}
    PROVE  /\ HalfEven(n, d) \in Int
           /\ 2 * (d * HalfEven(n, d)) <= 2 * n + d
           /\ 2 * n <= 2 * (d * HalfEven(n, d)) + d
<1> DEFINE q == n \div d
           r == n % d
           h == HalfEven(n, d)
<1>1. q \in Int /\ r \in 0..(d - 1) /\ n = d * q + r
  BY Division
<1>2. \/ h = q /\ 2 * r <= d
      \/ h = q + 1 /\ 2 * r >= d
  BY <1>1 DEF HalfEven
<1> HIDE DEF q, r, h
<1>3. d * q \in Int /\ d * (q + 1) = d * q + d
  BY <1>1
<1> QED
  BY <1>1, <1>2, <1>3 DEF h

LEMMA LargerDivisorFits ==
    ASSUME NEW x \in Int, NEW y \in Nat \ {0}, NEW z \in Nat \ {0}, y < z,
           NEW c \in Nat \ {0}, HalfEven(x, y) \in (-c + 1)..(c - 1)
    PROVE  HalfEven(x, z) \in (-c + 1)..(c - 1)
<1> DEFINE h == HalfEven(x, y)
           e == HalfEven(x, z)
           p == 2 * c - 1
<1>1. /\ h \in Int /\ 2 * (y * h) <= 2 * x + y /\ 2 * x <= 2 * (y * h) + y
      /\ e \in Int /\ 2 * (z * e) <= 2 * x + z /\ 2 * x <= 2 * (z * e) + z
      /\ h >= -c + 1 /\ h <= c - 1
  <2>1. h \in Int /\ 2 * (y * h) <= 2 * x + y /\ 2 * x <= 2 * (y * h) + y
    BY NearestEven
  <2>2. e \in Int /\ 2 * (z * e) <= 2 * x + z /\ 2 * x <= 2 * (z * e) + z
    BY NearestEven
  <2>3. h \in (-c + 1)..(c - 1)
    OBVIOUS
  <2> HIDE DEF h, e
  <2> QED
    BY <2>1, <2>2, <2>3
<1> HIDE DEF h, e
<1>2. /\ y * h <= y * (c - 1) /\ y * (-c + 1) <= y * h
      /\ y * h \in Int /\ z * e \in Int
  BY <1>1, Larger
<1>3. /\ 2 * (y * (c - 1)) + y = p * y /\ 2 * (y * (-c + 1)) - y = -(p * y)
      /\ p * y \in Int /\ p * z \in Int /\ p \in Nat \ {0}
  OBVIOUS
<1>4. p * y < p * z
  <2>1. p * (y + 1) <= p * z
    BY <1>3, Larger
  <2>2. p * (y + 1) = p * y + p
    BY <1>3
  <2> HIDE DEF p
  <2> QED
    BY <1>3, <2>1, <2>2
<1>5. 2 * x <= p * y /\ -(p * y) <= 2 * x
  <2> HIDE DEF p
  <2> QED
    BY <1>1, <1>2, <1>3
<1>6. ASSUME e >= c PROVE FALSE
  <2>1. z * c <= z * e /\ z * c \in Int
    BY <1>1, <1>6, Larger
  <2>2. 2 * (z * c) - z = p * z
    OBVIOUS
  <2> HIDE DEF p
  <2> QED
    BY <1>1, <1>2, <1>3, <1>4, <1>5, <2>1, <2>2
<1>7. ASSUME e <= -c PROVE FALSE
  <2>1. z * e <= z * (-c) /\ z * (-c) \in Int
    BY <1>1, <1>7, Larger
  <2>2. 2 * (z * (-c)) + z = -(p * z)
    OBVIOUS
  <2> HIDE DEF p
  <2> QED
    BY <1>1, <1>2, <1>3, <1>4, <1>5, <2>1, <2>2
<1> QED
  BY <1>1, <1>6, <1>7 DEF e

LEMMA ProperQuotient ==
    ASSUME NEW n \in Int, ~Overflows(n, 1), NEW d \in Nat \ {0}
    PROVE  ~Overflows(n, d)
<1>1. PICK place \in LastPlaces : Fits(n, 1, place)
  BY DEF Overflows
<1>2. /\ place \in Nat \ {0} /\ n * Quanta \in Int
      /\ d * place \in Nat \ {0} /\ 1 * place = place
  BY ContextAssumption
<1>3. CASE d = 1
  BY <1>1, <1>3 DEF Overflows
<1>4. CASE d # 1
  <2>1. place < d * place
    <3>1. place * 2 <= place * d
      BY <1>2, <1>4, Larger
    <3> QED
      BY <1>2, <3>1
  <2>2. HalfEven(n * Quanta, place) \in (-Coefficients + 1)..(Coefficients - 1)
    BY <1>1, <1>2 DEF Fits, Coefficient
  <2>3. HalfEven(n * Quanta, d * place) \in (-Coefficients + 1)..(Coefficients - 1)
    BY <1>2, <2>1, <2>2, LargerDivisorFits, ContextAssumption
  <2> QED
    BY <2>3 DEF Overflows, Fits, Coefficient
<1> QED
  BY <1>3, <1>4

\* No counted sale at a proper price raises, unless the prediction is infinite, which
\* raises only against an infinite price.
LEMMA ProperSale ==
    ASSUME NEW rows, NEW i \in Counted(rows), rows[i].predicted \in Amount \cup {Null},
           rows[i].actual \in Amount, Proper(rows[i].actual)
    PROVE  rows[i].actual # NaN /\ ~QuotientRaises(rows[i])
<1> DEFINE row == rows[i]
<1>1. /\ row.actual.class = "finite" /\ row.actual.val \in Int /\ ~Overflows(row.actual.val, 1)
      /\ row.actual # NaN /\ row.actual # Infinity
  BY DEF Proper, Amount, NaN, Infinity
<1>2. \/ row.predicted = Infinity
      \/ row.predicted.class = "finite" /\ row.predicted.val > 0
  BY DEF Counted
<1>3. row.predicted # Finite(0)
  BY <1>2 DEF Finite, Infinity
<1>4. CASE row.predicted.class # "finite"
  BY <1>1, <1>3, <1>4 DEF QuotientRaises
<1>5. CASE row.predicted.class = "finite"
  <2>1. row.predicted.val \in Nat \ {0}
    BY <1>2, <1>5 DEF Amount, Null, NaN, Infinity
  <2>2. ~Overflows(row.actual.val, row.predicted.val)
    BY <1>1, <2>1, ProperQuotient
  <2> QED
    BY <1>1, <1>3, <2>2 DEF QuotientRaises
<1> QED
  BY <1>1, <1>4, <1>5

-----------------------------------------------------------------------------
(* Which ledgers have a report.                                            *)

LEMMA ReportUnlessRaises ==
    ASSUME NEW rows, ~ReportRaises(rows)
    PROVE  /\ CalibrationReport(rows).status = "ok"
           /\ \/ CalibrationReport(rows).samples = Cardinality(Counted(rows))
              \/ Counted(rows) = {} /\ CalibrationReport(rows).samples = 0
<1>1. CASE Counted(rows) = {}
  BY <1>1 DEF CalibrationReport, NoSales, Report
<1>2. CASE Counted(rows) # {}
  BY <1>2 DEF CalibrationReport, Report
<1> QED
  BY <1>1, <1>2

LEMMA NumbersReport == TypeOK => NumbersGetAReport
<1> SUFFICES ASSUME TypeOK,
                    \A i \in DOMAIN outcomes :
                       /\ outcomes[i].predicted \notin {NaN, Infinity}
                       /\ outcomes[i].actual = Null \/ Proper(outcomes[i].actual)
             PROVE  CalibrationReport(outcomes).status = "ok"
  BY DEF NumbersGetAReport
<1>1. ASSUME NEW i \in Counted(outcomes)
      PROVE  outcomes[i].actual # NaN /\ ~QuotientRaises(outcomes[i])
  <2>1. outcomes[i] \in Row /\ outcomes[i].actual # Null /\ i \in DOMAIN outcomes
    BY DEF Counted, Selected, TypeOK
  <2> QED
    BY <2>1, ProperSale DEF Row
<1>2. ~ReportRaises(outcomes)
  BY <1>1 DEF ReportRaises, Selected
<1> QED
  BY <1>2, ReportUnlessRaises

\* Whatever numbers are logged, in any order and from any terminals, stats has a report,
\* as long as no price exceeds the largest number of the decimal context in units of the
\* ledger.
THEOREM NumbersReportCorrect == Spec => []NumbersGetAReport
  BY NumbersReport, TypeCorrect, PTL

-----------------------------------------------------------------------------
(* Corrections.                                                            *)

LEMMA CorrectedLedger ==
    ASSUME TypeOK, CanBeCorrected, NEW price \in Prices, Proper(price)
    PROVE  /\ CalibrationReport(Corrected(price)).status = "ok"
           /\ CalibrationReport(Corrected(price)).samples = Cardinality(Counted(outcomes))
<1> DEFINE rows == Corrected(price)
<1>0. price \in Amount /\ price # Null
  BY AmountsAssumption, NullIsNoAmount
<1>1. ASSUME NEW i \in DOMAIN outcomes
      PROVE  /\ outcomes[i] \in Row /\ i \in DOMAIN rows
             /\ rows[i].predicted = outcomes[i].predicted
             /\ rows[i].actual = IF i \in Slips THEN price ELSE outcomes[i].actual
  <2>1. outcomes[i] \in Row
    BY DEF TypeOK
  <2>2. /\ CloseOutcome(outcomes[i], price, Null).predicted = outcomes[i].predicted
        /\ CloseOutcome(outcomes[i], price, Null).actual = price
    BY <2>1 DEF CloseOutcome, Row
  <2> QED
    BY <2>1, <2>2 DEF Corrected
<1>2. DOMAIN rows = DOMAIN outcomes
  BY DEF Corrected
<1>3. \A i \in Slips : i \in DOMAIN outcomes /\ outcomes[i].actual # Null
  BY NullIsNoAmount DEF Slips, Counted, Selected
<1> HIDE DEF rows
<1>4. Selected(rows) = Selected(outcomes)
  BY <1>0, <1>1, <1>2, <1>3 DEF Selected
<1>5. Counted(rows) = Counted(outcomes)
  BY <1>1, <1>4 DEF Counted, Selected
<1>6. ASSUME NEW i \in Counted(rows) PROVE rows[i].actual # NaN /\ ~QuotientRaises(rows[i])
  <2>1. i \in DOMAIN outcomes /\ outcomes[i] \in Row
    BY <1>1, <1>5 DEF Counted, Selected
  <2>2. CASE i \in Slips
    <3>1. rows[i].predicted \in Amount \cup {Null} /\ rows[i].actual = price
      BY <1>1, <2>1, <2>2 DEF Row
    <3> QED
      BY <1>0, <3>1, ProperSale
  <2>3. CASE i \notin Slips
    <3>1. outcomes[i].actual # NaN /\ ~QuotientRaises(outcomes[i])
      BY <1>5, <2>1, <2>3 DEF Slips
    <3>2. rows[i].predicted = outcomes[i].predicted /\ rows[i].actual = outcomes[i].actual
      BY <1>1, <2>1, <2>3
    <3> QED
      BY <3>1, <3>2 DEF QuotientRaises
  <2> QED
    BY <2>2, <2>3
<1>7. \A i \in Selected(rows) : rows[i].predicted # NaN
  BY <1>1, <1>2 DEF Selected, CanBeCorrected
<1>8. ~ReportRaises(rows)
  BY <1>6, <1>7 DEF ReportRaises
<1>9. Cardinality(Counted(outcomes)) \in Nat
  BY CountedIsFinite DEF TypeOK
<1> QED
  BY <1>5, <1>8, <1>9, ReportUnlessRaises, FS_EmptySet DEF rows

\* A slip of the keyboard, or a price no quotient can hold, never stops the reports for
\* good.
THEOREM CorrectionCorrect == Spec => []BadSaleCanBeCorrected
<1>1. TypeOK => BadSaleCanBeCorrected
  BY CorrectedLedger DEF BadSaleCanBeCorrected
<1> QED
  BY <1>1, TypeCorrect, PTL

\* The sales a report has counted are counted by every later report, of any terminal,
\* once the slips logged since are corrected.
THEOREM CountedSalesCorrect == Spec => []CountedSalesStay
<1>1. Init => ClaimsHold
  BY FS_EmptySet DEF Init, ClaimsHold, Counted, Selected
<1>2. TypeOK /\ ClaimsHold => CountedSalesStay
  <2> SUFFICES ASSUME TypeOK, ClaimsHold, CanBeCorrected, NEW t \in Terminals,
                      NEW price \in Prices, Proper(price)
               PROVE  claimed[t] <= CalibrationReport(Corrected(price)).samples
    BY DEF CountedSalesStay
  <2> DEFINE counted == Cardinality(Counted(outcomes))
             samples == CalibrationReport(Corrected(price)).samples
  <2>1. claimed[t] \in Nat /\ counted \in Nat /\ claimed[t] <= counted
    BY CountedIsFinite DEF TypeOK, ClaimsHold
  <2>2. samples = counted
    BY CorrectedLedger
  <2> QED
    BY <2>1, <2>2
<1> QED
  BY <1>1, <1>2, TypeCorrect, ClaimsInductive, PTL DEF Spec
=============================================================================
