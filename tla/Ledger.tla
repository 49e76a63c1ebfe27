--------------------------------- MODULE Ledger --------------------------------
(***************************************************************************)
(* The outcome ledger: the outcomes table of app/storage.py, written and   *)
(* read by the log and stats commands of app/cli.py, which may run at the  *)
(* same time in several terminals.  Each statement commits by itself: a    *)
(* sale is in the table before the calibration that the same command       *)
(* prints is computed, and another terminal may act in between.            *)
(*                                                                         *)
(* Amounts are decimals as the command line accepts them: a finite one is  *)
(* a whole number of some unit small enough, and Decimal("Infinity") and   *)
(* Decimal("NaN") are accepted too.  A column not filled in is Null.  What *)
(* a buy was paid, titles and dates enter no computation and are left out; *)
(* fees stands for the three columns that COALESCE keeps.                  *)
(*                                                                         *)
(* A quotient is rounded to the context of the decimal module: a           *)
(* coefficient of 28 digits, the last of them worth a power of ten.        *)
(***************************************************************************)
EXTENDS Rounding, Sequences, FiniteSets

CONSTANTS
    Terminals,    \* where commands are typed
    Predictions,  \* --predicted of a buy, Null when not given
    Prices,       \* --price of a sale
    Fees,         \* --fees of a sale, Null when not given
    MaxBuys,      \* bound on the number of buys logged
    Coefficients, \* those of the decimal context are below it: 10^28
    LastPlaces,   \* what their last digit may be worth, in quanta of 10^-1000026
    Quanta        \* quanta in the number 1

ASSUME ContextAssumption ==
    /\ Coefficients \in Nat \ {0}
    /\ LastPlaces \subseteq Nat \ {0}
    /\ Quanta \in Nat \ {0}

Finite(n) == [class |-> "finite", val |-> n]
Infinity  == [class |-> "inf", val |-> 0]
NaN       == [class |-> "nan", val |-> 0]
Null      == [class |-> "null", val |-> 0]

Amount == [class : {"finite"}, val : Int] \cup {Infinity, NaN}

ASSUME AmountsAssumption ==
    /\ Prices \subseteq Amount
    /\ Predictions \subseteq Amount \cup {Null}
    /\ Fees \subseteq Amount \cup {Null}
    /\ MaxBuys \in Nat

VARIABLES
    outcomes,   \* the table, a row's id is its place
    reporting,  \* each terminal: the id just sold, its report outstanding, or 0
    claimed     \* the sales counted in the last report each terminal has printed

vars == <<outcomes, reporting, claimed>>

-----------------------------------------------------------------------------
(* Storage.calibration_report.                                             *)

\* Rows the query selects: both columns filled in.
Selected(rows) ==
    {i \in DOMAIN rows : rows[i].predicted # Null /\ rows[i].actual # Null}

CountedZeroMutant(rows) ==
    {i \in Selected(rows) : \/ rows[i].predicted = Infinity
                            \/ rows[i].predicted.class = "finite" /\ rows[i].predicted.val >= 0}

\* Rows with predicted > 0.
Counted(rows) ==
    {i \in Selected(rows) : \/ rows[i].predicted = Infinity
                            \/ rows[i].predicted.class = "finite" /\ rows[i].predicted.val > 0}

\* n / d to a last digit worth that many quanta, and whether it is a coefficient.
Coefficient(n, d, place) == HalfEven(n * Quanta, d * place)
Fits(n, d, place) == Coefficient(n, d, place) \in (-Coefficients + 1)..(Coefficients - 1)

\* decimal.Overflow: even the largest last place leaves too many digits.
Overflows(n, d) == \A place \in LastPlaces : ~Fits(n, d, place)

\* The quotients Decimal refuses.
QuotientRaises(row) ==
    \/ row.predicted = Finite(0)
    \/ row.predicted = Infinity /\ row.actual = Infinity
    \/ /\ row.predicted.class = "finite" /\ row.actual.class = "finite"
       /\ Overflows(row.actual.val, row.predicted.val)

\* The quotient as Decimal rounds it, to the finest last place that fits.
Rounded(n, d) ==
    LET fitting == {u \in LastPlaces : Fits(n, d, u)}
        place   == CHOOSE u \in fitting : \A v \in fitting : u <= v
    IN  <<Coefficient(n, d, place) * place, Quanta>>

\* actual / predicted, a pair of numerator and denominator; 1/0 is infinite.
Ratio(row) ==
    CASE row.predicted = Infinity -> <<0, 1>>
      [] row.predicted # Infinity /\ row.actual = Infinity -> <<1, 0>>
      [] OTHER -> Rounded(row.actual.val, row.predicted.val)

Less(p, q) == p[1] * q[2] < q[1] * p[2]

\* ratios.sort()[k]: the ratio with at most k smaller ones and more than k that
\* are not larger.
SortedAt(rows, ids, k) ==
    LET Smaller(i)   == {j \in ids : Less(Ratio(rows[j]), Ratio(rows[i]))}
        NotLarger(i) == {j \in ids : ~Less(Ratio(rows[i]), Ratio(rows[j]))}
    IN  Ratio(rows[CHOOSE i \in ids : /\ Cardinality(Smaller(i)) <= k
                                      /\ k < Cardinality(NotLarger(i))])

Report(status, samples, advice) ==
    [status |-> status, samples |-> samples, advice |-> advice]

Traceback == Report("traceback", 0, "none")
NoSales   == Report("ok", 0, "none")

Advice(ratio) == IF Less(ratio, <<1, 1>>) THEN "optimistic" ELSE "conservative"

\* What is not a number cannot be compared: a prediction with 0, a sale price, by way
\* of its ratio, in the sort or with 1.  Neither is inside the try.
ReportRaises(rows) ==
    \/ \E i \in Selected(rows) : rows[i].predicted = NaN
    \/ \E i \in Counted(rows) : rows[i].actual = NaN \/ QuotientRaises(rows[i])

\* The report, or the exception that ends the command.
CalibrationReport(rows) ==
    LET ids == Counted(rows)
    IN  CASE ReportRaises(rows) -> Traceback
          [] ~ReportRaises(rows) /\ ids = {} -> NoSales
          [] OTHER -> Report("ok", Cardinality(ids),
                             Advice(SortedAt(rows, ids, Cardinality(ids) \div 2)))

-----------------------------------------------------------------------------
(* The commands.                                                           *)

Init ==
    /\ outcomes = <<>>
    /\ reporting = [t \in Terminals |-> 0]
    /\ claimed = [t \in Terminals |-> 0]

BuyReplacesMutant(t) ==
    /\ reporting[t] = 0
    /\ Len(outcomes) < MaxBuys
    /\ \E id \in 1..Len(outcomes) + 1, predicted \in Predictions :
          LET new == [predicted |-> predicted, actual |-> Null, fees |-> Null]
          IN  outcomes' = IF id \in DOMAIN outcomes THEN [outcomes EXCEPT ![id] = new]
                                                    ELSE Append(outcomes, new)
    /\ UNCHANGED <<reporting, claimed>>

\* log buy: record_outcome.
Buy(t) ==
    /\ reporting[t] = 0
    /\ Len(outcomes) < MaxBuys
    /\ \E predicted \in Predictions :
          outcomes' = Append(outcomes, [predicted |-> predicted, actual |-> Null, fees |-> Null])
    /\ UNCHANGED <<reporting, claimed>>

CloseOutcomeOverwritesMutant(row, price, fees) ==
    [row EXCEPT !.actual = price, !.fees = fees]

CloseOutcomeFirstPriceMutant(row, price, fees) ==
    [row EXCEPT !.actual = IF @ = Null THEN price ELSE @, !.fees = IF fees = Null THEN @ ELSE fees]

\* close_outcome: the price replaces what was there, what is not given is kept.
CloseOutcome(row, price, fees) ==
    [row EXCEPT !.actual = price, !.fees = IF fees = Null THEN @ ELSE fees]

SellUnknownMutant(t) ==
    /\ reporting[t] = 0
    /\ \E id \in 1..MaxBuys, price \in Prices, fees \in Fees :
          /\ outcomes' = [i \in DOMAIN outcomes |->
                 IF i = id THEN CloseOutcome(outcomes[i], price, fees) ELSE outcomes[i]]
          /\ reporting' = [reporting EXCEPT ![t] = id]
    /\ UNCHANGED claimed

\* log sell: close_outcome commits.  An id that was never logged changes nothing,
\* nor does an amount Decimal() refuses.
Sell(t) ==
    /\ reporting[t] = 0
    /\ \E id \in DOMAIN outcomes, price \in Prices, fees \in Fees :
          /\ outcomes' = [outcomes EXCEPT ![id] = CloseOutcome(@, price, fees)]
          /\ reporting' = [reporting EXCEPT ![t] = id]
    /\ UNCHANGED claimed

\* What the terminal shows of the calibration: a report, or a traceback in its place.
ShowCalibration(t) ==
    LET report == CalibrationReport(outcomes)
    IN  claimed' = IF report.status = "ok" THEN [claimed EXCEPT ![t] = report.samples] ELSE claimed

\* The rest of log sell: the calibration over what is in the table by now.
ReportSale(t) ==
    /\ reporting[t] # 0
    /\ ShowCalibration(t)
    /\ reporting' = [reporting EXCEPT ![t] = 0]
    /\ UNCHANGED outcomes

\* The command is interrupted between the two.
Interrupt(t) ==
    /\ reporting[t] # 0
    /\ reporting' = [reporting EXCEPT ![t] = 0]
    /\ UNCHANGED <<outcomes, claimed>>

\* stats: the calibration alone.
Stats(t) ==
    /\ reporting[t] = 0
    /\ ShowCalibration(t)
    /\ UNCHANGED <<outcomes, reporting>>

Next == \E t \in Terminals : Buy(t) \/ Sell(t) \/ ReportSale(t) \/ Interrupt(t) \/ Stats(t)

Spec == Init /\ [][Next]_vars

-----------------------------------------------------------------------------
(* Properties.                                                             *)

Row == [predicted : Amount \cup {Null}, actual : Amount \cup {Null}, fees : Amount \cup {Null}]

TypeOK ==
    /\ outcomes \in Seq(Row)
    /\ reporting \in [Terminals -> Nat]
    /\ \A t \in Terminals : reporting[t] # 0 => reporting[t] \in DOMAIN outcomes
    /\ claimed \in [Terminals -> Nat]

\* A price no larger than the largest number of the decimal context, in units of the
\* ledger: dividing it by the smallest prediction there is does not overflow.
Proper(price) == price.class = "finite" /\ ~Overflows(price.val, 1)

\* Any ledger of numbers has a report: no prediction or proper sale price, zero and
\* negative ones included, makes stats or the report of a sale fail.
NumbersGetAReport ==
    (\A i \in DOMAIN outcomes :
        /\ outcomes[i].predicted \notin {NaN, Infinity}
        /\ outcomes[i].actual = Null \/ Proper(outcomes[i].actual))
    => CalibrationReport(outcomes).status = "ok"

\* Sales whose price, as logged, may keep every report from returning.
Slips ==
    {i \in DOMAIN outcomes : outcomes[i].actual \in {NaN, Infinity}}
        \cup {i \in Counted(outcomes) : QuotientRaises(outcomes[i])}

\* Those sales, logged again.
Corrected(price) ==
    [i \in DOMAIN outcomes |->
        IF i \in Slips THEN CloseOutcome(outcomes[i], price, Null) ELSE outcomes[i]]

CanBeCorrected == \A i \in DOMAIN outcomes : outcomes[i].predicted # NaN

\* A sale logged with a price that is no number, or one so large that the quotient
\* overflows, stops every report, but not for good: logging all such sales again at a
\* proper price restores them, unless a prediction is no number, which nothing corrects.
BadSaleCanBeCorrected ==
    CanBeCorrected =>
        \A price \in Prices : Proper(price) =>
            CalibrationReport(Corrected(price)).status = "ok"

\* A sale that a report has counted can always be counted again: whatever is logged or
\* logged again afterwards, in any terminal, the next report, once the slips in the
\* table are corrected, is of as many sales as any report printed before.
CountedSalesStay ==
    CanBeCorrected =>
        \A t \in Terminals, price \in Prices : Proper(price) =>
            claimed[t] <= CalibrationReport(Corrected(price)).samples

\* What has been logged is not forgotten: logging a sale again may correct its price
\* and its fees, but an item sold stays sold, fees once known stay known, and the
\* prediction a sale is measured against never changes.
NothingIsForgotten ==
    [][/\ Len(outcomes') >= Len(outcomes)
       /\ \A i \in DOMAIN outcomes :
             /\ outcomes'[i].predicted = outcomes[i].predicted
             /\ outcomes[i].actual # Null => outcomes'[i].actual # Null
             /\ outcomes[i].fees # Null => outcomes'[i].fees # Null]_vars

\* "Reports the median ratio: below 1.0 means your estimates are optimistic": the
\* median of an even number of ratios is the mean of the two in the middle.
AdviceIsOnTheMedian ==
    LET ids    == Counted(outcomes)
        n      == Cardinality(ids)
        low    == SortedAt(outcomes, ids, (n - 1) \div 2)
        high   == SortedAt(outcomes, ids, n \div 2)
        report == CalibrationReport(outcomes)
    IN  report.samples > 0 /\ low[2] > 0 /\ high[2] > 0 =>
            (report.advice = "optimistic"
                <=> low[1] * high[2] + high[1] * low[2] < 2 * low[2] * high[2])

=============================================================================
