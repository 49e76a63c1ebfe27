----------------------------- MODULE Normalization -----------------------------
(***************************************************************************)
(* normalize_ebay_search_response of app/services/normalization.py: a page *)
(* of eBay item summaries becomes listings, row by row.                    *)
(*                                                                         *)
(* A JSON value is [form, class, val].  form says how Python holds it:     *)
(* "int", "float", "text", or "none" for null, a missing key, a boolean or *)
(* a container.  class says what it denotes: a "finite" number, a "long"   *)
(* one of more than four decimals, an integer too "huge" for a float,      *)
(* "nan", "inf", and for texts also "blank" and "junk".  val is the number *)
(* in hundredths, of a long one rounded away from zero; a text whose val   *)
(* is whole is written as an integer.  json.loads yields float("inf") for  *)
(* 1e999 and accepts NaN and Infinity.                                     *)
(*                                                                         *)
(* Rows keep the fields whose conversion can fail or whose value decides   *)
(* what becomes of the listing; the fields copied as text are left out.    *)
(* deep: the row nests deeper than Python's recursion goes.                *)
(***************************************************************************)
EXTENDS Integers, Sequences, SequencesExt

CONSTANT Pages     \* pages of rows eBay may send

VARIABLES
    rows,      \* itemSummaries of the payload
    at,        \* the row to be normalized next
    listings,  \* the listings so far
    outcome    \* "running", "returned" or the exception that escaped

pageVars == <<rows, at, listings, outcome>>

Forms == {"int", "float", "text", "none"}

Numbers == {"finite", "long", "huge"}

Classes == Numbers \cup {"nan", "inf", "blank", "junk"}

Json == [form : Forms, class : Classes, val : Int]

Row == [object : BOOLEAN, itemId : Json, legacyItemId : Json, price : Json,
        shipping : Seq(Json), feedback : Json, latitude : Json, longitude : Json,
        deep : BOOLEAN]

ASSUME PagesAssumption == Pages \subseteq Seq(Row)

-----------------------------------------------------------------------------
(* Coercions.  Each gives a value, None, or the exception it raises.        *)

None == [known |-> FALSE, class |-> "finite", val |-> 0, raised |-> "nothing"]

Some(v) == [known |-> TRUE, class |-> v.class, val |-> v.val, raised |-> "nothing"]

Raise(exception) == [None EXCEPT !.raised = exception]

\* to_decimal: negative and non-finite amounts are unknown.
ToDecimal(v) ==
    IF v.form # "none" /\ v.class \in Numbers /\ v.val >= 0
    THEN Some(v) ELSE None

Whole(v) == v.class = "huge" \/ (v.class = "finite" /\ v.val % 100 = 0)

\* to_int: int() of a float that is not a number raises, that of a text is caught.
ToInt(v) ==
    CASE v.form = "float" /\ v.class = "nan" -> Raise("ValueError")
      [] v.form = "float" /\ v.class = "inf" -> Raise("OverflowError")
      [] v.form # "none" /\ Whole(v)         -> Some(v)
      [] OTHER                               -> None

ToFloatNotCheckedMutant(v) ==
    CASE v.form = "int" /\ v.class = "huge" -> Raise("OverflowError")
      [] v.form # "none" /\ v.class \in {"finite", "long", "nan", "inf"} -> Some(v)
      [] OTHER                              -> None

\* to_float: an integer beyond the range of floats raises, a text beyond it is inf.
ToFloat(v) ==
    CASE v.form = "int" /\ v.class = "huge"       -> Raise("OverflowError")
      [] v.form # "none" /\ v.class \in {"finite", "long"} -> Some(v)
      [] OTHER                                    -> None

\* to_text, of an id.
ToText(v) == IF v.form # "none" /\ v.class # "blank" THEN Some(v) ELSE None

ExtractShippingCostFirstOnlyMutant(row) ==
    IF row.shipping = <<>> THEN None ELSE ToDecimal(Head(row.shipping))

\* _extract_shipping_cost: the first option with a cost that can be parsed.
ExtractShippingCost(row) ==
    LET Parsable(option) == ToDecimal(option).known
        first == SelectInSeq(row.shipping, Parsable)
    IN  IF first = 0 THEN None ELSE ToDecimal(row.shipping[first])

ExtractItemId(row) ==
    IF ToText(row.itemId).known THEN ToText(row.itemId) ELSE ToText(row.legacyItemId)

-----------------------------------------------------------------------------
(* One row: normalize_ebay_item.                                            *)

\* raw is what sanitize_raw copies: the row with its credentials redacted, of which
\* the fields above hold none.
Listing(row) ==
    [sourceItemId |-> ExtractItemId(row),
     price        |-> ToDecimal(row.price),
     shippingCost |-> ExtractShippingCost(row),
     feedback     |-> ToInt(row.feedback),
     latitude     |-> ToFloat(row.latitude),
     longitude    |-> ToFloat(row.longitude),
     raw          |-> row]

\* The exception of the first call that raises, sanitize_raw's being the last.
Raised(row) ==
    LET calls == <<ToFloat(row.latitude), ToFloat(row.longitude), ToInt(row.feedback)>>
        Raises(c) == c.raised # "nothing"
        first == SelectInSeq(calls, Raises)
    IN  CASE ~row.object -> "NormalizationError"
          [] row.object /\ first # 0 -> calls[first].raised
          [] row.object /\ first = 0 /\ row.deep -> "RecursionError"
          [] OTHER -> "nothing"

-----------------------------------------------------------------------------
(* The page: normalize_ebay_search_response.                                *)

PageInit ==
    /\ rows \in Pages
    /\ at = 1
    /\ listings = <<>>
    /\ outcome = "running"

Running == outcome = "running" /\ at <= Len(rows)

AppendRow ==
    /\ Running
    /\ Raised(rows[at]) = "nothing"
    /\ listings' = Append(listings, Listing(rows[at]))
    /\ at' = at + 1
    /\ UNCHANGED <<rows, outcome>>

SkipRowEndsPageMutant ==
    /\ Running
    /\ Raised(rows[at]) \in {"NormalizationError", "ValueError"}
    /\ at' = Len(rows) + 1
    /\ UNCHANGED <<rows, listings, outcome>>

\* A NormalizationError is a ValueError.
SkipRow ==
    /\ Running
    /\ Raised(rows[at]) \in {"NormalizationError", "ValueError"}
    /\ at' = at + 1
    /\ UNCHANGED <<rows, listings, outcome>>

\* The others are not: the caller gets them instead of the page.
EscapeRow ==
    /\ Running
    /\ Raised(rows[at]) \in {"OverflowError", "RecursionError"}
    /\ outcome' = Raised(rows[at])
    /\ UNCHANGED <<rows, at, listings>>

ReturnPage ==
    /\ outcome = "running"
    /\ at > Len(rows)
    /\ outcome' = "returned"
    /\ UNCHANGED <<rows, at, listings>>

PageNext == AppendRow \/ SkipRow \/ EscapeRow \/ ReturnPage

-----------------------------------------------------------------------------
(* Properties.                                                             *)

\* No number the scan computes with is NaN or infinite, and no money is negative,
\* whatever eBay sent for it.  What raw has copied is not meant: it may hold both.
NumbersAreUsable ==
    \A i \in DOMAIN listings :
       LET l == listings[i] IN
       /\ \A n \in {l.price, l.shippingCost, l.feedback, l.latitude, l.longitude} :
             n.known => n.class \in Numbers
       /\ l.price.val >= 0
       /\ l.shippingCost.val >= 0

Well(v) == v.form = "none" \/ v.class \in {"finite", "long"}

WellFormed(row) ==
    /\ row.object /\ ~row.deep
    /\ Well(row.feedback) /\ Well(row.latitude) /\ Well(row.longitude)

\* A returned page holds a listing for every row whose numbers are numbers and
\* that can be copied, in the order eBay sent them, whatever the others contain.
GoodRowsSurvive ==
    outcome = "returned" =>
        LET good == {i \in DOMAIN rows : WellFormed(rows[i])}
        IN  \E place \in [good -> DOMAIN listings] :
               /\ \A i \in good : listings[place[i]] = Listing(rows[i])
               /\ \A i, j \in good : i < j => place[i] < place[j]

Quotes(option) ==
    option.form # "none" /\ option.class \in Numbers /\ option.val >= 0

\* The shipping cost of a listing is unknown only if no option quotes an amount,
\* and zero only if the first option that quotes one is free.
UnknownMeansNoQuote ==
    outcome = "returned" =>
        \A i \in DOMAIN listings : \E row \in ToSet(rows) :
           /\ row.object /\ Listing(row) = listings[i]
           /\ LET quotes == {k \in DOMAIN row.shipping : Quotes(row.shipping[k])}
                  cost == listings[i].shippingCost
              IN  /\ cost.known <=> quotes # {}
                  /\ cost.known => \E first \in quotes :
                        /\ cost.val = row.shipping[first].val
                        /\ \A k \in quotes : first <= k

\* "A single malformed item never costs the caller the whole page."
BadRowCostsOnlyItself == outcome \in {"running", "returned"}

=============================================================================
