------------------------------ MODULE MCAppraisal ------------------------------
EXTENDS Appraisal

Value(form, class, val) == [form |-> form, class |-> class, val |-> val]

Missing == Value("none", "junk", 0)
Amount(val) == Value("text", "finite", val)
Number(val) == Value("float", "finite", val)

-----------------------------------------------------------------------------
(* Two routes side by side, 110 miles apart, of which the southern one     *)
(* tolerates less, and two of a single stop: one without a postal code,    *)
(* one with a tolerance below a mile.                                      *)

MCRoutes ==
    <<[name |-> "south", limit |-> 3550,
       stops |-> <<[code |-> "50309", at |-> <<0, 0>>],
                   [code |-> NoCode,  at |-> <<4800, 1400>>],
                   [code |-> "50010", at |-> <<8000, 3800>>]>>],
      [name |-> "north", limit |-> 6000,
       stops |-> <<[code |-> "51101", at |-> <<0, 11000>>]>>],
      [name |-> "west", limit |-> 2000,
       stops |-> <<[code |-> NoCode, at |-> <<-8000, 4000>>]>>],
      [name |-> "yard", limit |-> 90,
       stops |-> <<[code |-> "50001", at |-> <<-9000, -9000>>]>>]>>

\* A search of all of eBay, one that is switched off, local ones along two routes and
\* along one, one that has nowhere to ask about, and one eBay is never asked.
MCSearches ==
    <<[enabled |-> TRUE,  local |-> FALSE, routes |-> <<>>],
      [enabled |-> FALSE, local |-> TRUE,  routes |-> <<"south">>],
      [enabled |-> TRUE,  local |-> TRUE,  routes |-> <<"south", "north">>],
      [enabled |-> TRUE,  local |-> TRUE,  routes |-> <<"north">>],
      [enabled |-> TRUE,  local |-> TRUE,  routes |-> <<"west">>],
      [enabled |-> TRUE,  local |-> TRUE,  routes |-> <<"yard">>]>>

MCBases == <<[at |-> <<1003, 2134>>], [at |-> <<-9000, 0>>]>>

\* Two helpers of one name: the favor of the first is charged for both.
MCHelpers == <<[name |-> "Ann", at |-> <<1000, 1000>>, maxDetour |-> 500, favor |-> 1500],
               [name |-> "Bob", at |-> <<9900, -9000>>, maxDetour |-> 700, favor |-> 1800],
               [name |-> "Bob", at |-> <<9500, 9000>>, maxDetour |-> 1500, favor |-> 2000]>>

MCServiceAreas == <<[at |-> <<-5000, 5000>>, radius |-> 2000]>>

\* A base nearby, the corridor, a helper's commute beyond its end, the territory, a
\* place between the routes the nearer of which tolerates less, nothing at all, and the
\* surroundings of a northern stop.
Places == <<<<1003, 907>>, <<4801, 3007>>, <<9004, 8503>>, <<-4003, 4607>>,
            <<10, 5480>>, <<-7003, -5007>>, <<1001, 9003>>>>

MCPoints == ToSet(Places)

\* A box at $80 and $5 shipping, on the corridor.
Plain == [object |-> TRUE, itemId |-> Amount(100), legacyItemId |-> Missing,
          price |-> Amount(8000), shipping |-> <<Amount(500)>>,
          feedback |-> Value("int", "finite", 30000),
          latitude |-> Number(907), longitude |-> Number(1003),
          deep |-> FALSE]

At(p) == [Plain EXCEPT !.longitude = Number(p[1]), !.latitude = Number(p[2])]

Prices == {Amount(8000), Amount(4000), Amount(12001), Amount(13000), Amount(25000), Amount(0), Amount(-4000),
           Value("int", "finite", 4000), Value("float", "nan", 0), Value("text", "junk", 0), Missing}

Shippings == {<<>>, <<Missing, Amount(0)>>, <<Amount(500)>>, <<Amount(-500), Amount(700)>>}

PricedAt(p) == {[At(p) EXCEPT !.price = price, !.shipping = s] :
                   price \in Prices, s \in Shippings}

\* Rows with something odd in them.
Odd == {Plain,
        [Plain EXCEPT !.object = FALSE],
        [Plain EXCEPT !.deep = TRUE],
        [Plain EXCEPT !.price = Value("text", "long", 8000)],
        [Plain EXCEPT !.shipping = <<Value("float", "long", 500)>>],
        [Plain EXCEPT !.feedback = Value("float", "nan", 0)],
        [Plain EXCEPT !.feedback = Value("float", "inf", 0)],
        [Plain EXCEPT !.feedback = Value("text", "inf", 0)],
        [Plain EXCEPT !.feedback = Number(1250)],
        [Plain EXCEPT !.latitude = Value("int", "huge", 0)],
        [Plain EXCEPT !.latitude = Value("float", "inf", 0)],
        [Plain EXCEPT !.longitude = Value("text", "nan", 0)],
        [Plain EXCEPT !.latitude = Missing],
        [Plain EXCEPT !.itemId = Value("text", "blank", 0), !.legacyItemId = Amount(300)],
        [Plain EXCEPT !.itemId = Missing]}

\* Two listings to be compared are at the same place.
MCPages == UNION {PricedAt(p) \X PricedAt(p) : p \in MCPoints} \cup (Odd \X Odd \X Odd)

\* Dead units, seven in ten of which can be saved.
RepairSearch == [resale |-> 34999, minMultiple |-> 20000, repairable |-> TRUE,
                 diagnosisFee |-> 2500, repairCost |-> 4001, successRate |-> 7000]

MCEconomics == [mpg |-> 10, fuelPrice |-> 320, hourly |-> 2500, mph |-> 55]

=============================================================================
