-------------------------------- MODULE MCScan --------------------------------
(***************************************************************************)
(* Scan for TLC: two runs over two listings.                               *)
(***************************************************************************)
EXTENDS Scan, TLC

\* A route of two stops.
SomeRoutes == <<[name |-> "A", limit |-> 3500, stops |-> <<[code |-> "1", at |-> <<0, 0>>],
                                                           [code |-> "2", at |-> <<5000, 0>>]>>]>>

Wanted(local) == [enabled |-> TRUE, local |-> local, routes |-> <<>>]

One == INSTANCE Watchlist WITH Routes <- SomeRoutes, Searches <- <<Wanted(TRUE)>>
Two == INSTANCE Watchlist WITH Routes <- SomeRoutes, Searches <- <<Wanted(TRUE), Wanted(FALSE)>>

\* A local-pickup search with two anchors, and then one of all of eBay: the shortest
\* plan in which a listing can come up again in its own search and in another one.
OneSearch == [q \in DOMAIN One!Queries |-> One!Queries[q].search]
TwoSearches == [q \in DOMAIN Two!Queries |-> Two!Queries[q].search]

\* Dropped, or a candidate.
TwoOffers == {[rank |-> 4, score |-> 0], [rank |-> 0, score |-> 1]}

Symmetry == Permutations(Items) \cup Permutations(Runs)
===============================================================================
