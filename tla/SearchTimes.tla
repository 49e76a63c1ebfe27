----------------------------- MODULE SearchTimes -----------------------------
(***************************************************************************)
(* EbayClient with a clock of its own for every search: how long the       *)
(* thread that called EbayClient.search has been kept, behind the token    *)
(* lock or by requests of its own.  The clocks only record; no step of     *)
(* the client depends on them.                                             *)
(***************************************************************************)
EXTENDS EbayClient, FiniteSets

VARIABLE waited  \* how long each call under way has been so

timedVars == <<vars, waited>>

TimedInit ==
    /\ Init
    /\ waited = [c \in Calls |-> 0]

UnderWay(c) == pc[c] \notin {"idle", "done"}

\* Time passes in no step but Tick.
TimedNext ==
    /\ Next
    /\ waited' = [c \in Calls |->
          IF UnderWay(c) /\ UnderWay(c)' THEN waited[c] + (now' - now) ELSE 0]

TimedSpec == TimedInit /\ [][TimedNext]_timedVars

TimedFairSpec == TimedSpec /\ Fairness

-----------------------------------------------------------------------------
(* Properties.                                                             *)

\* The longest a search takes, in request timeouts: every search sends at most two
\* token requests, one at a time because of the lock, and this one at most two GETs.
SearchTimeouts == 2 * Cardinality(Calls) + 2

\* A search returns or raises within that many request timeouts of its start,
\* whatever eBay answers or fails to answer and however the threads take turns at
\* the lock, which hands itself to no one in particular: _request_new_token under
\* the lock, _send_get and the one retry of _get_json add up to no more, although a
\* single call may be passed over at the lock again and again.
EverySearchEndsInTime ==
    \A c \in Calls : waited[c] <= SearchTimeouts * MaxLatency
=============================================================================
