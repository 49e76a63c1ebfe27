----------------------------- MODULE SearchService -----------------------------
(***************************************************************************)
(* What EbayClient.search promises its callers, with tokens, locks and     *)
(* clocks left out.  A call that is refused costs nothing; one by a        *)
(* process without credentials never reaches eBay; any other one ends with *)
(* what eBay served, with one of the client's exceptions, or with one that *)
(* is none of the client's, which takes an answer of eBay that no code of  *)
(* the client foresees; and however the calls interleave, they obtain at   *)
(* most two tokens each: one, and another one if the first is refused.     *)
(***************************************************************************)
EXTENDS FiniteSets, Naturals

CONSTANTS
    Calls,     \* executions of search
    Failures   \* the subclasses of EbayError a caller can tell apart

VARIABLES
    configured,  \* credentials are present
    call,        \* "idle", "running", or how each call has ended
    grants       \* tokens eBay has granted

vars == <<configured, call, grants>>

Ends ==
    Failures \cup {"ok", "InvalidSearchRequest", "MissingConfigurationError", "UnexpectedError"}

Running(c) == call[c] = "running"

\* Calls that got past the check of their arguments.
Begun == {c \in Calls : call[c] \notin {"idle", "InvalidSearchRequest"}}

Init ==
    /\ configured \in BOOLEAN
    /\ call = [c \in Calls |-> "idle"]
    /\ grants = 0

Become(c, state) ==
    /\ call' = [call EXCEPT ![c] = state]
    /\ UNCHANGED <<configured, grants>>

Refuse(c) == call[c] = "idle" /\ Become(c, "InvalidSearchRequest")

Begin(c) == call[c] = "idle" /\ Become(c, "running")

Grant ==
    /\ configured
    /\ \E c \in Calls : Running(c)
    /\ grants < 2 * Cardinality(Begun)
    /\ grants' = grants + 1
    /\ UNCHANGED <<configured, call>>

Serve(c) == Running(c) /\ configured /\ grants > 0 /\ Become(c, "ok")

Fail(c) == Running(c) /\ configured /\ \E e \in Failures : Become(c, e)

\* Only after eBay has granted a token.
Break(c) == Running(c) /\ configured /\ grants > 0 /\ Become(c, "UnexpectedError")

FailUnconfigured(c) == Running(c) /\ ~configured /\ Become(c, "MissingConfigurationError")

End(c) == Serve(c) \/ Fail(c) \/ Break(c) \/ FailUnconfigured(c)

Next ==
    \/ \E c \in Calls : Refuse(c) \/ Begin(c) \/ End(c)
    \/ Grant

Spec == Init /\ [][Next]_vars

=============================================================================
