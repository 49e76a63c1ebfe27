------------------------------ MODULE EbayClient ------------------------------
(***************************************************************************)
(* The OAuth token cache and the search call of                            *)
(* app/services/ebay_client.py, as one EbayClient object shared by the     *)
(* worker threads of a process.  A call is one execution of                *)
(* EbayClient.search by some thread; the calls run concurrently.           *)
(*                                                                         *)
(* An operator named ...Mutant is a wrong version of the one that follows  *)
(* it, used to confirm that a property notices the fault.                  *)
(*                                                                         *)
(* Time is the monotonic clock.  Steps of Python code take no time, a      *)
(* request over the network takes at most MaxLatency, after which httpx    *)
(* raises a timeout; so the clock stands still while a call has something  *)
(* to do that waits for nobody (Urgent), and while a request is overdue.   *)
(***************************************************************************)
EXTENDS Integers, Sequences

CONSTANTS
    Calls,        \* the executions of EbayClient.search
    Leeway,       \* TOKEN_EXPIRY_LEEWAY_SECONDS
    MaxLatency,   \* longest time a request is in flight (request_timeout_seconds)
    Lifetimes,    \* how long eBay may keep a token alive
    DefaultLife,  \* assumed when eBay does not say (7200 s in the code)
    MaxTime       \* bound: the clock only advances past it for pending requests

ASSUME LeewayAssumption      == Leeway \in Nat
ASSUME MaxLatencyAssumption  == MaxLatency \in Nat \ {0}
ASSUME LifetimesAssumption   == Lifetimes \subseteq Nat \ {0}
ASSUME DefaultLifeAssumption == DefaultLife \in Nat \ {0}
ASSUME MaxTimeAssumption     == MaxTime \in Nat
ASSUME FreeAssumption        == "free" \notin Calls

VARIABLES
    configured,  \* eBay credentials are present in the settings
    now,         \* time.monotonic()
    issued,      \* eBay: every token ever granted, in order; a token is its index
    token,       \* EbayClient._token
    lock,        \* EbayClient._token_lock: "free" or the call that holds it
    pc,          \* where each call is
    held,        \* the token a call sends with its GET, or has been granted
    rejected,    \* the token eBay answered 401 for, 0 before that
    due,         \* when the call's request in flight times out
    outcome      \* what the call returned or raised

vars == <<configured, now, issued, token, lock, pc, held, rejected, due, outcome>>

-----------------------------------------------------------------------------
(* Data.  Token 0 stands for "no token"; its deadline has always passed.   *)

NoToken == [id |-> 0, expiresAt |-> 0]

\* "EbayError" stands for all its subclasses: callers that tell them apart only
\* choose a status code or a message by them.  "UnexpectedError" stands for the
\* exceptions that are none of the client's own and that no caller expects.
Errors == {"EbayError", "InvalidSearchRequest", "MissingConfigurationError", "UnexpectedError"}

Expiry(k) == issued[k].at + issued[k].life

\* _CachedToken.is_valid
IsValid(cached) == now < cached.expiresAt

StoredExpiryUnclampedMutant(k) == now + issued[k].claimed - Leeway
StoredExpiryNoLeewayMutant(k) == now + issued[k].claimed

\* The deadline get_access_token stores, read off the clock after the answer.
StoredExpiry(k) ==
    now + (IF issued[k].claimed > Leeway THEN issued[k].claimed - Leeway ELSE 0)

Init ==
    /\ configured \in BOOLEAN
    /\ now = 0
    /\ issued = <<>>
    /\ token = NoToken
    /\ lock = "free"
    /\ pc = [c \in Calls |-> "idle"]
    /\ held = [c \in Calls |-> 0]
    /\ rejected = [c \in Calls |-> 0]
    /\ due = [c \in Calls |-> 0]
    /\ outcome = [c \in Calls |-> "none"]

-----------------------------------------------------------------------------
(* Ends of a call.                                                         *)

\* The call's frame goes away, its outcome stays.
Return(c, result) ==
    /\ pc' = [pc EXCEPT ![c] = "done"]
    /\ outcome' = [outcome EXCEPT ![c] = result]
    /\ held' = [held EXCEPT ![c] = 0]
    /\ rejected' = [rejected EXCEPT ![c] = 0]
    /\ due' = [due EXCEPT ![c] = 0]

\* An exception inside the critical section: the with statement releases the
\* lock and self._token keeps its value.
RaiseLocked(c, error) ==
    /\ Return(c, error)
    /\ lock' = "free"
    /\ UNCHANGED <<configured, now, issued, token>>

\* _send_get with token k.
SendGet(c, k) ==
    /\ pc' = [pc EXCEPT ![c] = "get"]
    /\ held' = [held EXCEPT ![c] = k]
    /\ due' = [due EXCEPT ![c] = now + MaxLatency]

-----------------------------------------------------------------------------
(* EbayClient.search and get_access_token.                                 *)

\* build_search_params refuses the request before any network call.
RefuseRequest(c) ==
    /\ pc[c] = "idle"
    /\ Return(c, "InvalidSearchRequest")
    /\ UNCHANGED <<configured, now, issued, token, lock>>

Start(c) ==
    /\ pc[c] = "idle"
    /\ pc' = [pc EXCEPT ![c] = "check"]
    /\ UNCHANGED <<configured, now, issued, token, lock, held, rejected, due, outcome>>

\* The first read of self._token, which takes no lock.
CacheHit(c) ==
    /\ pc[c] = "check"
    /\ IsValid(token)
    /\ SendGet(c, token.id)
    /\ UNCHANGED <<configured, now, issued, token, lock, rejected, outcome>>

CacheMiss(c) ==
    /\ pc[c] = "check"
    /\ ~IsValid(token)
    /\ pc' = [pc EXCEPT ![c] = "wait"]
    /\ UNCHANGED <<configured, now, issued, token, lock, held, rejected, due, outcome>>

\* The call was sent back for a token by a 401: force_refresh is set.
Forced(c) == rejected[c] # 0

RecheckHitWhenForcedMutant(c) ==
    /\ pc[c] = "wait"
    /\ lock = "free"
    /\ IsValid(token)
    /\ SendGet(c, token.id)
    /\ UNCHANGED <<configured, now, issued, token, lock, rejected, outcome>>

\* Inside the lock another call's token may have arrived in the meantime.
RecheckHit(c) ==
    /\ pc[c] = "wait"
    /\ lock = "free"
    /\ ~Forced(c) /\ IsValid(token)
    /\ SendGet(c, token.id)
    /\ UNCHANGED <<configured, now, issued, token, lock, rejected, outcome>>

RequestTokenNoRecheckMutant(c) ==
    /\ pc[c] = "wait"
    /\ lock = "free"
    /\ configured
    /\ lock' = c
    /\ pc' = [pc EXCEPT ![c] = "mint"]
    /\ due' = [due EXCEPT ![c] = now + MaxLatency]
    /\ UNCHANGED <<configured, now, issued, token, held, rejected, outcome>>

RequestTokenUnlockedMutant(c) ==
    /\ pc[c] = "wait"
    /\ Forced(c) \/ ~IsValid(token)
    /\ configured
    /\ pc' = [pc EXCEPT ![c] = "mint"]
    /\ due' = [due EXCEPT ![c] = now + MaxLatency]
    /\ UNCHANGED <<configured, now, issued, token, lock, held, rejected, outcome>>

\* _request_new_token: the POST leaves with the lock held.
RequestToken(c) ==
    /\ pc[c] = "wait"
    /\ lock = "free"
    /\ Forced(c) \/ ~IsValid(token)
    /\ configured
    /\ lock' = c
    /\ pc' = [pc EXCEPT ![c] = "mint"]
    /\ due' = [due EXCEPT ![c] = now + MaxLatency]
    /\ UNCHANGED <<configured, now, issued, token, held, rejected, outcome>>

\* _basic_auth_header raises before anything is sent.
MissingCredentials(c) ==
    /\ pc[c] = "wait"
    /\ lock = "free"
    /\ Forced(c) \/ ~IsValid(token)
    /\ ~configured
    /\ RaiseLocked(c, "MissingConfigurationError")

\* eBay grants a token; the answer is on its way.  When eBay leaves expires_in
\* out, or sends one that is not positive or that float() refuses with a TypeError or
\* a ValueError, the client assumes the default.
Grant(c) ==
    /\ pc[c] = "mint"
    /\ \E life \in Lifetimes, stated \in BOOLEAN :
          issued' = Append(issued, [at |-> now, life |-> life,
                                    claimed |-> IF stated THEN life ELSE DefaultLife])
    /\ pc' = [pc EXCEPT ![c] = "granted"]
    /\ held' = [held EXCEPT ![c] = Len(issued) + 1]
    /\ UNCHANGED <<configured, now, token, lock, rejected, due, outcome>>

\* The answer arrives: the cache is replaced and the lock released.
StoreToken(c) ==
    /\ pc[c] = "granted"
    /\ token' = [id |-> held[c], expiresAt |-> StoredExpiry(held[c])]
    /\ lock' = "free"
    /\ SendGet(c, held[c])
    /\ UNCHANGED <<configured, now, issued, rejected, outcome>>

\* eBay refuses the grant.
DenyGrant(c) ==
    /\ pc[c] = "mint"
    /\ RaiseLocked(c, "EbayError")

LoseGrantKeepsLockMutant(c) ==
    /\ pc[c] = "granted"
    /\ Return(c, "EbayError")
    /\ UNCHANGED <<configured, now, issued, token, lock>>

\* The grant is lost on the way back: a broken connection or an unreadable body.
LoseGrant(c) ==
    /\ pc[c] = "granted"
    /\ RaiseLocked(c, "EbayError")

GrantRaisesKeepsLockMutant(c) ==
    /\ pc[c] = "granted"
    /\ Return(c, "UnexpectedError")
    /\ UNCHANGED <<configured, now, issued, token, lock>>

\* The answer arrives and raises what nothing in the client catches: an expires_in
\* that is an integer beyond the floats (OverflowError), or a body nested too deep
\* for json (RecursionError).
GrantRaises(c) ==
    /\ pc[c] = "granted"
    /\ RaiseLocked(c, "UnexpectedError")

HandshakeTimeoutKeepsLockMutant(c) ==
    /\ pc[c] \in {"mint", "granted"}
    /\ now >= due[c]
    /\ Return(c, "EbayError")
    /\ UNCHANGED <<configured, now, issued, token, lock>>

HandshakeTimeout(c) ==
    /\ pc[c] \in {"mint", "granted"}
    /\ now >= due[c]
    /\ RaiseLocked(c, "EbayError")

-----------------------------------------------------------------------------
(* _get_json.                                                              *)

\* eBay serves the search, which it does for a live token only.
Answer(c) ==
    /\ pc[c] = "get"
    /\ now < Expiry(held[c])
    /\ Return(c, "ok")
    /\ UNCHANGED <<configured, now, issued, token, lock>>

\* Any other status from 400 up, a second 401, a broken connection or a body
\* that is not JSON.
Fail(c) ==
    /\ pc[c] = "get"
    /\ Return(c, "EbayError")
    /\ UNCHANGED <<configured, now, issued, token, lock>>

\* Uncaught as well: a body nested too deep for json, or a granted token that no
\* header can hold, which eBay does not get to see.
GetRaises(c) ==
    /\ pc[c] = "get"
    /\ Return(c, "UnexpectedError")
    /\ UNCHANGED <<configured, now, issued, token, lock>>

UnauthorizedAgainMutant(c) ==
    /\ pc[c] = "get"
    /\ pc' = [pc EXCEPT ![c] = "wait"]
    /\ rejected' = [rejected EXCEPT ![c] = held[c]]
    /\ held' = [held EXCEPT ![c] = 0]
    /\ due' = [due EXCEPT ![c] = 0]
    /\ UNCHANGED <<configured, now, issued, token, lock, outcome>>

\* eBay answers 401, which it does to every expired token and may do to any.
\* The first one sends the call to the lock for a new token.
Unauthorized(c) ==
    /\ pc[c] = "get"
    /\ ~Forced(c)
    /\ pc' = [pc EXCEPT ![c] = "wait"]
    /\ rejected' = [rejected EXCEPT ![c] = held[c]]
    /\ held' = [held EXCEPT ![c] = 0]
    /\ due' = [due EXCEPT ![c] = 0]
    /\ UNCHANGED <<configured, now, issued, token, lock, outcome>>

GetTimeout(c) ==
    /\ pc[c] = "get"
    /\ now >= due[c]
    /\ Return(c, "EbayError")
    /\ UNCHANGED <<configured, now, issued, token, lock>>

-----------------------------------------------------------------------------
(* The clock.                                                              *)

InFlight(c) == pc[c] \in {"mint", "granted", "get"}

Urgent(c) ==
    \/ pc[c] = "check"
    \/ pc[c] = "wait" /\ lock = "free"
    \/ InFlight(c) /\ now >= due[c]

Tick ==
    /\ \A c \in Calls : ~Urgent(c)
    /\ now < MaxTime \/ \E c \in Calls : InFlight(c)
    /\ now' = now + 1
    /\ UNCHANGED <<configured, issued, token, lock, pc, held, rejected, due, outcome>>

Handshake(c) ==
    \/ RequestToken(c) \/ MissingCredentials(c) \/ Grant(c) \/ StoreToken(c)
    \/ DenyGrant(c) \/ LoseGrant(c) \/ GrantRaises(c) \/ HandshakeTimeout(c)

CallStep(c) ==
    \/ CacheHit(c) \/ CacheMiss(c) \/ RecheckHit(c) \/ Handshake(c)
    \/ Answer(c) \/ Fail(c) \/ GetRaises(c) \/ Unauthorized(c) \/ GetTimeout(c)

\* Every call is over and the clock has run out.
Finished ==
    /\ \A c \in Calls : pc[c] = "done"
    /\ now >= MaxTime
    /\ UNCHANGED vars

Next ==
    \/ \E c \in Calls : RefuseRequest(c) \/ Start(c) \/ CallStep(c)
    \/ Tick
    \/ Finished

Spec == Init /\ [][Next]_vars

\* What the code and the operating system guarantee: a runnable thread runs,
\* a free lock is taken by someone who waits for it, time passes, and an overdue
\* request raises.  That eBay ever answers is not assumed.
Fairness ==
    /\ WF_vars(Tick)
    /\ \A c \in Calls :
          /\ WF_vars(CacheHit(c) \/ CacheMiss(c))
          /\ WF_vars(RecheckHit(c) \/ RequestToken(c) \/ MissingCredentials(c))
          /\ WF_vars(HandshakeTimeout(c) \/ GetTimeout(c))

FairSpec == Spec /\ Fairness

-----------------------------------------------------------------------------
(* Properties.                                                             *)

Token == [at : Nat, life : Nat \ {0}, claimed : Nat \ {0}]

TypeOK ==
    /\ configured \in BOOLEAN
    /\ now \in Nat
    /\ issued \in Seq(Token)
    /\ token \in [id : Nat, expiresAt : Nat]
    /\ lock \in Calls \cup {"free"}
    /\ pc \in [Calls -> {"idle", "check", "wait", "mint", "granted", "get", "done"}]
    /\ held \in [Calls -> Nat]
    /\ rejected \in [Calls -> Nat]
    /\ due \in [Calls -> Nat]
    /\ outcome \in [Calls -> Errors \cup {"none", "ok"}]

\* The retry after a 401 never sends the refused token again: it carries one
\* that eBay granted later ("a second 401 is a real auth failure").
RetryUsesNewerToken ==
    \A c \in Calls : pc[c] = "get" /\ Forced(c) => held[c] > rejected[c]

\* A token is not used past its end: while a GET is in flight, the token it
\* carries is alive at eBay, if eBay stated a lifetime longer than the leeway
\* ("an in-flight request can never race the expiry boundary").
InFlightTokenAlive ==
    \A c \in Calls :
        LET k == held[c] IN
        pc[c] = "get" /\ issued[k].claimed = issued[k].life /\ issued[k].life > Leeway
            => now < Expiry(k)

\* The lock is held exactly while a handshake is in flight, by its call, and so
\* at most one is: no way out of the critical section leaves it locked.
LockHeldForHandshake ==
    \A c \in Calls : lock = c <=> pc[c] \in {"mint", "granted"}

\* "A warm process makes no OAuth calls at all": a usable token is given up only for
\* a call to which eBay has refused a token.  Between the last look at the cache and the
\* answer to the handshake it leads to, other calls miss the cache, wait, hit it and
\* are refused; none of them may have filled it meanwhile.
UsableTokenIsKept ==
    [][token' # token /\ IsValid(token)
          => \E c \in Calls : lock = c /\ Forced(c)]_vars

\* The cache never goes back: a token only gives way to one granted after it,
\* so a slow handshake cannot overwrite the result of a later one.
CacheNeverGoesBack ==
    [][token' # token => token'.id > token.id]_vars

\* "Under concurrent load exactly one thread performs the token round-trip; the
\* rest wait on the lock and then observe the freshly cached token": no call
\* starts a handshake while the cache holds a usable token it has not tried.
ConcurrentCallsShareHandshake ==
    [][\A c \in Calls : pc[c] # "mint" /\ pc'[c] = "mint"
                            => ~(IsValid(token) /\ token.id > rejected[c])]_vars

\* What a caller sees of the client, as SearchService states it: a call is idle,
\* running, or what it returned or raised.
Service == INSTANCE SearchService WITH
               Failures <- {"EbayError"},
               call <- [c \in Calls |-> CASE pc[c] = "idle" -> "idle"
                                          [] pc[c] = "done" -> outcome[c]
                                          [] OTHER          -> "running"],
               grants <- Len(issued)

\* The client keeps that promise: in particular a refused token costs its call one
\* more handshake and never another, so that n searches obtain at most 2n tokens, and
\* no interleaving makes a search without credentials fail otherwise than with
\* MissingConfigurationError.
KeepsServicePromise == Service!Spec

\* Every search ends, whatever eBay does or fails to do.
EverySearchEnds ==
    \A c \in Calls : pc[c] = "check" ~> pc[c] = "done"
=============================================================================
