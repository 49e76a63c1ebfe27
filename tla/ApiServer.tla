------------------------------- MODULE ApiServer -------------------------------
(***************************************************************************)
(* The HTTP API of app/main.py: requests for /api/ebay/search and for      *)
(* /health, served together by the worker threads of one process.          *)
(*                                                                         *)
(* FastAPI runs a dependency on a thread of its pool, gives the thread     *)
(* back, and runs the endpoint on another; a request that finds no thread  *)
(* free waits.  lru_cache calls its function without a lock, so that the   *)
(* first searches may each build an EbayClient; it keeps the first one     *)
(* built, and each caller returns its own.                                 *)
(*                                                                         *)
(* The search itself is SearchService, which EbayClient implements; a      *)
(* request is the call it makes.  Two clients keep that promise together,  *)
(* since it counts tokens by call.                                         *)
(*                                                                         *)
(* An operator named ...Mutant is a wrong version of the one that follows  *)
(* it, used to confirm that a property notices the fault.                  *)
(***************************************************************************)
EXTENDS FiniteSets, Naturals

CONSTANTS
    Searches,  \* requests for /api/ebay/search
    Probes,    \* requests for /health
    NoClient,  \* stands for no client
    Threads    \* threads of the pool

ASSUME RequestsAssumption == Searches \cap Probes = {} /\ NoClient \notin Searches
ASSUME ThreadsAssumption  == Threads \in Nat \ {0}

\* The subclasses of EbayError by what main.py makes of them: EbayApiError stands
\* for the others too, which get the same status.
EbayErrors == {"EbayRateLimitError", "EbayTimeoutError", "EbayApiError"}

Requests == Searches \cup Probes

Settings == [numbers : {"fine", "unparsable", "out of range"}, id : BOOLEAN, secret : BOOLEAN]

VARIABLES
    settings,    \* the environment: its numbers and addresses, an id, a secret
    input,       \* what is wrong with the query of each search, once it is served
    client,      \* what lru_cache holds: the search that built it, or NoClient
    uses,        \* the client each search was given
    stage,       \* where each request is
    status,      \* HTTP status of its answer, 0 before that
    ready,       \* ebay_credentials_configured, as answered to each probe
    configured, call, grants  \* SearchService

server == <<client, uses, stage, status, ready>>
service == <<configured, call, grants>>
vars == <<settings, input, server, service>>

Service == INSTANCE SearchService WITH Calls <- Searches, Failures <- EbayErrors

-----------------------------------------------------------------------------
(* Threads.                                                                *)

HasThreadMutant(r) == stage[r] \in {"dependency", "building", "resolved", "endpoint"}

HasThread(r) == stage[r] \in {"dependency", "building", "endpoint"}

ThreadFree == Cardinality({r \in Requests : HasThread(r)}) < Threads

Enter(r, from, to) ==
    /\ stage[r] = from
    /\ ThreadFree
    /\ stage' = [stage EXCEPT ![r] = to]

Respond(r, code) ==
    /\ stage' = [stage EXCEPT ![r] = "answered"]
    /\ status' = [status EXCEPT ![r] = code]

-----------------------------------------------------------------------------
(* Settings and dependencies.                                              *)

\* load_settings: an id or a secret of blanks is none.
Init ==
    /\ settings \in Settings
    /\ input = [r \in Searches |-> "unread"]
    /\ client = NoClient
    /\ uses = [r \in Searches |-> NoClient]
    /\ stage = [r \in Requests |-> "arrived"]
    /\ status = [r \in Requests |-> 0]
    /\ ready = [r \in Probes |-> FALSE]
    /\ Service!Init
    /\ configured = (settings.id /\ settings.secret)

StartDependency(r) ==
    /\ Enter(r, "arrived", "dependency")
    /\ IF r \in Searches
       THEN \E i \in {"fine", "malformed", "blank"} : input' = [input EXCEPT ![r] = i]
       ELSE UNCHANGED input
    /\ UNCHANGED <<settings, client, uses, status, ready, service>>

BadSettingsSwallowedMutant(r) ==
    /\ IF r \in Searches THEN stage[r] = "building" ELSE stage[r] = "dependency"
    /\ settings.numbers # "fine"
    /\ stage' = [stage EXCEPT ![r] = "resolved"]
    /\ UNCHANGED <<settings, input, client, uses, status, ready, service>>

\* get_settings raises: REQUEST_TIMEOUT_SECONDS cannot be parsed, or Settings refuses
\* it or EBAY_API_BASE, for which there is no handler.  lru_cache keeps no exception,
\* so every request tries again.
BadSettings(r) ==
    /\ IF r \in Searches THEN stage[r] = "building" ELSE stage[r] = "dependency"
    /\ settings.numbers # "fine"
    /\ Respond(r, IF settings.numbers = "unparsable" THEN 503 ELSE 500)
    /\ UNCHANGED <<settings, input, client, uses, ready, service>>

\* get_app_settings of a probe.
SettingsRead(r) ==
    /\ r \in Probes /\ stage[r] = "dependency"
    /\ settings.numbers = "fine"
    /\ stage' = [stage EXCEPT ![r] = "resolved"]
    /\ UNCHANGED <<settings, input, client, uses, status, ready, service>>

\* _shared_ebay_client finds the client in the cache, or has none to find.
ClientCached(r) ==
    /\ r \in Searches /\ stage[r] = "dependency"
    /\ client # NoClient
    /\ uses' = [uses EXCEPT ![r] = client]
    /\ stage' = [stage EXCEPT ![r] = "resolved"]
    /\ UNCHANGED <<settings, input, client, status, ready, service>>

ClientMissing(r) ==
    /\ r \in Searches /\ stage[r] = "dependency"
    /\ client = NoClient
    /\ stage' = [stage EXCEPT ![r] = "building"]
    /\ UNCHANGED <<settings, input, client, uses, status, ready, service>>

ClientBuiltReplacesMutant(r) ==
    /\ stage[r] = "building"
    /\ settings.numbers = "fine"
    /\ client' = r
    /\ uses' = [uses EXCEPT ![r] = r]
    /\ stage' = [stage EXCEPT ![r] = "resolved"]
    /\ UNCHANGED <<settings, input, status, ready, service>>

\* The search has built a client; the cache keeps the first.
ClientBuilt(r) ==
    /\ stage[r] = "building"
    /\ settings.numbers = "fine"
    /\ client' = IF client = NoClient THEN r ELSE client
    /\ uses' = [uses EXCEPT ![r] = r]
    /\ stage' = [stage EXCEPT ![r] = "resolved"]
    /\ UNCHANGED <<settings, input, status, ready, service>>

-----------------------------------------------------------------------------
(* search_ebay.                                                            *)

\* The query breaks its declaration, which FastAPI reports when the dependencies
\* are resolved.
RejectQuery(r) ==
    /\ r \in Searches /\ stage[r] = "resolved"
    /\ input[r] = "malformed"
    /\ Respond(r, 422)
    /\ UNCHANGED <<settings, input, client, uses, ready, service>>

\* client.search refuses keywords that are only blanks, and goes on otherwise.
StartSearch(r) ==
    /\ r \in Searches /\ input[r] # "malformed"
    /\ Enter(r, "resolved", "endpoint")
    /\ IF input[r] = "blank" THEN Service!Refuse(r) ELSE Service!Begin(r)
    /\ UNCHANGED <<settings, input, client, uses, status, ready>>

\* client.search obtains a token; client.search ends.
TokenGranted == Service!Grant /\ UNCHANGED <<settings, input, server>>

SearchEnds ==
    /\ \E r \in Searches : Service!End(r)
    /\ UNCHANGED <<settings, input, server>>

StatusMutant(outcome) ==
    CASE outcome = "InvalidSearchRequest"      -> 400
      [] outcome = "EbayRateLimitError"        -> 429
      [] outcome = "MissingConfigurationError" -> 503
      [] outcome = "EbayTimeoutError"          -> 504
      [] outcome = "EbayApiError"              -> 400
      [] outcome = "UnexpectedError"           -> 500

\* The exception handlers; what has none is a 500.
Status(outcome) ==
    CASE outcome = "InvalidSearchRequest"      -> 400
      [] outcome = "EbayRateLimitError"        -> 429
      [] outcome = "MissingConfigurationError" -> 503
      [] outcome = "EbayTimeoutError"          -> 504
      [] outcome = "EbayApiError"              -> 502
      [] outcome = "UnexpectedError"           -> 500

\* What becomes of a body eBay served: an infinite total, or an infinite feedback
\* score in a row, raises OverflowError, which neither _safe_int nor the page loop
\* catches; a row nested too deep to be copied raises RecursionError; and a NaN or an
\* infinity that raw has kept may be refused when the response is written.
ServedStatuses == {200, 500}

\* search_ebay ends.
EndSearch(r) ==
    /\ r \in Searches /\ stage[r] = "endpoint"
    /\ call[r] \in Service!Ends
    /\ IF call[r] = "ok" THEN \E code \in ServedStatuses : Respond(r, code)
                          ELSE Respond(r, Status(call[r]))
    /\ UNCHANGED <<settings, input, client, uses, ready, service>>

-----------------------------------------------------------------------------
(* health.                                                                 *)

StartProbe(r) ==
    /\ r \in Probes
    /\ Enter(r, "resolved", "endpoint")
    /\ UNCHANGED <<settings, input, client, uses, status, ready, service>>

ReadyMutant == settings.id

Ready == settings.id /\ settings.secret

EndProbe(r) ==
    /\ r \in Probes /\ stage[r] = "endpoint"
    /\ Respond(r, 200)
    /\ ready' = [ready EXCEPT ![r] = Ready]
    /\ UNCHANGED <<settings, input, client, uses, service>>

-----------------------------------------------------------------------------
\* What a request does once it has a thread or needs none.
Proceed(r) ==
    \/ BadSettings(r) \/ SettingsRead(r) \/ ClientCached(r) \/ ClientMissing(r)
    \/ ClientBuilt(r) \/ RejectQuery(r) \/ EndSearch(r) \/ EndProbe(r)

TakeThread(r) == StartDependency(r) \/ StartSearch(r) \/ StartProbe(r)

\* Every request is answered.
Finished == (\A r \in Requests : stage[r] = "answered") /\ UNCHANGED vars

Next ==
    \/ \E r \in Requests : Proceed(r) \/ TakeThread(r)
    \/ TokenGranted \/ SearchEnds
    \/ Finished

Spec == Init /\ [][Next]_vars

\* As long as some thread can go on one does, a free thread is given to one of the
\* requests that wait, and of the searches under way one ends: EbayClient is shown
\* to guarantee more (EverySearchEnds).
Fairness ==
    /\ WF_vars(\E r \in Requests : Proceed(r))
    /\ WF_vars(\E r \in Requests : TakeThread(r))
    /\ WF_vars(SearchEnds)

FairSpec == Spec /\ Fairness

-----------------------------------------------------------------------------
(* Properties.                                                             *)

\* The variables have their types, and search_ebay is never called without a client.
TypeOK ==
    /\ settings \in Settings
    /\ input \in [Searches -> {"unread", "fine", "malformed", "blank"}]
    /\ client \in Searches \cup {NoClient}
    /\ uses \in [Searches -> Searches \cup {NoClient}]
    /\ \A r \in Searches : stage[r] \in {"resolved", "endpoint"} => uses[r] # NoClient
    /\ stage \in [Requests -> {"arrived", "dependency", "building", "resolved",
                               "endpoint", "answered"}]
    /\ status \in [Requests -> {0, 200, 400, 422, 429, 500, 502, 503, 504}]
    /\ ready \in [Probes -> BOOLEAN]
    /\ configured \in BOOLEAN
    /\ call \in [Searches -> Service!Ends \cup {"idle", "running"}]
    /\ grants \in Nat

\* The status code blames who is at fault, however requests race for the client: a
\* 4xx of its own a request that asked wrongly and cost no call to eBay, 503 the
\* settings of the server, 429 and 5xx of upstream only a proper request of a server
\* with credentials, and 200 is only said of what eBay served.
BlameIsRight ==
    \A r \in Searches :
       /\ status[r] \in {400, 422} =>
             input[r] \in {"malformed", "blank"} /\ call[r] \in {"idle", "InvalidSearchRequest"}
       /\ status[r] = 503 => ~(settings.numbers = "fine" /\ settings.id /\ settings.secret)
       /\ status[r] \in {200, 429, 502, 504} =>
             input[r] = "fine" /\ settings.numbers = "fine" /\ settings.id /\ settings.secret
       /\ status[r] = 200 => grants > 0

\* "One process-wide client so the token cache and connection pool are shared": two
\* searches hold different clients only if one of them has built its own, in the race
\* of the first requests; all others share the one the cache keeps.
OneClientAfterColdStart ==
    \A r \in Searches : uses[r] \notin {NoClient, r} => uses[r] = client

\* The health check and the searches agree on the credentials: no search fails for
\* want of settings after /health has said they are there, and none gets as far as
\* eBay when it has said they are not.
HealthTellsTheTruth ==
    \A p \in Probes, r \in Searches :
       status[p] = 200 /\ status[r] # 0 =>
          IF ready[p] THEN status[r] # 503 ELSE status[r] \in {400, 422, 503}

\* A request need not wait for another: it has a thread or finds one free, and if it is
\* in search_ebay its call of client.search has begun, which ends by itself.
CanGoOn(r) ==
    \/ stage[r] \in {"arrived", "resolved"} /\ ThreadFree
    \/ stage[r] \in {"dependency", "building"}
    \/ stage[r] = "endpoint" /\ (r \in Searches => call[r] # "idle")

\* The pool never stops: until every request is answered some request can go on, even
\* if the only thread is wanted by the endpoint of a request and by the dependency of
\* the next one at once, because a dependency gives its thread back before the endpoint
\* asks for another.
NobodyIsStuck ==
    (\A r \in Requests : stage[r] = "answered") \/ \E r \in Requests : CanGoOn(r)

\* Every request is answered, the health check too, although searches may hold every
\* thread of the pool while they wait for eBay.
EveryRequestAnswered ==
    <>(\A r \in Requests : stage[r] = "answered")
=============================================================================
