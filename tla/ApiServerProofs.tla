---------------------------- MODULE ApiServerProofs ----------------------------
(***************************************************************************)
(* Theorems about ApiServer, for any finite or infinite set of requests,   *)
(* any number of threads and any promise the client keeps.                 *)
(***************************************************************************)
EXTENDS ApiServer, FiniteSetTheorems, TLAPS

(* What a step of Next is, by cases: used by every step proof below.       *)
LEMMA StepCases ==
    ASSUME [Next]_vars
    PROVE  \/ \E r \in Requests : StartDependency(r)
           \/ \E r \in Requests : BadSettings(r)
           \/ \E r \in Requests : SettingsRead(r)
           \/ \E r \in Requests : ClientCached(r)
           \/ \E r \in Requests : ClientMissing(r)
           \/ \E r \in Requests : ClientBuilt(r)
           \/ \E r \in Requests : RejectQuery(r)
           \/ \E r \in Requests : StartSearch(r)
           \/ \E r \in Requests : EndSearch(r)
           \/ \E r \in Requests : StartProbe(r)
           \/ \E r \in Requests : EndProbe(r)
           \/ TokenGranted
           \/ \E r \in Searches : Service!End(r) /\ UNCHANGED <<settings, input, server>>
           \/ UNCHANGED vars
  BY DEF Next, Proceed, TakeThread, SearchEnds, Finished

(* The status of every way search may fail.                                *)
LEMMA StatusCases ==
    ASSUME NEW outcome \in Service!Ends, outcome # "ok"
    PROVE  /\ Status(outcome) \in {400, 429, 500, 502, 503, 504}
           /\ Status(outcome) = 400 => outcome = "InvalidSearchRequest"
           /\ Status(outcome) = 503 => outcome = "MissingConfigurationError"
           /\ Status(outcome) = 500 => outcome = "UnexpectedError"
           /\ Status(outcome) \in {429, 502, 504} => outcome \in EbayErrors
<1>1. outcome \in {"InvalidSearchRequest", "EbayRateLimitError", "MissingConfigurationError",
                   "EbayTimeoutError", "EbayApiError", "UnexpectedError"}
  BY DEF Service!Ends, EbayErrors
<1>2. CASE outcome = "InvalidSearchRequest"
  BY <1>2 DEF Status
<1>3. CASE outcome = "EbayRateLimitError"
  BY <1>3 DEF Status, EbayErrors
<1>4. CASE outcome = "MissingConfigurationError"
  BY <1>4 DEF Status
<1>5. CASE outcome = "EbayTimeoutError"
  BY <1>5 DEF Status, EbayErrors
<1>6. CASE outcome = "EbayApiError"
  BY <1>6 DEF Status, EbayErrors
<1>7. CASE outcome = "UnexpectedError"
  BY <1>7 DEF Status
<1> QED
  BY <1>1, <1>2, <1>3, <1>4, <1>5, <1>6, <1>7

-----------------------------------------------------------------------------
(* Type correctness.  Only searches build clients, on which the types of   *)
(* client and uses depend.                                                 *)

TypeInv == TypeOK /\ \A r \in Requests : stage[r] = "building" => r \in Searches

LEMMA TypeInvInductive == TypeInv /\ [Next]_vars => TypeInv'
<1> SUFFICES ASSUME TypeInv, [Next]_vars PROVE TypeInv'
  OBVIOUS
<1> USE RequestsAssumption DEF TypeInv, TypeOK, Requests, service, server
<1>1. ASSUME NEW r \in Requests, StartDependency(r) PROVE TypeInv'
  BY <1>1 DEF StartDependency, Enter
<1>2. ASSUME NEW r \in Requests, BadSettings(r) PROVE TypeInv'
  BY <1>2 DEF BadSettings, Respond
<1>3. ASSUME NEW r \in Requests, SettingsRead(r) PROVE TypeInv'
  BY <1>3 DEF SettingsRead
<1>4. ASSUME NEW r \in Requests, ClientCached(r) PROVE TypeInv'
  BY <1>4 DEF ClientCached
<1>5. ASSUME NEW r \in Requests, ClientMissing(r) PROVE TypeInv'
  BY <1>5 DEF ClientMissing
<1>6. ASSUME NEW r \in Requests, ClientBuilt(r) PROVE TypeInv'
  BY <1>6 DEF ClientBuilt
<1>7. ASSUME NEW r \in Requests, RejectQuery(r) PROVE TypeInv'
  BY <1>7 DEF RejectQuery, Respond
<1>8. ASSUME NEW r \in Requests, StartSearch(r) PROVE TypeInv'
  BY <1>8 DEF StartSearch, Enter, Service!Refuse, Service!Begin, Service!Become, Service!Ends
<1>9. ASSUME NEW r \in Requests, EndSearch(r) PROVE TypeInv'
  <2>1. PICK code \in {200, 400, 429, 500, 502, 503, 504} : Respond(r, code)
    BY <1>9, StatusCases DEF EndSearch, ServedStatuses
  <2> QED
    BY <1>9, <2>1 DEF EndSearch, Respond
<1>10. ASSUME NEW r \in Requests, StartProbe(r) PROVE TypeInv'
  BY <1>10 DEF StartProbe, Enter
<1>11. ASSUME NEW r \in Requests, EndProbe(r) PROVE TypeInv'
  BY <1>11 DEF EndProbe, Respond, Ready, Settings
<1>12. CASE TokenGranted
  BY <1>12 DEF TokenGranted, Service!Grant
<1>13. ASSUME NEW r \in Searches, Service!End(r), UNCHANGED <<settings, input, server>>
       PROVE TypeInv'
  BY <1>13 DEF Service!End, Service!Serve, Service!Fail, Service!Break,
               Service!FailUnconfigured, Service!Become, Service!Ends
<1>14. CASE UNCHANGED vars
  BY <1>14 DEF vars
<1> QED
  BY <1>1, <1>2, <1>3, <1>4, <1>5, <1>6, <1>7, <1>8, <1>9, <1>10, <1>11, <1>12,
     <1>13, <1>14, StepCases

LEMMA TypeInvariance == Spec => []TypeInv
<1>1. Init => TypeInv
  BY RequestsAssumption DEF Init, TypeInv, TypeOK, Requests, Service!Init
<1> QED
  BY <1>1, TypeInvInductive, PTL DEF Spec

\* The server's variables keep their types, and search_ebay never runs without a
\* client, for any number of requests and threads.
THEOREM TypeCorrect == Spec => []TypeOK
<1>1. TypeInv => TypeOK
  BY DEF TypeInv
<1> QED
  BY <1>1, TypeInvariance, PTL

-----------------------------------------------------------------------------
(* The client.                                                             *)

LEMMA OneClientInductive ==
    TypeInv /\ OneClientAfterColdStart /\ [Next]_vars => OneClientAfterColdStart'
<1> SUFFICES ASSUME TypeInv, OneClientAfterColdStart, [Next]_vars
             PROVE OneClientAfterColdStart'
  OBVIOUS
<1> USE DEF OneClientAfterColdStart, server
<1>1. CASE UNCHANGED <<client, uses>>
  BY <1>1
<1>2. ASSUME NEW r \in Requests, ClientCached(r) PROVE OneClientAfterColdStart'
  BY <1>2 DEF ClientCached, TypeInv, TypeOK
<1>3. ASSUME NEW r \in Requests, ClientBuilt(r) PROVE OneClientAfterColdStart'
  BY <1>3 DEF ClientBuilt, TypeInv, TypeOK
<1> QED
  BY <1>1, <1>2, <1>3, StepCases
     DEF StartDependency, BadSettings, SettingsRead, ClientMissing, RejectQuery, StartSearch,
         EndSearch, StartProbe, EndProbe, TokenGranted, vars

\* Two searches hold different clients only if one of them built its own, before any
\* client was cached (_shared_ebay_client).
THEOREM OneClientCorrect == Spec => []OneClientAfterColdStart
<1>1. Init => OneClientAfterColdStart
  BY DEF Init, OneClientAfterColdStart
<1> QED
  BY <1>1, TypeInvariance, OneClientInductive, PTL DEF Spec

-----------------------------------------------------------------------------
(* The status codes.  An answer is decided by what the settings, the query *)
(* and the call to the client were, each at an earlier stage of the        *)
(* request; the invariant says what each stage has established.            *)

\* What has happened to a request at its stage.
Progress ==
    \A r \in Searches :
       /\ stage[r] # "answered" => status[r] = 0
       /\ stage[r] \notin {"endpoint", "answered"} => call[r] = "idle"
       /\ stage[r] = "endpoint" => call[r] # "idle"
       /\ stage[r] = "answered" => call[r] # "running"
       /\ stage[r] # "arrived" => input[r] # "unread"

\* What is known of the settings by then.
Known ==
    /\ configured <=> Ready
    /\ client # NoClient => settings.numbers = "fine"
    /\ \A r \in Requests : stage[r] \in {"resolved", "endpoint"} => settings.numbers = "fine"

\* What the state of a call says of its query, of the settings and of eBay.
CallTells ==
    \A r \in Searches :
       /\ call[r] = "InvalidSearchRequest" => input[r] = "blank"
       /\ call[r] \notin {"idle", "InvalidSearchRequest"} => input[r] = "fine"
       /\ call[r] = "MissingConfigurationError" => ~configured
       /\ call[r] \in EbayErrors \cup {"ok", "UnexpectedError"} => configured
       /\ call[r] = "ok" => grants > 0

\* What the status of an answer says.
StatusTells ==
    /\ \A r \in Searches :
          /\ status[r] \in {400, 422} =>
                input[r] \in {"malformed", "blank"} /\ call[r] \in {"idle", "InvalidSearchRequest"}
          /\ status[r] = 503 => settings.numbers # "fine" \/ ~configured
          /\ status[r] \in {200, 429, 502, 504} =>
                input[r] = "fine" /\ settings.numbers = "fine" /\ configured
          /\ status[r] = 500 => settings.numbers # "fine" \/ configured
          /\ status[r] = 200 => grants > 0
    /\ \A p \in Probes : status[p] = 200 => settings.numbers = "fine" /\ (ready[p] <=> Ready)

BlameInv == Progress /\ Known /\ CallTells /\ StatusTells

LEMMA SettingsStay == [Next]_vars => Ready' = Ready /\ settings' = settings /\ configured' = configured
<1> SUFFICES ASSUME [Next]_vars PROVE settings' = settings /\ configured' = configured
  BY DEF Ready
<1> QED
  BY StepCases
     DEF StartDependency, BadSettings, SettingsRead, ClientCached, ClientMissing, ClientBuilt,
         RejectQuery, StartSearch, EndSearch, StartProbe, EndProbe, TokenGranted, vars, service,
         server, Service!Refuse, Service!Begin, Service!Become, Service!Grant, Service!End,
         Service!Serve, Service!Fail, Service!Break, Service!FailUnconfigured

LEMMA BlameInvInductive == TypeInv /\ BlameInv /\ [Next]_vars => BlameInv'
<1> SUFFICES ASSUME TypeInv, BlameInv, [Next]_vars PROVE BlameInv'
  OBVIOUS
<1>0. Ready' = Ready /\ settings' = settings /\ configured' = configured
  BY SettingsStay
<1> USE RequestsAssumption, <1>0
    DEF TypeInv, TypeOK, Requests, service, server, BlameInv, Progress, Known, CallTells, StatusTells
<1>1. ASSUME NEW r \in Requests, StartDependency(r) PROVE BlameInv'
  BY <1>1 DEF StartDependency, Enter
<1>2. ASSUME NEW r \in Requests, BadSettings(r) PROVE BlameInv'
  BY <1>2 DEF BadSettings, Respond
<1>3. ASSUME NEW r \in Requests, SettingsRead(r) PROVE BlameInv'
  BY <1>3 DEF SettingsRead
<1>4. ASSUME NEW r \in Requests, ClientCached(r) PROVE BlameInv'
  BY <1>4 DEF ClientCached
<1>5. ASSUME NEW r \in Requests, ClientMissing(r) PROVE BlameInv'
  BY <1>5 DEF ClientMissing
<1>6. ASSUME NEW r \in Requests, ClientBuilt(r) PROVE BlameInv'
  BY <1>6 DEF ClientBuilt
<1>7. ASSUME NEW r \in Requests, RejectQuery(r) PROVE BlameInv'
  BY <1>7 DEF RejectQuery, Respond
<1>8. ASSUME NEW r \in Requests, StartSearch(r) PROVE BlameInv'
  BY <1>8 DEF StartSearch, Enter, Service!Refuse, Service!Begin, Service!Become, Service!Ends,
              EbayErrors
<1>9. ASSUME NEW r \in Requests, EndSearch(r) PROVE BlameInv'
  <2>1. CASE call[r] = "ok"
    BY <1>9, <2>1 DEF EndSearch, ServedStatuses, Respond, EbayErrors
  <2>2. CASE call[r] # "ok"
    BY <1>9, <2>2, StatusCases DEF EndSearch, Respond, EbayErrors
  <2> QED
    BY <2>1, <2>2
<1>10. ASSUME NEW r \in Requests, StartProbe(r) PROVE BlameInv'
  BY <1>10 DEF StartProbe, Enter
<1>11. ASSUME NEW r \in Requests, EndProbe(r) PROVE BlameInv'
  BY <1>11 DEF EndProbe, Respond
<1>12. CASE TokenGranted
  BY <1>12 DEF TokenGranted, Service!Grant
<1>13. ASSUME NEW r \in Searches, Service!End(r), UNCHANGED <<settings, input, server>>
       PROVE BlameInv'
  BY <1>13 DEF Service!End, Service!Serve, Service!Fail, Service!Break,
               Service!FailUnconfigured, Service!Become, Service!Running, EbayErrors
<1>14. CASE UNCHANGED vars
  BY <1>14 DEF vars
<1> QED
  BY <1>1, <1>2, <1>3, <1>4, <1>5, <1>6, <1>7, <1>8, <1>9, <1>10, <1>11, <1>12,
     <1>13, <1>14, StepCases

LEMMA BlameInvariance == Spec => []BlameInv
<1>1. ASSUME Init PROVE configured <=> Ready
  BY <1>1, Zenon DEF Init, Ready
<1>2. Init => BlameInv
  BY <1>1, RequestsAssumption
     DEF Init, BlameInv, Progress, Known, CallTells, StatusTells, Requests, Service!Init, EbayErrors
<1> QED
  BY <1>2, TypeInvariance, BlameInvInductive, PTL DEF Spec

\* The status code of a search blames the request, the settings or upstream rightly.
THEOREM BlameCorrect == Spec => []BlameIsRight
<1>1. BlameInv => BlameIsRight
  BY DEF BlameInv, Known, StatusTells, Ready, BlameIsRight
<1> QED
  BY <1>1, BlameInvariance, PTL

\* What a probe was told of the credentials agrees with what searches meet.
THEOREM HealthCorrect == Spec => []HealthTellsTheTruth
<1>1. TypeInv /\ BlameInv => HealthTellsTheTruth
  <2> SUFFICES ASSUME TypeInv, BlameInv, NEW p \in Probes, NEW r \in Searches,
                      status[p] = 200, status[r] # 0
               PROVE  IF ready[p] THEN status[r] # 503 ELSE status[r] \in {400, 422, 503}
    BY DEF HealthTellsTheTruth
  <2>1. settings.numbers = "fine" /\ (ready[p] <=> configured)
    BY DEF BlameInv, Known, StatusTells
  <2>2. status[r] \in {200, 400, 422, 429, 500, 502, 503, 504}
    BY DEF TypeInv, TypeOK, Requests
  <2>3. configured => status[r] # 503
    BY <2>1 DEF BlameInv, StatusTells
  <2>4. ~configured => status[r] \in {400, 422, 503}
    BY <2>1, <2>2 DEF BlameInv, StatusTells
  <2> QED
    BY <2>1, <2>3, <2>4
<1> QED
  BY <1>1, TypeInvariance, BlameInvariance, PTL
\* With threads to spare or without, some request can go on until all are answered.
THEOREM NobodyStuckCorrect == Spec => []NobodyIsStuck
<1>1. TypeInv /\ BlameInv => NobodyIsStuck
  <2> SUFFICES ASSUME TypeInv, BlameInv, NEW r \in Requests, stage[r] # "answered"
               PROVE  \E q \in Requests : CanGoOn(q)
    BY DEF NobodyIsStuck
  <2>1. ASSUME NEW q \in Requests, HasThread(q) PROVE CanGoOn(q)
    BY <2>1 DEF HasThread, CanGoOn, BlameInv, Progress
  <2>2. CASE \A q \in Requests : ~HasThread(q)
    <3>1. {q \in Requests : HasThread(q)} = {}
      BY <2>2
    <3>2. ThreadFree
      BY <3>1, FS_EmptySet, ThreadsAssumption DEF ThreadFree
    <3>3. stage[r] \in {"arrived", "resolved"}
      BY <2>2 DEF HasThread, TypeInv, TypeOK
    <3> QED
      BY <3>2, <3>3 DEF CanGoOn
  <2> QED
    BY <2>1, <2>2
<1> QED
  BY <1>1, TypeInvariance, BlameInvariance, PTL
=============================================================================
