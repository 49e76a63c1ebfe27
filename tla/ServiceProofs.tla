----------------------------- MODULE ServiceProofs -----------------------------
(***************************************************************************)
(* EbayClient keeps the promise of SearchService, for any finite number of *)
(* concurrent calls, any leeway, latency and token lifetimes.              *)
(***************************************************************************)
EXTENDS EbayClientProofs, SearchTimes, FiniteSetTheorems

-----------------------------------------------------------------------------
(* What a call may still cost.                                             *)

Begun == {c \in Calls : pc[c] # "idle" /\ ~(pc[c] = "done" /\ outcome[c] = "InvalidSearchRequest")}

\* Calls that may still obtain a token ...
Open ==
    {c \in Calls : \/ pc[c] \in {"check", "wait", "mint"}
                   \/ pc[c] \in {"granted", "get"} /\ rejected[c] = 0}

\* ... and, if it is refused, another one.
Fresh == {c \in Calls : pc[c] \in {"check", "wait", "mint"} /\ rejected[c] = 0}

Budget == Len(issued) + Cardinality(Open) + Cardinality(Fresh) <= 2 * Cardinality(Begun)

\* Nothing reaches eBay without credentials.
Cleared ==
    /\ issued # <<>> => configured
    /\ \A c \in Calls : pc[c] \in {"mint", "granted", "get"} => configured

LEMMA ClearedInductive == TypeInv /\ Cleared /\ [Next]_vars => Cleared'
<1> SUFFICES ASSUME TypeInv, Cleared, [Next]_vars
             PROVE  Cleared'
  OBVIOUS
<1> USE DEF TypeInv, TypeOK, KnownTokens, Cleared
<1>0. IsValid(token) => issued # <<>>
  BY DEF IsValid
<1>1. ASSUME NEW c \in Calls, RefuseRequest(c) PROVE Cleared'
  BY <1>1 DEF RefuseRequest, Return
<1>2. ASSUME NEW c \in Calls, Start(c) PROVE Cleared'
  BY <1>2 DEF Start
<1>3. ASSUME NEW c \in Calls, CacheHit(c) PROVE Cleared'
  BY <1>0, <1>3 DEF CacheHit, SendGet
<1>4. ASSUME NEW c \in Calls, CacheMiss(c) PROVE Cleared'
  BY <1>4 DEF CacheMiss
<1>5. ASSUME NEW c \in Calls, RecheckHit(c) PROVE Cleared'
  BY <1>0, <1>5 DEF RecheckHit, SendGet
<1>6. ASSUME NEW c \in Calls, RequestToken(c) PROVE Cleared'
  BY <1>6 DEF RequestToken
<1>7. ASSUME NEW c \in Calls, MissingCredentials(c) PROVE Cleared'
  BY <1>7 DEF MissingCredentials, RaiseLocked, Return
<1>8. ASSUME NEW c \in Calls, Grant(c) PROVE Cleared'
  BY <1>8 DEF Grant
<1>9. ASSUME NEW c \in Calls, StoreToken(c) PROVE Cleared'
  BY <1>9 DEF StoreToken, SendGet
<1>10. ASSUME NEW c \in Calls,
              DenyGrant(c) \/ LoseGrant(c) \/ GrantRaises(c) \/ HandshakeTimeout(c)
       PROVE  Cleared'
  BY <1>10 DEF DenyGrant, LoseGrant, GrantRaises, HandshakeTimeout, RaiseLocked, Return
<1>11. ASSUME NEW c \in Calls, Answer(c) \/ Fail(c) \/ GetRaises(c) \/ GetTimeout(c)
       PROVE  Cleared'
  BY <1>11 DEF Answer, Fail, GetRaises, GetTimeout, Return
<1>12. ASSUME NEW c \in Calls, Unauthorized(c) PROVE Cleared'
  BY <1>12 DEF Unauthorized
<1>13. CASE Tick
  BY <1>13 DEF Tick
<1>14. CASE UNCHANGED vars
  BY <1>14 DEF vars
<1> QED
  BY <1>1, <1>2, <1>3, <1>4, <1>5, <1>6, <1>7, <1>8, <1>9, <1>10, <1>11, <1>12,
     <1>13, <1>14, StepCases

-----------------------------------------------------------------------------
(* The budget.                                                             *)

LEMMA Counts ==
    ASSUME IsFiniteSet(Calls)
    PROVE  /\ \A S \in SUBSET Calls : IsFiniteSet(S) /\ Cardinality(S) \in Nat
           /\ \A S \in SUBSET Calls : \A T \in SUBSET S : Cardinality(T) <= Cardinality(S)
           /\ \A S \in SUBSET Calls : \A c \in S : Cardinality(S \ {c}) = Cardinality(S) - 1
           /\ \A S \in SUBSET Calls : \A c \in Calls \ S :
                 Cardinality(S \cup {c}) = Cardinality(S) + 1
<1>1. \A S \in SUBSET Calls : IsFiniteSet(S) /\ Cardinality(S) \in Nat
  BY FS_Subset, FS_CardinalityType
<1>2. \A S \in SUBSET Calls : \A T \in SUBSET S : Cardinality(T) <= Cardinality(S)
  BY <1>1, FS_Subset
<1>3. \A S \in SUBSET Calls : \A c \in S : Cardinality(S \ {c}) = Cardinality(S) - 1
  BY <1>1, FS_RemoveElement
<1>4. \A S \in SUBSET Calls : \A c \in Calls \ S : Cardinality(S \cup {c}) = Cardinality(S) + 1
  BY <1>1, FS_AddElement
<1> QED
  BY <1>1, <1>2, <1>3, <1>4

\* The budget as arithmetic over sets of calls.
Within(n, open, fresh, begun) == n + Cardinality(open) + Cardinality(fresh) <= 2 * Cardinality(begun)

LEMMA Spending ==
    ASSUME IsFiniteSet(Calls), NEW n \in Nat,
           NEW open \in SUBSET Calls, NEW fresh \in SUBSET Calls, NEW begun \in SUBSET Calls,
           Within(n, open, fresh, begun)
    PROVE  /\ \A o \in SUBSET open, f \in SUBSET fresh : Within(n, o, f, begun)
           /\ \A c \in fresh : Within(n + 1, open, fresh \ {c}, begun)
           /\ \A c \in open : Within(n + 1, open \ {c}, fresh, begun)
           /\ \A c \in Calls : c \notin open /\ c \notin fresh /\ c \notin begun =>
                 Within(n, open \cup {c}, fresh \cup {c}, begun \cup {c})
           /\ \A c \in open : n < 2 * Cardinality(begun)
<1>1. Cardinality(open) \in Nat /\ Cardinality(fresh) \in Nat /\ Cardinality(begun) \in Nat
  BY Counts
<1>2. ASSUME NEW o \in SUBSET open, NEW f \in SUBSET fresh
      PROVE  Within(n, o, f, begun)
  <2>1. /\ Cardinality(o) \in Nat /\ Cardinality(o) <= Cardinality(open)
        /\ Cardinality(f) \in Nat /\ Cardinality(f) <= Cardinality(fresh)
    BY Counts
  <2> QED
    BY <1>1, <2>1 DEF Within
<1>3. ASSUME NEW c \in fresh PROVE Within(n + 1, open, fresh \ {c}, begun)
  <2>1. Cardinality(fresh \ {c}) = Cardinality(fresh) - 1
    BY Counts
  <2> QED
    BY <1>1, <2>1 DEF Within
<1>4. ASSUME NEW c \in open
      PROVE  Within(n + 1, open \ {c}, fresh, begun) /\ n < 2 * Cardinality(begun)
  <2>1. Cardinality(open \ {c}) = Cardinality(open) - 1 /\ Cardinality(open \ {c}) \in Nat
    BY Counts
  <2> QED
    BY <1>1, <2>1 DEF Within
<1>5. ASSUME NEW c \in Calls, c \notin open, c \notin fresh, c \notin begun
      PROVE  Within(n, open \cup {c}, fresh \cup {c}, begun \cup {c})
  <2>1. /\ Cardinality(open \cup {c}) = Cardinality(open) + 1
        /\ Cardinality(fresh \cup {c}) = Cardinality(fresh) + 1
        /\ Cardinality(begun \cup {c}) = Cardinality(begun) + 1
    BY <1>5, Counts
  <2> QED
    BY <1>1, <2>1 DEF Within
<1> QED
  BY <1>2, <1>3, <1>4, <1>5

\* No call costs anything but by a grant.
Saving ==
    /\ Open' \in SUBSET Open
    /\ Fresh' \in SUBSET Fresh
    /\ Begun' = Begun
    /\ issued' = issued

LEMMA OtherStepsSave ==
    ASSUME TypeInv, [Next]_vars,
           \A c \in Calls : ~Start(c) /\ ~Grant(c)
    PROVE  Saving
<1> USE DEF TypeInv, TypeOK, KnownTokens, Saving, Open, Fresh, Begun
<1>1. ASSUME NEW c \in Calls, RefuseRequest(c) PROVE Saving
  BY <1>1 DEF RefuseRequest, Return
<1>3. ASSUME NEW c \in Calls, CacheHit(c) PROVE Saving
  BY <1>3 DEF CacheHit, SendGet
<1>4. ASSUME NEW c \in Calls, CacheMiss(c) PROVE Saving
  BY <1>4 DEF CacheMiss
<1>5. ASSUME NEW c \in Calls, RecheckHit(c) PROVE Saving
  BY <1>5 DEF RecheckHit, SendGet
<1>6. ASSUME NEW c \in Calls, RequestToken(c) PROVE Saving
  BY <1>6 DEF RequestToken
<1>7. ASSUME NEW c \in Calls, MissingCredentials(c) PROVE Saving
  BY <1>7 DEF MissingCredentials, RaiseLocked, Return
<1>9. ASSUME NEW c \in Calls, StoreToken(c) PROVE Saving
  BY <1>9 DEF StoreToken, SendGet
<1>10. ASSUME NEW c \in Calls,
              DenyGrant(c) \/ LoseGrant(c) \/ GrantRaises(c) \/ HandshakeTimeout(c)
       PROVE  Saving
  BY <1>10 DEF DenyGrant, LoseGrant, GrantRaises, HandshakeTimeout, RaiseLocked, Return
<1>11. ASSUME NEW c \in Calls, Answer(c) \/ Fail(c) \/ GetRaises(c) \/ GetTimeout(c)
       PROVE  Saving
  BY <1>11 DEF Answer, Fail, GetRaises, GetTimeout, Return
<1>12. ASSUME NEW c \in Calls, Unauthorized(c) PROVE Saving
  BY <1>12 DEF Unauthorized, Forced
<1>13. CASE Tick
  BY <1>13 DEF Tick
<1>14. CASE UNCHANGED vars
  BY <1>14 DEF vars
<1> QED
  BY <1>1, <1>3, <1>4, <1>5, <1>6, <1>7, <1>9, <1>10, <1>11, <1>12, <1>13, <1>14, StepCases

LEMMA BudgetInductive ==
    ASSUME IsFiniteSet(Calls)
    PROVE  TypeInv /\ Budget /\ [Next]_vars => Budget'
<1> SUFFICES ASSUME TypeInv, Budget, [Next]_vars
             PROVE  Budget'
  OBVIOUS
<1>0. /\ Len(issued) \in Nat /\ Open \in SUBSET Calls /\ Fresh \in SUBSET Calls
      /\ Begun \in SUBSET Calls /\ Within(Len(issued), Open, Fresh, Begun)
  BY DEF TypeInv, TypeOK, Open, Fresh, Begun, Budget, Within
<1>1. Within(Len(issued'), Open', Fresh', Begun') => Budget'
  BY DEF Within, Budget
<1>2. ASSUME NEW c \in Calls, Start(c) PROVE Budget'
  <2>1. c \notin Open /\ c \notin Fresh /\ c \notin Begun
    BY <1>2 DEF Start, Open, Fresh, Begun
  <2>2. Open' = Open \cup {c} /\ Begun' = Begun \cup {c} /\ issued' = issued
    BY <1>2 DEF Start, Open, Begun, TypeInv, TypeOK
  <2>3. Fresh' \in SUBSET (Fresh \cup {c})
    BY <1>2 DEF Start, Fresh, TypeInv, TypeOK
  <2>4. Within(Len(issued), Open \cup {c}, Fresh \cup {c}, Begun \cup {c})
    BY <1>0, <2>1, Spending
  <2>5. Within(Len(issued), Open \cup {c}, Fresh', Begun \cup {c})
    <3>1. /\ Open \cup {c} \in SUBSET Calls /\ Fresh \cup {c} \in SUBSET Calls
          /\ Begun \cup {c} \in SUBSET Calls
      BY <1>0
    <3> QED
      BY <1>0, <2>3, <2>4, <3>1, Spending
  <2> QED
    BY <1>1, <2>2, <2>5
<1>3. ASSUME NEW c \in Calls, Grant(c) PROVE Budget'
  <2>1. Len(issued') = Len(issued) + 1 /\ c \in Open
    BY <1>3 DEF Grant, Open, TypeInv, TypeOK
  <2>2. Begun' = Begun
    BY <1>3 DEF Grant, Begun, TypeInv, TypeOK
  <2>3. CASE rejected[c] = 0
    <3>1. c \in Fresh
      BY <1>3, <2>3 DEF Grant, Fresh
    <3>2. Open' = Open /\ Fresh' = Fresh \ {c}
      BY <1>3, <2>3 DEF Grant, Open, Fresh, TypeInv, TypeOK
    <3>3. Within(Len(issued) + 1, Open, Fresh \ {c}, Begun)
      BY <1>0, <3>1, Spending
    <3> QED
      BY <1>1, <2>1, <2>2, <3>2, <3>3
  <2>4. CASE rejected[c] # 0
    <3>1. Open' = Open \ {c} /\ Fresh' = Fresh
      BY <1>3, <2>4 DEF Grant, Open, Fresh, TypeInv, TypeOK
    <3>2. Within(Len(issued) + 1, Open \ {c}, Fresh, Begun)
      BY <1>0, <2>1, Spending
    <3> QED
      BY <1>1, <2>1, <2>2, <3>1, <3>2
  <2> QED
    BY <2>3, <2>4
<1>4. CASE \A c \in Calls : ~Start(c) /\ ~Grant(c)
  <2>1. Saving
    BY <1>4, OtherStepsSave
  <2> QED
    BY <1>0, <1>1, <2>1, Spending DEF Saving
<1> QED
  BY <1>2, <1>3, <1>4

-----------------------------------------------------------------------------
(* The refinement.                                                         *)

\* What a caller sees of a call.
View == [c \in Calls |-> CASE pc[c] = "idle" -> "idle"
                           [] pc[c] = "done" -> outcome[c]
                           [] OTHER          -> "running"]

LEMMA ViewOfBegun ==
    ASSUME TypeOK
    PROVE  {c \in Calls : View[c] \notin {"idle", "InvalidSearchRequest"}} = Begun
  BY DEF View, Begun, TypeOK, Errors

LEMMA Unnoticed ==
    ASSUME UNCHANGED <<configured, issued>>, View' = View
    PROVE  UNCHANGED Service!vars
  BY DEF Service!vars, View

\* Every step of the client is a step of SearchService or leaves its state alone.
LEMMA StepImplements ==
    ASSUME IsFiniteSet(Calls), TypeInv, Cleared, Budget, [Next]_vars
    PROVE  Service!Next \/ UNCHANGED Service!vars
<1> USE DEF TypeInv, TypeOK, KnownTokens
<1>1. ASSUME NEW c \in Calls, RefuseRequest(c) PROVE Service!Refuse(c)
  BY <1>1 DEF RefuseRequest, Return, Service!Refuse, Service!Become
<1>2. ASSUME NEW c \in Calls, Start(c) PROVE Service!Begin(c)
  BY <1>2 DEF Start, Service!Begin, Service!Become
<1>3. ASSUME NEW c \in Calls, CacheHit(c) \/ CacheMiss(c) \/ RecheckHit(c)
      PROVE  UNCHANGED Service!vars
  BY <1>3, Unnoticed DEF CacheHit, CacheMiss, RecheckHit, SendGet, View
<1>4. ASSUME NEW c \in Calls, RequestToken(c) \/ StoreToken(c) \/ Unauthorized(c)
      PROVE  UNCHANGED Service!vars
  BY <1>4, Unnoticed DEF RequestToken, StoreToken, Unauthorized, SendGet, View
<1>5. ASSUME NEW c \in Calls, MissingCredentials(c) PROVE Service!FailUnconfigured(c)
  BY <1>5 DEF MissingCredentials, RaiseLocked, Return,
              Service!FailUnconfigured, Service!Running, Service!Become
<1>6. ASSUME NEW c \in Calls, Grant(c) PROVE Service!Grant
  <2>1. c \in Open /\ configured
    BY <1>6 DEF Grant, Open, Cleared
  <2>2. Len(issued) < 2 * Cardinality(Begun)
    <3>1. /\ Len(issued) \in Nat /\ Open \in SUBSET Calls /\ Fresh \in SUBSET Calls
          /\ Begun \in SUBSET Calls /\ Within(Len(issued), Open, Fresh, Begun)
      BY DEF Open, Fresh, Begun, Budget, Within
    <3> QED
      BY <2>1, <3>1, Spending
  <2>3. Service!Begun = Begun
    BY ViewOfBegun DEF Service!Begun, View
  <2>4. Service!Cardinality(Begun) = Cardinality(Begun)
    BY DEF Service!Cardinality, Cardinality
  <2>5. Len(issued') = Len(issued) + 1
    BY <1>6 DEF Grant
  <2>6. View' = View /\ configured' = configured
    BY <1>6 DEF Grant, View
  <2>7. Service!Running(c)
    BY <1>6 DEF Grant, Service!Running
  <2> QED
    BY <2>1, <2>2, <2>3, <2>4, <2>5, <2>6, <2>7 DEF Service!Grant, View
<1>7. ASSUME NEW c \in Calls,
             DenyGrant(c) \/ LoseGrant(c) \/ HandshakeTimeout(c) \/ Fail(c) \/ GetTimeout(c)
      PROVE  Service!Fail(c)
  <2>1. configured /\ pc[c] \in {"mint", "granted", "get"}
    BY <1>7 DEF DenyGrant, LoseGrant, HandshakeTimeout, Fail, GetTimeout, Cleared
  <2>2. /\ pc' = [pc EXCEPT ![c] = "done"]
        /\ outcome' = [outcome EXCEPT ![c] = "EbayError"]
        /\ UNCHANGED <<configured, issued>>
    BY <1>7 DEF DenyGrant, LoseGrant, HandshakeTimeout, Fail, GetTimeout, RaiseLocked, Return
  <2> QED
    BY <2>1, <2>2 DEF Service!Fail, Service!Running, Service!Become
<1>11. ASSUME NEW c \in Calls, GrantRaises(c) \/ GetRaises(c) PROVE Service!Break(c)
  <2>1. configured /\ pc[c] \in {"granted", "get"}
    BY <1>11 DEF GrantRaises, GetRaises, Cleared
  <2>2. /\ pc' = [pc EXCEPT ![c] = "done"]
        /\ outcome' = [outcome EXCEPT ![c] = "UnexpectedError"]
        /\ UNCHANGED <<configured, issued>>
    BY <1>11 DEF GrantRaises, GetRaises, RaiseLocked, Return
  <2>3. Len(issued) > 0
    BY <2>1
  <2> QED
    BY <2>1, <2>2, <2>3 DEF Service!Break, Service!Running, Service!Become
<1>8. ASSUME NEW c \in Calls, Answer(c) PROVE Service!Serve(c)
  <2>1. configured /\ Len(issued) > 0
    BY <1>8 DEF Answer, Cleared
  <2> QED
    BY <1>8, <2>1 DEF Answer, Return, Service!Serve, Service!Running, Service!Become
<1>9. CASE Tick
  BY <1>9, Unnoticed DEF Tick, View
<1>10. CASE UNCHANGED vars
  BY <1>10, Unnoticed DEF vars, View
<1> QED
  BY <1>1, <1>2, <1>3, <1>4, <1>5, <1>6, <1>7, <1>8, <1>9, <1>10, <1>11, StepCases
     DEF Service!Next, Service!End

\* However finitely many searches interleave, they obtain at most two tokens each,
\* none of them reaches eBay without credentials, and each ends as SearchService says.
THEOREM ServiceImplemented ==
    ASSUME IsFiniteSet(Calls)
    PROVE  Spec => KeepsServicePromise
<1>1. Init => Cleared /\ Budget
  <2> SUFFICES ASSUME Init PROVE Cleared /\ Budget
    OBVIOUS
  <2>1. Open = {} /\ Fresh = {} /\ Begun = {} /\ issued = <<>>
    BY DEF Init, Open, Fresh, Begun
  <2>2. Cardinality({}) = 0
    BY FS_EmptySet
  <2> QED
    BY <2>1, <2>2 DEF Init, Cleared, Budget
<1>2. Init => Service!Init
  BY DEF Init, Service!Init
<1>3. TypeInv /\ Budget /\ [Next]_vars => Budget'
  BY BudgetInductive
<1>4. TypeInv /\ Cleared /\ Budget /\ [Next]_vars => [Service!Next]_(Service!vars)
  BY StepImplements
<1> QED
  BY <1>1, <1>2, <1>3, <1>4, ClearedInductive, TypeInvariance, PTL
     DEF Spec, KeepsServicePromise, Service!Spec
-----------------------------------------------------------------------------
(* How long a search takes.  What is still to come, at most, is counted in *)
(* time: LockWork for the token requests all calls may yet send, which go  *)
(* one after the other, and OwnLeft for the GETs of the call itself.  Time *)
(* passes only while one of the two shrinks for every call under way.      *)

\* The calls that may yet send a token request ...
MayRequest ==
    {c \in Calls : \/ pc[c] \in {"idle", "check", "wait"}
                   \/ pc[c] \in {"mint", "granted", "get"} /\ rejected[c] = 0}

\* ... and those that may send two.
MayRequestTwo ==
    {c \in Calls : pc[c] = "idle" \/ (pc[c] \in {"check", "wait"} /\ rejected[c] = 0)}

LockLeft == IF lock = "free" THEN 0 ELSE due[lock] - now

LockWork ==
    LockLeft + MaxLatency * (Cardinality(MayRequest) + Cardinality(MayRequestTwo))

OwnLeft(c) ==
    CASE pc[c] = "idle" -> 2 * MaxLatency
      [] pc[c] \in {"check", "wait", "mint", "granted"} ->
            IF rejected[c] = 0 THEN 2 * MaxLatency ELSE MaxLatency
      [] pc[c] = "get" -> (due[c] - now) + (IF rejected[c] = 0 THEN MaxLatency ELSE 0)
      [] OTHER -> 0

\* No request in flight is overdue by more than the step that ends it.
Timely == \A c \in Calls : InFlight(c) => now <= due[c]

InTime ==
    /\ waited \in [Calls -> Nat]
    /\ \A c \in Calls : waited[c] + OwnLeft(c) + LockWork <= SearchTimeouts * MaxLatency

\* What the steps that end a call have in common.
Ends(c) ==
    /\ pc' = [pc EXCEPT ![c] = "done"]
    /\ rejected' = [rejected EXCEPT ![c] = 0]
    /\ due' = [due EXCEPT ![c] = 0]
    /\ now' = now
    /\ (lock' = lock /\ lock # c) \/ lock' = "free"

LEMMA EndingSteps ==
    ASSUME LockHeldForHandshake, NEW c \in Calls,
           \/ RefuseRequest(c) \/ MissingCredentials(c) \/ DenyGrant(c) \/ LoseGrant(c) \/ GrantRaises(c)
           \/ HandshakeTimeout(c) \/ Answer(c) \/ Fail(c) \/ GetRaises(c) \/ GetTimeout(c)
    PROVE  Ends(c)
<1> USE DEF LockHeldForHandshake, Ends
<1>1. CASE RefuseRequest(c)
  BY <1>1 DEF RefuseRequest, Return
<1>2. CASE MissingCredentials(c) \/ DenyGrant(c) \/ LoseGrant(c) \/ GrantRaises(c) \/ HandshakeTimeout(c)
  BY <1>2 DEF MissingCredentials, DenyGrant, LoseGrant, GrantRaises, HandshakeTimeout, RaiseLocked, Return
<1>3. CASE Answer(c) \/ Fail(c) \/ GetRaises(c) \/ GetTimeout(c)
  BY <1>3 DEF Answer, Fail, GetRaises, GetTimeout, Return
<1> QED
  BY <1>1, <1>2, <1>3

LEMMA TimelyInductive == TypeInv /\ LockHeldForHandshake /\ Timely /\ [Next]_vars => Timely'
<1> SUFFICES ASSUME TypeInv, LockHeldForHandshake, Timely, [Next]_vars PROVE Timely'
  OBVIOUS
<1> USE MaxLatencyAssumption DEF TypeInv, TypeOK, Timely, InFlight
<1>1. ASSUME NEW c \in Calls, Ends(c) PROVE Timely'
  BY <1>1 DEF Ends
<1>2. ASSUME NEW c \in Calls, Start(c) PROVE Timely'
  BY <1>2 DEF Start
<1>3. ASSUME NEW c \in Calls, CacheHit(c) PROVE Timely'
  BY <1>3 DEF CacheHit, SendGet
<1>4. ASSUME NEW c \in Calls, CacheMiss(c) PROVE Timely'
  BY <1>4 DEF CacheMiss
<1>5. ASSUME NEW c \in Calls, RecheckHit(c) PROVE Timely'
  BY <1>5 DEF RecheckHit, SendGet
<1>6. ASSUME NEW c \in Calls, RequestToken(c) PROVE Timely'
  BY <1>6 DEF RequestToken
<1>7. ASSUME NEW c \in Calls, Grant(c) PROVE Timely'
  BY <1>7 DEF Grant
<1>8. ASSUME NEW c \in Calls, StoreToken(c) PROVE Timely'
  BY <1>8 DEF StoreToken, SendGet
<1>9. ASSUME NEW c \in Calls, Unauthorized(c) PROVE Timely'
  BY <1>9 DEF Unauthorized
<1>10. CASE Tick
  BY <1>10 DEF Tick, Urgent
<1>11. CASE UNCHANGED vars
  BY <1>11 DEF vars
<1> QED
  BY <1>1, <1>2, <1>3, <1>4, <1>5, <1>6, <1>7, <1>8, <1>9, <1>10, <1>11,
     StepCases, EndingSteps

LEMMA TimesLeft ==
    TypeInv /\ Timely /\ LockHeldForHandshake =>
        LockLeft \in Nat /\ \A c \in Calls : OwnLeft(c) \in Nat
<1> SUFFICES ASSUME TypeInv, Timely, LockHeldForHandshake
             PROVE  LockLeft \in Nat /\ \A c \in Calls : OwnLeft(c) \in Nat
  OBVIOUS
<1> USE MaxLatencyAssumption DEF TypeInv, TypeOK, Timely, InFlight, LockHeldForHandshake
<1>1. LockLeft \in Nat
  <2>1. CASE lock = "free"
    BY <2>1 DEF LockLeft
  <2>2. CASE lock # "free"
    <3>1. lock \in Calls /\ pc[lock] \in {"mint", "granted"}
      BY <2>2
    <3> QED
      BY <2>2, <3>1 DEF LockLeft
  <2> QED
    BY <2>1, <2>2
<1>2. ASSUME NEW c \in Calls PROVE OwnLeft(c) \in Nat
  <2>1. due[c] \in Nat /\ now \in Nat /\ (pc[c] = "get" => due[c] - now \in Nat)
    OBVIOUS
  <2> QED
    BY <2>1 DEF OwnLeft
<1> QED
  BY <1>1, <1>2
\* A step that leaves every call with no more to come than it had.
Saves ==
    /\ now' = now
    /\ MayRequest' \in SUBSET MayRequest
    /\ MayRequestTwo' \in SUBSET MayRequestTwo
    /\ LockLeft' <= LockLeft
    /\ \A c \in Calls : OwnLeft(c)' <= OwnLeft(c)

\* Every step does, but those in which time passes or a token request leaves.
LEMMA CallStepsSave ==
    ASSUME TypeInv, LockHeldForHandshake, Timely, [Next]_vars,
           ~Tick, \A c \in Calls : ~RequestToken(c)
    PROVE  Saves
<1>0. LockLeft \in Nat /\ \A c \in Calls : OwnLeft(c) \in Nat
  BY TimesLeft
<1> USE FreeAssumption, MaxLatencyAssumption
        DEF TypeInv, TypeOK, KnownTokens, LockHeldForHandshake, Timely, InFlight,
            Saves, MayRequest, MayRequestTwo
<1>1. ASSUME NEW c \in Calls, Ends(c) PROVE Saves
  <2>1. LockLeft' <= LockLeft
    BY <1>0, <1>1 DEF Ends, LockLeft
  <2>2. ASSUME NEW d \in Calls PROVE OwnLeft(d)' <= OwnLeft(d)
    BY <1>0, <1>1 DEF Ends, OwnLeft
  <2> QED
    BY <1>1, <2>1, <2>2 DEF Ends
<1>2. ASSUME NEW c \in Calls, Start(c) \/ CacheMiss(c) \/ Grant(c) PROVE Saves
  <2>1. LockLeft' <= LockLeft
    BY <1>0, <1>2 DEF Start, CacheMiss, Grant, LockLeft
  <2>2. ASSUME NEW d \in Calls PROVE OwnLeft(d)' <= OwnLeft(d)
    BY <1>0, <1>2 DEF Start, CacheMiss, Grant, OwnLeft
  <2> QED
    BY <1>2, <2>1, <2>2 DEF Start, CacheMiss, Grant
<1>3. ASSUME NEW c \in Calls, CacheHit(c) \/ RecheckHit(c) PROVE Saves
  <2>1. LockLeft' <= LockLeft
    BY <1>0, <1>3 DEF CacheHit, RecheckHit, SendGet, LockLeft
  <2>2. ASSUME NEW d \in Calls PROVE OwnLeft(d)' <= OwnLeft(d)
    <3>1. CASE d = c
      <4>1. pc'[c] = "get" /\ due'[c] - now' = MaxLatency /\ rejected'[c] = rejected[c]
        BY <1>3 DEF CacheHit, RecheckHit, SendGet
      <4>2. pc[c] \in {"check", "wait"}
        BY <1>3 DEF CacheHit, RecheckHit
      <4> QED
        BY <3>1, <4>1, <4>2 DEF OwnLeft
    <3>2. CASE d # c
      <4>1. pc'[d] = pc[d] /\ due'[d] = due[d] /\ rejected'[d] = rejected[d] /\ now' = now
        BY <1>3, <3>2 DEF CacheHit, RecheckHit, SendGet
      <4> QED
        BY <1>0, <4>1 DEF OwnLeft
    <3> QED
      BY <3>1, <3>2
  <2> QED
    BY <1>3, <2>1, <2>2 DEF CacheHit, RecheckHit, SendGet
<1>4. ASSUME NEW c \in Calls, StoreToken(c) PROVE Saves
  <2>1. LockLeft' <= LockLeft
    BY <1>0, <1>4 DEF StoreToken, LockLeft
  <2>2. ASSUME NEW d \in Calls PROVE OwnLeft(d)' <= OwnLeft(d)
    BY <1>0, <1>4 DEF StoreToken, SendGet, OwnLeft
  <2> QED
    BY <1>4, <2>1, <2>2 DEF StoreToken, SendGet
<1>5. ASSUME NEW c \in Calls, Unauthorized(c) PROVE Saves
  <2>1. LockLeft' <= LockLeft
    BY <1>0, <1>5 DEF Unauthorized, LockLeft
  <2>2. ASSUME NEW d \in Calls PROVE OwnLeft(d)' <= OwnLeft(d)
    BY <1>0, <1>5 DEF Unauthorized, Forced, OwnLeft
  <2> QED
    BY <1>5, <2>1, <2>2 DEF Unauthorized, Forced
<1>6. CASE UNCHANGED vars
  BY <1>0, <1>6 DEF vars, LockLeft, OwnLeft
<1> QED
  BY <1>1, <1>2, <1>3, <1>4, <1>5, <1>6, StepCases, EndingSteps
\* A token request spends one of those that were to come, and takes its time.
LEMMA RequestSpends ==
    ASSUME TypeInv, LockHeldForHandshake, NEW c \in Calls, RequestToken(c)
    PROVE  /\ now' = now /\ LockLeft = 0 /\ LockLeft' = MaxLatency
           /\ \A d \in Calls : OwnLeft(d)' = OwnLeft(d)
           /\ \/ /\ c \in MayRequestTwo
                 /\ MayRequestTwo' = MayRequestTwo \ {c} /\ MayRequest' = MayRequest
              \/ /\ c \in MayRequest
                 /\ MayRequest' = MayRequest \ {c} /\ MayRequestTwo' = MayRequestTwo
<1> USE FreeAssumption, MaxLatencyAssumption DEF TypeInv, TypeOK, RequestToken
<1>1. now' = now /\ LockLeft = 0 /\ LockLeft' = MaxLatency
  BY DEF LockLeft
<1>2. ASSUME NEW d \in Calls PROVE OwnLeft(d)' = OwnLeft(d)
  BY DEF OwnLeft
<1>3. CASE rejected[c] = 0
  BY <1>1, <1>2, <1>3 DEF MayRequest, MayRequestTwo
<1>4. CASE rejected[c] # 0
  BY <1>1, <1>2, <1>4 DEF MayRequest, MayRequestTwo
<1> QED
  BY <1>3, <1>4

\* When time passes, a call under way waits for the call that holds the lock, is that
\* call, or has a GET in flight.
LEMMA TimeIsSpent ==
    ASSUME TypeInv, LockHeldForHandshake, Timely, Tick
    PROVE  /\ now' = now + 1
           /\ MayRequest' = MayRequest /\ MayRequestTwo' = MayRequestTwo
           /\ \A c \in Calls : UnderWay(c) =>
                 OwnLeft(c)' + LockLeft' <= OwnLeft(c) + LockLeft - 1
           /\ \A c \in Calls : ~UnderWay(c) =>
                 OwnLeft(c)' + LockLeft' <= OwnLeft(c) + LockLeft
<1>0. LockLeft \in Nat /\ \A c \in Calls : OwnLeft(c) \in Nat
  BY TimesLeft
<1> USE FreeAssumption, MaxLatencyAssumption DEF TypeInv, TypeOK, Tick
<1>1. now' = now + 1 /\ MayRequest' = MayRequest /\ MayRequestTwo' = MayRequestTwo
  BY DEF MayRequest, MayRequestTwo
<1>2. LockLeft' = IF lock = "free" THEN LockLeft ELSE LockLeft - 1
  <2>1. CASE lock = "free"
    BY <2>1 DEF LockLeft
  <2>2. CASE lock # "free"
    <3>1. due[lock] \in Nat
      BY <2>2
    <3> QED
      BY <2>2, <3>1 DEF LockLeft
  <2> QED
    BY <2>1, <2>2
<1>3. ASSUME NEW c \in Calls
      PROVE  OwnLeft(c)' = IF pc[c] = "get" THEN OwnLeft(c) - 1 ELSE OwnLeft(c)
  <2>1. due[c] \in Nat /\ due' = due /\ pc' = pc /\ rejected' = rejected
    OBVIOUS
  <2>2. CASE pc[c] = "get"
    BY <2>1, <2>2 DEF OwnLeft
  <2>3. CASE pc[c] # "get"
    BY <2>1, <2>3 DEF OwnLeft
  <2> QED
    BY <2>2, <2>3
<1>4. ASSUME NEW c \in Calls, UnderWay(c), pc[c] # "get" PROVE lock # "free"
  BY <1>4 DEF UnderWay, Urgent, LockHeldForHandshake
<1>5. ASSUME NEW c \in Calls, UnderWay(c)
      PROVE  OwnLeft(c)' + LockLeft' <= OwnLeft(c) + LockLeft - 1
  <2>1. OwnLeft(c) \in Nat /\ LockLeft \in Nat
    BY <1>0
  <2> HIDE DEF TypeInv, Tick
  <2> QED
    BY <2>1, <1>2, <1>3, <1>4, <1>5
<1>6. ASSUME NEW c \in Calls, ~UnderWay(c)
      PROVE  OwnLeft(c)' + LockLeft' <= OwnLeft(c) + LockLeft
  <2>1. OwnLeft(c) \in Nat /\ LockLeft \in Nat /\ pc[c] # "get"
    BY <1>0, <1>6 DEF UnderWay
  <2> HIDE DEF TypeInv, Tick
  <2> QED
    BY <2>1, <1>2, <1>3
<1> QED
  BY <1>1, <1>5, <1>6

LEMMA Product ==
    ASSUME NEW m \in Nat, NEW n \in Nat, n <= m
    PROVE  /\ MaxLatency * n \in Nat /\ MaxLatency * n <= MaxLatency * m
           /\ MaxLatency * (m + 1) = MaxLatency * m + MaxLatency
<1>1. MaxLatency \in Nat
  BY MaxLatencyAssumption
<1>2. PICK d \in Nat : m = n + d
  <2>1. m - n \in Nat /\ m = n + (m - n)
    OBVIOUS
  <2> QED
    BY <2>1
<1>3. MaxLatency * d \in Nat /\ MaxLatency * n \in Nat
  BY <1>1
<1>4. MaxLatency * m = MaxLatency * n + MaxLatency * d
  BY <1>1, <1>2
<1> QED
  BY <1>1, <1>3, <1>4

Requests == Cardinality(MayRequest) + Cardinality(MayRequestTwo)

LEMMA RequestsCounted ==
    ASSUME IsFiniteSet(Calls)
    PROVE  Requests \in Nat /\ Cardinality(Calls) \in Nat
  BY Counts DEF Requests, MayRequest, MayRequestTwo

\* No step but Tick leaves more to come than there was.
LEMMA WorkShrinks ==
    ASSUME IsFiniteSet(Calls), TypeInv, TypeInv', LockHeldForHandshake, LockHeldForHandshake',
           Timely, Timely', [Next]_vars, ~Tick
    PROVE  /\ now' = now /\ LockWork' <= LockWork
           /\ \A c \in Calls : OwnLeft(c)' <= OwnLeft(c)
<1>0. /\ MayRequest \in SUBSET Calls /\ MayRequestTwo \in SUBSET Calls
      /\ MayRequest' \in SUBSET Calls /\ MayRequestTwo' \in SUBSET Calls
  BY DEF MayRequest, MayRequestTwo
<1>1. /\ Cardinality(MayRequest) \in Nat /\ Cardinality(MayRequestTwo) \in Nat
      /\ Cardinality(MayRequest') \in Nat /\ Cardinality(MayRequestTwo') \in Nat
  BY <1>0, Counts
<1>2. Requests \in Nat /\ Requests' \in Nat
  BY <1>1 DEF Requests
<1>3. LockLeft \in Nat /\ LockLeft' \in Nat /\ \A c \in Calls : OwnLeft(c) \in Nat
  <2>1. LockLeft \in Nat /\ \A c \in Calls : OwnLeft(c) \in Nat
    BY TimesLeft
  <2>2. (LockLeft \in Nat /\ \A c \in Calls : OwnLeft(c) \in Nat)'
    BY TimesLeft, PTL
  <2> QED
    BY <2>1, <2>2
<1>4. CASE \A c \in Calls : ~RequestToken(c)
  <2>1. Saves
    BY <1>4, CallStepsSave
  <2>2. /\ Cardinality(MayRequest') <= Cardinality(MayRequest)
        /\ Cardinality(MayRequestTwo') <= Cardinality(MayRequestTwo)
    BY <1>0, <2>1, Counts DEF Saves
  <2>3. Requests' <= Requests
    BY <1>1, <2>2 DEF Requests
  <2>4. /\ MaxLatency * Requests' \in Nat /\ MaxLatency * Requests \in Nat
        /\ MaxLatency * Requests' <= MaxLatency * Requests
    BY <1>2, <2>3, Product
  <2>5. LockLeft' + MaxLatency * Requests' <= LockLeft + MaxLatency * Requests
    BY <1>3, <2>1, <2>4 DEF Saves
  <2> QED
    BY <2>1, <2>5 DEF Saves, LockWork, Requests
<1>5. ASSUME NEW c \in Calls, RequestToken(c)
      PROVE  /\ now' = now /\ LockWork' <= LockWork
             /\ \A d \in Calls : OwnLeft(d)' <= OwnLeft(d)
  <2>1. /\ now' = now /\ LockLeft = 0 /\ LockLeft' = MaxLatency
        /\ \A d \in Calls : OwnLeft(d)' = OwnLeft(d)
    BY <1>5, RequestSpends
  <2>2. Requests = Requests' + 1
    <3>1. \/ /\ c \in MayRequestTwo
             /\ MayRequestTwo' = MayRequestTwo \ {c} /\ MayRequest' = MayRequest
          \/ /\ c \in MayRequest
             /\ MayRequest' = MayRequest \ {c} /\ MayRequestTwo' = MayRequestTwo
      BY <1>5, RequestSpends
    <3>2. CASE c \in MayRequestTwo /\ MayRequestTwo' = MayRequestTwo \ {c} /\ MayRequest' = MayRequest
      <4>1. Cardinality(MayRequestTwo') = Cardinality(MayRequestTwo) - 1
        BY <1>0, <3>2, Counts
      <4> QED
        BY <1>1, <3>2, <4>1 DEF Requests
    <3>3. CASE c \in MayRequest /\ MayRequest' = MayRequest \ {c} /\ MayRequestTwo' = MayRequestTwo
      <4>1. Cardinality(MayRequest') = Cardinality(MayRequest) - 1
        BY <1>0, <3>3, Counts
      <4> QED
        BY <1>1, <3>3, <4>1 DEF Requests
    <3> QED
      BY <3>1, <3>2, <3>3
  <2>3. MaxLatency * Requests = MaxLatency * Requests' + MaxLatency /\ MaxLatency * Requests' \in Nat
    BY <1>2, <2>2, Product
  <2>4. LockLeft' + MaxLatency * Requests' <= LockLeft + MaxLatency * Requests
    BY <2>1, <2>3, MaxLatencyAssumption
  <2> QED
    BY <1>3, <2>1, <2>4 DEF LockWork, Requests
<1> QED
  BY <1>4, <1>5
LEMMA Sums ==
    ASSUME NEW w \in Nat, NEW own \in Nat, NEW left \in Nat, NEW work \in Nat,
           NEW own1 \in Nat, NEW left1 \in Nat, NEW work1 \in Nat,
           work1 - left1 = work - left
    PROVE  /\ own1 + left1 <= own + left - 1 => w + 1 + own1 + work1 <= w + own + work
           /\ own1 + left1 <= own + left => own1 + work1 <= w + own + work
  OBVIOUS

Steady == TypeInv /\ LockHeldForHandshake /\ Timely

LEMMA InTimeInductive ==
    ASSUME IsFiniteSet(Calls)
    PROVE  Steady /\ Steady' /\ InTime /\ [TimedNext]_timedVars => InTime'
<1> SUFFICES ASSUME Steady, Steady', InTime, [TimedNext]_timedVars
             PROVE  InTime'
  OBVIOUS
<1>0. /\ TypeInv /\ TypeInv' /\ LockHeldForHandshake /\ LockHeldForHandshake'
      /\ Timely /\ Timely' /\ [Next]_vars
  BY DEF Steady, TimedNext, timedVars
<1>1. now \in Nat /\ waited \in [Calls -> Nat] /\ SearchTimeouts * MaxLatency \in Int
  <2>1. SearchTimeouts \in Nat
    BY RequestsCounted DEF SearchTimeouts
  <2> QED
    BY <1>0, <2>1, MaxLatencyAssumption DEF InTime, TypeInv, TypeOK
<1>2. /\ LockLeft \in Nat /\ LockWork \in Nat /\ LockLeft' \in Nat /\ LockWork' \in Nat
      /\ \A c \in Calls : OwnLeft(c) \in Nat /\ OwnLeft(c)' \in Nat
  <2>1. LockLeft \in Nat /\ \A c \in Calls : OwnLeft(c) \in Nat
    BY <1>0, TimesLeft
  <2>2. (LockLeft \in Nat /\ \A c \in Calls : OwnLeft(c) \in Nat)'
    BY <1>0, TimesLeft, PTL
  <2>3. Requests \in Nat /\ Requests' \in Nat
    BY Counts DEF Requests, MayRequest, MayRequestTwo
  <2>4. MaxLatency * Requests \in Nat /\ MaxLatency * Requests' \in Nat
    <3>1. \A n \in Nat : MaxLatency * n \in Nat
      BY MaxLatencyAssumption
    <3> QED
      BY <2>3, <3>1
  <2> QED
    BY <2>1, <2>2, <2>4 DEF LockWork, Requests
<1>3. CASE UNCHANGED timedVars
  BY <1>3 DEF timedVars, vars, InTime, OwnLeft, LockWork, LockLeft, MayRequest, MayRequestTwo
<1>4. CASE TimedNext
  <2>1. waited' = [c \in Calls |->
                       IF UnderWay(c) /\ UnderWay(c)' THEN waited[c] + (now' - now) ELSE 0]
    BY <1>4 DEF TimedNext
  <2>2. \A c \in Calls :
           /\ waited'[c] \in Nat
           /\ waited'[c] + OwnLeft(c)' + LockWork' <= waited[c] + OwnLeft(c) + LockWork
    <3> TAKE c \in Calls
    <3>1. waited'[c] = IF UnderWay(c) /\ UnderWay(c)' THEN waited[c] + (now' - now) ELSE 0
      BY <2>1
    <3>2. waited[c] \in Nat /\ OwnLeft(c) \in Nat /\ OwnLeft(c)' \in Nat
      BY <1>1, <1>2
    <3>5. /\ LockLeft \in Nat /\ LockLeft' \in Nat /\ LockWork \in Nat /\ LockWork' \in Nat
          /\ waited[c] + 1 \in Nat
      BY <1>2, <3>2
    <3>3. CASE ~Tick
      <4>1. now' = now /\ LockWork' <= LockWork /\ OwnLeft(c)' <= OwnLeft(c)
        BY <1>0, <3>3, WorkShrinks
      <4>2. waited'[c] \in Nat /\ waited'[c] <= waited[c]
        BY <1>1, <3>1, <3>2, <4>1
      <4> QED
        BY <1>2, <3>2, <4>1, <4>2
    <3>4. CASE Tick
      <4>1. /\ now' = now + 1
            /\ MayRequest' = MayRequest /\ MayRequestTwo' = MayRequestTwo
        BY <1>0, <3>4, TimeIsSpent
      <4>2. /\ UnderWay(c) => OwnLeft(c)' + LockLeft' <= OwnLeft(c) + LockLeft - 1
            /\ ~UnderWay(c) => OwnLeft(c)' + LockLeft' <= OwnLeft(c) + LockLeft
        BY <1>0, <3>4, TimeIsSpent
      <4>3. LockWork' - LockLeft' = LockWork - LockLeft
        <5>1. MaxLatency * Requests \in Nat
          BY RequestsCounted, MaxLatencyAssumption
        <5>2. LockWork = LockLeft + MaxLatency * Requests
          BY DEF LockWork, Requests
        <5>3. LockWork' = LockLeft' + MaxLatency * Requests
          BY <4>1 DEF LockWork, Requests
        <5> QED
          BY <1>2, <5>1, <5>2, <5>3
      <4>4. now' - now = 1
        BY <1>1, <4>1
      <4>5. CASE UnderWay(c)
        <5>0. UnderWay(c)'
          BY <3>4, <4>5 DEF Tick, UnderWay
        <5>1. waited'[c] = waited[c] + 1
          BY <3>1, <4>4, <4>5, <5>0
        <5>2. OwnLeft(c)' + LockLeft' <= OwnLeft(c) + LockLeft - 1
          BY <4>2, <4>5
        <5> QED
          BY <3>2, <3>5, <4>3, <5>1, <5>2, Sums
      <4>6. CASE ~UnderWay(c)
        <5>1. waited'[c] = 0
          BY <3>1, <4>6
        <5>2. OwnLeft(c)' + LockLeft' <= OwnLeft(c) + LockLeft
          BY <4>2, <4>6
        <5>3. OwnLeft(c)' + LockWork' <= waited[c] + OwnLeft(c) + LockWork
          BY <3>2, <3>5, <4>3, <5>2, Sums
        <5> QED
          BY <3>2, <3>5, <5>1, <5>3
      <4> QED
        BY <4>5, <4>6
    <3> QED
      BY <3>3, <3>4
  <2>3. waited' \in [Calls -> Nat]
    BY <2>1, <2>2
  <2>4. \A c \in Calls : waited'[c] + OwnLeft(c)' + LockWork' <= SearchTimeouts * MaxLatency
    <3> TAKE c \in Calls
    <3>1. waited[c] \in Nat /\ OwnLeft(c) \in Nat /\ OwnLeft(c)' \in Nat /\ waited'[c] \in Nat
      BY <1>1, <1>2, <2>2
    <3>2. waited[c] + OwnLeft(c) + LockWork <= SearchTimeouts * MaxLatency
      BY DEF InTime
    <3>3. waited'[c] + OwnLeft(c)' + LockWork' <= waited[c] + OwnLeft(c) + LockWork
      BY <2>2
    <3> HIDE DEF InTime
    <3> QED
      BY <1>1, <1>2, <3>1, <3>2, <3>3
  <2>5. SearchTimeouts' * MaxLatency = SearchTimeouts * MaxLatency
    BY DEF SearchTimeouts
  <2> QED
    BY <2>3, <2>4, <2>5 DEF InTime
<1> QED
  BY <1>3, <1>4

\* Every search ends within 2n + 2 request timeouts of its start, for any number n of
\* concurrent searches, any leeway and timeout and any lifetimes of tokens: no call is
\* kept for ever by the lock, which the other calls can take at most twice each before it.
THEOREM TimesCorrect ==
    ASSUME IsFiniteSet(Calls)
    PROVE  TimedSpec => []EverySearchEndsInTime
<1>1. TimedSpec => Spec
  <2>1. TimedInit => Init
    BY DEF TimedInit
  <2>2. [TimedNext]_timedVars => [Next]_vars
    BY DEF TimedNext, timedVars
  <2> QED
    BY <2>1, <2>2, PTL DEF TimedSpec, Spec
<1>2. Init => Timely
  BY DEF Init, Timely, InFlight
<1>3. Spec => []Steady
  BY <1>2, TypeInvariance, LockCorrect, TimelyInductive, PTL DEF Spec, Steady
<1>4. TimedInit => InTime
  <2> SUFFICES ASSUME TimedInit PROVE InTime
    OBVIOUS
  <2> DEFINE n == Cardinality(Calls)
  <2>1. n \in Nat /\ MaxLatency \in Nat
    BY RequestsCounted, MaxLatencyAssumption
  <2>2. MayRequest = Calls /\ MayRequestTwo = Calls /\ LockLeft = 0
    BY DEF TimedInit, Init, MayRequest, MayRequestTwo, LockLeft
  <2>3. LockWork = MaxLatency * (n + n)
    <3>1. LockWork = 0 + MaxLatency * (n + n)
      BY <2>2 DEF LockWork
    <3> HIDE DEF n
    <3> QED
      BY <2>1, <3>1
  <2>4. \A c \in Calls : waited[c] = 0 /\ OwnLeft(c) = 2 * MaxLatency
    BY DEF TimedInit, Init, OwnLeft
  <2>5. 0 + 2 * MaxLatency + MaxLatency * (n + n) <= (2 * n + 2) * MaxLatency
    <3> HIDE DEF n
    <3> QED
      BY <2>1
  <2>6. waited \in [Calls -> Nat]
    BY DEF TimedInit
  <2> QED
    BY <2>3, <2>4, <2>5, <2>6 DEF InTime, SearchTimeouts
<1>5. Steady /\ Steady' /\ InTime /\ [TimedNext]_timedVars => InTime'
  BY InTimeInductive
<1>6. Steady /\ InTime => EverySearchEndsInTime
  <2> SUFFICES ASSUME Steady, InTime, NEW c \in Calls
               PROVE  waited[c] <= SearchTimeouts * MaxLatency
    BY DEF EverySearchEndsInTime
  <2>1. LockLeft \in Nat /\ OwnLeft(c) \in Nat
    BY TimesLeft DEF Steady
  <2>2. MaxLatency * Requests \in Nat
    BY RequestsCounted, MaxLatencyAssumption
  <2>3. LockWork \in Nat
    BY <2>1, <2>2 DEF LockWork, Requests
  <2>4. /\ waited[c] \in Nat /\ SearchTimeouts * MaxLatency \in Int
        /\ waited[c] + OwnLeft(c) + LockWork <= SearchTimeouts * MaxLatency
    BY RequestsCounted, MaxLatencyAssumption DEF InTime, SearchTimeouts
  <2> QED
    BY <2>1, <2>3, <2>4
<1> QED
  BY <1>1, <1>3, <1>4, <1>5, <1>6, PTL DEF TimedSpec
=============================================================================
