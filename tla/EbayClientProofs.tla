--------------------------- MODULE EbayClientProofs ---------------------------
(***************************************************************************)
(* Theorems about EbayClient, for any set of calls, any leeway, latency    *)
(* and token lifetimes.                                                    *)
(***************************************************************************)
EXTENDS EbayClient, TLAPS

(* What a step of Next is, by cases: used by every step proof below.       *)
LEMMA StepCases ==
    ASSUME [Next]_vars
    PROVE  \/ \E c \in Calls : RefuseRequest(c)
           \/ \E c \in Calls : Start(c)
           \/ \E c \in Calls : CacheHit(c)
           \/ \E c \in Calls : CacheMiss(c)
           \/ \E c \in Calls : RecheckHit(c)
           \/ \E c \in Calls : RequestToken(c)
           \/ \E c \in Calls : MissingCredentials(c)
           \/ \E c \in Calls : Grant(c)
           \/ \E c \in Calls : StoreToken(c)
           \/ \E c \in Calls : DenyGrant(c)
           \/ \E c \in Calls : LoseGrant(c)
           \/ \E c \in Calls : GrantRaises(c)
           \/ \E c \in Calls : HandshakeTimeout(c)
           \/ \E c \in Calls : Answer(c)
           \/ \E c \in Calls : Fail(c)
           \/ \E c \in Calls : GetRaises(c)
           \/ \E c \in Calls : Unauthorized(c)
           \/ \E c \in Calls : GetTimeout(c)
           \/ Tick
           \/ UNCHANGED vars
  BY DEF Next, CallStep, Handshake, Finished

-----------------------------------------------------------------------------
(* Type correctness.  Every token a call or the cache refers to was granted *)
(* by eBay, which the type of the stored deadline depends on.               *)

KnownTokens ==
    /\ token.id <= Len(issued)
    /\ token.id = 0 => token.expiresAt = 0
    /\ \A c \in Calls :
          /\ held[c] <= Len(issued)
          /\ rejected[c] <= Len(issued)
          /\ pc[c] \in {"granted", "get"} => held[c] # 0

TypeInv == TypeOK /\ KnownTokens

LEMMA TypeInvInductive == TypeInv /\ [Next]_vars => TypeInv'
<1> SUFFICES ASSUME TypeInv, [Next]_vars PROVE TypeInv'
  OBVIOUS
<1> USE LeewayAssumption, MaxLatencyAssumption, DefaultLifeAssumption,
        LifetimesAssumption DEF TypeInv, TypeOK, KnownTokens
<1>1. ASSUME NEW c \in Calls, RefuseRequest(c) PROVE TypeInv'
  BY <1>1 DEF RefuseRequest, Return, Errors
<1>2. ASSUME NEW c \in Calls, Start(c) PROVE TypeInv'
  BY <1>2 DEF Start
<1>3. ASSUME NEW c \in Calls, CacheHit(c) PROVE TypeInv'
  <2>1. token.id # 0
    BY <1>3 DEF CacheHit, IsValid
  <2> QED
    BY <1>3, <2>1 DEF CacheHit, SendGet
<1>17. ASSUME NEW c \in Calls, CacheMiss(c) PROVE TypeInv'
  BY <1>17 DEF CacheMiss
<1>4. ASSUME NEW c \in Calls, RecheckHit(c) PROVE TypeInv'
  <2>1. token.id # 0
    BY <1>4 DEF RecheckHit, IsValid
  <2> QED
    BY <1>4, <2>1 DEF RecheckHit, SendGet
<1>5. ASSUME NEW c \in Calls, RequestToken(c) PROVE TypeInv'
  BY <1>5 DEF RequestToken
<1>6. ASSUME NEW c \in Calls, MissingCredentials(c) PROVE TypeInv'
  BY <1>6 DEF MissingCredentials, RaiseLocked, Return, Errors
<1>7. ASSUME NEW c \in Calls, Grant(c) PROVE TypeInv'
  <2>1. PICK life \in Lifetimes, stated \in BOOLEAN :
           issued' = Append(issued, [at |-> now, life |-> life,
                               claimed |-> IF stated THEN life ELSE DefaultLife])
    BY <1>7 DEF Grant
  <2>2. [at |-> now, life |-> life,
         claimed |-> IF stated THEN life ELSE DefaultLife] \in Token
    BY DEF Token
  <2>3. issued' \in Seq(Token) /\ Len(issued') = Len(issued) + 1
    BY <2>1, <2>2
  <2> QED
    BY <1>7, <2>3 DEF Grant
<1>8. ASSUME NEW c \in Calls, StoreToken(c) PROVE TypeInv'
  <2>1. issued[held[c]] \in Token
    BY <1>8 DEF StoreToken
  <2>2. StoredExpiry(held[c]) \in Nat
    <3>1. issued[held[c]].claimed \in Nat
      BY <2>1 DEF Token
    <3>2. CASE issued[held[c]].claimed > Leeway
      BY <3>1, <3>2 DEF StoredExpiry
    <3>3. CASE ~(issued[held[c]].claimed > Leeway)
      BY <3>1, <3>3 DEF StoredExpiry
    <3> QED
      BY <3>2, <3>3
  <2>3. token' = [id |-> held[c], expiresAt |-> StoredExpiry(held[c])]
    BY <1>8 DEF StoreToken
  <2>4. token' \in [id : Nat, expiresAt : Nat] /\ token'.id = held[c]
    BY <2>2, <2>3
  <2> QED
    BY <1>8, <2>4 DEF StoreToken, SendGet
<1>9. ASSUME NEW c \in Calls, DenyGrant(c) PROVE TypeInv'
  BY <1>9 DEF DenyGrant, RaiseLocked, Return, Errors
<1>10. ASSUME NEW c \in Calls, LoseGrant(c) \/ GrantRaises(c) PROVE TypeInv'
  <2>1. CASE LoseGrant(c)
    BY <2>1 DEF LoseGrant, RaiseLocked, Return, Errors
  <2>2. CASE GrantRaises(c)
    BY <2>2 DEF GrantRaises, RaiseLocked, Return, Errors
  <2> QED
    BY <1>10, <2>1, <2>2
<1>11. ASSUME NEW c \in Calls, HandshakeTimeout(c) PROVE TypeInv'
  BY <1>11 DEF HandshakeTimeout, RaiseLocked, Return, Errors
<1>12. ASSUME NEW c \in Calls, Answer(c) PROVE TypeInv'
  BY <1>12 DEF Answer, Return, Errors
<1>18. ASSUME NEW c \in Calls, Fail(c) \/ GetRaises(c) PROVE TypeInv'
  <2>1. CASE Fail(c)
    BY <2>1 DEF Fail, Return, Errors
  <2>2. CASE GetRaises(c)
    BY <2>2 DEF GetRaises, Return, Errors
  <2> QED
    BY <1>18, <2>1, <2>2
<1>13. ASSUME NEW c \in Calls, Unauthorized(c) PROVE TypeInv'
  BY <1>13 DEF Unauthorized
<1>14. ASSUME NEW c \in Calls, GetTimeout(c) PROVE TypeInv'
  BY <1>14 DEF GetTimeout, Return, Errors
<1>15. CASE Tick
  BY <1>15 DEF Tick
<1>16. CASE UNCHANGED vars
  BY <1>16 DEF vars
<1> QED
  BY <1>1, <1>2, <1>3, <1>4, <1>5, <1>6, <1>7, <1>8, <1>9, <1>10, <1>11, <1>12,
     <1>13, <1>14, <1>15, <1>16, <1>17, <1>18, StepCases

LEMMA TypeInvariance == Spec => []TypeInv
<1>1. Init => TypeInv
  BY DEF Init, TypeInv, TypeOK, KnownTokens, NoToken, Errors
<1> QED
  BY <1>1, TypeInvInductive, PTL DEF Spec

\* The variables of the client, of eBay and of the calls keep their types: in
\* particular the stored deadline is a natural number, for a lifetime shorter
\* than the leeway too.
THEOREM TypeCorrect == Spec => []TypeOK
<1>1. TypeInv => TypeOK
  BY DEF TypeInv
<1> QED
  BY <1>1, TypeInvariance, PTL
-----------------------------------------------------------------------------
(* The lock.                                                               *)

LEMMA LockInductive ==
    TypeInv /\ LockHeldForHandshake /\ [Next]_vars => LockHeldForHandshake'
<1> SUFFICES ASSUME TypeInv, LockHeldForHandshake, [Next]_vars
             PROVE  LockHeldForHandshake'
  OBVIOUS
<1> USE FreeAssumption DEF TypeInv, TypeOK, LockHeldForHandshake
<1>1. ASSUME NEW c \in Calls, RefuseRequest(c) PROVE LockHeldForHandshake'
  BY <1>1 DEF RefuseRequest, Return
<1>2. ASSUME NEW c \in Calls, Start(c) PROVE LockHeldForHandshake'
  BY <1>2 DEF Start
<1>3. ASSUME NEW c \in Calls, CacheHit(c) PROVE LockHeldForHandshake'
  BY <1>3 DEF CacheHit, SendGet
<1>4. ASSUME NEW c \in Calls, CacheMiss(c) PROVE LockHeldForHandshake'
  BY <1>4 DEF CacheMiss
<1>5. ASSUME NEW c \in Calls, RecheckHit(c) PROVE LockHeldForHandshake'
  BY <1>5 DEF RecheckHit, SendGet
<1>6. ASSUME NEW c \in Calls, RequestToken(c) PROVE LockHeldForHandshake'
  BY <1>6 DEF RequestToken
<1>7. ASSUME NEW c \in Calls, MissingCredentials(c) PROVE LockHeldForHandshake'
  BY <1>7 DEF MissingCredentials, RaiseLocked, Return
<1>8. ASSUME NEW c \in Calls, Grant(c) PROVE LockHeldForHandshake'
  BY <1>8 DEF Grant
<1>9. ASSUME NEW c \in Calls, StoreToken(c) PROVE LockHeldForHandshake'
  BY <1>9 DEF StoreToken, SendGet
<1>10. ASSUME NEW c \in Calls, DenyGrant(c) PROVE LockHeldForHandshake'
  BY <1>10 DEF DenyGrant, RaiseLocked, Return
<1>11. ASSUME NEW c \in Calls, LoseGrant(c) \/ GrantRaises(c) PROVE LockHeldForHandshake'
  BY <1>11 DEF LoseGrant, GrantRaises, RaiseLocked, Return
<1>12. ASSUME NEW c \in Calls, HandshakeTimeout(c) PROVE LockHeldForHandshake'
  BY <1>12 DEF HandshakeTimeout, RaiseLocked, Return
<1>13. ASSUME NEW c \in Calls, Answer(c) PROVE LockHeldForHandshake'
  BY <1>13 DEF Answer, Return
<1>14. ASSUME NEW c \in Calls, Fail(c) \/ GetRaises(c) PROVE LockHeldForHandshake'
  BY <1>14 DEF Fail, GetRaises, Return
<1>15. ASSUME NEW c \in Calls, Unauthorized(c) PROVE LockHeldForHandshake'
  BY <1>15 DEF Unauthorized
<1>16. ASSUME NEW c \in Calls, GetTimeout(c) PROVE LockHeldForHandshake'
  BY <1>16 DEF GetTimeout, Return
<1>17. CASE Tick
  BY <1>17 DEF Tick
<1>18. CASE UNCHANGED vars
  BY <1>18 DEF vars
<1> QED
  BY <1>1, <1>2, <1>3, <1>4, <1>5, <1>6, <1>7, <1>8, <1>9, <1>10, <1>11, <1>12,
     <1>13, <1>14, <1>15, <1>16, <1>17, <1>18, StepCases

\* Whatever eBay answers and whenever a request times out, the token lock is held
\* exactly while a handshake is in flight, so never two at a time and never by a
\* call that has ended.
THEOREM LockCorrect == Spec => []LockHeldForHandshake
<1>1. Init => LockHeldForHandshake
  BY FreeAssumption DEF Init, LockHeldForHandshake
<1> QED
  BY <1>1, TypeInvariance, LockInductive, PTL DEF Spec

-----------------------------------------------------------------------------
(* Generations of tokens.  A token on its way to the client is the newest    *)
(* one eBay granted, because the lock keeps every other handshake out; so it *)
(* is newer than the cached token and than the one its call saw refused.     *)

Generations ==
    \A c \in Calls :
       /\ pc[c] = "granted" => /\ held[c] = Len(issued)
                               /\ held[c] > token.id
                               /\ held[c] > rejected[c]
       /\ pc[c] \in {"idle", "check"} => rejected[c] = 0
       /\ pc[c] = "get" /\ rejected[c] # 0 => held[c] > rejected[c]

LEMMA GenerationsInductive ==
    TypeInv /\ LockHeldForHandshake /\ Generations /\ [Next]_vars => Generations'
<1> SUFFICES ASSUME TypeInv, LockHeldForHandshake, Generations, [Next]_vars
             PROVE  Generations'
  OBVIOUS
<1> USE DEF TypeInv, TypeOK, KnownTokens, Generations
<1>1. ASSUME NEW c \in Calls, RefuseRequest(c) PROVE Generations'
  BY <1>1 DEF RefuseRequest, Return
<1>2. ASSUME NEW c \in Calls, Start(c) PROVE Generations'
  BY <1>2 DEF Start
<1>3. ASSUME NEW c \in Calls, CacheHit(c) PROVE Generations'
  BY <1>3 DEF CacheHit, SendGet
<1>4. ASSUME NEW c \in Calls, CacheMiss(c) PROVE Generations'
  BY <1>4 DEF CacheMiss
<1>5. ASSUME NEW c \in Calls, RecheckHit(c) PROVE Generations'
  BY <1>5 DEF RecheckHit, SendGet, Forced
<1>6. ASSUME NEW c \in Calls, RequestToken(c) PROVE Generations'
  BY <1>6 DEF RequestToken
<1>7. ASSUME NEW c \in Calls, MissingCredentials(c) PROVE Generations'
  BY <1>7 DEF MissingCredentials, RaiseLocked, Return
<1>8. ASSUME NEW c \in Calls, Grant(c) PROVE Generations'
  <2>1. Len(issued') = Len(issued) + 1
    BY <1>8 DEF Grant
  <2>2. \A d \in Calls : d # c => pc[d] # "granted"
    BY <1>8 DEF Grant, LockHeldForHandshake
  <2> QED
    BY <1>8, <2>1, <2>2 DEF Grant
<1>9. ASSUME NEW c \in Calls, StoreToken(c) PROVE Generations'
  <2>1. \A d \in Calls : d # c => pc[d] # "granted"
    BY <1>9 DEF StoreToken, LockHeldForHandshake
  <2> QED
    BY <1>9, <2>1 DEF StoreToken, SendGet
<1>10. ASSUME NEW c \in Calls, DenyGrant(c) PROVE Generations'
  BY <1>10 DEF DenyGrant, RaiseLocked, Return
<1>11. ASSUME NEW c \in Calls, LoseGrant(c) \/ GrantRaises(c) PROVE Generations'
  BY <1>11 DEF LoseGrant, GrantRaises, RaiseLocked, Return
<1>12. ASSUME NEW c \in Calls, HandshakeTimeout(c) PROVE Generations'
  BY <1>12 DEF HandshakeTimeout, RaiseLocked, Return
<1>13. ASSUME NEW c \in Calls, Answer(c) PROVE Generations'
  BY <1>13 DEF Answer, Return
<1>14. ASSUME NEW c \in Calls, Fail(c) \/ GetRaises(c) PROVE Generations'
  BY <1>14 DEF Fail, GetRaises, Return
<1>15. ASSUME NEW c \in Calls, Unauthorized(c) PROVE Generations'
  BY <1>15 DEF Unauthorized
<1>16. ASSUME NEW c \in Calls, GetTimeout(c) PROVE Generations'
  BY <1>16 DEF GetTimeout, Return
<1>17. CASE Tick
  BY <1>17 DEF Tick
<1>18. CASE UNCHANGED vars
  BY <1>18 DEF vars
<1> QED
  BY <1>1, <1>2, <1>3, <1>4, <1>5, <1>6, <1>7, <1>8, <1>9, <1>10, <1>11, <1>12,
     <1>13, <1>14, <1>15, <1>16, <1>17, <1>18, StepCases

LEMMA GenerationsInvariance == Spec => []Generations
<1>1. Init => Generations
  BY DEF Init, Generations
<1> QED
  BY <1>1, TypeInvariance, LockCorrect, GenerationsInductive, PTL DEF Spec

\* The retry after a 401 carries a token granted after the refused one, for any
\* number of concurrent calls and any interleaving of their handshakes.
THEOREM RetryCorrect == Spec => []RetryUsesNewerToken
<1>1. Generations => RetryUsesNewerToken
  BY DEF Generations, RetryUsesNewerToken, Forced
<1> QED
  BY <1>1, GenerationsInvariance, PTL

\* A step that replaces the cached token is the arrival of a handshake's answer.
LEMMA OnlyStoreReplaces ==
    ASSUME [Next]_vars, token' # token
    PROVE  \E c \in Calls : StoreToken(c)
  BY StepCases DEF RefuseRequest, Start, CacheHit, CacheMiss, RecheckHit, RequestToken,
     MissingCredentials, Grant, DenyGrant, LoseGrant, GrantRaises, HandshakeTimeout,
     Answer, Fail, GetRaises, Unauthorized, GetTimeout, Tick, RaiseLocked, vars

\* The cached token is only ever replaced by one granted after it.
THEOREM CacheMonotone == Spec => CacheNeverGoesBack
<1>1. TypeInv /\ Generations /\ [Next]_vars => [token' # token => token'.id > token.id]_vars
  <2> SUFFICES ASSUME TypeInv, Generations, [Next]_vars, token' # token
               PROVE  token'.id > token.id
    OBVIOUS
  <2>1. PICK c \in Calls : StoreToken(c)
    BY OnlyStoreReplaces
  <2>2. token'.id = held[c]
    BY <2>1 DEF StoreToken
  <2> QED
    BY <2>1, <2>2 DEF StoreToken, Generations
<1> QED
  BY <1>1, TypeInvariance, GenerationsInvariance, PTL
     DEF CacheNeverGoesBack, Spec

\* While a handshake that no 401 asked for is in flight, the cached token stays
\* unusable: the lock keeps every other handshake from filling the cache.
StaleDuringHandshake ==
    \A c \in Calls : pc[c] \in {"mint", "granted"} /\ ~Forced(c) => ~IsValid(token)

LEMMA StaleInductive ==
    TypeInv /\ LockHeldForHandshake /\ StaleDuringHandshake /\ [Next]_vars
        => StaleDuringHandshake'
<1> SUFFICES ASSUME TypeInv, LockHeldForHandshake, StaleDuringHandshake, [Next]_vars
             PROVE  StaleDuringHandshake'
  OBVIOUS
<1> USE DEF TypeInv, TypeOK, StaleDuringHandshake, Forced, IsValid
<1>1. ASSUME NEW c \in Calls, RefuseRequest(c) PROVE StaleDuringHandshake'
  BY <1>1 DEF RefuseRequest, Return
<1>2. ASSUME NEW c \in Calls, Start(c) PROVE StaleDuringHandshake'
  BY <1>2 DEF Start
<1>3. ASSUME NEW c \in Calls, CacheHit(c) PROVE StaleDuringHandshake'
  BY <1>3 DEF CacheHit, SendGet
<1>4. ASSUME NEW c \in Calls, CacheMiss(c) PROVE StaleDuringHandshake'
  BY <1>4 DEF CacheMiss
<1>5. ASSUME NEW c \in Calls, RecheckHit(c) PROVE StaleDuringHandshake'
  BY <1>5 DEF RecheckHit, SendGet
<1>6. ASSUME NEW c \in Calls, RequestToken(c) PROVE StaleDuringHandshake'
  BY <1>6 DEF RequestToken
<1>7. ASSUME NEW c \in Calls, MissingCredentials(c) PROVE StaleDuringHandshake'
  BY <1>7 DEF MissingCredentials, RaiseLocked, Return
<1>8. ASSUME NEW c \in Calls, Grant(c) PROVE StaleDuringHandshake'
  BY <1>8 DEF Grant
<1>9. ASSUME NEW c \in Calls, StoreToken(c) PROVE StaleDuringHandshake'
  <2>1. \A d \in Calls : d # c => pc[d] \notin {"mint", "granted"}
    BY <1>9 DEF StoreToken, LockHeldForHandshake
  <2> QED
    BY <1>9, <2>1 DEF StoreToken, SendGet
<1>10. ASSUME NEW c \in Calls, DenyGrant(c) PROVE StaleDuringHandshake'
  BY <1>10 DEF DenyGrant, RaiseLocked, Return
<1>11. ASSUME NEW c \in Calls, LoseGrant(c) \/ GrantRaises(c) PROVE StaleDuringHandshake'
  BY <1>11 DEF LoseGrant, GrantRaises, RaiseLocked, Return
<1>12. ASSUME NEW c \in Calls, HandshakeTimeout(c) PROVE StaleDuringHandshake'
  BY <1>12 DEF HandshakeTimeout, RaiseLocked, Return
<1>13. ASSUME NEW c \in Calls, Answer(c) PROVE StaleDuringHandshake'
  BY <1>13 DEF Answer, Return
<1>14. ASSUME NEW c \in Calls, Fail(c) \/ GetRaises(c) PROVE StaleDuringHandshake'
  BY <1>14 DEF Fail, GetRaises, Return
<1>15. ASSUME NEW c \in Calls, Unauthorized(c) PROVE StaleDuringHandshake'
  BY <1>15 DEF Unauthorized
<1>16. ASSUME NEW c \in Calls, GetTimeout(c) PROVE StaleDuringHandshake'
  BY <1>16 DEF GetTimeout, Return
<1>17. CASE Tick
  <2>1. ~IsValid(token) => ~IsValid(token)'
    BY <1>17 DEF Tick
  <2> QED
    BY <1>17, <2>1 DEF Tick
<1>18. CASE UNCHANGED vars
  BY <1>18 DEF vars
<1> QED
  BY <1>1, <1>2, <1>3, <1>4, <1>5, <1>6, <1>7, <1>8, <1>9, <1>10, <1>11, <1>12,
     <1>13, <1>14, <1>15, <1>16, <1>17, <1>18, StepCases

\* A usable cached token is replaced only by the handshake of a call that eBay has
\* refused a token: from the second read of the cache to the answer of the handshake,
\* nothing any number of other calls do makes the handshake superfluous.
THEOREM UsableKept == Spec => UsableTokenIsKept
<1>1. Init => StaleDuringHandshake
  BY DEF Init, StaleDuringHandshake
<1>2. Spec => []StaleDuringHandshake
  BY <1>1, TypeInvariance, LockCorrect, StaleInductive, PTL DEF Spec
<1>3. TypeInv /\ LockHeldForHandshake /\ StaleDuringHandshake /\ [Next]_vars
        => [token' # token /\ IsValid(token) => \E c \in Calls : lock = c /\ Forced(c)]_vars
  <2> SUFFICES ASSUME TypeInv, LockHeldForHandshake, StaleDuringHandshake, [Next]_vars,
                      token' # token, IsValid(token)
               PROVE  \E c \in Calls : lock = c /\ Forced(c)
    OBVIOUS
  <2>1. PICK c \in Calls : StoreToken(c)
    BY OnlyStoreReplaces
  <2>2. pc[c] = "granted"
    BY <2>1 DEF StoreToken
  <2> QED
    BY <2>2 DEF LockHeldForHandshake, StaleDuringHandshake
<1> QED
  BY <1>2, <1>3, TypeInvariance, LockCorrect, PTL DEF UsableTokenIsKept, Spec

-----------------------------------------------------------------------------
(* The leeway.  A cached deadline leaves the leeway, less the latency of the *)
(* handshake, before the token's end at eBay; the latency of the GET must    *)
(* fit in what remains.                                                      *)

Stated(k) == issued[k].claimed = issued[k].life /\ issued[k].life > Leeway

Timing ==
    /\ \A k \in 1..Len(issued) : issued[k].at <= now
    /\ token.id # 0 =>
          \/ token.expiresAt <= now
          \/ token.expiresAt + Leeway
                <= issued[token.id].at + MaxLatency + issued[token.id].claimed
    /\ \A c \in Calls :
          /\ InFlight(c) => now <= due[c]
          /\ pc[c] = "mint" => due[c] <= now + MaxLatency
          /\ pc[c] = "granted" => due[c] <= issued[held[c]].at + MaxLatency
          /\ pc[c] = "get" /\ Stated(held[c]) => due[c] < Expiry(held[c])

LEMMA GrantedTokens ==
    ASSUME TypeInv, NEW k \in 1..Len(issued)
    PROVE  issued[k].at \in Nat /\ issued[k].life \in Nat /\ issued[k].claimed \in Nat
<1>1. issued[k] \in Token
  BY DEF TypeInv, TypeOK
<1> QED
  BY <1>1 DEF Token

\* A GET sent with the cached token times out before the token ends.
LEMMA CachedTokenLasts ==
    ASSUME 2 * MaxLatency <= Leeway, TypeInv, Timing, IsValid(token), Stated(token.id)
    PROVE  now + MaxLatency < Expiry(token.id)
<1>1. now \in Nat /\ token.expiresAt \in Nat
  BY DEF TypeInv, TypeOK
<1>2. token.id \in 1..Len(issued)
  BY <1>1 DEF IsValid, TypeInv, TypeOK, KnownTokens
<1>3. token.expiresAt + Leeway
         <= issued[token.id].at + MaxLatency + issued[token.id].claimed
  BY <1>1, <1>2 DEF IsValid, Timing
<1>4. issued[token.id].at \in Nat /\ issued[token.id].life \in Nat
  BY <1>2, GrantedTokens
<1> QED
  BY <1>1, <1>3, <1>4, LeewayAssumption, MaxLatencyAssumption DEF IsValid, Stated, Expiry

LEMMA TimingInductive ==
    ASSUME 2 * MaxLatency <= Leeway, TypeInv, Timing, [Next]_vars
    PROVE  Timing'
<1>0. \A k \in 1..Len(issued) : /\ issued[k].at \in Nat
                                /\ issued[k].life \in Nat
                                /\ issued[k].claimed \in Nat
  BY GrantedTokens
<1> USE LeewayAssumption, MaxLatencyAssumption
    DEF TypeInv, TypeOK, KnownTokens, Timing, InFlight
<1>1. ASSUME NEW c \in Calls, RefuseRequest(c) PROVE Timing'
  BY <1>1 DEF RefuseRequest, Return, Stated, Expiry
<1>2. ASSUME NEW c \in Calls, Start(c) PROVE Timing'
  BY <1>2 DEF Start, Stated, Expiry
<1>3. ASSUME NEW c \in Calls, CacheHit(c) PROVE Timing'
  <2>2. Stated(token.id) => now + MaxLatency < Expiry(token.id)
    BY <1>3, CachedTokenLasts DEF CacheHit
  <2>3. /\ pc' = [pc EXCEPT ![c] = "get"]
        /\ held' = [held EXCEPT ![c] = token.id]
        /\ due' = [due EXCEPT ![c] = now + MaxLatency]
        /\ UNCHANGED <<now, issued, token>>
    BY <1>3 DEF CacheHit, SendGet
  <2> QED
    BY <2>2, <2>3 DEF Stated, Expiry
<1>4. ASSUME NEW c \in Calls, CacheMiss(c) PROVE Timing'
  BY <1>4 DEF CacheMiss, Stated, Expiry
<1>5. ASSUME NEW c \in Calls, RecheckHit(c) PROVE Timing'
  <2>2. Stated(token.id) => now + MaxLatency < Expiry(token.id)
    BY <1>5, CachedTokenLasts DEF RecheckHit
  <2>3. /\ pc' = [pc EXCEPT ![c] = "get"]
        /\ held' = [held EXCEPT ![c] = token.id]
        /\ due' = [due EXCEPT ![c] = now + MaxLatency]
        /\ UNCHANGED <<now, issued, token>>
    BY <1>5 DEF RecheckHit, SendGet
  <2> QED
    BY <2>2, <2>3 DEF Stated, Expiry
<1>6. ASSUME NEW c \in Calls, RequestToken(c) PROVE Timing'
  <2>1. /\ pc' = [pc EXCEPT ![c] = "mint"]
        /\ due' = [due EXCEPT ![c] = now + MaxLatency]
        /\ UNCHANGED <<configured, now, issued, token, held, rejected, outcome>>
    BY <1>6 DEF RequestToken
  <2>2. ASSUME NEW d \in Calls
        PROVE  /\ InFlight(d)' => now' <= due'[d]
               /\ pc'[d] = "mint" => due'[d] <= now' + MaxLatency
               /\ pc'[d] = "granted" => due'[d] <= issued'[held'[d]].at + MaxLatency
               /\ pc'[d] = "get" /\ Stated(held[d])' => due'[d] < Expiry(held[d])'
    <3>1. CASE d = c
      BY <2>1, <3>1
    <3>2. CASE d # c
      BY <2>1, <3>2 DEF Stated, Expiry
    <3> QED
      BY <3>1, <3>2
  <2> QED
    BY <2>1, <2>2
<1>7. ASSUME NEW c \in Calls, MissingCredentials(c) PROVE Timing'
  BY <1>7 DEF MissingCredentials, RaiseLocked, Return, Stated, Expiry
<1>8. ASSUME NEW c \in Calls, Grant(c) PROVE Timing'
  <2>1. PICK life \in Lifetimes, stated \in BOOLEAN :
           issued' = Append(issued, [at |-> now, life |-> life,
                               claimed |-> IF stated THEN life ELSE DefaultLife])
    BY <1>8 DEF Grant
  <2>2. /\ Len(issued) \in Nat
        /\ Len(issued') = Len(issued) + 1
        /\ \A k \in 1..Len(issued) : issued'[k] = issued[k]
        /\ issued'[Len(issued) + 1].at = now
    BY <2>1
  <2>3. UNCHANGED <<configured, now, token, lock, rejected, due, outcome>>
    BY <1>8 DEF Grant
  <2>4. pc' = [pc EXCEPT ![c] = "granted"] /\ held' = [held EXCEPT ![c] = Len(issued) + 1]
    BY <1>8 DEF Grant
  <2>5. ASSUME NEW k \in 1..Len(issued') PROVE issued'[k].at <= now'
    <3>1. CASE k = Len(issued) + 1
      <4>1. issued'[k].at = now /\ now' = now
        BY <2>2, <2>3, <3>1
      <4> QED
        BY <4>1
    <3>2. CASE k # Len(issued) + 1
      <4>1. k \in 1..Len(issued)
        BY <2>2, <3>2
      <4> QED
        BY <2>2, <2>3, <4>1
    <3> QED
      BY <3>1, <3>2
  <2>6. token'.id # 0 =>
          \/ token'.expiresAt <= now'
          \/ token'.expiresAt + Leeway
                <= issued'[token'.id].at + MaxLatency + issued'[token'.id].claimed
    <3>1. token.id # 0 => token.id \in 1..Len(issued)
      OBVIOUS
    <3> QED
      BY <2>2, <2>3, <3>1
  <2>7. ASSUME NEW d \in Calls
        PROVE  /\ InFlight(d)' => now' <= due'[d]
               /\ pc'[d] = "mint" => due'[d] <= now' + MaxLatency
               /\ pc'[d] = "granted" => due'[d] <= issued'[held'[d]].at + MaxLatency
               /\ pc'[d] = "get" /\ Stated(held[d])' => due'[d] < Expiry(held[d])'
    <3>1. CASE d = c
      BY <1>8, <2>2, <2>3, <2>4, <3>1 DEF Grant
    <3>2. CASE d # c
      <4>1. pc'[d] = pc[d] /\ held'[d] = held[d] /\ due'[d] = due[d]
        BY <2>3, <2>4, <3>2
      <4>2. pc[d] \in {"granted", "get"} => issued'[held[d]] = issued[held[d]]
        BY <2>2
      <4> QED
        BY <2>3, <4>1, <4>2 DEF Stated, Expiry
    <3> QED
      BY <3>1, <3>2
  <2> QED
    BY <2>5, <2>6, <2>7
<1>9. ASSUME NEW c \in Calls, StoreToken(c) PROVE Timing'
  <2> DEFINE k == held[c]
  <2>1. k \in 1..Len(issued)
    BY <1>9 DEF StoreToken
  <2>2. now <= due[c] /\ due[c] <= issued[k].at + MaxLatency
    BY <1>9 DEF StoreToken
  <2>3. \/ StoredExpiry(k) <= now
        \/ StoredExpiry(k) + Leeway <= issued[k].at + MaxLatency + issued[k].claimed
    <3>1. CASE issued[k].claimed > Leeway
      <4>1. StoredExpiry(k) = now + (issued[k].claimed - Leeway)
        BY <3>1 DEF StoredExpiry
      <4> QED
        BY <1>0, <2>1, <2>2, <4>1
    <3>2. CASE ~(issued[k].claimed > Leeway)
      BY <1>0, <2>1, <3>2 DEF StoredExpiry
    <3> QED
      BY <3>1, <3>2
  <2>4. Stated(k) => now + MaxLatency < Expiry(k)
    BY <1>0, <2>1, <2>2 DEF Stated, Expiry
  <2>5. /\ token'.id = k
        /\ token'.expiresAt = StoredExpiry(k)
        /\ UNCHANGED <<now, issued>>
    BY <1>9 DEF StoreToken
  <2>6. /\ pc' = [pc EXCEPT ![c] = "get"]
        /\ held' = [held EXCEPT ![c] = k]
        /\ due' = [due EXCEPT ![c] = now + MaxLatency]
    BY <1>9 DEF StoreToken, SendGet
  <2>7. token'.id # 0 =>
          \/ token'.expiresAt <= now'
          \/ token'.expiresAt + Leeway
                <= issued'[token'.id].at + MaxLatency + issued'[token'.id].claimed
    BY <2>3, <2>5
  <2>8. ASSUME NEW d \in Calls
        PROVE  /\ InFlight(d)' => now' <= due'[d]
               /\ pc'[d] = "mint" => due'[d] <= now' + MaxLatency
               /\ pc'[d] = "granted" => due'[d] <= issued'[held'[d]].at + MaxLatency
               /\ pc'[d] = "get" /\ Stated(held[d])' => due'[d] < Expiry(held[d])'
    BY <2>4, <2>5, <2>6 DEF Stated, Expiry
  <2> QED
    BY <2>5, <2>7, <2>8
<1>10. ASSUME NEW c \in Calls, DenyGrant(c) PROVE Timing'
  BY <1>10 DEF DenyGrant, RaiseLocked, Return, Stated, Expiry
<1>11. ASSUME NEW c \in Calls, LoseGrant(c) \/ GrantRaises(c) PROVE Timing'
  <2>1. CASE LoseGrant(c)
    BY <2>1 DEF LoseGrant, RaiseLocked, Return, Stated, Expiry
  <2>2. CASE GrantRaises(c)
    BY <2>2 DEF GrantRaises, RaiseLocked, Return, Stated, Expiry
  <2> QED
    BY <1>11, <2>1, <2>2
<1>12. ASSUME NEW c \in Calls, HandshakeTimeout(c) PROVE Timing'
  BY <1>12 DEF HandshakeTimeout, RaiseLocked, Return, Stated, Expiry
<1>13. ASSUME NEW c \in Calls, Answer(c) PROVE Timing'
  BY <1>13 DEF Answer, Return, Stated, Expiry
<1>14. ASSUME NEW c \in Calls, Fail(c) \/ GetRaises(c) PROVE Timing'
  <2>1. CASE Fail(c)
    BY <2>1 DEF Fail, Return, Stated, Expiry
  <2>2. CASE GetRaises(c)
    BY <2>2 DEF GetRaises, Return, Stated, Expiry
  <2> QED
    BY <1>14, <2>1, <2>2
<1>15. ASSUME NEW c \in Calls, Unauthorized(c) PROVE Timing'
  BY <1>15 DEF Unauthorized, Stated, Expiry
<1>16. ASSUME NEW c \in Calls, GetTimeout(c) PROVE Timing'
  BY <1>16 DEF GetTimeout, Return, Stated, Expiry
<1>17. CASE Tick
  <2>1. now' = now + 1 /\ UNCHANGED <<configured, issued, token, lock, pc, held, rejected,
                                      due, outcome>>
    BY <1>17 DEF Tick
  <2>2. \A c \in Calls : InFlight(c) => now < due[c]
    BY <1>17 DEF Tick, Urgent
  <2>3. \A k \in 1..Len(issued') : issued'[k].at <= now'
    BY <1>0, <2>1
  <2>4. token'.id # 0 =>
          \/ token'.expiresAt <= now'
          \/ token'.expiresAt + Leeway
                <= issued'[token'.id].at + MaxLatency + issued'[token'.id].claimed
    BY <2>1
  <2>5. ASSUME NEW d \in Calls
        PROVE  /\ InFlight(d)' => now' <= due'[d]
               /\ pc'[d] = "mint" => due'[d] <= now' + MaxLatency
               /\ pc'[d] = "granted" => due'[d] <= issued'[held'[d]].at + MaxLatency
               /\ pc'[d] = "get" /\ Stated(held[d])' => due'[d] < Expiry(held[d])'
    BY <2>1, <2>2 DEF Stated, Expiry
  <2> QED
    BY <2>3, <2>4, <2>5
<1>18. CASE UNCHANGED vars
  BY <1>18 DEF vars, Stated, Expiry
<1> HIDE DEF Timing
<1> QED
  BY <1>1, <1>2, <1>3, <1>4, <1>5, <1>6, <1>7, <1>8, <1>9, <1>10, <1>11, <1>12,
     <1>13, <1>14, <1>15, <1>16, <1>17, <1>18, StepCases

\* No request in flight ever races the expiry of its token, if the leeway covers
\* the latency of the handshake and of the request: true of the 60 s leeway and
\* the default timeout of 20 s.
THEOREM InFlightCorrect ==
    ASSUME 2 * MaxLatency <= Leeway
    PROVE  Spec => []InFlightTokenAlive
<1>1. Init => Timing
  BY DEF Init, Timing, NoToken, InFlight
<1>2. TypeInv /\ Timing /\ [Next]_vars => Timing'
  BY TimingInductive
<1>3. TypeInv /\ Timing => InFlightTokenAlive
  <2> SUFFICES ASSUME TypeInv, Timing, NEW c \in Calls,
                      pc[c] = "get", Stated(held[c])
               PROVE  now < Expiry(held[c])
    BY DEF InFlightTokenAlive, Stated
  <2>1. held[c] \in 1..Len(issued)
    BY DEF TypeInv, TypeOK, KnownTokens
  <2>2. Expiry(held[c]) \in Nat
    BY <2>1, GrantedTokens DEF Expiry
  <2> QED
    BY <2>2 DEF TypeInv, TypeOK, Timing, InFlight
<1> QED
  BY <1>1, <1>2, <1>3, TypeInvariance, PTL DEF Spec
=============================================================================
