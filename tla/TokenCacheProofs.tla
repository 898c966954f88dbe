--------------------------- MODULE TokenCacheProofs ---------------------------
(***************************************************************************)
(* A token taken from the cache is alive, for any number of callers, any   *)
(* lifetimes, and any Timeout and Margin with Timeout <= Margin.           *)
(*                                                                         *)
(* A caller that holds an answer asked at most one Timeout ago (OnTime),   *)
(* and Keycloak issued the token after that: so the expiry it keeps is at  *)
(* most one Timeout later than the token's own (ExpiryBound).              *)
(***************************************************************************)
EXTENDS TokenCache, TLAPS

OnTime ==
    \A c \in Caller :
        /\ pc[c] \in Waiting => sent[c] <= now /\ now <= sent[c] + Timeout
        /\ pc[c] = "issued" => /\ held[c] \in Token
                               /\ sent[c] + Lifetime(held[c].expiresIn) <= held[c].dies

CacheInv == TypeOK /\ ExpiryBound /\ OnTime

\* An answer's lifetime, or the default, is not negative.
LEMMA LifetimeIsNat == \A e \in Lives : Lifetime(e) \in Nat
BY TimeAssumption DEF Lifetime

LEMMA TokenIsNotNone == \A t \in Token : t # None
BY NoneAssumption DEF Token

LEMMA InitEstablishesCacheInv == Init => CacheInv
BY TimeAssumption DEF Init, CacheInv, TypeOK, ExpiryBound, OnTime, Waiting

\* A caller moves on without changing what is kept.
LEMMA MoveKeepsCacheInv ==
    ASSUME CacheInv, NEW c \in Caller, UNCHANGED <<now, token, expiresAt>>,
           pc' \in [Caller -> {"start", "asked", "issued", "done", "failed"}],
           sent' \in [Caller -> 0..MaxTime], held' \in [Caller -> Token \cup {None}],
           \A d \in Caller \ {c} : pc'[d] = pc[d] /\ sent'[d] = sent[d] /\ held'[d] = held[d],
           pc'[c] \in Waiting => sent'[c] <= now /\ now <= sent'[c] + Timeout,
           pc'[c] = "issued" => /\ held'[c] \in Token
                                /\ sent'[c] + Lifetime(held'[c].expiresIn) <= held'[c].dies
    PROVE  CacheInv'
<1>1. TypeOK' /\ ExpiryBound'
  BY DEF CacheInv, TypeOK, ExpiryBound
<1>2. ASSUME NEW d \in Caller
      PROVE  /\ pc'[d] \in Waiting => sent'[d] <= now /\ now <= sent'[d] + Timeout
             /\ pc'[d] = "issued" => /\ held'[d] \in Token
                                     /\ sent'[d] + Lifetime(held'[d].expiresIn) <= held'[d].dies
  <2>1. CASE d = c
    BY <2>1
  <2>2. CASE d # c
    BY <2>2 DEF CacheInv, OnTime
  <2>. QED
    BY <2>1, <2>2
<1>3. OnTime'
  BY <1>2 DEF OnTime
<1>. QED
  BY <1>1, <1>3 DEF CacheInv

LEMMA CallerKeepsCacheInv ==
    ASSUME CacheInv, NEW c \in Caller,
           Hit(c) \/ Ask(c) \/ Refuse(c) \/ TimeOut(c) \/ Again(c)
    PROVE  CacheInv'
<1>1. CASE Hit(c)
  BY <1>1, MoveKeepsCacheInv DEF Hit, CacheInv, TypeOK, Waiting
<1>2. CASE Ask(c)
  BY <1>2, MoveKeepsCacheInv, TimeAssumption DEF Ask, CacheInv, TypeOK, Waiting
<1>3. CASE Refuse(c)
  BY <1>3, MoveKeepsCacheInv DEF Refuse, CacheInv, TypeOK, Waiting
<1>4. CASE TimeOut(c)
  BY <1>4, MoveKeepsCacheInv DEF TimeOut, CacheInv, TypeOK, Waiting
<1>5. CASE Again(c)
  BY <1>5, MoveKeepsCacheInv DEF Again, CacheInv, TypeOK, Waiting
<1>. QED
  BY <1>1, <1>2, <1>3, <1>4, <1>5

LEMMA IssueKeepsCacheInv ==
    ASSUME CacheInv, NEW c \in Caller, Issue(c)
    PROVE  CacheInv'
<1>1. PICK e \in Lives :
        held' = [held EXCEPT ![c] = [dies |-> now + Lifetime(e), expiresIn |-> e]]
  BY DEF Issue
<1>. DEFINE t == [dies |-> now + Lifetime(e), expiresIn |-> e]
<1>2. /\ t \in Token /\ t.dies = now + Lifetime(e) /\ t.expiresIn = e
      /\ Lifetime(e) \in Nat /\ now \in Nat
  BY LifetimeIsNat, TimeAssumption DEF Token, CacheInv, TypeOK
<1>3. /\ held' \in [Caller -> Token \cup {None}] /\ held'[c] = t
      /\ \A d \in Caller \ {c} : held'[d] = held[d]
  BY <1>1, <1>2 DEF CacheInv, TypeOK
<1>4. sent[c] \in Nat /\ sent[c] <= now /\ now <= sent[c] + Timeout
  BY TimeAssumption DEF Issue, CacheInv, TypeOK, OnTime, Waiting
<1>5. /\ pc' \in [Caller -> {"start", "asked", "issued", "done", "failed"}]
      /\ \A d \in Caller \ {c} : pc'[d] = pc[d]
      /\ sent' = sent /\ UNCHANGED <<now, token, expiresAt>>
  BY DEF Issue, CacheInv, TypeOK
<1>6. sent'[c] + Lifetime(held'[c].expiresIn) <= held'[c].dies
  BY <1>2, <1>3, <1>4, <1>5
<1>. QED
  BY <1>2, <1>3, <1>4, <1>5, <1>6, MoveKeepsCacheInv DEF CacheInv, TypeOK

LEMMA KeepKeepsCacheInv ==
    ASSUME CacheInv, NEW c \in Caller, Keep(c)
    PROVE  CacheInv'
<1>1. /\ held[c] \in Token /\ now <= sent[c] + Timeout
      /\ sent[c] + Lifetime(held[c].expiresIn) <= held[c].dies
  BY DEF Keep, CacheInv, OnTime, Waiting
<1>2. Lifetime(held[c].expiresIn) \in Nat
  BY <1>1, TimeAssumption DEF Token, Lifetime
<1>3. now \in Nat /\ sent[c] \in Nat /\ Timeout \in Nat /\ held[c].dies \in Nat
  BY <1>1, TimeAssumption DEF CacheInv, TypeOK, Token
<1>4. TypeOK'
  BY <1>1, <1>2, <1>3 DEF Keep, Expiry, CacheInv, TypeOK
<1>5. ExpiryBound'
  <2>1. token' = held[c] /\ expiresAt' = now + Lifetime(held[c].expiresIn)
    BY DEF Keep, Expiry
  <2>. QED
    BY <1>1, <1>2, <1>3, <2>1 DEF ExpiryBound
<1>6. OnTime'
  BY DEF Keep, CacheInv, TypeOK, OnTime, Waiting
<1>. QED
  BY <1>4, <1>5, <1>6 DEF CacheInv

LEMMA TickKeepsCacheInv ==
    ASSUME CacheInv, Tick
    PROVE  CacheInv'
<1>1. TypeOK' /\ ExpiryBound'
  BY TimeAssumption DEF Tick, CacheInv, TypeOK, ExpiryBound
<1>2. ASSUME NEW c \in Caller, pc[c] \in Waiting
      PROVE  sent[c] <= now + 1 /\ now + 1 <= sent[c] + Timeout
  <2>1. now \in Nat /\ sent[c] \in Nat /\ Timeout \in Nat
    BY TimeAssumption DEF CacheInv, TypeOK
  <2>. QED
    BY <1>2, <2>1 DEF Tick, CacheInv, OnTime
<1>3. OnTime'
  BY <1>2 DEF Tick, CacheInv, OnTime
<1>. QED
  BY <1>1, <1>3 DEF CacheInv

THEOREM CacheInvariant == Spec => []CacheInv
<1>1. CacheInv /\ [Next]_vars => CacheInv'
  <2>. SUFFICES ASSUME CacheInv, [Next]_vars
                PROVE  CacheInv'
    OBVIOUS
  <2>1. CASE UNCHANGED vars
    BY <2>1 DEF vars, CacheInv, TypeOK, ExpiryBound, OnTime
  <2>. QED
    BY <2>1, CallerKeepsCacheInv, IssueKeepsCacheInv, KeepKeepsCacheInv, TickKeepsCacheInv
       DEF Next
<1>. QED
  BY <1>1, InitEstablishesCacheInv, PTL DEF Spec

\* The expiry accessToken keeps is at most one request timeout later than the
\* token's own.
THEOREM ExpiryIsBounded == Spec => []ExpiryBound
BY CacheInvariant, PTL DEF CacheInv

\* A token taken from the cache has not expired at Keycloak.
THEOREM CachedTokensLive == Spec => CachedTokenLives
<1>1. CacheInv /\ [Next]_vars
      => [\A c \in Caller : pc[c] = "start" /\ pc'[c] = "done" => now < held'[c].dies]_vars
  <2>. SUFFICES ASSUME CacheInv, Next, NEW c \in Caller, pc[c] = "start", pc'[c] = "done"
                PROVE  now < held'[c].dies
    BY DEF vars
  <2>1. Hit(c)
    <3>1. \A d \in Caller : \/ d = c \/ pc'[c] = pc[c]
                            \/ ~(Hit(d) \/ Ask(d) \/ Issue(d) \/ Keep(d) \/ Refuse(d)
                                 \/ TimeOut(d) \/ Again(d))
      BY DEF Hit, Ask, Issue, Keep, Refuse, TimeOut, Again, CacheInv, TypeOK
    <3>2. ~(Ask(c) \/ Issue(c) \/ Keep(c) \/ Refuse(c) \/ TimeOut(c) \/ Again(c) \/ Tick)
      BY DEF Ask, Issue, Keep, Refuse, TimeOut, Again, Tick, Waiting, CacheInv, TypeOK
    <3>. QED
      BY <3>1, <3>2 DEF Next
  <2>2. held'[c] = token /\ token \in Token /\ now < expiresAt - Margin
    BY <2>1 DEF Hit, Usable, CacheInv, TypeOK
  <2>3. /\ token.dies \in Nat /\ now \in Nat /\ expiresAt \in Nat
        /\ expiresAt <= token.dies + Timeout
    BY <2>2, TokenIsNotNone DEF CacheInv, TypeOK, ExpiryBound, Token
  <2>. QED
    BY <2>2, <2>3, TimeAssumption
<1>. QED
  BY <1>1, CacheInvariant, PTL DEF Spec, CachedTokenLives

\* What the client keeps and what every caller holds stays in its type.
THEOREM CacheTypesHold == Spec => []TypeOK
BY CacheInvariant, PTL DEF CacheInv
==============================================================================
