------------------------------ MODULE TokenCache ------------------------------
(***************************************************************************)
(* internal/keycloakadmin/http_client.go: accessToken, which every request *)
(* of the client goes through.  A token is kept until Margin before it     *)
(* expires; the lock is not held while a new one is fetched, so callers    *)
(* may fetch at the same time and an older answer may replace a younger    *)
(* one.  The expiry that is kept counts from the arrival of the answer,    *)
(* Keycloak's from the moment it issued the token: what is kept may be up  *)
(* to one Timeout too late.                                                *)
(*                                                                         *)
(* Time passes while a caller waits for Keycloak.  The code between two    *)
(* waits takes none: its two critical sections are one step each.          *)
(***************************************************************************)
EXTENDS Integers

CONSTANTS
    Caller,    \* goroutines that use one client
    Margin,    \* 30 s in the code
    Timeout,   \* of a request, the answer's body included: 30 s in the code
    DefaultLife, \* taken for an answer without a lifetime: 60 s in the code
    Lives,     \* the values of expires_in Keycloak may answer
    None,      \* "no token"
    MaxTime    \* bound: the end of the time considered

ASSUME TimeAssumption == /\ Margin \in Nat /\ Timeout \in Nat /\ Timeout <= Margin
                         /\ DefaultLife \in Nat /\ Lives \subseteq Int
                         /\ MaxTime \in Nat
ASSUME NoneAssumption == None \notin [dies : Nat, expiresIn : Int]

VARIABLES
    now,       \* seconds
    token,     \* the token kept, None if none
    expiresAt, \* when it is taken to expire
    pc,        \* where each caller is
    sent,      \* when it asked Keycloak for a token
    held       \* the token it holds, None before

vars == <<now, token, expiresAt, pc, sent, held>>

Token  == [dies : Nat, expiresIn : Int]
Waiting == {"asked", "issued"}

TypeOK ==
    /\ now \in 0..MaxTime
    /\ token \in Token \cup {None}
    /\ expiresAt \in Nat
    /\ pc \in [Caller -> {"start", "asked", "issued", "done", "failed"}]
    /\ sent \in [Caller -> 0..MaxTime]
    /\ held \in [Caller -> Token \cup {None}]

Init ==
    /\ now = 0
    /\ token = None /\ expiresAt = 0
    /\ pc = [c \in Caller |-> "start"]
    /\ sent = [c \in Caller |-> 0]
    /\ held = [c \in Caller |-> None]

UsableTillTheEnd == token # None /\ now < expiresAt
Usable           == token # None /\ now < expiresAt - Margin

Lifetime(e) == IF e <= 0 THEN DefaultLife ELSE e

Hit(c) ==
    /\ pc[c] = "start" /\ Usable
    /\ pc' = [pc EXCEPT ![c] = "done"]
    /\ held' = [held EXCEPT ![c] = token]
    /\ UNCHANGED <<now, token, expiresAt, sent>>

Ask(c) ==
    /\ pc[c] = "start" /\ ~Usable
    /\ now + Timeout <= MaxTime
    /\ pc' = [pc EXCEPT ![c] = "asked"]
    /\ sent' = [sent EXCEPT ![c] = now]
    /\ UNCHANGED <<now, token, expiresAt, held>>

\* Keycloak issues a token; one without a lifetime is taken to live DefaultLife.
Issue(c) ==
    /\ pc[c] = "asked"
    /\ pc' = [pc EXCEPT ![c] = "issued"]
    /\ \E e \in Lives :
         held' = [held EXCEPT ![c] = [dies |-> now + Lifetime(e), expiresIn |-> e]]
    /\ UNCHANGED <<now, token, expiresAt, sent>>

ExpiryLessMargin(c) == now + Lifetime(held[c].expiresIn) - Margin
ExpiryWithMargin(c) == now + Lifetime(held[c].expiresIn) + Margin
Expiry(c)           == now + Lifetime(held[c].expiresIn)

Keep(c) ==
    /\ pc[c] = "issued"
    /\ token' = held[c]
    /\ expiresAt' = Expiry(c)
    /\ pc' = [pc EXCEPT ![c] = "done"]
    /\ UNCHANGED <<now, sent, held>>

\* An error status, a broken connection, a body that does not decode.
Refuse(c) ==
    /\ pc[c] \in Waiting
    /\ pc' = [pc EXCEPT ![c] = "failed"]
    /\ UNCHANGED <<now, token, expiresAt, sent, held>>

OverdueNever(c) == FALSE
Overdue(c)      == now = sent[c] + Timeout

\* The timeout of the HTTP client.
TimeOut(c) ==
    /\ pc[c] \in Waiting /\ Overdue(c)
    /\ pc' = [pc EXCEPT ![c] = "failed"]
    /\ UNCHANGED <<now, token, expiresAt, sent, held>>

\* The client's next request.
Again(c) ==
    /\ pc[c] \in {"done", "failed"}
    /\ pc' = [pc EXCEPT ![c] = "start"]
    /\ held' = [held EXCEPT ![c] = None]
    /\ UNCHANGED <<now, token, expiresAt, sent>>

Tick ==
    /\ now < MaxTime
    /\ \A c \in Caller : pc[c] \in Waiting => now < sent[c] + Timeout
    /\ now' = now + 1
    /\ UNCHANGED <<token, expiresAt, pc, sent, held>>

Next == Tick \/ \E c \in Caller : \/ Hit(c) \/ Ask(c) \/ Issue(c) \/ Keep(c)
                                  \/ Refuse(c) \/ TimeOut(c) \/ Again(c)

Spec == Init /\ [][Next]_vars
FairSpec == Spec /\ WF_vars(Tick) /\ \A c \in Caller : WF_vars(TimeOut(c))

(***************************************************************************)
(* Properties.                                                             *)
(***************************************************************************)

\* A token taken from the cache has not expired at Keycloak, although its expiry
\* is reckoned from the arrival of an answer that may have been slow, and although
\* answers may replace each other in any order.
CachedTokenLives ==
    [][\A c \in Caller : pc[c] = "start" /\ pc'[c] = "done" => now < held'[c].dies]_vars

\* A call does not wait for a token for ever, not even for a Keycloak that accepts
\* the connection and never answers.
FetchEnds == \A c \in Caller : pc[c] = "asked" ~> pc[c] \in {"done", "failed"}

\* What CachedTokenLives rests on: the expiry kept is late by a Timeout at most.
ExpiryBound == token # None => expiresAt <= token.dies + Timeout
==============================================================================
