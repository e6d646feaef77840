---------------------------- MODULE AdmissionProofs ----------------------------
(***************************************************************************)
(* For any nonces, endpoints, times and lifetimes: a signed request is      *)
(* accepted at most once, a ticket consumed at most once, and a session     *)
(* stays within an Allow, as long as the host's clock does not go back.     *)
(***************************************************************************)
EXTENDS Admission, TLAPS

(* An accepted request is remembered as long as it is fresh.                *)
Remembered(n) ==
  \/ seen[n] # Absent /\ signed[n].expires <= seen[n]
  \/ signed[n].expires < now

OnceInv ==
  \A n \in Nonces :
    /\ accepted[n] <= 1
    /\ accepted[n] = 1 => signed[n] # NoRequest /\ Remembered(n)

(* A used ticket is either still marked consumed or of a past generation.   *)
TicketInv ==
  \A t \in TicketIds :
    /\ ticket[t] # NoTicket => ticket[t].generation <= generation
    /\ uses[t] <= 1
    /\ uses[t] = 1 => /\ ticket[t] # NoTicket
                      /\ t \in consumed \/ ticket[t].generation < generation

(* Every grant has the Allow that made it, of the same instant.             *)
GrantInv ==
  \A g \in grants :
    /\ g.caps \subseteq HostPolicy
    /\ \E c \in consents : /\ c.endpoint = g.endpoint /\ g.caps \subseteq c.caps
                           /\ c.at = g.notBefore /\ g.expires = c.at + MaxRequestTtl

-------------------------------------------------------------------------------
(* What is granted is recognised, allowed by the policy and consented to.   *)
LEMMA GrantedWithin ==
  ASSUME NEW r, NEW consented
  PROVE  /\ Granted(r, consented) \subseteq Catalogue \cup FilePushCapabilities
         /\ Granted(r, consented) \subseteq HostPolicy
         /\ Granted(r, consented) \subseteq consented
BY DEF Granted, Grantable, Intersect, Recognize, IsRecognized

(* The initial books are of their types.                                    *)
LEMMA AdmissionTypeInit == Init => AdmissionTypeOK
BY AdmissionAssumption, SMT
   DEF Init, AdmissionTypeOK, Absent, NoRequest, NoNonce, NoTicket, TicketIds

(* Every step keeps the types.                                              *)
LEMMA AdmissionTypeNext == AdmissionTypeOK /\ [Next]_vars => AdmissionTypeOK'
<1> SUFFICES ASSUME AdmissionTypeOK, [Next]_vars PROVE AdmissionTypeOK' OBVIOUS
<1> USE AdmissionAssumption DEF AdmissionTypeOK, grantVars, ticketVars, requestVars
<1>1. ASSUME NEW n \in Nonces, NEW e \in Endpoints, NEW i \in Times, NEW l \in Lifetimes,
             NEW c \in RequestedCaps,
             Sign(n, [endpoint |-> e, issued |-> i, expires |-> i + l, caps |-> c])
      PROVE AdmissionTypeOK'
  <2> DEFINE r == [endpoint |-> e, issued |-> i, expires |-> i + l, caps |-> c]
  <2>1. r \in AccessRequest /\ r # NoRequest
    BY DEF AccessRequest, NoRequest
  <2> HIDE DEF r
  <2>2. signed' = [signed EXCEPT ![n] = r]
    BY <1>1 DEF Sign, r
  <2>3. signed' \in [Nonces -> AccessRequest \cup {NoRequest}]
    BY <2>1, <2>2
  <2>4. asking' # NoNonce => signed'[asking'] # NoRequest
    BY <1>1, <2>1, <2>2 DEF Sign
  <2> QED BY <1>1, <2>3, <2>4 DEF Sign
<1>2. ASSUME NEW n \in Nonces, NEW peer \in Endpoints, Validate(n, peer)
      PROVE AdmissionTypeOK'
  <2>1. Sweep \in [Nonces -> Nat \cup {Absent}]
    BY DEF Sweep
  <2>2. seen' \in [Nonces -> Nat \cup {Absent}]
    <3>1. ASSUME NEW r, r.expires \in Int
          PROVE Greater(r.expires, now + CacheTtl) \in Nat
      BY <3>1 DEF Greater
    <3>2. signed[n] # NoRequest => signed[n].expires \in Int
      BY DEF AccessRequest
    <3>3. CASE seen' = Sweep
      BY <3>3, <2>1
    <3>4. CASE seen' = [Sweep EXCEPT ![n] = Greater(signed[n].expires, now + CacheTtl)]
      BY <3>1, <3>2, <3>4, <2>1, <1>2 DEF Validate
    <3> QED BY <1>2, <3>3, <3>4 DEF Validate
  <2>3. accepted' \in [Nonces -> Nat]
    BY <1>2 DEF Validate
  <2>4. /\ asking' \in Nonces \cup {NoNonce} /\ askedAt' \in Times
        /\ asking' # NoNonce => signed'[asking'] # NoRequest
    BY <1>2 DEF Validate
  <2> QED BY <1>2, <2>2, <2>3, <2>4 DEF Validate
<1>3. ASSUME NEW c \in ConsentedCaps, Allow(c) PROVE AdmissionTypeOK'
  <2> DEFINE r == signed[asking]
  <2>1. r \in AccessRequest
    BY <1>3 DEF Allow
  <2>2. [endpoint |-> r.endpoint, notBefore |-> askedAt,
         expires |-> askedAt + MaxRequestTtl, caps |-> Granted(r, c)] \in SessionGrant
    BY <2>1, GrantedWithin DEF AccessRequest, SessionGrant
  <2>3. grants' \subseteq SessionGrant
    BY <1>3, <2>2 DEF Allow
  <2> QED BY <1>3, <2>3 DEF Allow
<1>4. CASE Deny
  BY <1>4 DEF Deny
<1>5. ASSUME NEW g \in grants, NEW peer \in Endpoints, Present(g, peer)
      PROVE AdmissionTypeOK'
  BY <1>5 DEF Present
<1>6. ASSUME NEW t \in TicketIds, IssueTicket(t) PROVE AdmissionTypeOK'
  <2>1. generation' \in 1 .. MaxGeneration
    BY <1>6 DEF IssueTicket, NextGeneration
  <2>2. [generation |-> generation', expires |-> now + TicketTtl] \in ConnectionTicket
    BY <2>1 DEF ConnectionTicket
  <2>3. ticket' \in [TicketIds -> ConnectionTicket \cup {NoTicket}]
    BY <1>6, <2>2 DEF IssueTicket
  <2> QED BY <1>6, <2>1, <2>3 DEF IssueTicket
<1>7. ASSUME NEW t \in TicketIds, ConsumeTicket(t) PROVE AdmissionTypeOK'
  BY <1>7 DEF ConsumeTicket
<1>8. ASSUME NEW t \in Times, ClockMoves(t) PROVE AdmissionTypeOK'
  BY <1>8 DEF ClockMoves
<1>9. CASE UNCHANGED vars
  BY <1>9 DEF vars
<1> QED BY <1>1, <1>2, <1>3, <1>4, <1>5, <1>6, <1>7, <1>8, <1>9
           DEF Next, Requests, Grants, Tickets

(* Every variable keeps its type for every value of the constants.          *)
THEOREM AdmissionTypeCorrect == Spec => []AdmissionTypeOK
BY AdmissionTypeInit, AdmissionTypeNext, PTL DEF Spec

-------------------------------------------------------------------------------
(* At first no request is accepted, so none twice.                          *)
LEMMA OnceInit == Init => OnceInv
BY DEF Init, OnceInv

(* An accepted request stays remembered while it is fresh, whatever is swept. *)
LEMMA OnceNext == AdmissionTypeOK /\ OnceInv /\ [Next]_vars => OnceInv'
<1> SUFFICES ASSUME AdmissionTypeOK, OnceInv, [Next]_vars PROVE OnceInv' OBVIOUS
<1> USE AdmissionAssumption DEF OnceInv, grantVars, ticketVars, requestVars
<1>1. ASSUME NEW n \in Nonces, NEW r, Sign(n, r) PROVE OnceInv'
  BY <1>1 DEF Sign, Remembered, AdmissionTypeOK
<1>2. ASSUME NEW n \in Nonces, NEW peer \in Endpoints, Validate(n, peer) PROVE OnceInv'
  <2>1. /\ signed \in [Nonces -> AccessRequest \cup {NoRequest}]
        /\ seen \in [Nonces -> Int] /\ now \in Nat /\ now' = now /\ signed' = signed
        /\ accepted \in [Nonces -> Nat]
    BY <1>2 DEF AdmissionTypeOK, Absent, Validate
  <2>2. \A m \in Nonces : signed[m] # NoRequest => signed[m].expires \in Int
    BY <2>1 DEF AccessRequest
  (* Sweeping forgets only requests that are no longer fresh.               *)
  <2>3. ASSUME NEW m \in Nonces, signed[m] # NoRequest, Remembered(m)
        PROVE  \/ Sweep[m] # Absent /\ signed[m].expires <= Sweep[m]
               \/ signed[m].expires < now
    BY <2>1, <2>2, <2>3 DEF Remembered, Sweep
  <2>4. CASE seen' = Sweep /\ accepted' = accepted
    BY <2>1, <2>3, <2>4 DEF Remembered
  <2>5. CASE /\ Sweep[n] = Absent
             /\ seen' = [Sweep EXCEPT ![n] = Greater(signed[n].expires, now + CacheTtl)]
             /\ accepted' = [accepted EXCEPT ![n] = @ + 1]
    <3>1. signed[n] # NoRequest /\ now <= signed[n].expires
      BY <1>2 DEF Validate, Fresh
    <3>2. accepted[n] = 0
      BY <2>1, <2>2, <2>3, <2>5, <3>1
    <3>3. Sweep \in [Nonces -> Int]
      BY <2>1 DEF Sweep, Absent
    <3>4. /\ Greater(signed[n].expires, now + CacheTtl) # Absent
          /\ signed[n].expires <= Greater(signed[n].expires, now + CacheTtl)
      BY <2>1, <2>2, <3>1 DEF Greater, Absent
    <3> HIDE DEF OnceInv
    <3>5. accepted'[n] = 1 /\ Remembered(n)'
      BY <2>1, <2>5, <3>2, <3>3, <3>4 DEF Remembered
    <3>6. ASSUME NEW m \in Nonces, m # n
          PROVE  accepted'[m] = accepted[m] /\ seen'[m] = Sweep[m]
      BY <2>1, <2>5, <3>3, <3>6
    <3>7. ASSUME NEW m \in Nonces, m # n
          PROVE  /\ accepted'[m] <= 1
                 /\ accepted'[m] = 1 => signed'[m] # NoRequest /\ Remembered(m)'
      BY <2>1, <2>3, <3>6, <3>7 DEF OnceInv, Remembered
    <3> QED BY <2>1, <3>1, <3>5, <3>7 DEF OnceInv
  <2> QED BY <1>2, <2>4, <2>5 DEF Validate
<1>3. ASSUME NEW c \in ConsentedCaps, Allow(c) PROVE OnceInv'
  BY <1>3 DEF Allow, Remembered
<1>4. CASE Deny
  BY <1>4 DEF Deny, Remembered
<1>5. ASSUME NEW g \in grants, NEW peer \in Endpoints, Present(g, peer) PROVE OnceInv'
  BY <1>5 DEF Present, Remembered
<1>6. ASSUME NEW t \in TicketIds, IssueTicket(t) \/ ConsumeTicket(t) PROVE OnceInv'
  BY <1>6 DEF IssueTicket, ConsumeTicket, Remembered
<1>7. ASSUME NEW t \in Times, now < t, ClockMoves(t) PROVE OnceInv'
  <2>1. now \in Nat /\ now' \in Nat /\ now < now' /\ seen' = seen
        /\ signed' = signed /\ accepted' = accepted
    BY <1>7 DEF ClockMoves, AdmissionTypeOK
  <2>2. \A m \in Nonces : signed[m] # NoRequest => signed[m].expires \in Int
    BY DEF AdmissionTypeOK, AccessRequest
  <2> QED BY <2>1, <2>2 DEF Remembered
<1>8. CASE UNCHANGED vars
  BY <1>8 DEF vars, Remembered
<1> QED BY <1>1, <1>2, <1>3, <1>4, <1>5, <1>6, <1>7, <1>8
           DEF Next, Requests, Grants, Tickets

(* A signed request is accepted at most once, whatever the clock of the     *)
(* controller, the lifetime it chose and the number of deliveries.          *)
THEOREM RequestAcceptedOnce == Spec => []AcceptedOnce
<1>1. OnceInv => AcceptedOnce
  BY DEF OnceInv, AcceptedOnce
<1> QED BY <1>1, AdmissionTypeCorrect, OnceInit, OnceNext, PTL DEF Spec

-------------------------------------------------------------------------------
(* At first no ticket is used.                                              *)
LEMMA TicketInit == Init => TicketInv
BY SMT DEF Init, TicketInv, NoTicket

(* A used ticket stays consumed or of an earlier generation.                *)
LEMMA TicketNext == AdmissionTypeOK /\ TicketInv /\ [Next]_vars => TicketInv'
<1> SUFFICES ASSUME AdmissionTypeOK, TicketInv, [Next]_vars PROVE TicketInv' OBVIOUS
<1> USE DEF TicketInv, ticketVars
<1>0. /\ generation \in Nat /\ uses \in [TicketIds -> Nat]
      /\ ticket \in [TicketIds -> ConnectionTicket \cup {NoTicket}]
      /\ \A t \in TicketIds : ticket[t] # NoTicket => ticket[t].generation \in Nat
  BY AdmissionAssumption DEF AdmissionTypeOK, ConnectionTicket
<1>1. ASSUME NEW t \in TicketIds, IssueTicket(t) PROVE TicketInv'
  <2>1. generation' = generation + 1 /\ uses' = uses /\ consumed' = {}
    BY <1>1 DEF IssueTicket, NextGeneration
  <2>2. \/ ticket' = ticket
        \/ ticket' = [ticket EXCEPT ![t] = [generation |-> generation', expires |-> now + TicketTtl]]
    BY <1>1 DEF IssueTicket
  <2>3. uses[t] # 1
    BY <1>1 DEF IssueTicket
  <2> QED BY <1>0, <2>1, <2>2, <2>3
<1>2. ASSUME NEW t \in TicketIds, ConsumeTicket(t) PROVE TicketInv'
  <2>1. uses[t] = 0
    BY <1>0, <1>2 DEF ConsumeTicket
  <2> QED BY <1>0, <1>2, <2>1 DEF ConsumeTicket
<1>3. CASE UNCHANGED ticketVars
  BY <1>3
<1> QED BY <1>1, <1>2, <1>3
           DEF Next, Requests, Grants, Tickets, Sign, Validate, Allow, Deny, Present,
               ClockMoves, vars

(* Minting a ticket clears the set of consumed ones and still no ticket is  *)
(* consumed twice: the generation moves in the same step.                   *)
THEOREM TicketConsumedOnce == Spec => []TicketUsedOnce
<1>1. TicketInv => TicketUsedOnce
  BY DEF TicketInv, TicketUsedOnce
<1> QED BY <1>1, AdmissionTypeCorrect, TicketInit, TicketNext, PTL DEF Spec

-------------------------------------------------------------------------------
(* At first there is no grant and no session.                               *)
LEMMA ConsentedInit == Init => GrantInv /\ SessionsConsented
BY DEF Init, GrantInv, SessionsConsented

(* A grant and its session stay within what was allowed.                    *)
LEMMA ConsentedNext ==
  AdmissionTypeOK /\ GrantInv /\ SessionsConsented /\ [Next]_vars
    => (GrantInv /\ SessionsConsented)'
<1> SUFFICES ASSUME AdmissionTypeOK, GrantInv, SessionsConsented, [Next]_vars
             PROVE (GrantInv /\ SessionsConsented)'
  OBVIOUS
<1> USE DEF GrantInv, SessionsConsented, grantVars
<1>1. ASSUME NEW c \in ConsentedCaps, Allow(c) PROVE (GrantInv /\ SessionsConsented)'
  <2> DEFINE r == signed[asking]
             consent == [endpoint |-> r.endpoint, caps |-> c, at |-> askedAt]
             grant == [endpoint |-> r.endpoint, notBefore |-> askedAt,
                       expires |-> askedAt + MaxRequestTtl, caps |-> Granted(r, c)]
  <2>1. /\ consents' = consents \cup {consent} /\ session' = session
        /\ grants' = grants \/ grants' = grants \cup {grant}
    BY <1>1 DEF Allow
  <2>2. /\ consent.endpoint = grant.endpoint /\ consent.at = grant.notBefore
        /\ grant.expires = consent.at + MaxRequestTtl
        /\ grant.caps \subseteq consent.caps /\ grant.caps \subseteq HostPolicy
    BY GrantedWithin
  <2> HIDE DEF consent, grant
  <2>3. GrantInv'
    BY <2>1, <2>2
  <2>4. SessionsConsented'
    BY <2>1
  <2> QED BY <2>3, <2>4
<1>2. ASSUME NEW g \in grants, NEW peer \in Endpoints, Present(g, peer)
      PROVE (GrantInv /\ SessionsConsented)'
  <2>1. PICK c \in consents :
          /\ c.endpoint = g.endpoint /\ g.caps \subseteq c.caps
          /\ c.at = g.notBefore /\ g.expires = c.at + MaxRequestTtl
    BY <1>2
  <2>2. g.endpoint = peer /\ g.notBefore <= now /\ now <= g.expires
    BY <1>2 DEF Present, ValidGrant
  <2>3. consents' = consents /\ grants' = grants
        /\ session' = [endpoint |-> peer, caps |-> g.caps, at |-> now]
    BY <1>2 DEF Present
  <2>4. /\ session'.endpoint = peer /\ session'.caps = g.caps /\ session'.at = now
    BY <2>3
  <2> QED BY <2>1, <2>2, <2>3, <2>4
<1>3. CASE UNCHANGED grantVars
  BY <1>3
<1> QED BY <1>1, <1>2, <1>3
           DEF Next, Requests, Grants, Tickets, Sign, Validate, Deny, IssueTicket,
               ConsumeTicket, ClockMoves, vars

(* A session never holds more than an Allow for its own endpoint stands     *)
(* for, and never opens after that Allow's grant has run out.               *)
THEOREM SessionsWithinConsent == Spec => []SessionsConsented
BY AdmissionTypeCorrect, ConsentedInit, ConsentedNext, PTL DEF Spec
================================================================================
