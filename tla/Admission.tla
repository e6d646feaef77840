------------------------------- MODULE Admission -------------------------------
(***************************************************************************)
(* Being let in: the rotating tickets and the nonce cache of                *)
(* crates/ras-bootstrap, and the request check, the grant and the grant     *)
(* check of crates/ras-grant.                                               *)
(*                                                                          *)
(* A signature either verifies or the message changes nothing, so only what *)
(* was really signed appears here.  It may be delivered at any moment, any  *)
(* number of times and by any endpoint.  A delivery that is refused before  *)
(* it reaches the nonce cache leaves every variable alone.                  *)
(***************************************************************************)
EXTENDS Integers, FiniteSets, Policy

CONSTANTS
  Nonces,          \* one per access request: 128 random bits each
  Endpoints,       \* identities the transport may authenticate
  RequestedCaps,   \* capability sets a controller may request
  ConsentedCaps,   \* capability sets an Allow may stand for
  HostPolicy,      \* the issuer's grantable policy
  Times,           \* readings of the host's wall clock
  Lifetimes,       \* lifetimes a controller may give its request
  MaxRequestTtl,   \* MAX_REQUEST_TTL_MS, also the lifetime of a grant
  ClockSkew,       \* CLOCK_SKEW_MS
  CacheTtl,        \* ttl_ms of the nonce cache
  MaxEntries,      \* max_entries of the nonce cache
  TicketTtl,       \* ttl_ms of the ticket authority
  MaxTickets,      \* bound: tickets minted
  MaxGeneration    \* bound: generations used, far below saturation

ASSUME AdmissionAssumption ==
  /\ Times \subseteq Nat /\ 0 \in Times /\ Lifetimes \subseteq Int
  /\ MaxRequestTtl \in Nat /\ ClockSkew \in Nat /\ CacheTtl \in Nat
  /\ MaxEntries \in Nat /\ TicketTtl \in Nat
  /\ MaxTickets \in Nat /\ MaxGeneration \in Nat

VARIABLES
  now,          \* the host's clock
  signed,       \* the request a controller signed under each nonce
  seen,         \* the nonce cache: until when each nonce is remembered
  accepted,     \* history: how often each request was accepted
  asking,       \* the request the local user is being asked about
  askedAt,      \* when that request was validated
  consents,     \* history: what the local user allowed, to whom, from when
  grants,       \* every grant issued
  session,      \* history: the latest session authorised
  generation,   \* active_generation of the ticket authority
  consumed,     \* the tickets consumed under it
  ticket,       \* every ticket minted
  uses          \* history: how often each ticket was consumed

requestVars == <<signed, seen, accepted, asking, askedAt>>
grantVars == <<consents, grants, session>>
ticketVars == <<generation, consumed, ticket, uses>>
vars == <<now, requestVars, grantVars, ticketVars>>

-------------------------------------------------------------------------------
Absent == -1            \* a nonce the cache does not hold
NoRequest == [issued |-> -1]
NoNonce == "none"
NoTicket == [generation |-> 0]
NoSession == [caps |-> {}]
TicketIds == 1 .. MaxTickets

AccessRequest ==
  [ endpoint : Endpoints, issued : Times, expires : Int, caps : RequestedCaps ]

SessionGrant ==
  [ endpoint : Endpoints, notBefore : Nat, expires : Nat,
    caps : SUBSET (Catalogue \cup FilePushCapabilities) ]

ConnectionTicket == [ generation : 1 .. MaxGeneration, expires : Nat ]

Greater(a, b) == IF a > b THEN a ELSE b

(* NonceCache::sweep keeps a nonce through the instant its request expires. *)
Sweep_Exclusive == [n \in Nonces |-> IF seen[n] > now THEN seen[n] ELSE Absent]
Sweep == [n \in Nonces |-> IF seen[n] >= now THEN seen[n] ELSE Absent]

Full(cache) == Cardinality({n \in Nonces : cache[n] # Absent}) >= MaxEntries

(* The freshness check of validate_access_request.                          *)
Fresh(r) ==
  /\ now <= r.expires
  /\ r.expires >= r.issued
  /\ r.expires - r.issued <= MaxRequestTtl
  /\ r.issued <= now + ClockSkew

(* The time and endpoint checks of validate_grant.                          *)
ValidGrant(g, peer) ==
  /\ g.endpoint = peer
  /\ g.notBefore <= now /\ now <= g.expires

-------------------------------------------------------------------------------
Init ==
  /\ now = 0
  /\ signed = [n \in Nonces |-> NoRequest] /\ seen = [n \in Nonces |-> Absent]
  /\ accepted = [n \in Nonces |-> 0] /\ asking = NoNonce /\ askedAt = 0
  /\ consents = {} /\ grants = {} /\ session = NoSession
  /\ generation = 0 /\ consumed = {}
  /\ ticket = [t \in TicketIds |-> NoTicket] /\ uses = [t \in TicketIds |-> 0]

(* A controller signs a request under a fresh nonce.  It reads its own      *)
(* clock, which may be behind or ahead of the host's.                       *)
Sign(n, r) ==
  /\ signed[n] = NoRequest
  /\ signed' = [signed EXCEPT ![n] = r]
  /\ UNCHANGED <<now, seen, accepted, asking, askedAt, grantVars, ticketVars>>

(* validate_access_request for the one bootstrap the host is handling: the  *)
(* nonce is looked up, and kept, before the capabilities are looked at.     *)
Validate(n, peer) ==
  LET r == signed[n] IN
  /\ asking = NoNonce
  /\ r # NoRequest /\ r.endpoint = peer /\ Fresh(r)
  /\ \/ /\ Sweep[n] # Absent \/ Full(Sweep)
        /\ seen' = Sweep
        /\ UNCHANGED <<accepted, asking, askedAt>>
     \/ /\ Sweep[n] = Absent /\ ~Full(Sweep)
        /\ seen' = [Sweep EXCEPT ![n] = Greater(r.expires, now + CacheTtl)]
        /\ accepted' = [accepted EXCEPT ![n] = @ + 1]
        /\ IF Recognize(r.caps) # {}
             THEN asking' = n /\ askedAt' = now
             ELSE UNCHANGED <<asking, askedAt>>
  /\ UNCHANGED <<now, signed, grantVars, ticketVars>>

(* What a grant carries, and two ways issue could get it wrong.             *)
Granted_NotConsented(r, consented) == Intersect(Recognize(r.caps), HostPolicy)
Granted_AsRequested(r, consented) == r.caps
Granted(r, consented) == Grantable(r.caps, HostPolicy, consented)

(* The user allows: issue narrows the request by the policy and by what the *)
(* Allow stands for.  The times of the grant are those of the validation.   *)
Allow(consented) ==
  /\ asking # NoNonce
  /\ LET r == signed[asking]
         caps == Granted(r, consented)
     IN  /\ consents' = consents \cup
              {[endpoint |-> r.endpoint, caps |-> consented, at |-> askedAt]}
         /\ grants' = IF caps = {} THEN grants
                      ELSE grants \cup {[endpoint |-> r.endpoint, notBefore |-> askedAt,
                             expires |-> askedAt + MaxRequestTtl, caps |-> caps]}
  /\ asking' = NoNonce /\ askedAt' = 0
  /\ UNCHANGED <<now, signed, seen, accepted, session, ticketVars>>

Deny ==
  /\ asking # NoNonce
  /\ asking' = NoNonce /\ askedAt' = 0
  /\ UNCHANGED <<now, signed, seen, accepted, grantVars, ticketVars>>

(* GrantSessionValidator::authorize on a session connection.                *)
Present(g, peer) ==
  /\ ValidGrant(g, peer)
  /\ session' = [endpoint |-> peer, caps |-> g.caps, at |-> now]
  /\ UNCHANGED <<now, requestVars, consents, grants, ticketVars>>

NextGeneration_Reused == IF generation = 0 THEN 1 ELSE generation
NextGeneration == generation + 1

(* TicketAuthority::issue.  The generation moves and the consumed set is    *)
(* cleared before the random id is drawn and the ticket signed, either of   *)
(* which may fail.                                                          *)
IssueTicket(t) ==
  /\ ticket[t] = NoTicket /\ generation < MaxGeneration
  /\ generation' = NextGeneration
  /\ consumed' = {}
  /\ \/ ticket' = [ticket EXCEPT ![t] = [generation |-> generation', expires |-> now + TicketTtl]]
     \/ UNCHANGED ticket
  /\ UNCHANGED <<now, requestVars, grantVars, uses>>

(* TicketAuthority::consume, when every check passes.                       *)
ConsumeTicket(t) ==
  /\ ticket[t] # NoTicket
  /\ now <= ticket[t].expires
  /\ ticket[t].generation = generation
  /\ t \notin consumed
  /\ consumed' = consumed \cup {t}
  /\ uses' = [uses EXCEPT ![t] = @ + 1]
  /\ UNCHANGED <<now, requestVars, grantVars, generation, ticket>>

ClockMoves(time) == now' = time /\ UNCHANGED <<requestVars, grantVars, ticketVars>>

Requests ==
  \/ \E n \in Nonces, e \in Endpoints, i \in Times, l \in Lifetimes, c \in RequestedCaps :
       Sign(n, [endpoint |-> e, issued |-> i, expires |-> i + l, caps |-> c])
  \/ \E n \in Nonces, peer \in Endpoints : Validate(n, peer)

Grants ==
  \/ \E c \in ConsentedCaps : Allow(c)
  \/ Deny
  \/ \E g \in grants, peer \in Endpoints : Present(g, peer)

Tickets == \E t \in TicketIds : IssueTicket(t) \/ ConsumeTicket(t)

(* The host's clock never goes back: see ClockJumps for what needs it.      *)
Next == Requests \/ Grants \/ Tickets \/ \E t \in Times : now < t /\ ClockMoves(t)

Spec == Init /\ [][Next]_vars

(* The same host when somebody sets its wall clock back.                    *)
ClockJumps == Init /\ [][Next \/ \E t \in Times : t < now /\ ClockMoves(t)]_vars

-------------------------------------------------------------------------------
(* Properties.                                                              *)

(* Type correctness of the cache, the request, the grants and the tickets.  *)
AdmissionTypeOK ==
  /\ now \in Times
  /\ signed \in [Nonces -> AccessRequest \cup {NoRequest}]
  /\ seen \in [Nonces -> Nat \cup {Absent}]
  /\ accepted \in [Nonces -> Nat]
  /\ asking \in Nonces \cup {NoNonce} /\ askedAt \in Times
  /\ asking # NoNonce => signed[asking] # NoRequest
  /\ grants \subseteq SessionGrant
  /\ generation \in 0 .. MaxGeneration /\ consumed \subseteq TicketIds
  /\ ticket \in [TicketIds -> ConnectionTicket \cup {NoTicket}]
  /\ uses \in [TicketIds -> Nat]

(* A signed request is accepted at most once, however often it is delivered *)
(* and whatever the clocks of the two machines: validate_access_request     *)
(* keeps the nonce as long as the same bytes would still pass as fresh.     *)
AcceptedOnce == \A n \in Nonces : accepted[n] <= 1

(* A ticket is consumed at most once, also when another is minted between   *)
(* two uses and clears the set of the consumed ones.                        *)
TicketUsedOnce == \A t \in TicketIds : uses[t] <= 1

(* A session opens for an endpoint only within the lifetime of a grant that *)
(* follows an Allow for that endpoint, and holds nothing that Allow did not *)
(* stand for nor anything the host's policy withholds.                      *)
SessionsConsented ==
  session # NoSession =>
    /\ session.caps \subseteq HostPolicy
    /\ \E c \in consents : /\ c.endpoint = session.endpoint
                           /\ session.caps \subseteq c.caps
                           /\ c.at <= session.at /\ session.at <= c.at + MaxRequestTtl
================================================================================
