----------------------------- MODULE LeaseManager -----------------------------
(***************************************************************************)
(* The OS-input control lease of crates/ras-control: at most one holder may *)
(* inject OS input, and every input message passes the gate of              *)
(* authorize_input.  Each public method of the LeaseManager struct is one   *)
(* action; the host calls them under one mutex, so each is atomic.          *)
(*                                                                          *)
(* Messages are not stored: an envelope is what the wire may carry at any   *)
(* moment, so every step may present any envelope at all, which includes    *)
(* every duplicated, delayed, reordered or forged one.                      *)
(***************************************************************************)
EXTENDS Integers, Sequences, Policy

CONSTANTS
  GrantCaps,      \* capabilities of the session grant
  GrantExpiry,    \* when the session grant expires (host clock)
  MinTtl, MaxTtl, \* LEASE_MIN_TTL_MS and LEASE_MAX_TTL_MS
  Ttls,           \* lifetimes a caller may ask for
  Times,          \* readings of the host's wall clock
  GenMod,         \* generations are counted modulo GenMod (2^32 in the code)
  InitGen,        \* the grant's session_generation
  Requests,       \* capability sets a controller may request
  Consents,       \* capability sets the local user may consent to
  Seqs,           \* sequence numbers an envelope may carry
  Layouts,        \* capture-geometry layout versions
  MaxLeases,      \* bound: leases issued in one behaviour
  MaxInjected     \* bound: inputs injected in one behaviour

ASSUME LeaseAssumption ==
  /\ GrantExpiry \in Nat /\ MinTtl \in Nat /\ MaxTtl \in Nat
  /\ MinTtl <= MaxTtl
  /\ Ttls \subseteq Nat /\ Times \subseteq Nat /\ Times # {}
  /\ GenMod \in Nat \ {0} /\ InitGen \in 0 .. GenMod - 1
  /\ Seqs \subseteq Nat /\ Layouts \subseteq Nat /\ 0 \in Layouts
  /\ MaxLeases \in Nat /\ MaxInjected \in Nat

VARIABLES
  active,        \* the live lease, or NoLease
  generation,    \* session generation, wrapping
  lastSeq,       \* highest sequence number accepted under this generation
  layoutVersion, \* the host's current capture-geometry layout version
  now,           \* the host's wall clock
  issued,        \* number of leases issued so far
  injected       \* history: the inputs the gate let through, in order

vars == <<active, generation, lastSeq, layoutVersion, now, issued, injected>>

-------------------------------------------------------------------------------
(* A lease id is 16 bytes of OS entropy, so no two leases share one: the    *)
(* n-th lease is called n.                                                  *)
LeaseIds == 1 .. MaxLeases
NoLease == [id |-> 0]
Generations == 0 .. GenMod - 1

Lease == [ id : LeaseIds, capabilities : SUBSET (Catalogue \cup FilePushCapabilities),
           generation : Generations, expiresAt : Nat ]

(* required_cap: ReleaseAllKeys only clears state and needs nothing; an     *)
(* action this build does not know needs a capability no grant can hold.    *)
RequiredCap ==
  [ PointerMove         |-> {"pointer.move"},
    PointerMoveRelative |-> {"pointer.move"},
    PointerButton       |-> {"pointer.click"},
    PointerWheel        |-> {"pointer.scroll"},
    KeyEvent            |-> {"keyboard.key"},
    TextInput           |-> {"keyboard.text"},
    SetLockState        |-> {"keyboard.key"},
    ReleaseAllKeys      |-> {},
    Unrecognized        |-> {"deny-unknown-action"} ]

Actions == DOMAIN RequiredCap

(* action_layout_version: the actions whose coordinates can be stale.       *)
Coordinate == { "PointerMove", "PointerButton" }

Envelope == [ leaseId : LeaseIds, generation : Generations, seq : Seqs,
              action : Actions, layout : Layouts ]

Bump_NoWrap(g) == g + 1                       \* mutant of Bump
Bump(g) == (g + 1) % GenMod
Least(a, b) == IF a <= b THEN a ELSE b
Greatest(a, b) == IF a >= b THEN a ELSE b
Clamp(ttl) == Least(Greatest(ttl, MinTtl), MaxTtl)
ExpiryOf_NotCapped(ttl) == now + Clamp(ttl)   \* mutant of ExpiryOf
ExpiryOf(ttl) == Least(now + Clamp(ttl), GrantExpiry)

Expired == active # NoLease /\ now > active.expiresAt

-------------------------------------------------------------------------------
Init ==
  /\ active = NoLease
  /\ generation = InitGen
  /\ lastSeq = 0
  /\ layoutVersion = 0
  /\ now \in Times
  /\ issued = 0
  /\ injected = <<>>

(* issue, and transfer which is issue under another name: the generation    *)
(* bump makes the departing holder's messages stale.                        *)
Issue(requested, consented, ttl) ==
  /\ issued < MaxLeases
  /\ "control.request" \in GrantCaps
  /\ issued' = issued + 1
  /\ generation' = Bump(generation)
  /\ lastSeq' = 0
  /\ active' = [ id |-> issued + 1,
                 capabilities |-> Grantable(requested, GrantCaps, consented),
                 generation |-> Bump(generation),
                 expiresAt |-> ExpiryOf(ttl) ]
  /\ UNCHANGED <<layoutVersion, now, injected>>

(* renew: same lease, same generation and same sequence window.             *)
Renew(id, ttl) ==
  /\ active # NoLease
  /\ active.id = id
  /\ ~Expired
  /\ active' = [active EXCEPT !.expiresAt = ExpiryOf(ttl)]
  /\ UNCHANGED <<generation, lastSeq, layoutVersion, now, issued, injected>>

(* revoke_all: emergency stop, release, replacement and teardown.           *)
RevokeAll ==
  /\ generation' = Bump(generation)
  /\ active' = NoLease
  /\ lastSeq' = 0
  /\ UNCHANGED <<layoutVersion, now, issued, injected>>

(* revoke_if_expired: the sweep that drops an expired lease.                *)
RevokeIfExpired == Expired /\ RevokeAll

SetLayoutVersion(version) ==
  /\ layoutVersion' = version
  /\ UNCHANGED <<active, generation, lastSeq, now, issued, injected>>

(* Mutants of the gate and of the expiry, for checking the properties.      *)
Authorized_SeqNotStrict(env) ==
  /\ env.generation = generation
  /\ active # NoLease /\ env.leaseId = active.id
  /\ ~Expired
  /\ env.seq >= lastSeq
  /\ env.action \in Coordinate => env.layout = layoutVersion
  /\ RequiredCap[env.action] \subseteq active.capabilities
Authorized_AnyLease(env) ==
  /\ env.generation = generation
  /\ active # NoLease
  /\ ~Expired
  /\ env.seq > lastSeq
  /\ env.action \in Coordinate => env.layout = layoutVersion
  /\ RequiredCap[env.action] \subseteq active.capabilities

(* The six checks of authorize_input.  First failure wins in the code, but  *)
(* a refusal changes nothing, so their order shows only in the error code.  *)
Authorized(env) ==
  /\ env.generation = generation
  /\ active # NoLease /\ env.leaseId = active.id
  /\ ~Expired
  /\ env.seq > lastSeq
  /\ env.action \in Coordinate => env.layout = layoutVersion
  /\ RequiredCap[env.action] \subseteq active.capabilities

(* authorize_input on an envelope that passes.                              *)
AuthorizeInput(env) ==
  /\ Authorized(env)
  /\ Len(injected) < MaxInjected
  /\ lastSeq' = env.seq
  /\ injected' = Append(injected, [tenure |-> env.leaseId, seq |-> env.seq])
  /\ UNCHANGED <<active, generation, layoutVersion, now, issued>>

(* The clock is the operating system's wall clock, read anew by each call:  *)
(* it may jump either way.                                                  *)
ClockChanges ==
  /\ now' \in Times
  /\ UNCHANGED <<active, generation, lastSeq, layoutVersion, issued, injected>>

Next ==
  \/ \E requested \in Requests, consented \in Consents, ttl \in Ttls :
        Issue(requested, consented, ttl)
  \/ \E id \in LeaseIds, ttl \in Ttls : Renew(id, ttl)
  \/ RevokeAll
  \/ RevokeIfExpired
  \/ \E version \in Layouts : SetLayoutVersion(version)
  \/ \E env \in Envelope : AuthorizeInput(env)
  \/ ClockChanges

Spec == Init /\ [][Next]_vars

-------------------------------------------------------------------------------
(* Types of the manager's fields.                                           *)
TypeOK ==
  /\ active \in Lease \cup {NoLease}
  /\ generation \in Generations
  /\ lastSeq \in Nat
  /\ layoutVersion \in Layouts
  /\ now \in Times
  /\ issued \in 0 .. MaxLeases
  /\ injected \in Seq([tenure : LeaseIds, seq : Nat])

(* Two holders' inputs never interleave and no input is injected twice or   *)
(* out of order: along the history the lease never goes back, and within a  *)
(* lease the sequence number strictly grows, across renewals, whatever the  *)
(* wire duplicates or delays and however the generation wraps               *)
(* (authorize_input, "an event with any other generation is rejected").     *)
TenuresDisjoint ==
  \A i, j \in DOMAIN injected :
    i < j => \/ injected[i].tenure < injected[j].tenure
             \/ /\ injected[i].tenure = injected[j].tenure
                /\ injected[i].seq < injected[j].seq

(* No escalation past the grant: whatever arrives, an input that would pass *)
(* the gate is one the session grant covers, at a time before the grant     *)
(* expired, also after any number of renewals and clock jumps.              *)
WithinGrant ==
  \A env \in Envelope :
    Authorized(env) => /\ now <= GrantExpiry
                       /\ RequiredCap[env.action] \subseteq GrantCaps
                       /\ "control.request" \in GrantCaps

(* The lease manager implements the promise of one controller at a time.    *)
Controller ==
  INSTANCE SingleController
    WITH Tenures <- MaxLeases, tenure <- active.id, begun <- issued,
         log <- injected
ImplementsSingleController == Controller!Spec

===============================================================================
