--------------------------- MODULE HostControlProofs ---------------------------
(***************************************************************************)
(* For every grant, clock, envelope and number of leases: the fields of    *)
(* the lease manager keep their types, no input escapes the grant, the     *)
(* inputs of two holders never interleave, and the manager implements      *)
(* SingleController. Then for any number of stopping threads, keys, leases *)
(* and inputs: no key is down once a stop has flushed or the control task  *)
(* is gone, every lease has its own Allow, and an ended lease leaves at    *)
(* most one key down.                                                      *)
(***************************************************************************)
EXTENDS HostControl, TLAPS

(* The lease manager. *)

(* The live lease is the last one issued, under the current generation,     *)
(* within the grant, and its sequence window covers what it has injected.   *)
LeaseCurrent ==
  active # NoLease => /\ active.id = issued
                      /\ active.capabilities \subseteq GrantCaps
                      /\ active.expiresAt <= GrantExpiry
                      /\ "control.request" \in GrantCaps

HistoryOld ==
  \A i \in DOMAIN injected : /\ injected[i].tenure <= issued
                             /\ injected[i].tenure = active.id =>
                                  injected[i].seq <= lastSeq

IInv == TypeOK /\ LeaseCurrent /\ HistoryOld /\ TenuresDisjoint

(* A granted set never exceeds the request, the policy or the consent, and  *)
(* holds recognised names only (ras-policy, grantable).                     *)
LEMMA GrantableBounds ==
  ASSUME NEW requested, NEW policy, NEW consented
  PROVE  /\ Grantable(requested, policy, consented) \subseteq policy
         /\ Grantable(requested, policy, consented) \subseteq consented
         /\ Grantable(requested, policy, consented) \subseteq requested
         /\ Grantable(requested, policy, consented)
              \subseteq Catalogue \cup FilePushCapabilities
BY DEF Grantable, Intersect, Recognize, IsRecognized

(* A lease ends no later than its grant.                                    *)
LEMMA ExpiryBounds ==
  ASSUME NEW ttl \in Ttls, TypeOK
  PROVE  ExpiryOf(ttl) \in Nat /\ ExpiryOf(ttl) <= GrantExpiry
BY LeaseAssumption DEF TypeOK, ExpiryOf, Clamp, Least, Greatest

(* The generation stays in its range.                                       *)
LEMMA BumpType == ASSUME NEW g \in Generations PROVE Bump(g) \in Generations
BY LeaseAssumption DEF Generations, Bump

(* The absent lease is none of the leases.                                  *)
LEMMA NoLeaseId == NoLease.id = 0 /\ NoLease \notin Lease
BY DEF NoLease, Lease, LeaseIds

(* A lease always has an id from 1 up, so id 0 is nobody.                   *)
LEMMA ActiveId ==
  ASSUME TypeOK PROVE (active.id = 0) <=> (active = NoLease)
BY NoLeaseId DEF TypeOK, Lease, LeaseIds

(* Every history entry names a lease and a natural sequence number.         *)
LEMMA HistoryTyped ==
  ASSUME TypeOK, NEW i \in DOMAIN injected
  PROVE  /\ injected[i].tenure \in Nat \ {0}
         /\ injected[i].seq \in Nat
<1> DEFINE Input == [tenure : LeaseIds, seq : Nat]
<1>0. injected \in Seq(Input) BY DEF TypeOK
<1>1. injected[i] \in Input
  <2> HIDE DEF Input
  <2>1. DOMAIN injected = 1 .. Len(injected) /\ i \in 1 .. Len(injected) BY <1>0
  <2> QED BY <1>0, <2>1
<1>2. LeaseIds \subseteq Nat \ {0} BY LeaseAssumption DEF LeaseIds
<1> QED BY <1>1, <1>2

(* A new manager satisfies the invariant.                                   *)
LEMMA IInvInit == Init => IInv
<1> SUFFICES ASSUME Init PROVE IInv OBVIOUS
<1>1. TypeOK BY LeaseAssumption DEF Init, TypeOK, Generations
<1>2. LeaseCurrent BY DEF Init, LeaseCurrent
<1>3. HistoryOld /\ TenuresDisjoint BY DEF Init, HistoryOld, TenuresDisjoint
<1> QED BY <1>1, <1>2, <1>3 DEF IInv

(* Every step preserves the invariant.                                      *)
LEMMA IInvNext == IInv /\ [Next]_vars => IInv'
<1> SUFFICES ASSUME IInv, [Next]_vars PROVE IInv' OBVIOUS
<1> USE DEF IInv
<1>1. ASSUME NEW requested \in Requests, NEW consented \in Consents,
             NEW ttl \in Ttls, Issue(requested, consented, ttl)
      PROVE  IInv'
  <2> DEFINE caps == Grantable(requested, GrantCaps, consented)
  <2>1. active' \in Lease /\ active'.id = issued' /\ active'.capabilities = caps
        /\ active'.expiresAt = ExpiryOf(ttl)
    <3>1. caps \in SUBSET (Catalogue \cup FilePushCapabilities)
      BY GrantableBounds
    <3>2. ExpiryOf(ttl) \in Nat
      BY ExpiryBounds
    <3>3. Bump(generation) \in Generations
      BY BumpType DEF TypeOK
    <3>4. issued + 1 \in LeaseIds
      BY <1>1, LeaseAssumption DEF Issue, TypeOK, LeaseIds
    <3> HIDE DEF caps
    <3>5. active' = [ id |-> issued + 1, capabilities |-> caps,
                      generation |-> Bump(generation), expiresAt |-> ExpiryOf(ttl) ]
          /\ issued' = issued + 1
      BY <1>1 DEF Issue, caps
    <3> QED BY <3>1, <3>2, <3>3, <3>4, <3>5 DEF Lease
  <2>2. TypeOK'
    <3>1. issued' \in 0 .. MaxLeases
      BY <1>1, LeaseAssumption DEF Issue, TypeOK
    <3>2. lastSeq' \in Nat /\ generation' \in Generations
      BY <1>1, BumpType DEF Issue, TypeOK
    <3>3. UNCHANGED <<layoutVersion, now, injected>>
      BY <1>1 DEF Issue
    <3> QED BY <2>1, <3>1, <3>2, <3>3 DEF TypeOK
  <2>3. LeaseCurrent'
    BY <1>1, <2>1, GrantableBounds, ExpiryBounds DEF Issue, LeaseCurrent
  <2>4. HistoryOld'
    <3>1. issued \in Nat /\ issued' = issued + 1 /\ injected' = injected
      BY <1>1, LeaseAssumption DEF Issue, TypeOK
    <3>2. \A i \in DOMAIN injected : injected[i].tenure < issued'
      BY <3>1, HistoryTyped DEF HistoryOld
    <3> QED BY <2>1, <3>1, <3>2, HistoryTyped DEF HistoryOld
  <2>5. TenuresDisjoint'
    BY <1>1 DEF Issue, TenuresDisjoint
  <2> QED BY <2>2, <2>3, <2>4, <2>5
<1>2. ASSUME NEW id \in LeaseIds, NEW ttl \in Ttls, Renew(id, ttl)
      PROVE  IInv'
  <2>1. /\ active' \in Lease /\ active' # NoLease /\ active'.id = active.id
        /\ active'.capabilities = active.capabilities
        /\ active'.expiresAt = ExpiryOf(ttl)
    BY <1>2, ExpiryBounds, NoLeaseId DEF Renew, Lease, TypeOK
  <2>2. TypeOK'
    BY <1>2, <2>1 DEF Renew, TypeOK
  <2>3. LeaseCurrent'
    BY <1>2, <2>1, ExpiryBounds DEF Renew, LeaseCurrent
  <2>4. HistoryOld' /\ TenuresDisjoint'
    BY <1>2, <2>1 DEF Renew, HistoryOld, TenuresDisjoint
  <2> QED BY <2>2, <2>3, <2>4
<1>3. ASSUME RevokeAll PROVE IInv'
  <2>1. TypeOK'
    BY <1>3, BumpType DEF RevokeAll, TypeOK
  <2>2. LeaseCurrent'
    BY <1>3 DEF RevokeAll, LeaseCurrent
  <2>3. HistoryOld'
    <3>1. active'.id = 0 /\ injected' = injected /\ issued' = issued
      BY <1>3, NoLeaseId DEF RevokeAll
    <3> QED BY <3>1, HistoryTyped DEF HistoryOld
  <2>4. TenuresDisjoint'
    BY <1>3 DEF RevokeAll, TenuresDisjoint
  <2> QED BY <2>1, <2>2, <2>3, <2>4
<1>4. CASE RevokeIfExpired
  BY <1>3, <1>4 DEF RevokeIfExpired
<1>5. ASSUME NEW version \in Layouts, SetLayoutVersion(version) PROVE IInv'
  BY <1>5 DEF SetLayoutVersion, TypeOK, LeaseCurrent, HistoryOld, TenuresDisjoint
<1>6. ASSUME NEW env \in Envelope, AuthorizeInput(env) PROVE IInv'
  <2> DEFINE input == [tenure |-> env.leaseId, seq |-> env.seq]
  <2>1. /\ active # NoLease /\ env.leaseId = active.id /\ env.leaseId = issued
        /\ env.seq \in Nat /\ env.seq > lastSeq
    BY <1>6, LeaseAssumption DEF AuthorizeInput, Authorized, LeaseCurrent, Envelope
  <2>2. input \in [tenure : LeaseIds, seq : Nat]
    BY <2>1 DEF Envelope
  <2>3. TypeOK'
    BY <1>6, <2>1, <2>2 DEF AuthorizeInput, TypeOK
  <2>4. LeaseCurrent'
    BY <1>6 DEF AuthorizeInput, LeaseCurrent
  <2>5. /\ Len(injected') = Len(injected) + 1
        /\ injected'[Len(injected) + 1] = input
        /\ \A i \in 1 .. Len(injected) : injected'[i] = injected[i]
        /\ DOMAIN injected = 1 .. Len(injected)
        /\ DOMAIN injected' = 1 .. Len(injected) + 1
    BY <1>6, <2>2 DEF AuthorizeInput, TypeOK
  <2>6. \A i \in 1 .. Len(injected) :
          /\ injected[i].tenure \in Nat /\ injected[i].seq \in Nat
          /\ injected[i].tenure <= issued
          /\ injected[i].tenure = active.id => injected[i].seq < env.seq
    <3>1. lastSeq \in Nat BY DEF TypeOK
    <3> QED BY <2>1, <2>5, <3>1, HistoryTyped DEF HistoryOld
  <2>7. HistoryOld'
    <3>1. lastSeq' = env.seq /\ active' = active /\ issued' = issued
      BY <1>6 DEF AuthorizeInput
    <3>2. issued \in Nat
      BY LeaseAssumption DEF TypeOK
    <3>3. ASSUME NEW i \in DOMAIN injected'
          PROVE  /\ injected'[i].tenure <= issued'
                 /\ injected'[i].tenure = active'.id => injected'[i].seq <= lastSeq'
      <4>1. CASE i \in 1 .. Len(injected)
        <5>1. injected'[i] = injected[i] BY <2>5, <4>1
        <5>2. injected[i].seq \in Nat /\ env.seq \in Nat BY <2>1, <2>6, <4>1
        <5> QED BY <2>6, <3>1, <4>1, <5>1, <5>2
      <4>2. CASE i = Len(injected) + 1
        BY <2>1, <2>5, <3>1, <3>2, <4>2
      <4> QED BY <2>5, <4>1, <4>2
    <3> QED BY <3>3 DEF HistoryOld
  <2>8. TenuresDisjoint'
    <3> SUFFICES ASSUME NEW i \in DOMAIN injected', NEW j \in DOMAIN injected', i < j
                 PROVE  \/ injected'[i].tenure < injected'[j].tenure
                        \/ /\ injected'[i].tenure = injected'[j].tenure
                           /\ injected'[i].seq < injected'[j].seq
      BY DEF TenuresDisjoint
    <3>1. CASE j \in 1 .. Len(injected)
      <4>1. i \in 1 .. Len(injected) /\ j \in DOMAIN injected /\ i \in DOMAIN injected
        BY <2>5, <3>1 DEF TypeOK
      <4> QED BY <2>5, <3>1, <4>1 DEF TenuresDisjoint
    <3>2. CASE j = Len(injected) + 1
      <4>1. i \in 1 .. Len(injected)
        BY <2>5, <3>2 DEF TypeOK
      <4>2. active.id = issued /\ issued \in Nat
        BY <2>1, LeaseAssumption DEF LeaseCurrent, TypeOK
      <4>3. /\ injected'[j].tenure = issued /\ injected'[j].seq = env.seq
            /\ injected'[i] = injected[i]
        BY <2>1, <2>5, <3>2, <4>1
      <4> QED BY <2>6, <4>1, <4>2, <4>3
    <3> QED BY <2>5, <3>1, <3>2 DEF TypeOK
  <2> QED BY <2>3, <2>4, <2>7, <2>8
<1>7. CASE ClockChanges
  BY <1>7 DEF ClockChanges, TypeOK, LeaseCurrent, HistoryOld, TenuresDisjoint
<1>8. CASE UNCHANGED vars
  BY <1>8 DEF vars, TypeOK, LeaseCurrent, HistoryOld, TenuresDisjoint
<1> QED BY <1>1, <1>2, <1>3, <1>4, <1>5, <1>6, <1>7, <1>8 DEF Next

-------------------------------------------------------------------------------
(* The invariant of the manager holds in every behaviour.                   *)
THEOREM Invariance == Spec => []IInv
BY IInvInit, IInvNext, PTL DEF Spec

(* The manager's fields keep their types, the generation its 32-bit range.  *)
THEOREM TypeCorrect == Spec => []TypeOK
<1>1. IInv => TypeOK BY DEF IInv
<1> QED BY Invariance, <1>1, PTL

(* Inputs of two holders never interleave and none is injected twice        *)
(* (authorize_input under any duplication, delay and generation wrap).      *)
THEOREM TenuresNeverInterleave == Spec => []TenuresDisjoint
<1>1. IInv => TenuresDisjoint BY DEF IInv
<1> QED BY Invariance, <1>1, PTL

(* An input the gate lets through is covered by the session grant and comes *)
(* no later than the grant's expiry.                                        *)
THEOREM NoEscalation == Spec => []WithinGrant
<1>1. IInv => WithinGrant
  <2> SUFFICES ASSUME IInv, NEW env \in Envelope, Authorized(env)
               PROVE  /\ now <= GrantExpiry
                      /\ RequiredCap[env.action] \subseteq GrantCaps
                      /\ "control.request" \in GrantCaps
    BY DEF WithinGrant
  <2>1. active # NoLease /\ ~Expired BY DEF Authorized
  <2>2. active.expiresAt \in Nat /\ now \in Nat
    BY <2>1, LeaseAssumption DEF IInv, TypeOK, Lease
  <2>3. now <= GrantExpiry
    BY <2>1, <2>2, LeaseAssumption DEF IInv, LeaseCurrent, Expired
  <2>4. RequiredCap[env.action] \subseteq GrantCaps
    BY <2>1 DEF IInv, LeaseCurrent, Authorized
  <2> QED BY <2>1, <2>3, <2>4 DEF IInv, LeaseCurrent
<1> QED BY Invariance, <1>1, PTL

(* The lease manager implements the single-controller promise.              *)
THEOREM LeaseRefinesController == Spec => ImplementsSingleController
<1>1. Init => Controller!Init
  BY NoLeaseId DEF Init, Controller!Init
<1>2. IInv /\ [Next]_vars => [Controller!Next]_(Controller!avars)
  <2> SUFFICES ASSUME IInv, [Next]_vars
               PROVE  Controller!Next \/ UNCHANGED <<active.id, issued, injected>>
    BY DEF Controller!avars
  <2>1. ASSUME NEW requested \in Requests, NEW consented \in Consents,
               NEW ttl \in Ttls, Issue(requested, consented, ttl)
        PROVE  Controller!Begin
    BY <2>1, LeaseAssumption DEF Issue, Controller!Begin
  <2>2. ASSUME NEW id \in LeaseIds, NEW ttl \in Ttls, Renew(id, ttl)
        PROVE  UNCHANGED <<active.id, issued, injected>>
    BY <2>2 DEF Renew, IInv, TypeOK, Lease
  <2>3. ASSUME RevokeAll PROVE Controller!End
    BY <2>3, NoLeaseId DEF RevokeAll, Controller!End
  <2>4. ASSUME NEW env \in Envelope, AuthorizeInput(env)
        PROVE  env.seq \in Seqs /\ Controller!Inject(env.seq)
    <3>1. /\ active # NoLease /\ env.leaseId = active.id /\ env.seq > lastSeq
          /\ env.seq \in Seqs /\ env.seq \in Nat
      BY <2>4, LeaseAssumption DEF AuthorizeInput, Authorized, Envelope
    <3>2. active.id # 0
      BY <3>1, ActiveId DEF IInv
    <3>3. \A i \in DOMAIN injected :
            injected[i].tenure = active.id => injected[i].seq < env.seq
      <4>1. TypeOK /\ HistoryOld /\ lastSeq \in Nat BY DEF IInv, TypeOK
      <4> QED BY <3>1, <4>1, HistoryTyped DEF HistoryOld
    <3> QED BY <2>4, <3>1, <3>2, <3>3 DEF AuthorizeInput, Controller!Inject
  <2>5. CASE ClockChanges \/ UNCHANGED vars
    BY <2>5 DEF ClockChanges, vars
  <2>6. ASSUME NEW version \in Layouts, SetLayoutVersion(version)
        PROVE  UNCHANGED <<active.id, issued, injected>>
    BY <2>6 DEF SetLayoutVersion
  <2> QED
    BY <2>1, <2>2, <2>3, <2>4, <2>5, <2>6 DEF Next, RevokeIfExpired, Controller!Next
<1> QED
  BY Invariance, <1>1, <1>2, PTL DEF Spec, ImplementsSingleController, Controller!Spec

-----------------------------------------------------------------------------
(* The control task, the prompt and the stopping threads. *)

(* What the control task and the prompt are working on.                     *)
WorkOK ==
  /\ ctl \in Finishing => work.requested \in Requests /\ work.consented \in Consents
  /\ ctl = "dispatch" => work.lease \in LeaseIds
  /\ prompt.state # "none" => prompt.requested \in Requests
  /\ prompt.state = "answered" => prompt.consented \in Consents

(* A stopping thread that has begun has set the flag; only one that has     *)
(* flushed aborts the control task.                                         *)
StopOK ==
  /\ stopper \in [Stoppers -> {"idle", "revoke", "flush", "ignored"} \cup Flushed]
  /\ \A s \in Stoppers : stopper[s] # "idle" => stop
  /\ aborting => \E s \in Stoppers : stopper[s] = "done"

KeysInv == StopOK /\ KeysReleasedAtEnd

(* Allows not yet turned into a lease: one being worked on, one in the      *)
(* prompt's answer.                                                         *)
ConsentInv ==
  /\ issued \in Nat /\ allowed \in Nat
  /\ ctl \in Finishing => prompt.state = "none"
  /\ issued + (IF ctl \in Finishing THEN 1 ELSE 0)
            + (IF prompt.state = "answered" /\ prompt.consented # {} THEN 1 ELSE 0)
       <= allowed

-------------------------------------------------------------------------------
(* At first the control task is idle.                                       *)
LEMMA WorkInit == HostInit => WorkOK
BY DEF HostInit, WorkOK, NoPrompt, Finishing

(* The task works only on what it was sent.                                 *)
LEMMA WorkNext == WorkOK /\ [HostNext]_allVars => WorkOK'
<1> SUFFICES ASSUME WorkOK, [HostNext]_allVars PROVE WorkOK' OBVIOUS
<1> USE DEF WorkOK, Finishing
<1>1. ASSUME NEW requested \in Requests, ReceiveControlRequest(requested) PROVE WorkOK'
  BY <1>1 DEF ReceiveControlRequest
<1>2. ASSUME NEW consented \in Consents, UserAnswers(consented) PROVE WorkOK'
  BY <1>2 DEF UserAnswers
<1>3. CASE ConsentResolved
  BY <1>3 DEF ConsentResolved, NoPrompt
<1>4. CASE FinishChecksStop \/ FinishChecksReplacing \/ FinishRevokesOld \/ FinishFlushesOld
  BY <1>4 DEF FinishChecksStop, FinishChecksReplacing, FinishRevokesOld,
              FinishFlushesOld, Goto, CtlUnchanged
<1>5. ASSUME NEW ttl \in Ttls, FinishIssues(ttl) PROVE WorkOK'
  BY <1>5 DEF FinishIssues, Goto
<1>6. ASSUME NEW env \in Envelope, ReceiveInput(env) PROVE WorkOK'
  BY <1>6 DEF ReceiveInput, Goto, Envelope
<1>7. ASSUME NEW key \in Keys, NEW down \in BOOLEAN, DispatchInput(key, down) PROVE WorkOK'
  BY <1>7 DEF DispatchInput, Goto
<1>8. CASE PeerBye \/ LoopBreaks \/ TransportLost \/ ReserveSucceeds \/ ReserveFails
           \/ FinalFlush \/ ControlTaskAborted
  BY <1>8 DEF PeerBye, LoopBreaks, TransportLost, ReserveSucceeds, ReserveFails,
              FinalFlush, ControlTaskAborted, Goto, CtlUnchanged
<1>9. CASE StatsTask
  BY <1>9 DEF StatsTask, StatsTick, SweepLease, SweepFlush, StatsUnchanged
<1>10. ASSUME NEW s \in Stoppers, StopThread(s) PROVE WorkOK'
  BY <1>10 DEF StopThread, StopCalled, StopRevokes, StopFlushes, StopSendsBye, StopJoins
<1>11. CASE ClockTicks
  BY <1>11 DEF ClockTicks, hostVars
<1>12. CASE UNCHANGED allVars
  BY <1>12 DEF allVars, hostVars
<1> QED
  BY <1>1, <1>2, <1>3, <1>4, <1>5, <1>6, <1>7, <1>8, <1>9, <1>10, <1>11, <1>12
     DEF HostNext, ControlTask, Environment

(* The host drives the lease manager only through its methods.              *)
LEMMA HostStepIsLeaseStep == WorkOK /\ [HostNext]_allVars => [Next]_vars
<1> SUFFICES ASSUME WorkOK, [HostNext]_allVars PROVE [Next]_vars OBVIOUS
<1> USE DEF leaseVars
<1>1. CASE \/ \E requested \in Requests : ReceiveControlRequest(requested)
           \/ \E consented \in Consents : UserAnswers(consented)
           \/ ConsentResolved
  BY <1>1 DEF ReceiveControlRequest, UserAnswers, ConsentResolved
<1>2. CASE FinishChecksStop \/ FinishChecksReplacing \/ FinishFlushesOld
  BY <1>2 DEF FinishChecksStop, FinishChecksReplacing, FinishFlushesOld
<1>3. CASE FinishRevokesOld
  BY <1>3 DEF FinishRevokesOld, Next
<1>4. ASSUME NEW ttl \in Ttls, FinishIssues(ttl) PROVE Next
  BY <1>4 DEF FinishIssues, Goto, WorkOK, Finishing, Next
<1>5. ASSUME NEW env \in Envelope, ReceiveInput(env) PROVE Next
  BY <1>5 DEF ReceiveInput, Next
<1>6. CASE \E key \in Keys, down \in BOOLEAN : DispatchInput(key, down)
  BY <1>6 DEF DispatchInput
<1>7. CASE PeerBye \/ LoopBreaks \/ TransportLost \/ ReserveSucceeds \/ ReserveFails
           \/ FinalFlush \/ ControlTaskAborted
  BY <1>7 DEF PeerBye, LoopBreaks, TransportLost, ReserveSucceeds, ReserveFails,
              FinalFlush, ControlTaskAborted
<1>8. CASE StatsTask
  BY <1>8 DEF StatsTask, StatsTick, SweepLease, SweepFlush, Next
<1>9. ASSUME NEW s \in Stoppers, StopThread(s) PROVE [Next]_vars
  BY <1>9 DEF StopThread, StopCalled, StopRevokes, StopFlushes, StopSendsBye,
              StopJoins, Next
<1>10. CASE ClockTicks
  BY <1>10 DEF ClockTicks, Next
<1>11. CASE UNCHANGED allVars
  BY <1>11 DEF allVars
<1> QED
  BY <1>1, <1>2, <1>3, <1>4, <1>5, <1>6, <1>7, <1>8, <1>9, <1>10, <1>11
     DEF HostNext, ControlTask, Environment

(* The invariant of the manager holds inside the host as well.              *)
LEMMA HostLeaseInvariance == HostSpec => [](WorkOK /\ IInv)
<1>1. HostInit => WorkOK /\ IInv
  BY WorkInit, IInvInit DEF HostInit
<1>2. (WorkOK /\ IInv) /\ [HostNext]_allVars => (WorkOK /\ IInv)'
  BY WorkNext, HostStepIsLeaseStep, IInvNext
<1> QED BY <1>1, <1>2, PTL DEF HostSpec

-------------------------------------------------------------------------------
(* At first no key is down.                                                 *)
LEMMA KeysInit == HostInit => KeysInv
BY DEF HostInit, KeysInv, StopOK, KeysReleasedAtEnd, Flushed

(* Every key that is down is accounted for after every step.                *)
LEMMA KeysNext == KeysInv /\ [HostNext]_allVars => KeysInv'
<1> SUFFICES ASSUME KeysInv, [HostNext]_allVars PROVE KeysInv' OBVIOUS
<1> USE DEF KeysInv, StopOK, KeysReleasedAtEnd, Flushed
<1>1. CASE \/ \E requested \in Requests : ReceiveControlRequest(requested)
           \/ \E consented \in Consents : UserAnswers(consented)
           \/ ConsentResolved
           \/ \E env \in Envelope : ReceiveInput(env)
           \/ \E ttl \in Ttls : FinishIssues(ttl)
           \/ FinishChecksStop \/ FinishChecksReplacing \/ FinishRevokesOld
  BY <1>1 DEF ReceiveControlRequest, UserAnswers, ConsentResolved, ReceiveInput,
              FinishIssues, FinishChecksStop, FinishChecksReplacing, FinishRevokesOld,
              Goto, CtlUnchanged
<1>2. CASE FinishFlushesOld \/ FinalFlush
  BY <1>2 DEF FinishFlushesOld, FinalFlush, Goto, CtlUnchanged
<1>3. ASSUME NEW key \in Keys, NEW down \in BOOLEAN, DispatchInput(key, down)
      PROVE  KeysInv'
  (* A stop that is set keeps the key off the sink; one that is not set     *)
  (* leaves every stopping thread idle.                                     *)
  <2>1. UNCHANGED <<stopper, stop, aborting>> /\ ctl' = "loop"
    BY <1>3 DEF DispatchInput, Goto
  <2>2. CASE stop
    BY <1>3, <2>1, <2>2 DEF DispatchInput, Goto
  <2>3. CASE ~stop
    BY <2>1, <2>3
  <2> QED BY <2>2, <2>3
<1>4. CASE PeerBye \/ LoopBreaks \/ TransportLost \/ ReserveSucceeds \/ ReserveFails
  BY <1>4 DEF PeerBye, LoopBreaks, TransportLost, ReserveSucceeds, ReserveFails,
              Goto, CtlUnchanged
<1>5. CASE ControlTaskAborted
  BY <1>5 DEF ControlTaskAborted, CtlUnchanged
<1>6. CASE StatsTask
  BY <1>6 DEF StatsTask, StatsTick, SweepLease, SweepFlush, StatsUnchanged
<1>7. ASSUME NEW s \in Stoppers, StopThread(s) PROVE KeysInv'
  <2>1. CASE StopCalled(s)
    BY <2>1 DEF StopCalled, Step
  <2>2. CASE StopRevokes(s)
    BY <2>2 DEF StopRevokes, Step
  <2>3. CASE StopFlushes(s)
    BY <2>3 DEF StopFlushes, Step
  <2>4. CASE StopSendsBye(s)
    BY <2>4 DEF StopSendsBye, Step
  <2>5. CASE StopJoins(s)
    BY <2>5 DEF StopJoins, Step
  <2> QED BY <1>7, <2>1, <2>2, <2>3, <2>4, <2>5 DEF StopThread
<1>8. CASE ClockTicks \/ UNCHANGED allVars
  BY <1>8 DEF ClockTicks, allVars, hostVars
<1> QED
  BY <1>1, <1>2, <1>3, <1>4, <1>5, <1>6, <1>7, <1>8 DEF HostNext, ControlTask, Environment

(* The stop overrides input in flight: with the flush of a stop done, or    *)
(* the control task gone, no key is down.                                   *)
THEOREM StopReleasesKeys == HostSpec => []KeysReleasedAtEnd
<1>1. KeysInv => KeysReleasedAtEnd BY DEF KeysInv
<1> QED BY KeysInit, KeysNext, <1>1, PTL DEF HostSpec

-------------------------------------------------------------------------------
(* At first nothing was allowed and nothing leased.                         *)
LEMMA ConsentInit == HostInit => ConsentInv
BY DEF HostInit, Init, ConsentInv, NoPrompt, Finishing

(* There are never more leases than Allows.                                 *)
LEMMA ConsentNext == ConsentInv /\ [HostNext]_allVars => ConsentInv'
<1> SUFFICES ASSUME ConsentInv, [HostNext]_allVars PROVE ConsentInv' OBVIOUS
<1> USE DEF ConsentInv, Finishing, leaseVars, vars
<1>1. ASSUME NEW requested \in Requests, ReceiveControlRequest(requested)
      PROVE  ConsentInv'
  BY <1>1 DEF ReceiveControlRequest, NoPrompt
<1>2. ASSUME NEW consented \in Consents, UserAnswers(consented) PROVE ConsentInv'
  <2>1. prompt'.state = "answered" /\ prompt'.consented = consented
        /\ allowed' = (IF consented = {} THEN allowed ELSE allowed + 1)
        /\ UNCHANGED <<ctl, issued>> /\ prompt.state = "open"
    BY <1>2 DEF UserAnswers
  <2> QED BY <2>1
<1>3. CASE ConsentResolved
  <2>1. prompt'.state = "none" /\ UNCHANGED <<allowed, issued>> /\ ctl = "loop"
        /\ prompt.state = "answered"
    BY <1>3 DEF ConsentResolved, NoPrompt
  <2>2. IF prompt.consented = {} THEN ctl' = ctl ELSE ctl' = "finish"
    BY <1>3 DEF ConsentResolved
  <2> QED BY <2>1, <2>2
<1>4. CASE FinishChecksStop \/ FinishChecksReplacing \/ FinishRevokesOld \/ FinishFlushesOld
  BY <1>4 DEF FinishChecksStop, FinishChecksReplacing, FinishRevokesOld,
              FinishFlushesOld, Goto, CtlUnchanged, RevokeAll
<1>5. ASSUME NEW ttl \in Ttls, FinishIssues(ttl) PROVE ConsentInv'
  BY <1>5 DEF FinishIssues, Goto, Issue
<1>6. CASE \/ \E env \in Envelope : ReceiveInput(env)
           \/ \E key \in Keys, down \in BOOLEAN : DispatchInput(key, down)
  BY <1>6 DEF ReceiveInput, AuthorizeInput, DispatchInput, Goto
<1>7. CASE PeerBye \/ LoopBreaks \/ TransportLost \/ ReserveSucceeds \/ ReserveFails
           \/ FinalFlush \/ ControlTaskAborted
  BY <1>7 DEF PeerBye, LoopBreaks, TransportLost, ReserveSucceeds, ReserveFails,
              FinalFlush, ControlTaskAborted, Goto, CtlUnchanged
<1>8. CASE StatsTask
  BY <1>8 DEF StatsTask, StatsTick, SweepLease, SweepFlush, StatsUnchanged,
              RevokeIfExpired, RevokeAll
<1>9. ASSUME NEW s \in Stoppers, StopThread(s) PROVE ConsentInv'
  BY <1>9 DEF StopThread, StopCalled, StopRevokes, StopFlushes, StopSendsBye,
              StopJoins, RevokeAll
<1>10. CASE ClockTicks \/ UNCHANGED allVars
  BY <1>10 DEF ClockTicks, ClockChanges, allVars, hostVars
<1> QED
  BY <1>1, <1>2, <1>3, <1>4, <1>5, <1>6, <1>7, <1>8, <1>9, <1>10
     DEF HostNext, ControlTask, Environment

(* No lease without an Allow of its own, across denials, second requests    *)
(* and reconnects under a pending prompt.                                   *)
THEOREM EveryLeaseConsented == HostSpec => []OneLeasePerConsent
<1>1. ConsentInv => OneLeasePerConsent
  BY DEF ConsentInv, OneLeasePerConsent
<1> QED BY ConsentInit, ConsentNext, <1>1, PTL DEF HostSpec

-------------------------------------------------------------------------------
(* Types, given those of the lease manager.                                 *)
LEMMA HostTypeInit == HostInit => HostTypeOK
<1> SUFFICES ASSUME HostInit PROVE HostTypeOK OBVIOUS
<1>1. TypeOK BY IInvInit DEF HostInit, IInv
<1>2. prompt.state = "none" BY DEF HostInit, NoPrompt
<1>3. ctl = "loop" /\ stats = "idle" /\ held = {} /\ allowed = 0
  BY DEF HostInit
<1>4. stop = FALSE /\ bye = FALSE /\ aborting = FALSE
      /\ stopper = [s \in Stoppers |-> "idle"]
  BY DEF HostInit
<1> QED BY <1>1, <1>2, <1>3, <1>4 DEF HostTypeOK, Finishing, Flushed

(* Every step of the host keeps the types.                                  *)
LEMMA HostTypeNext ==
  HostTypeOK /\ WorkOK /\ TypeOK' /\ [HostNext]_allVars => HostTypeOK'
<1> SUFFICES ASSUME HostTypeOK, WorkOK, TypeOK', [HostNext]_allVars PROVE HostTypeOK'
  OBVIOUS
<1> USE DEF HostTypeOK, Finishing, Flushed
<1> HIDE DEF TypeOK
<1>1. CASE \/ \E requested \in Requests : ReceiveControlRequest(requested)
           \/ \E consented \in Consents : UserAnswers(consented)
           \/ ConsentResolved
  BY <1>1 DEF ReceiveControlRequest, UserAnswers, ConsentResolved, NoPrompt
<1>2. CASE FinishChecksStop \/ FinishChecksReplacing \/ FinishRevokesOld
           \/ FinishFlushesOld \/ \E ttl \in Ttls : FinishIssues(ttl)
  BY <1>2 DEF FinishChecksStop, FinishChecksReplacing, FinishRevokesOld,
              FinishFlushesOld, FinishIssues, Goto, CtlUnchanged
<1>3. ASSUME NEW key \in Keys, NEW down \in BOOLEAN, DispatchInput(key, down)
      PROVE  HostTypeOK'
  <2>1. HeldAfter(work.action, key, down) \subseteq [key : Keys, lease : LeaseIds]
    BY <1>3 DEF HeldAfter, DispatchInput, Goto, WorkOK
  <2>2. held' \subseteq [key : Keys, lease : LeaseIds] /\ ctl' = "loop"
        /\ UNCHANGED <<stop, prompt, allowed, stats, stopper, bye, aborting>>
    BY <1>3, <2>1 DEF DispatchInput, Goto
  <2> QED BY <2>2
<1>4. CASE PeerBye \/ LoopBreaks \/ TransportLost \/ ReserveSucceeds \/ ReserveFails
           \/ FinalFlush \/ ControlTaskAborted
  BY <1>4 DEF PeerBye, LoopBreaks, TransportLost, ReserveSucceeds, ReserveFails,
              FinalFlush, ControlTaskAborted, Goto, CtlUnchanged
<1>5. CASE StatsTask
  BY <1>5 DEF StatsTask, StatsTick, SweepLease, SweepFlush, StatsUnchanged
<1>6. ASSUME NEW s \in Stoppers, StopThread(s) PROVE HostTypeOK'
  <2>1. /\ stopper' \in [Stoppers -> {"idle", "revoke", "flush", "ignored"} \cup Flushed]
        /\ UNCHANGED <<ctl, stats, prompt, allowed>>
    BY <1>6 DEF StopThread, StopCalled, StopRevokes, StopFlushes, StopSendsBye,
                StopJoins, Step
  <2>2. held' = held \/ held' = {}
    BY <1>6 DEF StopThread, StopCalled, StopRevokes, StopFlushes, StopSendsBye, StopJoins
  <2>3. stop' \in BOOLEAN /\ bye' \in BOOLEAN /\ aborting' \in BOOLEAN
    BY <1>6 DEF StopThread, StopCalled, StopRevokes, StopFlushes, StopSendsBye, StopJoins
  <2> QED BY <2>1, <2>2, <2>3
<1>7. CASE ClockTicks \/ UNCHANGED allVars
  BY <1>7 DEF ClockTicks, allVars, hostVars
<1>8. ASSUME NEW env \in Envelope, ReceiveInput(env) PROVE HostTypeOK'
  BY <1>8 DEF ReceiveInput, Goto
<1> HIDE DEF HostTypeOK
<1> QED
  BY <1>1, <1>2, <1>3, <1>4, <1>5, <1>6, <1>7, <1>8
     DEF HostNext, ControlTask, Environment

(* The host's shared state keeps its types.                                 *)
THEOREM HostTypeCorrect == HostSpec => []HostTypeOK
<1>1. IInv => TypeOK BY DEF IInv
<1> QED BY HostTypeInit, HostTypeNext, HostLeaseInvariance, <1>1, PTL DEF HostSpec

-------------------------------------------------------------------------------
(* A flush of the sink is on its way.                                       *)
FlushPending ==
  stats = "flush" \/ ctl \in {"flushOld", "exit"} \/ \E s \in Stoppers : stopper[s] = "flush"

(* A lease that has ended has no key down while its last input is in        *)
(* flight, and at most one after it.                                        *)
ResidualInv ==
  /\ \A h \in held : h.lease <= issued
  /\ ctl \in {"flushOld", "issue"} => active = NoLease
  /\ ~FlushPending =>
       /\ \A h, k \in held : h.lease = k.lease /\ h.lease # active.id => h = k
       /\ ctl = "dispatch" /\ work.lease # active.id =>
            \A h \in held : h.lease # work.lease
  /\ ctl = "dispatch" => work.lease <= issued

(* At first nothing outlives a lease.                                       *)
LEMMA ResidualInit == HostInit => ResidualInv
BY DEF HostInit, ResidualInv

(* A flush leaves nothing to say about.                                     *)
LEMMA ResidualAfterFlush ==
  ASSUME held' = {}, ctl' \in {"flushOld", "issue"} => active' = NoLease,
         ctl' = "dispatch" => work'.lease <= issued'
  PROVE  ResidualInv'
BY DEF ResidualInv

(* What outlives a lease is bounded after every step.                       *)
LEMMA ResidualNext ==
  ResidualInv /\ IInv /\ HostTypeOK /\ WorkOK /\ [HostNext]_allVars => ResidualInv'
<1> SUFFICES ASSUME ResidualInv, IInv, HostTypeOK, WorkOK, [HostNext]_allVars
             PROVE  ResidualInv'
  OBVIOUS
<1> USE DEF leaseVars, vars
<1>0. /\ issued \in Nat
      /\ active # NoLease => active.id = issued
      /\ \A h \in held : h.lease \in Nat \ {0}
      /\ NoLease.id = 0
      /\ stopper \in [Stoppers -> {"idle", "revoke", "flush", "ignored"} \cup Flushed]
  BY NoLeaseId, LeaseAssumption DEF IInv, TypeOK, LeaseCurrent, HostTypeOK, LeaseIds
<1>1. CASE \/ \E requested \in Requests : ReceiveControlRequest(requested)
           \/ \E consented \in Consents : UserAnswers(consented)
           \/ ConsentResolved \/ FinishChecksStop \/ FinishChecksReplacing
  BY <1>1 DEF ReceiveControlRequest, UserAnswers, ConsentResolved, FinishChecksStop,
              FinishChecksReplacing, Goto, CtlUnchanged, ResidualInv, FlushPending
<1>2. CASE FinishRevokesOld
  BY <1>2 DEF FinishRevokesOld, RevokeAll, Goto, CtlUnchanged, ResidualInv, FlushPending
<1>3. CASE FinishFlushesOld \/ FinalFlush
  BY <1>3, ResidualAfterFlush
     DEF FinishFlushesOld, FinalFlush, Goto, CtlUnchanged, ResidualInv
<1>4. ASSUME NEW ttl \in Ttls, FinishIssues(ttl) PROVE ResidualInv'
  (* No lease is live, so every key held belongs to an ended one.           *)
  <2>1. active = NoLease /\ active'.id = issued + 1 /\ issued' = issued + 1
        /\ ctl' = "loop" /\ UNCHANGED <<held, stats, stopper>>
    BY <1>4 DEF FinishIssues, Issue, Goto, ResidualInv
  <2>2. ~FlushPending' => ~FlushPending
    BY <1>4, <2>1 DEF FlushPending, FinishIssues, Goto
  <2>3. \A h \in held : h.lease # active.id
    BY <1>0, <2>1
  <2> QED BY <1>0, <2>1, <2>2, <2>3 DEF ResidualInv
<1>5. ASSUME NEW env \in Envelope, ReceiveInput(env) PROVE ResidualInv'
  <2>1. env.leaseId = active.id /\ active # NoLease
    BY <1>5 DEF ReceiveInput, AuthorizeInput, Authorized
  <2>2. /\ work'.lease = env.leaseId /\ ctl' = "dispatch" /\ ctl = "loop"
        /\ UNCHANGED <<held, stats, stopper, active, issued>>
    BY <1>5 DEF ReceiveInput, AuthorizeInput, Goto
  <2> QED BY <1>0, <2>1, <2>2 DEF ResidualInv, FlushPending
<1>6. ASSUME NEW key \in Keys, NEW down \in BOOLEAN, DispatchInput(key, down)
      PROVE  ResidualInv'
  <2> DEFINE pressed == [key |-> key, lease |-> work.lease]
  <2>1. /\ ctl = "dispatch" /\ ctl' = "loop"
        /\ UNCHANGED <<stats, stopper, active, issued>>
    BY <1>6 DEF DispatchInput, Goto
  <2>2. held' \subseteq held \/ held' = held \cup {pressed}
    BY <1>6 DEF DispatchInput, HeldAfter
  <2>3. ~FlushPending' => ~FlushPending
    BY <2>1 DEF FlushPending
  <2>4. CASE held' \subseteq held
    BY <2>1, <2>3, <2>4 DEF ResidualInv
  <2>5. CASE held' = held \cup {pressed}
    BY <2>1, <2>3, <2>5 DEF ResidualInv
  <2> QED BY <2>2, <2>4, <2>5
<1>7. CASE PeerBye \/ LoopBreaks \/ TransportLost \/ ReserveSucceeds \/ ReserveFails
           \/ ControlTaskAborted
  BY <1>7 DEF PeerBye, LoopBreaks, TransportLost, ReserveSucceeds, ReserveFails,
              ControlTaskAborted, Goto, CtlUnchanged, ResidualInv, FlushPending
<1>8. CASE StatsTick
  BY <1>8 DEF StatsTick, StatsUnchanged, ResidualInv, FlushPending
<1>9. CASE SweepLease
  BY <1>9 DEF SweepLease, RevokeIfExpired, RevokeAll, StatsUnchanged, ResidualInv,
              FlushPending
<1>10. CASE SweepFlush
  BY <1>10, ResidualAfterFlush DEF SweepFlush, StatsUnchanged, ResidualInv
<1>11. ASSUME NEW s \in Stoppers, StopThread(s) PROVE ResidualInv'
  <2>1. CASE StopCalled(s) \/ StopSendsBye(s) \/ StopJoins(s)
    <3>1. /\ UNCHANGED <<held, ctl, work, stats, active, issued>>
          /\ \A t \in Stoppers : stopper'[t] = "flush" <=> stopper[t] = "flush"
      BY <1>0, <2>1 DEF StopCalled, StopSendsBye, StopJoins, Step
    <3> QED BY <3>1 DEF ResidualInv, FlushPending
  <2>2. CASE StopRevokes(s)
    <3>1. stopper'[s] = "flush" /\ active' = NoLease
          /\ UNCHANGED <<held, ctl, work, issued>>
      BY <1>0, <2>2 DEF StopRevokes, RevokeAll, Step
    <3> QED BY <3>1 DEF ResidualInv, FlushPending
  <2>3. CASE StopFlushes(s)
    BY <2>3, ResidualAfterFlush DEF StopFlushes, ResidualInv
  <2> QED BY <1>11, <2>1, <2>2, <2>3 DEF StopThread
<1>12. CASE ClockTicks \/ UNCHANGED allVars
  BY <1>12 DEF ClockTicks, ClockChanges, allVars, hostVars, ResidualInv, FlushPending
<1> QED
  BY <1>1, <1>2, <1>3, <1>4, <1>5, <1>6, <1>7, <1>8, <1>9, <1>10, <1>11, <1>12
     DEF HostNext, ControlTask, StatsTask, Environment

(* What the sweep's comment calls benign is bounded: an ended lease leaves  *)
(* at most one key down.                                                    *)
THEOREM ResidualIsOneKey == HostSpec => []ResidualBounded
<1>1. ResidualInv => ResidualBounded
  BY DEF ResidualInv, ResidualBounded, FlushPending
<1> QED
  BY ResidualInit, ResidualNext, HostTypeCorrect, HostLeaseInvariance, <1>1, PTL
     DEF HostSpec

=============================================================================
