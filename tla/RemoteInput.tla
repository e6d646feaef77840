----------------------------- MODULE RemoteInput -----------------------------
(***************************************************************************)
(* Keys and buttons from the viewer's keyboard to the host's: control.js   *)
(* (the take-control state machine, the held sets and their flush), the    *)
(* commands that stamp an action with the current lease, the control       *)
(* stream, the host's lease gate, dispatch and flush, and the input sink.  *)
(* JavaScript runs one handler at a time; what interleaves is the poll,    *)
(* its answer, the news of a lease and the user, and at the host the       *)
(* control task with the task that sweeps an expired lease, by one lock of *)
(* the lease and one of the sink.  A stop ends the session (HostControl).  *)
(***************************************************************************)
EXTENDS InputSink, Sequences, SequencesExt

CONSTANTS Right,      \* the plain usage that is the right key of modifier 1
          MaxWire,    \* envelopes in flight
          MaxEvents,  \* key, button and focus events of the viewer
          MaxRequests,  \* times the viewer asks for control
          InOrder,    \* commands reach the control stream in the order invoked
          Inside,     \* the pointer stays over the picture
          Swaps       \* the user uses the Cmd/Ctrl swap

VARIABLES
  keyboard,     \* keys down at the viewer
  mouse,        \* buttons down at the viewer
  swap,         \* getSwap
  control,      \* controlState
  heldKeys,     \* heldKeys
  heldButtons,  \* heldButtons
  poll,         \* the loop of requestOrToggle: "off", "sleeps" or its await
  reply,        \* is_controlling, while the await is pending
  viewerLease,  \* current_lease, 0 for none
  denied,       \* control-consent-denied events on their way to the page
  wire,         \* envelopes on the control stream
  asked,        \* the host's prompt is open
  lease,        \* the host's active lease, 0 for none
  ctl,          \* the host's control task: "loop", or "dispatch" after the gate,
                \* "flush" and "issue" on the way to a new lease
  taken,        \* the authorised envelope of "dispatch": its place in wire
  sweep,        \* the task of sweep_expired_lease: "idle", or "flush" after its revoke
  late,         \* history: the action dispatched after its lease had ended, until
                \* a flush
  notices,      \* ControlGranted and ControlRevoked messages on their way
  requests,     \* requests so far
  leases,       \* leases granted so far
  events,       \* events of the viewer so far
  unseen,       \* history: a key was down that the page did not see going down,
                \* that the host did not take, let go of or took without a lease,
                \* or that was swapped
  mistyped      \* history: a plain key went down under the wrong modifiers

viewerVars == <<keyboard, mouse, swap, heldKeys, heldButtons>>
fsmVars == <<control, poll, reply, denied>>
taskVars == <<ctl, taken, sweep, late>>
hostSideVars == <<asked, lease, notices, leases, taskVars>>
remoteVars == <<viewerVars, fsmVars, requests, hostSideVars, viewerLease, wire, events, unseen,
                mistyped, sinkVars>>

controlling == control = "granted"

ControlRequest == [kind |-> "request", of |-> 0, down |-> FALSE, mods |-> {}]
NoAction == ControlRequest

RemoteInit ==
  /\ SinkInit
  /\ keyboard = {} /\ mouse = {} /\ swap = FALSE
  /\ control = "idle" /\ poll = "off" /\ reply = FALSE /\ denied = 0
  /\ heldKeys = {} /\ heldButtons = {} /\ viewerLease = 0 /\ wire = <<>>
  /\ asked = FALSE /\ lease = 0 /\ notices = <<>> /\ leases = 0 /\ events = 0 /\ requests = 0
  /\ ctl = "loop" /\ taken = 0 /\ sweep = "idle" /\ late = NoAction
  /\ unseen = FALSE /\ mistyped = FALSE

-------------------------------------------------------------------------------
(* modifierBits: what the event says of the keyboard after it, swapped.     *)
Swapped_OffByOne(i) == IF swap /\ i \in {2, 3} THEN 6 - i ELSE i
Swapped(i) == IF swap /\ i \in {2, 3} THEN 5 - i ELSE i   \* Ctrl and Cmd
ModifierBits(down) ==
  { Swapped(i) : i \in (down \cap Mods) \cup (IF Right \in down THEN {1} ELSE {}) }
RemapHid(u) == IF u \in Mods THEN Swapped(u) ELSE u

(* send_input_action: stamped with the lease held now, dropped without one. *)
Stamped(actions) ==
  IF viewerLease = 0 THEN <<>>
  ELSE [i \in DOMAIN actions |-> [lease |-> viewerLease, action |-> actions[i]]]

KeyAction(u, down, mods) == [kind |-> "key", of |-> u, down |-> down, mods |-> mods]
ButtonAction(b, down) == [kind |-> "button", of |-> b, down |-> down, mods |-> {}]

(* releaseHeldInput: an up for every held button and key, without modifiers.*)
Releases ==
  SetToSeq({ ButtonAction(b, FALSE) : b \in heldButtons })
  \o SetToSeq({ KeyAction(u, FALSE, {}) : u \in heldKeys })

ReleaseHeldInput ==
  /\ wire' = wire \o Stamped(Releases)
  /\ heldKeys' = {} /\ heldButtons' = {}

Room == Len(wire) < MaxWire /\ events < MaxEvents /\ events' = events + 1   \* bounds

(* keydown and keyup.                                                       *)
ForwardKey(u, down) ==
  LET kb == Edge(keyboard, u, down)
  IN /\ Room
     /\ down # (u \in keyboard)
     /\ keyboard' = kb
     /\ IF ~controlling THEN UNCHANGED <<heldKeys, wire>>
        ELSE /\ heldKeys' = Edge(heldKeys, RemapHid(u), down)
                /\ wire' = wire \o Stamped(<<KeyAction(RemapHid(u), down, ModifierBits(kb))>>)
     /\ unseen' = (unseen \/ (controlling /\ viewerLease = 0))
     /\ UNCHANGED <<mouse, swap, heldButtons, fsmVars, requests, hostSideVars, viewerLease, mistyped,
                    sinkVars>>

(* pointerdown and pointerup: outside of the picture normInput is null.     *)
ForwardButton(b, down, over) ==
  /\ Room
  /\ Inside => over   \* bound
  /\ down # (b \in mouse)
  /\ mouse' = Edge(mouse, b, down)
  /\ IF ~controlling \/ ~over THEN UNCHANGED <<heldButtons, wire>>
     ELSE /\ heldButtons' = Edge(heldButtons, b, down)
          /\ wire' = wire \o Stamped(<<ButtonAction(b, down)>>)
  /\ UNCHANGED <<keyboard, swap, heldKeys, fsmVars, requests, hostSideVars, viewerLease, unseen,
                 mistyped, sinkVars>>

(* blur, visibilitychange, pointercancel and lostpointercapture.  What goes *)
(* up or down while the page has no focus is not seen.                      *)
FocusLost ==
  /\ Room
  /\ ReleaseHeldInput
  /\ keyboard' \in { {}, {Right}, Mods }   \* bound
  /\ unseen' = (unseen \/ keyboard' # {})
  /\ mouse' = {}
  /\ UNCHANGED <<swap, fsmVars, requests, hostSideVars, viewerLease, mistyped, sinkVars>>

ToggleSwap ==
  /\ Swaps
  /\ events < MaxEvents /\ events' = events + 1   \* bound
  /\ swap' = ~swap
  /\ unseen' = (unseen \/ keyboard # {})
  /\ UNCHANGED <<keyboard, mouse, heldKeys, heldButtons, wire, fsmVars, requests, hostSideVars,
                 viewerLease, mistyped, sinkVars>>

-------------------------------------------------------------------------------
(* setControlState: every state but "granted" and "requesting" flushes.     *)
SetControl(state) ==
  /\ control' = state
  /\ IF state \in {"granted", "requesting"} THEN UNCHANGED <<heldKeys, heldButtons, wire>>
                                            ELSE ReleaseHeldInput

FsmUnchanged ==
  /\ unseen' = (unseen \/ (control' = "granted" /\ control # "granted" /\ keyboard # {}))
  /\ UNCHANGED <<keyboard, mouse, swap, viewerLease, events, mistyped, sinkVars>>

(* requestOrToggle: a held lease is dropped locally, an idle viewer asks.   *)
Toggle ==
  /\ controlling
  /\ SetControl("idle")
  /\ UNCHANGED <<requests, poll, reply, denied, hostSideVars>> /\ FsmUnchanged

Request ==
  /\ control = "idle" /\ poll = "off"   \* bound: one poll loop at a time
  /\ requests < MaxRequests             \* bound
  /\ requests' = requests + 1
  /\ Len(wire) < MaxWire               \* bound
  /\ control' = "requesting" /\ poll' = "sleeps"
  /\ wire' = Append(wire, [lease |-> 0, action |-> ControlRequest])
  /\ UNCHANGED <<heldKeys, heldButtons, reply, denied, hostSideVars>> /\ FsmUnchanged

(* The loop wakes: it looks at the state, then awaits is_controlling.       *)
PollWakes ==
  /\ poll = "sleeps"
  /\ IF control = "requesting" THEN poll' = "awaits" /\ reply' = (viewerLease # 0)
                               ELSE poll' = "off" /\ UNCHANGED reply
  /\ UNCHANGED <<control, heldKeys, heldButtons, wire, denied, requests, hostSideVars>> /\ FsmUnchanged

(* The answer: the state is not looked at again.                            *)
PollAnswered ==
  /\ poll = "awaits"
  /\ IF reply THEN SetControl("granted") /\ poll' = "off"
              ELSE poll' = "sleeps" /\ UNCHANGED <<control, heldKeys, heldButtons, wire>>
  /\ reply' = FALSE
  /\ UNCHANGED <<denied, requests, hostSideVars>> /\ FsmUnchanged

(* The 95 s fallback, and the revert to idle 3 s after a refusal.           *)
RequestTimesOut ==
  /\ control = "requesting"
  /\ SetControl("timeout")
  /\ UNCHANGED <<requests, poll, reply, denied, hostSideVars>> /\ FsmUnchanged

RevertToIdle ==
  /\ control \in {"denied", "timeout"}
  /\ SetControl("idle")
  /\ UNCHANGED <<requests, poll, reply, denied, hostSideVars>> /\ FsmUnchanged

(* notifyConsentDenied.                                                     *)
NotifyConsentDenied ==
  /\ denied > 0
  /\ denied' = denied - 1
  /\ IF control = "granted" THEN SetControl("idle")
     ELSE IF control = "requesting" THEN SetControl("denied")
     ELSE UNCHANGED <<control, heldKeys, heldButtons, wire>>
  /\ UNCHANGED <<poll, reply, requests, hostSideVars>> /\ FsmUnchanged

-------------------------------------------------------------------------------
(* The host's side of the lease, and the viewer's view of it.  Whoever ends *)
(* a lease revokes it under the lock of the lease and then flushes under    *)
(* that of the sink.                                                        *)
HostUnchanged == UNCHANGED <<viewerVars, fsmVars, requests, viewerLease, wire, events, mistyped>>

Revoked ==
  /\ lease' = 0
  /\ unseen' = (unseen \/ os.down # {})
  /\ UNCHANGED <<leases, notices, taken, late, sinkVars>> /\ HostUnchanged

Flushed ==
  /\ SinkReleaseAll({})
  /\ late' = NoAction
  /\ unseen' = (unseen \/ os'.down # os.down)
  /\ UNCHANGED <<asked, lease, leases, notices, taken>> /\ HostUnchanged

Issued ==
  /\ leases' = leases + 1 /\ lease' = leases + 1
  /\ notices' = Append(notices, leases + 1)
  /\ ctl' = "loop"
  /\ UNCHANGED <<taken, sweep, late, unseen, sinkVars>> /\ HostUnchanged

(* host_finish_control_request: a denial is news to the viewer, a lease     *)
(* that is held is revoked and flushed before another is issued.            *)
HostDenies ==
  /\ asked /\ ctl = "loop"
  /\ asked' = FALSE
  /\ notices' = Append(notices, 0)
  /\ UNCHANGED <<lease, leases, taskVars, unseen, sinkVars>> /\ HostUnchanged

HostAllows ==
  /\ asked /\ ctl = "loop"
  /\ asked' = FALSE
  /\ IF lease = 0 THEN Issued ELSE Revoked /\ ctl' = "flush" /\ UNCHANGED sweep

ReplacedIsFlushed == ctl = "flush" /\ ctl' = "issue" /\ Flushed /\ UNCHANGED sweep

ReplacementIssued == ctl = "issue" /\ Issued /\ UNCHANGED asked

SweepRevokes_NoFlush ==   \* mutant of SweepRevokes
  /\ lease # 0
  /\ Revoked /\ UNCHANGED <<ctl, asked, sweep>>

(* sweep_expired_lease: revoke_if_expired, then the flush.  Nobody tells    *)
(* the viewer.                                                              *)
SweepRevokes ==
  /\ sweep = "idle" /\ lease # 0
  /\ sweep' = "flush"
  /\ Revoked /\ UNCHANGED <<ctl, asked>>

SweepFlushes == sweep = "flush" /\ sweep' = "idle" /\ Flushed /\ UNCHANGED ctl

NoticeArrives ==
  /\ notices # <<>>
  /\ viewerLease' = Head(notices)
  /\ notices' = Tail(notices)
  /\ denied' = IF Head(notices) = 0 THEN denied + 1 ELSE denied
  /\ UNCHANGED <<viewerVars, control, poll, reply, wire, asked, lease, requests, leases, taskVars,
                 events, unseen, mistyped, sinkVars>>

(* What is taken from the control stream next.                              *)
Arriving == IF InOrder THEN {1} \cap DOMAIN wire ELSE DOMAIN wire

(* A request with a prompt open, or without the permission of the system,   *)
(* is refused.                                                              *)
RequestArrives(refused) ==
  /\ ctl = "loop"
  /\ asked => refused
  /\ \E i \in Arriving : wire[i].action = ControlRequest /\ wire' = RemoveAt(wire, i)
  /\ IF refused THEN notices' = Append(notices, 0) /\ UNCHANGED asked
                ELSE asked' = TRUE /\ UNCHANGED notices
  /\ UNCHANGED <<viewerVars, fsmVars, requests, viewerLease, events, lease, leases, taskVars, unseen,
                 mistyped, sinkVars>>

(* host_handle_input: the gate, under the lock of the lease.                *)
InputRefused ==
  /\ ctl = "loop"
  /\ \E i \in Arriving : /\ wire[i].action # ControlRequest /\ wire[i].lease # lease
                         /\ wire' = RemoveAt(wire, i)
  /\ unseen' = TRUE
  /\ UNCHANGED <<viewerVars, fsmVars, requests, hostSideVars, viewerLease, events, mistyped, sinkVars>>

InputAuthorized ==
  /\ ctl = "loop" /\ ctl' = "dispatch"
  /\ taken' \in Arriving
  /\ wire[taken'].action # ControlRequest /\ wire[taken'].lease = lease
  /\ UNCHANGED <<viewerVars, fsmVars, requests, asked, lease, notices, leases, sweep, late,
                 viewerLease, wire, events, unseen, mistyped, sinkVars>>

(* Then the dispatch, under that of the sink, whatever became of the lease. *)
EffectiveModifiers(down) ==
  { i \in Mods : \/ {Modifier(i), <<"key", i>>} \cap down # {}
                 \/ i = 1 /\ <<"key", Right>> \in down }

Dispatch(a) ==
  IF a.kind = "button" THEN SinkButton(a.of, a.down) /\ UNCHANGED mistyped
  ELSE /\ SinkKey(a.of, a.down, a.mods)
       /\ mistyped' = (mistyped \/ /\ a.down /\ a.of \in Plain \ {Right}
                                   /\ EffectiveModifiers(os'.down) # a.mods
                                   /\ backend # "mac")

InputDispatched ==
  /\ ctl = "dispatch" /\ ctl' = "loop"
  /\ Dispatch(wire[taken].action)
  /\ wire' = RemoveAt(wire, taken)
  /\ taken' = 0
  /\ IF wire[taken].lease = lease THEN UNCHANGED <<late, unseen>>
                                  ELSE late' = wire[taken].action /\ unseen' = TRUE
  /\ UNCHANGED <<viewerVars, fsmVars, requests, asked, lease, notices, leases, sweep, viewerLease,
                 events>>

ViewerActs ==
  \/ \E u \in Plain \cup Mods, down \in BOOLEAN : ForwardKey(u, down)
  \/ \E b \in PointerButtons, down, over \in BOOLEAN : ForwardButton(b, down, over)
  \/ FocusLost \/ ToggleSwap \/ Toggle \/ Request

RemoteNext ==
  \/ ViewerActs
  \/ PollWakes \/ PollAnswered \/ RequestTimesOut \/ RevertToIdle \/ NotifyConsentDenied
  \/ HostDenies \/ HostAllows \/ ReplacedIsFlushed \/ ReplacementIssued
  \/ SweepRevokes \/ SweepFlushes \/ NoticeArrives
  \/ \E refused \in BOOLEAN : RequestArrives(refused)
  \/ InputRefused \/ InputAuthorized \/ InputDispatched

-------------------------------------------------------------------------------
RemoteTypeOK ==
  /\ SinkTypeOK
  /\ keyboard \subseteq Plain \cup Mods /\ mouse \subseteq PointerButtons
  /\ heldKeys \subseteq Plain \cup Mods /\ heldButtons \subseteq PointerButtons
  /\ control \in {"idle", "requesting", "granted", "denied", "timeout"}
  /\ poll \in {"off", "sleeps", "awaits"} /\ viewerLease \in 0 .. MaxRequests
  /\ lease \in 0 .. MaxRequests /\ denied \in Nat
  /\ ctl \in {"loop", "dispatch", "flush", "issue"} /\ taken \in 0 .. Len(wire)
  /\ sweep \in {"idle", "flush"}

(* What one action can leave down.                                          *)
Chord(a) ==
  CASE a.kind = "key" -> {Code(a.of)} \cup { Modifier(i) : i \in a.mods }
    [] a.kind = "button" -> {Button(a.of)}
    [] OTHER -> {}

(* Once whoever ended the lease has flushed, nothing is down at the host    *)
(* but of the one action that was authorised before the end and dispatched  *)
(* after the flush (session.rs, "known residual"), whatever was still on    *)
(* the wire, and whichever lease the flush came to late.                    *)
DownWithoutLease ==
  lease = 0 /\ ctl # "flush" /\ sweep = "idle" => os.down \subseteq Chord(late)

(* Once the stream is empty and no flush is outstanding, what is down at    *)
(* the host is what the page will still release on the next loss of focus   *)
(* or of the lease: a button let go outside of the picture, a key whose     *)
(* swap changed.  Only a modifier the page never saw going down, and that   *)
(* one action, can be left to the host's own flush.                         *)
DownIsFlushable ==
  wire = <<>> /\ sweep = "idle" /\ lease # 0 /\ viewerLease = lease =>
    os.down \subseteq { Button(b) : b \in heldButtons } \cup { Code(u) : u \in heldKeys }
                     \cup { Modifier(i) : i \in IF unseen THEN Mods
                                              ELSE ModifierBits(keyboard) }
                     \cup Chord(late)

(* A plain key goes down at the host under the modifiers it went down under *)
(* at the viewer, if the page saw them go down.                             *)
TypedAsHeld == mistyped => unseen

(* control.js:90: nothing stays stuck on the host across a loss of focus.   *)
(* Violated by a button released outside of the picture (Inside = FALSE),   *)
(* a swap between down and up (Swaps) and commands that overtake each other *)
(* (InOrder = FALSE).                                                       *)
QuietMeansUp ==
  keyboard = {} /\ mouse = {} /\ wire = <<>> /\ poll = "off" => os.down = {}

(* The page believes in a lease only while there is one or the news of its  *)
(* end is on the way (control.js:98).                                       *)
ControllingHasLease ==
  controlling => viewerLease # 0 \/ denied > 0
=============================================================================
