------------------------------ MODULE LibeiSink ------------------------------
(***************************************************************************)
(* The unprivileged Wayland input sink: LibeiInputSink, its session thread *)
(* (the portal handshake, then a loop over EI events and commands) and the *)
(* choice of the sink at the start of a share.  The sink's side sends      *)
(* commands on a channel and looks at an atomic flag; the thread applies a *)
(* command only while its bound device emulates.  The compositor and the   *)
(* portal are modelled from how the code uses them: a device that stops    *)
(* emulating, by a pause, a removal or the end of the connection, is       *)
(* brought back to neutral.                                                *)
(***************************************************************************)
EXTENDS Naturals, Sequences, FiniteSets

CONSTANTS Devices,     \* devices the compositor offers
          NoDevice,
          Keyboards, Pointers,   \* those of them with the interface of either kind
          EiKeys,      \* keys
          EiMods,      \* modifier bits
          EiButtons,   \* pointer buttons
          EiCaps,      \* the lock key
          MaxCmds,     \* commands queued
          MaxOffers    \* devices added, resumes included

ASSUME LibeiAssumption ==
  /\ Keyboards \subseteq Devices /\ Pointers \subseteq Devices /\ NoDevice \notin Devices
  /\ EiKeys \cap EiMods = {} /\ EiButtons \cap (EiKeys \cup EiMods) = {}
  /\ EiCaps \notin EiKeys \cup EiMods \cup EiButtons
  /\ IsFiniteSet(EiKeys) /\ IsFiniteSet(EiMods) /\ IsFiniteSet(EiButtons)
  /\ MaxCmds \in Nat /\ MaxOffers \in Nat

VARIABLES
  chosen,      \* best_input_sink: "probing", then the back end
  stage,       \* where the session thread is
  portal,      \* the portal's session object: "none", "open" or "closed"
  ready, everReady, failedEarly,   \* Shared
  cancel,      \* cancel_tx
  gone,        \* the sink was dropped
  cmds,        \* commands on the channel
  tracked,     \* pressed_keys, pressed_buttons, held_mods and lock_caps
  bound,       \* BoundDevice, and whether it emulates
  offered,     \* devices the compositor has added, and which it lets emulate
  down,        \* keys down at the compositor, by device
  offers,      \* EI events so far
  mistypedEi   \* history: a key went down without a modifier it was sent with

threadVars == <<stage, portal, ready, everReady, failedEarly, bound>>
libeiVars == <<chosen, threadVars, cancel, gone, cmds, tracked, offered, down, offers, mistypedEi>>

(* The awaits of run_portal_session before its loop, in their order.        *)
Handshake == <<"connect", "session", "devices", "consent", "eis", "ei">>
Stages == { Handshake[i] : i \in 1 .. 6 } \cup {"loop", "closing", "ended"}
NextStage(s) == IF s = "ei" THEN "loop"
                ELSE LET i == CHOOSE i \in 1 .. 6 : Handshake[i] = s IN Handshake[i + 1]
InHandshake == stage \in Stages \ {"loop", "closing", "ended"}

Neutral == [d \in Devices |-> {}]

LibeiInit ==
  /\ chosen = "probing" /\ stage = "connect" /\ portal = "none"
  /\ ready = FALSE /\ everReady = FALSE /\ failedEarly = FALSE
  /\ cancel = FALSE /\ gone = FALSE /\ cmds = <<>>
  /\ tracked = [keys |-> {}, buttons |-> {}, mods |-> {}, caps |-> FALSE]
  /\ bound = [device |-> NoDevice, emulating |-> FALSE]
  /\ offered = [added |-> {}, resumed |-> {}] /\ down = Neutral /\ offers = 0
  /\ mistypedEi = FALSE

-------------------------------------------------------------------------------
(* The session thread.  Every await of the handshake races the cancel flag, *)
(* and a failure after create_session closes the portal session.            *)
HandshakeProceeds ==
  /\ InHandshake /\ ~cancel
  /\ stage' = NextStage(stage)
  /\ portal' = IF stage = "session" THEN "open" ELSE portal
  /\ UNCHANGED <<chosen, ready, everReady, failedEarly, bound, cancel, gone, cmds, tracked,
                 offered, down, offers, mistypedEi>>

HandshakeStops ==   \* an error, the user's denial, or cancellation
  /\ InHandshake
  /\ stage' = "closing"
  /\ portal' = IF portal = "open" THEN "closed" ELSE portal
  /\ UNCHANGED <<chosen, ready, everReady, failedEarly, bound, cancel, gone, cmds, tracked,
                 offered, down, offers, mistypedEi>>

(* run_session_thread after run_portal_session has returned.                *)
ThreadEnds ==
  /\ stage = "closing"
  /\ stage' = "ended"
  /\ ready' = FALSE
  /\ failedEarly' = ~everReady
  /\ UNCHANGED <<chosen, portal, everReady, bound, cancel, gone, cmds, tracked, offered, down,
                 offers, mistypedEi>>

(* Leaving the loop: by Shutdown, by cancellation, or because the stream of *)
(* events ended or failed.  The device is told to stop emulating, or loses  *)
(* its connection; commands still queued are lost.                          *)
LoopEnds(why) ==
  /\ stage = "loop"
  /\ CASE why = "shutdown" -> cmds # <<>> /\ Head(cmds).kind = "shutdown"
       [] why = "cancel" -> cancel
       [] why = "connection" -> TRUE
  /\ stage' = "closing"
  /\ bound' = [device |-> NoDevice, emulating |-> FALSE]
  /\ offered' = [added |-> {}, resumed |-> {}] /\ down' = Neutral
  /\ UNCHANGED <<chosen, portal, ready, everReady, failedEarly, cancel, gone, cmds, tracked,
                 offers, mistypedEi>>

(* apply_cmd: dropped unless the bound device emulates and has the          *)
(* interface.                                                               *)
Takers(code) == IF code \in EiButtons THEN Pointers ELSE Keyboards
Applied(cmd) ==
  IF cmd.kind = "key" /\ bound.emulating /\ bound.device \in Takers(cmd.of)
    THEN [down EXCEPT ![bound.device] = IF cmd.down THEN @ \cup {cmd.of} ELSE @ \ {cmd.of}]
    ELSE down

LoopCommand ==
  /\ stage = "loop" /\ cmds # <<>> /\ Head(cmds).kind # "shutdown"
  /\ cmds' = Tail(cmds)
  /\ down' = Applied(Head(cmds))
  /\ mistypedEi' = (mistypedEi \/ /\ down' # down /\ Head(cmds).down
                                  /\ ~(Head(cmds).mods \subseteq down[bound.device]))
  /\ UNCHANGED <<chosen, threadVars, cancel, gone, tracked, offered, offers>>

-------------------------------------------------------------------------------
(* EI events: handle_ei_event.                                              *)
Event == stage = "loop" /\ offers < MaxOffers /\ offers' = offers + 1   \* bound
EventFrame == UNCHANGED <<chosen, stage, portal, failedEarly, cancel, gone, cmds, tracked, mistypedEi>>

(* The device added last takes the place of whatever was bound; the flag    *)
(* stays as it was.                                                         *)
DeviceAdded(d) ==
  /\ Event /\ d \notin offered.added
  /\ offered' = [offered EXCEPT !.added = @ \cup {d}]
  /\ bound' = [device |-> d, emulating |-> FALSE]
  /\ UNCHANGED <<ready, everReady, down>> /\ EventFrame

DeviceResumed(d) ==
  /\ Event /\ d \in offered.added \ offered.resumed
  /\ offered' = [offered EXCEPT !.resumed = @ \cup {d}]
  /\ IF bound.device = d /\ ~bound.emulating
       THEN bound' = [bound EXCEPT !.emulating = TRUE] /\ ready' = TRUE /\ everReady' = TRUE
       ELSE UNCHANGED <<bound, ready, everReady>>
  /\ UNCHANGED down /\ EventFrame

DevicePaused(d) ==
  /\ Event /\ d \in offered.resumed
  /\ offered' = [offered EXCEPT !.resumed = @ \ {d}]
  /\ bound' = IF bound.device = d THEN [bound EXCEPT !.emulating = FALSE] ELSE bound
  /\ ready' = FALSE
  /\ down' = [down EXCEPT ![d] = {}]
  /\ UNCHANGED everReady /\ EventFrame

DeviceRemoved(d) ==
  /\ Event /\ d \in offered.added
  /\ offered' = [added |-> offered.added \ {d}, resumed |-> offered.resumed \ {d}]
  /\ bound' = IF bound.device = d THEN [device |-> NoDevice, emulating |-> FALSE] ELSE bound
  /\ ready' = FALSE
  /\ down' = [down EXCEPT ![d] = {}]
  /\ UNCHANGED everReady /\ EventFrame

Disconnected ==
  /\ Event
  /\ offered' = [added |-> {}, resumed |-> {}]
  /\ bound' = [device |-> NoDevice, emulating |-> FALSE]
  /\ ready' = FALSE
  /\ down' = Neutral
  /\ UNCHANGED everReady /\ EventFrame

-------------------------------------------------------------------------------
(* The sink's side.                                                         *)
KeyCmd(k, isDown, mods) == [kind |-> "key", of |-> k, down |-> isDown, mods |-> mods]
Shutdown == [kind |-> "shutdown", of |-> 0, down |-> FALSE, mods |-> {}]
SideFrame == UNCHANGED <<chosen, threadVars, offered, down, offers, mistypedEi>>

(* key: refused unless ready; one modifier, so at most one edge before it.  *)
EiKey(k, isDown, want) ==
  LET changed == { i \in EiMods : (i \in want) # (i \in tracked.mods) }
  IN /\ ready /\ ~gone /\ chosen = "libei"
     /\ Cardinality(changed) <= 1
     /\ Len(cmds) + Cardinality(changed) < MaxCmds   \* bound
     /\ cmds' = cmds \o [n \in 1 .. Cardinality(changed) |->
                           LET i == CHOOSE i \in changed : TRUE IN KeyCmd(i, i \in want, {})]
                     \o <<KeyCmd(k, isDown, want)>>
     /\ tracked' = [tracked EXCEPT !.keys = IF isDown THEN @ \cup {k} ELSE @ \ {k},
                                   !.mods = want]
     /\ UNCHANGED <<cancel, gone>> /\ SideFrame

(* pointer_button: the pointer is moved by a command of its own, then the   *)
(* edge.  An edge of a button carries no modifiers.                         *)
EiButton(b, isDown) ==
  /\ ready /\ ~gone /\ chosen = "libei"
  /\ Len(cmds) < MaxCmds   \* bound
  /\ cmds' = Append(cmds, KeyCmd(b, isDown, {}))
  /\ tracked' = [tracked EXCEPT !.buttons = IF isDown THEN @ \cup {b} ELSE @ \ {b}]
  /\ UNCHANGED <<cancel, gone>> /\ SideFrame

(* set_lock_state: the lock key is tapped when the state last set differs.  *)
EiSetLock(want) ==
  /\ ready /\ ~gone /\ chosen = "libei"
  /\ want # tracked.caps
  /\ Len(cmds) + 2 <= MaxCmds   \* bound
  /\ cmds' = cmds \o <<KeyCmd(EiCaps, TRUE, {}), KeyCmd(EiCaps, FALSE, {})>>
  /\ tracked' = [tracked EXCEPT !.caps = want]
  /\ UNCHANGED <<cancel, gone>> /\ SideFrame

(* release_all: an up for everything tracked.                               *)
Ups(held) ==
  LET order == CHOOSE f \in [1 .. Cardinality(held) -> held] : \A c \in held : \E i \in DOMAIN f : f[i] = c
  IN [i \in DOMAIN order |-> KeyCmd(order[i], FALSE, {})]
EiReleases_KeysOnly == Ups(tracked.keys)
Pressed == tracked.keys \cup tracked.buttons \cup tracked.mods
EiReleases == Ups(Pressed)
NoneHeld == [tracked EXCEPT !.keys = {}, !.buttons = {}, !.mods = {}]

EiReleaseAll ==
  /\ ~gone /\ Pressed # {}
  /\ Len(cmds) + Len(EiReleases) <= MaxCmds   \* bound
  /\ cmds' = cmds \o EiReleases
  /\ tracked' = NoneHeld
  /\ UNCHANGED <<cancel, gone>> /\ SideFrame

Drops == cmds' = cmds \o EiReleases \o <<Shutdown>> /\ tracked' = NoneHeld

DropSink ==
  /\ ~gone /\ chosen # "probing"
  /\ Drops /\ gone' = TRUE /\ cancel' = TRUE
  /\ SideFrame

(* best_input_sink: the probe prefers libei unless it has already failed.   *)
Probed(backendChosen) ==
  /\ chosen = "probing"
  /\ chosen' = backendChosen
  /\ IF backendChosen = "libei"
       THEN ~failedEarly /\ UNCHANGED <<cmds, tracked, gone, cancel>>
       ELSE failedEarly /\ ~ready /\ Drops /\ gone' = TRUE /\ cancel' = TRUE
  /\ UNCHANGED <<threadVars, offered, down, offers, mistypedEi>>

LibeiThread ==
  \/ HandshakeProceeds \/ HandshakeStops \/ ThreadEnds \/ LoopCommand
  \/ \E why \in {"shutdown", "cancel", "connection"} : LoopEnds(why)

LibeiNext ==
  \/ LibeiThread
  \/ \E d \in Devices : DeviceAdded(d) \/ DeviceResumed(d) \/ DevicePaused(d) \/ DeviceRemoved(d)
  \/ Disconnected
  \/ \E k \in EiKeys, isDown \in BOOLEAN, want \in SUBSET EiMods : EiKey(k, isDown, want)
  \/ \E b \in EiButtons, isDown \in BOOLEAN : EiButton(b, isDown)
  \/ \E want \in BOOLEAN : EiSetLock(want)
  \/ EiReleaseAll \/ DropSink
  \/ \E b \in {"libei", "uinput", "x11"} : Probed(b)

(* The thread is scheduled: cancellation is looked at first at every await  *)
(* of the handshake, and the loop selects over what is ready.               *)
LibeiFairness ==
  /\ WF_libeiVars(cancel /\ HandshakeStops)
  /\ WF_libeiVars(ThreadEnds)
  /\ WF_libeiVars(LoopEnds("cancel"))

LibeiSpec == LibeiInit /\ [][LibeiNext]_libeiVars /\ LibeiFairness

-------------------------------------------------------------------------------
LibeiTypeOK ==
  /\ chosen \in {"probing", "libei", "uinput", "x11"} /\ stage \in Stages
  /\ portal \in {"none", "open", "closed"}
  /\ {ready, everReady, failedEarly, cancel, gone, mistypedEi} \subseteq BOOLEAN
  /\ tracked \in [keys : SUBSET EiKeys, buttons : SUBSET EiButtons, mods : SUBSET EiMods, caps : BOOLEAN]
  /\ bound \in [device : Devices \cup {NoDevice}, emulating : BOOLEAN]
  /\ offered \in [added : SUBSET Devices, resumed : SUBSET Devices]
  /\ bound.emulating => bound.device \in offered.resumed
  /\ down \in [Devices -> SUBSET (EiKeys \cup EiMods \cup EiButtons \cup {EiCaps})]

(* A handshake that does not reach the loop leaves no portal session and no *)
(* open consent dialog behind (libei.rs:606-612).                           *)
HandshakeLeavesNothing ==
  [][InHandshake /\ stage' = "closing" => portal' # "open"]_libeiVars

(* Input is permitted only with a device bound that emulates                *)
(* (libei.rs:446-450), until the thread has noted its end.                  *)
ReadyMeansEmulating == ready => bound.emulating \/ stage = "closing"

(* The same with what "the needed capabilities" says: the device that was   *)
(* added last is bound whatever its interfaces.                             *)
ReadyMeansUsable ==
  ready => (bound.emulating /\ bound.device \in Keyboards \cap Pointers) \/ stage = "closing"

(* What is down at the bound device the sink still tracks, or its release   *)
(* is queued: however many devices come and go, take each other's place or  *)
(* are paused with commands on their way, what goes down at the one that is *)
(* bound can be lifted.  At a device that is not bound any more it may stay *)
(* down (DownIsTracked).                                                    *)
Liftable(k) ==
  \/ k \in Pressed
  \/ \E i \in DOMAIN cmds : cmds[i].of = k /\ cmds[i].kind = "key" /\ ~cmds[i].down
BoundIsTracked == bound.device \in Devices => \A k \in down[bound.device] : Liftable(k)

(* The same of every device.                                                *)
DownIsTracked == \A d \in Devices : \A k \in down[d] : Liftable(k)

(* A key goes down with the modifiers it was sent with.                     *)
ModifiersFollow == ~mistypedEi

(* Every portal session that was opened is closed when its thread ends.     *)
EndedSessionIsClosed == stage = "ended" => portal # "open"

(* A dropped sink's thread ends, also while the consent dialog is open.     *)
DropEndsThread == gone ~> stage = "ended"
=============================================================================
