--------------------------- MODULE SessionLifecycle ---------------------------
(***************************************************************************)
(* A host session and a controller session (crates/ras-core, session.rs)    *)
(* from start and connect to their end: the handshake, authorization, the   *)
(* two control loops, transport loss with the host's re-serve and the       *)
(* controller's re-dial, and the local ends of both (stop, emergency_stop,  *)
(* disconnect), which run on other threads than the loops.                  *)
(* Messages that no lifecycle step depends on (input, chat, feedback, key   *)
(* frame requests) are left out.                                            *)
(***************************************************************************)
EXTENDS Naturals, Sequences

CONSTANT MaxConns   \* bound: connections established

ASSUME LifecycleAssumption == MaxConns \in Nat \ {0}

-------------------------------------------------------------------------------
(* The session state machine of ras-core/src/lib.rs: the pure function      *)
(* transition, and apply, which ignores an event that is not valid in the   *)
(* current state.                                                           *)
States == { "Created", "SessionConnecting", "ControlEstablished", "Active",
            "Suspended", "Terminated", "Revoked", "Rejected", "Expired" }

Terminal == { "Terminated", "Revoked", "Rejected", "Expired" }

(* The edges between two particular states.                                 *)
Edges == { <<"Created", "Start", "SessionConnecting">>,
           <<"SessionConnecting", "ControlUp", "ControlEstablished">>,
           <<"ControlEstablished", "Authorized", "ControlEstablished">>,
           <<"ControlEstablished", "StreamConfigured", "Active">>,
           <<"Active", "TransportLost", "Suspended">>,
           <<"Suspended", "TransportRestored", "Active">>,
           <<"Suspended", "ReconnectWindowExpired", "Terminated">> }

(* The edges that leave every state that is not terminal.                   *)
EndOf == [ Revoke |-> "Revoked", Reject |-> "Rejected", Expire |-> "Expired",
           LocalStop |-> "Terminated", PeerClosed |-> "Terminated", Fatal |-> "Terminated" ]

Successors(s, e) ==
  { edge[3] : edge \in { x \in Edges : x[1] = s /\ x[2] = e } }
    \cup (IF s \notin Terminal /\ e \in DOMAIN EndOf THEN { EndOf[e] } ELSE {})

(* apply returned None.                                                     *)
Invalid(s, e) == Successors(s, e) = {}

Apply(s, e) == IF Invalid(s, e) THEN s ELSE CHOOSE t \in Successors(s, e) : TRUE
-------------------------------------------------------------------------------
VARIABLES
  link,     \* the current connection is up
  conn,     \* connections established so far
  toHost, toCtl,   \* messages on the control stream, not yet read
  grantOk,  \* the controller's grant is valid and consented to
  granted,  \* history: the connection the host's validator last authorized
  hState, hStop, hPc, hBye,    \* host: state, stop flag, task, queued Bye
  stopper,  \* the thread whose stop or emergency_stop won the stop flag
  hEnded,   \* history: SessionEnded reasons the host emitted
  cState, cStop, cPc, cBye,    \* controller: the same
  leaver,   \* the thread whose disconnect won the stop flag
  cEvents   \* history: the controller's Suspended, Resumed and SessionEnded

wire == <<link, conn, toHost, toCtl>>
auth == <<grantOk, granted>>
hostTask == <<hState, hStop, hPc, hBye, hEnded>>
hostVars == <<hostTask, stopper>>
ctlTask == <<cState, cStop, cPc, cBye, cEvents>>
ctlVars == <<ctlTask, leaver>>
vars == <<wire, auth, hostVars, ctlVars>>

(* The tasks' places: "failed" is an error returned by start or connect,    *)
(* "gone" the end of the control task.                                      *)
Over == { "failed", "gone" }
HostReserving == { "reserve", "reauth", "redecide", "reconfig" }
HostServing == { "loop" } \cup HostReserving
CtlServing == { "loop", "redial", "rehandshake" }
HostPcs == { "idle", "establish", "hello", "auth", "decide", "configure" } \cup HostServing \cup Over
CtlPcs == { "idle", "establish", "present", "handshake" } \cup CtlServing \cup Over

(* A recv fails once what has arrived is read and the connection is down or *)
(* the peer has dropped its end; a send fails when the connection is down.  *)
HostRecvFails == toHost = <<>> /\ (~link \/ cPc \in Over)
CtlRecvFails == toCtl = <<>> /\ (~link \/ hPc \in Over)

SendToCtl(msg) == toCtl' = IF link THEN Append(toCtl, msg) ELSE toCtl
SendToHost(msg) == toHost' = IF link THEN Append(toHost, msg) ELSE toHost

Init ==
  /\ link = FALSE /\ conn = 0 /\ toHost = <<>> /\ toCtl = <<>>
  /\ grantOk = TRUE /\ granted = 0
  /\ hState = "Created" /\ hStop = FALSE /\ hPc = "idle" /\ hBye = "none" /\ hEnded = <<>>
  /\ cState = "Created" /\ cStop = FALSE /\ cPc = "idle" /\ cBye = FALSE /\ cEvents = <<>>
  /\ stopper = [pc |-> "none"] /\ leaver = "none"

-------------------------------------------------------------------------------
(* The network and the grant.                                               *)

(* The connection is lost: what was sent and has not arrived is lost too.   *)
LinkCut ==
  /\ link
  /\ link' = FALSE
  /\ \E n \in 0 .. Len(toHost) : toHost' = SubSeq(toHost, 1, n)
  /\ \E n \in 0 .. Len(toCtl) : toCtl' = SubSeq(toCtl, 1, n)
  /\ UNCHANGED <<conn, auth, hostVars, ctlVars>>

GrantExpires == grantOk /\ grantOk' = FALSE /\ UNCHANGED <<wire, granted, hostVars, ctlVars>>

-------------------------------------------------------------------------------
(* HostSession::start and ControllerSession::connect.                       *)

HostStart ==
  /\ hPc = "idle"
  /\ hPc' = "establish" /\ hState' = Apply(hState, "Start")
  /\ UNCHANGED <<wire, auth, hStop, hBye, hEnded, stopper, ctlVars>>

CtlConnect ==
  /\ cPc = "idle"
  /\ cPc' = "establish" /\ cState' = Apply(cState, "Start")
  /\ UNCHANGED <<wire, auth, hostVars, cStop, cBye, cEvents, leaver>>

NewConnection == link' = TRUE /\ conn' = conn + 1

Establish ==
  /\ hPc = "establish" /\ cPc = "establish"
  /\ NewConnection
  /\ hPc' = "hello" /\ hState' = Apply(hState, "ControlUp")
  /\ cPc' = "present" /\ cState' = Apply(cState, "ControlUp")
  /\ UNCHANGED <<toHost, toCtl, auth, hStop, hBye, hEnded, stopper, cStop, cBye, cEvents, leaver>>

EstablishFails ==
  /\ \/ hPc = "establish" /\ hPc' = "failed" /\ UNCHANGED cPc
     \/ cPc = "establish" /\ cPc' = "failed" /\ UNCHANGED hPc
  /\ UNCHANGED <<wire, auth, hState, hStop, hBye, hEnded, stopper, cState, cStop, cBye, cEvents, leaver>>

HostSaysHello ==
  /\ hPc = "hello"
  /\ hPc' = IF link THEN "auth" ELSE "failed"
  /\ SendToCtl("Hello")
  /\ UNCHANGED <<link, conn, toHost, auth, hState, hStop, hBye, hEnded, stopper, ctlVars>>

CtlPresentsGrant ==
  /\ cPc = "present"
  /\ cPc' = IF link THEN "handshake" ELSE "failed"
  /\ SendToHost("AuthEnvelope")
  /\ UNCHANGED <<link, conn, toCtl, auth, hostVars, cState, cStop, cBye, cEvents, leaver>>

HostReadsGrant ==
  /\ hPc = "auth"
  /\ \/ toHost # <<>> /\ toHost' = Tail(toHost) /\ hPc' = "decide"
     \/ HostRecvFails /\ hPc' = "failed" /\ UNCHANGED toHost
  /\ UNCHANGED <<link, conn, toCtl, auth, hState, hStop, hBye, hEnded, stopper, ctlVars>>

(* validator.authorize.  The SessionEnded of a denial goes to a stream that *)
(* start then drops, so no one receives it.                                 *)
HostAuthorizes ==
  /\ hPc = "decide"
  /\ \/ /\ grantOk /\ granted' = conn
        /\ hPc' = "configure" /\ hState' = Apply(hState, "Authorized")
     \/ /\ hPc' = "failed" /\ hState' = Apply(hState, "Reject")
        /\ UNCHANGED granted
  /\ UNCHANGED <<wire, grantOk, hStop, hBye, hEnded, stopper, ctlVars>>

(* Start capture, announce the stream, go Active, open the video sink and   *)
(* spawn the control task.  start returns the error of a step that fails.   *)
HostConfigures ==
  /\ hPc = "configure"
  /\ \/ /\ link /\ SendToCtl("StreamConfig")
        /\ hPc' \in { "loop", "failed" } /\ hState' = Apply(hState, "StreamConfigured")
     \/ hPc' = "failed" /\ UNCHANGED <<toCtl, hState>>
  /\ UNCHANGED <<link, conn, toHost, auth, hStop, hBye, hEnded, stopper, ctlVars>>

(* The controller reads until StreamConfig, then goes Active and spawns its *)
(* control task.                                                            *)
CtlHandshakes ==
  /\ cPc = "handshake"
  /\ \/ /\ toCtl # <<>> /\ toCtl' = Tail(toCtl)
        /\ IF Head(toCtl) = "StreamConfig"
             THEN cPc' = "loop" /\ cState' = Apply(Apply(cState, "Authorized"), "StreamConfigured")
             ELSE UNCHANGED <<cPc, cState>>
     \/ CtlRecvFails /\ cPc' = "failed" /\ UNCHANGED <<toCtl, cState>>
  /\ UNCHANGED <<link, conn, toHost, auth, hostVars, cStop, cBye, cEvents, leaver>>

-------------------------------------------------------------------------------
(* host_control_loop.                                                       *)

(* A queued Bye is flushed to the controller and the loop ends.             *)
HostFlushesBye ==
  /\ hPc = "loop" /\ hBye # "none"
  /\ SendToCtl(hBye)
  /\ hPc' = "gone" /\ hBye' = "none"
  /\ UNCHANGED <<link, conn, toHost, auth, hState, hStop, hEnded, stopper, ctlVars>>

(* An outbound message, or the answer to a file offer, cannot be sent: the  *)
(* loop breaks, with nothing else.                                          *)
HostSendFails ==
  /\ hPc = "loop" /\ ~link
  /\ hPc' = "gone"
  /\ UNCHANGED <<wire, auth, hState, hStop, hBye, hEnded, stopper, ctlVars>>

(* The end of a loop that claims the stop flag for itself.                  *)
HostEnds(event, reason) ==
  /\ hPc' = "gone"
  /\ IF hStop
       THEN UNCHANGED <<hState, hStop, hEnded>>
       ELSE hStop' = TRUE /\ hState' = Apply(hState, event) /\ hEnded' = Append(hEnded, reason)

HostReadsBye_NoSwap ==   \* mutant of HostReadsBye: not first-caller-wins
  /\ hPc = "loop" /\ toHost # <<>>
  /\ toHost' = Tail(toHost)
  /\ hPc' = "gone" /\ hStop' = TRUE
  /\ hState' = Apply(hState, "PeerClosed") /\ hEnded' = Append(hEnded, "PeerClosed")
  /\ UNCHANGED <<link, conn, toCtl, auth, hBye, stopper, ctlVars>>

HostReadsBye ==
  /\ hPc = "loop" /\ toHost # <<>>
  /\ toHost' = Tail(toHost)
  /\ HostEnds("PeerClosed", "PeerClosed")
  /\ UNCHANGED <<link, conn, toCtl, auth, hBye, stopper, ctlVars>>

(* A failed read outside a stop starts the re-serve, which closes what is   *)
(* left of the old connection.                                              *)
HostLosesController ==
  /\ hPc = "loop" /\ HostRecvFails
  /\ IF hStop THEN hPc' = "gone" /\ UNCHANGED link
              ELSE hPc' = "reserve" /\ link' = FALSE
  /\ UNCHANGED <<conn, toHost, toCtl, auth, hState, hStop, hBye, hEnded, stopper, ctlVars>>

(* host_reserve and controller_redial meet: fresh channels on a fresh       *)
(* connection.  A stop that landed meanwhile ends the re-serve.             *)
Reconnect ==
  /\ hPc = "reserve" /\ cPc = "redial"
  /\ conn < MaxConns
  /\ NewConnection
  /\ toHost' = <<"AuthEnvelope">> /\ cPc' = "rehandshake"
  /\ IF hStop THEN hPc' = "gone" /\ toCtl' = <<>>
              ELSE hPc' = "reauth" /\ toCtl' = <<"Hello">>
  /\ UNCHANGED <<auth, hState, hStop, hBye, hEnded, stopper, cState, cStop, cBye, cEvents, leaver>>

HostRereadsGrant ==
  /\ hPc = "reauth" /\ toHost # <<>>
  /\ toHost' = Tail(toHost) /\ hPc' = "redecide"
  /\ UNCHANGED <<link, conn, toCtl, auth, hState, hStop, hBye, hEnded, stopper, ctlVars>>

HostRevalidates_Skipped ==   \* mutant of HostRevalidates: same endpoint, not asked again
  /\ hPc = "redecide" /\ ~hStop
  /\ hPc' = "reconfig"
  /\ UNCHANGED <<wire, auth, hState, hStop, hBye, hEnded, stopper, ctlVars>>

(* The same validator as on the first connection, asked again.              *)
HostRevalidates ==
  /\ hPc = "redecide" /\ grantOk /\ ~hStop
  /\ hPc' = "reconfig" /\ granted' = conn
  /\ UNCHANGED <<wire, grantOk, hState, hStop, hBye, hEnded, stopper, ctlVars>>

(* Announce the stream again and go back to the loop, unless stopped.       *)
HostReconfigures ==
  /\ hPc = "reconfig" /\ link
  /\ SendToCtl("StreamConfig")
  /\ hPc' = IF hStop THEN "gone" ELSE "loop"
  /\ UNCHANGED <<link, conn, toHost, auth, hState, hStop, hBye, hEnded, stopper, ctlVars>>

(* The reconnect window elapses, the connection is lost again, the grant is *)
(* refused or a stop is seen.                                               *)
HostReserveFails ==
  /\ hPc \in HostReserving
  /\ HostEnds("Fatal", "Error")
  /\ UNCHANGED <<wire, auth, hBye, stopper, ctlVars>>

-------------------------------------------------------------------------------
(* stop and emergency_stop: only the caller that wins the flag goes on.     *)

HostStopCalled ==
  /\ hPc # "idle" /\ ~hStop
  /\ hStop' = TRUE
  /\ \E kind \in { "stop", "revoke" } : stopper' = [pc |-> "claimed", kind |-> kind]
  /\ UNCHANGED <<wire, auth, hState, hPc, hBye, hEnded, ctlVars>>

StopperGoes(from, to) == stopper.pc = from /\ stopper' = [stopper EXCEPT !.pc = to]

(* The SessionEnded of a session whose start failed goes nowhere.           *)
HostStopEnds ==
  /\ StopperGoes("claimed", "ended")
  /\ hState' = Apply(hState, IF stopper.kind = "revoke" THEN "Revoke" ELSE "LocalStop")
  /\ hEnded' = IF hPc = "failed" THEN hEnded
               ELSE Append(hEnded, IF stopper.kind = "revoke" THEN "Revoked" ELSE "Stopped")
  /\ UNCHANGED <<wire, auth, hStop, hPc, hBye, ctlVars>>

ByeOf(kind) == IF kind = "revoke" THEN "ByeRevoked" ELSE "ByeNormal"

(* There is a control task to tell once start has spawned it.               *)
HostStopQueuesBye ==
  /\ StopperGoes("ended", "join")
  /\ hBye' = IF hPc \in HostServing THEN ByeOf(stopper.kind) ELSE hBye
  /\ UNCHANGED <<wire, auth, hState, hStop, hPc, hEnded, ctlVars>>

(* The control task ends within the grace, or is aborted.                   *)
HostStopJoins ==
  /\ StopperGoes("join", "done")
  /\ hPc' = IF hPc \in HostServing THEN "gone" ELSE hPc
  /\ UNCHANGED <<wire, auth, hState, hStop, hBye, hEnded, ctlVars>>

-------------------------------------------------------------------------------
(* controller_control_loop, its loss handling and re-dial, and disconnect.  *)

CtlSendsBye ==
  /\ cPc = "loop" /\ cBye
  /\ SendToHost("Bye")
  /\ cPc' = "gone" /\ cBye' = FALSE
  /\ UNCHANGED <<link, conn, toCtl, auth, hostVars, cState, cStop, cEvents, leaver>>

(* The host's Bye sets the flag without asking whether it was set.          *)
CtlReadsBye ==
  /\ cPc = "loop" /\ toCtl # <<>>
  /\ toCtl' = Tail(toCtl)
  /\ cPc' = "gone" /\ cStop' = TRUE
  /\ cState' = Apply(cState, IF Head(toCtl) = "ByeRevoked" THEN "Revoke" ELSE "PeerClosed")
  /\ cEvents' = Append(cEvents, "SessionEnded")
  /\ UNCHANGED <<link, conn, toHost, auth, hostVars, cBye, leaver>>

(* controller_handle_loss, for a failed read and for a failed send.         *)
CtlLosesHost ==
  /\ cPc = "loop" /\ (~link \/ CtlRecvFails)
  /\ IF cStop \/ Invalid(cState, "TransportLost")
       THEN cPc' = "gone" /\ UNCHANGED <<link, cState, cEvents>>
       ELSE /\ cPc' = "redial" /\ link' = FALSE
            /\ cState' = Apply(cState, "TransportLost")
            /\ cEvents' = Append(cEvents, "Suspended")
  /\ UNCHANGED <<conn, toHost, toCtl, auth, hostVars, cStop, cBye, leaver>>

(* The host's StreamConfig acknowledges the resume.                         *)
CtlRehandshakes ==
  /\ cPc = "rehandshake" /\ toCtl # <<>>
  /\ toCtl' = Tail(toCtl)
  /\ IF Head(toCtl) = "StreamConfig"
       THEN /\ cPc' = "loop" /\ cState' = Apply(cState, "TransportRestored")
            /\ cEvents' = Append(cEvents, "Resumed")
       ELSE UNCHANGED <<cPc, cState, cEvents>>
  /\ UNCHANGED <<link, conn, toHost, auth, hostVars, cStop, cBye, leaver>>

CtlRedialFails_Unbounded ==   \* mutant of CtlRedialFails: no reconnect window
  /\ cPc = "rehandshake" /\ CtlRecvFails
  /\ cPc' = "gone"
  /\ IF Invalid(cState, "ReconnectWindowExpired")
       THEN UNCHANGED <<cState, cStop, cEvents>>
       ELSE /\ cState' = Apply(cState, "ReconnectWindowExpired") /\ cStop' = TRUE
            /\ cEvents' = Append(cEvents, "SessionEnded")
  /\ UNCHANGED <<wire, auth, hostVars, cBye, leaver>>

(* The window elapses, the connection is lost again or the host refuses.    *)
CtlRedialFails ==
  /\ cPc \in { "redial", "rehandshake" }
  /\ cPc' = "gone"
  /\ IF Invalid(cState, "ReconnectWindowExpired")
       THEN UNCHANGED <<cState, cStop, cEvents>>
       ELSE /\ cState' = Apply(cState, "ReconnectWindowExpired") /\ cStop' = TRUE
            /\ cEvents' = Append(cEvents, "SessionEnded")
  /\ UNCHANGED <<wire, auth, hostVars, cBye, leaver>>

DisconnectCalled ==
  /\ cPc # "idle" /\ ~cStop
  /\ cStop' = TRUE /\ leaver' = "claimed"
  /\ UNCHANGED <<wire, auth, hostVars, cState, cPc, cBye, cEvents>>

LeaverGoes(from, to) == leaver = from /\ leaver' = to

DisconnectApplies ==
  /\ LeaverGoes("claimed", "bye")
  /\ cState' = Apply(cState, "LocalStop")
  /\ UNCHANGED <<wire, auth, hostVars, cStop, cPc, cBye, cEvents>>

DisconnectQueuesBye ==
  /\ LeaverGoes("bye", "emit")
  /\ cBye' = (cPc \in CtlServing)
  /\ UNCHANGED <<wire, auth, hostVars, cState, cStop, cPc, cEvents>>

(* As on the host, a failed connect has dropped the event stream.           *)
DisconnectEmits ==
  /\ LeaverGoes("emit", "join")
  /\ cEvents' = IF cPc = "failed" THEN cEvents ELSE Append(cEvents, "SessionEnded")
  /\ UNCHANGED <<wire, auth, hostVars, cState, cStop, cPc, cBye>>

DisconnectJoins ==
  /\ LeaverGoes("join", "done")
  /\ cPc' = IF cPc \in CtlServing THEN "gone" ELSE cPc
  /\ UNCHANGED <<wire, auth, hostVars, cState, cStop, cBye, cEvents>>

-------------------------------------------------------------------------------
HostSteps ==
  \/ HostSaysHello \/ HostReadsGrant \/ HostAuthorizes \/ HostConfigures
  \/ HostFlushesBye \/ HostReadsBye \/ HostLosesController
  \/ HostRereadsGrant \/ HostRevalidates \/ HostReconfigures

StopSteps == HostStopEnds \/ HostStopQueuesBye \/ HostStopJoins

CtlSteps ==
  \/ CtlPresentsGrant \/ CtlHandshakes
  \/ CtlSendsBye \/ CtlReadsBye \/ CtlLosesHost \/ CtlRehandshakes

LeaverSteps == DisconnectApplies \/ DisconnectQueuesBye \/ DisconnectEmits \/ DisconnectJoins

Next ==
  \/ HostStart \/ CtlConnect \/ Establish \/ EstablishFails \/ Reconnect
  \/ HostSteps \/ HostSendFails \/ HostReserveFails
  \/ CtlSteps \/ CtlRedialFails
  \/ HostStopCalled \/ StopSteps \/ DisconnectCalled \/ LeaverSteps
  \/ LinkCut \/ GrantExpires

Spec == Init /\ [][Next]_vars

(* Every task and stopping thread goes on, every window and consent prompt  *)
(* ends.  Nothing is assumed of cuts, expiry, reconnects or of the users.   *)
Fairness ==
  /\ WF_vars(HostSteps) /\ WF_vars(HostReserveFails) /\ WF_vars(StopSteps)
  /\ WF_vars(CtlSteps) /\ WF_vars(CtlRedialFails) /\ WF_vars(LeaverSteps)

FairSpec == Spec /\ Fairness

-------------------------------------------------------------------------------
(* Properties.                                                              *)

HostMessages == { "Hello", "StreamConfig", "ByeNormal", "ByeRevoked" }
CtlMessages == { "AuthEnvelope", "Bye" }
HostReports == { "Stopped", "Revoked", "PeerClosed", "Error" }
CtlReports == { "Suspended", "Resumed", "SessionEnded" }
Stoppers == [pc : { "none" }]
              \cup [pc : { "claimed", "ended", "join", "done" }, kind : { "stop", "revoke" }]

(* Type correctness of both sessions, their stop flags, tasks and streams.  *)
LifecycleTypeOK ==
  /\ link \in BOOLEAN /\ conn \in 0 .. MaxConns
  /\ toHost \in Seq(CtlMessages) /\ toCtl \in Seq(HostMessages)
  /\ grantOk \in BOOLEAN /\ granted \in 0 .. conn
  /\ hState \in States /\ hStop \in BOOLEAN /\ hPc \in HostPcs
  /\ hBye \in { "none", "ByeNormal", "ByeRevoked" } /\ hEnded \in Seq(HostReports)
  /\ stopper \in Stoppers
  /\ cState \in States /\ cStop \in BOOLEAN /\ cPc \in CtlPcs /\ cBye \in BOOLEAN
  /\ leaver \in { "none", "claimed", "bye", "emit", "join", "done" }
  /\ cEvents \in Seq(CtlReports)

(* The host reports the end of a session once, whoever of the user, the     *)
(* emergency stop, the peer's Bye and the reconnect window comes first, and *)
(* the reason it reports is the one its state shows: no later end downgrades*)
(* a revoke to an ordinary close.                                           *)
OneHostEnd ==
  /\ Len(hEnded) <= 1
  /\ hEnded = <<"Revoked">> <=> hState = "Revoked" /\ hEnded # <<>>
  /\ hEnded # <<>> => hState \in Terminal

(* The validator has authorized the very connection both loops talk over: a *)
(* reconnect never resumes on the authorization of an earlier connection.   *)
ServesOnlyValidated == (hPc = "loop" \/ cPc = "loop") => granted = conn

(* A controller that ends as Revoked was cut off by the host's emergency    *)
(* stop, never by an ordinary stop, a peer close or a lost connection.      *)
RevokedOnlyByHost == cState = "Revoked" => hState = "Revoked"

(* A controller task never ends leaving the session open: a failed send is  *)
(* a loss like a failed read, and every loss resumes or terminates.         *)
NoSilentEnd == cPc = "gone" => cState \in Terminal \/ leaver = "claimed"

(* How a session ends is reported, once and as what it was; what is served  *)
(* and what ends as revoked rests on the host's latest word.                *)
EndIsTold == OneHostEnd /\ NoSilentEnd
AuthorityIsCurrent == ServesOnlyValidated /\ RevokedOnlyByHost

(* A stop or emergency stop of a serving host ends the controller's session,*)
(* through the Bye or, if it is lost, through the loss and a failed re-dial.*)
StopEndsController ==
  (stopper.pc = "claimed" /\ hPc \in HostServing) ~> (cPc \in Over)

(* When the controller is gone, with or without a Bye, the host's session   *)
(* ends too: no host task waits for it for ever.                            *)
LeaveEndsHost ==
  (cPc \in Over /\ hPc \notin { "idle", "establish" }) ~> (hPc \in Over)

(* What the comments and ADR-091 say, which the code does not do.           *)

(* "on failure end the session (fail-closed)": a host loop that ends has    *)
(* ended the session.                                                       *)
HostEndReported == hPc = "gone" => hState \in Terminal \/ stopper.pc = "claimed"

(* "session-ended. Terminal; the object is inert afterward."                *)
ControllerInert ==
  \A i, j \in 1 .. Len(cEvents) : cEvents[i] = "SessionEnded" => j <= i

(* stop: "it flushes a Bye so the controller ends promptly"; the cases in   *)
(* which the controller's own user leaves are put aside.                    *)
StopReachesController ==
  stopper.pc = "claimed" ~> leaver # "none" \/ cPc \in Over \cup { "idle", "establish" }
===============================================================================
