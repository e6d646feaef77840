-------------------------------- MODULE Call --------------------------------
(***************************************************************************)
(* The decision core of a 1:1 call, ras-call without its effects: the call *)
(* state machine, and what CallManager and CallRuntime make of each local  *)
(* event and each control message.  A call is a record with its state, its *)
(* media and the two queues the driver fills: messages for the peer and    *)
(* commands for the media supervisor.  An event that is not valid in the   *)
(* state leaves the record as it is.                                       *)
(***************************************************************************)
EXTENDS Sequences

InProgress == {"Dialing", "Ringing", "Connecting", "Active"}
Terminal == {"Ended", "Declined", "Missed", "Failed"}
CallStates == {"Idle"} \cup InProgress \cup Terminal

Media == {"voice", "video"}
Narrow(offered, accepted) ==
  IF offered = "video" /\ accepted = "video" THEN "video" ELSE "voice"

\* transition: the state after an event, or "Invalid".
Transition(s, e) ==
  CASE s = "Idle" /\ e = "Dial" -> "Dialing"
    [] s = "Idle" /\ e = "Ring" -> "Ringing"
    [] s = "Dialing" /\ e = "RemoteAccepted" -> "Connecting"
    [] s = "Ringing" /\ e = "LocalAccept" -> "Connecting"
    [] s = "Connecting" /\ e = "MediaConnected" -> "Active"
    [] s = "Ringing" /\ e = "LocalDecline" -> "Declined"
    [] s = "Dialing" /\ e = "RemoteDeclined" -> "Declined"
    [] s \in {"Dialing", "Ringing"} /\ e = "RingTimeout" -> "Missed"
    [] s \in InProgress /\ e = "Hangup" -> "Ended"
    [] s \in InProgress /\ e = "Fail" -> "Failed"
    [] OTHER -> "Invalid"

Valid(k, e) == Transition(k.st, e) # "Invalid"
Step(k, e) == [k EXCEPT !.st = Transition(k.st, e)]
Send(k, m) == [k EXCEPT !.outq = Append(@, m)]
Command(k, c) == [k EXCEPT !.mediaq = Append(@, c)]
Agree(k, m) == [k EXCEPT !.media = Narrow(@, m)]
-----------------------------------------------------------------------------
(* Local events *)

PlaceCall(k, media) == [Step(k, "Dial") EXCEPT !.media = media]


LocalAccept(k, media) ==
  IF ~Valid(k, "LocalAccept") THEN k
  ELSE LET j == Agree(Step(k, "LocalAccept"), media)
       IN Send(j, [kind |-> "accept", media |-> j.media])

LocalDecline(k) ==
  IF ~Valid(k, "LocalDecline") THEN k
  ELSE Send(Step(k, "LocalDecline"), [kind |-> "reject"])

MediaConnected(k) ==
  IF ~Valid(k, "MediaConnected") THEN k
  ELSE Command(Step(k, "MediaConnected"), "start")

Hangup(k) ==
  IF ~Valid(k, "Hangup") THEN k
  ELSE Command(Send(Step(k, "Hangup"), [kind |-> "hangup"]), "stop")
-----------------------------------------------------------------------------
(* Events of the peer *)

OnInvite(k, media) == [Step(k, "Ring") EXCEPT !.media = media]

\* OnHangup, without the StopMedia it asks for.
OnHangup_KeepsMedia(k) == IF Valid(k, "Hangup") THEN Step(k, "Hangup") ELSE k

OnHangup(k) ==
  IF Valid(k, "Hangup") THEN Command(Step(k, "Hangup"), "stop") ELSE k

\* on_control
OnControl(k, m) ==
  CASE m.kind = "accept" /\ Valid(k, "RemoteAccepted") ->
         Agree(Step(k, "RemoteAccepted"), m.media)
    [] m.kind = "reject" /\ Valid(k, "RemoteDeclined") -> Step(k, "RemoteDeclined")
    [] m.kind = "hangup" -> OnHangup(k)
    [] OTHER -> k
=============================================================================
