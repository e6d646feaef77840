---------------------------- MODULE CameraEgress ----------------------------
(***************************************************************************)
(* The camera of an accepted call: the commands that reach the call's      *)
(* media supervisor, and the pump threads it starts.  A connection's video *)
(* sink can be taken once, so each connection has at most one pump, known  *)
(* by its number; a peer that calls again while the context is still there *)
(* brings a second one.  One flag, camera_stop, is shared by all of them.  *)
(***************************************************************************)
EXTENDS Naturals, Sequences

CONSTANTS MaxTransports,   \* connections of the peer
          MaxMediaCmds     \* commands sent to the supervisor

ASSUME CameraAssumption == MaxTransports \in Nat \ {0} /\ MaxMediaCmds \in Nat

VARIABLES
  transport,    \* the connection the context holds
  mediaCmds,    \* the supervisor's queue
  asked,        \* the last command sent
  sent,         \* commands sent
  sup,          \* the supervisor's task: "parked", "polling", "killed", "aborted"
  isVideo, cameraStop,
  pumps         \* by connection: "unborn", "opening", "live", "closing", "gone"

cameraVars == <<transport, mediaCmds, asked, sent, sup, isVideo, cameraStop, pumps>>
Pumps == 1 .. MaxTransports
Off == {"unborn", "gone"}

CameraInit ==
  /\ transport = 1 /\ mediaCmds = <<>> /\ asked = "none" /\ sent = 0 /\ sup = "parked"
  /\ isVideo = FALSE /\ cameraStop = FALSE /\ pumps = [p \in Pumps |-> "unborn"]
-----------------------------------------------------------------------------
(* Who asks.  The driver starts the media of a call once and stops it when  *)
(* either side hangs up; the user switches the camera in between.           *)
Asks(c) ==
  /\ sent < MaxMediaCmds /\ sent' = sent + 1
  /\ asked' = c /\ mediaCmds' = Append(mediaCmds, c)

MediaStart(media) ==
  /\ asked = "none" /\ Asks(media)
  /\ UNCHANGED <<transport, sup, isVideo, cameraStop, pumps>>
call_set_camera(on) ==
  /\ asked \notin {"none", "stop"} /\ sup # "aborted" /\ Asks(IF on THEN "on" ELSE "off")
  /\ UNCHANGED <<transport, sup, isVideo, cameraStop, pumps>>
MediaStop ==
  /\ asked \notin {"none", "stop"} /\ sup # "aborted" /\ Asks("stop")
  /\ UNCHANGED <<transport, sup, isVideo, cameraStop, pumps>>

(* teardown: a Stop of its own, then the abort, which a task that is not    *)
(* running obeys before it looks at its queue.                              *)
Teardown ==
  /\ sup \in {"parked", "polling"}
  /\ asked' = "stop" /\ mediaCmds' = Append(mediaCmds, "stop")
  /\ sup' = IF sup = "parked" THEN "aborted" ELSE "killed"
  /\ UNCHANGED <<transport, sent, isVideo, cameraStop, pumps>>

(* handle_inbound_call: another connection of the same peer.                *)
PeerCallsAgain ==
  /\ transport < MaxTransports /\ sup \in {"parked", "polling"} /\ transport' = transport + 1
  /\ UNCHANGED <<mediaCmds, asked, sent, sup, isVideo, cameraStop, pumps>>
-----------------------------------------------------------------------------
(* The supervisor takes all there is before it waits again.                 *)
Takes(c) ==
  /\ sup # "aborted" /\ mediaCmds # <<>> /\ Head(mediaCmds) = c
  /\ mediaCmds' = Tail(mediaCmds)
  /\ sup' = IF sup = "parked" THEN "polling" ELSE sup
  /\ UNCHANGED <<transport, asked, sent>>

(* start_camera_egress: the flag goes down only where the sink is there to  *)
(* be taken.                                                                *)
StartsEgress ==
  LET free == pumps[transport] = "unborn" IN
  /\ cameraStop' = (cameraStop /\ ~free)
  /\ pumps' = IF free THEN [pumps EXCEPT ![transport] = "opening"] ELSE pumps

StartsVideo == Takes("video") /\ isVideo' = TRUE /\ StartsEgress
StartsVoice == Takes("voice") /\ isVideo' = FALSE /\ UNCHANGED <<cameraStop, pumps>>
CameraOn ==
  /\ Takes("on") /\ UNCHANGED isVideo
  /\ IF isVideo THEN StartsEgress ELSE UNCHANGED <<cameraStop, pumps>>
CameraOff == Takes("off") /\ cameraStop' = TRUE /\ UNCHANGED <<isVideo, pumps>>
CallOver_MicOnly == Takes("stop") /\ UNCHANGED <<cameraStop, isVideo, pumps>>
CallOver == Takes("stop") /\ cameraStop' = TRUE /\ UNCHANGED <<isVideo, pumps>>

SupervisorWaits ==
  /\ sup \in {"polling", "killed"} /\ mediaCmds = <<>>
  /\ sup' = IF sup = "killed" THEN "aborted" ELSE "parked"
  /\ UNCHANGED <<transport, mediaCmds, asked, sent, isVideo, cameraStop, pumps>>

MediaSupervisor == \/ StartsVideo \/ StartsVoice \/ CameraOn \/ CameraOff \/ CallOver
                   \/ SupervisorWaits
-----------------------------------------------------------------------------
(* camera_pump: the camera opens, or the thread returns with the flag       *)
(* unread; the loop runs to the flag or to the camera's failure.            *)
Becomes(p, at) ==
  /\ pumps' = [pumps EXCEPT ![p] = at]
  /\ UNCHANGED <<transport, mediaCmds, asked, sent, sup, isVideo, cameraStop>>

CamOpens(p) == pumps[p] = "opening" /\ Becomes(p, "live")
OpenRefused(p) == pumps[p] = "opening" /\ Becomes(p, "gone")
CameraLoopEnds(p) == pumps[p] = "live" /\ cameraStop /\ Becomes(p, "closing")
CameraFails(p) == pumps[p] = "live" /\ Becomes(p, "closing")
CamCloses(p) == pumps[p] = "closing" /\ Becomes(p, "gone")

Pump(p) == CamOpens(p) \/ OpenRefused(p) \/ CameraLoopEnds(p) \/ CamCloses(p)
CameraNext ==
  \/ \E media \in {"voice", "video"} : MediaStart(media)
  \/ \E on \in BOOLEAN : call_set_camera(on)
  \/ MediaStop \/ Teardown \/ PeerCallsAgain \/ MediaSupervisor
  \/ \E p \in Pumps : Pump(p) \/ CameraFails(p)

(* The task and the threads are scheduled.                                  *)
CameraFairness ==
  /\ WF_cameraVars(MediaSupervisor)
  /\ \A p \in Pumps : WF_cameraVars(Pump(p))
CameraSpec == CameraInit /\ [][CameraNext]_cameraVars /\ CameraFairness

CameraTypeOK ==
  /\ transport \in Pumps /\ isVideo \in BOOLEAN /\ cameraStop \in BOOLEAN
  /\ asked \in {"none", "voice", "video", "on", "off", "stop"} /\ sent \in 0 .. MaxMediaCmds
  /\ mediaCmds \in Seq({"voice", "video", "on", "off", "stop"})
  /\ sup \in {"parked", "polling", "killed", "aborted"}
  /\ pumps \in [Pumps -> {"unborn", "opening", "live", "closing", "gone"}]

(* Off, or over, and left so, ends every pump, however its commands met the *)
(* supervisor, also a pump that a later start's flag had revived; except    *)
(* where the abort of the supervisor has cut its Stop off.                  *)
CutOff == sup = "aborted" /\ ~cameraStop
OffMeansOff == []<>(asked \notin {"off", "stop"} \/ CutOff \/ \A p \in Pumps : pumps[p] \in Off)

(* CallMediaController::stop: "nothing keeps capturing after a call ends".  *)
OverMeansOff == asked = "stop" ~> \A p \in Pumps : pumps[p] \in Off
(* call_set_camera: "on = true re-opens the camera".                        *)
OnReopens == asked = "on" /\ isVideo /\ mediaCmds = <<>> => ~cameraStop
=============================================================================
