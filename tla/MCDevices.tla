----------------------------- MODULE MCDevices -----------------------------
(***************************************************************************)
(* The parts of a share that run on threads of their own, checked side by  *)
(* side: they do not act on one another, so a behaviour is a behaviour of  *)
(* one of them, chosen at the start, while the others stay in an initial   *)
(* state.  Each part has its own next-state relation and the fairness its  *)
(* module states, which holds of it when it is the one chosen.  Of the     *)
(* media pump only the stats loop and the pick-up of what it asks for run  *)
(* here: encoding has no fairness, and its safety is checked in MCKeepers. *)
(***************************************************************************)
EXTENDS LibeiSink, CaptureDevice, AudioPath, CameraEgress, MediaPump, ScreenCapture,
        ViewerPage

VARIABLE part
Parts == {"libei", "capture", "audio", "camera", "stats", "screen", "page"}

vars == <<part, libeiVars, captureVars, audioVars, cameraVars, pumpVars, screenVars, pageVars>>

Init ==
  /\ part \in Parts
  /\ LibeiInit /\ CaptureInit /\ AudioInit /\ CameraInit /\ PumpInit /\ ScreenInit
  /\ PageInit
  /\ part # "capture" => backend = "mic"
  /\ part # "audio" => microphone.fmt = CHOOSE f \in OpusFormats : TRUE
  /\ encoder.kind = "h264" /\ published = CHOOSE s \in Sizes : TRUE
  /\ part # "screen" => kind = "scap" /\ wanted = 0
  /\ part # "page" => window = "main" /\ engine = "decodes"

Libei == part = "libei" /\ LibeiNext
         /\ UNCHANGED <<part, captureVars, audioVars, cameraVars, pumpVars, screenVars, pageVars>>
Capture == part = "capture" /\ CaptureNext
           /\ UNCHANGED <<part, libeiVars, audioVars, cameraVars, pumpVars, screenVars, pageVars>>
Audio == part = "audio" /\ AudioNext
         /\ UNCHANGED <<part, libeiVars, captureVars, cameraVars, pumpVars, screenVars, pageVars>>
Camera == part = "camera" /\ CameraNext
          /\ UNCHANGED <<part, libeiVars, captureVars, audioVars, pumpVars, screenVars, pageVars>>
Stats == part = "stats" /\ (Steer \/ \E b \in Bandwidths, l \in Losses, r \in BOOLEAN : StatsTick(b, l, r))
         /\ UNCHANGED <<part, libeiVars, captureVars, audioVars, cameraVars, screenVars, pageVars>>
Screen == part = "screen" /\ ScreenNext
          /\ UNCHANGED <<part, libeiVars, captureVars, audioVars, cameraVars, pumpVars, pageVars>>
Page == part = "page" /\ PageNext
        /\ UNCHANGED <<part, libeiVars, captureVars, audioVars, cameraVars, pumpVars, screenVars>>

Next == Libei \/ Capture \/ Audio \/ Camera \/ Stats \/ Screen \/ Page

Fairness ==
  /\ WF_libeiVars(part = "libei" /\ cancel /\ HandshakeStops)
  /\ WF_libeiVars(part = "libei" /\ ThreadEnds)
  /\ WF_libeiVars(part = "libei" /\ LoopEnds("cancel"))
  /\ WF_captureVars(part = "capture" /\ Finishing)
  /\ \A t \in Starts : /\ WF_captureVars(part = "capture" /\ Scheduled(t))
                       /\ WF_captureVars(part = "capture" /\ Stopping(t))
  /\ WF_audioVars(part = "audio" /\ PumpSteps)
  /\ WF_audioVars(part = "audio" /\ Joins)
  /\ WF_cameraVars(part = "camera" /\ MediaSupervisor)
  /\ \A p \in Pumps : WF_cameraVars(part = "camera" /\ Pump(p))
  /\ WF_pumpVars(part = "stats" /\ \E b \in Bandwidths, l \in Losses, r \in BOOLEAN : StatsTick(b, l, r))
  /\ WF_screenVars(part = "screen" /\ (Starting \/ Turn))
  /\ WF_pageVars(part = "page" /\ ConfigChecked) /\ WF_pageVars(part = "page" /\ Kick)
  /\ WF_pageVars(part = "page" /\ DecoderAnswers)
  /\ \A n \in Attempts : /\ WF_pageVars(part = "page" /\ Connects(n))
                         /\ WF_pageVars(part = "page" /\ KeyFrame(n))
                         /\ WF_pageVars(part = "page" /\ onMessage(n))
                         /\ WF_pageVars(part = "page" /\ SessionOver(n))

Spec == Init /\ [][Next]_vars /\ Fairness
-----------------------------------------------------------------------------
(* No device is left on by what has been told to stop: a capture device    *)
(* after stop() returned, and never two of them, but for a macOS stream    *)
(* that did not end or answer in time; the microphone after the audio pump *)
(* was joined; a screen session that no share owns.                        *)
NothingLeftOn == StopReleases /\ OneDeviceOpen /\ SoundIsOff /\ RunsOrTold

(* What a reader gets is of now: samples of this start only, but for those *)
(* of such a stream, and the newest picture of ScreenCaptureKit.           *)
ReadsAreCurrent == OnlyThisStart /\ NewestKept

(* What is told to end ends: the portal session's thread, start() and      *)
(* stop() of a device, the audio pump, the camera pumps, the media pump;   *)
(* and a viewer is told that the session ended.                            *)
ToldToEndEnds == /\ DropEndsThread /\ CallsReturn /\ StopEndsSound /\ OffMeansOff /\ StopEnds /\ EndIsShown
                 /\ HandshakeLeavesNothing /\ QuietAfterJoin

(* What went wrong is made good: a dead ScreenCaptureKit stream is replaced *)
(* or ends the pump, a path that is wide again gets its bitrate back, a    *)
(* viewer sees the stream whatever the stream loses.                       *)
Recovers == LossAnswered /\ RateRecovers /\ PictureComes
=============================================================================
