---------------------------- MODULE CaptureDevice ----------------------------
(***************************************************************************)
(* The sound and camera devices behind AudioCaptureBackend and              *)
(* CameraCaptureBackend.  Four of the five back ends have the device on a  *)
(* thread (or a dispatch queue) of its own that start() opens and waits    *)
(* for, that fills a bounded slot, and that stop() has to see the end of;  *)
(* PulseAudio is read in the caller's thread.  The caller may start, read  *)
(* and stop in any order.                                                  *)
(*                                                                         *)
(* A sample is known by the start it was captured under; a slot holds the  *)
(* samples of one start each, oldest first.                                *)
(***************************************************************************)
EXTENDS Naturals, Sequences, SequencesExt

CONSTANTS Backends,     \* subset of {"wasapi", "mac", "pulse", "mic", "camera"}
          MaxStarts,    \* device threads started
          SlotCap,      \* MAX_BUFFERED_SAMPLES, MAX_BUFFERED_FRAMES * frame_len
          FrameLen      \* samples in a microphone frame

ASSUME CaptureAssumption ==
  /\ Backends \subseteq {"wasapi", "mac", "pulse", "mic", "camera"}
  /\ MaxStarts \in Nat \ {0} /\ FrameLen \in Nat \ {0}
  /\ SlotCap \in Nat /\ SlotCap >= FrameLen

VARIABLES
  backend,
  call,      \* what the caller is inside: "none", "stop", "start", "spawn", "wait", "undo"
  starts,    \* device threads so far
  device,    \* the threads, by number
  halt,      \* stop flags; for macOS whether stopCapture was called on the stream
  report,    \* what a thread sent to the start() that waits for it
  handle,    \* the thread the caller holds, 0 for none
  slotOf,    \* the slot next_chunk reads
  slot,      \* buffered samples, by cell
  failed     \* the slot's failed mark, by cell

captureVars == <<backend, call, starts, device, halt, report, handle, slotOf, slot, failed>>

Starts == 1 .. MaxStarts
Calls == {"none", "stop", "start", "spawn", "wait", "undo"}

(* A fresh flag and a fresh slot at every start, or the same ones for good; *)
(* macOS has one slot, and stops each stream by itself.                     *)
Cell(t) == IF backend \in {"mic", "camera"} THEN t ELSE 1
FlagOf(t) == IF backend \in {"mic", "camera", "mac"} THEN t ELSE 1
Owns(t) == device[t] \in {"opening", "live", "deaf"}

CaptureInit ==
  /\ backend \in Backends /\ call = "none" /\ starts = 0 /\ handle = 0 /\ slotOf = 1
  /\ device = [t \in Starts |-> "unborn"]
  /\ halt = [t \in Starts |-> FALSE] /\ failed = [t \in Starts |-> FALSE]
  /\ report = [t \in Starts |-> "none"] /\ slot = [t \in Starts |-> <<>>]
-----------------------------------------------------------------------------
(* The caller.  start() begins with a stop().                               *)

Quiesce ==
  /\ halt' = IF handle # 0 \/ backend = "wasapi" THEN [halt EXCEPT ![FlagOf(handle)] = TRUE] ELSE halt
  /\ UNCHANGED <<backend, starts, device, report, handle, slotOf, slot, failed>>

Start == call = "none" /\ starts < MaxStarts /\ call' = "start" /\ Quiesce
Stop == call = "none" /\ call' = "stop" /\ Quiesce

(* The join; what was buffered goes with the stream, the microphone's and   *)
(* the camera's slots stay.  macOS gives a stream that does not end up       *)
(* after five seconds.                                                      *)
Released_Detached == TRUE
Released_GivesUp == \/ \A t \in Starts : t = handle => ~Owns(t)
                    \/ backend \in {"mac", "wasapi"}
Released == \/ \A t \in Starts : t = handle => ~Owns(t)
            \/ backend = "mac"
Dropped(s) == IF backend \in {"mic", "camera"} THEN s ELSE [s EXCEPT ![1] = <<>>]

Join ==
  /\ call \in {"stop", "start", "undo"} /\ Released
  /\ call' = IF call = "start" THEN "spawn" ELSE "none"
  /\ handle' = 0 /\ slot' = Dropped(slot)
  /\ UNCHANGED <<backend, starts, device, halt, report, slotOf, failed>>

(* The new thread, with its flag down and its slot empty.                   *)
Spawn ==
  /\ call = "spawn" /\ backend # "pulse"
  /\ LET t == starts + 1 IN
     /\ starts' = t
     /\ device' = [device EXCEPT ![t] = "opening"]
     /\ halt' = [halt EXCEPT ![FlagOf(t)] = FALSE]
     /\ failed' = [failed EXCEPT ![Cell(t)] = FALSE]
     /\ slot' = [slot EXCEPT ![Cell(t)] = <<>>]
     /\ slotOf' = IF backend = "camera" THEN Cell(t) ELSE slotOf
     /\ handle' = IF backend = "wasapi" THEN t ELSE 0
  /\ call' = "wait"
  /\ UNCHANGED <<backend, report>>

(* The operating system refuses the thread.                                 *)
SpawnFails ==
  /\ call = "spawn" /\ call' = "none"
  /\ slot' = IF backend = "camera" THEN [slot EXCEPT ![slotOf] = <<>>] ELSE slot
  /\ UNCHANGED <<backend, starts, device, halt, report, handle, slotOf, failed>>

(* Simple::new: the stream is open when it returns.                         *)
PulseOpens ==
  /\ call = "spawn" /\ backend = "pulse" /\ call' = "none"
  /\ starts' = starts + 1 /\ handle' = starts'
  /\ device' = [device EXCEPT ![starts'] = "live"] /\ halt' = [halt EXCEPT ![1] = FALSE]
  /\ UNCHANGED <<backend, report, slotOf, slot, failed>>

StartSucceeds ==
  /\ call = "wait" /\ report[starts] = "ok" /\ call' = "none"
  /\ handle' = starts /\ slotOf' = Cell(starts)
  /\ UNCHANGED <<backend, starts, device, halt, report, slot, failed>>

(* An error is reported by a thread that ends; WASAPI also gives up         *)
(* waiting.  Either way the thread is stopped and joined.                   *)
StartFails ==
  /\ call = "wait" /\ backend # "mac"
  /\ report[starts] = "error" \/ (backend = "wasapi" /\ report[starts] = "none")
  /\ handle' = starts /\ call' = "undo"
  /\ halt' = [halt EXCEPT ![FlagOf(starts)] = TRUE]
  /\ UNCHANGED <<backend, starts, device, report, slotOf, slot, failed>>

(* macOS returns at once: a stream that has not answered in ten seconds is  *)
(* let go of without stopCapture, and nobody hears its answer.              *)
MacStartFails ==
  /\ call = "wait" /\ backend = "mac" /\ report[starts] \in {"error", "none"}
  /\ call' = "none"
  /\ report' = IF report[starts] = "none" THEN [report EXCEPT ![starts] = "unheard"] ELSE report
  /\ UNCHANGED <<backend, starts, device, halt, handle, slotOf, slot, failed>>

-----------------------------------------------------------------------------
(* The device's thread.                                                     *)
Reported(t, answer) == IF report[t] = "none" THEN [report EXCEPT ![t] = answer] ELSE report

Opens(t) ==
  /\ device[t] = "opening" /\ device' = [device EXCEPT ![t] = "live"]
  /\ report' = Reported(t, "ok")
  /\ UNCHANGED <<backend, call, starts, halt, handle, slotOf, slot, failed>>

OpenFails(t) ==
  /\ device[t] = "opening" /\ device' = [device EXCEPT ![t] = "gone"]
  /\ report' = Reported(t, "error")
  /\ UNCHANGED <<backend, call, starts, halt, handle, slotOf, slot, failed>>

(* The oldest audio goes first: sample by sample, in whole frames for the   *)
(* microphone; the camera keeps one frame.                                  *)
Frames(n) == (n + FrameLen - 1) \div FrameLen
Bounded(s) ==
  LET over == IF Len(s) > SlotCap THEN Len(s) - SlotCap ELSE 0
      cut == IF backend = "mic" THEN Frames(over) * FrameLen ELSE over
  IN SubSeq(s, cut + 1, Len(s))

Puts(t, content) ==
  /\ device[t] = "live"
  /\ slot' = [slot EXCEPT ![Cell(t)] = content]
  /\ UNCHANGED <<backend, call, starts, device, halt, report, handle, slotOf, failed>>
Chunk(t, n) == slot[Cell(t)] \o [i \in 1 .. n |-> t]

WasapiDelivers(t, n) == backend = "wasapi" /\ Puts(t, Bounded(Chunk(t, n)))
MacDelivers(t, n) == backend = "mac" /\ Puts(t, Bounded(Chunk(t, n)))
MicDelivers(t, n) == backend = "mic" /\ Puts(t, Bounded(Chunk(t, n)))
CameraDelivers(t) == backend = "camera" /\ Puts(t, <<t>>)

(* The device goes away: said so by WASAPI and ScreenCaptureKit; the        *)
(* microphone's error callback only logs, the camera's loop tries again.    *)
DeviceLost(t) ==
  /\ device[t] = "live" /\ backend # "pulse"
  /\ device' = [device EXCEPT ![t] = IF backend \in {"wasapi", "mac"} THEN "gone" ELSE "deaf"]
  /\ failed' = IF backend \in {"wasapi", "mac"} THEN [failed EXCEPT ![Cell(t)] = TRUE] ELSE failed
  /\ UNCHANGED <<backend, call, starts, halt, report, handle, slotOf, slot>>

(* The loop's look at its flag; for PulseAudio the drop of the stream, for  *)
(* macOS stopCapture's completion, or that of a stream nobody refers to.    *)
SeesStop(t) == /\ device[t] \in {"live", "deaf"}
               /\ halt[FlagOf(t)] \/ report[t] = "unheard"

Halts(t) ==
  /\ SeesStop(t)
  /\ device' = [device EXCEPT ![t] = "gone"]
  /\ UNCHANGED <<backend, call, starts, halt, report, handle, slotOf, slot, failed>>

-----------------------------------------------------------------------------
(* next_chunk and next_frame: all there is, one frame, the one picture.  A  *)
(* read that finds nothing or the failed mark changes nothing, nor does     *)
(* PulseAudio's, which has no slot.                                         *)
Here == slot[slotOf]

Reads(least, rest) ==
  /\ call = "none" /\ ~failed[slotOf]
  /\ Len(Here) >= least
  /\ slot' = [slot EXCEPT ![slotOf] = rest]
  /\ UNCHANGED <<backend, call, starts, device, halt, report, handle, slotOf, failed>>

WasapiTakes == backend = "wasapi" /\ Reads(1, <<>>)
MacTakes == backend = "mac" /\ Reads(1, <<>>)
MicTakes == backend = "mic" /\ Reads(FrameLen, SubSeq(Here, FrameLen + 1, Len(Here)))
CameraTakes == backend = "camera" /\ Reads(1, <<>>)

Thread(t) ==
  \/ Opens(t) \/ OpenFails(t) \/ DeviceLost(t) \/ Halts(t)
  \/ \E n \in 1 .. FrameLen : WasapiDelivers(t, n) \/ MacDelivers(t, n) \/ MicDelivers(t, n)
  \/ CameraDelivers(t)
Caller == Start \/ Stop \/ WasapiTakes \/ MacTakes \/ MicTakes \/ CameraTakes
Finishing == Join \/ Spawn \/ SpawnFails \/ PulseOpens \/ StartSucceeds \/ StartFails \/ MacStartFails

CaptureNext == Caller \/ Finishing \/ \E t \in Starts : Thread(t)

(* The threads are scheduled, and opening a device ends, well or badly:     *)
(* the microphone's start() has no time limit of its own.  Nothing is       *)
(* asked of macOS, whose calls all have one.                                *)
Scheduled(t) == backend # "mac" /\ (Opens(t) \/ OpenFails(t))
Stopping(t) == backend # "mac" /\ Halts(t)
CaptureFairness ==
  /\ WF_captureVars(Finishing)
  /\ \A t \in Starts : WF_captureVars(Scheduled(t)) /\ WF_captureVars(Stopping(t))

CaptureSpec == CaptureInit /\ [][CaptureNext]_captureVars /\ CaptureFairness

-----------------------------------------------------------------------------
CaptureTypeOK ==
  /\ backend \in Backends /\ call \in Calls /\ starts \in 0 .. MaxStarts /\ handle \in 0 .. starts
  /\ device \in [Starts -> {"unborn", "opening", "live", "deaf", "gone"}]
  /\ halt \in [Starts -> BOOLEAN] /\ failed \in [Starts -> BOOLEAN]
  /\ report \in [Starts -> {"none", "ok", "error", "unheard"}] /\ slotOf \in Starts
  /\ \A t \in Starts : slot[t] \in Seq(Starts) /\ Len(slot[t]) <= SlotCap

(* A macOS stream whose stop is being waited for or was given up, or whose  *)
(* start was.  No other back end leaves anything behind.                    *)
LeftBehind(t) == backend = "mac" /\ (halt[t] \/ report[t] = "unheard")

(* A device is opened after the one before it was let go: restarts, failed  *)
(* starts and timeouts never leave two threads on one microphone, but for   *)
(* a macOS stream that did not end or answer in time.                       *)
OneDeviceOpen ==
  \A t, u \in Starts : Owns(t) /\ Owns(u) /\ ~LeftBehind(t) /\ ~LeftBehind(u) => t = u

(* What is buffered for a reader that has a started device was captured     *)
(* under that start: nothing of before the restart is played after it, but  *)
(* what such a stream still puts into the slot of its successor.            *)
OnlyThisStart ==
  handle # 0 /\ call = "none" => \A i \in DOMAIN Here : Here[i] = handle \/ LeftBehind(Here[i])

(* The device is let go when stop has returned: no light stays on, but that *)
(* of such a stream.                                                        *)
StopReleases == handle = 0 /\ call = "none" => \A t \in Starts : Owns(t) => LeftBehind(t)

(* stop() of AudioCaptureBackend: "Stop capture and release resources."     *)
StopMeansOff == handle = 0 /\ call = "none" => \A t \in Starts : ~Owns(t)

(* start and stop come back.                                                *)
CallsReturn == call # "none" ~> call = "none"
=============================================================================
