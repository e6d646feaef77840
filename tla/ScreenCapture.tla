---------------------------- MODULE ScreenCapture ----------------------------
(***************************************************************************)
(* Where the shared picture comes from: the capture back ends and the part *)
(* of host start and media_pump that drives them.  scap (Linux, Windows)   *)
(* fills a picture of its own from a thread that only looks at its stop flag  *)
(* after a picture; ScreenCaptureKit (macOS) fills the picture of the back    *)
(* end from a dispatch queue and marks it failed when the stream dies.     *)
(* One back end serves one share: shares follow each other, and what an    *)
(* earlier one left behind is still there.                                 *)
(*                                                                         *)
(* A picture is the number of its capture; displays can be unplugged.      *)
(***************************************************************************)
EXTENDS Naturals, FiniteSets

CONSTANTS ScreenBackends,  \* subset of {"scap", "sck"}
          Displays,        \* real display ids, 1 .. n in the order they are listed
          MaxPictures,     \* pictures captured
          MaxShares,       \* shares started
          MaxLosses        \* streams that die

ASSUME ScreenAssumption ==
  /\ ScreenBackends \subseteq {"scap", "sck"} /\ Displays \subseteq Nat \ {0}
  /\ MaxPictures \in Nat /\ MaxShares \in Nat \ {0} /\ MaxLosses \in Nat

VARIABLES
  kind,       \* the back end
  share,      \* the share that runs, by number
  at,         \* "idle", "open", "wait", "putback", "turn", "rebuild", "stop", "over"
  giveUp,     \* MediaSignals.stop
  wanted,     \* CaptureOptions.monitor
  attached,   \* displays there are
  capture,    \* capture sessions, by number
  opened,     \* sessions so far
  halted,     \* sessions whose stop flag is up
  picture,       \* the picture in a cell's picture, 0 for none
  dead,       \* cells marked failed
  pictures,   \* pictures captured so far
  newest,     \* history: the last picture of each session
  first,      \* the picture start() holds
  shown,      \* the last picture given to the encoder
  grabbed,    \* captured_monitor, 0 for None
  told,       \* the display whose bounds the input back end was given
  losses

screenVars == <<kind, share, at, giveUp, wanted, attached, capture, opened, halted, picture, dead,
                pictures, newest, first, shown, grabbed, told, losses>>

MaxSessions == MaxShares + MaxLosses
Sessions == 1 .. MaxSessions
PictureCell(t) == IF kind = "scap" THEN t ELSE share
HereCell == PictureCell(opened)

ScreenInit ==
  /\ kind \in ScreenBackends /\ share = 1 /\ at = "idle" /\ giveUp = FALSE
  /\ wanted \in Displays \cup {0} /\ attached = Displays
  /\ capture = [t \in Sessions |-> "unborn"] /\ opened = 0 /\ halted = {}
  /\ picture = [c \in Sessions |-> 0] /\ dead = {} /\ pictures = 0
  /\ newest = [t \in Sessions |-> 0] /\ first = 0 /\ shown = 0
  /\ grabbed = 0 /\ told = 0 /\ losses = 0
-----------------------------------------------------------------------------
(* start().  The display that was asked for, the first one if it is not     *)
(* there; the portal of scap chooses by itself.                             *)
Target == IF kind = "scap" THEN attached
          ELSE IF wanted \in attached THEN {wanted} ELSE {d \in attached : \A e \in attached : d <= e}

Open ==
  /\ at \in {"idle", "rebuild"} /\ opened < MaxSessions
  /\ grabbed' \in Target
  /\ opened' = opened + 1 /\ capture' = [capture EXCEPT ![opened'] = "opening"]
  /\ picture' = [picture EXCEPT ![PictureCell(opened')] = 0] /\ dead' = dead \ {PictureCell(opened')}
  /\ at' = IF at = "idle" THEN "open" ELSE "wait"
  /\ UNCHANGED <<kind, share, giveUp, wanted, attached, halted, pictures, newest, first, shown, told, losses>>

(* No display, no permission, no shareable content: nothing was opened.     *)
CannotOpen ==
  /\ at \in {"idle", "rebuild"} /\ at' = IF at = "idle" THEN "over" ELSE "stop"
  /\ UNCHANGED <<kind, share, giveUp, wanted, attached, capture, opened, halted, picture, dead,
                 pictures, newest, first, shown, grabbed, told, losses>>

(* scap waits for a picture and takes it, ScreenCaptureKit for its answer.  *)
(* Host start goes on to tell the input back end what is captured.          *)
Began == capture[opened] = "live" /\ (kind = "scap" => picture[HereCell] # 0)

StartTakes ==
  /\ at = "open" /\ kind = "scap" /\ Began
  /\ first' = picture[HereCell] /\ picture' = [picture EXCEPT ![HereCell] = 0] /\ at' = "putback"
  /\ UNCHANGED <<kind, share, giveUp, wanted, attached, capture, opened, halted, dead, pictures,
                 newest, shown, grabbed, told, losses>>

PutsBack ==
  /\ at = "putback" /\ picture' = [picture EXCEPT ![HereCell] = first] /\ first' = 0
  /\ told' = grabbed /\ at' = "turn"
  /\ UNCHANGED <<kind, share, giveUp, wanted, attached, capture, opened, halted, dead, pictures,
                 newest, shown, grabbed, losses>>

Started ==
  /\ at \in {"open", "wait"} /\ kind = "sck" /\ Began
  /\ told' = IF at = "open" THEN grabbed ELSE told
  /\ at' = "turn"
  /\ UNCHANGED <<kind, share, giveUp, wanted, attached, capture, opened, halted, picture, dead,
                 pictures, newest, first, shown, grabbed, losses>>

(* It fails or does not come in time.  scap calls its stop(); the stream of *)
(* ScreenCaptureKit is dropped.                                             *)
StartGivesUp == IF kind = "scap" THEN halted \cup {opened} ELSE halted

ScreenStartFails ==
  /\ at \in {"open", "wait"}
  /\ halted' = StartGivesUp
  /\ capture' = IF kind = "sck" \/ capture[opened] = "gone"
                THEN [capture EXCEPT ![opened] = "gone"] ELSE capture
  /\ at' = IF at = "open" THEN "over" ELSE "stop"
  /\ UNCHANGED <<kind, share, giveUp, wanted, attached, opened, picture, dead, pictures, newest,
                 first, shown, grabbed, told, losses>>
-----------------------------------------------------------------------------
(* media_pump: next_frame with a picture, with the failed mark, with        *)
(* neither; a stop ends the loop.                                           *)
NextFrame ==
  /\ at = "turn" /\ ~giveUp /\ HereCell \notin dead /\ picture[HereCell] # 0
  /\ shown' = picture[HereCell] /\ picture' = [picture EXCEPT ![HereCell] = 0]
  /\ UNCHANGED <<kind, share, at, giveUp, wanted, attached, capture, opened, halted, dead,
                 pictures, newest, first, grabbed, told, losses>>

(* The rebuild's stop() clears what belonged to the stream.                 *)
SeesFailure_Never == FALSE
SeesFailure == HereCell \in dead

Rebuilds ==
  /\ at = "turn" /\ ~giveUp /\ SeesFailure
  /\ at' = "rebuild" /\ picture' = [picture EXCEPT ![HereCell] = 0] /\ grabbed' = 0
  /\ UNCHANGED <<kind, share, giveUp, wanted, attached, capture, opened, halted, dead, pictures,
                 newest, first, shown, told, losses>>

StopSeen == giveUp

PumpSeesStop ==
  /\ at = "turn" /\ StopSeen /\ at' = "stop"
  /\ UNCHANGED <<kind, share, giveUp, wanted, attached, capture, opened, halted, picture, dead,
                 pictures, newest, first, shown, grabbed, told, losses>>

(* capture.stop(): scap raises the flag and waits a second and a half for   *)
(* the thread, ScreenCaptureKit for the stream's answer.                    *)
Stops ==
  /\ at = "stop" /\ at' = "over" /\ opened > 0
  /\ halted' = halted \cup {opened}
  /\ capture' = IF kind = "sck" THEN [capture EXCEPT ![opened] = "gone"] ELSE capture
  /\ picture' = IF kind = "sck" THEN [picture EXCEPT ![HereCell] = 0] ELSE picture
  /\ grabbed' = 0
  /\ UNCHANGED <<kind, share, giveUp, wanted, attached, opened, dead, pictures, newest, first,
                 shown, told, losses>>

(* The session is stopped; another share makes back ends of its own.        *)
GiveUp ==
  /\ ~giveUp /\ at \notin {"idle", "over"} /\ giveUp' = TRUE
  /\ UNCHANGED <<kind, share, at, wanted, attached, capture, opened, halted, picture, dead,
                 pictures, newest, first, shown, grabbed, told, losses>>

ShareAgain ==
  /\ at = "over" /\ share < MaxShares /\ share' = share + 1 /\ at' = "idle" /\ giveUp' = FALSE
  /\ grabbed' = 0 /\ told' = 0 /\ shown' = 0
  /\ UNCHANGED <<kind, wanted, attached, capture, opened, halted, picture, dead, pictures, newest,
                 first, losses>>
-----------------------------------------------------------------------------
(* The capture sessions.  scap looks at its flag between two pictures.      *)
ScreenOpens(t, ok) ==
  /\ capture[t] = "opening" /\ capture' = [capture EXCEPT ![t] = IF ok THEN "live" ELSE "gone"]
  /\ UNCHANGED <<kind, share, at, giveUp, wanted, attached, opened, halted, picture, dead,
                 pictures, newest, first, shown, grabbed, told, losses>>

Kept(old, new) == new

Captures(t) ==
  /\ capture[t] = "live" /\ pictures < MaxPictures
  /\ pictures' = pictures + 1 /\ newest' = [newest EXCEPT ![t] = pictures']
  /\ picture' = [picture EXCEPT ![PictureCell(t)] = Kept(@, pictures')]
  /\ capture' = IF kind = "scap" /\ t \in halted THEN [capture EXCEPT ![t] = "gone"] ELSE capture
  /\ UNCHANGED <<kind, share, at, giveUp, wanted, attached, opened, halted, dead, first, shown,
                 grabbed, told, losses>>

(* The display goes, the driver fails: ScreenCaptureKit says so, the loop   *)
(* of scap ends.                                                            *)
Dies(t) ==
  /\ capture[t] = "live" /\ losses < MaxLosses /\ losses' = losses + 1
  /\ capture' = [capture EXCEPT ![t] = "gone"]
  /\ dead' = IF kind = "sck" THEN dead \cup {PictureCell(t)} ELSE dead
  /\ attached' \in {attached} \cup {attached \ {d} : d \in {grabbed}} /\ attached' # {}
  /\ UNCHANGED <<kind, share, at, giveUp, wanted, opened, halted, picture, pictures, newest, first,
                 shown, grabbed, told>>

Starting == Open \/ CannotOpen \/ StartTakes \/ PutsBack \/ Started \/ ScreenStartFails
Turn == NextFrame \/ Rebuilds \/ PumpSeesStop \/ Stops
Session(t) == Captures(t) \/ Dies(t) \/ \E ok \in BOOLEAN : ScreenOpens(t, ok)

ScreenNext == Starting \/ Turn \/ GiveUp \/ ShareAgain \/ \E t \in Sessions : Session(t)

(* The caller's thread runs: each of its waits has a time limit.            *)
ScreenFairness == WF_screenVars(Starting \/ Turn)
ScreenSpec == ScreenInit /\ [][ScreenNext]_screenVars /\ ScreenFairness
-----------------------------------------------------------------------------
ScreenTypeOK ==
  /\ kind \in ScreenBackends /\ share \in 1 .. MaxShares /\ giveUp \in BOOLEAN
  /\ at \in {"idle", "open", "wait", "putback", "turn", "rebuild", "stop", "over"}
  /\ wanted \in Displays \cup {0} /\ attached \subseteq Displays
  /\ capture \in [Sessions -> {"unborn", "opening", "live", "gone"}]
  /\ opened \in 0 .. MaxSessions /\ halted \subseteq 1 .. opened /\ dead \subseteq Sessions
  /\ pictures \in 0 .. MaxPictures /\ losses \in 0 .. MaxLosses
  /\ picture \in [Sessions -> 0 .. pictures] /\ newest \in [Sessions -> 0 .. pictures]
  /\ first \in 0 .. pictures /\ shown \in 0 .. pictures
  /\ grabbed \in Displays \cup {0} /\ told \in Displays \cup {0}
  /\ at \in {"open", "putback", "wait", "turn"} => grabbed # 0

(* A session that runs is the one of the share that runs, or has been told  *)
(* to stop: no failed start, rebuild or stopped share leaves a capture that *)
(* nothing can end.                                                         *)
RunsOrTold ==
  \A t \in Sessions : capture[t] \in {"opening", "live"} =>
    t \in halted \/ (t = opened /\ at \notin {"idle", "over"})

(* The newest picture is on its way or was shown: with ScreenCaptureKit a   *)
(* screen that stops changing is never left showing an older state.         *)
Newest == at = "turn" /\ HereCell \notin dead => newest[opened] \in {0, picture[HereCell], shown}
NewestKept == kind = "sck" => Newest

(* A dead stream is replaced, or the pump ends: ScreenCaptureKit's failure  *)
(* does not pass for a screen on which nothing moves.                       *)
Unnoticed == at = "turn" /\ capture[opened] = "gone"
LossAnswered == (kind = "sck" /\ Unnoticed) ~> ~Unnoticed

(* A stop ends the pump, whatever the device does.                          *)
StopEnds == giveUp ~> at = "over"

(* What a reader might expect and the code does not give: scap's put-back   *)
(* covers a newer picture (Newest), scap's loop ends without a word, and    *)
(* the pump's rebuild may land on another display than the one the input    *)
(* back end was told of.                                                    *)
LossAlwaysAnswered == Unnoticed ~> ~Unnoticed
ToldIsCaptured == at = "turn" /\ kind = "sck" /\ grabbed # 0 => told = grabbed
=============================================================================
