---------------------------- MODULE DevicesProofs ----------------------------
(***************************************************************************)
(* Proofs that nothing is left on and that what is read is of now, for the *)
(* devices of a share: the screen (ScreenCapture), the sound and camera    *)
(* devices (CaptureDevice) and the microphone behind the audio pump        *)
(* (AudioPath), and that what the compositor has down is known to the sink *)
(* (LibeiSink). Each has an inductive invariant of its own; MCDevices runs *)
(* one of them while the others stay as they are.                          *)
(***************************************************************************)
EXTENDS MCDevices, SequenceTheorems, FiniteSetTheorems, TLAPS

-------------------------------------------------------------------------------
(* The screen.  Of all the sessions only the newest can be one that nobody *)
(* told to stop, and only while a share has it; a failed mark in the cell  *)
(* of the share is the newest session's.                                   *)
ScreenTypes ==
  /\ kind \in {"scap", "sck"} /\ share \in 1 .. MaxShares /\ opened \in 0 .. MaxSessions
  /\ at \in {"idle", "open", "wait", "putback", "turn", "rebuild", "stop", "over"}
  /\ capture \in [Sessions -> {"unborn", "opening", "live", "gone"}]
  /\ halted \subseteq Sessions /\ dead \subseteq Sessions
  /\ picture \in [Sessions -> Nat] /\ newest \in [Sessions -> Nat] /\ shown \in Nat
  /\ pictures \in Nat /\ first \in Nat /\ (at = "putback" => kind = "scap")

Quiet(t) == capture[t] = "gone" \/ (kind = "scap" /\ t \in halted)

NewestOnly ==
  /\ \A t \in Sessions : t > opened => capture[t] = "unborn" /\ newest[t] = 0
  /\ \A t \in Sessions : t < opened => Quiet(t)
  /\ at \in {"idle", "over", "rebuild"} /\ opened # 0 => Quiet(opened)
  /\ at \notin {"idle", "over"} => opened # 0

Marked ==
  /\ kind = "scap" => dead = {}
  /\ \A c \in dead : c <= share
  /\ share \in dead => at # "idle" /\ opened # 0 /\ capture[opened] = "gone"

(* A picture in the cell is the newest; without one the newest was shown.  *)
Delivered ==
  kind = "sck" /\ at \in {"open", "wait", "turn"} =>
    IF picture[share] = 0 THEN newest[opened] \in {0, shown} ELSE newest[opened] = picture[share]

ScreenInv == ScreenTypes /\ NewestOnly /\ Marked /\ Delivered

(* No share has been started, and none of the others either.               *)
LEMMA ScreenInitial == ScreenInit => ScreenInv
<1> SUFFICES ASSUME ScreenInit PROVE ScreenInv
  OBVIOUS
<1>1. 1 \in 1 .. MaxShares /\ 0 \in 0 .. MaxSessions
  BY ScreenAssumption DEF MaxSessions
<1>2. ScreenTypes
  BY <1>1, ScreenAssumption DEF ScreenInit, ScreenTypes
<1>3. NewestOnly /\ Marked /\ Delivered
  BY <1>1, ScreenAssumption DEF ScreenInit, NewestOnly, Marked, Delivered, Sessions, MaxSessions
<1> QED BY <1>2, <1>3 DEF ScreenInv

(* Every step of the pump and of a capture thread keeps the invariant.      *)
LEMMA ScreenStep == ASSUME ScreenInv, [ScreenNext]_screenVars PROVE ScreenInv'
<1> USE DEF ScreenInv
<1>0. /\ MaxSessions \in Nat /\ MaxShares \in 1 .. MaxSessions /\ share \in Sessions
      /\ opened \in Nat /\ opened <= MaxSessions
  BY ScreenAssumption DEF ScreenTypes, Sessions, MaxSessions
<1>1. CASE Open
  <2>1. /\ opened' = opened + 1 /\ opened' \in Sessions /\ opened' \in 0 .. MaxSessions
        /\ capture[opened'] = "unborn" /\ newest[opened'] = 0
    BY <1>0, <1>1 DEF Open, Sessions, NewestOnly
  <2>2. /\ capture' = [capture EXCEPT ![opened'] = "opening"]
        /\ picture' = [picture EXCEPT ![PictureCell(opened')] = 0]
        /\ dead' = dead \ {PictureCell(opened')}
        /\ at \in {"idle", "rebuild"} /\ at' \in {"open", "wait"}
        /\ UNCHANGED <<kind, share, halted, pictures, newest, first, shown>>
    BY <1>1 DEF Open
  <2>3. PictureCell(opened') \in Sessions /\ (kind = "sck" => PictureCell(opened') = share)
    BY <1>0, <2>1 DEF PictureCell, ScreenTypes
  <2>4. ScreenTypes'
    BY <2>1, <2>2, <2>3 DEF ScreenTypes
  <2>5. NewestOnly'
    <3>1. \A t \in Sessions : t < opened' => capture[t] = "gone" \/ (kind = "scap" /\ t \in halted)
      BY <1>0, <2>1, <2>2 DEF NewestOnly, Quiet, Sessions
    <3> QED BY <1>0, <2>1, <2>2, <3>1 DEF NewestOnly, Quiet, Sessions, ScreenTypes
  <2>6. Marked'
    BY <2>2, <2>3 DEF Marked, ScreenTypes
  <2>7. Delivered'
    BY <1>0, <2>1, <2>2, <2>3 DEF Delivered, ScreenTypes
  <2> QED BY <2>4, <2>5, <2>6, <2>7
<1>2. CASE CannotOpen
  <2>1. /\ at \in {"idle", "rebuild"} /\ at' = IF at = "idle" THEN "over" ELSE "stop"
        /\ UNCHANGED <<kind, share, capture, opened, halted, picture, dead, pictures, newest, first,
                       shown>>
    BY <1>2 DEF CannotOpen
  <2> QED BY <2>1 DEF ScreenTypes, NewestOnly, Quiet, Marked, Delivered
<1>3. CASE StartTakes
  <2>1. /\ kind = "scap" /\ at = "open" /\ at' = "putback" /\ first' = picture[HereCell]
        /\ picture' = [picture EXCEPT ![HereCell] = 0] /\ HereCell \in Sessions
        /\ UNCHANGED <<kind, share, capture, opened, halted, dead, pictures, newest, shown>>
    BY <1>0, <1>3 DEF StartTakes, HereCell, PictureCell, NewestOnly, Sessions
  <2>2. ScreenTypes'
    BY <2>1 DEF ScreenTypes
  <2>3. NewestOnly' /\ Marked' /\ Delivered'
    BY <2>1 DEF NewestOnly, Quiet, Marked, Delivered
  <2> QED BY <2>2, <2>3
<1>4. CASE PutsBack
  <2>1. /\ kind = "scap" /\ at = "putback" /\ at' = "turn" /\ first' = 0
        /\ picture' = [picture EXCEPT ![HereCell] = first] /\ HereCell \in Sessions
        /\ UNCHANGED <<kind, share, capture, opened, halted, dead, pictures, newest, shown>>
    BY <1>0, <1>4 DEF PutsBack, HereCell, PictureCell, NewestOnly, Sessions, ScreenTypes
  <2> QED BY <2>1 DEF ScreenTypes, NewestOnly, Quiet, Marked, Delivered
<1>5. CASE Started
  <2>1. /\ at \in {"open", "wait"} /\ at' = "turn" /\ kind = "sck"
        /\ UNCHANGED <<kind, share, capture, opened, halted, picture, dead, pictures, newest, first,
                       shown>>
    BY <1>5 DEF Started
  <2> QED BY <2>1 DEF ScreenTypes, NewestOnly, Quiet, Marked, Delivered
<1>6. CASE ScreenStartFails
  <2>1. /\ at \in {"open", "wait"} /\ at' \in {"over", "stop"} /\ opened \in Sessions
        /\ halted' = StartGivesUp
        /\ capture' = IF kind = "sck" \/ capture[opened] = "gone"
                         THEN [capture EXCEPT ![opened] = "gone"] ELSE capture
        /\ UNCHANGED <<kind, share, opened, picture, dead, pictures, newest, first, shown>>
    BY <1>0, <1>6 DEF ScreenStartFails, NewestOnly, Sessions
  <2>2. ScreenTypes'
    BY <2>1 DEF ScreenTypes, StartGivesUp
  <2>3. NewestOnly'
    BY <1>0, <2>1 DEF ScreenTypes, NewestOnly, Quiet, StartGivesUp
  <2>4. Marked' /\ Delivered'
    BY <2>1 DEF ScreenTypes, Marked, Delivered
  <2> QED BY <2>2, <2>3, <2>4
<1>7. CASE NextFrame
  <2>1. /\ at = "turn" /\ shown' = picture[HereCell] /\ picture[HereCell] # 0
        /\ picture' = [picture EXCEPT ![HereCell] = 0]
        /\ HereCell \in Sessions /\ (kind = "sck" => HereCell = share)
        /\ UNCHANGED <<kind, share, at, capture, opened, halted, dead, pictures, newest, first>>
    BY <1>0, <1>7 DEF NextFrame, HereCell, PictureCell, NewestOnly, Sessions
  <2>2. ScreenTypes' /\ NewestOnly' /\ Marked'
    BY <2>1 DEF ScreenTypes, NewestOnly, Quiet, Marked
  <2>3. Delivered'
    BY <2>1 DEF ScreenTypes, Delivered
  <2> QED BY <2>2, <2>3
<1>8. CASE Rebuilds
  <2>1. /\ at = "turn" /\ at' = "rebuild" /\ HereCell \in dead
        /\ picture' = [picture EXCEPT ![HereCell] = 0]
        /\ HereCell \in Sessions /\ (kind = "sck" => HereCell = share)
        /\ UNCHANGED <<kind, share, capture, opened, halted, dead, pictures, newest, first, shown>>
    BY <1>0, <1>8 DEF Rebuilds, SeesFailure, HereCell, PictureCell, NewestOnly, Sessions
  <2>2. kind = "sck" /\ capture[opened] = "gone"
    BY <2>1 DEF Marked, ScreenTypes
  <2> QED BY <2>1, <2>2 DEF ScreenTypes, NewestOnly, Quiet, Marked, Delivered
<1>9. CASE PumpSeesStop
  <2>1. /\ at = "turn" /\ at' = "stop"
        /\ UNCHANGED <<kind, share, capture, opened, halted, picture, dead, pictures, newest, first,
                       shown>>
    BY <1>9 DEF PumpSeesStop
  <2> QED BY <2>1 DEF ScreenTypes, NewestOnly, Quiet, Marked, Delivered
<1>10. CASE Stops
  <2>1. /\ at = "stop" /\ at' = "over" /\ opened \in Sessions /\ HereCell \in Sessions
        /\ halted' = halted \cup {opened}
        /\ capture' = IF kind = "sck" THEN [capture EXCEPT ![opened] = "gone"] ELSE capture
        /\ picture' = IF kind = "sck" THEN [picture EXCEPT ![HereCell] = 0] ELSE picture
        /\ UNCHANGED <<kind, share, opened, dead, pictures, newest, first, shown>>
    BY <1>0, <1>10 DEF Stops, HereCell, PictureCell, Sessions
  <2>2. ScreenTypes'
    BY <2>1 DEF ScreenTypes
  <2>3. NewestOnly'
    BY <1>0, <2>1 DEF ScreenTypes, NewestOnly, Quiet
  <2>4. Marked' /\ Delivered'
    BY <2>1 DEF ScreenTypes, Marked, Delivered
  <2> QED BY <2>2, <2>3, <2>4
<1>11. CASE GiveUp
  BY <1>11 DEF GiveUp, ScreenTypes, NewestOnly, Quiet, Marked, Delivered
<1>12. CASE ShareAgain
  <2>1. /\ at = "over" /\ at' = "idle" /\ share' = share + 1 /\ share' \in 1 .. MaxShares
        /\ shown' = 0
        /\ UNCHANGED <<kind, capture, opened, halted, picture, dead, pictures, newest, first>>
    BY <1>0, <1>12, ScreenAssumption DEF ShareAgain, ScreenTypes
  <2>2. ScreenTypes' /\ NewestOnly' /\ Delivered'
    BY <2>1 DEF ScreenTypes, NewestOnly, Quiet, Delivered
  <2>3. share' \notin dead /\ \A c \in dead : c <= share'
    BY <1>0, <2>1 DEF Marked, ScreenTypes, Sessions
  <2>4. Marked'
    BY <2>1, <2>3 DEF Marked
  <2> QED BY <2>2, <2>4
<1>13. ASSUME NEW t \in Sessions, NEW ok \in BOOLEAN, ScreenOpens(t, ok) PROVE ScreenInv'
  <2>1. PICK v \in {"live", "gone"} : capture' = [capture EXCEPT ![t] = v]
    BY <1>13 DEF ScreenOpens
  <2>2. /\ capture[t] = "opening"
        /\ UNCHANGED <<kind, share, at, opened, halted, picture, dead,
                       pictures, newest, first, shown>>
    BY <1>13 DEF ScreenOpens
  <2> QED BY <1>0, <2>1, <2>2 DEF ScreenTypes, NewestOnly, Quiet, Marked, Delivered
<1>14. ASSUME NEW t \in Sessions, Captures(t) PROVE ScreenInv'
  <2>1. /\ capture[t] = "live" /\ pictures' = pictures + 1 /\ PictureCell(t) \in Sessions
        /\ newest' = [newest EXCEPT ![t] = pictures']
        /\ picture' = [picture EXCEPT ![PictureCell(t)] = pictures']
        /\ UNCHANGED <<kind, share, at, opened, halted, dead, first, shown>>
    BY <1>0, <1>14 DEF Captures, Kept, PictureCell
  <2>2. capture' \in {capture, [capture EXCEPT ![t] = "gone"]}
    BY <1>14 DEF Captures
  <2>3. ScreenTypes'
    BY <2>1, <2>2 DEF ScreenTypes
  <2>4. t <= opened
    BY <1>0, <2>1 DEF NewestOnly, Sessions
  <2>5. NewestOnly'
    <3>1. /\ capture' \in [Sessions -> {"unborn", "opening", "live", "gone"}]
          /\ \A u \in Sessions : capture'[u] \in {capture[u], "gone"}
                                 /\ (u # t => capture'[u] = capture[u])
      BY <2>1, <2>2 DEF ScreenTypes
    <3>2. \A u \in Sessions : u > opened => newest'[u] = newest[u] /\ capture'[u] = capture[u]
      BY <1>0, <2>1, <2>4, <3>1 DEF ScreenTypes, Sessions
    <3>3. \A u \in Sessions : Quiet(u) => Quiet(u)'
      BY <2>1, <3>1 DEF Quiet
    <3>4. opened # 0 => opened \in Sessions
      BY <1>0 DEF Sessions
    <3> QED BY <2>1, <3>2, <3>3, <3>4 DEF NewestOnly
  <2>6. Marked'
    <3>1. opened # 0 => opened \in Sessions
      BY <1>0 DEF Sessions
    <3> QED BY <2>1, <2>2, <3>1 DEF ScreenTypes, Marked
  <2>7. kind = "sck" => t = opened /\ PictureCell(t) = share
    BY <1>0, <2>1, <2>4 DEF NewestOnly, Quiet, Sessions, PictureCell
  <2>8. Delivered'
    BY <1>0, <2>1, <2>7 DEF ScreenTypes, Delivered
  <2> QED BY <2>3, <2>5, <2>6, <2>8
<1>15. ASSUME NEW t \in Sessions, Dies(t) PROVE ScreenInv'
  <2>1. /\ capture[t] = "live" /\ capture' = [capture EXCEPT ![t] = "gone"]
        /\ dead' = IF kind = "sck" THEN dead \cup {PictureCell(t)} ELSE dead
        /\ UNCHANGED <<kind, share, at, opened, halted, picture, pictures, newest, first, shown>>
    BY <1>15 DEF Dies
  <2>2. t <= opened
    BY <1>0, <2>1 DEF NewestOnly, Sessions
  <2>3. kind = "sck" => t = opened /\ PictureCell(t) = share /\ at # "idle" /\ opened # 0
    BY <1>0, <2>1, <2>2 DEF NewestOnly, Quiet, Sessions, PictureCell
  <2>4. ScreenTypes'
    BY <1>0, <2>1, <2>3 DEF ScreenTypes
  <2>5. NewestOnly'
    BY <1>0, <2>1 DEF ScreenTypes, NewestOnly, Quiet
  <2>6. Marked'
    <3>1. opened # 0 => opened \in Sessions
                        /\ (capture[opened] = "gone" => capture'[opened] = "gone")
      BY <1>0, <2>1 DEF Sessions, ScreenTypes
    <3>2. share <= share /\ capture'[t] = "gone"
      BY <1>0, <2>1 DEF ScreenTypes, Sessions
    <3> QED BY <2>1, <2>3, <3>1, <3>2 DEF Marked
  <2>7. Delivered'
    BY <2>1 DEF Delivered
  <2> QED BY <2>4, <2>5, <2>6, <2>7
<1>16. CASE UNCHANGED screenVars
  BY <1>16 DEF screenVars, ScreenTypes, NewestOnly, Quiet, Marked, Delivered
<1> QED
  BY <1>1, <1>2, <1>3, <1>4, <1>5, <1>6, <1>7, <1>8, <1>9, <1>10, <1>11, <1>12, <1>13, <1>14, <1>15,
     <1>16 DEF ScreenNext, Starting, Turn, Session

(* What the invariant says of a capture that runs, and of its picture.     *)
LEMMA ScreenGood == ScreenInv => RunsOrTold /\ NewestKept
<1> SUFFICES ASSUME ScreenInv PROVE RunsOrTold /\ NewestKept
  OBVIOUS
<1>1. RunsOrTold
  BY DEF ScreenInv, ScreenTypes, NewestOnly, Quiet, RunsOrTold, Sessions
<1>2. kind = "sck" => HereCell = share
  BY DEF HereCell, PictureCell
<1>3. NewestKept
  BY <1>2 DEF ScreenInv, Delivered, NewestKept, Newest
<1> QED BY <1>1, <1>3

-------------------------------------------------------------------------------
(* A sound or camera device.  Only the thread of the last start can have   *)
(* the device open, and outside of start() only if the caller holds it,    *)
(* but for a macOS stream that was told to stop or was not waited for.     *)
CaptureTypes ==
  /\ backend \in Backends /\ call \in Calls /\ starts \in 0 .. MaxStarts
  /\ handle \in {0, starts} /\ slotOf \in Starts
  /\ device \in [Starts -> {"unborn", "opening", "live", "deaf", "gone"}]
  /\ halt \in [Starts -> BOOLEAN]
  /\ report \in [Starts -> {"none", "ok", "error", "unheard"}]
  /\ DOMAIN slot = Starts

Reports ==
  /\ \A t \in Starts : t > starts => ~Owns(t) /\ report[t] = "none"
  /\ \A t \in Starts : report[t] = "error" => ~Owns(t)
  /\ call \in {"stop", "start", "undo"} /\ handle # 0 => halt[FlagOf(handle)]

OneOwner ==
  /\ call \in {"start", "spawn"} => starts < MaxStarts
  /\ call = "wait" => starts # 0
  /\ call = "spawn" => handle = 0
  /\ backend \in {"pulse", "mac"} /\ call = "wait" => backend = "mac" /\ handle = 0
  /\ \A t \in Starts : Owns(t) /\ ~LeftBehind(t) =>
       /\ t = starts /\ call # "spawn"
       /\ call # "wait" => t = handle

(* A slot of its own holds what its start captured, the shared one what    *)
(* the last start and such streams did.                                    *)
Mine == {starts} \cup {u \in Starts : LeftBehind(u)}
OwnSamples ==
  /\ backend \in {"mic", "camera"} =>
       /\ \A t \in Starts : slot[t] \in Seq({t})
       /\ call = "none" /\ handle # 0 => slotOf = handle
  /\ backend \notin {"mic", "camera"} => slotOf = 1 /\ slot[1] \in Seq(Mine)
  /\ backend = "pulse" => slot[1] = <<>> /\ call # "wait"

CaptureInv == CaptureTypes /\ Reports /\ OneOwner /\ OwnSamples

(* A slot that only samples of one start were put into holds only those,   *)
(* after the oldest were cut off too.                                      *)
LEMMA ConstantSeq ==
  ASSUME NEW t, NEW n \in Nat PROVE [i \in 1 .. n |-> t] \in Seq({t})
<1>1. [i \in 1 .. n |-> t] \in [1 .. n -> {t}]
  OBVIOUS
<1> QED BY <1>1, SeqDef

(* A quotient of numbers is whole, ...                                     *)
LEMMA QuotientIsInt == ASSUME NEW a \in Nat, NEW b \in Nat, b > 0 PROVE a \div b \in Int
OBVIOUS

(* ... not negative, ...                                                   *)
LEMMA QuotientIsNat == ASSUME NEW a \in Nat, NEW b \in Nat, b > 0 PROVE a \div b \in Nat
<1>1. a \div b >= 0
  BY SMTT(60)
<1> QED BY <1>1, QuotientIsInt

(* ... and a product is not negative.                                      *)
LEMMA ProductIsNat == ASSUME NEW a \in Nat, NEW b \in Nat PROVE a * b \in Nat
OBVIOUS

(* What is cut off is a number of samples.                                 *)
LEMMA CutIsNat == ASSUME NEW n \in Nat PROVE Frames(n) * FrameLen \in Nat
<1>1. FrameLen \in Nat /\ FrameLen > 0
  BY CaptureAssumption
<1>2. n + FrameLen - 1 \in Nat
  BY <1>1
<1>3. Frames(n) \in Nat
  BY <1>1, <1>2, QuotientIsNat DEF Frames
<1> QED BY <1>1, <1>3, ProductIsNat

(* The bound of a slot only cuts.                                          *)
LEMMA BoundedOf == ASSUME NEW S, NEW s \in Seq(S) PROVE Bounded(s) \in Seq(S)
<1> DEFINE excess == IF Len(s) > SlotCap THEN Len(s) - SlotCap ELSE 0
           cut == IF backend = "mic" THEN Frames(excess) * FrameLen ELSE excess
<1>1. excess \in Nat
  BY CaptureAssumption
<1>2. cut \in Nat
  BY <1>1, CutIsNat
<1>3. \A i \in cut + 1 .. Len(s) : s[i] \in S
  BY <1>2
<1>4. SubSeq(s, cut + 1, Len(s)) \in Seq(S)
  <2> HIDE DEF cut
  <2> QED BY <1>2, <1>3, SubSeqProperties
<1> QED BY <1>4 DEF Bounded

(* Nothing was started and every slot is empty.                            *)
LEMMA CaptureInitial == CaptureInit => CaptureInv
<1> SUFFICES ASSUME CaptureInit PROVE CaptureInv
  OBVIOUS
<1>1. CaptureTypes
  BY CaptureAssumption DEF CaptureInit, CaptureTypes, Starts, Calls
<1>2. OneOwner /\ Reports
  BY DEF CaptureInit, OneOwner, Owns, Reports
<1>3. \A S : <<>> \in Seq(S)
  OBVIOUS
<1>4. OwnSamples
  BY <1>3, CaptureAssumption DEF CaptureInit, OwnSamples, Starts
<1> QED BY <1>1, <1>2, <1>4 DEF CaptureInv

(* A stream that was left behind stays so, and the samples of a shared     *)
(* slot stay samples of those it may hold.                                 *)
LEMMA LeftStays ==
  ASSUME CaptureInv, backend' = backend, starts' = starts,
         \A t \in Starts : halt[t] => halt'[t],
         \A t \in Starts : report[t] = "unheard" => report'[t] = "unheard"
  PROVE  /\ \A t \in Starts : LeftBehind(t) => LeftBehind(t)'
         /\ Mine \subseteq Mine'
         /\ \A s \in Seq(Mine) : s \in Seq(Mine')
<1>1. \A t \in Starts : LeftBehind(t) => LeftBehind(t)'
  BY DEF LeftBehind
<1>2. Mine \subseteq Mine'
  BY <1>1 DEF Mine
<1> QED BY <1>1, <1>2, SeqMonotonic

(* Every step of the caller and of a device thread keeps the invariant.    *)
LEMMA CaptureStep == ASSUME CaptureInv, [CaptureNext]_captureVars PROVE CaptureInv'
<1> USE DEF CaptureInv
<1>0. /\ MaxStarts \in Nat /\ 1 \in Starts /\ starts \in Nat /\ starts <= MaxStarts
      /\ \A t \in Starts : FlagOf(t) \in Starts /\ (backend = "mac" => FlagOf(t) = t)
      /\ starts # 0 => starts \in Starts
  BY CaptureAssumption DEF CaptureTypes, Starts, FlagOf
<1>1. CASE Start \/ Stop
  <2>1. /\ call = "none" /\ call' \in {"start", "stop"} /\ (call' = "start" => starts < MaxStarts)
        /\ halt' = IF handle # 0 \/ backend = "wasapi" THEN [halt EXCEPT ![FlagOf(handle)] = TRUE] ELSE halt
        /\ UNCHANGED <<backend, starts, device, report, handle, slotOf, slot>>
    BY <1>1 DEF Start, Stop, Quiesce
  <2>2. /\ halt' \in [Starts -> BOOLEAN] /\ \A t \in Starts : halt[t] => halt'[t]
        /\ handle # 0 => halt'[FlagOf(handle)]
    BY <1>0, <2>1 DEF CaptureTypes, FlagOf
  <2>3. /\ \A t \in Starts : LeftBehind(t) => LeftBehind(t)'
        /\ \A s \in Seq(Mine) : s \in Seq(Mine')
    BY <2>1, <2>2, LeftStays
  <2>4. CaptureTypes'
    BY <2>1, <2>2 DEF CaptureTypes, Calls
  <2>5. Reports'
    BY <2>1, <2>2 DEF Reports, Owns, FlagOf
  <2>6. OneOwner'
    BY <2>1, <2>3 DEF OneOwner, Owns
  <2>7. OwnSamples'
    BY <2>1, <2>3 DEF OwnSamples
  <2> QED BY <2>4, <2>5, <2>6, <2>7
<1>2. CASE Join
  <2>1. /\ call \in {"stop", "start", "undo"} /\ call' = IF call = "start" THEN "spawn" ELSE "none"
        /\ handle' = 0 /\ slot' = Dropped(slot)
        /\ UNCHANGED <<backend, starts, device, halt, report, slotOf>>
    BY <1>2 DEF Join
  <2>2. \A t \in Starts : Owns(t) => LeftBehind(t)
    <3> SUFFICES ASSUME NEW t \in Starts, Owns(t), ~LeftBehind(t) PROVE FALSE
      OBVIOUS
    <3>1. t = starts /\ t = handle /\ t # 0
      BY <2>1 DEF OneOwner, Starts
    <3>2. backend = "mac"
      BY <1>2, <3>1 DEF Join, Released
    <3>3. halt[t]
      BY <1>0, <2>1, <3>1, <3>2 DEF Reports
    <3> QED BY <3>2, <3>3 DEF LeftBehind
  <2>3. CaptureTypes'
    BY <2>1 DEF CaptureTypes, Calls, Dropped
  <2>4. OneOwner'
    BY <2>1, <2>2 DEF OneOwner, Owns, LeftBehind
  <2>5. \A s \in Seq(Mine) : s \in Seq(Mine')
    BY <2>1, LeftStays
  <2>6. OwnSamples'
    <3>1. \A S : <<>> \in Seq(S)
      OBVIOUS
    <3> QED BY <1>0, <2>1, <2>5, <3>1 DEF OwnSamples, Dropped, CaptureTypes
  <2>7. Reports'
    BY <2>1 DEF Reports, Owns
  <2> QED BY <2>3, <2>4, <2>6, <2>7
<1>3. CASE Spawn
  <2> DEFINE t == starts + 1
  <2>1. /\ call = "spawn" /\ backend # "pulse" /\ call' = "wait" /\ starts' = t
        /\ device' = [device EXCEPT ![t] = "opening"]
        /\ halt' = [halt EXCEPT ![FlagOf(t)] = FALSE]
        /\ slot' = [slot EXCEPT ![Cell(t)] = <<>>]
        /\ slotOf' = IF backend = "camera" THEN Cell(t) ELSE slotOf
        /\ handle' = IF backend = "wasapi" THEN t ELSE 0
        /\ backend' = backend /\ report' = report
    BY <1>3 DEF Spawn
  <2>2. t \in Starts /\ t \in 0 .. MaxStarts /\ t # 0 /\ t = starts + 1
    BY <1>0, <2>1 DEF OneOwner, Starts
  <2>3. Cell(t) = IF backend \in {"mic", "camera"} THEN t ELSE 1
    BY DEF Cell
  <2> HIDE DEF t
  <2>4. CaptureTypes'
    BY <1>0, <2>1, <2>2, <2>3 DEF CaptureTypes, Calls
  <2>5. \A u \in Starts : u # t => (Owns(u)' <=> Owns(u)) /\ (LeftBehind(u) => LeftBehind(u)')
    BY <1>0, <2>1, <2>2 DEF Owns, LeftBehind, CaptureTypes
  <2>6. OneOwner'
    BY <2>1, <2>2, <2>5 DEF OneOwner
  <2>7. Reports'
    <3>1. report[t] = "none"
      BY <1>0, <2>2 DEF Reports
    <3>2. \A u \in Starts : u > t => u # t /\ u > starts
      BY <1>0, <2>2 DEF Starts
    <3> QED BY <2>1, <2>2, <2>5, <3>1, <3>2 DEF Reports
  <2>8. OwnSamples'
    <3>1. \A S : <<>> \in Seq(S)
      OBVIOUS
    <3> QED BY <1>0, <2>1, <2>2, <2>3, <3>1 DEF OwnSamples, CaptureTypes
  <2> QED BY <2>4, <2>6, <2>7, <2>8
<1>4. CASE SpawnFails
  <2>1. /\ call = "spawn" /\ call' = "none"
        /\ slot' = IF backend = "camera" THEN [slot EXCEPT ![slotOf] = <<>>] ELSE slot
        /\ UNCHANGED <<backend, starts, device, halt, report, handle, slotOf>>
    BY <1>4 DEF SpawnFails
  <2>2. CaptureTypes' /\ OneOwner' /\ Reports'
    BY <2>1 DEF CaptureTypes, Calls, OneOwner, Owns, LeftBehind, Reports
  <2>3. OwnSamples'
    <3>1. \A S : <<>> \in Seq(S)
      OBVIOUS
    <3>2. \A s \in Seq(Mine) : s \in Seq(Mine')
      BY <2>1, LeftStays
    <3> QED BY <2>1, <3>1, <3>2 DEF OwnSamples, OneOwner, CaptureTypes
  <2> QED BY <2>2, <2>3
<1>5. CASE PulseOpens
  <2>1. /\ call = "spawn" /\ backend = "pulse" /\ call' = "none"
        /\ starts' = starts + 1 /\ handle' = starts'
        /\ device' = [device EXCEPT ![starts'] = "live"] /\ halt' = [halt EXCEPT ![1] = FALSE]
        /\ UNCHANGED <<backend, report, slotOf, slot>>
    BY <1>5 DEF PulseOpens
  <2>2. starts' \in Starts /\ starts' \in 0 .. MaxStarts
    BY <1>0, <2>1 DEF OneOwner, Starts
  <2>3. CaptureTypes'
    BY <1>0, <2>1, <2>2 DEF CaptureTypes, Calls
  <2>4. \A u \in Starts : u # starts' => (Owns(u)' <=> Owns(u)) /\ ~LeftBehind(u) /\ ~LeftBehind(u)'
    BY <2>1, <2>2 DEF Owns, LeftBehind, CaptureTypes
  <2>5. OneOwner'
    BY <2>1, <2>2, <2>4 DEF OneOwner
  <2>6. Reports'
    <3>1. report[starts'] = "none"
      BY <1>0, <2>1, <2>2 DEF Reports
    <3>2. \A u \in Starts : u > starts' => u # starts' /\ u > starts
      BY <1>0, <2>1 DEF Starts
    <3> QED BY <2>1, <2>2, <2>4, <3>1, <3>2 DEF Reports
  <2>7. OwnSamples'
    <3>1. \A S : <<>> \in Seq(S)
      OBVIOUS
    <3> QED BY <2>1, <3>1 DEF OwnSamples
  <2> QED BY <2>3, <2>5, <2>6, <2>7
<1>6. CASE StartSucceeds
  <2>1. /\ call = "wait" /\ call' = "none" /\ handle' = starts /\ slotOf' = Cell(starts)
        /\ UNCHANGED <<backend, starts, device, halt, report, slot>>
    BY <1>6 DEF StartSucceeds
  <2>2. starts \in Starts
    BY <1>0, <2>1 DEF OneOwner, Starts
  <2>3. \A s \in Seq(Mine) : s \in Seq(Mine')
    BY <2>1, LeftStays
  <2>4. CaptureTypes' /\ Reports' /\ OneOwner'
    BY <1>0, <2>1, <2>2 DEF CaptureTypes, Calls, Reports, OneOwner, Owns, LeftBehind, Cell
  <2>5. OwnSamples'
    BY <1>0, <2>1, <2>2, <2>3 DEF OwnSamples, Cell
  <2> QED BY <2>4, <2>5
<1>7. CASE StartFails
  <2>1. /\ call = "wait" /\ call' = "undo" /\ handle' = starts /\ backend # "mac"
        /\ halt' = [halt EXCEPT ![FlagOf(starts)] = TRUE]
        /\ UNCHANGED <<backend, starts, device, report, slotOf, slot>>
    BY <1>7 DEF StartFails
  <2>2. starts \in Starts /\ FlagOf(starts) \in Starts
    BY <1>0, <2>1 DEF OneOwner
  <2>3. \A s \in Seq(Mine) : s \in Seq(Mine')
    BY <2>1, <2>2, LeftStays DEF CaptureTypes
  <2>4. CaptureTypes' /\ Reports'
    BY <2>1, <2>2 DEF CaptureTypes, Calls, Reports, Owns, FlagOf
  <2>5. OneOwner'
    BY <2>1 DEF OneOwner, Owns, LeftBehind
  <2>6. OwnSamples'
    BY <2>1, <2>3 DEF OwnSamples
  <2> QED BY <2>4, <2>5, <2>6
<1>14. CASE MacStartFails
  <2>1. /\ call = "wait" /\ backend = "mac" /\ report[starts] \in {"error", "none"} /\ call' = "none"
        /\ report' = IF report[starts] = "none" THEN [report EXCEPT ![starts] = "unheard"] ELSE report
        /\ UNCHANGED <<backend, starts, device, halt, handle, slotOf, slot>>
    BY <1>14 DEF MacStartFails
  <2>2. starts \in Starts
    BY <1>0, <2>1 DEF OneOwner
  <2>3. /\ report' \in [Starts -> {"none", "ok", "error", "unheard"}]
        /\ \A t \in Starts : report[t] = "unheard" => report'[t] = "unheard"
        /\ \A t \in Starts : report'[t] = "error" => report[t] = "error"
        /\ \A t \in Starts : t # starts => report'[t] = report[t]
    BY <2>1, <2>2 DEF CaptureTypes
  <2>4. /\ \A t \in Starts : LeftBehind(t) => LeftBehind(t)'
        /\ \A s \in Seq(Mine) : s \in Seq(Mine')
    BY <2>1, <2>3, LeftStays
  <2>5. CaptureTypes'
    BY <2>1, <2>3 DEF CaptureTypes, Calls
  <2>6. Reports'
    BY <1>0, <2>1, <2>2, <2>3 DEF Reports, Owns, Starts
  <2>7. Owns(starts) => LeftBehind(starts)'
    BY <2>1, <2>2 DEF Reports, LeftBehind, CaptureTypes
  <2>8. OneOwner'
    BY <2>1, <2>4, <2>7 DEF OneOwner, Owns
  <2>9. OwnSamples'
    BY <2>1, <2>4 DEF OwnSamples
  <2> QED BY <2>5, <2>6, <2>8, <2>9
<1>8. ASSUME NEW t \in Starts, Opens(t) \/ OpenFails(t) \/ DeviceLost(t) \/ Halts(t)
      PROVE CaptureInv'
  <2>1. PICK v \in {"live", "gone", "deaf"} : device' = [device EXCEPT ![t] = v]
    BY <1>8 DEF Opens, OpenFails, DeviceLost, Halts
  <2>2. /\ Owns(t) /\ UNCHANGED <<backend, call, starts, halt, handle, slotOf, slot>>
    BY <1>8 DEF Opens, OpenFails, DeviceLost, Halts, SeesStop, Owns
  <2>3. /\ report' = report \/ (report[t] = "none" /\ report' = [report EXCEPT ![t] = "ok"])
           \/ (report[t] = "none" /\ report' = [report EXCEPT ![t] = "error"] /\ ~Owns(t)')
    BY <1>8 DEF Opens, OpenFails, DeviceLost, Halts, Reported, Owns, CaptureTypes
  <2>4. /\ report' \in [Starts -> {"none", "ok", "error", "unheard"}]
        /\ \A u \in Starts : report[u] = "unheard" => report'[u] = "unheard"
        /\ \A u \in Starts : u # t => report'[u] = report[u]
    BY <2>3 DEF CaptureTypes
  <2>5. /\ \A u \in Starts : LeftBehind(u) => LeftBehind(u)'
        /\ \A s \in Seq(Mine) : s \in Seq(Mine')
    BY <2>2, <2>4, LeftStays
  <2>6. \A u \in Starts : Owns(u)' => Owns(u)
    BY <2>1, <2>2 DEF CaptureTypes, Owns
  <2>7. CaptureTypes'
    BY <2>1, <2>2, <2>4 DEF CaptureTypes
  <2>8. OwnSamples'
    BY <2>2, <2>5 DEF OwnSamples
  <2>9. OneOwner'
    BY <2>2, <2>5, <2>6 DEF OneOwner
  <2>10. Reports'
    <3>1. \A u \in Starts : report'[u] = "error" => report[u] = "error" \/ (u = t /\ ~Owns(t)')
      BY <2>3 DEF CaptureTypes, Reports
    <3>2. ~(t > starts)
      BY <2>2 DEF Reports
    <3> QED BY <2>2, <2>4, <2>6, <3>1, <3>2 DEF Reports, FlagOf
  <2> QED BY <2>7, <2>8, <2>9, <2>10
<1>9. ASSUME NEW t \in Starts, device[t] = "live", NEW content, backend # "pulse",
             backend \in {"mic", "camera"} => content \in Seq({t}),
             backend \notin {"mic", "camera"} => content \in Seq(Mine),
             Puts(t, content)
      PROVE  CaptureInv'
  <2>1. /\ slot' = [slot EXCEPT ![Cell(t)] = content]
        /\ UNCHANGED <<backend, call, starts, device, halt, report, handle, slotOf>>
    BY <1>9 DEF Puts
  <2>2. CaptureTypes' /\ OneOwner' /\ Reports'
    BY <2>1 DEF CaptureTypes, OneOwner, Owns, LeftBehind, Reports, FlagOf
  <2>3. Mine' = Mine
    BY <2>1 DEF Mine, LeftBehind
  <2>4. OwnSamples'
    BY <1>0, <1>9, <2>1, <2>3 DEF OwnSamples, Cell, CaptureTypes
  <2> QED BY <2>2, <2>4
<1>10. ASSUME NEW t \in Starts, NEW n \in 1 .. FrameLen,
              WasapiDelivers(t, n) \/ MacDelivers(t, n) \/ MicDelivers(t, n)
       PROVE  CaptureInv'
  <2>1. /\ device[t] = "live" /\ backend \in {"wasapi", "mac", "mic"}
        /\ Puts(t, Bounded(Chunk(t, n)))
    BY <1>10 DEF WasapiDelivers, MacDelivers, MicDelivers, Puts
  <2>2. t \in Mine
    BY <2>1 DEF OneOwner, Owns, Mine
  <2>4. n \in Nat
    BY CaptureAssumption
  <2>5. ASSUME NEW S, t \in S, slot[Cell(t)] \in Seq(S) PROVE Bounded(Chunk(t, n)) \in Seq(S)
    <3>1. [i \in 1 .. n |-> t] \in Seq(S)
      BY <2>4, <2>5, ConstantSeq, SeqMonotonic
    <3>2. Chunk(t, n) \in Seq(S)
      BY <2>5, <3>1, ConcatProperties DEF Chunk
    <3> QED BY <3>2, BoundedOf
  <2>6. CASE backend = "mic"
    <3>1. slot[Cell(t)] \in Seq({t})
      BY <2>6 DEF OwnSamples, Cell
    <3>2. Bounded(Chunk(t, n)) \in Seq({t})
      BY <2>5, <3>1
    <3> QED BY <1>9, <2>1, <2>6, <3>2
  <2>7. CASE backend # "mic"
    <3>1. slot[Cell(t)] \in Seq(Mine)
      BY <2>1, <2>7 DEF OwnSamples, Cell
    <3>2. Bounded(Chunk(t, n)) \in Seq(Mine)
      BY <2>2, <2>5, <3>1
    <3> QED BY <1>9, <2>1, <2>7, <3>2
  <2> QED BY <2>6, <2>7
<1>11. ASSUME NEW t \in Starts, CameraDelivers(t) PROVE CaptureInv'
  <2>1. device[t] = "live" /\ backend = "camera" /\ Puts(t, <<t>>)
    BY <1>11 DEF CameraDelivers, Puts
  <2>2. <<t>> \in Seq({t})
    OBVIOUS
  <2> QED BY <1>9, <2>1, <2>2
<1>12. CASE WasapiTakes \/ MacTakes \/ MicTakes \/ CameraTakes
  <2>0. PICK least, rest : Reads(least, rest) /\ least \in Nat
                           /\ rest \in {<<>>, SubSeq(Here, FrameLen + 1, Len(Here))}
    BY <1>12, CaptureAssumption DEF WasapiTakes, MacTakes, MicTakes, CameraTakes
  <2>1. slot' = [slot EXCEPT ![slotOf] = rest] /\ backend # "pulse"
        /\ UNCHANGED <<backend, call, starts, device, halt, report, handle, slotOf>>
    BY <1>12, <2>0 DEF Reads, WasapiTakes, MacTakes, MicTakes, CameraTakes
  <2>2. CaptureTypes' /\ OneOwner' /\ Reports'
    BY <2>1 DEF CaptureTypes, OneOwner, Owns, LeftBehind, Reports, FlagOf
  <2>3. ASSUME NEW S, slot[slotOf] \in Seq(S) PROVE rest \in Seq(S)
    <3>1. CASE rest = <<>>
      BY <3>1
    <3>2. CASE rest = SubSeq(Here, FrameLen + 1, Len(Here))
      <4>1. Here \in Seq(S) /\ FrameLen + 1 \in Nat /\ FrameLen + 1 >= 1
        BY <2>3, CaptureAssumption DEF Here
      <4>2. \A i \in FrameLen + 1 .. Len(Here) : Here[i] \in S
        BY <4>1
      <4> QED BY <3>2, <4>1, <4>2, SubSeqProperties
    <3> QED BY <2>0, <3>1, <3>2
  <2>4. Mine' = Mine
    BY <2>1 DEF Mine, LeftBehind
  <2>5. OwnSamples'
    <3>1. CASE backend \in {"mic", "camera"}
      <4>1. rest \in Seq({slotOf})
        BY <2>3, <3>1 DEF OwnSamples, CaptureTypes
      <4> QED BY <2>1, <3>1, <4>1 DEF OwnSamples, CaptureTypes
    <3>2. CASE backend \notin {"mic", "camera"}
      <4>1. rest \in Seq(Mine)
        BY <2>3, <3>2 DEF OwnSamples
      <4> QED BY <2>1, <2>4, <3>2, <4>1 DEF OwnSamples, CaptureTypes
    <3> QED BY <3>1, <3>2
  <2> QED BY <2>2, <2>5
<1>13. CASE UNCHANGED captureVars
  BY <1>13 DEF captureVars, CaptureTypes, Reports, OneOwner, Owns, LeftBehind, OwnSamples, Mine, FlagOf
<1> QED
  BY <1>1, <1>2, <1>3, <1>4, <1>5, <1>6, <1>7, <1>8, <1>10, <1>11, <1>12, <1>13, <1>14
  DEF CaptureNext, Caller, Finishing, Thread

(* What the invariant says of the device and of what is read from it.      *)
LEMMA CaptureGood == CaptureInv => StopReleases /\ OneDeviceOpen /\ OnlyThisStart
<1> SUFFICES ASSUME CaptureInv PROVE StopReleases /\ OneDeviceOpen /\ OnlyThisStart
  OBVIOUS
<1>1. StopReleases
  <2> SUFFICES ASSUME handle = 0, call = "none", NEW t \in Starts, Owns(t), ~LeftBehind(t) PROVE FALSE
    BY DEF StopReleases
  <2> QED BY DEF CaptureInv, OneOwner, Starts
<1>2. OneDeviceOpen
  BY DEF CaptureInv, OneOwner, OneDeviceOpen
<1>3. OnlyThisStart
  <2> SUFFICES ASSUME handle # 0, call = "none", NEW i \in DOMAIN Here
               PROVE  Here[i] = handle \/ LeftBehind(Here[i])
    BY DEF OnlyThisStart
  <2>1. handle = starts
    BY DEF CaptureInv, CaptureTypes
  <2>2. Here \in Seq({handle}) \/ Here \in Seq(Mine)
    BY DEF CaptureInv, OwnSamples, CaptureTypes, Here
  <2>3. Here[i] = handle \/ Here[i] \in Mine
    BY <2>2
  <2> QED BY <2>1, <2>3 DEF Mine
<1> QED BY <1>1, <1>2, <1>3

-------------------------------------------------------------------------------
(* The microphone behind the pump.                                         *)
SoundInv ==
  /\ pump \in {"start", "configure", "pull", "check", "send", "close", "ended"}
  /\ microphone \in [on : BOOLEAN, fmt : AudioFormats]
  /\ pump \in {"start", "ended"} => ~microphone.on
  /\ joined => pump = "ended"

(* Nothing is opened.                                                      *)
LEMMA SoundInitial == AudioInit => SoundInv
<1> SUFFICES ASSUME AudioInit PROVE SoundInv
  OBVIOUS
<1>1. PICK f \in AudioFormats : microphone = [on |-> FALSE, fmt |-> f]
  BY DEF AudioInit
<1> QED BY <1>1 DEF AudioInit, SoundInv

(* Every step of the pump and around it leaves a joined pump ended.        *)
LEMMA SoundStep == ASSUME SoundInv, [AudioNext]_audioVars PROVE SoundInv'
<1> USE DEF SoundInv
<1>0. ASSUME NEW b \in BOOLEAN
      PROVE  /\ [microphone EXCEPT !.on = b] \in [on : BOOLEAN, fmt : AudioFormats]
             /\ [microphone EXCEPT !.on = b].on = b
  OBVIOUS
<1>1. CASE StartsCapture
  BY <1>0, <1>1 DEF StartsCapture, pumpRest
<1>2. CASE CaptureRefused
  BY <1>2 DEF CaptureRefused, pumpRest
<1>3. CASE Configures
  BY <1>0, <1>3 DEF Configures, pumpRest
<1>4. CASE Leaves \/ Breaks
  BY <1>4 DEF Leaves, LoopSeesStop, Breaks, pumpRest
<1>5. ASSUME NEW n \in 1 .. MaxChunk, Pulls(n) PROVE SoundInv'
  <2>1. pump = "pull" /\ pump' \in {"pull", "check"} /\ UNCHANGED <<microphone, joined>>
    BY <1>5 DEF Pulls, pumpRest
  <2> QED BY <2>1
<1>6. CASE Checks \/ Sends
  BY <1>6 DEF Checks, Sends, pumpRest
<1>7. CASE Closes
  BY <1>0, <1>7 DEF Closes, AfterTheLoop, pumpRest
<1>8. CASE Restarts
  <2>1. /\ pump = "pull" /\ pump' \in {"pull", "close"} /\ joined' = joined
        /\ \/ \E f \in AudioFormats : microphone' = [on |-> TRUE, fmt |-> f]
           \/ microphone' = [microphone EXCEPT !.on = FALSE]
    BY <1>8 DEF Restarts, Reopened, pumpRest
  <2>2. ASSUME NEW f \in AudioFormats, microphone' = [on |-> TRUE, fmt |-> f]
        PROVE  microphone' \in [on : BOOLEAN, fmt : AudioFormats]
    BY <2>2
  <2>3. CASE microphone' = [microphone EXCEPT !.on = FALSE]
    BY <1>0, <2>1, <2>3
  <2>4. CASE \E f \in AudioFormats : microphone' = [on |-> TRUE, fmt |-> f]
    BY <2>1, <2>2, <2>4
  <2> QED BY <2>1, <2>3, <2>4
<1>9. CASE StopsSound \/ LinkLost \/ Reattaches \/ Rearms \/ \E c \in Conns : Writes(c)
  BY <1>9 DEF StopsSound, LinkLost, Reattaches, Rearms, Writes, hostRest
<1>10. CASE Joins
  BY <1>10 DEF Joins, JoinReady, hostRest
<1>11. CASE UNCHANGED audioVars
  BY <1>11 DEF audioVars
<1> QED
  BY <1>1, <1>2, <1>3, <1>4, <1>5, <1>6, <1>7, <1>8, <1>9, <1>10, <1>11 DEF AudioNext, PumpSteps

-------------------------------------------------------------------------------
(* The libei sink.  A command is an edge of a key, a button or a modifier, *)
(* or the end; what a queued key-down will press is tracked or has its     *)
(* release behind it in the queue.                                         *)
Codes == EiKeys \cup EiMods \cup EiButtons \cup {EiCaps}
Edges == [kind : {"key"}, of : Codes, down : BOOLEAN, mods : SUBSET EiMods]

Raises(cmd, k) == cmd.kind = "key" /\ cmd.of = k /\ cmd.down
Lowers(cmd, k) == cmd.kind = "key" /\ cmd.of = k /\ ~cmd.down
Covered(k, i) == k \in Pressed \/ \E j \in DOMAIN cmds : j > i /\ Lowers(cmds[j], k)

LibeiTypes ==
  /\ cmds \in Seq(Edges \cup {Shutdown})
  /\ tracked \in [keys : SUBSET EiKeys, buttons : SUBSET EiButtons,
                  mods : SUBSET EiMods, caps : BOOLEAN]
  /\ bound \in [device : Devices \cup {NoDevice}, emulating : BOOLEAN]
  /\ offered \in [added : SUBSET Devices, resumed : SUBSET Devices]
  /\ down \in [Devices -> SUBSET Codes]

(* The bound device emulates exactly if the compositor lets it, and what   *)
(* is down is down at a device that is let and can take its release.       *)
DownAtResumed ==
  /\ bound.emulating => bound.device \in offered.resumed
  /\ bound.device \in offered.resumed => bound.emulating
  /\ offered.resumed \subseteq offered.added
  /\ \A d \in Devices : \A k \in down[d] : d \in offered.resumed /\ d \in Takers(k)

ReleasesFollow ==
  /\ \A i \in DOMAIN cmds, k \in Codes : Raises(cmds[i], k) => Covered(k, i)
  /\ bound.device \in Devices => \A k \in down[bound.device] : Covered(k, 0)

LibeiInv == LibeiTypes /\ DownAtResumed /\ ReleasesFollow

(* Nothing is queued, tracked or down.                                     *)
LEMMA LibeiInitial == LibeiInit => LibeiInv
<1> SUFFICES ASSUME LibeiInit PROVE LibeiInv
  OBVIOUS
<1>1. \A S : <<>> \in Seq(S) /\ DOMAIN <<>> = {}
  OBVIOUS
<1>2. cmds \in Seq(Edges \cup {Shutdown})
  BY <1>1 DEF LibeiInit
<1>3. LibeiTypes
  BY <1>2 DEF LibeiInit, LibeiTypes, Neutral
<1>4. DownAtResumed /\ ReleasesFollow
  BY <1>1, LibeiAssumption DEF LibeiInit, DownAtResumed, ReleasesFollow, Neutral
<1> QED BY <1>3, <1>4 DEF LibeiInv

(* A key command is an edge.                                               *)
LEMMA KeyCmdEdge ==
  ASSUME NEW k \in Codes, NEW isDown \in BOOLEAN, NEW mods \in SUBSET EiMods
  PROVE  /\ KeyCmd(k, isDown, mods) \in Edges /\ KeyCmd(k, isDown, mods).kind = "key"
         /\ KeyCmd(k, isDown, mods).of = k /\ KeyCmd(k, isDown, mods).down = isDown
BY DEF KeyCmd, Edges

(* The releases of a finite set of codes are an up for each of them.       *)
LEMMA UpsOf ==
  ASSUME NEW held \in SUBSET Codes, IsFiniteSet(held)
  PROVE  /\ Ups(held) \in Seq(Edges)
         /\ \A i \in DOMAIN Ups(held) : ~Ups(held)[i].down
         /\ \A k \in held : \E i \in DOMAIN Ups(held) : Lowers(Ups(held)[i], k)
<1> DEFINE n == Cardinality(held)
           Lists(f) == \A c \in held : \E i \in DOMAIN f : f[i] = c
           order == CHOOSE f \in [1 .. n -> held] : Lists(f)
<1>1. n \in Nat /\ \E f \in [1 .. n -> held] : Lists(f)
  <2>1. n \in Nat /\ ExistsBijection(1 .. n, held)
    BY FS_CardinalityType
  <2>2. PICK f \in [1 .. n -> held] : \A c \in held : \E i \in 1 .. n : f[i] = c
    BY <2>1 DEF ExistsBijection, Bijection, Surjection, Injection
  <2> QED BY <2>1, <2>2
<1>2. order \in [1 .. n -> held] /\ Lists(order)
  <2> HIDE DEF n, Lists
  <2> QED BY <1>1
<1>3. Ups(held) = [i \in DOMAIN order |-> KeyCmd(order[i], FALSE, {})]
  BY DEF Ups
<1> HIDE DEF n, order
<1>4. ASSUME NEW i \in 1 .. n
      PROVE  /\ Ups(held)[i] \in Edges /\ ~Ups(held)[i].down
             /\ Lowers(Ups(held)[i], order[i])
  <2>1. Ups(held)[i] = KeyCmd(order[i], FALSE, {}) /\ order[i] \in Codes
    BY <1>2, <1>3
  <2> QED BY <2>1 DEF KeyCmd, Edges, Lowers
<1>5. Ups(held) \in [1 .. n -> Edges] /\ DOMAIN Ups(held) = 1 .. n
  BY <1>2, <1>3, <1>4
<1>6. Ups(held) \in Seq(Edges)
  BY <1>1, <1>5, SeqDef
<1> QED BY <1>2, <1>4, <1>5, <1>6

(* What is tracked can be listed.                                          *)
LEMMA PressedFinite == LibeiTypes => Pressed \in SUBSET Codes /\ IsFiniteSet(Pressed)
<1> SUFFICES ASSUME LibeiTypes PROVE Pressed \in SUBSET Codes /\ IsFiniteSet(Pressed)
  OBVIOUS
<1>1. tracked.keys \in SUBSET EiKeys /\ tracked.buttons \in SUBSET EiButtons
      /\ tracked.mods \in SUBSET EiMods
  BY DEF LibeiTypes
<1>2. IsFiniteSet(tracked.keys) /\ IsFiniteSet(tracked.buttons) /\ IsFiniteSet(tracked.mods)
  BY <1>1, LibeiAssumption, FS_Subset
<1>3. IsFiniteSet(Pressed)
  BY <1>2, FS_Union DEF Pressed
<1> QED BY <1>1, <1>3 DEF Pressed, Codes

(* Commands that are put behind the queue keep the invariant if what they  *)
(* stop tracking they release, and what they press they track or release.  *)
LEMMA Queued ==
  ASSUME LibeiInv, NEW more \in Seq(Edges \cup {Shutdown}), cmds' = cmds \o more,
         tracked' \in [keys : SUBSET EiKeys, buttons : SUBSET EiButtons,
                       mods : SUBSET EiMods, caps : BOOLEAN],
         UNCHANGED <<down, bound, offered>>,
         \A k \in Pressed : k \in Pressed' \/ \E j \in DOMAIN more : Lowers(more[j], k),
         \A i \in DOMAIN more, k \in Codes : Raises(more[i], k) =>
           k \in Pressed' \/ \E j \in DOMAIN more : j > i /\ Lowers(more[j], k)
  PROVE  LibeiInv'
<1> USE DEF LibeiInv
<1> DEFINE L == Len(cmds)
<1>1. /\ cmds \in Seq(Edges \cup {Shutdown}) /\ L \in Nat /\ Len(more) \in Nat
      /\ DOMAIN cmds = 1 .. L /\ DOMAIN more = 1 .. Len(more)
  BY LenProperties DEF LibeiTypes
<1>2. /\ cmds' \in Seq(Edges \cup {Shutdown}) /\ DOMAIN cmds' = 1 .. L + Len(more)
      /\ \A i \in 1 .. L : cmds'[i] = cmds[i]
      /\ \A i \in 1 .. Len(more) : cmds'[L + i] = more[i]
  <2>1. /\ cmds' \in Seq(Edges \cup {Shutdown}) /\ Len(cmds') = L + Len(more)
        /\ \A i \in 1 .. L + Len(more) : cmds'[i] = IF i <= L THEN cmds[i] ELSE more[i - L]
    BY <1>1, ConcatProperties
  <2>2. DOMAIN cmds' = 1 .. L + Len(more)
    BY <2>1, LenProperties
  <2>3. ASSUME NEW i \in 1 .. Len(more) PROVE cmds'[L + i] = more[i]
    <3>1. L + i \in 1 .. L + Len(more) /\ ~(L + i <= L) /\ L + i - L = i
      BY <1>1
    <3> QED BY <2>1, <3>1
  <2> QED BY <1>1, <2>1, <2>2, <2>3
<1> HIDE DEF L
<1>3. LibeiTypes' /\ DownAtResumed'
  BY <1>2 DEF LibeiTypes, DownAtResumed
<1>4. ASSUME NEW j \in DOMAIN more, NEW k, Lowers(more[j], k)
      PROVE  L + j \in DOMAIN cmds' /\ Lowers(cmds'[L + j], k)
  BY <1>1, <1>2, <1>4
<1>5. ASSUME NEW k, NEW i \in 0 .. L, Covered(k, i) PROVE Covered(k, i)'
  <2>1. CASE k \in Pressed /\ k \notin Pressed'
    <3>1. PICK j \in DOMAIN more : Lowers(more[j], k)
      BY <2>1
    <3>2. L + j > i
      BY <1>1, <3>1
    <3> QED BY <1>4, <3>1, <3>2 DEF Covered
  <2>2. CASE k \in Pressed'
    BY <2>2 DEF Covered
  <2>3. ASSUME NEW j \in DOMAIN cmds, j > i, Lowers(cmds[j], k) PROVE Covered(k, i)'
    BY <1>1, <1>2, <2>3 DEF Covered
  <2> QED BY <1>5, <2>1, <2>2, <2>3 DEF Covered
<1>6. ASSUME NEW i \in DOMAIN cmds', NEW k \in Codes, Raises(cmds'[i], k) PROVE Covered(k, i)'
  <2>1. CASE i <= L
    <3>1. i \in 1 .. L /\ i \in 0 .. L /\ cmds'[i] = cmds[i]
      BY <1>1, <1>2, <1>6, <2>1
    <3>2. Covered(k, i)
      BY <1>1, <1>6, <3>1 DEF ReleasesFollow
    <3> QED BY <1>5, <3>1, <3>2
  <2>2. CASE ~(i <= L)
    <3>1. PICK m \in DOMAIN more : i = L + m
      <4>1. i - L \in 1 .. Len(more) /\ i = L + (i - L)
        BY <1>1, <1>2, <2>2
      <4> QED BY <1>1, <4>1
    <3>2. Raises(more[m], k)
      BY <1>1, <1>2, <1>6, <3>1
    <3>3. ASSUME NEW j \in DOMAIN more, j > m, Lowers(more[j], k) PROVE Covered(k, i)'
      <4>1. L + j > i
        BY <1>1, <3>1, <3>3
      <4> QED BY <1>4, <3>3, <4>1 DEF Covered
    <3>4. k \in Pressed' \/ \E j \in DOMAIN more : j > m /\ Lowers(more[j], k)
      BY <3>2
    <3> QED BY <3>3, <3>4 DEF Covered
  <2> QED BY <2>1, <2>2
<1>7. ReleasesFollow'
  <2>1. 0 \in 0 .. L /\ (bound.device \in Devices => \A k \in down[bound.device] : Covered(k, 0))
    BY <1>1 DEF ReleasesFollow
  <2>2. bound'.device \in Devices => \A k \in down'[bound'.device] : Covered(k, 0)'
    BY <1>5, <2>1
  <2> QED BY <1>6, <2>2 DEF ReleasesFollow
<1> QED BY <1>3, <1>7

(* The releases of everything, and the end behind them.                    *)
LEMMA ReleasesQueued ==
  ASSUME LibeiInv, NEW last \in {<<>>, <<Shutdown>>}, cmds' = cmds \o EiReleases \o last,
         tracked' = NoneHeld, UNCHANGED <<down, bound, offered>>
  PROVE  LibeiInv'
<1> DEFINE S == Edges \cup {Shutdown}
           more == EiReleases \o last
<1>1. /\ EiReleases \in Seq(Edges) /\ \A i \in DOMAIN EiReleases : ~EiReleases[i].down
      /\ \A k \in Pressed : \E i \in DOMAIN EiReleases : Lowers(EiReleases[i], k)
  BY PressedFinite, UpsOf DEF LibeiInv, EiReleases
<1>2. /\ EiReleases \in Seq(S) /\ last \in Seq(S) /\ Len(last) \in {0, 1}
      /\ \A i \in 1 .. Len(last) : last[i] = Shutdown
  <2>1. EiReleases \in Seq(S)
    BY <1>1, SeqMonotonic
  <2>2. CASE last = <<>>
    BY <2>1, <2>2
  <2>3. CASE last = <<Shutdown>>
    BY <2>1, <2>3
  <2> QED BY <2>2, <2>3
<1>3. /\ cmds' = cmds \o more /\ more \in Seq(S) /\ DOMAIN more = 1 .. Len(more)
      /\ DOMAIN EiReleases = 1 .. Len(EiReleases) /\ Len(EiReleases) \in Nat
      /\ Len(more) = Len(EiReleases) + Len(last)
      /\ \A i \in 1 .. Len(more) : more[i] = IF i <= Len(EiReleases) THEN EiReleases[i]
                                            ELSE last[i - Len(EiReleases)]
  <2>1. cmds \in Seq(S)
    BY DEF LibeiInv, LibeiTypes
  <2>2. cmds' = cmds \o more
    <3> HIDE DEF S
    <3>1. (cmds \o EiReleases) \o last = cmds \o (EiReleases \o last)
      BY <1>2, <2>1, ConcatAssociative
    <3> QED BY <3>1
  <2>3. DOMAIN EiReleases = 1 .. Len(EiReleases) /\ Len(EiReleases) \in Nat
    BY <1>2, LenProperties
  <2>4. /\ more \in Seq(S) /\ Len(more) = Len(EiReleases) + Len(last)
        /\ \A i \in 1 .. Len(more) : more[i] = IF i <= Len(EiReleases) THEN EiReleases[i]
                                              ELSE last[i - Len(EiReleases)]
    BY <1>2, ConcatProperties
  <2>5. DOMAIN more = 1 .. Len(more)
    BY <2>4, LenProperties
  <2> QED BY <2>2, <2>3, <2>4, <2>5
<1>4. \A i \in DOMAIN EiReleases : i \in DOMAIN more /\ more[i] = EiReleases[i]
  BY <1>2, <1>3
<1>5. ASSUME NEW i \in DOMAIN more, NEW k \in Codes PROVE ~Raises(more[i], k)
  <2>1. CASE i <= Len(EiReleases)
    BY <1>1, <1>3, <2>1 DEF Raises
  <2>2. CASE ~(i <= Len(EiReleases))
    <3>1. i - Len(EiReleases) \in 1 .. Len(last)
      BY <1>2, <1>3, <2>2
    <3>2. more[i] = Shutdown
      BY <1>2, <1>3, <2>2, <3>1
    <3> QED BY <3>2 DEF Shutdown, Raises
  <2> QED BY <2>1, <2>2
<1>6. tracked' \in [keys : SUBSET EiKeys, buttons : SUBSET EiButtons,
                    mods : SUBSET EiMods, caps : BOOLEAN]
  BY DEF NoneHeld, LibeiInv, LibeiTypes
<1> HIDE DEF more
<1> QED BY <1>1, <1>3, <1>4, <1>5, <1>6, Queued

(* A button's edge is queued with what it does to pressed_buttons.         *)
LEMMA EiButtonStep ==
  ASSUME LibeiInv, NEW b \in EiButtons, NEW isDown \in BOOLEAN, EiButton(b, isDown) PROVE LibeiInv'
<1> DEFINE more == <<KeyCmd(b, isDown, {})>>
           S == Edges \cup {Shutdown}
<1>1. /\ cmds' = Append(cmds, KeyCmd(b, isDown, {})) /\ UNCHANGED <<down, bound, offered>>
      /\ tracked' = [tracked EXCEPT !.buttons = IF isDown THEN @ \cup {b} ELSE @ \ {b}]
  BY DEF EiButton, SideFrame, threadVars
<1>2. /\ KeyCmd(b, isDown, {}) \in S /\ KeyCmd(b, isDown, {}).kind = "key"
      /\ KeyCmd(b, isDown, {}).of = b /\ KeyCmd(b, isDown, {}).down = isDown
  BY KeyCmdEdge DEF Codes
<1>3. /\ cmds' = cmds \o more /\ more \in Seq(S) /\ DOMAIN more = {1}
         /\ more[1] = KeyCmd(b, isDown, {})
  BY <1>1, <1>2, AppendIsConcat DEF LibeiInv, LibeiTypes
<1>4. /\ tracked' \in [keys : SUBSET EiKeys, buttons : SUBSET EiButtons,
                       mods : SUBSET EiMods, caps : BOOLEAN]
      /\ isDown => Pressed' = Pressed \cup {b}
      /\ Pressed \ {b} \subseteq Pressed'
  BY <1>1 DEF LibeiInv, LibeiTypes, Pressed
<1> HIDE DEF more
<1>5. \A k \in Pressed : k \in Pressed' \/ \E j \in DOMAIN more : Lowers(more[j], k)
  BY <1>2, <1>3, <1>4 DEF Lowers
<1>6. \A i \in DOMAIN more, k \in Codes : Raises(more[i], k) => k \in Pressed'
  BY <1>2, <1>3, <1>4 DEF Raises
<1> QED BY <1>1, <1>3, <1>4, <1>5, <1>6, Queued

(* The lock key is not tracked: its tap carries its own release.           *)
LEMMA EiSetLockStep ==
  ASSUME LibeiInv, NEW want \in BOOLEAN, EiSetLock(want) PROVE LibeiInv'
<1> DEFINE press == KeyCmd(EiCaps, TRUE, {})
           release == KeyCmd(EiCaps, FALSE, {})
           tap == <<press, release>>
           S == Edges \cup {Shutdown}
<1>1. /\ cmds' = cmds \o tap /\ UNCHANGED <<down, bound, offered>>
      /\ tracked' = [tracked EXCEPT !.caps = want]
  BY DEF EiSetLock, SideFrame, threadVars
<1>2. /\ press \in S /\ press.of = EiCaps
      /\ release \in S /\ release.of = EiCaps /\ release.kind = "key" /\ ~release.down
  BY DEF KeyCmd, Edges, Codes
<1> HIDE DEF press, release
<1>3. tap \in Seq(S) /\ DOMAIN tap = {1, 2} /\ tap[1] = press /\ tap[2] = release
  BY <1>2
<1>4. /\ tracked' \in [keys : SUBSET EiKeys, buttons : SUBSET EiButtons,
                       mods : SUBSET EiMods, caps : BOOLEAN]
      /\ Pressed' = Pressed
  BY <1>1 DEF LibeiInv, LibeiTypes, Pressed
<1> HIDE DEF tap
<1>5. ASSUME NEW i \in DOMAIN tap, NEW k \in Codes, Raises(tap[i], k)
      PROVE  \E j \in DOMAIN tap : j > i /\ Lowers(tap[j], k)
  <2>1. i = 1 /\ k = EiCaps
    BY <1>2, <1>3, <1>5 DEF Raises
  <2>2. 2 \in DOMAIN tap /\ 2 > i /\ Lowers(tap[2], k)
    BY <1>2, <1>3, <2>1 DEF Lowers
  <2> QED BY <2>2
<1> QED BY <1>1, <1>3, <1>4, <1>5, Queued

(* A set of at most one element, ...                                       *)
LEMMA AtMostOne ==
  ASSUME NEW T, IsFiniteSet(T), Cardinality(T) <= 1 PROVE T = {} \/ \E x : T = {x}
<1>1. Cardinality(T) = 0 \/ Cardinality(T) = 1
  BY FS_CardinalityType
<1> QED BY <1>1, FS_EmptySet, FS_Singleton

(* ... and a list as long as it has elements.                              *)
LEMMA RepeatedOnce ==
  ASSUME NEW e, NEW T, NEW x, T = {x} PROVE [n \in 1 .. Cardinality(T) |-> e] = <<e>>
<1>1. Cardinality(T) = 1
  BY FS_Singleton
<1>2. [n \in 1 .. 1 |-> e] = <<e>>
  OBVIOUS
<1> QED BY <1>1, <1>2

(* Of an empty set the list is empty.                                      *)
LEMMA RepeatedNever == ASSUME NEW e PROVE [n \in 1 .. Cardinality({}) |-> e] = <<>>
<1>1. Cardinality({}) = 0
  BY FS_EmptySet
<1>2. [n \in 1 .. 0 |-> e] = <<>>
  OBVIOUS
<1> QED BY <1>1, <1>2

(* A key's edge is queued behind the edge of the modifier that differs.    *)
LEMMA EiKeyStep ==
  ASSUME LibeiInv, NEW k \in EiKeys, NEW isDown \in BOOLEAN, NEW want \in SUBSET EiMods,
         EiKey(k, isDown, want)
  PROVE  LibeiInv'
<1> DEFINE S == Edges \cup {Shutdown}
           changed == { i \in EiMods : (i \in want) # (i \in tracked.mods) }
           m == CHOOSE i \in changed : TRUE
           edge == KeyCmd(m, m \in want, {})
           key == KeyCmd(k, isDown, want)
           before == [n \in 1 .. Cardinality(changed) |-> edge]
           more == before \o <<key>>
<1>1. /\ Cardinality(changed) <= 1 /\ cmds' = cmds \o before \o <<key>>
      /\ UNCHANGED <<down, bound, offered>>
      /\ tracked' = [tracked EXCEPT !.keys = IF isDown THEN @ \cup {k} ELSE @ \ {k}, !.mods = want]
  BY DEF EiKey, SideFrame, threadVars
<1>2. /\ IsFiniteSet(changed) /\ Cardinality(changed) \in Nat
      /\ changed = {} \/ (changed = {m} /\ m \in EiMods)
  <2>1. IsFiniteSet(changed) /\ Cardinality(changed) \in Nat
    BY LibeiAssumption, FS_Subset, FS_CardinalityType
  <2>2. changed = {} \/ \E x : changed = {x}
    BY <1>1, <2>1, AtMostOne
  <2>3. changed \subseteq EiMods
    OBVIOUS
  <2> HIDE DEF changed
  <2>4. ASSUME NEW x, changed = {x} PROVE m = x
    BY <2>4
  <2> HIDE DEF m
  <2>5. ASSUME NEW x, changed = {x} PROVE changed = {m} /\ m \in EiMods
    BY <2>3, <2>4, <2>5
  <2>6. changed = {} \/ (changed = {m} /\ m \in EiMods)
    BY <2>2, <2>5
  <2> QED BY <2>1, <2>6
<1>3. /\ key \in S /\ key.kind = "key" /\ key.of = k /\ key.down = isDown
  BY DEF KeyCmd, Edges, Codes
<1>4. ASSUME NEW c \in EiMods
      PROVE  /\ KeyCmd(c, c \in want, {}) \in S /\ KeyCmd(c, c \in want, {}).kind = "key"
             /\ KeyCmd(c, c \in want, {}).of = c
             /\ c \in want => KeyCmd(c, c \in want, {}).down
             /\ c \notin want => ~KeyCmd(c, c \in want, {}).down
  <2>1. CASE c \in want
    <3>1. (c \in want) = TRUE
      BY <2>1
    <3> QED BY <2>1, <3>1 DEF KeyCmd, Edges, Codes
  <2>2. CASE c \notin want
    <3>1. (c \in want) = FALSE
      BY <2>2
    <3> QED BY <2>2, <3>1 DEF KeyCmd, Edges, Codes
  <2> QED BY <2>1, <2>2
<1>5. /\ tracked' \in [keys : SUBSET EiKeys, buttons : SUBSET EiButtons,
                       mods : SUBSET EiMods, caps : BOOLEAN]
      /\ tracked'.mods = want /\ tracked'.buttons = tracked.buttons
      /\ tracked'.keys = IF isDown THEN tracked.keys \cup {k} ELSE tracked.keys \ {k}
  BY <1>1 DEF LibeiInv, LibeiTypes
<1>6. \A c \in Pressed : c \in Pressed' \/ (c = k /\ ~isDown) \/ (changed = {c} /\ c \notin want)
  BY <1>2, <1>5 DEF Pressed, LibeiInv, LibeiTypes
<1>7. (isDown => k \in Pressed') /\ (m \in want => m \in Pressed')
  BY <1>5 DEF Pressed
<1>8. before = [n \in 1 .. Cardinality(changed) |-> edge] /\ cmds \in Seq(S)
  BY DEF LibeiInv, LibeiTypes
<1>9. m \in EiMods => edge \in S /\ edge.kind = "key" /\ edge.of = m
                      /\ (m \in want => edge.down) /\ (m \notin want => ~edge.down)
  BY <1>4
<1> HIDE DEF key, edge, changed, m, before
<1>10. CASE changed = {}
  <2> DEFINE q == <<key>>
  <2>1. before = <<>>
    BY <1>8, <1>10, RepeatedNever
  <2>2. q \in Seq(S) /\ DOMAIN q = {1} /\ q[1] = key
    BY <1>3
  <2>3. cmds' = cmds \o q
    <3>1. cmds \o <<>> = cmds
      BY <1>8, ConcatEmptySeq
    <3> QED BY <1>1, <2>1, <3>1
  <2> HIDE DEF q
  <2>4. \A c \in Pressed : c \in Pressed' \/ \E j \in DOMAIN q : Lowers(q[j], c)
    BY <1>3, <1>6, <1>10, <2>2 DEF Lowers
  <2>5. \A i \in DOMAIN q, c \in Codes : Raises(q[i], c) => c \in Pressed'
    BY <1>3, <1>7, <2>2 DEF Raises
  <2> QED BY <1>1, <1>5, <2>2, <2>3, <2>4, <2>5, Queued
<1>11. CASE changed = {m} /\ m \in EiMods
  <2> DEFINE q == <<edge, key>>
  <2>1. before = <<edge>>
    BY <1>8, <1>11, RepeatedOnce
  <2>2. <<edge>> \in Seq(S) /\ <<key>> \in Seq(S) /\ q \in Seq(S)
    BY <1>3, <1>9, <1>11
  <2>3. cmds' = cmds \o (<<edge>> \o <<key>>)
    <3>1. cmds' = (cmds \o <<edge>>) \o <<key>>
      BY <1>1, <2>1
    <3> HIDE DEF S
    <3> QED BY <1>8, <2>2, <3>1, ConcatAssociative
  <2>4. cmds' = cmds \o q /\ DOMAIN q = {1, 2} /\ q[1] = edge /\ q[2] = key
    BY <2>3
  <2> HIDE DEF q
  <2>5. \A c \in Pressed : c \in Pressed' \/ \E j \in DOMAIN q : Lowers(q[j], c)
    BY <1>3, <1>6, <1>9, <1>11, <2>4 DEF Lowers
  <2>6. \A i \in DOMAIN q, c \in Codes : Raises(q[i], c) => c \in Pressed'
    BY <1>3, <1>7, <1>9, <1>11, <2>4 DEF Raises
  <2> QED BY <1>1, <1>5, <2>2, <2>4, <2>5, <2>6, Queued
<1> QED BY <1>2, <1>10, <1>11

(* Every step of the session thread, of the compositor and of the sink     *)
(* keeps the invariant, however many devices the compositor offers: one    *)
(* that takes the binding is new, so nothing is down at it.                *)
LEMMA LibeiStep == ASSUME LibeiInv, [LibeiNext]_libeiVars PROVE LibeiInv'
<1> USE DEF LibeiInv
<1> DEFINE S == Edges \cup {Shutdown}
           QueueKept == UNCHANGED <<cmds, tracked>>
<1>1. ASSUME UNCHANGED <<cmds, tracked, bound, offered, down>> PROVE LibeiInv'
  BY <1>1 DEF LibeiTypes, DownAtResumed, ReleasesFollow, Covered, Pressed
<1>2. CASE HandshakeProceeds \/ HandshakeStops \/ ThreadEnds
  BY <1>1, <1>2 DEF HandshakeProceeds, HandshakeStops, ThreadEnds
<1>3. ASSUME /\ QueueKept
             /\ bound' \in [device : Devices \cup {NoDevice}, emulating : BOOLEAN]
             /\ offered' \in [added : SUBSET Devices, resumed : SUBSET Devices]
             /\ down' \in [Devices -> SUBSET Codes]
             /\ \A d \in Devices : down'[d] \subseteq down[d]
             /\ \/ bound'.device \in {bound.device, NoDevice}
                \/ down'[bound'.device] = {}
             /\ DownAtResumed'
      PROVE  LibeiInv'
  <2>1. LibeiTypes'
    BY <1>3 DEF LibeiTypes
  <2>2. \A k, i : Covered(k, i) => Covered(k, i)'
    BY <1>3 DEF Covered, Pressed
  <2>3. ReleasesFollow'
    BY <1>3, <2>2, LibeiAssumption DEF ReleasesFollow
  <2> QED BY <1>3, <2>1, <2>3
<1>4. ASSUME NEW why \in {"shutdown", "cancel", "connection"}, LoopEnds(why) PROVE LibeiInv'
  <2>1. /\ bound' = [device |-> NoDevice, emulating |-> FALSE]
        /\ offered' = [added |-> {}, resumed |-> {}] /\ down' = Neutral /\ QueueKept
    BY <1>4 DEF LoopEnds
  <2>2. DownAtResumed'
    BY <2>1 DEF DownAtResumed, Neutral
  <2> QED BY <1>3, <2>1, <2>2 DEF Neutral
<1>5. CASE LoopCommand
  <2> DEFINE cmd == Head(cmds)
  <2>1. /\ cmds # <<>> /\ cmds' = Tail(cmds) /\ down' = Applied(cmd)
        /\ UNCHANGED <<bound, offered, tracked>>
    BY <1>5 DEF LoopCommand, threadVars
  <2>2. /\ cmds' \in Seq(S) /\ DOMAIN cmds = 1 .. Len(cmds) /\ DOMAIN cmds' = 1 .. Len(cmds) - 1
        /\ \A i \in DOMAIN cmds' : i + 1 \in DOMAIN cmds /\ cmds'[i] = cmds[i + 1]
        /\ 1 \in DOMAIN cmds /\ cmd = cmds[1] /\ Len(cmds) \in Nat /\ cmd \in S
    BY <2>1, HeadTailProperties, LenProperties DEF LibeiTypes
  <2>3. cmd.kind = "key" => cmd.of \in Codes
    BY <2>2 DEF Edges, Shutdown
  <2> HIDE DEF cmd
  <2>4. /\ down' \in [Devices -> SUBSET Codes]
        /\ \A d \in Devices : \A k \in down'[d] :
             k \in down[d] \/ (d = bound.device /\ bound.emulating /\ d \in Takers(k))
    <3>1. down \in [Devices -> SUBSET Codes]
      BY DEF LibeiTypes
    <3>2. CASE cmd.kind = "key" /\ bound.emulating /\ bound.device \in Takers(cmd.of)
      <4>1. down' = [down EXCEPT ![bound.device] =
                       IF cmd.down THEN @ \cup {cmd.of} ELSE @ \ {cmd.of}]
        BY <2>1, <3>2 DEF Applied
      <4> QED BY <2>3, <3>1, <3>2, <4>1
    <3>3. CASE ~(cmd.kind = "key" /\ bound.emulating /\ bound.device \in Takers(cmd.of))
      BY <2>1, <3>1, <3>3 DEF Applied
    <3> QED BY <3>2, <3>3
  <2>5. LibeiTypes'
    BY <2>1, <2>2, <2>4 DEF LibeiTypes
  <2>6. DownAtResumed'
    BY <2>1, <2>4 DEF DownAtResumed, Takers
  <2>7. ASSUME NEW k, NEW i \in Nat, Covered(k, i + 1) PROVE Covered(k, i)'
    <3>1. CASE k \in Pressed
      BY <2>1, <3>1 DEF Covered, Pressed
    <3>2. ASSUME NEW j \in DOMAIN cmds, j > i + 1, Lowers(cmds[j], k) PROVE Covered(k, i)'
      <4>1. j - 1 \in DOMAIN cmds' /\ j - 1 > i /\ cmds'[j - 1] = cmds[j]
        <5>1. j \in Nat /\ j - 1 \in 1 .. Len(cmds) - 1 /\ (j - 1) + 1 = j
          BY <2>2, <3>2
        <5> QED BY <2>2, <3>2, <5>1
      <4> QED BY <3>2, <4>1 DEF Covered
    <3> QED BY <2>7, <3>1, <3>2 DEF Covered
  <2>8. ASSUME NEW i \in DOMAIN cmds', NEW k \in Codes, Raises(cmds'[i], k) PROVE Covered(k, i)'
    <3>1. i \in Nat /\ i + 1 \in DOMAIN cmds /\ Raises(cmds[i + 1], k)
      BY <2>2, <2>8
    <3>2. Covered(k, i + 1)
      BY <3>1 DEF ReleasesFollow
    <3> QED BY <2>7, <3>1, <3>2
  <2>9. ASSUME NEW d \in Devices, d = bound.device, NEW k \in down'[d] PROVE Covered(k, 0)'
    <3>1. k \in Codes
      BY <2>4
    <3>2. CASE Raises(cmd, k)
      <4>1. Covered(k, 1)
        BY <2>2, <3>1, <3>2 DEF ReleasesFollow
      <4> QED BY <2>7, <4>1
    <3>3. CASE ~Raises(cmd, k)
      <4>1. k \in down[d]
        BY <2>1, <2>9, <3>3 DEF Applied, Raises, LibeiTypes
      <4>2. bound.emulating /\ d \in Takers(k)
        BY <2>9, <4>1 DEF DownAtResumed
      <4>5. ~Lowers(cmd, k)
        BY <2>1, <2>9, <4>2 DEF Applied, Lowers, LibeiTypes
      <4>3. Covered(k, 0)
        BY <2>9, <4>1 DEF ReleasesFollow
      <4>4. Covered(k, 1)
        <5>1. CASE k \in Pressed
          BY <5>1 DEF Covered
        <5>2. ASSUME NEW j \in DOMAIN cmds, Lowers(cmds[j], k) PROVE j > 1
          BY <2>2, <4>5, <5>2
        <5> QED BY <4>3, <5>1, <5>2 DEF Covered
      <4> QED BY <2>7, <4>4
    <3> QED BY <3>2, <3>3
  <2> QED BY <2>1, <2>5, <2>6, <2>8, <2>9 DEF ReleasesFollow
<1>6. ASSUME NEW d \in Devices, DeviceAdded(d) PROVE LibeiInv'
  <2>1. /\ d \notin offered.added /\ offered' = [offered EXCEPT !.added = @ \cup {d}]
        /\ bound' = [device |-> d, emulating |-> FALSE] /\ down' = down /\ QueueKept
    BY <1>6 DEF DeviceAdded, EventFrame
  <2>2. down'[d] = {}
    BY <2>1 DEF DownAtResumed
  <2>3. DownAtResumed'
    BY <2>1 DEF DownAtResumed, LibeiTypes, Takers
  <2>4. offered' \in [added : SUBSET Devices, resumed : SUBSET Devices]
    BY <2>1 DEF LibeiTypes
  <2> QED BY <1>3, <2>1, <2>2, <2>3, <2>4 DEF LibeiTypes
<1>7. ASSUME NEW d \in Devices, DeviceResumed(d) PROVE LibeiInv'
  <2>1. /\ d \in offered.added /\ offered' = [offered EXCEPT !.resumed = @ \cup {d}]
        /\ bound' \in {bound, [bound EXCEPT !.emulating = TRUE]} /\ down' = down /\ QueueKept
        /\ bound' # bound => bound.device = d
        /\ bound.device = d => bound.emulating \/ bound' = [bound EXCEPT !.emulating = TRUE]
    BY <1>7 DEF DeviceResumed, EventFrame
  <2>2. offered' \in [added : SUBSET Devices, resumed : SUBSET Devices]
        /\ offered'.added = offered.added /\ offered'.resumed = offered.resumed \cup {d}
    BY <2>1 DEF LibeiTypes
  <2>3. bound' \in [device : Devices \cup {NoDevice}, emulating : BOOLEAN]
        /\ bound'.device = bound.device /\ (bound.emulating => bound'.emulating)
    BY <2>1 DEF LibeiTypes
  <2>4. DownAtResumed'
    BY <2>1, <2>2, <2>3 DEF DownAtResumed, Takers, LibeiTypes
  <2> QED BY <1>3, <2>1, <2>2, <2>3, <2>4 DEF LibeiTypes
<1>8. ASSUME NEW d \in Devices, DevicePaused(d) \/ DeviceRemoved(d) PROVE LibeiInv'
  <2>1. /\ down' = [down EXCEPT ![d] = {}] /\ QueueKept
    BY <1>8 DEF DevicePaused, DeviceRemoved, EventFrame
  <2>2. /\ offered' \in [added : SUBSET Devices, resumed : SUBSET Devices]
        /\ offered'.resumed = offered.resumed \ {d} /\ offered'.resumed \subseteq offered'.added
    BY <1>8 DEF DevicePaused, DeviceRemoved, LibeiTypes, DownAtResumed
  <2>3. /\ bound' \in [device : Devices \cup {NoDevice}, emulating : BOOLEAN]
        /\ bound'.device \in {bound.device, NoDevice}
        /\ bound'.emulating => bound.emulating /\ bound'.device = bound.device /\ bound.device # d
        /\ bound.device # d => bound' = bound
    <3>1. CASE bound.device = d
      <4>1. \/ bound' = [bound EXCEPT !.emulating = FALSE]
            \/ bound' = [device |-> NoDevice, emulating |-> FALSE]
        BY <1>8, <3>1 DEF DevicePaused, DeviceRemoved
      <4>2. CASE bound' = [bound EXCEPT !.emulating = FALSE]
        BY <3>1, <4>2 DEF LibeiTypes
      <4>3. CASE bound' = [device |-> NoDevice, emulating |-> FALSE]
        BY <3>1, <4>3
      <4> QED BY <4>1, <4>2, <4>3
    <3>2. CASE bound.device # d
      BY <1>8, <3>2 DEF DevicePaused, DeviceRemoved, LibeiTypes
    <3> QED BY <3>1, <3>2
  <2>4. /\ down' \in [Devices -> SUBSET Codes] /\ down'[d] = {}
        /\ \A e \in Devices : e # d => down'[e] = down[e]
    BY <2>1 DEF LibeiTypes
  <2>5. DownAtResumed'
    <3>1. bound'.device \in offered'.resumed => bound'.device # d /\ bound' = bound
      BY <2>2, <2>3, LibeiAssumption
    <3> QED BY <2>2, <2>3, <2>4, <3>1 DEF DownAtResumed, Takers
  <2> QED BY <1>3, <2>1, <2>2, <2>3, <2>4, <2>5
<1>9. CASE Disconnected
  <2>1. /\ bound' = [device |-> NoDevice, emulating |-> FALSE]
        /\ offered' = [added |-> {}, resumed |-> {}] /\ down' = Neutral /\ QueueKept
    BY <1>9 DEF Disconnected, EventFrame
  <2>2. DownAtResumed'
    BY <2>1 DEF DownAtResumed, Neutral
  <2> QED BY <1>3, <2>1, <2>2 DEF Neutral
<1>10. ASSUME NEW k \in EiKeys, NEW isDown \in BOOLEAN, NEW want \in SUBSET EiMods,
              EiKey(k, isDown, want)
       PROVE  LibeiInv'
  BY EiKeyStep, <1>10
<1>11. ASSUME NEW b \in EiButtons, NEW isDown \in BOOLEAN, EiButton(b, isDown) PROVE LibeiInv'
  BY EiButtonStep, <1>11
<1>12. ASSUME NEW want \in BOOLEAN, EiSetLock(want) PROVE LibeiInv'
  BY EiSetLockStep, <1>12
<1>13. CASE EiReleaseAll
  <2>1. /\ cmds' = cmds \o EiReleases /\ tracked' = NoneHeld /\ UNCHANGED <<down, bound, offered>>
    BY <1>13 DEF EiReleaseAll, SideFrame, threadVars
  <2>2. EiReleases \in Seq(Edges) /\ Edges \subseteq S
    BY PressedFinite, UpsOf DEF EiReleases
  <2>3. cmds \in Seq(S) /\ EiReleases \in Seq(S)
    BY <2>2, SeqMonotonic DEF LibeiTypes
  <2>4. cmds \o EiReleases \in Seq(S)
    BY <2>3, ConcatProperties
  <2>5. cmds' = cmds \o EiReleases \o <<>>
    BY <2>1, <2>4, ConcatEmptySeq
  <2> QED BY <2>1, <2>5, ReleasesQueued
<1>14. CASE DropSink \/ \E b \in {"libei", "uinput", "x11"} : Probed(b)
  <2>1. UNCHANGED <<down, bound, offered>> /\ (Drops \/ QueueKept)
    BY <1>14 DEF DropSink, Probed, SideFrame, threadVars
  <2>2. CASE QueueKept
    BY <1>1, <2>1, <2>2
  <2>3. CASE Drops
    BY <2>1, <2>3, ReleasesQueued DEF Drops
  <2> QED BY <2>1, <2>2, <2>3
<1>15. CASE UNCHANGED libeiVars
  BY <1>1, <1>15 DEF libeiVars, threadVars
<1> QED
  BY <1>2, <1>4, <1>5, <1>6, <1>7, <1>8, <1>9, <1>10, <1>11, <1>12, <1>13, <1>14, <1>15
  DEF LibeiNext, LibeiThread

-------------------------------------------------------------------------------
(* A step of MCDevices is a step of one part, or leaves a part as it is.   *)
LEMMA StepOfOnePart ==
  [Next]_vars => [ScreenNext]_screenVars /\ [CaptureNext]_captureVars /\ [AudioNext]_audioVars
BY DEF Next, vars, Libei, Capture, Audio, Camera, Stats, Screen, Page

(* Nothing that was told to stop is left on: no capture session that no    *)
(* share owns, whatever starts, rebuilds and stops failed (start and stop  *)
(* of ras-media-scap and ras-media-sck), no device after its stop() and    *)
(* never two of them (ras-audio, ras-camera) but for a macOS stream whose  *)
(* end or start was given up, no microphone after join_audio; for any      *)
(* number of shares, starts and lost streams.                              *)
THEOREM NothingIsLeftOn == Spec => []NothingLeftOn
<1> DEFINE Inv == ScreenInv /\ CaptureInv /\ SoundInv
<1>1. Init => Inv
  BY ScreenInitial, CaptureInitial, SoundInitial DEF Init
<1>2. Inv /\ [Next]_vars => Inv'
  BY StepOfOnePart, ScreenStep, CaptureStep, SoundStep
<1>3. Inv => NothingLeftOn
  BY ScreenGood, CaptureGood DEF NothingLeftOn, SoundInv, SoundIsOff
<1> QED BY <1>1, <1>2, <1>3, PTL DEF Spec

(* A reader gets what is of now: no sample of an earlier start is played   *)
(* after a restart, but what a macOS stream that was given up still puts   *)
(* into the slot, and the newest picture of ScreenCaptureKit is shown or   *)
(* waits.                                                                  *)
THEOREM ReadersAreCurrent == Spec => []ReadsAreCurrent
<1> DEFINE Inv == ScreenInv /\ CaptureInv
<1>1. Init => Inv
  BY ScreenInitial, CaptureInitial DEF Init
<1>2. Inv /\ [Next]_vars => Inv'
  BY StepOfOnePart, ScreenStep, CaptureStep
<1>3. Inv => ReadsAreCurrent
  BY ScreenGood, CaptureGood DEF ReadsAreCurrent
<1> QED BY <1>1, <1>2, <1>3, PTL DEF Spec

(* What is down at the bound device the libei sink still tracks, or its    *)
(* release is queued (key, pointer_button, set_lock_state and release_all  *)
(* of libei.rs, apply_cmd, the pause, removal and replacement of a         *)
(* device): for any devices, keys, commands and events.                    *)
THEOREM HeldIsTracked == Spec => []BoundIsTracked
<1>1. Init => LibeiInv
  BY LibeiInitial DEF Init
<1>2. LibeiInv /\ [Next]_vars => LibeiInv'
  <2>1. [Next]_vars => [LibeiNext]_libeiVars
    BY DEF Next, vars, Libei, Capture, Audio, Camera, Stats, Screen, Page
  <2> QED BY <2>1, LibeiStep
<1>3. LibeiInv => BoundIsTracked
  BY DEF LibeiInv, ReleasesFollow, Covered, Lowers, BoundIsTracked, Liftable
<1> QED BY <1>1, <1>2, <1>3, PTL DEF Spec
=============================================================================
