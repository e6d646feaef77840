----------------------------- MODULE MCKeepers -----------------------------
(***************************************************************************)
(* The parts whose correctness is a matter of what they remember, checked  *)
(* for safety side by side: they do not act on one another, so a behaviour *)
(* is a behaviour of one of them, chosen at the start, while the others    *)
(* stay in an initial state.                                               *)
(***************************************************************************)
EXTENDS RemoteInput, AudioPlayer, CursorCache, MediaPump, Signal

CONSTANTS ka, kr, left

VARIABLE part
Parts == {"sink", "remote", "player", "cursor", "pump", "signal"}

vars == <<part, remoteVars, playerVars, cursorVars, pumpVars, signalVars>>

Init ==
  /\ part \in Parts
  /\ RemoteInit /\ PlayerInit /\ CursorInit /\ PumpInit /\ SignalInit
  /\ part # "sink" => backend = "x11"
  /\ part # "cursor" => observer = "x11" /\ place = CHOOSE p \in Places : TRUE
  /\ part # "pump" => encoder.kind = "h264" /\ published = CHOOSE s \in Sizes : TRUE

(* The back ends by themselves: one plain key and two modifiers are enough. *)
Few == sink'.mods \subseteq 1 .. 2 /\ sink'.keys \cap { Code(u) : u \in {kr} \cup (Mods \ 1 .. 2) } = {}
       /\ os'.down \cap { Code(u) : u \in {kr} \cup (Mods \ 1 .. 2) } = {}

Sink == part = "sink" /\ SinkNext /\ Few
        /\ UNCHANGED <<viewerVars, fsmVars, requests, hostSideVars, viewerLease, wire, events, unseen,
                       mistyped>>
        /\ UNCHANGED <<part, playerVars, cursorVars, pumpVars, signalVars>>
(* No edge fails on the whole way.                                         *)
Remote == part = "remote" /\ RemoteNext /\ failures' = failures
          /\ UNCHANGED <<part, playerVars, cursorVars, pumpVars, signalVars>>
Player == part = "player" /\ PlayerNext /\ UNCHANGED <<part, remoteVars, cursorVars, pumpVars, signalVars>>
Cursor == part = "cursor" /\ CursorNext /\ UNCHANGED <<part, remoteVars, playerVars, pumpVars, signalVars>>
MediaThread == part = "pump" /\ PumpNext /\ UNCHANGED <<part, remoteVars, playerVars, cursorVars, signalVars>>
Signalling == part = "signal" /\ SignalNext
              /\ UNCHANGED <<part, remoteVars, playerVars, cursorVars, pumpVars>>

Next == Sink \/ Remote \/ Player \/ Cursor \/ MediaThread \/ Signalling

Spec == Init /\ [][Next]_vars

(* DownWithoutLease, of the back ends behind the lease; on their own they   *)
(* know of none.                                                            *)
LeaselessIsUp == part = "remote" => DownWithoutLease

(* What is down on the host can be released, by the viewer that pressed it  *)
(* and by the back end, and is released with the lease, but for one action  *)
(* that was authorised before its end and dispatched after the flush.       *)
InputIsReleased == SafeToRelease /\ DownIsFlushable /\ LeaselessIsUp

(* The viewer is served what the host sent: the shape of the last cursor    *)
(* report, and sound packets of the format the decoder was made for.        *)
ViewerFollows == DrawsTheReport /\ DecoderFitsPackets

(* What leaves the encoder starts afresh at another size, has the rate it   *)
(* was told and the layer it is taken for; the layers' rates ascend.        *)
StreamStaysGood == /\ NewSizeStartsAfresh
                   /\ [](RateFollows /\ LayersInStep) /\ LadderAscends
=============================================================================
