----------------------------- MODULE MediaPump -----------------------------
(***************************************************************************)
(* The host's media thread and the loop that steers it.  Every second      *)
(* host_stats_loop turns the path's health into a bitrate and a layer      *)
(* ceiling and leaves them in atomics; requests for a key frame are left   *)
(* in a flag; media_pump picks all three up between two pictures and       *)
(* drives the encoder.  Sending, loss and the numbering of frames are in   *)
(* VideoPath, capture in ScreenCapture.                                    *)
(***************************************************************************)
EXTENDS Encoders

CONSTANTS Floor,       \* bounds of the bitrate of the session
          Ceiling,
          Codecs,      \* subset of Kinds
          Sizes,       \* dimensions a picture can have
          Bandwidths,  \* estimates the path reports
          Losses       \* loss it reports, per cent

ASSUME AbrAssumption == Floor \in Nat \ {0} /\ Ceiling \in Nat /\ Floor <= Ceiling

ASSUME PumpAssumption ==
  /\ Codecs \subseteq Kinds /\ NoSize \notin Sizes
  /\ Bandwidths \subseteq Nat /\ Losses \subseteq Nat

(* LatencyFirstAbr: what one tick makes of the bitrate, the path's         *)
(* estimated bandwidth and its loss in per cent.  f32 and f64 rounding is  *)
(* left out.                                                               *)
NoCeiling == 255  \* NO_TEMPORAL_LAYER_CEILING

Least(x, y) == IF x < y THEN x ELSE y
Most(x, y) == IF x < y THEN y ELSE x

(* A tenth of the ceiling a tick, one at least.                             *)
Step == Most(Ceiling \div 10, 1)

(* Nine tenths of what the path delivers, within the session's bounds.      *)
TickCeiling(bandwidth) == Most(Least(Ceiling, (bandwidth * 9) \div 10), Floor)

Within(b, top) == Most(Floor, Least(b, top))

Rate(current, bandwidth, loss) ==
  Within(IF loss > 2 THEN (current * 8) \div 10 ELSE current + Step, TickCeiling(bandwidth))

(* The highest temporal layer worth sending.                                *)
Layer(bandwidth, loss) ==
  LET top == TickCeiling(bandwidth) * 100
  IN IF loss > 8 \/ top < 35 * Ceiling THEN 0
     ELSE IF top < 65 * Ceiling THEN 1 ELSE NoCeiling
-----------------------------------------------------------------------------
VARIABLES
  abr,        \* current_bps
  wide,       \* history: the last sample left room for the whole bitrate
  target,     \* target_bitrate
  wantLayer,  \* max_temporal_layer
  keyFlag,    \* keyframe
  encoder,
  applied,    \* applied_bitrate and applied_layer_ceiling
  published,  \* dimensions in current_config
  over,       \* the pump has returned
  forwarded,  \* the last frame forwarded: its size, key, place in the group
  misset      \* history: a configure has failed

pumpVars == <<abr, wide, target, wantLayer, keyFlag, encoder, applied, published,
              over, forwarded, misset>>

NoFrameYet == [size |-> NoSize, key |-> TRUE, place |-> 0]
Decoded(l) == IF l = NoCeiling THEN TopLayer ELSE l

PumpInit ==
  \E k \in Codecs, s \in Sizes :
    /\ abr = Ceiling /\ wide = FALSE
    /\ target = Ceiling /\ wantLayer = NoCeiling /\ keyFlag = FALSE
    /\ encoder = Configured([kind |-> k, size |-> s, built |-> NoSize, bitrate |-> Ceiling,
                             rate |-> 0, force |-> TRUE, pos |-> 0, lib |-> 0], s)
    /\ applied = [bitrate |-> Ceiling, layer |-> NoCeiling]
    /\ published = s /\ over = FALSE /\ forwarded = NoFrameYet /\ misset = FALSE
-----------------------------------------------------------------------------
(* host_stats_loop: a tick with the decoder's request for a key frame, if   *)
(* its feedback carried one.                                                *)
StatsTick(b, l, request) ==
  /\ wide' = (TickCeiling(b) = Ceiling /\ l <= 2)
  /\ abr' = Rate(abr, b, l) /\ target' = abr' /\ wantLayer' = Layer(b, l)
  /\ keyFlag' = (keyFlag \/ request)
  /\ UNCHANGED <<encoder, applied, published, over, forwarded, misset>>

(* media_pump, the top of a turn: the targets of the moment are applied,    *)
(* then a key frame is asked for.  The layer is noted here and goes no      *)
(* further than PlatformEncoder, which inherits the empty default of        *)
(* set_max_temporal_layer.  A bitrate that could not be set is tried again  *)
(* on the next turn.                                                        *)
NewTarget == target # 0 /\ target # applied.bitrate

Steered(paced, bitrate) ==
  /\ encoder' = IF keyFlag THEN Requested(paced) ELSE paced
  /\ applied' = [bitrate |-> bitrate, layer |-> wantLayer]
  /\ keyFlag' = FALSE
  /\ UNCHANGED <<abr, wide, target, wantLayer, published, over, forwarded, misset>>

Steer ==
  /\ ~over
  /\ IF NewTarget THEN Retargets(encoder) /\ Steered(Retargeted(encoder, target), target)
     ELSE Steered(encoder, applied.bitrate)

SteerFails ==
  /\ ~over /\ NewTarget
  /\ \E e \in RetargetFailures(encoder, target) : Steered(e, applied.bitrate)

(* A picture of the configured size is encoded: a frame or nothing (the     *)
(* codec saw no change, or dropped it).  A key frame that was asked for     *)
(* always comes out of libvpx and OpenH264.                                 *)
Encodes(e, s, out) ==
  LET ready == Ready(e, s)  key == IsKey(e, s)
  IN /\ encoder' = Submitted(ready, out)
     /\ IF out THEN forwarded' = [size |-> s, key |-> key, place |-> ready.lib]
        ELSE (key => e.kind = "vt") /\ UNCHANGED forwarded

Picture(s, out) ==
  /\ ~over /\ s = encoder.size /\ (encoder.kind = "vt" => encoder.built # NoSize)
  /\ Encodes(encoder, s, out)
  /\ UNCHANGED <<abr, wide, target, wantLayer, keyFlag, applied, published, over, misset>>

(* A picture of another size: the encoder is configured for it, and a key   *)
(* frame asked for on top.                                                  *)
Reconfigured(e, s) == Requested(Configured(e, s))

Resized(s, out) ==
  /\ ~over /\ s # encoder.size
  /\ Encodes(Reconfigured(encoder, s), s, out)
  /\ applied' = [applied EXCEPT !.bitrate = encoder.bitrate]
  /\ published' = s
  /\ UNCHANGED <<abr, wide, target, wantLayer, keyFlag, over, misset>>

(* The configure fails: the pump goes on with what is left of the encoder.  *)
ResizeFails(s, out) ==
  /\ ~over /\ s # encoder.size /\ misset' = TRUE
  /\ \E e \in ConfigureFailures(encoder, s) :
       /\ e.built # NoSize /\ Encodes(e, s, out)
       /\ UNCHANGED <<abr, wide, target, wantLayer, keyFlag, applied, published, over>>

(* An encoder's error is fatal, and so is a session given up: the pump      *)
(* returns.                                                                 *)
EncodeFails ==
  /\ ~over /\ over' = TRUE
  /\ UNCHANGED <<abr, wide, target, wantLayer, keyFlag, encoder, applied, published,
                 forwarded, misset>>

PumpNext ==
  \/ \E b \in Bandwidths, l \in Losses, r \in BOOLEAN : StatsTick(b, l, r)
  \/ Steer \/ SteerFails \/ EncodeFails
  \/ \E s \in Sizes, o \in BOOLEAN : Picture(s, o) \/ Resized(s, o) \/ ResizeFails(s, o)

(* The loop ticks.                                                          *)
PumpFairness == WF_pumpVars(\E b \in Bandwidths, l \in Losses, r \in BOOLEAN : StatsTick(b, l, r))

PumpSpec == PumpInit /\ [][PumpNext]_pumpVars /\ PumpFairness
-----------------------------------------------------------------------------
PumpTypeOK ==
  /\ abr \in Floor .. Ceiling /\ target \in Floor .. Ceiling
  /\ wantLayer \in {0, 1, NoCeiling} /\ keyFlag \in BOOLEAN /\ wide \in BOOLEAN /\ over \in BOOLEAN
  /\ encoder.kind \in Codecs /\ encoder.size \in Sizes /\ encoder.built \in Sizes \cup {NoSize}
  /\ encoder.pos \in 0 .. 3 /\ encoder.lib \in 0 .. 3
  /\ encoder.rate \in 0 .. Ceiling + LowRate /\ published \in Sizes
  /\ forwarded.size \in Sizes \cup {NoSize} /\ forwarded.place \in 0 .. 3 /\ misset \in BOOLEAN

(* The layer VpxEncoder takes a frame for is the layer libvpx gave it: the  *)
(* two counts of the group of pictures agree over frames that come out as   *)
(* nothing, over key frames and over every rebuild (ras-media-vpx           *)
(* lib.rs:745).                                                             *)
LayersInStep ==
  encoder.kind = "vp9" /\ encoder.built # NoSize => encoder.pos = encoder.lib

(* The pump's bookkeeping and the codec agree: a target it takes for        *)
(* applied is the one the live codec runs at, across every rebuild.         *)
RateFollows ==
  ~over /\ encoder.built # NoSize /\ applied.bitrate = target /\ ~misset =>
    encoder.rate = Clamp(encoder.kind, target)

(* "no P-frame at new dimensions reaches the decoder": the first frame of   *)
(* another size is a key frame, and the size a later viewer is told is the  *)
(* size of the pictures.                                                    *)
NewSizeStartsAfresh ==
  [][forwarded' # forwarded =>
       /\ forwarded'.size # forwarded.size => forwarded'.key
       /\ ~misset' => published' = forwarded'.size]_pumpVars

(* A path that stays wide and clean gets the whole bitrate back.            *)
RateRecovers == <>[]wide => []<>(abr = Ceiling)

(* The layers' bitrates ascend to the total and the base layer is never     *)
(* starved while there are 20 kbit/s.                                       *)
LadderAscends == encoder.kind = "vp9" =>
  \A total \in 1 .. 120 :
    LET r == LayerRates(total)
    IN r[1] <= r[2] /\ r[2] <= r[3] /\ r[3] = total /\ (total >= 20 => r[1] >= 20)
-----------------------------------------------------------------------------
(* What comments of the code say and the code does not do.                  *)

(* "a no-op on any encoder without real temporal-SVC support" (session.rs   *)
(* :1133), "only a backend with real temporal-SVC support (VP9) overrides   *)
(* it" (ras-media lib.rs:562): a VP9 frame above the layer the pump applied *)
(* is not sent.                                                             *)
LayersAreShed ==
  [][forwarded' # forwarded /\ encoder.kind = "vp9" /\ ~forwarded'.key =>
       TemporalLayer(forwarded'.place) <= Decoded(applied.layer)]_pumpVars

(* "a re-serve after this resolution change re-announces the CURRENT        *)
(* dimensions, not the stale originals"                                     *)
PublishedIsCurrent == [][forwarded' # forwarded => published' = forwarded'.size]_pumpVars
=============================================================================
