------------------------------ MODULE Encoders ------------------------------
(***************************************************************************)
(* The three video encoders behind VideoEncoderBackend: libvpx (VP9 with   *)
(* temporal layers, VP8 without), OpenH264 and VideoToolbox.  An encoder   *)
(* is a record, and this module says what each of its calls makes of it:   *)
(*   kind     "vp9", "vp8", "h264" or "vt"                                 *)
(*   size     dimensions in its StreamConfig                               *)
(*   built    dimensions the live codec was made for, NoSize when none is  *)
(*   bitrate  target_bitrate_bps in its StreamConfig                       *)
(*   rate     what the live codec was told                                 *)
(*   force    force_idr; first or force_keyframe for VideoToolbox          *)
(*   pos      svc_gop_pos                                                  *)
(*   lib      the codec's own place: libvpx's in its pattern; of the other *)
(*            two, whether anything came out yet                           *)
(* Pixels are left out: conversion, cropping to even dimensions, parameter *)
(* sets; and the ceiling VpxEncoder can put on the layers it forwards,     *)
(* which PlatformEncoder passes on to no encoder.                          *)
(***************************************************************************)
EXTENDS Naturals, Sequences

CONSTANTS NoSize, LowRate, HighRate

ASSUME EncoderAssumption == LowRate \in Nat \ {0} /\ HighRate \in Nat /\ LowRate <= HighRate

Kinds == {"vp9", "vp8", "h264", "vt"}
TopLayer == 2

(* VideoToolbox clamps, OpenH264 takes at least one bit per second, libvpx  *)
(* at least one kilobit.                                                    *)
Clamp(kind, b) ==
  IF kind = "vt" THEN (IF b < LowRate THEN LowRate ELSE IF b > HighRate THEN HighRate ELSE b)
  ELSE IF b = 0 THEN 1 ELSE b

(* The first frame of a group is the base layer, whoever counts.            *)
FreshGop(e) == [e EXCEPT !.pos = 0, !.lib = 0]

(* A live codec is made: at once by OpenH264 and VideoToolbox, with the     *)
(* first picture by libvpx.                                                 *)
Built(e, s) == [FreshGop(e) EXCEPT !.built = s, !.rate = Clamp(e.kind, e.bitrate)]

VpxConfigured(e) == FreshGop(e)
H264Configured(e, s) == Built(e, s)
VtConfigured(e, s) == [Built(e, s) EXCEPT !.bitrate = Clamp("vt", e.bitrate)]

Configured(e, s) ==
  LET asked == [e EXCEPT !.size = s, !.force = TRUE, !.built = NoSize, !.rate = 0]
  IN CASE e.kind \in {"vp9", "vp8"} -> VpxConfigured(asked)
       [] e.kind = "h264" -> H264Configured(asked, s)
       [] e.kind = "vt" -> VtConfigured(asked, s)

(* configure fails.  OpenH264 has stored the config and keeps the codec it  *)
(* had, which starts afresh at other dimensions; VideoToolbox has given its *)
(* session up, or keeps one that took only some of its properties.          *)
ConfigureFailures(e, s) ==
  CASE e.kind \in {"vp9", "vp8"} -> {}
    [] e.kind = "h264" -> {[e EXCEPT !.size = s, !.lib = 0]}
    [] e.kind = "vt" -> {[e EXCEPT !.built = NoSize],
                         [Built(e, s) EXCEPT !.size = s, !.force = TRUE]}

Requested(e) == [e EXCEPT !.force = TRUE]

(* set_bitrate: the live codec is retargeted without a key frame; the       *)
(* config keeps what it was told, or what VideoToolbox made of it.          *)
Live(e, b) == IF e.built = NoSize THEN 0 ELSE Clamp(e.kind, b)
VpxRetargeted(e, b) == [e EXCEPT !.bitrate = b, !.rate = Live(e, b)]
H264Retargeted(e, b) == [e EXCEPT !.bitrate = Clamp("h264", b), !.rate = Live(e, b)]
VtRetargeted(e, b) == [e EXCEPT !.bitrate = Clamp("vt", b), !.rate = Clamp("vt", b)]

Retargeted(e, b) ==
  CASE e.kind \in {"vp9", "vp8"} -> VpxRetargeted(e, b)
    [] e.kind = "h264" -> H264Retargeted(e, b)
    [] e.kind = "vt" -> VtRetargeted(e, b)

(* It fails: the live codec runs on at the rate it had.  libvpx and         *)
(* OpenH264 have stored the new one; VideoToolbox, which fails whenever     *)
(* there is no session, has stored nothing.                                 *)
RetargetFailures(e, b) ==
  CASE e.kind \in {"vp9", "vp8"} -> IF e.built = NoSize THEN {} ELSE {[e EXCEPT !.bitrate = b]}
    [] e.kind = "h264" ->
         IF e.built = NoSize THEN {} ELSE {[e EXCEPT !.bitrate = Clamp("h264", b)]}
    [] e.kind = "vt" -> {e}
Retargets(e) == e.kind = "vt" => e.built # NoSize

-----------------------------------------------------------------------------
(* temporal_layer_for_frame_index, pattern 0212.                            *)
TemporalLayer(pos) == <<0, 2, 1, 2>>[pos + 1]

(* The codec an encode call works with: libvpx builds it for the picture it *)
(* is given; OpenH264 when there is none yet.                               *)
Ready(e, s) ==
  IF \/ e.kind \in {"vp9", "vp8"} /\ e.built # s
     \/ e.kind = "h264" /\ e.built = NoSize
  THEN Built(e, s) ELSE e

(* Whether the picture comes out as a key frame.                            *)
IsKey(e, s) == e.force \/ (IF e.kind \in {"vp9", "vp8"} THEN e.built # s ELSE e.lib = 0)

(* The place in the group is taken by every picture submitted to libvpx,    *)
(* whether or not anything comes out; the other two count nothing, and      *)
(* start with a key frame.                                                  *)
VpxSubmitted_OnOutput(e, out) ==
  [e EXCEPT !.force = FALSE, !.lib = (@ + 1) % 4, !.pos = IF out THEN (@ + 1) % 4 ELSE @]
VpxSubmitted(e) == [e EXCEPT !.force = FALSE, !.lib = (@ + 1) % 4, !.pos = (@ + 1) % 4]
H264Submitted(e, out) == [e EXCEPT !.force = FALSE, !.lib = IF out THEN 1 ELSE @]
VtSubmitted(e, out) == [e EXCEPT !.force = FALSE, !.lib = IF out THEN 1 ELSE @]

Submitted_OnOutput(e, out) ==
  IF e.kind = "vp9" THEN VpxSubmitted_OnOutput(e, out) ELSE VtSubmitted(e, out)
Submitted(e, out) ==
  CASE e.kind = "vp9" -> VpxSubmitted(e)
    [] e.kind = "vp8" -> [e EXCEPT !.force = FALSE]
    [] e.kind = "h264" -> H264Submitted(e, out)
    [] e.kind = "vt" -> VtSubmitted(e, out)

-----------------------------------------------------------------------------
(* How the total is split over the layers: each entry what that layer and   *)
(* the ones below it may take.                                              *)
AtLeast(x, y) == IF x < y THEN y ELSE x
AtMost(x, y) == IF x < y THEN x ELSE y
LayerRates(total) ==
  LET base == AtLeast((total * 40) \div 100, AtMost(20, total))
  IN <<base, AtLeast((total * 60) \div 100, base), total>>
=============================================================================
