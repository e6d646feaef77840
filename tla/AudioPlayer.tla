----------------------------- MODULE AudioPlayer -----------------------------
(***************************************************************************)
(* audio.js, the webview's player of shared sound.  A packet brings its    *)
(* format; a new format closes the decoder and asks the engine, in a       *)
(* promise, whether it can decode it.  The answer, the decoder's outputs   *)
(* and errors and the resume of the AudioContext come back later, whatever *)
(* happened in between; reset() ends a session and the next one starts     *)
(* with the same player.                                                   *)
(***************************************************************************)
EXTENDS Naturals, FiniteSets

CONSTANTS SoundFormats,   \* sample rate and channels of a packet
          NoFormat,
          Decodable,      \* the formats this engine decodes
          MaxRetries,     \* MAX_AUDIO_RETRIES
          MaxSessions,    \* sessions played, resets in between
          MaxProbes       \* probes asked

ASSUME PlayerAssumption ==
  /\ NoFormat \notin SoundFormats /\ Decodable \subseteq SoundFormats
  /\ MaxRetries \in Nat /\ MaxSessions \in Nat \ {0} /\ MaxProbes \in Nat \ {0}

VARIABLES
  playing,     \* the session, by number
  cfg,         \* the format of the last packets
  context,     \* AudioContext: "none", "suspended", "running", and whether a click is needed
  opus,        \* opusSupported: "unknown", "no", "yes"
  probes,      \* isConfigSupported calls in flight, with the session that asked
  decoder,     \* the format of the AudioDecoder, NoFormat when there is none
  errors,      \* audioErrors
  started,     \* what the button shows
  silencedBy   \* history: the session whose probe set opus to "no", 0 if none did

playerVars == <<playing, cfg, context, opus, probes, decoder, errors, started, silencedBy>>

PlayerInit ==
  /\ playing = 1 /\ cfg = NoFormat /\ context = "none" /\ opus = "unknown" /\ probes = {}
  /\ decoder = NoFormat /\ errors = 0 /\ started = FALSE /\ silencedBy = 0

(* onPacket, the part a new format adds: a fresh decoder and a fresh        *)
(* question.  While the answer is out opus reads "no", and packets go.      *)
PlayerReconfigured == NoFormat

NewFormat(f) ==
  /\ cfg # f /\ opus # "no" /\ cfg' = f
  /\ context' = IF context = "none" THEN "suspended" ELSE context
  /\ decoder' = PlayerReconfigured /\ errors' = 0
  /\ Cardinality(probes) < MaxProbes
  /\ opus' = "no" /\ probes' = probes \cup {[of |-> f, asked |-> playing]}
  /\ UNCHANGED <<playing, started, silencedBy>>

(* The format of the packet before: decoded once the answer was yes.  A     *)
(* decoder that will not take it is closed.                                 *)
Decodes(f) ==
  /\ cfg = f /\ opus = "yes" /\ context # "none"
  /\ decoder' \in {NoFormat, IF decoder = NoFormat THEN f ELSE decoder}
  /\ started' = TRUE
  /\ UNCHANGED <<playing, cfg, context, opus, probes, errors, silencedBy>>

(* The answer of a probe, applied to the player as it is by then.           *)
Answered(p) ==
  /\ p \in probes /\ probes' = probes \ {p}
  /\ opus' = IF p.of \in Decodable THEN "yes" ELSE "no"
  /\ started' = IF p.of \in Decodable THEN started ELSE FALSE
  /\ silencedBy' = IF p.of \in Decodable THEN 0 ELSE p.asked
  /\ UNCHANGED <<playing, cfg, context, decoder, errors>>

(* An output clears the count of errors; one error too many gives up.       *)
Plays == decoder # NoFormat /\ errors' = 0
         /\ UNCHANGED <<playing, cfg, context, opus, probes, decoder, started, silencedBy>>
GivesUp == errors + 1 > MaxRetries
DecoderFails ==
  /\ decoder # NoFormat /\ decoder' = NoFormat
  /\ IF GivesUp THEN opus' = "no" /\ started' = FALSE /\ errors' = MaxRetries + 1 /\ silencedBy' = playing
                ELSE errors' = errors + 1 /\ UNCHANGED <<opus, started, silencedBy>>
  /\ UNCHANGED <<playing, cfg, context, probes>>

(* ctx.resume() of the user's click, or on its own.                         *)
Resumes == context = "suspended" /\ context' = "running"
           /\ UNCHANGED <<playing, cfg, opus, probes, decoder, errors, started, silencedBy>>

Reset ==
  /\ playing < MaxSessions /\ playing' = playing + 1
  /\ cfg' = NoFormat /\ context' = "none" /\ opus' = "unknown" /\ decoder' = NoFormat
  /\ errors' = 0 /\ started' = FALSE /\ silencedBy' = 0
  /\ UNCHANGED probes

PlayerNext ==
  \/ \E f \in SoundFormats : NewFormat(f) \/ Decodes(f)
  \/ \E p \in probes : Answered(p)
  \/ Plays \/ DecoderFails \/ Resumes \/ Reset

-----------------------------------------------------------------------------
PlayerTypeOK ==
  /\ playing \in 1 .. MaxSessions /\ cfg \in SoundFormats \cup {NoFormat}
  /\ context \in {"none", "suspended", "running"} /\ opus \in {"unknown", "no", "yes"}
  /\ probes \subseteq [of : SoundFormats, asked : 1 .. MaxSessions]
  /\ decoder \in SoundFormats \cup {NoFormat} /\ errors \in 0 .. MaxRetries + 1
  /\ started \in BOOLEAN /\ silencedBy \in 0 .. MaxSessions

(* A packet is decoded by a decoder of its own format.                      *)
DecoderFitsPackets == decoder # NoFormat => decoder = cfg

(* Sound is given up only on the word of this session's engine.             *)
OwnAnswer == silencedBy \in {0, playing}
=============================================================================
