----------------------------- MODULE WireCodec -----------------------------
(***************************************************************************)
(* The control and bootstrap streams (crates/ras-protocol codec.rs and the *)
(* framed channels of crates/ras-transport-iroh): a message is checked by  *)
(* the function that sends it, encoded, framed, cut into reads anywhere,   *)
(* reassembled and decoded.  A field is a pair of maps, one of the sender  *)
(* and one of the reader, over the values at its boundaries; text, bytes   *)
(* and identifiers are their lengths.                                      *)
(***************************************************************************)
EXTENDS Naturals, Integers, Sequences, SequencesExt

CONSTANTS
  Refused,         \* what a decoder answers instead of a value
  U8, U16, Rgb,    \* how many values a byte, a coordinate, a colour has
  Fixed,           \* length of an id or a key
  MAX_CONTROL_FRAME, MAX_CLIPBOARD_BYTES, MAX_CHAT_BYTES, MAX_FILE_CHUNK,
  MAX_FILE_NAME, MAX_FILE_TARGET, MAX_CAPABILITIES, MAX_TEXT_INPUT, MAX_ANNOT_POINTS,
  MAX_CURSOR_DIM, MAX_DISPLAY_NAME,
  MaxRead          \* bound: bytes one read returns (4096)

ASSUME WireAssumption ==
  /\ {U8, U16, Rgb, Fixed, MaxRead} \subseteq Nat \ {0}
  /\ MAX_CLIPBOARD_BYTES < MAX_CONTROL_FRAME

VARIABLES
  peer,      \* whose messages the bytes carries
  sent,      \* the messages written, in order
  bytes,    \* bytes under way
  readBuf,   \* bytes the reader holds back
  received,  \* the messages the reader got
  reader     \* "open", "refused": recv returned an error, "closed"

wireVars == <<peer, sent, bytes, readBuf, received, reader>>

-----------------------------------------------------------------------------
(* Fields.                                                                  *)

Field(write, read) == [write |-> write, read |-> read]

(* Taken over as it is.                                                     *)
AsIs(S) == Field([v \in S |-> v], [v \in S |-> v])

(* A u8 or u16 that the wire carries in 32 bits.                            *)
Narrow(n) == Field([v \in {0, n - 1} |-> v],
                   [w \in {0, n - 1, n} |-> IF w < n THEN w ELSE Refused])

(* An i16 that the wire carries in 32 bits.                                 *)
Signed(n) == Field([v \in {-n, n - 1} |-> v],
                   [w \in {-n - 1, -n, n - 1, n} |-> IF w \in -n .. n - 1 THEN w ELSE Refused])

(* A length the writer does not look at and the reader bounds.              *)
UpTo(max) == LET S == {0, max, max + 1} IN
  Field([v \in S |-> v], [w \in S |-> IF w <= max THEN w ELSE Refused])

(* A byte array of one length (arr16, arr32).                               *)
Exactly(n) == Field([v \in {n} |-> v],
                    [w \in {n - 1, n, n + 1} |-> IF w = n THEN w ELSE Refused])

(* An enumeration: 0 is unspecified, a number past the last is unknown.     *)
Enum(names) == Field([v \in ToSet(names) |-> CHOOSE n \in DOMAIN names : names[n] = v],
                     [w \in 0 .. Len(names) + 1 |-> IF w \in DOMAIN names THEN names[w] ELSE Refused])

ErrorCodes == << "INVALID_MESSAGE", "UNSUPPORTED_VERSION", "IDENTITY_MISMATCH",
  "SIGNATURE_INVALID", "REQUEST_EXPIRED", "REPLAY_DETECTED", "CONSENT_DENIED",
  "CAPABILITY_DENIED", "GRANT_INVALID", "LEASE_INVALID", "SESSION_REVOKED",
  "TRANSPORT_ERROR", "CAPTURE_FAILED", "ENCODER_FAILED", "INPUT_FAILED",
  "POLICY_CHANGED", "INTERNAL_ERROR", "NORMAL_CLOSURE" >>
ErrorCode == Enum(ErrorCodes)

KeyframeReason == Enum(<< "StreamStart", "UnrecoverableLoss", "DecoderReset", "ConfigChanged",
                          "PeriodicRefresh" >>)
CallMediaKind == Enum(<< "Voice", "Video" >>)
PointerButton == Enum(<< "Left", "Right", "Middle" >>)

(* Their names are recognised later, by the policy.                         *)
Capabilities == LET S == [count : {0, MAX_CAPABILITIES, MAX_CAPABILITIES + 1}, long : BOOLEAN] IN
  Field([v \in S |-> v],
        [w \in S |-> IF w.count <= MAX_CAPABILITIES /\ ~w.long THEN w ELSE Refused])

(* Text to be typed: no control character.                                  *)
Typed == LET S == [len : {1, MAX_TEXT_INPUT, MAX_TEXT_INPUT + 1}, control : BOOLEAN] IN
  Field([v \in S |-> v],
        [w \in S |-> IF w.len <= MAX_TEXT_INPUT /\ ~w.control THEN w ELSE Refused])

-----------------------------------------------------------------------------
(* Messages, by their kind.  A field without a check has one value.         *)

Unchecked == AsIs({1})
Flag == AsIs(BOOLEAN)
Empty == [none |-> Unchecked]
Coded == [code |-> ErrorCode]

ControlKinds == [
  Hello |-> [protocol_version |-> Unchecked],
  StreamConfig |-> [size |-> Unchecked, color |-> Narrow(U8), video_transport |-> Narrow(U8)],
  KeyframeRequest |-> [since_frame |-> Unchecked, reason |-> KeyframeReason],
  Feedback |-> [last_decoded |-> Unchecked, reason |-> KeyframeReason],
  FeedbackPlain |-> [last_decoded |-> Unchecked],
  AuthEnvelope |-> [payload |-> Unchecked],
  Bye |-> Coded,
  Pointer |-> [x |-> Narrow(U16), y |-> Narrow(U16), visible |-> Flag],
  ControlRequest |-> [capabilities |-> Capabilities],
  ControlGranted |-> [lease_id |-> Exactly(Fixed), generation |-> Unchecked, capabilities |-> Capabilities],
  ControlRevoked |-> Coded,
  CursorCached |-> [id |-> Unchecked],
  CursorHidden |-> Empty,
  CursorPosition |-> [x |-> Narrow(U16), y |-> Narrow(U16)],
  ClipboardText |-> [text |-> UpTo(MAX_CLIPBOARD_BYTES)],
  ChatMessage |-> [text |-> UpTo(MAX_CHAT_BYTES)],
  FileOffer |-> [target |-> UpTo(MAX_FILE_TARGET), filename |-> UpTo(MAX_FILE_NAME), size |-> Unchecked],
  FileAccept |-> Empty,
  FileReject |-> Coded,
  FileChunk |-> [data |-> UpTo(MAX_FILE_CHUNK)],
  FileComplete |-> Empty,
  CallAccept |-> [media |-> CallMediaKind],
  CallReject |-> Coded,
  CallBusy |-> Empty,
  CallHangup |-> Coded,
  CallMuteState |-> [audio_muted |-> Flag, video_muted |-> Flag] ]

(* Each under the lease id, generation and seq of its envelope.             *)
InputKinds == LET lease == Exactly(Fixed)
                  at == Narrow(U16)
                  by == Signed(U16 \div 2) IN [
  PointerMove |-> [lease |-> lease, nx |-> at, ny |-> at],
  PointerButton |-> [lease |-> lease, nx |-> at, ny |-> at, button |-> PointerButton, down |-> Flag],
  PointerWheel |-> [lease |-> lease, dx |-> by, dy |-> by],
  PointerMoveRelative |-> [lease |-> lease, dx |-> by, dy |-> by],
  KeyEvent |-> [lease |-> lease, hid_usage |-> Narrow(U16), down |-> Flag, modifiers |-> Narrow(U8)],
  TextInput |-> [lease |-> lease, utf8 |-> Typed],
  ReleaseAllKeys |-> [lease |-> lease],
  SetLockState |-> [lease |-> lease, caps_lock |-> Flag, num_lock |-> Flag] ]

BootstrapKinds == [
  ClientHello |-> [protocol_version |-> Unchecked],
  HostHello |-> [host_id |-> Exactly(Fixed),
                 tier |-> Field([v \in {0, 3} |-> v], [w \in {0, 3, 4} |-> IF w <= 3 THEN w ELSE Refused])],
  PairingRequest |-> [controller_id |-> Exactly(Fixed), display_name |-> UpTo(MAX_DISPLAY_NAME),
                      pubkey |-> Exactly(Fixed)],
  PairingDecision |-> [accepted |-> Flag],
  AccessRequest |-> [canonical |-> Unchecked],
  CancelRequest |-> Empty,
  ProtocolError |-> Coded ]

Layout(kind) == CASE kind \in DOMAIN ControlKinds -> ControlKinds[kind]
                  [] kind \in DOMAIN InputKinds -> InputKinds[kind]
                  [] OTHER -> BootstrapKinds[kind]
MessageKinds == DOMAIN ControlKinds \cup DOMAIN InputKinds \cup DOMAIN BootstrapKinds

(* Of every kind the messages that are sound but for one field at the most. *)
Sound(field) == CHOOSE w \in DOMAIN field.read : field.read[w] # Refused
WireBodies(layout) == LET sound == [f \in DOMAIN layout |-> Sound(layout[f])] IN
  UNION { { [sound EXCEPT ![f] = w] : w \in DOMAIN layout[f].read } : f \in DOMAIN layout }
TypedBodies(layout) == LET sound == [f \in DOMAIN layout |-> layout[f].read[Sound(layout[f])]] IN
  UNION { { [sound EXCEPT ![f] = v] : v \in DOMAIN layout[f].write } : f \in DOMAIN layout }

(* Three kinds whose fields are checked against each other.                 *)
CursorShapes == [width : {1, MAX_CURSOR_DIM, MAX_CURSOR_DIM + 1}, height : {0, 1, MAX_CURSOR_DIM},
                 hotspot_x : {0, 1}, hotspot_y : {0, U16}, rgba : {4, 8, 4 * MAX_CURSOR_DIM}]
cursor_shape_from_pb(c) ==
  IF /\ c.width \in 1 .. MAX_CURSOR_DIM /\ c.height \in 1 .. MAX_CURSOR_DIM
     /\ c.hotspot_x < c.width /\ c.hotspot_y < c.height
     /\ c.rgba = c.width * c.height * 4
  THEN c ELSE Refused

Points == UNION { [1 .. n -> {<<0, U16 - 1>>, <<U16 - 1, 0>>}] : n \in {1, MAX_ANNOT_POINTS} }
          \cup { [i \in 1 .. MAX_ANNOT_POINTS + 1 |-> <<1, 1>>] }
AnnotTools == << "Pen", "Highlighter", "Arrow", "Rect" >>
Strokes == [op : {"Stroke"}, tool : ToSet(AnnotTools), color : {Rgb - 1}, points : Points]
AnnotateOps == Strokes \cup { [op |-> "Undo"], [op |-> "Clear"] }

(* A point is packed into one number; undo and clear leave the rest at 0.   *)
annotate_to_pb(op) ==
  CASE op.op = "Stroke" ->
         [op |-> 0, tool |-> (CHOOSE n \in DOMAIN AnnotTools : AnnotTools[n] = op.tool) - 1, color |-> op.color,
          points |-> [i \in DOMAIN op.points |-> op.points[i][1] * U16 + op.points[i][2]]]
    [] op.op = "Undo" -> [op |-> 1, tool |-> 0, color |-> 0, points |-> <<>>]
    [] op.op = "Clear" -> [op |-> 2, tool |-> 0, color |-> 0, points |-> <<>>]
annotate_from_pb(a) ==
  CASE a.op = 0 /\ Len(a.points) <= MAX_ANNOT_POINTS /\ a.tool + 1 \in DOMAIN AnnotTools ->
         [op |-> "Stroke", tool |-> AnnotTools[a.tool + 1], color |-> a.color % Rgb,
          points |-> [i \in DOMAIN a.points |-> <<(a.points[i] \div U16) % U16, a.points[i] % U16>>]]
    [] a.op = 1 -> [op |-> "Undo"]
    [] a.op = 2 -> [op |-> "Clear"]
    [] OTHER -> Refused
AnnotateWires == { annotate_to_pb(op) : op \in AnnotateOps }
  \cup [op : 0 .. 3, tool : {0, 4}, color : {Rgb}, points : {<<>>}]

AccessOutcomes == { [grant |-> TRUE] } \cup { [denied |-> c] : c \in ToSet(ErrorCodes) }
access_to_pb(o) == IF "grant" \in DOMAIN o THEN [grant |-> TRUE, denied |-> 0]
                   ELSE [grant |-> FALSE, denied |-> ErrorCode.write[o.denied]]
access_from_pb(d) ==
  CASE d.grant /\ d.denied = 0 -> [grant |-> TRUE]
    [] ~d.grant /\ d.denied # 0 -> LET code == ErrorCode.read[d.denied] IN
                                   IF code = Refused THEN Refused ELSE [denied |-> code]
    [] OTHER -> Refused
AccessWires == [grant : BOOLEAN, denied : DOMAIN ErrorCode.read]

-----------------------------------------------------------------------------
(* Encoding, which always succeeds, and decoding, which may refuse.         *)

Message(kind, body) == [kind |-> kind, body |-> body]

Encode(m) == Message(m.kind,
  CASE m.kind = "Annotate" -> annotate_to_pb(m.body)
    [] m.kind = "AccessDecision" -> access_to_pb(m.body)
    [] m.kind = "CursorShape" -> m.body
    [] OTHER -> [f \in DOMAIN m.body |-> Layout(m.kind)[f].write[m.body[f]]])

DecodeFields(layout, body) ==
  LET fields == [f \in DOMAIN body |-> layout[f].read[body[f]]] IN
  IF \E f \in DOMAIN fields : fields[f] = Refused THEN Refused ELSE fields

(* An empty message, or of a kind that is not known, is refused.            *)
Decode(w) ==
  LET body == CASE w.kind = "Annotate" -> annotate_from_pb(w.body)
                [] w.kind = "AccessDecision" -> access_from_pb(w.body)
                [] w.kind = "CursorShape" -> cursor_shape_from_pb(w.body)
                [] w.kind \in MessageKinds -> DecodeFields(Layout(w.kind), w.body)
                [] OTHER -> Refused
  IN IF body = Refused THEN Refused ELSE Message(w.kind, body)

Unknown == Message("Unset", <<>>)
WireMessages ==
  { Unknown } \cup { Message("CursorShape", c) : c \in CursorShapes }
  \cup { Message("Annotate", a) : a \in AnnotateWires } \cup { Message("AccessDecision", d) : d \in AccessWires }
  \cup UNION { { Message(k, b) : b \in WireBodies(Layout(k)) } : k \in MessageKinds }
TypedMessages ==
  { Message("CursorShape", c) : c \in CursorShapes } \cup { Message("Annotate", a) : a \in AnnotateOps }
  \cup { Message("AccessDecision", d) : d \in AccessOutcomes }
  \cup UNION { { Message(k, b) : b \in TypedBodies(Layout(k)) } : k \in MessageKinds }

(* Bytes of the body: what varies is the payload.                           *)
Size(w) == CASE w.kind = "Unset" -> 0
             [] w.kind = "ClipboardText" -> 1 + w.body.text
             [] w.kind = "FileChunk" -> 1 + w.body.data
             [] OTHER -> 1

-----------------------------------------------------------------------------
(* The sending side.                                                        *)

(* What each end sends, and what its send functions check before they queue *)
(* it; the application asks for four capabilities and sends no typed text.  *)
build_annotate_op(op) == op.op = "Stroke" => Len(op.points) <= MAX_ANNOT_POINTS
controller_sends(m) ==
  CASE m.kind = "ChatMessage" -> m.body.text <= MAX_CHAT_BYTES
    [] m.kind = "FileOffer" -> m.body.target <= MAX_FILE_TARGET /\ m.body.filename <= MAX_FILE_NAME
    [] m.kind = "FileChunk" -> m.body.data <= MAX_FILE_CHUNK
    [] m.kind = "Annotate" -> build_annotate_op(m.body)
    [] m.kind = "ControlRequest" -> m.body.capabilities.count <= MAX_CAPABILITIES /\ ~m.body.capabilities.long
    [] OTHER -> m.kind \in (DOMAIN InputKinds \ {"TextInput"})
                \cup {"AuthEnvelope", "KeyframeRequest", "Feedback", "FeedbackPlain", "Bye", "Pointer", "ClipboardText", "FileComplete",
                      "ClientHello", "AccessRequest"}
cursor_shape_is_valid(s) ==
  /\ s.width >= 1 /\ s.width <= MAX_CURSOR_DIM /\ s.height >= 1 /\ s.height <= MAX_CURSOR_DIM
  /\ s.hotspot_x < s.width /\ s.hotspot_y < s.height
  /\ s.rgba = s.width * s.height * 4
host_sends(m) ==
  CASE m.kind = "ChatMessage" -> m.body.text <= MAX_CHAT_BYTES
    [] m.kind = "ClipboardText" -> m.body.text <= MAX_CLIPBOARD_BYTES
    [] m.kind = "Annotate" -> build_annotate_op(m.body)
    [] m.kind = "CursorShape" -> cursor_shape_is_valid(m.body)
    [] m.kind = "ControlGranted" -> m.body.capabilities.count <= MAX_CAPABILITIES /\ ~m.body.capabilities.long
    [] OTHER -> m.kind \in {"Hello", "Bye", "ControlRevoked", "CursorCached", "CursorHidden", "CursorPosition",
                            "FileAccept", "FileReject", "HostHello", "AccessDecision"}

(* Either end of a call.                                                    *)
caller_sends(m) == m.kind \in {"CallAccept", "CallReject", "CallBusy", "CallHangup", "CallMuteState"}

(* A frame on the stream: its length, then its body, byte by byte.  The     *)
(* first byte of each part carries what the part says.                      *)
Prefix == 4
frame(w) == [i \in 1 .. Prefix + Size(w) |->
              CASE i = 1 -> [len |-> Size(w)] [] i = Prefix + 1 -> [body |-> w] [] OTHER -> [more |-> i]]

Write(w) == bytes' = bytes \o frame(w)

(* After one message of any kind the stream goes on with a short one, which *)
(* shows whether the reader is still at the start of a frame.               *)
MaySend == reader = "open" /\ Len(sent) < 2   \* bound

SendMessage(m) ==
  /\ CASE peer = "controller" -> controller_sends(m)
       [] peer = "host" -> host_sends(m)
       [] peer = "caller" -> caller_sends(m)
       [] OTHER -> FALSE
  /\ sent # <<>> => m.kind \in {"CursorHidden", "FileComplete", "CallBusy"}
  /\ sent' = Append(sent, m) /\ Write(Encode(m))
  /\ UNCHANGED <<peer, readBuf, received, reader>>

(* A peer of another build, or a damaged one, writes what it likes.         *)
SendForeign(w) ==
  /\ peer = "other"
  /\ sent # <<>> => w = Message("CursorHidden", [none |-> 1])
  /\ sent' = Append(sent, w) /\ Write(w)
  /\ UNCHANGED <<peer, readBuf, received, reader>>

-----------------------------------------------------------------------------
(* The reading side: recv tries the buffer, and reads more when it holds no *)
(* whole frame.                                                             *)

try_read_frame(buf) ==
  LET len == IF "len" \in DOMAIN buf[1] THEN buf[1].len ELSE Refused
      body == IF len # 0 /\ "body" \in DOMAIN buf[Prefix + 1] THEN buf[Prefix + 1].body ELSE Unknown
  IN CASE Len(buf) < Prefix -> [is |-> "more"]
       [] len = Refused \/ len > MAX_CONTROL_FRAME -> [is |-> "error", rest |-> buf]
       [] Len(buf) < Prefix + len -> [is |-> "more"]
       [] Decode(body) = Refused -> [is |-> "error", rest |-> SubSeq(buf, Prefix + len + 1, Len(buf))]
       [] OTHER -> [is |-> "message", message |-> Decode(body), rest |-> SubSeq(buf, Prefix + len + 1, Len(buf))]

Receive ==
  /\ reader = "open"
  /\ LET got == try_read_frame(readBuf) IN
     /\ got.is # "more"
     /\ readBuf' = got.rest
     /\ IF got.is = "error" THEN reader' = "refused" /\ UNCHANGED received
        ELSE received' = Append(received, got.message) /\ UNCHANGED reader
  /\ UNCHANGED <<peer, sent, bytes>>

Read(n) ==
  /\ reader = "open" /\ try_read_frame(readBuf).is = "more"
  /\ n <= Len(bytes)
  /\ readBuf' = readBuf \o SubSeq(bytes, 1, n) /\ bytes' = SubSeq(bytes, n + 1, Len(bytes))
  /\ UNCHANGED <<peer, sent, received, reader>>

(* The stream is cut: recv reports what it cannot finish as a loss.         *)
Cut ==
  /\ reader = "open" /\ try_read_frame(readBuf).is = "more"
  /\ reader' = "closed" /\ bytes' = <<>>
  /\ UNCHANGED <<peer, sent, readBuf, received>>

-----------------------------------------------------------------------------
WireInit ==
  /\ peer \in {"controller", "host", "caller", "other"}
  /\ sent = <<>> /\ bytes = <<>> /\ readBuf = <<>> /\ received = <<>> /\ reader = "open"

WireNext ==
  \/ MaySend /\ \E m \in TypedMessages : SendMessage(m)
  \/ MaySend /\ \E w \in WireMessages : SendForeign(w)
  \/ Receive \/ (\E n \in 1 .. MaxRead : Read(n)) \/ Cut

WireSpec == WireInit /\ [][WireNext]_wireVars

-----------------------------------------------------------------------------
(* What is read is what was written, in order and unchanged, however the    *)
(* bytes are cut into reads and whatever came before on the stream.         *)
ReceivedIsSent == peer # "other" => IsPrefix(received, sent)

(* The only thing a send function lets through that the other side cannot   *)
(* read is a controller's clipboard text: the limits of all the others are  *)
(* those of the decoder, at the boundary too.                               *)
OnlyClipboardRefused ==
  reader = "refused" /\ peer # "other" =>
    LET m == sent[Len(received) + 1] IN
    m.kind = "ClipboardText" /\ peer = "controller" /\ m.body.text > MAX_CLIPBOARD_BYTES

(* Whatever is written, what the program is given is a value it can have,   *)
(* and is what the wire said: it goes back on the wire as it came, but for  *)
(* the spare bits of a colour and what undo and clear ignore.               *)
AcceptedIsCanonical ==
  peer = "other" => \A i \in DOMAIN received :
    LET back == Encode(received[i]) IN
    IF back.kind = "Annotate" THEN back.body.op = sent[i].body.op /\ back.body.points = sent[i].body.points
                                   /\ (back.body.op # 0 \/ back.body.tool = sent[i].body.tool)
    ELSE back = sent[i]

(* "an oversized push is dropped, not sent": nothing a session agrees to    *)
(* send ends the stream it is sent on.                                      *)
SentIsReadable == peer # "other" => reader # "refused"
=============================================================================
