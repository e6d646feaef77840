-------------------------- MODULE VideoPathProofs --------------------------
(***************************************************************************)
(* The video path, for any number of frames, sizes, streams, connections   *)
(* and attaches. The gate lets a dependent frame pass only right behind    *)
(* the frame before it (ChainInv), however frames are numbered. If no      *)
(* configure begins the numbers again, a frame's number says when it was   *)
(* encoded (Numbered): then a gate closed by a gap is asked for or         *)
(* answered (RepairInv).                                                   *)
(***************************************************************************)
EXTENDS VideoPath, WellFoundedInduction, TLAPS

(* A frame as it was encoded.                                               *)
Encoded == [id : Nat, key : BOOLEAN, dims : Dims, place : Nat]
Sources == [conn : Nat, expected : Int, read : SUBSET Encoded, completed : SUBSET Encoded,
            pending : SUBSET Encoded, watch : BOOLEAN]

VideoTyped ==
  /\ conn \in Nat /\ nextId \in Nat /\ made \in Nat /\ lastDecoded \in Nat
  /\ cmds \in Nat /\ requests \in Nat /\ encDims \in Dims /\ lastKey \in Int
  /\ wire \subseteq Encoded /\ src \in Sources /\ keyframe \in BOOLEAN
  /\ (src.expected = NoBase \/ src.expected \in Nat)
  /\ (pc = "push" => frame \in Encoded)

(* With the gate open, the next frame the source hands out by itself is the *)
(* one after the last that passed, and nothing is stashed behind a gap.     *)
GateInv ==
  /\ pc = "push" => seen /\ src.pending = {} /\ src.expected = frame.id + 1
  /\ pc = "ask" => ~seen
  /\ pc = "recv" /\ seen => src.pending = {} /\ src.expected = lastDecoded + 1

ChainInv == VideoTyped /\ GateInv

(* Frames are numbered as they are encoded, and only the last key frame has *)
(* the id of the last key frame.                                            *)
Known == wire \cup src.read \cup src.completed \cup src.pending
Numbered ==
  /\ lastKey < nextId /\ src.expected <= nextId
  /\ \A f \in Known : f.id < nextId /\ (f.id = lastKey => f.key)
  /\ pc = "fetch" => ~lossClosed

(* A gap that was reported is asked for, or what answers it is not handed   *)
(* out yet, nor is it older than the frame stashed behind the gap.          *)
Answering ==
  lastKey # NoBase /\ lastKey >= src.expected /\ \A g \in src.pending : lastKey >= g.id
RepairInv ==
  /\ src.conn <= conn
  /\ lossClosed => src.expected # NoBase
  /\ lossClosed /\ phase # "down" /\ src.conn = conn =>
       pc = "ask" \/ cmds > 0 \/ requests > 0 \/ keyframe \/ Answering

NumberInv == Numbered /\ RepairInv

(* Of frames that are at hand there is one with the lowest number: Lowest   *)
(* is a CHOOSE, and numbers are well-founded.                               *)
LEMMA LowestExists ==
  ASSUME NEW S, S \subseteq Encoded, S # {}
  PROVE  Lowest(S) \in S
<1> DEFINE ids == {f.id : f \in S}
<1>1. ids \subseteq Nat /\ ids # {}
  BY DEF Encoded
<1>2. PICK n \in ids : \A m \in ids : n <= m
  <2> HIDE DEF ids
  <2>1. PICK R : R = OpToRel(<, Nat)
    OBVIOUS
  <2>2. IsWellFoundedOn(R, Nat)
    BY <2>1, NatLessThanWellFounded, Zenon
  <2>3. PICK n \in ids : \A m \in ids : <<m, n>> \notin R
    BY <1>1, <2>2, WFMin
  <2>4. \A m \in ids : ~(m < n)
    BY <1>1, <2>1, <2>3, Zenon DEF OpToRel
  <2> QED BY <1>1, <2>4
<1>3. PICK f \in S : f.id = n
  OBVIOUS
<1>4. \A g \in S : f.id <= g.id
  BY <1>2, <1>3
<1> QED BY <1>4 DEF Lowest

(* A source that was made just now, and the one before there is any.        *)
LEMMA SourceFacts ==
  /\ NoSource \in Sources /\ NoSource.conn = 0 /\ NoSource.expected = NoBase
  /\ NoSource.read = {} /\ NoSource.completed = {} /\ NoSource.pending = {}
  /\ FreshSource(conn).expected = NoBase /\ FreshSource(conn).read = {}
  /\ FreshSource(conn).completed = {} /\ FreshSource(conn).pending = {}
  /\ FreshSource(conn).conn = conn
  /\ conn \in Nat => FreshSource(conn) \in Sources
<1>1. /\ NoSource \in Sources /\ NoSource.conn = 0 /\ NoSource.expected = NoBase
      /\ NoSource.read = {} /\ NoSource.completed = {} /\ NoSource.pending = {}
  BY DEF NoSource, Sources, NoBase
<1>2. PICK n : n = NoSource
  OBVIOUS
<1>3. FreshSource(conn) = [n EXCEPT !.conn = conn]
  BY <1>2 DEF FreshSource
<1> QED BY <1>1, <1>2, <1>3 DEF Sources

(* What recv hands out: the stashed frame, or the one that is expected.     *)
LEMMA ReadyIs ==
  ASSUME NEW s \in Sources, NEW f \in Ready(s)
  PROVE  /\ f \in Encoded
         /\ s.pending # {} => f \in s.pending
         /\ s.pending = {} => f \in s.completed /\ s.expected \in {NoBase, f.id}
BY DEF Ready, Sources

(* Whatever is handed out, the frame after it is the next one.              *)
LEMMA DeliverIs ==
  ASSUME NEW s \in Sources, NEW f \in Encoded
  PROVE  /\ Deliver(s, f) \in Sources /\ Deliver(s, f).expected = f.id + 1
         /\ Deliver(s, f).pending = {} /\ Deliver(s, f).completed \subseteq s.completed
         /\ Deliver(s, f).read = s.read /\ Deliver(s, f).conn = s.conn
<1>1. f.id + 1 \in Int
  BY DEF Encoded
<1>2. PICK n \in Int, w \in BOOLEAN : /\ n = f.id + 1
                                      /\ w = IF s.pending # {} THEN s.watch ELSE FALSE
  BY <1>1 DEF Sources
<1>3. Deliver(s, f) = [s EXCEPT !.expected = n, !.pending = {}, !.completed = s.completed \ {f},
                                !.watch = w]
  BY <1>2 DEF Deliver, Sources
<1> QED BY <1>2, <1>3 DEF Sources

(* A stream that was read to its end has its frame among the read.          *)
LEMMA FinishIs ==
  ASSUME NEW s \in Sources, NEW f \in Encoded
  PROVE  /\ Finish(s, f) \in Sources /\ Finish(s, f).expected = s.expected
         /\ Finish(s, f).pending = s.pending /\ Finish(s, f).completed = s.completed
         /\ Finish(s, f).read = s.read \cup {f} /\ Finish(s, f).conn = s.conn
BY DEF Finish, Sources

(* A frame that joins the buffer, unless it comes too late.                 *)
LEMMA JoinIs ==
  ASSUME NEW s \in Sources, NEW f \in Encoded
  PROVE  /\ Join(s, f) \in Sources /\ Join(s, f).expected = s.expected
         /\ Join(s, f).pending = s.pending /\ Join(s, f).completed \subseteq s.completed \cup {f}
         /\ Join(s, f).read \subseteq s.read /\ Join(s, f).conn = s.conn
<1>1. PICK c \in SUBSET Encoded :
        c = IF f.id < s.expected THEN s.completed ELSE {g \in s.completed : g.id # f.id} \cup {f}
  BY DEF Sources
<1>2. PICK w \in BOOLEAN : w = (s.watch \/ (s.expected # NoBase /\ f.id > s.expected))
  OBVIOUS
<1>3. Join(s, f) = [s EXCEPT !.read = s.read \ {f}, !.completed = c, !.watch = w]
  BY <1>1, <1>2 DEF Join, Sources
<1> QED BY <1>1, <1>3 DEF Sources

(* A gap is watched only once a frame was handed out; when its time is up   *)
(* the lowest frame is stashed behind it.                                   *)
LEMMA ElapseIs ==
  ASSUME NEW s \in Sources, Gap(s)
  PROVE  /\ ElapseGap(s) \in Sources /\ ElapseGap(s).expected = s.expected
         /\ ElapseGap(s).completed \subseteq s.completed
         /\ ElapseGap(s).pending \subseteq s.completed
         /\ ElapseGap(s).read = s.read /\ ElapseGap(s).conn = s.conn
         /\ s.expected # NoBase
<1>1. s.completed # {} /\ s.completed \subseteq Encoded /\ Ready(s) = {}
  BY DEF Gap, Waiting, Sources
<1>2. PICK l \in s.completed : l = Lowest(s.completed)
  BY <1>1, LowestExists
<1>3. s.expected # NoBase
  <2>1. s.pending = {}
    BY <1>1 DEF Ready
  <2>2. Ready(s) = {f \in s.completed : /\ f = Lowest(s.completed)
                                        /\ s.expected \in {NoBase, f.id}}
    BY <2>1 DEF Ready
  <2> QED BY <1>1, <1>2, <2>2
<1>4. ElapseGap(s) = [s EXCEPT !.watch = FALSE, !.completed = s.completed \ {l}, !.pending = {l}]
  BY <1>2 DEF ElapseGap, Sources
<1>5. PICK c \in SUBSET Encoded, p \in SUBSET Encoded : c = s.completed \ {l} /\ p = {l}
  BY <1>1
<1>6. ElapseGap(s) = [s EXCEPT !.watch = FALSE, !.completed = c, !.pending = p]
  BY <1>4, <1>5
<1>7. c \subseteq s.completed /\ p \subseteq s.completed
  BY <1>5
<1> QED BY <1>3, <1>6, <1>7 DEF Sources

(* What GateChain asks of a step.                                           *)
Passes == pc' = "push" /\ pc # "push" /\ ~frame'.key => frame'.id = lastDecoded + 1

(* What is encoded has a type, whichever size it has.                       *)
LEMMA CaptureTyped ==
  ASSUME ChainInv, NEW d \in Dims, Capture(d)
  PROVE  VideoTyped'
<1>1. PICK n \in Nat : n = FrameId(d)
  BY DEF FrameId, ChainInv, VideoTyped
<1>2. PICK f : f = [id |-> n, key |-> keyframe \/ d # encDims, dims |-> d, place |-> made']
  OBVIOUS
<1>3. made' \in Nat
  BY DEF Capture, ChainInv, VideoTyped
<1>4. f \in Encoded /\ f.id = n
  BY <1>2, <1>3 DEF Encoded
<1>7. /\ lastKey' = (IF f.key THEN f.id ELSE lastKey) /\ nextId' = f.id + 1
      /\ wire' \in {wire, wire \cup {f}}
  BY <1>1, <1>2 DEF Capture
<1>5. keyframe' = FALSE /\ encDims' = d
      /\ UNCHANGED <<conn, src, pc, frame, lastDecoded, requests, cmds>>
  BY DEF Capture, linkVars, loopVars
<1>6. nextId' \in Nat /\ lastKey' \in Int /\ wire' \subseteq Encoded
  BY <1>4, <1>7 DEF ChainInv, VideoTyped
<1> QED BY <1>3, <1>5, <1>6 DEF ChainInv, VideoTyped

(* A frame at the gate: passed, dropped, or the gate closes.                *)
LEMMA GateFrameChain ==
  ASSUME ChainInv, NEW f \in Ready(src), GateFrame(f)
  PROVE  ChainInv' /\ Passes
<1>1. src \in Sources /\ lastDecoded \in Nat /\ pc = "recv"
  BY DEF ChainInv, VideoTyped, GateFrame
<1>2. /\ f \in Encoded
      /\ src.pending # {} => f \in src.pending
      /\ src.pending = {} => f \in src.completed /\ src.expected \in {NoBase, f.id}
  BY <1>1, ReadyIs
<1>3. /\ src' \in Sources /\ src'.expected = f.id + 1 /\ src'.pending = {} /\ src'.conn = src.conn
  BY <1>1, <1>2, DeliverIs DEF GateFrame
<1>4. f.id \in Nat
      /\ UNCHANGED <<conn, nextId, made, lastDecoded, cmds, requests, encDims, lastKey, wire,
                     keyframe>>
  BY <1>2 DEF GateFrame, hostVars, linkVars, Encoded
<1>5. CASE (seen /\ ~regate) \/ f.key
  <2>1. pc' = "push" /\ frame' = f /\ seen' = TRUE
    BY <1>5 DEF GateFrame
  <2>2. VideoTyped'
    BY <1>2, <1>3, <1>4, <2>1 DEF ChainInv, VideoTyped
  <2>3. GateInv'
    BY <1>3, <2>1 DEF GateInv
  <2>4. ASSUME ~f.key PROVE f.id = lastDecoded + 1
    <3>1. src.pending = {} /\ src.expected = lastDecoded + 1
      BY <1>1, <1>5, <2>4 DEF ChainInv, GateInv
    <3> QED BY <1>1, <1>2, <3>1 DEF NoBase
  <2> QED BY <2>1, <2>2, <2>3, <2>4 DEF ChainInv, Passes
<1>6. CASE ~((seen /\ ~regate) \/ f.key)
  <2>1. seen' = FALSE /\ UNCHANGED <<pc, frame>>
    BY <1>6 DEF GateFrame
  <2>2. VideoTyped'
    BY <1>1, <1>3, <1>4, <2>1 DEF ChainInv, VideoTyped
  <2>3. GateInv' /\ Passes
    BY <1>1, <2>1 DEF GateInv, Passes
  <2> QED BY <2>2, <2>3 DEF ChainInv
<1> QED BY <1>5, <1>6

(* A frame that arrives changes neither the gate nor what is expected.      *)
LEMMA StreamReadChain ==
  ASSUME ChainInv, NEW f \in wire, StreamRead(f)
  PROVE  ChainInv' /\ Passes
<1>1. src \in Sources /\ f \in Encoded
  BY DEF ChainInv, VideoTyped
<1>2. /\ src' \in Sources /\ src'.expected = src.expected /\ src'.pending = src.pending
      /\ src'.conn = src.conn
  BY <1>1, FinishIs DEF StreamRead
<1>3. wire' \subseteq wire
      /\ UNCHANGED <<conn, nextId, made, lastDecoded, cmds, requests, encDims, lastKey,
                     keyframe, pc, frame, seen>>
  BY DEF StreamRead, hostVars, linkVars
<1>4. VideoTyped'
  BY <1>2, <1>3 DEF ChainInv, VideoTyped
<1>5. GateInv' /\ Passes
  BY <1>2, <1>3 DEF ChainInv, GateInv, Passes
<1> QED BY <1>4, <1>5 DEF ChainInv

(* The other steps of the video loop and of the source.                     *)
LEMMA LoopChain ==
  ASSUME ChainInv, FetchSource \/ PushFrame \/ GapElapsed \/ SourceDies
                   \/ \E f \in src.read : JoinStream(f)
  PROVE  ChainInv' /\ Passes
<1>0. /\ src \in Sources /\ conn \in Nat
      /\ UNCHANGED <<conn, nextId, made, cmds, requests, encDims, lastKey, keyframe, wire>>
  BY DEF ChainInv, VideoTyped, FetchSource, PushFrame, GapElapsed, SourceDies, JoinStream,
         hostVars, linkVars
<1>1. CASE FetchSource
  <2>1. src' \in Sources /\ src'.expected = NoBase
    BY <1>0, <1>1, SourceFacts DEF FetchSource
  <2>2. pc' = "recv" /\ seen' = FALSE /\ UNCHANGED <<lastDecoded>>
    BY <1>1 DEF FetchSource
  <2> QED BY <1>0, <2>1, <2>2 DEF ChainInv, VideoTyped, GateInv, Passes
<1>2. CASE PushFrame
  <2>1. lastDecoded' = frame.id /\ pc' = "recv" /\ pc = "push" /\ UNCHANGED <<src, seen>>
    BY <1>2 DEF PushFrame
  <2>2. frame \in Encoded /\ frame.id \in Nat
    BY <2>1 DEF ChainInv, VideoTyped, Encoded
  <2> QED BY <1>0, <2>1, <2>2 DEF ChainInv, VideoTyped, GateInv, Passes
<1>3. CASE GapElapsed
  <2>1. src' \in Sources /\ src'.expected = src.expected
    BY <1>0, <1>3, ElapseIs DEF GapElapsed
  <2>2. pc' = "ask" /\ seen' = FALSE /\ UNCHANGED <<lastDecoded>>
    BY <1>3 DEF GapElapsed
  <2> QED BY <1>0, <2>1, <2>2 DEF ChainInv, VideoTyped, GateInv, Passes
<1>4. CASE SourceDies
  <2>1. src' \in Sources /\ src'.expected = NoBase
    BY <1>4, SourceFacts DEF SourceDies
  <2>2. pc' = "fetch" /\ UNCHANGED lastDecoded
    BY <1>4 DEF SourceDies
  <2> QED BY <1>0, <2>1, <2>2 DEF ChainInv, VideoTyped, GateInv, Passes
<1>5. CASE \E f \in src.read : JoinStream(f)
  <2>1. PICK f \in src.read : JoinStream(f)
    BY <1>5
  <2>2. f \in Encoded
    BY <1>0 DEF Sources
  <2>3. src' \in Sources /\ src'.expected = src.expected /\ src'.pending = src.pending
    BY <1>0, <2>1, <2>2, JoinIs DEF JoinStream
  <2>4. UNCHANGED <<pc, frame, seen, lastDecoded>>
    BY <2>1 DEF JoinStream
  <2> QED BY <1>0, <2>3, <2>4 DEF ChainInv, VideoTyped, GateInv, Passes
<1> QED BY <1>1, <1>2, <1>3, <1>4, <1>5

(* Every step keeps ChainInv, and none lets a frame pass that GateChain     *)
(* forbids.                                                                 *)
LEMMA ChainStep ==
  ASSUME ChainInv, [Next]_vars
  PROVE  ChainInv' /\ Passes
<1>1. ASSUME NEW d \in Dims, Capture(d) PROVE ChainInv' /\ Passes
  <2>1. VideoTyped'
    BY <1>1, CaptureTyped
  <2>2. UNCHANGED <<src, pc, frame, seen, lastDecoded>>
    BY <1>1 DEF Capture, loopVars
  <2> QED BY <2>1, <2>2 DEF ChainInv, GateInv, Passes
<1>2. ASSUME HostReadsRequest \/ HostAttaches \/ HostAnnounces PROVE ChainInv' /\ Passes
  <2>1. /\ keyframe' \in {TRUE, keyframe} /\ requests' \in {requests, requests - 1}
        /\ requests' # requests => requests > 0
        /\ UNCHANGED <<src, pc, frame, seen, lastDecoded, conn, nextId, made, cmds,
                       encDims, lastKey, wire>>
    BY <1>2 DEF HostReadsRequest, HostAttaches, HostAnnounces, linkVars, loopVars
  <2>2. keyframe' \in BOOLEAN
    BY <2>1 DEF ChainInv, VideoTyped
  <2>3. requests' \in Nat
    BY <2>1 DEF ChainInv, VideoTyped
  <2>4. VideoTyped'
    BY <2>1, <2>2, <2>3 DEF ChainInv, VideoTyped
  <2>5. GateInv' /\ Passes
    BY <2>1 DEF ChainInv, GateInv, Passes
  <2> QED BY <2>4, <2>5 DEF ChainInv
<1>3. ASSUME TransportLost \/ Redial \/ RedialStores \/ RedialConfigures \/ RedialResumes
      PROVE  ChainInv' /\ Passes
  <2>1. /\ requests' \in Nat /\ conn' \in Nat /\ wire' \subseteq Encoded
        /\ UNCHANGED <<src, pc, frame, seen, lastDecoded, nextId, made, cmds,
                       encDims, lastKey, keyframe>>
    BY <1>3 DEF TransportLost, Redial, RedialStores, RedialConfigures, RedialResumes, ChainInv,
                VideoTyped, hostVars, loopVars
  <2> QED BY <2>1 DEF ChainInv, VideoTyped, GateInv, Passes
<1>4. ASSUME AskKeyframe PROVE ChainInv' /\ Passes
  <2>1. /\ pc = "ask" /\ pc' = "recv" /\ cmds' \in Nat
        /\ UNCHANGED <<src, frame, seen, lastDecoded, conn, nextId, made, requests,
                       encDims, lastKey, wire, keyframe>>
    BY <1>4 DEF AskKeyframe, ChainInv, VideoTyped, hostVars, linkVars
  <2> QED BY <2>1 DEF ChainInv, VideoTyped, GateInv, Passes
<1>5. ASSUME ForwardKeyframe \/ Attach PROVE ChainInv' /\ Passes
  <2>1. /\ cmds' \in Nat /\ requests' \in Nat
        /\ UNCHANGED <<src, pc, frame, seen, lastDecoded, conn, nextId, made,
                       encDims, lastKey, wire, keyframe>>
    BY <1>5 DEF ForwardKeyframe, Attach, AttachConfigures, AttachInstalls, AttachRegates,
                AttachAsks, Detach, ChainInv, VideoTyped, hostVars, loopVars, linkVars
  <2> QED BY <2>1 DEF ChainInv, VideoTyped, GateInv, Passes
<1>6. ASSUME UNCHANGED vars PROVE ChainInv' /\ Passes
  BY <1>6 DEF vars, hostVars, linkVars, loopVars, ChainInv, VideoTyped, GateInv, Passes
<1> HIDE DEF ChainInv, Passes
<1> QED
  BY <1>1, <1>2, <1>3, <1>4, <1>5, <1>6, GateFrameChain, StreamReadChain, LoopChain
  DEF Next, Host, VideoLoop, ControlLoop, Network

(* A frame that is encoded takes the next number, and as a key frame it     *)
(* answers whatever was asked.                                              *)
LEMMA CaptureNumbers ==
  ASSUME ~RestartsIds, ChainInv, NumberInv, NEW d \in Dims, Capture(d)
  PROVE  NumberInv'
<1>1. FrameId(d) = nextId /\ nextId \in Nat /\ made' = made + 1
  BY DEF FrameId, Capture, NumberInv, Numbered, ChainInv, VideoTyped
<1>2. PICK f : f = [id |-> nextId, key |-> keyframe \/ d # encDims, dims |-> d, place |-> made']
  OBVIOUS
<1>3. /\ lastKey' = (IF f.key THEN f.id ELSE lastKey) /\ nextId' = f.id + 1
      /\ wire' \in {wire, wire \cup {f}}
  BY <1>1, <1>2 DEF Capture
<1>4. /\ UNCHANGED <<src, pc, phase, conn, lossClosed, requests, cmds>>
      /\ f.id = nextId /\ (keyframe => f.key)
  BY <1>1, <1>2 DEF Capture, linkVars, loopVars
<1>5. /\ lastKey \in Int /\ src.expected \in Int /\ \A g \in Known : g.id \in Nat
  BY DEF ChainInv, VideoTyped, Known, Encoded, Sources
<1>6. nextId' = nextId + 1 /\ lastKey' \in {lastKey, nextId} /\ (f.key => lastKey' = nextId)
      /\ (~f.key => lastKey' = lastKey)
  BY <1>3, <1>4
<1>7. Numbered'
  <2>1. Known' \subseteq Known \cup {f}
    BY <1>3, <1>4 DEF Known
  <2>2. ASSUME NEW g \in Known
        PROVE  g.id < nextId' /\ (g.id = lastKey' => g.key)
    BY <1>1, <1>5, <1>6 DEF NumberInv, Numbered
  <2>3. f.id < nextId' /\ (f.id = lastKey' => f.key)
    BY <1>1, <1>4, <1>5, <1>6 DEF NumberInv, Numbered
  <2>4. lastKey' < nextId' /\ src'.expected <= nextId'
    BY <1>1, <1>4, <1>5, <1>6 DEF NumberInv, Numbered
  <2> QED BY <1>4, <2>1, <2>2, <2>3, <2>4 DEF NumberInv, Numbered
<1>8. RepairInv'
  <2>1. ASSUME lossClosed, phase # "down", src.conn = conn
        PROVE  pc = "ask" \/ cmds > 0 \/ requests > 0 \/ Answering'
    <3>1. CASE keyframe
      <4>1. lastKey' = nextId
        BY <1>4, <1>6, <3>1
      <4>2. \A g \in src.pending : nextId >= g.id
        BY <1>1, <1>5 DEF NumberInv, Numbered, Known
      <4>3. lastKey' # NoBase /\ lastKey' >= src.expected
        BY <1>1, <1>5, <4>1 DEF NumberInv, Numbered, NoBase
      <4> QED BY <1>4, <4>1, <4>2, <4>3 DEF Answering
    <3>2. CASE Answering
      <4>1. lastKey' >= lastKey /\ lastKey' \in Int /\ lastKey' # NoBase
        BY <1>1, <1>5, <1>6, <3>2 DEF NumberInv, Numbered, Answering, NoBase
      <4>2. \A g \in src.pending : g.id \in Nat
        BY <1>5 DEF Known
      <4>3. lastKey' >= src.expected /\ \A g \in src.pending : lastKey' >= g.id
        BY <1>5, <3>2, <4>1, <4>2 DEF Answering
      <4> QED BY <1>4, <4>1, <4>3 DEF Answering
    <3> QED BY <2>1, <3>1, <3>2 DEF NumberInv, RepairInv
  <2> QED BY <1>4, <2>1 DEF NumberInv, RepairInv
<1> QED BY <1>7, <1>8 DEF NumberInv

(* A key frame that is handed out opens the gate; before that, the stashed  *)
(* frame was not newer.                                                     *)
LEMMA GateFrameNumbers ==
  ASSUME ChainInv, NumberInv, NEW f \in Ready(src), GateFrame(f)
  PROVE  NumberInv'
<1>1. src \in Sources /\ pc = "recv" /\ nextId \in Nat /\ lastKey \in Int
  BY DEF ChainInv, VideoTyped, GateFrame
<1>2. /\ f \in Encoded
      /\ src.pending # {} => f \in src.pending
      /\ src.pending = {} => f \in src.completed /\ src.expected \in {NoBase, f.id}
  BY <1>1, ReadyIs
<1>3. /\ src' \in Sources /\ src'.expected = f.id + 1 /\ src'.pending = {} /\ src'.conn = src.conn
      /\ src'.completed \subseteq src.completed /\ src'.read = src.read
  BY <1>1, <1>2, DeliverIs DEF GateFrame
<1>4. /\ f.id \in Nat /\ pc' \in {"recv", "push"}
      /\ lossClosed' \in {FALSE, lossClosed}
      /\ (f.key => lossClosed' = FALSE)
      /\ UNCHANGED <<conn, phase, nextId, made, lastKey, wire, cmds, requests, keyframe>>
  BY <1>1, <1>2 DEF GateFrame, hostVars, linkVars, Encoded
<1>5. f \in Known
  BY <1>2 DEF Known
<1>6. f.id < nextId /\ (f.id = lastKey => f.key)
  BY <1>5 DEF NumberInv, Numbered
<1>7. Known' \subseteq Known
  BY <1>3, <1>4 DEF Known
<1>8. Numbered'
  BY <1>1, <1>3, <1>4, <1>6, <1>7 DEF NumberInv, Numbered
<1>9. ASSUME ~f.key, Answering, lossClosed PROVE Answering'
  <2>1. lastKey >= f.id
    BY <1>1, <1>2, <1>4, <1>9 DEF Answering, NumberInv, RepairInv
  <2>2. lastKey >= f.id + 1
    BY <1>1, <1>4, <1>6, <1>9, <2>1
  <2> QED BY <1>3, <1>4, <1>9, <2>2 DEF Answering
<1>10. RepairInv'
  <2>1. f.id + 1 # NoBase
    BY <1>4 DEF NoBase
  <2>2. CASE lossClosed' = FALSE
    BY <1>3, <1>4, <2>1, <2>2 DEF NumberInv, RepairInv
  <2>3. CASE lossClosed' = lossClosed /\ ~f.key
    BY <1>1, <1>3, <1>4, <1>9, <2>1, <2>3 DEF NumberInv, RepairInv
  <2> QED BY <1>4, <2>2, <2>3
<1> QED BY <1>8, <1>10 DEF NumberInv

(* The source hands nothing out by these steps; a gap that is reported is   *)
(* asked for next.                                                          *)
LEMMA SourceNumbers ==
  ASSUME ChainInv, NumberInv,
         FetchSource \/ GapElapsed \/ SourceDies \/ (\E f \in wire : StreamRead(f))
           \/ \E f \in src.read : JoinStream(f)
  PROVE  NumberInv'
<1>0. /\ src \in Sources /\ conn \in Nat /\ nextId \in Nat
      /\ UNCHANGED <<conn, phase, nextId, made, lastKey, cmds, requests, keyframe>>
  BY DEF ChainInv, VideoTyped, FetchSource, GapElapsed, SourceDies, StreamRead, JoinStream,
         hostVars, linkVars
<1>1. CASE FetchSource
  <2>1. /\ src'.expected = NoBase /\ src'.conn = conn
        /\ src'.read = {} /\ src'.completed = {} /\ src'.pending = {}
    BY <1>1, SourceFacts DEF FetchSource
  <2>2. pc' = "recv" /\ pc = "fetch" /\ UNCHANGED <<lossClosed, wire>>
    BY <1>1 DEF FetchSource
  <2>3. ~lossClosed
    BY <2>2 DEF NumberInv, Numbered
  <2>4. Known' \subseteq Known
    BY <2>1, <2>2 DEF Known
  <2>5. Numbered'
    BY <1>0, <2>1, <2>2, <2>3, <2>4 DEF NumberInv, Numbered, NoBase
  <2>6. RepairInv'
    BY <1>0, <2>1, <2>2, <2>3 DEF RepairInv
  <2> QED BY <2>5, <2>6 DEF NumberInv
<1>2. CASE GapElapsed
  <2>1. /\ src'.expected = src.expected /\ src'.conn = src.conn /\ src'.read = src.read
        /\ src'.completed \subseteq src.completed /\ src'.pending \subseteq src.completed
        /\ src.expected # NoBase
    BY <1>0, <1>2, ElapseIs DEF GapElapsed
  <2>2. pc' = "ask" /\ UNCHANGED <<wire>>
    BY <1>2 DEF GapElapsed
  <2>3. Known' \subseteq Known
    BY <2>1, <2>2 DEF Known
  <2>4. Numbered'
    BY <1>0, <2>1, <2>2, <2>3 DEF NumberInv, Numbered
  <2>5. RepairInv'
    BY <1>0, <2>1, <2>2 DEF NumberInv, RepairInv
  <2> QED BY <2>4, <2>5 DEF NumberInv
<1>3. CASE SourceDies
  <2>1. /\ src'.expected = NoBase /\ src'.conn = 0
        /\ src'.read = {} /\ src'.completed = {} /\ src'.pending = {}
    BY <1>3, SourceFacts DEF SourceDies
  <2>2. ~lossClosed' /\ UNCHANGED wire
    BY <1>3 DEF SourceDies
  <2>3. Known' \subseteq Known
    BY <2>1, <2>2 DEF Known
  <2>4. Numbered'
    BY <1>0, <2>1, <2>2, <2>3 DEF NumberInv, Numbered, NoBase
  <2>5. RepairInv'
    BY <1>0, <2>1, <2>2 DEF RepairInv
  <2> QED BY <2>4, <2>5 DEF NumberInv
<1>4. CASE (\E f \in wire : StreamRead(f)) \/ \E f \in src.read : JoinStream(f)
  <2>1. /\ src'.expected = src.expected /\ src'.conn = src.conn /\ src'.pending = src.pending
        /\ Known' \subseteq Known /\ UNCHANGED <<pc, lossClosed>>
    <3>1. ASSUME NEW f \in wire, StreamRead(f)
          PROVE  /\ src'.expected = src.expected /\ src'.conn = src.conn
                 /\ src'.pending = src.pending
                 /\ Known' \subseteq Known /\ UNCHANGED <<pc, lossClosed>>
      <4>1. f \in Encoded
        BY DEF ChainInv, VideoTyped
      <4>2. /\ src'.expected = src.expected /\ src'.conn = src.conn /\ src'.pending = src.pending
            /\ src'.completed = src.completed /\ src'.read = src.read \cup {f}
        BY <1>0, <3>1, <4>1, FinishIs DEF StreamRead
      <4>3. wire' \subseteq wire /\ UNCHANGED <<pc, lossClosed>>
        BY <3>1 DEF StreamRead
      <4> QED BY <4>2, <4>3 DEF Known
    <3>2. ASSUME NEW f \in src.read, JoinStream(f)
          PROVE  /\ src'.expected = src.expected /\ src'.conn = src.conn
                 /\ src'.pending = src.pending
                 /\ Known' \subseteq Known /\ UNCHANGED <<pc, lossClosed>>
      <4>1. f \in Encoded
        BY <1>0 DEF Sources
      <4>2. /\ src'.expected = src.expected /\ src'.conn = src.conn /\ src'.pending = src.pending
            /\ src'.completed \subseteq src.completed \cup {f} /\ src'.read \subseteq src.read
        BY <1>0, <3>2, <4>1, JoinIs DEF JoinStream
      <4>3. UNCHANGED <<wire, pc, lossClosed>>
        BY <3>2 DEF JoinStream
      <4> QED BY <4>2, <4>3 DEF Known
    <3> QED BY <1>4, <3>1, <3>2
  <2>2. Numbered'
    BY <1>0, <2>1 DEF NumberInv, Numbered
  <2>3. Answering => Answering'
    BY <1>0, <2>1 DEF Answering
  <2>4. RepairInv'
    BY <1>0, <2>1, <2>3 DEF NumberInv, RepairInv
  <2> QED BY <2>2, <2>4 DEF NumberInv
<1> QED BY <1>1, <1>2, <1>3, <1>4

(* A request for a key frame goes from the loop to the queue, the stream and *)
(* the pump, and is not lost but with the connection.                       *)
LEMMA OtherNumbers ==
  ASSUME ChainInv, NumberInv,
         \/ PushFrame \/ AskKeyframe \/ HostReadsRequest \/ HostAttaches \/ HostAnnounces
         \/ TransportLost \/ Redial \/ RedialStores \/ RedialConfigures \/ RedialResumes
         \/ ForwardKeyframe \/ Attach \/ UNCHANGED vars
  PROVE  NumberInv'
<1> DEFINE Asked == pc = "ask" \/ cmds > 0 \/ requests > 0 \/ keyframe
<1>0. /\ conn \in Nat /\ src.conn \in Nat /\ cmds \in Nat /\ requests \in Nat
      /\ UNCHANGED <<src, lossClosed, nextId, made, lastKey>> /\ wire' \subseteq wire
  BY DEF ChainInv, VideoTyped, Sources, PushFrame, AskKeyframe, HostReadsRequest, HostAttaches,
         HostAnnounces, TransportLost, Redial, RedialStores, RedialConfigures, RedialResumes,
         ForwardKeyframe, Attach, AttachConfigures, AttachInstalls, AttachRegates, AttachAsks,
         Detach, vars, hostVars, linkVars, loopVars
<1>1. pc' = "fetch" => pc = "fetch"
  BY DEF PushFrame, AskKeyframe, HostReadsRequest, HostAttaches,
         HostAnnounces, TransportLost, Redial, RedialStores, RedialConfigures, RedialResumes,
         ForwardKeyframe, Attach, AttachConfigures, AttachInstalls, AttachRegates, AttachAsks,
         Detach, vars, loopVars
<1>2. Known' \subseteq Known
  BY <1>0 DEF Known
<1>3. Numbered'
  BY <1>0, <1>1, <1>2 DEF NumberInv, Numbered
<1>4. conn <= conn' /\ (phase' # "down" /\ src.conn = conn' => phase # "down" /\ src.conn = conn)
  <2>1. CASE Redial
    <3>1. conn' = conn + 1
      BY <2>1 DEF Redial
    <3> QED BY <1>0, <3>1 DEF NumberInv, RepairInv
  <2>2. CASE TransportLost
    BY <1>0, <2>2 DEF TransportLost
  <2>3. CASE HostAttaches \/ HostAnnounces \/ RedialStores \/ RedialConfigures \/ RedialResumes
    BY <1>0, <2>3 DEF HostAttaches, HostAnnounces, RedialStores, RedialConfigures, RedialResumes
  <2>4. CASE PushFrame \/ AskKeyframe \/ HostReadsRequest \/ ForwardKeyframe \/ Attach
               \/ UNCHANGED vars
    BY <1>0, <2>4 DEF PushFrame, AskKeyframe, HostReadsRequest, ForwardKeyframe, Attach,
       AttachConfigures, AttachInstalls, AttachRegates, AttachAsks, Detach, vars, linkVars
  <2> QED BY <2>1, <2>2, <2>3, <2>4
<1>5. Asked /\ phase' # "down" => Asked'
  <2>1. CASE AskKeyframe
    BY <1>0, <2>1 DEF AskKeyframe
  <2>2. CASE ForwardKeyframe
    BY <1>0, <2>2 DEF ForwardKeyframe, hostVars, loopVars, linkVars
  <2>3. CASE HostReadsRequest \/ HostAnnounces
    BY <2>3 DEF HostReadsRequest, HostAnnounces
  <2>4. CASE TransportLost
    BY <2>4 DEF TransportLost
  <2>5. CASE AttachAsks \/ RedialResumes
    BY <1>0, <2>5 DEF AttachAsks, RedialResumes, hostVars, loopVars
  <2>6. CASE PushFrame
    BY <2>6 DEF PushFrame, hostVars
  <2>7. CASE \/ HostAttaches \/ Redial \/ RedialStores \/ RedialConfigures \/ UNCHANGED vars
             \/ AttachConfigures \/ AttachInstalls \/ AttachRegates \/ Detach
    BY <2>7 DEF HostAttaches, Redial, RedialStores, RedialConfigures, vars, AttachConfigures,
       AttachInstalls, AttachRegates, Detach, hostVars, loopVars
  <2> QED BY <2>1, <2>2, <2>3, <2>4, <2>5, <2>6, <2>7 DEF Attach
<1>6. Answering => Answering'
  BY <1>0 DEF Answering
<1>7. src'.conn <= conn'
  <2>1. conn' \in Nat
    BY ChainStep, <1>0 DEF ChainInv, VideoTyped, PushFrame, AskKeyframe, HostReadsRequest,
                            HostAttaches,
         HostAnnounces, TransportLost, Redial, RedialStores, RedialConfigures, RedialResumes,
         ForwardKeyframe, Attach, AttachConfigures, AttachInstalls, AttachRegates, AttachAsks,
         Detach, vars, linkVars
  <2> QED BY <1>0, <1>4, <2>1 DEF NumberInv, RepairInv
<1> HIDE DEF Asked
<1>8. lossClosed /\ phase # "down" /\ src.conn = conn => Asked \/ Answering
  BY DEF Asked, NumberInv, RepairInv
<1>9. lossClosed' /\ phase' # "down" /\ src'.conn = conn' => Asked' \/ Answering'
  BY <1>0, <1>4, <1>5, <1>6, <1>8
<1>10. RepairInv'
  BY <1>0, <1>7, <1>9 DEF Asked, NumberInv, RepairInv
<1> QED BY <1>3, <1>10 DEF NumberInv

(* Every step keeps the numbers and what answers a gap.                     *)
LEMMA NumberStep ==
  ASSUME ~RestartsIds, ChainInv, NumberInv, [Next]_vars
  PROVE  NumberInv'
<1> HIDE DEF ChainInv, NumberInv
<1> QED
  BY CaptureNumbers, GateFrameNumbers, SourceNumbers, OtherNumbers
  DEF Next, Host, VideoLoop, ControlLoop, Network

(* Nothing was encoded, and nothing is expected.                            *)
LEMMA VideoInitial == Init => ChainInv /\ NumberInv
<1> SUFFICES ASSUME Init PROVE ChainInv /\ NumberInv
  OBVIOUS
<1>1. /\ src \in Sources /\ src.conn = 0 /\ src.expected = NoBase /\ src.read = {}
      /\ src.completed = {} /\ src.pending = {}
  BY SourceFacts DEF Init
<1>2. ChainInv
  BY <1>1 DEF Init, ChainInv, VideoTyped, GateInv, NoBase
<1>3. Known = {}
  BY <1>1 DEF Init, Known
<1>4. NumberInv
  BY <1>1, <1>3 DEF Init, NumberInv, Numbered, RepairInv, NoBase
<1> QED BY <1>2, <1>4

(* Freeze on the last good frame (run_video_loop of session.rs and the      *)
(* source of ras-transport-iroh): a frame that is no key frame passes the   *)
(* gate only right behind the frame before it, whatever is lost, reordered, *)
(* dialled again or attached in between, and however frames are numbered.   *)
THEOREM NoBrokenReference == Spec => GateChain
<1>1. Init => ChainInv
  BY VideoInitial
<1>2. ChainInv /\ [Next]_vars => ChainInv' /\ Passes
  BY ChainStep
<1>3. Spec => [][Passes]_vars
  BY <1>1, <1>2, PTL DEF Spec
<1>4. [Passes]_vars <=>
        [(pc' = "push" /\ pc # "push" /\ ~frame'.key) => frame'.id = lastDecoded + 1]_vars
  BY DEF Passes
<1> QED BY <1>3, <1>4, PTL DEF GateChain

(* A gate that a reported gap has closed is never left without a request    *)
(* for a key frame, one that is due, or one that was encoded and is not     *)
(* handed out yet (GapElapsed of run_video_loop), if no configure of the    *)
(* encoder begins its numbers again.                                        *)
THEOREM GapsAreRepaired ==
  ASSUME ~RestartsIds PROVE Spec => []LossRepaired
<1>1. ChainInv /\ NumberInv /\ [Next]_vars => ChainInv' /\ NumberInv'
  BY ChainStep, NumberStep
<1>2. ChainInv /\ NumberInv => LossRepaired
  BY DEF ChainInv, NumberInv, RepairInv, Answering, LossRepaired
<1> QED BY VideoInitial, <1>1, <1>2, PTL DEF Spec
=============================================================================
