----------------------------- MODULE VideoPath -----------------------------
(***************************************************************************)
(* The way of a frame from the host's encoder to the controller's decoder. *)
(* Host: the media pump encodes and sends over whatever sink is in the     *)
(* slot; a key frame is forced by a request or by a change of resolution.  *)
(* Network: one stream per frame, any of the accepted ones finishing first;*)
(* a frame can be dropped at the source, a connection can be lost and      *)
(* dialled again.                                                          *)
(* Controller: the video loop (gate on the first key frame, on a reported  *)
(* gap and on regate), attach_renderer, and the redial of the control loop.*)
(* They share the stream config, the renderer slot and the regate flag,    *)
(* each read or written under its own lock or atomically, so they          *)
(* interleave between those accesses.                                      *)
(***************************************************************************)
EXTENDS VideoSource, TLC

CONSTANTS Dims,        \* resolutions
          NoDims,      \* none: the value of a variable out of scope
          MaxFrames,   \* frames the host encodes
          Slots,       \* MAX_IN_FLIGHT_STREAMS
          MaxCmds,     \* capacity of the command channel; requests on the wire
          MaxConns,    \* connections, the first included
          MaxAttach,   \* calls of attach_renderer
          RestartsIds  \* whether configuring the encoder numbers from 0 again

ASSUME VideoAssumption ==
  /\ Dims # {} /\ IsFiniteSet(Dims) /\ NoDims \notin Dims
  /\ MaxFrames \in Nat /\ Slots \in Nat \ {0} /\ MaxCmds \in Nat \ {0}
  /\ MaxConns \in Nat \ {0} /\ MaxAttach \in Nat /\ RestartsIds \in BOOLEAN

VARIABLES
  conn,         \* number of the current connection
  phase,        \* "up", or how far loss and redial have come
  announced,    \* dimensions in the host's StreamConfig on the wire
  sink,         \* connection the sink in the host's slot belongs to
  keyframe,     \* a key frame is due: the host's flag or the encoder's own
  encDims,      \* what the encoder is configured for, also current_config
  nextId,       \* id of the next encoded frame
  made,         \* frames encoded so far
  wire,         \* frames on streams of the current connection
  requests,     \* KeyframeRequests on the control stream
  src,          \* the video loop's source
  pc,           \* "fetch", "recv", "push" or "ask"
  frame,        \* the frame between the gate and the push
  seen,         \* seen_keyframe
  curDims,      \* cur_dims
  changed,      \* dims_changed
  lastDecoded,  \* last_decoded_frame
  streamConfig, \* stream_config
  renderer,     \* the attached renderer: its dims, fed since configured
  regate,       \* regate
  cmds,         \* Keyframe commands queued for the control loop
  attach,       \* "idle", "configured", "installed" or "regated"
  attachDims,   \* what the renderer being attached was configured for
  attaches,     \* calls of attach_renderer so far
  lastKey,      \* history: id of the last key frame encoded, NoBase before
  lossClosed,   \* history: the gate was last closed by a reported gap
  handed        \* history: place of the last frame the source handed out, 0 before

hostVars == <<sink, keyframe, encDims, nextId, made, lastKey>>
linkVars == <<conn, phase, announced>>
loopVars == <<src, pc, frame, seen, curDims, changed, lastDecoded, lossClosed, handed>>
attachVars == <<attach, attachDims, attaches>>
vars == <<hostVars, linkVars, loopVars, attachVars, wire, requests,
          streamConfig, renderer, regate, cmds>>

NoFrame == [id |-> 0, key |-> TRUE, dims |-> NoDims, place |-> 0]
NoRenderer == [on |-> FALSE, dims |-> NoDims, fed |-> FALSE]
Configured(d) == [on |-> TRUE, dims |-> d, fed |-> FALSE]
Frames == [id : 0 .. MaxFrames - 1, key : BOOLEAN, dims : Dims, place : 1 .. MaxFrames]
Phases == {"up", "down", "redialed", "attached", "announced", "stored",
           "configured"}
-----------------------------------------------------------------------------
(* Host *)

\* The encoder numbers its frames: VideoToolbox begins again when it is
\* configured, libvpx and OpenH264 go on.
FrameId(d) == IF RestartsIds /\ d # encDims THEN 0 ELSE nextId

\* media_pump, one turn: a changed resolution reconfigures the encoder and
\* forces a key frame; the frame goes to the sink in the slot, which takes it
\* or drops it when its queue is full; a sink of a lost connection and an
\* empty slot lose it.
Capture(d) ==
  /\ made < MaxFrames /\ made' = made + 1
  /\ LET f == [id |-> FrameId(d), key |-> keyframe \/ d # encDims, dims |-> d,
               place |-> made']
     IN /\ lastKey' = (IF f.key THEN f.id ELSE lastKey)
        /\ nextId' = f.id + 1
        /\ \/ sink = conn /\ phase # "down" /\ wire' = wire \cup {f}
           \/ UNCHANGED wire
  /\ keyframe' = FALSE
  /\ encDims' = d
  /\ UNCHANGED <<sink, linkVars, loopVars, attachVars, requests, streamConfig,
                 renderer, regate, cmds>>

\* The host's control loop reads a KeyframeRequest.
HostReadsRequest ==
  /\ requests > 0
  /\ requests' = requests - 1
  /\ keyframe' = TRUE
  /\ UNCHANGED <<sink, encDims, nextId, made, lastKey, linkVars, loopVars, attachVars,
                 wire, streamConfig, renderer, regate, cmds>>
-----------------------------------------------------------------------------
(* Loss and redial *)

\* The connection dies: what is on it is gone, except frames a stream task had
\* read to the end.
TransportLost ==
  /\ phase = "up" /\ conn < MaxConns
  /\ phase' = "down"
  /\ wire' = {} /\ requests' = 0
  /\ UNCHANGED <<conn, announced, hostVars, loopVars, attachVars, streamConfig,
                 renderer, regate, cmds>>

\* reconnect on both sides: the controller's source is armed from here on.
Redial ==
  /\ phase = "down"
  /\ phase' = "redialed" /\ conn' = conn + 1
  /\ UNCHANGED <<announced, hostVars, loopVars, attachVars, wire, requests,
                 streamConfig, renderer, regate, cmds>>

\* host_reserve: the sink is swapped in, ...
HostAttaches ==
  /\ phase = "redialed"
  /\ phase' = "attached" /\ sink' = conn
  /\ UNCHANGED <<conn, announced, keyframe, encDims, nextId, made, lastKey, loopVars,
                 attachVars, wire, requests, streamConfig, renderer, regate, cmds>>

\* ... the current config is read and announced, and the control loop that
\* resumes forces a key frame.
HostAnnounces ==
  /\ phase = "attached"
  /\ phase' = "announced" /\ announced' = encDims
  /\ keyframe' = TRUE
  /\ UNCHANGED <<conn, sink, encDims, nextId, made, lastKey, loopVars, attachVars, wire,
                 requests, streamConfig, renderer, regate, cmds>>

\* controller_redial: the config is stored, ...
RedialStores ==
  /\ phase = "announced"
  /\ phase' = "stored" /\ streamConfig' = announced
  /\ UNCHANGED <<conn, announced, hostVars, loopVars, attachVars, wire, requests,
                 renderer, regate, cmds>>

\* ... the attached renderer is configured, ...
RedialConfigures ==
  /\ phase = "stored"
  /\ phase' = "configured"
  /\ renderer' = IF renderer.on THEN Configured(announced) ELSE renderer
  /\ announced' = NoDims
  /\ UNCHANGED <<conn, hostVars, loopVars, attachVars, wire, requests,
                 streamConfig, regate, cmds>>

\* ... the gate is closed and a key frame is requested.
RedialResumes ==
  /\ phase = "configured" /\ requests < MaxCmds
  /\ phase' = "up" /\ regate' = TRUE
  /\ requests' = requests + 1
  /\ UNCHANGED <<conn, announced, hostVars, loopVars, attachVars, wire,
                 streamConfig, renderer, cmds>>
-----------------------------------------------------------------------------
(* Controller: the video loop *)

\* Streams are accepted in the order they were opened, Slots tasks at a time.
Accepted(f) ==
  Cardinality({g \in wire : g.place < f.place}) + Cardinality(src.read) < Slots

\* A stream task of the source reads f to the end.
StreamRead(f) ==
  /\ f \in wire /\ src.conn = conn /\ phase # "down" /\ Accepted(f)
  /\ wire' = wire \ {f}
  /\ src' = Finish(src, f)
  /\ UNCHANGED <<hostVars, linkVars, pc, frame, seen, curDims, changed,
                 lastDecoded, lossClosed, handed, attachVars, requests, streamConfig,
                 renderer, regate, cmds>>

\* fetch_video_source, and the seed of the loop's local state.
FetchSource ==
  /\ pc = "fetch" /\ phase # "down"
  /\ src' = FreshSource(conn)
  /\ pc' = "recv" /\ seen' = FALSE /\ curDims' = streamConfig
  /\ UNCHANGED <<hostVars, linkVars, frame, changed, lastDecoded, lossClosed, handed,
                 attachVars, wire, requests, streamConfig, renderer, regate, cmds>>

\* recv joins a finished stream task.
JoinStream(f) ==
  /\ pc = "recv" /\ Waiting(src) /\ f \in src.read
  /\ src' = Join(src, f)
  /\ UNCHANGED <<hostVars, linkVars, pc, frame, seen, curDims, changed,
                 lastDecoded, lossClosed, handed, attachVars, wire, requests,
                 streamConfig, renderer, regate, cmds>>

\* recv hands f out: regate is taken, a frame that is no key frame is dropped
\* while the gate is closed, and a change of resolution is stored.
GateFrame(f) ==
  /\ pc = "recv" /\ f \in Ready(src)
  /\ src' = Deliver(src, f) /\ handed' = f.place
  /\ regate' = FALSE
  /\ IF (seen /\ ~regate) \/ f.key
     THEN /\ pc' = "push" /\ frame' = f /\ seen' = TRUE
          /\ changed' = (f.dims # curDims)
          /\ curDims' = f.dims /\ lossClosed' = FALSE
          /\ streamConfig' = IF changed' THEN f.dims ELSE streamConfig
     ELSE /\ seen' = FALSE
          /\ UNCHANGED <<pc, frame, changed, curDims, lossClosed, streamConfig>>
  /\ UNCHANGED <<hostVars, linkVars, lastDecoded, attachVars, wire, requests,
                 renderer, cmds>>

\* The renderer in the slot is configured for a new resolution and fed.
PushFrame ==
  /\ pc = "push"
  /\ renderer' = IF ~renderer.on THEN renderer
                 ELSE [renderer EXCEPT !.dims = IF changed THEN frame.dims ELSE @,
                                       !.fed = TRUE]
  /\ lastDecoded' = frame.id
  /\ pc' = "recv" /\ frame' = NoFrame /\ changed' = FALSE
  /\ UNCHANGED <<hostVars, linkVars, src, seen, curDims, lossClosed, handed, attachVars,
                 wire, requests, streamConfig, regate, cmds>>

\* GapElapsed, if the gate were left open.
GapElapsed_StaysOpen ==
  /\ pc = "recv" /\ Gap(src) /\ src.watch /\ src.read = {}
  /\ src' = ElapseGap(src)
  /\ pc' = "ask" /\ lossClosed' = TRUE
  /\ UNCHANGED <<hostVars, linkVars, frame, seen, curDims, changed, lastDecoded, handed,
                 attachVars, wire, requests, streamConfig, renderer, regate, cmds>>

\* GapElapsed, if a gap behind a closed gate were left to the request made before.
GapElapsed_AskedOnce ==
  /\ pc = "recv" /\ Gap(src) /\ src.watch /\ src.read = {}
  /\ src' = ElapseGap(src)
  /\ seen' = FALSE
  /\ pc' = (IF seen THEN "ask" ELSE "recv") /\ lossClosed' = TRUE
  /\ UNCHANGED <<hostVars, linkVars, frame, curDims, changed, lastDecoded, handed,
                 attachVars, wire, requests, streamConfig, renderer, regate, cmds>>

\* The grace window of a missing frame elapses (a finished task goes first):
\* recv reports it dropped, and the loop closes the gate ...
GapElapsed ==
  /\ pc = "recv" /\ Gap(src) /\ src.watch /\ src.read = {}
  /\ src' = ElapseGap(src)
  /\ seen' = FALSE
  /\ pc' = "ask" /\ lossClosed' = TRUE
  /\ UNCHANGED <<hostVars, linkVars, frame, curDims, changed, lastDecoded, handed,
                 attachVars, wire, requests, streamConfig, renderer, regate, cmds>>


\* ... and sends a Keyframe command, waiting for room in the channel.
AskKeyframe ==
  /\ pc = "ask" /\ cmds < MaxCmds
  /\ cmds' = cmds + 1
  /\ pc' = "recv"
  /\ UNCHANGED <<hostVars, linkVars, src, frame, seen, curDims, changed,
                 lastDecoded, lossClosed, handed, attachVars, wire, requests,
                 streamConfig, renderer, regate>>

\* The source reports the end of its connection: the loop fetches another.
SourceDies ==
  /\ pc = "recv" /\ Waiting(src) /\ src.read = {}
  /\ src.conn # conn \/ phase = "down"
  /\ src' = NoSource
  /\ pc' = "fetch" /\ lossClosed' = FALSE /\ handed' = 0
  /\ UNCHANGED <<hostVars, linkVars, frame, seen, curDims, changed, lastDecoded,
                 attachVars, wire, requests, streamConfig, renderer, regate, cmds>>

\* The control loop forwards a Keyframe command; over a dead connection the
\* send fails and the command is gone.
ForwardKeyframe ==
  /\ cmds > 0
  /\ cmds' = cmds - 1
  /\ \/ phase = "up" /\ requests < MaxCmds /\ requests' = requests + 1
     \/ phase = "down" /\ UNCHANGED requests
  /\ UNCHANGED <<hostVars, linkVars, loopVars, attachVars, wire, streamConfig,
                 renderer, regate>>
-----------------------------------------------------------------------------
(* Controller: attach_renderer *)

\* The new renderer is configured from the stored config, ...
AttachConfigures ==
  /\ attach = "idle" /\ attaches < MaxAttach
  /\ attach' = "configured" /\ attachDims' = streamConfig
  /\ attaches' = attaches + 1
  /\ UNCHANGED <<hostVars, linkVars, loopVars, wire, requests, streamConfig,
                 renderer, regate, cmds>>

\* ... put in the slot, ...
AttachInstalls ==
  /\ attach = "configured"
  /\ attach' = "installed" /\ renderer' = Configured(attachDims)
  /\ attachDims' = NoDims
  /\ UNCHANGED <<hostVars, linkVars, loopVars, attaches, wire,
                 requests, streamConfig, regate, cmds>>

\* ... the gate is closed ...
AttachRegates ==
  /\ attach = "installed"
  /\ attach' = "regated" /\ regate' = TRUE
  /\ UNCHANGED <<hostVars, linkVars, loopVars, attachDims, attaches, wire,
                 requests, streamConfig, renderer, cmds>>

\* ... and a key frame asked for.
AttachAsks ==
  /\ attach = "regated" /\ cmds < MaxCmds
  /\ attach' = "idle" /\ cmds' = cmds + 1
  /\ UNCHANGED <<hostVars, linkVars, loopVars, attachDims, attaches, wire,
                 requests, streamConfig, renderer, regate>>

\* detach_renderer
Detach ==
  /\ renderer.on /\ attach = "idle"
  /\ renderer' = NoRenderer
  /\ UNCHANGED <<hostVars, linkVars, loopVars, attachVars, wire, requests,
                 streamConfig, regate, cmds>>
-----------------------------------------------------------------------------
\* The controller has connected and holds the handshake's config; the host's
\* pump is about to encode its first frame, a key frame.
Init ==
  /\ conn = 1 /\ phase = "up" /\ sink = 1
  /\ encDims \in Dims /\ announced = NoDims /\ streamConfig = encDims
  /\ keyframe = TRUE /\ nextId = 0 /\ made = 0 /\ lastKey = NoBase
  /\ wire = {} /\ requests = 0
  /\ src = NoSource /\ pc = "fetch"
  /\ frame = NoFrame
  /\ seen = FALSE /\ curDims = encDims /\ changed = FALSE /\ lastDecoded = 0
  /\ lossClosed = FALSE /\ handed = 0
  /\ renderer = NoRenderer /\ regate = FALSE /\ cmds = 0
  /\ attach = "idle" /\ attachDims = NoDims /\ attaches = 0

Host == \/ \E d \in Dims : Capture(d)
        \/ HostReadsRequest \/ HostAttaches \/ HostAnnounces

VideoLoop == \/ FetchSource
             \/ \E f \in src.read : JoinStream(f)
             \/ \E f \in Ready(src) : GateFrame(f)
             \/ PushFrame \/ GapElapsed \/ AskKeyframe \/ SourceDies

ControlLoop == ForwardKeyframe \/ RedialStores \/ RedialConfigures \/ RedialResumes

Attach == \/ AttachConfigures \/ AttachInstalls \/ AttachRegates \/ AttachAsks
          \/ Detach

Network == \/ TransportLost \/ Redial
           \/ \E f \in wire : StreamRead(f)

Next == Host \/ Network \/ VideoLoop \/ ControlLoop \/ Attach

Spec == Init /\ [][Next]_vars
-----------------------------------------------------------------------------
\* Type invariant, with the bounds of the two queues of requests.
VideoTypeOK ==
  /\ conn \in 1 .. MaxConns /\ phase \in Phases /\ announced \in Dims \cup {NoDims}
  /\ sink \in 1 .. MaxConns /\ keyframe \in BOOLEAN /\ encDims \in Dims
  /\ nextId \in 0 .. MaxFrames /\ lastKey \in NoBase .. MaxFrames - 1
  /\ wire \subseteq Frames /\ requests \in 0 .. MaxCmds
  /\ src \in [conn : 0 .. MaxConns, expected : NoBase .. MaxFrames,
              read : SUBSET Frames, completed : SUBSET Frames,
              pending : SUBSET Frames, watch : BOOLEAN]
  /\ pc \in {"fetch", "recv", "push", "ask"} /\ frame \in Frames \cup {NoFrame}
  /\ seen \in BOOLEAN /\ curDims \in Dims /\ changed \in BOOLEAN
  /\ lastDecoded \in 0 .. MaxFrames /\ lossClosed \in BOOLEAN
  /\ made \in 0 .. MaxFrames /\ handed \in 0 .. MaxFrames
  /\ streamConfig \in Dims /\ regate \in BOOLEAN /\ cmds \in 0 .. MaxCmds
  /\ renderer \in [on : BOOLEAN, dims : Dims \cup {NoDims}, fed : BOOLEAN]
  /\ attach \in {"idle", "configured", "installed", "regated"}
  /\ attachDims \in Dims \cup {NoDims} /\ attaches \in 0 .. MaxAttach

\* Freeze on the last good frame: a frame that depends on its predecessor
\* passes the gate only when that very predecessor was the last one passed,
\* whatever was lost, reordered or dialled again in between.
GateChain ==
  [][(pc' = "push" /\ pc # "push" /\ ~frame'.key) => frame'.id = lastDecoded + 1]_vars

\* A gate closed by a reported gap never stays closed for want of a request:
\* one is on its way to the encoder, or the key frame that answers it is, or
\* that one was lost in turn and is a gap still to be reported.
LossRepaired ==
  lossClosed /\ phase = "up" /\ src.conn = conn =>
    \/ pc = "ask" \/ cmds > 0 \/ requests > 0 \/ keyframe
    \/ lastKey # NoBase /\ lastKey >= src.expected

-----------------------------------------------------------------------------
(* What comments of the code say and the code does not do *)

\* "Never wraps within a session; a gap implies loss": what was encoded after
\* the frame last handed out is never taken for one that comes too late.
\* Violated where a configure begins the numbers again (RestartsIds), as that
\* of VideoToolbox does; no other encoder can come near it.
NothingNewIsStale ==
  \A f \in wire \cup src.read :
    src.conn = conn /\ handed # 0 /\ f.place > handed => f.id >= src.expected

\* "A short time-based grace window has no such failure mode (a timer always
\* fires)": while recv holds a frame back, a deadline is running.
GapWatched == Gap(src) => src.watch

\* FrameSink::configure, "the first frame after this must be an IDR".
FirstFrameIsIdr == [][(~renderer.fed /\ renderer'.fed) => frame.key]_vars

\* "the decoder must be reconfigured atomically with that IDR, else it keeps
\* decoding at the old size": a renderer is fed frames of its own size.
DimsMatch ==
  [][(pc = "push" /\ pc' # "push" /\ renderer.on) => renderer'.dims = frame.dims]_vars

\* "gating to its first IDR, so no black screen": after a redial the gate does
\* not stay closed without a key frame asked for or under way.
ResumeRepaired ==
  conn > 1 /\ phase = "up" /\ src.conn = conn /\ ~seen =>
    \/ pc = "ask" \/ cmds > 0 \/ requests > 0 \/ keyframe
    \/ lastKey # NoBase /\ lastKey >= src.expected

(* The resolutions are alike.                                               *)
DimsSymmetry == Permutations(Dims)
=============================================================================
