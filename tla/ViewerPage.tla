---------------------------- MODULE ViewerPage ----------------------------
(***************************************************************************)
(* The window of a viewer (app/ui viewer.js and shell.js, and the older    *)
(* main.js): it starts sessions, builds a decoder for each stream          *)
(* configuration it is given, feeds it frames and asks for key frames.     *)
(* The page runs one callback at a time, but a configuration waits for the *)
(* engine's answer, a start for the host's, and a decoder outputs or fails *)
(* when it likes; the program behind it (app/src-tauri main.rs) stores the *)
(* session only after it has attached the renderer, and until then a       *)
(* request for a key frame goes nowhere.  The network is that of VideoPath *)
(* and is here a stream that loses what it likes.                          *)
(***************************************************************************)
EXTENDS Naturals, Sequences

CONSTANTS
  Dims,              \* sizes of the picture
  MaxAttempts,         \* bound: sessions started
  MaxTroubles,       \* bound: changes of the picture's size, frames lost,
                     \* errors of an engine that can decode
  MAX_DEC_RETRIES,
  DECODE_QUEUE_MAX,
  Mishaps            \* what a run lets happen of: "second start", a start while
                     \* another session is connecting or goes on; "late", a message
                     \* of a session after the next is started, or a picture of an old decoder after
                     \* one of a new; "early", anything but a picture
                     \* between attaching the renderer and storing the session

ASSUME PageAssumption ==
  /\ Mishaps \subseteq {"second start", "late", "early"}
  /\ {MAX_DEC_RETRIES, DECODE_QUEUE_MAX, MaxTroubles} \subseteq Nat

VARIABLES
  window,     \* "shell" or "main": which page this is
  engine,     \* "decodes", "refuses" (says so), "fails" (does not say so)
  attempts,     \* how far each start is
  stored,     \* the session that commands reach, 0: none
  streams,    \* of each session: what the page has been sent and not handled
  configs,    \* configurations that wait for the engine's answer
  decoders,   \* every decoder built
  view,       \* the page's own variables
  drawn,      \* the picture on the canvas: its size and the canvas's
  troubles    \* how often something went wrong

pageVars == <<window, engine, attempts, stored, streams, configs, decoders, view, drawn, troubles>>

Attempts == 1 .. MaxAttempts
Connecting == {"dialing", "asking", "attached", "stored"}

(* The page before a session: reset() and resetState().  The shell stops    *)
(* the timer it knows of; the main window lets its timers run.              *)
Fresh(v) ==
  [v EXCEPT !.decoder = 0, !.sawKeyframe = FALSE, !.decoded = FALSE, !.decErrors = 0, !.fatal = FALSE]
resetState(v) == Fresh(v)
reset(v) ==
  [Fresh(v) EXCEPT !.kickTimer = FALSE,
                   !.kicks = IF v.kickTimer THEN v.kicks - 1 ELSE v.kicks]
Reset(v) == IF window = "main" THEN resetState(v) ELSE reset(v)

Closed == [open |-> FALSE, lacks |-> "key", queue |-> <<>>]
Close(d) == [decoders EXCEPT ![d] = Closed]
CloseCurrent == IF view.decoder = 0 THEN decoders ELSE Close(view.decoder)

-----------------------------------------------------------------------------
(* The page has handled what an earlier session left it.                    *)
Settled == /\ configs = <<>> /\ \A d \in DOMAIN decoders : decoders[d].queue = <<>>
           /\ \A k \in Attempts : streams[k].mail = <<>>

(* A session, from the click to the promise.                                *)

startSession(k) ==
  /\ attempts[k] = "idle" /\ \A j \in 1 .. k - 1 : attempts[j] # "idle"
  /\ window = "main" => ~view.live           \* its button is disabled
  /\ window = "shell" => ~view.shown         \* its button is covered
  /\ "second start" \in Mishaps \/ \A j \in Attempts : attempts[j] \notin Connecting /\ ~streams[j].up
  /\ "late" \in Mishaps \/ Settled
  /\ decoders' = CloseCurrent /\ view' = [Reset(view) EXCEPT !.shown = TRUE]
  /\ drawn' = <<>> /\ attempts' = [attempts EXCEPT ![k] = "dialing"]
  /\ UNCHANGED <<window, engine, stored, streams, configs, troubles>>

Down == [up |-> FALSE, size |-> CHOOSE s \in Dims : TRUE, mail |-> <<>>, gate |-> FALSE, want |-> FALSE,
         told |-> FALSE]
Ended(k) == [streams EXCEPT ![k] = [Down EXCEPT !.mail = streams[k].mail]]

(* disconnect(): the stored session is taken out and ended.                 *)
DisconnectStored == /\ stored' = 0
                /\ streams' = IF stored = 0 THEN streams ELSE Ended(stored)

connect_to_host(k) ==
  /\ attempts[k] = "dialing" /\ DisconnectStored
  /\ attempts' = [attempts EXCEPT ![k] = "asking"]
  /\ UNCHANGED <<window, engine, configs, decoders, view, drawn, troubles>>

(* Denied, not reached, not allowed.                                        *)
ConnectFails(k) ==
  /\ attempts[k] = "asking" /\ k = MaxAttempts   \* bound: the last one
  /\ attempts' = [attempts EXCEPT ![k] = "failed"]
  /\ view' = [view EXCEPT !.live = FALSE]
  /\ UNCHANGED <<window, engine, stored, streams, configs, decoders, drawn, troubles>>

configure(s) == [is |-> "config", size |-> s]
push(kind, s) == [is |-> kind, size |-> s]

(* attach_renderer: the page is told the size, the gate is closed and a key *)
(* frame is asked for.                                                      *)
attach_renderer(k) ==
  /\ attempts[k] = "asking"
  /\ streams' = [streams EXCEPT ![k].up = TRUE, ![k].mail = <<configure(streams[k].size)>>, ![k].want = TRUE]
  /\ attempts' = [attempts EXCEPT ![k] = "attached"]
  /\ UNCHANGED <<window, engine, stored, configs, decoders, view, drawn, troubles>>

Store(k) ==
  /\ attempts[k] = "attached" /\ stored' = k
  /\ attempts' = [attempts EXCEPT ![k] = "stored"]
  /\ UNCHANGED <<window, engine, streams, configs, decoders, view, drawn, troubles>>

Resolves(k) ==
  /\ attempts[k] = "stored" /\ attempts' = [attempts EXCEPT ![k] = "live"]
  /\ view' = [view EXCEPT !.live = TRUE]
  /\ UNCHANGED <<window, engine, stored, streams, configs, decoders, drawn, troubles>>

-----------------------------------------------------------------------------
(* The stream of a session.                                                 *)

request_keyframe == IF stored = 0 \/ ~streams[stored].up THEN streams
                    ELSE [streams EXCEPT ![stored].want = TRUE]

Trouble == /\ troubles < MaxTroubles /\ troubles' = troubles + 1
           /\ attempts[MaxAttempts] = "live" \/ Mishaps # {}   \* bound: in the last session
MailRoom(k, n) == Len(streams[k].mail) < n   \* bound; a key frame has more
Late(k) == attempts[k] = "live" \/ "early" \in Mishaps

SendStream(k, messages, new) ==
  /\ streams[k].up
  /\ streams' = [streams EXCEPT ![k] = [new EXCEPT !.mail = @ \o messages]]
  /\ UNCHANGED <<window, engine, attempts, stored, configs, decoders, view, drawn>>

KeyFrame(k) ==
  /\ streams[k].want /\ MailRoom(k, 2) /\ UNCHANGED troubles
  /\ SendStream(k, <<push("key", streams[k].size)>>, [streams[k] EXCEPT !.want = FALSE, !.gate = TRUE])

Delta(k) ==
  /\ streams[k].gate /\ MailRoom(k, 1) /\ UNCHANGED troubles
  /\ SendStream(k, <<push("delta", streams[k].size)>>, streams[k])

(* The key frame of another size comes with its configuration.              *)
Resize(k, s) ==
  /\ Late(k) /\ s # streams[k].size /\ MailRoom(k, 1) /\ Trouble
  /\ SendStream(k, <<configure(s), push("key", s)>>,
                [streams[k] EXCEPT !.size = s, !.want = FALSE, !.gate = TRUE])

(* A gap: the gate closes until the key frame that is asked for.            *)
FrameDropped(k) ==
  /\ Trouble
  /\ SendStream(k, <<>>, [streams[k] EXCEPT !.want = TRUE, !.gate = FALSE])

HostEnds(k) ==
  /\ Late(k) /\ streams[k].up
  /\ streams' = [Ended(k) EXCEPT ![k].told = window = "main"]
  /\ UNCHANGED <<window, engine, attempts, stored, configs, decoders, view, drawn, troubles>>

(* "conn-status" with "ended", which the shell does not listen to.          *)
SessionOver(k) ==
  /\ streams[k].told
  /\ streams' = [streams EXCEPT ![k].told = FALSE] /\ view' = [view EXCEPT !.live = FALSE]
  /\ UNCHANGED <<window, engine, attempts, stored, configs, decoders, drawn, troubles>>

-----------------------------------------------------------------------------
(* The page's message handler.                                              *)

onConfig(size) ==
  /\ configs' = Append(configs, size)
  /\ UNCHANGED <<decoders, view>>

(* Frames meet the gate, then the guard of the queue, then the decoder.     *)
Gated(f) == view.decoder = 0 \/ (~view.sawKeyframe /\ f.is = "delta")
Behind(f) == f.is = "delta" /\ Len(decoders[view.decoder].queue) > DECODE_QUEUE_MAX

onFrame(f, ask) ==
  LET d == view.decoder IN
  /\ UNCHANGED configs
  /\ \/ /\ Gated(f)
        /\ ~ask /\ UNCHANGED <<decoders, view>>
     \/ /\ ~Gated(f) /\ Behind(f)
        /\ UNCHANGED view   \* it asks unless it has within 400 ms
        /\ decoders' = [decoders EXCEPT ![d].lacks = IF @ = "nothing" THEN "reference" ELSE @]
     \/ /\ ~Gated(f) /\ ~Behind(f)
        /\ Len(decoders[d].queue) < DECODE_QUEUE_MAX + 2   \* bound: for key frames
        /\ ~ask
        /\ view' = [view EXCEPT !.sawKeyframe = TRUE]
        /\ IF decoders[d].lacks = "key" /\ f.is = "delta"
           THEN UNCHANGED decoders         \* decode() threw
           ELSE decoders' = [decoders EXCEPT ![d].queue = Append(@, f.size),
                                             ![d].lacks = IF f.is = "key" THEN "nothing" ELSE @]

onMessage(k) ==
  /\ streams[k].mail # <<>>
  /\ LET msg == Head(streams[k].mail)
         Taken(all) == [all EXCEPT ![k].mail = Tail(@)] IN
     IF msg.is = "config" THEN onConfig(msg.size) /\ streams' = Taken(streams)
     ELSE \E ask \in BOOLEAN : /\ onFrame(msg, ask)
                               /\ streams' = Taken(IF ask THEN request_keyframe ELSE streams)
  /\ UNCHANGED <<window, engine, attempts, stored, drawn, troubles>>

buildDecoder == Append(decoders, [Closed EXCEPT !.open = TRUE])

(* The engine has answered: a decoder is built and a timer started that     *)
(* asks until a picture comes.  The old decoder is left to itself.          *)
ConfigChecked ==
  /\ configs # <<>> /\ configs' = Tail(configs)
  /\ IF engine = "refuses"
     THEN view' = [view EXCEPT !.fatal = TRUE] /\ UNCHANGED <<streams, decoders>>
     ELSE /\ decoders' = buildDecoder
          /\ view' = [view EXCEPT !.decErrors = 0, !.decoder = Len(decoders) + 1, !.canvas = Head(configs),
                                  !.kicks = @ + 1, !.kickTimer = TRUE]
          /\ streams' = request_keyframe
  /\ UNCHANGED <<window, engine, attempts, stored, drawn, troubles>>

(* Every 500 ms.  In the shell any timer stops the one last started.        *)
KickEnds == IF window = "main" THEN [view EXCEPT !.kicks = @ - 1]
            ELSE [view EXCEPT !.kicks = IF view.kickTimer THEN @ - 1 ELSE @, !.kickTimer = FALSE]
Kick ==
  /\ view.kicks > 0
  /\ IF view.decoded THEN view' = KickEnds /\ UNCHANGED streams
     ELSE streams' = request_keyframe /\ UNCHANGED view
  /\ UNCHANGED <<window, engine, attempts, stored, configs, decoders, drawn, troubles>>

(* A decoder's output, of whichever decoder.                                *)
DecoderOutput(d) ==
  /\ "late" \in Mishaps \/ \A e \in 1 .. d - 1 : decoders[e].queue = <<>>
  /\ decoders[d].open /\ decoders[d].queue # <<>> /\ engine = "decodes"
  /\ decoders' = [decoders EXCEPT ![d].queue = Tail(@)]
  /\ view' = [view EXCEPT !.decoded = TRUE, !.decErrors = 0]
  /\ drawn' = <<Head(decoders[d].queue), view.canvas>>
  /\ UNCHANGED <<window, engine, attempts, stored, streams, configs, troubles>>

(* A decoder's error, of whichever decoder.                                 *)
DecoderError(d) ==
  /\ decoders[d].open /\ decoders[d].queue # <<>>
  /\ \/ engine = "fails" /\ UNCHANGED troubles
     \/ engine = "decodes" /\ Trouble
  /\ IF view.decErrors + 1 > MAX_DEC_RETRIES
     THEN /\ decoders' = Close(d) /\ UNCHANGED streams
          /\ view' = [view EXCEPT !.decErrors = @ + 1, !.fatal = TRUE,
                                  !.decoder = IF @ = d THEN 0 ELSE @]
     ELSE /\ decoders' = [decoders EXCEPT ![d].queue = <<>>, ![d].lacks = "key"]
          /\ view' = [view EXCEPT !.decErrors = @ + 1, !.sawKeyframe = FALSE]
          /\ streams' = request_keyframe
  /\ UNCHANGED <<window, engine, attempts, stored, configs, drawn>>

(* Stop in the main window, which is enabled while a session is live.       *)
stopSession ==
  /\ window = "main" /\ view.live /\ DisconnectStored
  /\ decoders' = CloseCurrent /\ view' = [resetState(view) EXCEPT !.live = FALSE]
  /\ drawn' = <<>>
  /\ UNCHANGED <<window, engine, attempts, configs, troubles>>

(* The shell's, at any time: what is still connecting is not told.          *)
endSession ==
  /\ window = "shell" /\ view.shown
  /\ IF view.live
     THEN /\ DisconnectStored /\ decoders' = CloseCurrent /\ drawn' = <<>>
          /\ view' = [reset(view) EXCEPT !.live = FALSE, !.shown = FALSE]
     ELSE view' = [view EXCEPT !.shown = FALSE, !.fatal = FALSE] /\ UNCHANGED <<stored, streams, decoders, drawn>>
  /\ UNCHANGED <<window, engine, attempts, configs, troubles>>

-----------------------------------------------------------------------------
PageInit ==
  /\ window \in {"shell", "main"} /\ engine \in {"decodes", "refuses", "fails"}
  /\ attempts = [k \in Attempts |-> "idle"] /\ stored = 0
  /\ streams = [k \in Attempts |-> Down]
  /\ configs = <<>> /\ decoders = <<>> /\ drawn = <<>> /\ troubles = 0
  /\ view = [decoder |-> 0, sawKeyframe |-> FALSE, decoded |-> FALSE, decErrors |-> 0, fatal |-> FALSE,
             canvas |-> CHOOSE s \in Dims : TRUE,
             kicks |-> 0, kickTimer |-> FALSE, live |-> FALSE, shown |-> FALSE]

Connects(k) == \/ connect_to_host(k) \/ ConnectFails(k)
               \/ attach_renderer(k) \/ Store(k) \/ Resolves(k)

PageNext ==
  \/ \E k \in Attempts :
       \/ startSession(k) \/ Connects(k)
       \/ KeyFrame(k) \/ Delta(k) \/ FrameDropped(k) \/ HostEnds(k) \/ SessionOver(k)
       \/ \E s \in Dims : Resize(k, s)
       \/ onMessage(k)
  \/ ConfigChecked \/ Kick \/ stopSession \/ endSession
  \/ \E d \in DOMAIN decoders : DecoderOutput(d) \/ DecoderError(d)

DecoderAnswers == \E d \in DOMAIN decoders : DecoderOutput(d) \/ DecoderError(d)

(* The page's callbacks run, a connection attempt comes to an end, a        *)
(* decoder that was given something answers, and a host that is up sends    *)
(* the key frame it is asked for.                                           *)
PageFairness ==
  /\ WF_pageVars(ConfigChecked) /\ WF_pageVars(Kick)
  /\ WF_pageVars(DecoderAnswers)
  /\ \A k \in Attempts : /\ WF_pageVars(Connects(k)) /\ WF_pageVars(KeyFrame(k))
                         /\ WF_pageVars(onMessage(k)) /\ WF_pageVars(SessionOver(k))

PageSpec == PageInit /\ [][PageNext]_pageVars /\ PageFairness

-----------------------------------------------------------------------------
Watching == stored # 0 /\ attempts[stored] = "live" /\ streams[stored].up /\ view.shown
Lacks(what) == view.decoder # 0 /\ decoders[view.decoder].lacks = what

(* The last picture drawn has the stream's size and the canvas had it too,  *)
(* and the decoder can take the next delta.                                 *)
ShowsStream == LET s == streams[stored].size IN drawn = <<s, s>> /\ ~Lacks("key")

(* A viewer who is connected sees the stream, or is told that this engine   *)
(* cannot show it: whether the decoder is built before or after the session *)
(* is stored, whatever the stream loses, after an error of the decoder, and *)
(* after a change of size, whose key frame may go to the old decoder.       *)
PictureComes == Watching ~> (~Watching \/ view.fatal \/ ShowsStream)

(* What the host ends, the page stops showing as live.                      *)
EndIsShownBy(w) ==
  (window = w /\ view.live /\ stored # 0 /\ ~streams[stored].up) ~> (~view.live \/ stored = 0)
EndIsShown == EndIsShownBy("main")

-----------------------------------------------------------------------------
(* What the code does not keep; the README says of each what goes wrong.    *)

(* In the shell a session that the host ended stays live.                   *)
EndIsShownInShell == EndIsShownBy("shell")

(* "a keyframe is the only resync point": after deltas were dropped for the *)
(* backlog a key frame follows.  None is asked for within 400 ms of the     *)
(* last time.                                                               *)
SkipIsBridged == (Watching /\ Lacks("reference")) ~> (~Watching \/ ~Lacks("reference"))

(* "reconfigured atomically with that IDR": no delta is given to a decoder  *)
(* that has had no key frame.                                               *)
ResizeIsAtomic == [][\A k \in Attempts :
  onMessage(k) /\ Head(streams[k].mail).is = "delta" /\ view.sawKeyframe => ~Lacks("key")]_pageVars

(* A session that is live can be seen, and so be stopped.                   *)
LiveIsShown == view.live => view.shown

(* A timer ends when it has nothing to ask for any more.                    *)
KicksEnd == (view.decoded /\ view.kicks > 0) ~> (view.kicks = 0 \/ ~view.decoded)

(* With "second start": frames come from the session that commands reach.   *)
OneStream == \A k \in Attempts : attempts[k] = "live" /\ streams[k].up => stored = k
=============================================================================
