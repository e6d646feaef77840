------------------------------ MODULE AudioPath ------------------------------
(***************************************************************************)
(* The host's sound on its way to the controller: audio_pump (capture,     *)
(* OpusEncoder, the shared sink slot), the transport's AudioSink with its  *)
(* writer task, and what around them can change underneath: a stop, a lost *)
(* connection, a re-attach, a capture device that has to be restarted.     *)
(* Samples are counted in fractions of an Opus frame; a packet is its      *)
(* sequence number and its format.                                         *)
(***************************************************************************)
EXTENDS Naturals, Sequences, FiniteSets

CONSTANTS AudioFormats,    \* what a device can be opened at
          OpusFormats,     \* those of them OpusEncoder takes
          SameFormat,      \* a device keeps its format when it is restarted
          Frame,           \* samples in a frame
          MaxChunk,        \* samples in one chunk
          QueueDepth,      \* AudioSink::QUEUE_DEPTH
          MaxPackets, MaxConns, MaxRestarts

ASSUME AudioAssumption ==
  /\ OpusFormats \subseteq AudioFormats
  /\ SameFormat \in BOOLEAN /\ Frame \in Nat \ {0} /\ MaxChunk \in Nat \ {0}
  /\ QueueDepth \in Nat \ {0} /\ MaxConns \in Nat \ {0}
  /\ MaxPackets \in Nat /\ MaxRestarts \in Nat

VARIABLES
  stopAudio,   \* the session's stop flag
  pump,        \* where audio_pump is
  microphone,  \* the capture device: on, and its format
  opus,     \* OpusEncoder: its format, samples pending, the next number
  packet,      \* the packet between encode and send
  sinkSlot,    \* the connection whose sink is armed
  queue,       \* AudioSink's channel, by connection
  writer,      \* its task, by connection
  link,        \* connections that are up, and the newest
  rearming,    \* a re-attach between its look at stop and the slot
  joined,      \* join_audio has returned
  restarts     \* restarts of the device

audioVars == <<stopAudio, pump, microphone, opus, packet, sinkSlot, queue, writer, link,
               rearming, joined, restarts>>

Conns == 1 .. MaxConns

AudioInit ==
  /\ stopAudio = FALSE /\ pump = "start"
  /\ \E f \in AudioFormats :
       /\ microphone = [on |-> FALSE, fmt |-> f]
       /\ opus = [fmt |-> f, pending |-> 0, seq |-> 0]
       /\ packet = [seq |-> 0, fmt |-> f]
  /\ sinkSlot = 1 /\ queue = [c \in Conns |-> <<>>] /\ writer = [c \in Conns |-> TRUE]
  /\ link = [up |-> {1}, newest |-> 1] /\ rearming = FALSE
  /\ joined = FALSE /\ restarts = 0

pumpRest == <<stopAudio, sinkSlot, writer, link, rearming, joined>>

-----------------------------------------------------------------------------
(* audio_pump.                                                              *)

StartsCapture ==
  /\ pump = "start" /\ pump' = "configure" /\ microphone' = [microphone EXCEPT !.on = TRUE]
  /\ UNCHANGED <<opus, packet, queue, restarts, pumpRest>>
CaptureRefused ==
  /\ pump = "start" /\ pump' = "ended"
  /\ UNCHANGED <<microphone, opus, packet, queue, restarts, pumpRest>>

Configures ==
  /\ pump = "configure"
  /\ IF microphone.fmt \in OpusFormats
     THEN /\ opus' = [fmt |-> microphone.fmt, pending |-> 0, seq |-> 0]
          /\ pump' = "pull" /\ UNCHANGED microphone
     ELSE /\ pump' = "ended" /\ microphone' = [microphone EXCEPT !.on = FALSE]
          /\ UNCHANGED opus
  /\ UNCHANGED <<packet, queue, restarts, pumpRest>>

(* The loop's head.                                                         *)
LoopSeesStop == pump = "pull" /\ stopAudio
Leaves == LoopSeesStop /\ pump' = "close"
          /\ UNCHANGED <<microphone, opus, packet, queue, restarts, pumpRest>>

(* encode() takes the chunk in and gives at most one packet back.           *)
Encoded(n) ==
  LET held == opus.pending + n
  IN IF held < Frame THEN [opus EXCEPT !.pending = held]
                     ELSE [opus EXCEPT !.pending = held - Frame, !.seq = @ + 1]

Pulls(n) ==
  /\ pump = "pull" /\ ~stopAudio /\ opus.seq < MaxPackets
  /\ opus' = Encoded(n)
  /\ IF opus'.seq = opus.seq
     THEN pump' = "pull" /\ UNCHANGED packet
     ELSE pump' = "check" /\ packet' = [seq |-> opus'.seq, fmt |-> opus.fmt]
  /\ UNCHANGED <<microphone, queue, restarts, pumpRest>>

(* A recoverable error of the device: it is started again, the codec is  *)
(* left as it was.                                                          *)
Reopened == IF SameFormat THEN {microphone.fmt} ELSE AudioFormats
Restarts ==
  /\ pump = "pull" /\ ~stopAudio /\ restarts < MaxRestarts /\ restarts' = restarts + 1
  /\ \/ \E f \in Reopened : microphone' = [on |-> TRUE, fmt |-> f] /\ pump' = "pull"
     \/ microphone' = [microphone EXCEPT !.on = FALSE] /\ pump' = "close"
  /\ UNCHANGED <<opus, packet, queue, pumpRest>>

(* A fatal error of the device or of Opus.                                  *)
Breaks == pump = "pull" /\ ~stopAudio /\ pump' = "close"
          /\ UNCHANGED <<microphone, opus, packet, queue, restarts, pumpRest>>

(* The second look at the flag, and the send after it.                      *)
Checks ==
  /\ pump = "check" /\ pump' = IF stopAudio THEN "close" ELSE "send"
  /\ UNCHANGED <<microphone, opus, packet, queue, restarts, pumpRest>>

Room(c) == writer[c] /\ Len(queue[c]) < QueueDepth

Sends ==
  /\ pump = "send" /\ pump' = "pull"
  /\ queue' = IF Room(sinkSlot) THEN [queue EXCEPT ![sinkSlot] = Append(@, packet)] ELSE queue
  /\ UNCHANGED <<microphone, opus, packet, restarts, pumpRest>>

AfterTheLoop == [microphone EXCEPT !.on = FALSE]
Closes ==
  /\ pump = "close" /\ pump' = "ended" /\ microphone' = AfterTheLoop
  /\ UNCHANGED <<opus, packet, queue, restarts, pumpRest>>

-----------------------------------------------------------------------------
(* The session around it.                                                   *)

hostRest == <<pump, microphone, opus, packet, restarts>>

StopsSound == ~stopAudio /\ stopAudio' = TRUE
              /\ UNCHANGED <<hostRest, sinkSlot, queue, writer, link, rearming, joined>>

JoinReady == stopAudio /\ pump = "ended"
Joins == JoinReady /\ ~joined /\ joined' = TRUE
         /\ UNCHANGED <<hostRest, stopAudio, sinkSlot, queue, writer, link, rearming>>

LinkLost ==
  /\ link.up # {} /\ link' = [link EXCEPT !.up = {}]
  /\ UNCHANGED <<hostRest, stopAudio, sinkSlot, queue, writer, rearming, joined>>

(* accept_reconnect: a new connection, and later its sink in the slot.      *)
Reattaches ==
  /\ ~stopAudio /\ ~rearming /\ link.up = {} /\ link.newest < MaxConns
  /\ link' = [up |-> {link.newest + 1}, newest |-> link.newest + 1] /\ rearming' = TRUE
  /\ UNCHANGED <<hostRest, stopAudio, sinkSlot, queue, writer, joined>>
Rearms ==
  /\ rearming /\ rearming' = FALSE /\ sinkSlot' = link.newest
  /\ UNCHANGED <<hostRest, stopAudio, queue, writer, link, joined>>

(* AudioSink's task: one datagram per packet, over for good with the        *)
(* connection.                                                              *)
Writes(c) ==
  /\ writer[c] /\ queue[c] # <<>>
  /\ IF c \in link.up
     THEN queue' = [queue EXCEPT ![c] = Tail(@)] /\ UNCHANGED writer
     ELSE writer' = [writer EXCEPT ![c] = FALSE] /\ queue' = [queue EXCEPT ![c] = <<>>]
  /\ UNCHANGED <<hostRest, stopAudio, sinkSlot, link, rearming, joined>>

PumpSteps ==
  \/ StartsCapture \/ CaptureRefused \/ Configures \/ Leaves \/ Breaks \/ Checks \/ Sends \/ Closes
  \/ Restarts \/ \E n \in 1 .. MaxChunk : Pulls(n)

AudioNext ==
  \/ PumpSteps \/ StopsSound \/ Joins \/ LinkLost \/ Reattaches \/ Rearms
  \/ \E c \in Conns : Writes(c)

(* The pump's thread runs, next_chunk has a time limit, and the teardown    *)
(* waits for the thread.                                                    *)
AudioFairness == WF_audioVars(PumpSteps) /\ WF_audioVars(Joins)
AudioSpec == AudioInit /\ [][AudioNext]_audioVars /\ AudioFairness

-----------------------------------------------------------------------------
Packets == [seq : 0 .. MaxPackets, fmt : AudioFormats]
AudioTypeOK ==
  /\ stopAudio \in BOOLEAN /\ rearming \in BOOLEAN /\ joined \in BOOLEAN
  /\ pump \in {"start", "configure", "pull", "check", "send", "close", "ended"}
  /\ microphone \in [on : BOOLEAN, fmt : AudioFormats]
  /\ opus \in [fmt : AudioFormats, pending : Nat, seq : 0 .. MaxPackets]
  /\ packet \in Packets /\ sinkSlot \in Conns
  /\ \A c \in Conns : queue[c] \in Seq(Packets) /\ Len(queue[c]) <= QueueDepth
  /\ writer \in [Conns -> BOOLEAN] /\ link.up \subseteq Conns /\ link.newest \in Conns
  /\ restarts \in 0 .. MaxRestarts

(* Once the teardown has joined the pump the device is off: whichever way   *)
(* the loop ended, no microphone light stays on behind a stopped session.   *)
SoundIsOff == joined => ~microphone.on

(* Sound waits in the encoder for less than a frame.  Does not hold: the    *)
(* capture back ends hand over all they have, and encode() gives at most    *)
(* one packet for it.                                                       *)
NoBacklog == opus.pending < Frame

(* After the join no packet is queued any more.                             *)
QuietAfterJoin == [][joined => \A c \in Conns : Len(queue'[c]) <= Len(queue[c])]_audioVars

(* A stop ends the pump and is joined.                                      *)
StopEndsSound == stopAudio ~> joined

(* The comment of audio_pump: a teardown never lets one last packet escape. *)
NothingAfterStop == [][stopAudio => \A c \in Conns : Len(queue'[c]) <= Len(queue[c])]_audioVars

(* The samples are in the format the opus was configured with.           *)
EncoderMatchesDevice == pump \in {"pull", "check", "send"} => opus.fmt = microphone.fmt
=============================================================================
