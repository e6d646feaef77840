----------------------------- MODULE FileTransfer -----------------------------
(***************************************************************************)
(* The file push (crates/ras-core session.rs, crates/ras-files, the sender  *)
(* of app/ui/main.js): an offer, the local prompt that runs off the control *)
(* loop, the chunks and the completion, against transport losses, a full    *)
(* command queue, and a stop on another thread.  A chunk is named by the    *)
(* offer it was read for and its place in the file, and stands for its      *)
(* bytes.                                                                   *)
(***************************************************************************)
EXTENDS Naturals, Sequences, FiniteSets

CONSTANTS
  MaxOffers,   \* bound: offers the sender makes
  MaxSize,     \* bound: chunks in a file
  MaxQueue     \* bound: messages under way in each direction

ASSUME TransferAssumption == MaxOffers \in Nat /\ MaxSize \in Nat /\ MaxQueue \in Nat

Offers == 1 .. MaxOffers
None == 0

VARIABLES
  size,       \* offer -> size the sender declared
  sender,     \* [offer, phase, next]: the sending user interface
  toHost, toSender,   \* the control stream
  stop,       \* the host's stop flag
  ctl,        \* [pc, ...]: where the host's control task is
  prompt,     \* the file-consent prompt running off the loop
  allowed,    \* history: offers the host's user allowed
  transfer,   \* active_transfer: [offer, received]
  writer,       \* the offer whose file the write sink has open
  dest,       \* offer -> [kind, data]: the file at the offer's destination
  stopper     \* the thread that won the stop flag

senderVars == <<size, sender>>
fileVars == <<transfer, writer, dest>>
hostVars == <<stop, ctl, prompt, allowed, stopper>>
transferVars == <<senderVars, toHost, toSender, hostVars, fileVars>>

NoTransfer == [offer |-> None, received |-> 0]
At(pc) == [pc |-> pc]
Absent == [kind |-> "absent", data |-> <<>>]

(* The control task cannot be aborted between two awaits.                   *)
Awaiting == { "loop", "reply" }

FileInit ==
  /\ size = [o \in Offers |-> 0]
  /\ sender = [offer |-> None, phase |-> "idle", next |-> 1]
  /\ toHost = <<>> /\ toSender = <<>>
  /\ stop = FALSE /\ ctl = At("loop") /\ stopper = "none"
  /\ prompt = [state |-> "none"] /\ allowed = {}
  /\ transfer = NoTransfer /\ writer = None /\ dest = [o \in Offers |-> Absent]

-------------------------------------------------------------------------------
(* The sender.  A command for which the session's queue is full is dropped. *)

Post(msg) ==
  /\ Len(toHost) < MaxQueue   \* bound
  /\ toHost' \in { toHost, Append(toHost, msg) }

Offer(n) ==
  /\ sender.phase = "idle" /\ sender.offer < MaxOffers   \* bound
  /\ sender' = [offer |-> sender.offer + 1, phase |-> "wait", next |-> 1]
  /\ size' = [size EXCEPT ![sender.offer + 1] = n]
  /\ Post([kind |-> "offer", offer |-> sender.offer + 1])
  /\ UNCHANGED <<toSender, hostVars, fileVars>>

(* The accept timer, which tells the host that nothing more comes, or the   *)
(* user's cancel, of which shell.js tells it and main.js does not.          *)
SenderGivesUp ==
  /\ sender.phase = "wait"
  /\ UNCHANGED toHost \/ Post([kind |-> "complete"])
  /\ sender' = [sender EXCEPT !.phase = "idle"]
  /\ UNCHANGED <<size, toSender, hostVars, fileVars>>

(* FileAccept and FileReject do not name their offer: each settles whatever *)
(* wait is open.                                                            *)
SenderHears ==
  /\ toSender # <<>>
  /\ toSender' = Tail(toSender)
  /\ sender' = IF sender.phase # "wait" THEN sender
               ELSE [sender EXCEPT !.phase = IF Head(toSender) = "accept" THEN "stream" ELSE "idle"]
  /\ UNCHANGED <<size, toHost, hostVars, fileVars>>

SendChunk ==
  /\ sender.phase = "stream" /\ sender.next <= size[sender.offer]
  /\ Post([kind |-> "chunk", offer |-> sender.offer, place |-> sender.next])
  /\ sender' = [sender EXCEPT !.next = @ + 1]
  /\ UNCHANGED <<size, toSender, hostVars, fileVars>>

(* After the last chunk, or when the user cancels.                          *)
SendComplete ==
  /\ sender.phase = "stream"
  /\ Post([kind |-> "complete"])
  /\ sender' = [sender EXCEPT !.phase = "idle"]
  /\ UNCHANGED <<size, toSender, hostVars, fileVars>>

-------------------------------------------------------------------------------
(* The host's control task.                                                 *)

Reads(kind) ==
  /\ ctl.pc = "loop" /\ toHost # <<>> /\ Head(toHost).kind = kind
  /\ toHost' = Tail(toHost)

Replies(reply) == ctl' = [pc |-> "reply", reply |-> reply]

ReceiveOffer_WhileActive ==   \* mutant of ReceiveOffer: a second transfer may start
  /\ Reads("offer")
  /\ LET o == Head(toHost).offer IN
     IF stop \/ prompt.state # "none"
       THEN Replies("reject") /\ UNCHANGED prompt
       ELSE prompt' = [state |-> "open", offer |-> o] /\ UNCHANGED ctl
  /\ UNCHANGED <<senderVars, toSender, stop, allowed, stopper, fileVars>>

(* host_precheck_file_offer: refused while stopping, while a prompt is open *)
(* or a transfer active, or by the policy; otherwise the user is prompted.  *)
ReceiveOffer ==
  /\ Reads("offer")
  /\ LET o == Head(toHost).offer
         refused == Replies("reject") /\ UNCHANGED prompt
     IN \/ refused
        \/ /\ ~stop /\ prompt.state = "none" /\ transfer = NoTransfer
           /\ prompt' = [state |-> "open", offer |-> o] /\ UNCHANGED ctl
  /\ UNCHANGED <<senderVars, toSender, stop, allowed, stopper, fileVars>>

UserAnswers(yes) ==
  /\ prompt.state = "open"
  /\ prompt' = [state |-> "answered", offer |-> prompt.offer, yes |-> yes]
  /\ allowed' = IF yes THEN allowed \cup { prompt.offer } ELSE allowed
  /\ UNCHANGED <<senderVars, toHost, toSender, stop, ctl, stopper, fileVars>>

(* host_finish_file_offer: the answer and the stop flag, then the sink is     *)
(* opened, then the transfer is armed, then the reply is sent.              *)
ConsentResolved ==
  /\ ctl.pc = "loop" /\ prompt.state = "answered"
  /\ prompt' = [state |-> "none"]
  /\ IF stop \/ ~prompt.yes THEN Replies("reject")
                            ELSE ctl' = [pc |-> "open", offer |-> prompt.offer]
  /\ UNCHANGED <<senderVars, toHost, toSender, stop, allowed, stopper, fileVars>>

(* SafeFileWriter::open replaces whatever it had open.                      *)
OpenSink ==
  /\ ctl.pc = "open"
  /\ \/ /\ writer' = ctl.offer /\ dest' = [dest EXCEPT ![ctl.offer] = [kind |-> "partial", data |-> <<>>]]
        /\ ctl' = [ctl EXCEPT !.pc = "arm"]
     \/ Replies("reject") /\ UNCHANGED <<writer, dest>>
  /\ UNCHANGED <<senderVars, toHost, toSender, stop, prompt, allowed, stopper, transfer>>

ArmTransfer ==
  /\ ctl.pc = "arm"
  /\ transfer' = [offer |-> ctl.offer, received |-> 0]
  /\ Replies("accept")
  /\ UNCHANGED <<senderVars, toHost, toSender, stop, prompt, allowed, stopper, writer, dest>>

(* A reply that cannot be sent ends the loop.                               *)
SendReply ==
  /\ ctl.pc = "reply"
  /\ \/ /\ Len(toSender) < MaxQueue   \* bound
        /\ toSender' = Append(toSender, ctl.reply) /\ ctl' = At("loop")
     \/ ctl' = At("final") /\ UNCHANGED toSender
  /\ UNCHANGED <<senderVars, toHost, stop, prompt, allowed, stopper, fileVars>>

(* SafeFileWriter::abort: the open file is removed; nothing open, nothing   *)
(* done.                                                                    *)
AbortSink ==
  /\ dest' = IF writer = None THEN dest ELSE [dest EXCEPT ![writer] = Absent]
  /\ writer' = None

ReadChunk ==
  /\ Reads("chunk")
  /\ ctl' = IF stop THEN ctl ELSE [pc |-> "write", chunk |-> Head(toHost)]
  /\ UNCHANGED <<senderVars, toSender, stop, prompt, allowed, stopper, fileVars>>

(* Under the active_transfer lock: a stray chunk is ignored, one over the   *)
(* offered size or one that cannot be written ends the transfer.            *)
WriteChunk ==
  /\ ctl.pc = "write"
  /\ \/ transfer = NoTransfer /\ ctl' = At("loop") /\ UNCHANGED <<transfer, dest>>
     \/ /\ transfer # NoTransfer
        /\ transfer' = NoTransfer /\ ctl' = At("discard") /\ UNCHANGED dest
     \/ /\ transfer # NoTransfer /\ transfer.received < size[transfer.offer] /\ writer # None
        /\ transfer' = [transfer EXCEPT !.received = @ + 1]
        /\ dest' = [dest EXCEPT ![writer].data = Append(@, ctl.chunk)]
        /\ ctl' = At("loop")
  /\ UNCHANGED <<senderVars, toHost, toSender, stop, prompt, allowed, stopper, writer>>

(* The abort of a transfer that failed; the FileReject it makes is dropped. *)
DiscardFile ==
  /\ ctl.pc = "discard"
  /\ AbortSink /\ ctl' = At("loop")
  /\ UNCHANGED <<senderVars, toHost, toSender, stop, prompt, allowed, stopper, transfer>>

ReadComplete ==
  /\ Reads("complete")
  /\ IF stop THEN transfer' = NoTransfer /\ AbortSink /\ UNCHANGED ctl
             ELSE ctl' = At("complete") /\ UNCHANGED <<transfer, writer, dest>>
  /\ UNCHANGED <<senderVars, toSender, stop, prompt, allowed, stopper>>

TakeTransfer_AnyTotal ==   \* mutant of TakeTransfer: a short transfer is finished
  /\ ctl.pc = "complete"
  /\ transfer' = NoTransfer
  /\ ctl' = At(IF transfer = NoTransfer THEN "loop" ELSE "finish")
  /\ UNCHANGED <<senderVars, toHost, toSender, stop, prompt, allowed, stopper, writer, dest>>

TakeTransfer ==
  /\ ctl.pc = "complete"
  /\ transfer' = NoTransfer
  /\ ctl' = At(IF transfer = NoTransfer THEN "loop"
               ELSE IF transfer.received = size[transfer.offer] THEN "finish" ELSE "discard")
  /\ UNCHANGED <<senderVars, toHost, toSender, stop, prompt, allowed, stopper, writer, dest>>

(* SafeFileWriter::finish lets go of the file before it syncs it: when the  *)
(* sync fails, the abort that follows finds nothing to remove.              *)
FinishFile ==
  /\ ctl.pc = "finish" /\ writer # None
  /\ writer' = None
  /\ \/ dest' = [dest EXCEPT ![writer].kind = "kept"] /\ ctl' = At("loop")
     \/ dest' = [dest EXCEPT ![writer].kind = "unsynced"] /\ ctl' = At("discard")
  /\ UNCHANGED <<senderVars, toHost, toSender, stop, prompt, allowed, stopper, transfer>>

-------------------------------------------------------------------------------
(* Losses and ends.                                                         *)

(* The connection is lost and served again: what was under way is lost; the *)
(* transfer, the prompt and the sender's state stay.                        *)
TransportLost ==
  /\ ctl.pc = "loop"
  /\ \E n \in 0 .. Len(toHost) : toHost' = SubSeq(toHost, 1, n)
  /\ \E n \in 0 .. Len(toSender) : toSender' = SubSeq(toSender, 1, n)
  /\ <<toHost, toSender>>' # <<toHost, toSender>>
  /\ UNCHANGED <<senderVars, hostVars, fileVars>>

(* A Bye of either side or a failed re-serve.                               *)
LoopEnds ==
  /\ ctl.pc = "loop"
  /\ ctl' = At("final") /\ stop' = TRUE
  /\ UNCHANGED <<senderVars, toHost, toSender, prompt, allowed, stopper, fileVars>>

AbortTransfer ==
  /\ transfer' = NoTransfer
  /\ IF transfer = NoTransfer THEN UNCHANGED <<writer, dest>> ELSE AbortSink

FinalAbort ==
  /\ ctl.pc = "final" /\ ctl' = At("gone")
  /\ AbortTransfer
  /\ UNCHANGED <<senderVars, toHost, toSender, stop, prompt, allowed, stopper>>

StopCalled ==
  /\ ~stop
  /\ stop' = TRUE /\ stopper' = "join"
  /\ UNCHANGED <<senderVars, toHost, toSender, ctl, prompt, allowed, fileVars>>

(* The control task has ended or the grace is over.                         *)
StopJoins ==
  /\ stopper = "join" /\ stopper' = "abort"
  /\ UNCHANGED <<senderVars, toHost, toSender, stop, ctl, prompt, allowed, fileVars>>

(* An abort takes effect where the task awaits.                             *)
TaskAborted ==
  /\ stopper \in { "abort", "done" } /\ ctl.pc \in Awaiting
  /\ ctl' = At("aborted")
  /\ UNCHANGED <<senderVars, toHost, toSender, stop, prompt, allowed, stopper, fileVars>>

StopAbortsTransfer ==
  /\ stopper = "abort" /\ stopper' = "done"
  /\ AbortTransfer
  /\ UNCHANGED <<senderVars, toHost, toSender, stop, ctl, prompt, allowed>>

-------------------------------------------------------------------------------
HostSteps ==
  \/ ReceiveOffer \/ ConsentResolved \/ OpenSink \/ ArmTransfer \/ SendReply
  \/ ReadChunk \/ WriteChunk \/ DiscardFile \/ ReadComplete \/ TakeTransfer \/ FinishFile
  \/ FinalAbort

FileNext ==
  \/ \E n \in 1 .. MaxSize : Offer(n)
  \/ SenderGivesUp \/ SenderHears \/ SendChunk \/ SendComplete
  \/ HostSteps \/ (\E yes \in BOOLEAN : UserAnswers(yes))
  \/ TransportLost \/ LoopEnds
  \/ StopCalled \/ StopJoins \/ TaskAborted \/ StopAbortsTransfer

FileSpec == FileInit /\ [][FileNext]_transferVars

(* The control task goes on; nothing is assumed of users and the network.   *)
FairFileSpec == FileSpec /\ WF_transferVars(HostSteps)

-------------------------------------------------------------------------------
(* Properties.                                                              *)

Pcs == { "loop", "reply", "open", "arm", "write", "discard", "complete", "finish",
         "final", "gone", "aborted" }

(* Type correctness; the transfer never counts more than was offered.       *)
FileTypeOK ==
  /\ size \in [Offers -> 0 .. MaxSize]
  /\ sender.offer \in 0 .. MaxOffers /\ sender.phase \in { "idle", "wait", "stream" }
  /\ sender.next \in 1 .. MaxSize + 1
  /\ Len(toHost) <= MaxQueue /\ Len(toSender) <= MaxQueue
  /\ stop \in BOOLEAN /\ ctl.pc \in Pcs
  /\ prompt.state \in { "none", "open", "answered" } /\ allowed \subseteq Offers
  /\ transfer = NoTransfer \/ (transfer.offer \in Offers /\ transfer.received \in 0 .. size[transfer.offer])
  /\ writer \in 0 .. MaxOffers
  /\ \A o \in Offers : dest[o].kind \in { "absent", "partial", "kept", "unsynced" }
  /\ stopper \in { "none", "join", "abort", "done" }

(* An unfinished file is always the one the sink has open: no second offer,   *)
(* late consent or reconnect replaces it and leaves it behind.              *)
NoOrphan == \A o \in Offers : dest[o].kind = "partial" => writer = o

(* A file that is kept was allowed by the local user and has the offered    *)
(* size; its chunks are in the order in which the sender read them, and if  *)
(* all are of the file offered, it is whole - though chunks are lost to a   *)
(* full queue or to a cut, a cancel comes in between and offers overlap.    *)
KeptIsWhole ==
  \A o \in Offers : dest[o].kind = "kept" =>
     LET data == dest[o].data IN
     /\ o \in allowed /\ Len(data) = size[o]
     /\ \A i, j \in DOMAIN data : i < j =>
          \/ data[i].offer < data[j].offer
          \/ data[i].offer = data[j].offer /\ data[i].place < data[j].place
     /\ (\A k \in DOMAIN data : data[k].offer = o) => \A k \in DOMAIN data : data[k].place = k

(* A control task that came to its own end leaves no unfinished file.       *)
CleanEnd == ctl.pc = "gone" => \A o \in Offers : dest[o].kind # "partial"

(* Nothing unfinished is left behind, by another offer or by the end.       *)
NothingLeftBehind == NoOrphan /\ CleanEnd

(* What the comments say, which the code does not do.                       *)

(* "per-transfer local consent": the file kept is the file allowed.         *)
KeptIsAllowed ==
  \A o \in Offers : dest[o].kind = "kept" => \A k \in DOMAIN dest[o].data : dest[o].data[k].offer = o

(* "never persist a file on a revoked session".                             *)
NothingKeptAfterStop ==
  [][stop => \A o \in Offers : dest[o].kind # "kept" => dest'[o].kind # "kept"]_transferVars

(* "Abort (discard the partial/undurable file)".                            *)
UndurableDiscarded == ctl.pc = "loop" => \A o \in Offers : dest[o].kind # "unsynced"

(* "Abort any in-progress file transfer on teardown - discard the partial". *)
NothingPartialAfterStop ==
  stopper = "done" /\ ctl.pc \in { "gone", "aborted" } =>
    \A o \in Offers : dest[o].kind # "partial"

(* "reject ... rather than silently reporting success to the peer".         *)
FailureReachesSender ==
  ctl.pc = "discard" ~> (stop \/ \E i \in DOMAIN toSender : toSender[i] = "reject")
===============================================================================
