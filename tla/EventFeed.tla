------------------------------- MODULE EventFeed -------------------------------
(***************************************************************************)
(* The lifecycle events of one session (ras-core, event.rs) and who reads   *)
(* them: the viewer window on the controller's side (drain_viewer_lifecycle)*)
(* and on the host's the share loop or the headless host (serve_one of      *)
(* each).  The stream is bounded and a session never waits for it: an event *)
(* that finds it full, or its reader gone, is lost.                         *)
(*                                                                          *)
(* Of an event there is its kind, and a "note" is any kind that a reader    *)
(* shows as it comes and draws no conclusion from: chat, quality, pointer.  *)
(* Whoever reports something changes the session first and emits the event  *)
(* after that, in a step of its own: another thread, and where there is an  *)
(* await in between any other task, may come first.                         *)
(***************************************************************************)
EXTENDS Integers, Sequences

CONSTANTS
  Readers,      \* the readers a behaviour may be about, one at a time
  Depth,        \* LIFECYCLE_DEPTH, 32 in the code
  MaxEvents     \* bound: events a session reports, those of its end not counted

Hosts == {"share", "headless"}

(* The events of a start, up to five, find room.                            *)
ASSUME FeedAssumption ==
  /\ Readers \subseteq {"viewer"} \cup Hosts /\ Readers # {}
  /\ Depth \in Nat /\ Depth >= 5 /\ MaxEvents \in Nat

VARIABLES
  who,        \* the reader
  session,    \* where it is, what its tasks are at, and what they have yet to emit
  stream,     \* the events that have not been read
  reader,     \* "reading" or "left"
  told,       \* what the reader shows of the session, and whether the marker of remote control
  missed,     \* history: the last event that mattered to the reader found no room
  emitted

feedVars == <<who, session, stream, reader, told, missed, emitted>>

Ends == {"Disconnected", "SessionEnded", "Revoked"}
Leases == {"LeaseGranted", "LeaseEnded"}
Kinds == {"Suspended", "Resumed", "note"} \cup Leases \cup Ends

(* What a reader concludes from an event about the session.                 *)
Tells(e) ==
  CASE e \in Ends -> "ended"
    [] e = "Suspended" -> "suspended"
    [] e = "Resumed" -> "active"
    [] OTHER -> "nothing"

(* LifecycleSink.emit.  In a session that has ended only another end makes  *)
(* up for the end that was lost.                                            *)
Emit(e) ==
  IF reader = "left" THEN UNCHANGED <<stream, missed>>
  ELSE /\ stream' = IF Len(stream) < Depth THEN Append(stream, e) ELSE stream
       /\ missed' = IF Tells(e) = "nothing" THEN missed
                    ELSE \/ Len(stream) = Depth
                         \/ missed /\ session.st = "ended" /\ e \notin Ends

(* The three events of a start, to which a host's may add where its display *)
(* is and what it is.                                                       *)
Starts == {<<"note", "note", "note">>, <<"note", "note", "note", "note">>,
           <<"note", "note", "note", "note", "note">>}

FeedInit ==
  /\ who \in Readers
  /\ session = [st |-> "active", stop |-> FALSE, loop |-> TRUE, redial |-> FALSE,
                owes |-> "nothing", leaving |-> FALSE, kept |-> TRUE, lease |-> FALSE]
  /\ stream \in Starts /\ (Len(stream) > 3 => who \in Hosts)
  /\ reader = "reading"
  /\ told = [st |-> "active", control |-> FALSE]
  /\ missed = FALSE /\ emitted = 0
-------------------------------------------------------------------------------
(* The control task *)

Counted == emitted < MaxEvents /\ emitted' = emitted + 1
Goes(s) == session' = s
Keeps == UNCHANGED <<who, reader, told>>
Silent == UNCHANGED <<stream, missed>>
Free == session.loop /\ ~session.redial /\ session.owes = "nothing"

Notes ==
  /\ Free \/ (who \in Hosts /\ ~session.stop)
  /\ Counted /\ Emit("note") /\ UNCHANGED session /\ Keeps

(* What the task has to report it emits before it does anything else; of a  *)
(* host's Bye it makes two events.                                          *)
Owed ==
  /\ session.owes # "nothing"
  /\ Goes([session EXCEPT !.owes = IF @ = "Disconnected" THEN "SessionEnded" ELSE "nothing"])
  /\ Emit(session.owes) /\ Keeps /\ UNCHANGED emitted

(* controller_handle_loss *)
Suspends ==
  /\ who = "viewer" /\ Free /\ ~session.stop /\ Counted
  /\ Goes([session EXCEPT !.st = "suspended", !.redial = TRUE, !.owes = "Suspended"])
  /\ Silent /\ Keeps

(* controller_redial, which looks at the stop flag at its start only.       *)
Resumes ==
  /\ session.redial /\ session.owes = "nothing"
  /\ Goes([session EXCEPT !.redial = FALSE, !.owes = "Resumed",
                          !.st = IF @ = "suspended" THEN "active" ELSE @])
  /\ Silent /\ Keeps /\ UNCHANGED emitted

(* The window of the re-dial passes, or the host refuses: an end, unless    *)
(* disconnect has made one of it.                                           *)
RedialFails ==
  /\ session.redial /\ session.owes = "nothing"
  /\ Goes([session EXCEPT !.redial = FALSE, !.loop = FALSE, !.stop = TRUE, !.st = "ended",
                          !.owes = IF session.st = "suspended" THEN "SessionEnded" ELSE @])
  /\ Silent /\ Keeps /\ UNCHANGED emitted

(* The host's Bye ends it whatever disconnect may have said before.         *)
ByeArrives ==
  /\ who = "viewer" /\ Free
  /\ Goes([session EXCEPT !.stop = TRUE, !.loop = FALSE, !.st = "ended", !.owes = "Disconnected"])
  /\ Silent /\ Keeps /\ UNCHANGED emitted

(* The answer to a control request.  A refusal says that the lease ended,   *)
(* though a lease from before may live on: it is gone only where a new one  *)
(* was to replace it.                                                       *)
Grants ==
  /\ who = "share" /\ Free /\ ~session.stop /\ Counted
  /\ Goes([session EXCEPT !.lease = TRUE, !.owes = "LeaseGranted"])
  /\ Silent /\ Keeps

Refuses ==
  /\ who \in Hosts /\ Free /\ Counted
  /\ \/ Goes([session EXCEPT !.owes = "LeaseEnded"])
     \/ Goes([session EXCEPT !.owes = "LeaseEnded", !.lease = FALSE])
  /\ Silent /\ Keeps

(* A lease that runs out says nothing.                                      *)
Lapses ==
  /\ session.lease /\ Goes([session EXCEPT !.lease = FALSE])
  /\ Silent /\ Keeps /\ UNCHANGED emitted

(* The controller's Bye, or a re-serve that fails.                          *)
PeerEnds ==
  /\ who \in Hosts /\ Free /\ ~session.stop
  /\ Goes([session EXCEPT !.stop = TRUE, !.loop = FALSE, !.st = "ended", !.owes = "SessionEnded"])
  /\ Silent /\ Keeps /\ UNCHANGED emitted

(* A failed send of the host's breaks its loop, and nobody is told.         *)
Breaks ==
  /\ who \in Hosts /\ Free /\ ~session.stop
  /\ Goes([session EXCEPT !.loop = FALSE])
  /\ Silent /\ Keeps /\ UNCHANGED emitted
-------------------------------------------------------------------------------
(* Who stops the session *)

(* disconnect of a controller, stop and emergency_stop of a host            *)
Stops ==
  /\ ~session.stop
  /\ Goes([session EXCEPT !.stop = TRUE, !.st = "ended", !.leaving = TRUE,
                          !.lease = FALSE])
  /\ Silent /\ Keeps /\ UNCHANGED emitted

(* ... which a controller emits only when its Bye has found room among the  *)
(* commands.                                                                *)
StopTells ==
  /\ session.leaving /\ Goes([session EXCEPT !.leaving = FALSE])
  /\ Emit("SessionEnded") /\ Keeps /\ UNCHANGED emitted

(* The task sends its Bye, or is aborted where it waits: re-dialling, or    *)
(* sending the answer it was about to report.                               *)
LoopQuits ==
  /\ session.stop /\ session.loop /\ session.owes \in {"nothing"} \cup Leases
  /\ Goes([session EXCEPT !.loop = FALSE, !.redial = FALSE, !.owes = "nothing"])
  /\ Silent /\ Keeps /\ UNCHANGED emitted

(* The session object goes with the command that disconnects it, and the    *)
(* stream's sender too.  The readers on the host hold theirs themselves for *)
(* as long as they read.                                                    *)
Drops ==
  /\ session.kept /\ who = "viewer" /\ session.st = "ended"
  /\ ~session.loop /\ ~session.leaving /\ session.owes = "nothing"
  /\ Goes([session EXCEPT !.kept = FALSE])
  /\ Silent /\ Keeps /\ UNCHANGED emitted
-------------------------------------------------------------------------------
(* The readers *)

Passes(e) ==
  told' = [st |-> IF Tells(e) = "nothing" THEN told.st ELSE Tells(e),
           control |-> e = "LeaseGranted" \/ (told.control /\ e # "LeaseEnded")]
Reads == UNCHANGED <<who, session, missed, emitted>>

(* A reader leaves at the first end it reads, and what is left in the       *)
(* stream goes with it.                                                     *)
ReadsToTheEnd ==
  /\ reader = "reading" /\ stream # <<>>
  /\ Passes(Head(stream))
  /\ IF Head(stream) \in Ends
     THEN reader' = "left" /\ stream' = <<>>
     ELSE reader' = reader /\ stream' = Tail(stream)
  /\ Reads

ViewerReads == who = "viewer" /\ ReadsToTheEnd
ShareReads == who = "share" /\ ReadsToTheEnd
HeadlessReads == who = "headless" /\ ReadsToTheEnd

(* The stream has ended: the window says nothing.                           *)
ViewerCloses ==
  /\ who = "viewer" /\ reader = "reading" /\ stream = <<>> /\ ~session.kept
  /\ reader' = "left" /\ UNCHANGED <<stream, told>> /\ Reads

(* Stop pressed, Ctrl-C: the reader stops its session and leaves.           *)
StopPressed ==
  /\ who \in Hosts /\ reader = "reading"
  /\ reader' = "left" /\ stream' = <<>>
  /\ told' = [told EXCEPT !.st = "ended"]
  /\ session' = [session EXCEPT !.stop = TRUE, !.st = "ended",
                                  !.lease = @ /\ session.stop]
  /\ UNCHANGED <<who, missed, emitted>>
-------------------------------------------------------------------------------
SessionSteps ==
  \/ Notes \/ Owed \/ Suspends \/ Resumes \/ RedialFails \/ ByeArrives
  \/ Grants \/ Refuses \/ Lapses \/ PeerEnds \/ Breaks
  \/ Stops \/ StopTells \/ LoopQuits \/ Drops
ReaderSteps == ViewerReads \/ ShareReads \/ HeadlessReads \/ ViewerCloses

FeedNext == SessionSteps \/ ReaderSteps \/ StopPressed
FeedSpec == FeedInit /\ [][FeedNext]_feedVars /\ WF_feedVars(ReaderSteps)

FeedTypeOK ==
  /\ who \in Readers /\ reader \in {"reading", "left"}
  /\ session \in [st : {"active", "suspended", "ended"}, stop : BOOLEAN, loop : BOOLEAN,
                  redial : BOOLEAN, owes : {"nothing"} \cup Kinds, leaving : BOOLEAN,
                  kept : BOOLEAN, lease : BOOLEAN]
  /\ stream \in Seq(Kinds) /\ Len(stream) <= Depth
  /\ told \in [st : {"active", "suspended", "ended"}, control : BOOLEAN]
  /\ missed \in BOOLEAN /\ emitted \in Nat
-------------------------------------------------------------------------------
(* What is on the screen is what the session is, once everything that was   *)
(* to be emitted has been and was read, and the last event that mattered    *)
(* found room: what was lost before does no lasting harm.                   *)
Settled == ~session.leaving /\ Tells(session.owes) = "nothing"
WindowTellsWhatIs == (stream = <<>> /\ ~missed /\ Settled) => told.st = session.st

(* No reader of a session that is over waits for ever, if its end found     *)
(* room or the session's object is gone.                                    *)
NothingMore == ~session.kept \/ (session.st = "ended" /\ ~missed /\ Settled)
EveryReaderEnds == NothingMore ~> reader = "left"
-------------------------------------------------------------------------------
(* What the code suggests of itself and does not keep.                      *)

(* The end of a session reaches who watches it, however slow.               *)
LostEndIsNoticed == (session.st = "ended" /\ Settled) ~> reader = "left"

(* The window's state is right whenever there is nothing left to read.      *)
TellsWhatIsAlways == (stream = <<>> /\ Settled) => told.st = session.st

(* "Viewer has REMOTE CONTROL of this screen" is shown while it has: a      *)
(* refused request takes the marker down and leaves the lease, a lease that *)
(* runs out leaves the marker.                                              *)
MarkerFollows ==
  (stream = <<>> /\ reader = "reading" /\ session.owes = "nothing" /\ ~session.stop)
    => (told.control <=> session.lease)
===============================================================================
