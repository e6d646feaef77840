-------------------------------- MODULE FilePanel --------------------------------
(***************************************************************************)
(* The sending side of a file push in the page (app/ui main.js and the      *)
(* shipped shell.js): sendFile, an async function that asks, waits for the  *)
(* answer and then reads and sends one slice after the other; the promise   *)
(* and timer of the wait; the two flags that all sends share; and the reset *)
(* when the session ends.  The commands are taken while the app keeps the   *)
(* session, and a session that is lost is kept until the page ends it: what *)
(* is sent in between goes nowhere, and only main.js is told.  Of the host, *)
(* what it is asked and has agreed to receive; it reads a message at once,  *)
(* and answers when its user does.                                          *)
(***************************************************************************)
EXTENDS Naturals, Sequences

CONSTANTS
  Panels,       \* which page it is: "main", "shell"
  Sends,        \* bound: calls of sendFile, 1 .. n
  MaxSlices,    \* bound: slices of a file
  MaxSessions   \* bound: sessions

ASSUME PanelAssumption ==
  Panels \subseteq {"main", "shell"} /\ Sends \subseteq Nat \ {0} /\ MaxSlices \in Nat \ {0} /\ MaxSessions \in Nat

VARIABLES
  panel,
  up, sessions,   \* is there a viewer session, and how many there were
  held,           \* state.session: does the app keep one, be it lost
  pageLive,       \* viewerLive: what the page knows of it
  ending,         \* has the page asked for its end, and awaits it
  sends,          \* where each call is, and what it has sent
  sending, isCancelled,   \* the flags
  awaited,        \* the call that acceptResolve and acceptReject settle, or 0
  timers, timer,  \* the timers that run, and the one acceptTimer names
  told,           \* events on their way to the page
  receiver        \* the host: the call it asks its user about, and the one it receives

sessionOnly == <<panel, up, sessions, held, pageLive, ending>>
panelVars ==
  <<panel, up, sessions, held, pageLive, ending, sends, sending, isCancelled, awaited, timers, timer, told, receiver>>
flags == <<sending, isCancelled>>
waitVars == <<awaited, timers, timer>>

Nothing == [asked |-> 0, armed |-> 0, fed |-> {}]
Calling == {"begin", "begun", "refused", "reading", "posting"}
InFlight(n) == sends[n].at \in Calling \cup {"waiting"}
Goes(n, to) == sends' = [sends EXCEPT ![n].at = to]

-----------------------------------------------------------------------------
(* The host, told by file_begin, file_chunk and file_end, while it is there. *)

Offered(n) ==
  /\ receiver' = IF up /\ receiver.asked = 0 /\ receiver.armed = 0
                   THEN [receiver EXCEPT !.asked = n] ELSE receiver
  /\ told' = IF up /\ receiver' = receiver THEN Append(told, "rejected") ELSE told
Fed(n) == [receiver EXCEPT !.fed = IF up /\ receiver.armed # 0 THEN @ \cup {n} ELSE @]
Completed == IF up THEN [receiver EXCEPT !.armed = 0, !.fed = {}] ELSE receiver

HostDecides(allow) ==
  /\ receiver.asked # 0
  /\ receiver' = [receiver EXCEPT !.asked = 0, !.armed = IF allow THEN receiver.asked ELSE 0]
  /\ told' = Append(told, IF allow THEN "accepted" ELSE "rejected")
  /\ UNCHANGED <<sessionOnly, sends, flags, waitVars>>

-----------------------------------------------------------------------------
(* How a call ends: failTransfer and finishCancel tell the host,            *)
(* declineTransfer does not.                                                *)

Ends(n, how, tells) ==
  /\ Goes(n, how)
  /\ sending' = FALSE
  /\ receiver' = IF tells THEN Completed ELSE receiver

(* settleAccept, and what the call does then, before any other event.       *)
settleAccept(answer, stopped, fired) ==
  /\ awaited' = 0
  /\ timers' = (IF panel = "main" THEN timers \ {timer} ELSE timers) \ fired
  /\ timer' = 0
  /\ IF awaited = 0 THEN UNCHANGED <<sends, sending, receiver>>
     ELSE IF answer = "accepted" /\ ~stopped
       THEN Goes(awaited, "reading") /\ UNCHANGED <<sending, receiver>>
       ELSE Ends(awaited, "over",
                 answer \in {"accepted", "timeout"} \/ (answer = "cancelled" /\ panel = "shell"))

-----------------------------------------------------------------------------
(* sendFile.                                                                *)

Picks(n) ==
  /\ pageLive /\ ~sending
  /\ sends[n].at = "no" /\ \A m \in Sends : m < n => sends[m].at # "no"
  /\ Goes(n, "begin") /\ sending' = TRUE /\ isCancelled' = FALSE
  /\ UNCHANGED <<sessionOnly, waitVars, told, receiver>>

file_begin(n) ==
  /\ sends[n].at = "begin"
  /\ IF held THEN Goes(n, "begun") /\ Offered(n)
             ELSE Goes(n, "refused") /\ UNCHANGED <<receiver, told>>
  /\ UNCHANGED <<sessionOnly, flags, waitVars>>

BeginFails(n) ==
  /\ sends[n].at = "refused" /\ Ends(n, "over", TRUE)
  /\ UNCHANGED <<sessionOnly, isCancelled, waitVars, told>>

waitForAccept(n) ==
  /\ sends[n].at = "begun" /\ Goes(n, "waiting")
  /\ awaited' = n /\ timers' = timers \cup {n} /\ timer' = n
  /\ UNCHANGED <<sessionOnly, flags, told, receiver>>

(* A timer settles whatever wait is open.                                   *)
TimerFires(n) ==
  /\ n \in timers
  /\ settleAccept("timeout", isCancelled, {n})
  /\ UNCHANGED <<sessionOnly, isCancelled, told>>

(* The slice is read; then it is sent, unless Cancel was clicked.  The last *)
(* one sent, the call is done: nobody answers that it arrived.              *)
SliceRead(n) ==
  /\ sends[n].at = "reading"
  /\ IF isCancelled \/ ~held
       THEN Ends(n, "over", TRUE)
       ELSE Goes(n, "posting") /\ receiver' = Fed(n) /\ UNCHANGED sending
  /\ UNCHANGED <<sessionOnly, isCancelled, waitVars, told>>

SliceSent(n) ==
  /\ sends[n].at = "posting"
  /\ IF sends[n].sent + 1 = MaxSlices
       THEN /\ sends' = [sends EXCEPT ![n] = [at |-> IF held THEN "sent" ELSE "over", sent |-> 0]]
            /\ sending' = FALSE /\ receiver' = Completed
       ELSE /\ sends' = [sends EXCEPT ![n] = [at |-> "reading", sent |-> @.sent + 1]]
            /\ UNCHANGED <<sending, receiver>>
  /\ UNCHANGED <<sessionOnly, isCancelled, waitVars, told>>

Cancels ==
  /\ sending /\ isCancelled' = TRUE
  /\ settleAccept("cancelled", TRUE, {})
  /\ UNCHANGED <<sessionOnly, told>>

-----------------------------------------------------------------------------
(* The session and its events.                                              *)

(* resetFileTransfer; of main.js, setViewerLive(false).  The session is     *)
(* gone: the file_end that the shell still sends is refused.                *)
Reset ==
  IF sending
    THEN /\ isCancelled' = TRUE /\ sending' = FALSE
         /\ awaited' = 0 /\ timer' = 0
         /\ timers' = IF panel = "main" THEN timers \ {timer} ELSE timers
         /\ IF awaited = 0 THEN UNCHANGED sends ELSE Goes(awaited, "over")
    ELSE UNCHANGED <<isCancelled, sending, waitVars, sends>>

Hears ==
  /\ told # <<>> /\ told' = Tail(told)
  /\ \/ /\ Head(told) \in {"accepted", "rejected"} /\ settleAccept(Head(told), isCancelled, {})
        /\ UNCHANGED <<pageLive, isCancelled>>
     \/ /\ Head(told) = "over" /\ UNCHANGED receiver   \* only main.js listens
        /\ IF panel = "main" THEN pageLive' = FALSE /\ Reset
                             ELSE UNCHANGED <<pageLive, isCancelled, sending, waitVars, sends>>
     \/ /\ Head(told) = "live" /\ pageLive' = TRUE
        /\ UNCHANGED <<flags, waitVars, sends, receiver>>
  /\ UNCHANGED <<panel, up, sessions, held, ending>>

SessionStarts ==
  /\ ~held /\ ~pageLive /\ ~ending /\ "over" \notin {told[i] : i \in 1 .. Len(told)}
  /\ sessions < MaxSessions
  /\ up' = TRUE /\ held' = TRUE /\ sessions' = sessions + 1 /\ receiver' = Nothing
  /\ told' = Append(told, "live")
  /\ UNCHANGED <<panel, pageLive, ending, sends, flags, waitVars>>

SessionLost ==
  /\ up /\ up' = FALSE /\ receiver' = Nothing /\ told' = Append(told, "over")
  /\ UNCHANGED <<panel, sessions, held, pageLive, ending, sends, flags, waitVars>>

(* The app lets go of the session when the user ends it, or of one that was *)
(* lost when the user asks for the next.                                    *)
Disconnects ==
  /\ held /\ ~ending
  /\ \/ pageLive /\ ending' = TRUE
     \/ ~pageLive /\ ~up /\ UNCHANGED ending
  /\ held' = FALSE /\ up' = FALSE /\ receiver' = Nothing
  /\ told' = IF up THEN Append(told, "over") ELSE told
  /\ UNCHANGED <<panel, sessions, pageLive, sends, flags, waitVars>>

(* Then the page resets: stopSession, or endSession, which also closes a    *)
(* view that is over.                                                       *)
SessionClosed ==
  /\ ending \/ (panel = "shell" /\ ~pageLive)
  /\ ending' = FALSE /\ pageLive' = FALSE /\ Reset
  /\ UNCHANGED <<panel, up, sessions, held, told, receiver>>

-----------------------------------------------------------------------------
PanelInit ==
  /\ panel \in Panels
  /\ up = FALSE /\ sessions = 0 /\ held = FALSE /\ pageLive = FALSE /\ ending = FALSE
  /\ sends = [n \in Sends |-> [at |-> "no", sent |-> 0]]
  /\ sending = FALSE /\ isCancelled = FALSE
  /\ awaited = 0 /\ timers = {} /\ timer = 0
  /\ told = <<>> /\ receiver = Nothing

PanelNext ==
  \/ \E n \in Sends : \/ Picks(n) \/ file_begin(n) \/ BeginFails(n) \/ waitForAccept(n)
                      \/ TimerFires(n) \/ SliceRead(n) \/ SliceSent(n)
  \/ Cancels \/ Hears \/ SessionStarts \/ SessionLost \/ Disconnects \/ SessionClosed
  \/ \E allow \in BOOLEAN : HostDecides(allow)

PanelSpec == PanelInit /\ [][PanelNext]_panelVars

-----------------------------------------------------------------------------
(* The panel is never stuck: while it refuses another file there is a call  *)
(* under way that something will end, the answer to a command or a timer    *)
(* that still runs, though waits and timers of several sends are mixed.     *)
NeverStuck ==
  sending => \E n \in Sends : \/ sends[n].at \in Calling
                              \/ sends[n].at = "waiting" /\ awaited = n /\ timers # {}

(* "A transfer is in flight (guards against concurrent sends)": of one      *)
(* session there is one call at a time, however they are cancelled.         *)
OneInFlight == \A m, n \in Sends : InFlight(m) /\ InFlight(n) => m = n
OneInASession == sessions <= 1 => OneInFlight

-----------------------------------------------------------------------------
(* What the code does not keep; the README says of each what goes wrong:    *)
(* OneInFlight over a reset, and the following.                             *)

(* What the host writes into a file is that file.                           *)
FedIsAllowed == receiver.armed # 0 => receiver.fed \subseteq {receiver.armed}

(* The host waits for a file only while the page sends it, is about to, or  *)
(* its session ends: else it refuses every later offer of the session.      *)
ArmedIsFed == receiver.armed # 0 =>
  \/ InFlight(receiver.armed) \/ \E i \in 1 .. Len(told) : told[i] \in {"accepted", "over"}

(* What the page calls sent was sent while there was a session: "Err if no  *)
(* viewer session is live" (main.rs).                                       *)
SentIsSent == [][\A n \in Sends : sends'[n].at = "sent" /\ sends[n].at # "sent" => up]_panelVars

(* A wait that the timer ends had its own time.                             *)
OwnTimer == [][\A n \in Sends : TimerFires(n) => awaited \in {0, n}]_panelVars
=============================================================================
