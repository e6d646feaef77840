------------------------------ MODULE CallApp ------------------------------
(***************************************************************************)
(* Two desktop apps and the calls they place to each other: call.rs of the *)
(* app around the decision core of module Call.  Each app has one slot for *)
(* its active call; a call is a context that owns a driver, a media        *)
(* supervisor task, the receiver of the driver's messages (taken once, by  *)
(* the control loop) and a microphone thread with its stop flag.  An       *)
(* invite travels on the signal plane, the messages on a connection the    *)
(* caller dials; connection k is the one dialled for placing k.            *)
(*                                                                         *)
(* The camera, mute, and the cancel signal (sent by a ring timeout that    *)
(* nothing in the app starts) are left out.                                *)
(***************************************************************************)
EXTENDS Call, Integers, FiniteSets

CONSTANTS
  A, B,         \* the two apps' users, each in the other's contact book
  Callers,      \* the users that place calls
  Offers,       \* the media they ask for
  MaxPlaced     \* bound: calls placed in a behaviour

ASSUME TwoPeers == A # B /\ Callers \subseteq {A, B}
ASSUME OffersAreMedia == Offers \subseteq Media
ASSUME MaxPlacedIsNat == MaxPlaced \in Nat

Peers == {A, B}
Other(p) == IF p = A THEN B ELSE A

VARIABLES
  calls,    \* every context ever built, in order of creation
  slot,     \* AppState::call of each app: a context, or 0
  ending,   \* per app, the command that has yet to reach its end_call
  conn      \* the connection of each placing

vars == <<calls, slot, ending, conn>>

Ids == DOMAIN calls
Ctx(k) == calls[k]
State(k) == calls[k].call.st
Live == {"opening", "run"}
Placings == {k \in Ids : calls[k].inv # "none"}

\* build_ctx: a context no event has reached yet, with its parked supervisor.  Its
\* offer is the media its user asks for, or later accepts with.
NewCtx(p, call) ==
  [owner |-> p, call |-> call, tp |-> 0, rx |-> "free", acc |-> "no", loop |-> "none",
   lconn |-> 0, pushed |-> 0, sup |-> "parked", kill |-> FALSE, micStop |-> FALSE, mic |-> 0,
   ingest |-> 0, card |-> FALSE, answered |-> FALSE, td |-> "no",
   inv |-> "none", offer |-> "voice", dial |-> "none"]

Idle == [st |-> "Idle", media |-> "voice", outq |-> <<>>, mediaq |-> <<>>]

NoConn == [up |-> FALSE, arrived |-> FALSE, lost |-> FALSE, open |-> FALSE,
           q |-> [p \in Peers |-> <<>>], eof |-> {}]

\* end_call and call_place hold the slot's lock through the teardown.
Unlocked(p) == \A k \in Ids : ~(calls[k].owner = p /\ calls[k].td = "half")

\* p has a handle on connection c: a session not yet handled, the transport of the
\* context in its slot or of one a call_accept still works on, a control
\* loop, the microphone's sink or the playback's source.
Holds(p, c) ==
  \/ p = calls[c].owner /\ calls[c].dial = "dialing"
  \/ p # calls[c].owner /\ ~conn[c].arrived
  \/ \E k \in Ids : /\ calls[k].owner = p
                    /\ \/ calls[k].tp = c /\ (slot[p] = k \/ calls[k].acc # "no")
                       \/ calls[k].lconn = c /\ calls[k].loop \in Live
                       \/ c \in {calls[k].mic, calls[k].ingest}

Alive(c) == conn[c].up /\ ~conn[c].lost /\ \A p \in Peers : Holds(p, c)

Init ==
  /\ calls = <<>>
  /\ slot = [p \in Peers |-> 0]
  /\ ending = [p \in Peers |-> "no"]
  /\ conn = [c \in 1 .. 2 * MaxPlaced |-> NoConn]
-----------------------------------------------------------------------------
(* Ringing and dialling *)

\* call_place: an empty slot, then place_call's invite signal and dial_and_serve's task.
Place(p, m) ==
  /\ slot[p] = 0 /\ Unlocked(p)
  /\ Cardinality(Placings) < MaxPlaced
  /\ calls' = Append(calls, [NewCtx(p, PlaceCall(Idle, m)) EXCEPT
                               !.inv = "flight", !.offer = m, !.dial = "dialing"])
  /\ slot' = [slot EXCEPT ![p] = Len(calls) + 1]
  /\ UNCHANGED <<ending, conn>>

InviteLost(k) ==
  /\ calls[k].inv = "flight"
  /\ calls' = [calls EXCEPT ![k].inv = "gone"]
  /\ UNCHANGED <<slot, ending, conn>>

\* handle_call_invite, up to the release of the lock: an occupied slot drops the invite.
InviteChecked(k) ==
  LET p == Other(calls[k].owner)
  IN /\ calls[k].inv = "flight" /\ Unlocked(p)
     /\ calls' = [calls EXCEPT ![k].inv = IF slot[p] = 0 THEN "checked" ELSE "gone"]
     /\ UNCHANGED <<slot, ending, conn>>

\* The rest of it: whatever the slot holds by now is overwritten.
InviteRings(k) ==
  LET p == Other(calls[k].owner)
      ring == [NewCtx(p, OnInvite(Idle, calls[k].offer)) EXCEPT !.card = TRUE]
  IN /\ calls[k].inv = "checked" /\ Unlocked(p)
     /\ calls' = Append([calls EXCEPT ![k].inv = "gone"], ring)
     /\ slot' = [slot EXCEPT ![p] = Len(calls) + 1]
     /\ UNCHANGED <<ending, conn>>

\* DialConnects, if a connection counted as the answer.
DialConnects_Answers(k) ==
  LET p == calls[k].owner
      s == slot[p]
  IN /\ calls[k].dial = "dialing" /\ Unlocked(p)
     /\ conn' = [conn EXCEPT ![k].up = TRUE]
     /\ calls' =
          LET dialed == [calls EXCEPT ![k].dial = "done"]
          IN IF s = 0 THEN dialed
             ELSE IF calls[s].rx = "taken" THEN dialed
             ELSE [dialed EXCEPT ![s].tp = k, ![s].rx = "taken",
                                 ![s].loop = "opening", ![s].lconn = k,
                                 ![s].call = OnControl(@, [kind |-> "accept",
                                                           media |-> calls[k].offer])]
     /\ UNCHANGED <<slot, ending>>

\* The rest of dial_and_serve: the session goes to the context now in the slot, whose
\* receiver the loop takes; without one, or without its receiver, it is dropped.
DialConnects(k) ==
  LET p == calls[k].owner
      s == slot[p]
  IN /\ calls[k].dial = "dialing" /\ Unlocked(p)
     /\ conn' = [conn EXCEPT ![k].up = TRUE]
     /\ calls' =
          LET dialed == [calls EXCEPT ![k].dial = "done"]
          IN IF s = 0 THEN dialed
             ELSE IF calls[s].rx = "taken" THEN dialed
             ELSE [dialed EXCEPT ![s].tp = k, ![s].rx = "taken",
                                 ![s].loop = "opening", ![s].lconn = k]
     /\ UNCHANGED <<slot, ending>>

DialFails(k) ==
  /\ calls[k].dial = "dialing"
  /\ calls' = [calls EXCEPT ![k].dial = "done"]
  /\ UNCHANGED <<slot, ending, conn>>

\* handle_inbound_call: the context in the slot gets the transport, over any it had.
Arrives(c) ==
  LET p == Other(calls[c].owner)
      s == slot[p]
  IN /\ conn[c].up /\ ~conn[c].arrived /\ Unlocked(p)
     /\ conn' = [conn EXCEPT ![c].arrived = TRUE]
     /\ calls' = IF s = 0 THEN calls ELSE [calls EXCEPT ![s].tp = c]
     /\ UNCHANGED <<slot, ending>>

ConnectionLost(c) ==
  /\ Alive(c)
  /\ conn' = [conn EXCEPT ![c].lost = TRUE]
  /\ UNCHANGED <<calls, slot, ending>>
-----------------------------------------------------------------------------
(* The local user *)

\* The webview has had an event that takes the ringing card away.
CardCloses(k) ==
  /\ calls[k].card /\ State(k) # "Ringing"
  /\ calls' = [calls EXCEPT ![k].card = FALSE]
  /\ UNCHANGED <<slot, ending, conn>>

\* call_accept takes the receiver of the context in the slot ...
Accept(p, m) ==
  LET k == slot[p]
  IN /\ k # 0 /\ Unlocked(p)
     /\ calls[k].card /\ calls[k].rx = "free"
     /\ calls' = [calls EXCEPT ![k].rx = "taken", ![k].acc = "took", ![k].offer = m]
     /\ UNCHANGED <<slot, ending, conn>>

\* ... before it looks for the transport: without one it fails, with the receiver gone.
AcceptSpawns(k) ==
  /\ calls[k].acc = "took"
  /\ calls' = IF calls[k].tp = 0 THEN [calls EXCEPT ![k].acc = "no"]
              ELSE [calls EXCEPT ![k].acc = "spawned", ![k].loop = "opening",
                                 ![k].lconn = calls[k].tp]
  /\ UNCHANGED <<slot, ending, conn>>

\* The loop joins the tasks of the context in the slot by now, of none if it is empty.
AcceptPushes(k) ==
  /\ calls[k].acc = "spawned" /\ Unlocked(calls[k].owner)
  /\ calls' = [calls EXCEPT ![k].acc = "pushed", ![k].pushed = slot[calls[k].owner]]
  /\ UNCHANGED <<slot, ending, conn>>

\* The driver is told of the accept and of the media, under one lock.
AcceptAnswers(k) ==
  /\ calls[k].acc = "pushed"
  /\ calls' = [calls EXCEPT ![k].acc = "no", ![k].answered = TRUE,
                            ![k].call = MediaConnected(LocalAccept(@, calls[k].offer))]
  /\ UNCHANGED <<slot, ending, conn>>

\* call_decline and call_hangup: the driver first, end_call after it.
Decline(p) ==
  LET k == slot[p]
  IN /\ k # 0 /\ ending[p] = "no" /\ Unlocked(p)
     /\ calls[k].card
     /\ calls' = [calls EXCEPT ![k].call = LocalDecline(@)]
     /\ ending' = [ending EXCEPT ![p] = "decline"]
     /\ UNCHANGED <<slot, conn>>

HangUp(p) ==
  LET k == slot[p]
  IN /\ k # 0 /\ ending[p] = "no" /\ Unlocked(p)
     /\ State(k) \in {"Dialing", "Connecting", "Active"}
     /\ calls' = [calls EXCEPT ![k].call = Hangup(@)]
     /\ ending' = [ending EXCEPT ![p] = "hangup"]
     /\ UNCHANGED <<slot, conn>>
-----------------------------------------------------------------------------
(* end_call *)

\* The slot is taken and the microphone's flag stored ...
TeardownStores(p) ==
  LET k == slot[p]
  IN /\ ending[p] # "no" /\ Unlocked(p)
     /\ ending' = [ending EXCEPT ![p] = "no"]
     /\ calls' = IF k = 0 THEN calls
                 ELSE [calls EXCEPT ![k].td = "half", ![k].micStop = TRUE]
     /\ UNCHANGED <<slot, conn>>

\* ... then Stop is queued and the context's tasks are aborted: the supervisor at its
\* next await, and those control loops among them that still live.
Aborts(k, loops) ==
  LET p == calls[k].owner
      cut == {j \in loops : calls[j].loop \in Live}
      torn == [calls EXCEPT ![k].td = "done", ![k].call = Command(@, "stop"),
                            ![k].kill = TRUE,
                            ![k].sup = IF @ = "parked" THEN "aborted" ELSE @]
  IN /\ calls[k].td = "half"
     /\ slot' = [slot EXCEPT ![p] = 0]
     /\ calls' = [j \in Ids |-> IF j \in cut THEN [torn[j] EXCEPT !.loop = "done"]
                               ELSE torn[j]]
     /\ conn' = [c \in DOMAIN conn |->
                   IF \E j \in cut : calls[j].lconn = c /\ calls[j].loop = "run"
                   THEN [conn[c] EXCEPT !.eof = @ \cup {p}, !.open = TRUE]
                   ELSE conn[c]]
     /\ UNCHANGED ending

\* TeardownAborts, if the task of dial_and_serve were among those it aborts.
TeardownAborts_LoopToo(k) == Aborts(k, {j \in Ids : calls[j].pushed = k \/ j = k})

\* Its tasks are the loops that call_accept spawned and put there; the loop that runs
\* inside dial_and_serve's task is not among them.
TeardownAborts(k) == Aborts(k, {j \in Ids : calls[j].pushed = k})
-----------------------------------------------------------------------------
(* run_control_loop *)

Dialer(c) == calls[c].owner

\* control_channel: the answering side opens the stream, the dialler's accept returns
\* once something has been written to it.
LoopOpens(k) ==
  LET c == calls[k].lconn
  IN /\ calls[k].loop = "opening" /\ Alive(c)
     /\ calls[k].owner = Dialer(c) => conn[c].open
     /\ calls' = [calls EXCEPT ![k].loop = "run"]
     /\ UNCHANGED <<slot, ending, conn>>

LoopSends(k) ==
  LET c == calls[k].lconn
      p == calls[k].owner
  IN /\ calls[k].loop = "run" /\ calls[k].call.outq # <<>>
     /\ calls' = [calls EXCEPT ![k].call.outq = Tail(@)]
     /\ conn' = IF ~Alive(c) THEN conn
                ELSE [conn EXCEPT ![c].q[Other(p)] = Append(@, Head(calls[k].call.outq)),
                                  ![c].open = TRUE]
     /\ UNCHANGED <<slot, ending>>

LoopReceives(k) ==
  LET c == calls[k].lconn
      p == calls[k].owner
      m == Head(conn[c].q[p])
      ends == m.kind \in {"hangup", "reject"}
  IN /\ calls[k].loop = "run" /\ conn[c].q[p] # <<>>
     /\ calls' = [calls EXCEPT ![k].call = OnControl(@, m),
                               ![k].loop = IF ends THEN "done" ELSE @]
     /\ conn' = [conn EXCEPT ![c].q[p] = Tail(@),
                             ![c].eof = IF ends THEN @ \cup {p} ELSE @]
     /\ UNCHANGED <<slot, ending>>

\* The channel fails, or the other side's half of it has ended: the loop just returns.
LoopEnds(k) ==
  LET c == calls[k].lconn
      p == calls[k].owner
  IN /\ calls[k].loop \in Live
     /\ \/ ~Alive(c)
        \/ calls[k].loop = "run" /\ conn[c].q[p] = <<>> /\ Other(p) \in conn[c].eof
     /\ calls' = [calls EXCEPT ![k].loop = "done"]
     /\ conn' = [conn EXCEPT ![c].eof = @ \cup {p}]
     /\ UNCHANGED <<slot, ending>>
-----------------------------------------------------------------------------
(* The media supervisor and the media tasks *)

\* The supervisor handles commands without yielding until its queue is empty.
Serves(k, c) ==
  /\ calls[k].sup \in {"parked", "polling"}
  /\ calls[k].call.mediaq # <<>>
  /\ Head(calls[k].call.mediaq) = c

SupTakesStart(k) ==
  /\ Serves(k, "start")
  /\ calls' = IF calls[k].tp = 0
              THEN [calls EXCEPT ![k].call.mediaq = Tail(@), ![k].sup = "polling"]
              ELSE [calls EXCEPT ![k].call.mediaq = Tail(@), ![k].sup = "starting",
                                 ![k].ingest = calls[k].tp]
  /\ UNCHANGED <<slot, ending, conn>>

\* The flag is cleared and the microphone's thread spawned.
SupStarts(k) ==
  /\ calls[k].sup = "starting"
  /\ calls' = [calls EXCEPT ![k].sup = "polling", ![k].micStop = FALSE,
                            ![k].mic = calls[k].tp]
  /\ UNCHANGED <<slot, ending, conn>>

SupStops(k) ==
  /\ Serves(k, "stop")
  /\ calls' = [calls EXCEPT ![k].call.mediaq = Tail(@), ![k].sup = "polling",
                            ![k].micStop = TRUE, ![k].ingest = 0]
  /\ UNCHANGED <<slot, ending, conn>>

\* The queue is empty: the task awaits the next command, and an abort takes effect.
SupParks(k) ==
  /\ calls[k].sup = "polling" /\ calls[k].call.mediaq = <<>>
  /\ calls' = [calls EXCEPT ![k].sup = IF calls[k].kill THEN "aborted" ELSE "parked"]
  /\ UNCHANGED <<slot, ending, conn>>

\* mic_pump sees its flag within a capture timeout.
MicStops(k) ==
  /\ calls[k].mic # 0 /\ calls[k].micStop
  /\ calls' = [calls EXCEPT ![k].mic = 0]
  /\ UNCHANGED <<slot, ending, conn>>

\* The playback task ends with the connection; nothing else ends it once the
\* supervisor that would abort it is gone.
IngestEnds(k) ==
  /\ calls[k].ingest # 0 /\ ~Alive(calls[k].ingest)
  /\ calls' = [calls EXCEPT ![k].ingest = 0]
  /\ UNCHANGED <<slot, ending, conn>>
-----------------------------------------------------------------------------
\* What a user or the network does; the rest is the program's own work.
Environment ==
  \/ \E p \in Callers, m \in Offers : Place(p, m)
  \/ \E p \in Peers : (\E m \in Offers : Accept(p, m)) \/ Decline(p) \/ HangUp(p)
  \/ \E k \in Ids : InviteLost(k)
  \/ \E c \in Placings : ConnectionLost(c)

Accepting(k) == AcceptSpawns(k) \/ AcceptPushes(k) \/ AcceptAnswers(k)
Delivery(k) == InviteChecked(k) \/ InviteRings(k)
Dialling(k) == DialConnects(k) \/ DialFails(k)
Loop(k) == LoopOpens(k) \/ LoopSends(k) \/ LoopEnds(k)
Supervisor(k) == SupTakesStart(k) \/ SupStarts(k) \/ SupStops(k) \/ SupParks(k)

System ==
  \/ \E k \in Ids : \/ Delivery(k) \/ Dialling(k) \/ Loop(k) \/ LoopReceives(k)
                    \/ Supervisor(k) \/ MicStops(k) \/ IngestEnds(k)
                    \/ Accepting(k) \/ CardCloses(k) \/ TeardownAborts(k)
  \/ \E c \in Placings : Arrives(c)
  \/ \E p \in Peers : TeardownStores(p)

Next == Environment \/ System
Spec == Init /\ [][Next]_vars
(* The program's tasks run as long as any of them has something to do, and a dial *)
(* ends within its 45 s; users and the network need never do anything.            *)
FairSpec == Spec /\ WF_vars(System)
-----------------------------------------------------------------------------
Messages == [kind : {"accept"}, media : Media] \cup [kind : {"hangup", "reject"}]

\* Every variable stays in the domain the code gives it: a context has one state of
\* the call machine, and a slot, a transport, a loop and a microphone name contexts
\* and connections that exist.
CallTypeOK ==
  /\ slot \in [Peers -> {0} \cup Ids]
  /\ ending \in [Peers -> {"no", "decline", "hangup"}]
  /\ \A k \in Ids :
       /\ State(k) \in CallStates \ {"Idle"}
       /\ calls[k].call.media \in Media
       /\ \A i \in DOMAIN calls[k].call.outq : calls[k].call.outq[i] \in Messages
       /\ \A i \in DOMAIN calls[k].call.mediaq : calls[k].call.mediaq[i] \in {"start", "stop"}
       /\ {calls[k].tp, calls[k].lconn, calls[k].mic, calls[k].ingest}
            \subseteq {0} \cup Placings
       /\ calls[k].loop \in Live \cup {"none", "done"}
       /\ calls[k].acc \in {"no", "took", "spawned", "pushed"}
       /\ calls[k].pushed \in {0} \cup Ids
       /\ calls[k].sup \in {"parked", "polling", "starting", "aborted"}

\* Never auto-answered, seen from both ends: a microphone runs only in a call its own
\* user accepted, and a caller is past Dialing only when the control loop at the other
\* end of its connection belongs to a call that user accepted.
NothingBeforeTheAnswer ==
  \A k \in Ids :
    /\ calls[k].mic # 0 => calls[k].answered
    /\ calls[k].inv # "none" /\ State(k) \in {"Connecting", "Active"} =>
         \E j \in Ids : /\ calls[j].owner # calls[k].owner
                        /\ calls[j].lconn = calls[k].lconn /\ calls[j].answered

Ended(k) ==
  /\ k \in Ids /\ State(k) = "Ended"
  /\ calls[k].td = "no" /\ ending[calls[k].owner] # "decline"

\* However the hang-up of either side, the Stop it queues, the flag the teardown stores
\* and the abort of the supervisor meet the supervisor's own start of the microphone, a
\* call that a hang-up has ended stops capturing for good.
EndedCallStopsCapturing ==
  \A k \in 1 .. 2 * MaxPlaced : Ended(k) ~> [](k \in Ids /\ calls[k].mic = 0)

HungUp(k) == k \in Placings /\ State(k) = "Ended" /\ calls[k].loop \in Live
AnsweredOver(j, k) ==
  {j, k} \subseteq Ids /\ calls[j].answered /\ calls[j].lconn = calls[k].lconn
Over(j, k) ==
  /\ {j, k} \subseteq Ids
  /\ \/ State(j) \in Terminal
     \/ calls[j].td # "no"
     \/ calls[k].lconn # 0 /\ conn[calls[k].lconn].lost

\* A caller that hangs up once its control loop exists is heard: the loop outlives the
\* teardown, and every call answered over that connection, before the hang-up or after
\* it, ends or is torn down (unless the connection itself is lost).
HangUpIsHeard ==
  \A k \in 1 .. 2 * MaxPlaced : \A j \in 1 .. 2 * MaxPlaced \ {k} :
    (HungUp(k) /\ AnsweredOver(j, k)) ~> Over(j, k)
-----------------------------------------------------------------------------
(* What the comments and docs say of calls, and the program does not do *)

\* dial_and_serve: "on accept start media".  A caller whose call is answered goes on to
\* Active, where its microphone starts, or the call ends.
AnsweredCallConnects ==
  \A k \in 1 .. 2 * MaxPlaced :
    (k \in Placings /\ State(k) = "Connecting") ~>
      (k \in Ids /\ State(k) \in {"Active"} \cup Terminal)

\* dial_and_serve: "failures end the call".
FailedDialEndsCall ==
  \A k \in 1 .. 2 * MaxPlaced :
    (k \in Placings /\ calls[k].dial = "done" /\ ~conn[k].up) ~>
      (k \in Ids /\ State(k) \in Terminal)

\* CallMediaController::stop: "nothing keeps capturing after a call ends".  Not so when
\* a decline is pressed as the accepted call starts its microphone.
TornDownCallStopsCapturing ==
  \A k \in 1 .. 2 * MaxPlaced :
    (k \in Ids /\ calls[k].td = "done") ~> (k \in Ids /\ calls[k].mic = 0)

\* The two ends of one connection agree on what is captured: false when an invite and a
\* connection of two different placings meet.
EndsAgreeOnMedia ==
  \A k, j \in Ids :
    /\ calls[k].lconn # 0 /\ calls[k].lconn = calls[j].lconn
    /\ State(k) = "Connecting" /\ State(j) = "Active"
    => calls[k].call.media = calls[j].call.media

\* call_accept: "call connection not established yet - try again".  A ring stays
\* answerable while its user has not answered.
RingStaysAnswerable ==
  \A k \in Ids :
    /\ calls[k].card /\ State(k) = "Ringing"
    /\ calls[k].acc = "no" /\ calls[k].loop = "none"
    => calls[k].rx = "free"
=============================================================================
