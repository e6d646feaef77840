------------------------------ MODULE CallProofs ------------------------------
(***************************************************************************)
(* For any number of calls placed by either user or both at once: nothing  *)
(* of a call runs before its user answered it.  The answer is one bit of a *)
(* context; the invariant follows it along everything it sets off: the     *)
(* command in the media queue, the supervisor that starts, the microphone; *)
(* and the accept in the queue of messages, on the connection, and in the  *)
(* state of the caller that has read it.  Two facts carry the proof: the   *)
(* receiver of a context is taken once, so that its control loop keeps the *)
(* connection it was given, and only a ring has a card to accept.          *)
(***************************************************************************)
EXTENDS CallApp, SequenceTheorems, FiniteSetTheorems, TLAPS

Conns == 1 .. 2 * MaxPlaced

Calls == [st : CallStates, media : Media, outq : Seq(Messages), mediaq : Seq({"start", "stop"})]

Contexts ==
  [owner : Peers, call : Calls, tp : {0} \cup Conns, rx : {"free", "taken"},
   acc : {"no", "took", "spawned", "pushed"}, loop : Live \cup {"none", "done"},
   lconn : {0} \cup Conns, pushed : Nat,
   sup : {"parked", "polling", "starting", "aborted"}, kill : BOOLEAN, micStop : BOOLEAN,
   mic : {0} \cup Conns, ingest : {0} \cup Conns, card : BOOLEAN, answered : BOOLEAN,
   td : {"no", "half", "done"}, inv : {"none", "flight", "checked", "gone"}, offer : Media,
   dial : {"none", "dialing", "done"}]

Links == [up : BOOLEAN, arrived : BOOLEAN, lost : BOOLEAN, open : BOOLEAN,
          q : [Peers -> Seq(Messages)], eof : SUBSET Peers]

(* An accept among the messages; what only an answer puts into a call.      *)
HasAccept(msgs) == \E i \in 1 .. Len(msgs) : msgs[i].kind = "accept"
HasStart(cmds) == \E i \in 1 .. Len(cmds) : cmds[i] = "start"
Promised(call) == HasAccept(call.outq) \/ HasStart(call.mediaq)
Through(call) == call.st \in {"Connecting", "Active"}

(* The receiver is taken and whoever took it has settled on a connection.   *)
Bound(r) == r.rx = "taken" /\ r.acc # "took"

(* One context.                                                             *)
Local(r) ==
  /\ r \in Contexts
  /\ Promised(r.call) \/ r.sup = "starting" \/ r.mic # 0 => r.answered
  /\ r.answered \/ r.loop # "none" \/ (r.inv # "none" /\ Through(r.call)) => Bound(r)
  /\ r.acc # "no" => r.inv = "none" /\ r.rx = "taken"
  /\ r.loop # "none" => r.lconn # 0
  /\ r.card => r.inv = "none"

(* What a context keeps from one step to the next.                          *)
Stays(r, q) ==
  /\ q.owner = r.owner
  /\ r.answered => q.answered
  /\ Bound(r) => Bound(q) /\ q.lconn = r.lconn

(* An answered call of another user at the other end of connection c.       *)
AnsweredAt(c, p) ==
  \E j \in Ids : calls[j].owner # p /\ calls[j].lconn = c /\ calls[j].answered

(* What is on the connections and what has come of it.                      *)
Heard ==
  /\ \A c \in Conns, p \in Peers : HasAccept(conn[c].q[p]) => AnsweredAt(c, p)
  /\ \A k \in Ids : calls[k].inv # "none" /\ Through(calls[k].call) =>
       AnsweredAt(calls[k].lconn, calls[k].owner)

(* There is a connection for every context: each placing adds itself and an *)
(* invite, each ring uses one up.                                           *)
Invites == {k \in Ids : calls[k].inv \in {"flight", "checked"}}
Counted ==
  /\ Cardinality(Placings) <= MaxPlaced
  /\ Len(calls) + Cardinality(Invites) <= 2 * Cardinality(Placings)

Shapes ==
  /\ calls \in Seq(Contexts) /\ slot \in [Peers -> {0} \cup Ids]
  /\ ending \in [Peers -> {"no", "decline", "hangup"}]
  /\ conn \in [Conns -> Links]

CallInv == Shapes /\ Counted /\ (\A k \in Ids : Local(calls[k])) /\ Heard

(* The messages.                                                            *)
LEMMA KindsOfMessages ==
  ASSUME NEW m \in Messages
  PROVE  m.kind \in {"accept", "hangup", "reject"} /\ (m.kind = "accept" => m.media \in Media)
BY DEF Messages

(* A message or a command put at the end of a queue is the only new one.    *)
LEMMA QueueGrows ==
  ASSUME NEW msgs \in Seq(Messages), NEW m \in Messages
  PROVE  Append(msgs, m) \in Seq(Messages)
         /\ (HasAccept(Append(msgs, m)) => HasAccept(msgs) \/ m.kind = "accept")
<1>1. /\ Append(msgs, m) \in Seq(Messages) /\ Len(Append(msgs, m)) = Len(msgs) + 1
      /\ Append(msgs, m)[Len(msgs) + 1] = m /\ Len(msgs) \in Nat
      /\ \A i \in 1 .. Len(msgs) : Append(msgs, m)[i] = msgs[i]
  BY AppendProperties, LenProperties
<1>2. ASSUME NEW i \in 1 .. Len(Append(msgs, m)), Append(msgs, m)[i].kind = "accept"
      PROVE  HasAccept(msgs) \/ m.kind = "accept"
  <2>1. CASE i = Len(msgs) + 1
    BY <1>1, <1>2, <2>1
  <2>2. CASE i # Len(msgs) + 1
    <3>1. i \in 1 .. Len(msgs)
      BY <1>1, <2>2
    <3> QED BY <1>1, <1>2, <3>1 DEF HasAccept
  <2> QED BY <2>1, <2>2
<1> QED BY <1>1, <1>2 DEF HasAccept

(* The same of the commands.                                                *)
LEMMA CommandsGrow ==
  ASSUME NEW cmds \in Seq({"start", "stop"}), NEW x \in {"start", "stop"}
  PROVE  Append(cmds, x) \in Seq({"start", "stop"})
         /\ (HasStart(Append(cmds, x)) => HasStart(cmds) \/ x = "start")
<1>1. /\ Append(cmds, x) \in Seq({"start", "stop"}) /\ Len(Append(cmds, x)) = Len(cmds) + 1
      /\ Append(cmds, x)[Len(cmds) + 1] = x /\ Len(cmds) \in Nat
      /\ \A i \in 1 .. Len(cmds) : Append(cmds, x)[i] = cmds[i]
  BY AppendProperties, LenProperties
<1>2. ASSUME NEW i \in 1 .. Len(Append(cmds, x)), Append(cmds, x)[i] = "start"
      PROVE  HasStart(cmds) \/ x = "start"
  <2>1. CASE i = Len(cmds) + 1
    BY <1>1, <1>2, <2>1
  <2>2. CASE i # Len(cmds) + 1
    <3>1. i \in 1 .. Len(cmds)
      BY <1>1, <2>2
    <3> QED BY <1>1, <1>2, <3>1 DEF HasStart
  <2> QED BY <2>1, <2>2
<1> QED BY <1>1, <1>2 DEF HasStart

(* What is left of a queue has nothing new.                                 *)
LEMMA QueuesShrink ==
  /\ \A msgs \in Seq(Messages) : msgs # <<>> =>
       /\ Tail(msgs) \in Seq(Messages) /\ Head(msgs) \in Messages
       /\ HasAccept(Tail(msgs)) => HasAccept(msgs)
       /\ Head(msgs).kind = "accept" => HasAccept(msgs)
  /\ \A cmds \in Seq({"start", "stop"}) : cmds # <<>> =>
       /\ Tail(cmds) \in Seq({"start", "stop"})
       /\ HasStart(Tail(cmds)) => HasStart(cmds)
       /\ Head(cmds) = "start" => HasStart(cmds)
<1>1. ASSUME NEW msgs \in Seq(Messages), msgs # <<>>
      PROVE  /\ Tail(msgs) \in Seq(Messages) /\ Head(msgs) \in Messages
             /\ HasAccept(Tail(msgs)) => HasAccept(msgs)
             /\ Head(msgs).kind = "accept" => HasAccept(msgs)
  <2>1. /\ Tail(msgs) \in Seq(Messages) /\ Head(msgs) \in Messages /\ Head(msgs) = msgs[1]
        /\ Len(Tail(msgs)) = Len(msgs) - 1 /\ Len(msgs) \in Nat /\ Len(msgs) >= 1
        /\ \A i \in 1 .. Len(msgs) - 1 : Tail(msgs)[i] = msgs[i + 1]
    BY <1>1, HeadTailProperties, LenProperties
  <2>2. ASSUME NEW i \in 1 .. Len(Tail(msgs)), Tail(msgs)[i].kind = "accept" PROVE HasAccept(msgs)
    <3>1. i + 1 \in 1 .. Len(msgs) /\ Tail(msgs)[i] = msgs[i + 1]
      BY <2>1
    <3> QED BY <2>2, <3>1 DEF HasAccept
  <2>3. 1 \in 1 .. Len(msgs)
    BY <2>1
  <2> QED BY <2>1, <2>2, <2>3 DEF HasAccept
<1>2. ASSUME NEW cmds \in Seq({"start", "stop"}), cmds # <<>>
      PROVE  /\ Tail(cmds) \in Seq({"start", "stop"})
             /\ HasStart(Tail(cmds)) => HasStart(cmds)
             /\ Head(cmds) = "start" => HasStart(cmds)
  <2>1. /\ Tail(cmds) \in Seq({"start", "stop"}) /\ Head(cmds) = cmds[1]
        /\ Len(Tail(cmds)) = Len(cmds) - 1 /\ Len(cmds) \in Nat /\ Len(cmds) >= 1
        /\ \A i \in 1 .. Len(cmds) - 1 : Tail(cmds)[i] = cmds[i + 1]
    BY <1>2, HeadTailProperties, LenProperties
  <2>2. ASSUME NEW i \in 1 .. Len(Tail(cmds)), Tail(cmds)[i] = "start" PROVE HasStart(cmds)
    <3>1. i + 1 \in 1 .. Len(cmds) /\ Tail(cmds)[i] = cmds[i + 1]
      BY <2>1
    <3> QED BY <2>2, <3>1 DEF HasStart
  <2>3. 1 \in 1 .. Len(cmds)
    BY <2>1
  <2> QED BY <2>1, <2>2, <2>3 DEF HasStart
<1> QED BY <1>1, <1>2

(* The states of the machine.                                               *)
LEMMA ValidState ==
  ASSUME NEW c \in Calls, NEW e, Valid(c, e)
  PROVE  Transition(c.st, e) \in CallStates
BY DEF Valid, Transition, CallStates, InProgress, Terminal, Calls

(* A call with its parts.                                                   *)
LEMMA CallParts ==
  ASSUME NEW c \in Calls
  PROVE  /\ c.st \in CallStates /\ c.media \in Media
         /\ c.outq \in Seq(Messages) /\ c.mediaq \in Seq({"start", "stop"})
BY DEF Calls

(* A command to stop.                                                       *)
LEMMA StopFits ==
  ASSUME NEW c \in Calls
  PROVE  /\ Command(c, "stop") \in Calls /\ Command(c, "stop").st = c.st
         /\ Promised(Command(c, "stop")) => Promised(c)
<1> DEFINE d == Command(c, "stop")
<1>1. d = [c EXCEPT !.mediaq = Append(c.mediaq, "stop")]
  BY DEF Command
<1>2. Append(c.mediaq, "stop") \in Seq({"start", "stop"})
      /\ (HasStart(Append(c.mediaq, "stop")) => HasStart(c.mediaq))
  BY CallParts, CommandsGrow
<1>3. d \in Calls /\ d.st = c.st /\ d.outq = c.outq /\ d.mediaq = Append(c.mediaq, "stop")
  BY <1>1, <1>2 DEF Calls
<1> HIDE DEF d
<1> QED BY <1>2, <1>3 DEF Promised, d

(* A message that is no accept.                                             *)
LEMMA SendFits ==
  ASSUME NEW c \in Calls, NEW m \in Messages, m.kind # "accept"
  PROVE  /\ Send(c, m) \in Calls /\ Send(c, m).st = c.st
         /\ Promised(Send(c, m)) => Promised(c)
<1> DEFINE d == Send(c, m)
<1>1. d = [c EXCEPT !.outq = Append(c.outq, m)]
  BY DEF Send
<1>2. Append(c.outq, m) \in Seq(Messages) /\ (HasAccept(Append(c.outq, m)) => HasAccept(c.outq))
  BY CallParts, QueueGrows
<1>3. d \in Calls /\ d.st = c.st /\ d.mediaq = c.mediaq /\ d.outq = Append(c.outq, m)
  BY <1>1, <1>2 DEF Calls
<1> HIDE DEF d
<1> QED BY <1>2, <1>3 DEF Promised, d

(* A transition.                                                            *)
LEMMA StepFits ==
  ASSUME NEW c \in Calls, NEW e, Valid(c, e)
  PROVE  /\ Step(c, e) \in Calls /\ Step(c, e).st = Transition(c.st, e)
         /\ Promised(Step(c, e)) <=> Promised(c)
<1>1. Step(c, e) = [c EXCEPT !.st = Transition(c.st, e)]
  BY DEF Step
<1>2. Transition(c.st, e) \in CallStates
  BY ValidState
<1>3. /\ Step(c, e) \in Calls /\ Step(c, e).st = Transition(c.st, e)
      /\ Step(c, e).outq = c.outq /\ Step(c, e).mediaq = c.mediaq
  BY <1>1, <1>2 DEF Calls
<1> QED BY <1>3 DEF Promised

(* No event but an accept makes a promise or takes a call through.          *)
LEMMA DeclineFits ==
  ASSUME NEW c \in Calls
  PROVE  /\ LocalDecline(c) \in Calls /\ (Promised(LocalDecline(c)) => Promised(c))
         /\ Through(LocalDecline(c)) => Through(c)
<1>1. CASE ~Valid(c, "LocalDecline")
  BY <1>1 DEF LocalDecline
<1>2. CASE Valid(c, "LocalDecline")
  <2> DEFINE d == Step(c, "LocalDecline")
             m == [kind |-> "reject"]
  <2>1. d \in Calls /\ d.st = Transition(c.st, "LocalDecline") /\ (Promised(d) <=> Promised(c))
    BY <1>2, StepFits
  <2>2. d.st = "Declined"
    BY <1>2, <2>1 DEF Valid, Transition
  <2>3. m \in Messages /\ m.kind # "accept"
    BY DEF Messages
  <2>4. LocalDecline(c) = Send(d, m)
    BY <1>2 DEF LocalDecline
  <2> HIDE DEF d, m
  <2> QED BY <2>1, <2>2, <2>3, <2>4, SendFits DEF Through
<1> QED BY <1>1, <1>2

(* A hang-up.                                                                *)
LEMMA HangupFits ==
  ASSUME NEW c \in Calls
  PROVE  /\ Hangup(c) \in Calls /\ (Promised(Hangup(c)) => Promised(c))
         /\ Through(Hangup(c)) => Through(c)
<1>1. CASE ~Valid(c, "Hangup")
  BY <1>1 DEF Hangup
<1>2. CASE Valid(c, "Hangup")
  <2> DEFINE d == Step(c, "Hangup")
             m == [kind |-> "hangup"]
             s == Send(d, m)
  <2>1. d \in Calls /\ d.st = Transition(c.st, "Hangup") /\ (Promised(d) <=> Promised(c))
    BY <1>2, StepFits
  <2>2. d.st = "Ended"
    BY <1>2, <2>1 DEF Valid, Transition
  <2>3. m \in Messages /\ m.kind # "accept"
    BY DEF Messages
  <2>4. Hangup(c) = Command(s, "stop")
    BY <1>2 DEF Hangup
  <2> HIDE DEF d, m
  <2>5. s \in Calls /\ s.st = "Ended" /\ (Promised(s) => Promised(c))
    BY <2>1, <2>2, <2>3, SendFits
  <2> HIDE DEF s
  <2> QED BY <2>4, <2>5, StopFits DEF Through
<1> QED BY <1>1, <1>2

(* What a control message does.                                             *)
LEMMA ControlFits ==
  ASSUME NEW c \in Calls, NEW m \in Messages
  PROVE  /\ OnControl(c, m) \in Calls /\ (Promised(OnControl(c, m)) => Promised(c))
         /\ Through(OnControl(c, m)) => Through(c) \/ m.kind = "accept"
<1>1. CASE m.kind = "accept" /\ Valid(c, "RemoteAccepted")
  <2> DEFINE d == Step(c, "RemoteAccepted")
  <2>1. d \in Calls /\ (Promised(d) <=> Promised(c))
    BY <1>1, StepFits
  <2>2. OnControl(c, m) = Agree(d, m.media)
    BY <1>1 DEF OnControl
  <2> HIDE DEF d
  <2>3. Agree(d, m.media) = [d EXCEPT !.media = Narrow(d.media, m.media)]
    BY DEF Agree
  <2>4. Narrow(d.media, m.media) \in Media
    BY DEF Narrow, Media
  <2>5. /\ OnControl(c, m) \in Calls /\ OnControl(c, m).outq = d.outq
        /\ OnControl(c, m).mediaq = d.mediaq
    BY <2>1, <2>2, <2>3, <2>4 DEF Calls
  <2> QED BY <1>1, <2>1, <2>5 DEF Promised
<1>2. CASE m.kind = "reject" /\ Valid(c, "RemoteDeclined")
  <2>1. OnControl(c, m) = Step(c, "RemoteDeclined")
    BY <1>2 DEF OnControl
  <2>2. Transition(c.st, "RemoteDeclined") = "Declined"
    BY <1>2 DEF Valid, Transition
  <2> QED BY <1>2, <2>1, <2>2, StepFits DEF Through
<1>3. CASE m.kind = "hangup"
  <2>1. OnControl(c, m) = OnHangup(c)
    BY <1>3 DEF OnControl
  <2>2. CASE ~Valid(c, "Hangup")
    BY <2>1, <2>2 DEF OnHangup
  <2>3. CASE Valid(c, "Hangup")
    <3> DEFINE d == Step(c, "Hangup")
    <3>1. d \in Calls /\ d.st = Transition(c.st, "Hangup") /\ (Promised(d) <=> Promised(c))
      BY <2>3, StepFits
    <3>2. d.st = "Ended"
      BY <2>3, <3>1 DEF Valid, Transition
    <3>3. OnControl(c, m) = Command(d, "stop")
      BY <2>1, <2>3 DEF OnHangup
    <3> HIDE DEF d
    <3> QED BY <3>1, <3>2, <3>3, StopFits DEF Through
  <2> QED BY <2>2, <2>3
<1>4. CASE /\ ~(m.kind = "accept" /\ Valid(c, "RemoteAccepted"))
           /\ ~(m.kind = "reject" /\ Valid(c, "RemoteDeclined")) /\ m.kind # "hangup"
  <2>1. OnControl(c, m) = c
    BY <1>4 DEF OnControl
  <2> QED BY <2>1
<1> QED BY <1>1, <1>2, <1>3, <1>4

(* An accept of the user's own leaves a call, whatever it promises.         *)
LEMMA AcceptFits ==
  ASSUME NEW c \in Calls, NEW media \in Media
  PROVE  MediaConnected(LocalAccept(c, media)) \in Calls
<1>1. LocalAccept(c, media) \in Calls
  <2>1. CASE ~Valid(c, "LocalAccept")
    BY <2>1 DEF LocalAccept
  <2>2. CASE Valid(c, "LocalAccept")
    <3> DEFINE d == Step(c, "LocalAccept")
               j == Agree(d, media)
               m == [kind |-> "accept", media |-> j.media]
    <3>1. d \in Calls
      BY <2>2, StepFits
    <3> HIDE DEF d
    <3>2. Narrow(d.media, media) \in Media
      BY DEF Narrow, Media
    <3>3. j \in Calls
      BY <3>1, <3>2 DEF Agree, Calls
    <3>4. LocalAccept(c, media) = Send(j, m)
      BY <2>2 DEF LocalAccept, d
    <3> HIDE DEF j
    <3>5. m \in Messages
      BY <3>3, CallParts DEF Messages
    <3> HIDE DEF m
    <3>6. Append(j.outq, m) \in Seq(Messages)
      BY <3>3, <3>5, CallParts, QueueGrows
    <3>7. Send(j, m) \in Calls
      BY <3>3, <3>6 DEF Send, Calls
    <3> QED BY <3>4, <3>7
  <2> QED BY <2>1, <2>2
<1> DEFINE a == LocalAccept(c, media)
<1> HIDE DEF a
<1>2. a \in Calls
  BY <1>1 DEF a
<1>3. MediaConnected(a) \in Calls
  <2>1. CASE ~Valid(a, "MediaConnected")
    BY <1>2, <2>1 DEF MediaConnected
  <2>2. CASE Valid(a, "MediaConnected")
    <3> DEFINE d == Step(a, "MediaConnected")
    <3>1. d \in Calls
      BY <1>2, <2>2, StepFits
    <3>2. MediaConnected(a) = Command(d, "start")
      BY <2>2 DEF MediaConnected
    <3> HIDE DEF d
    <3>3. Append(d.mediaq, "start") \in Seq({"start", "stop"})
      BY <3>1, CallParts, CommandsGrow
    <3> QED BY <3>1, <3>2, <3>3 DEF Command, Calls
  <2> QED BY <2>1, <2>2
<1> QED BY <1>3 DEF a

(* A context with its parts.                                                *)
LEMMA ContextParts ==
  ASSUME NEW r \in Contexts
  PROVE  /\ r.owner \in Peers /\ r.call \in Calls /\ r.tp \in {0} \cup Conns
         /\ r.rx \in {"free", "taken"} /\ r.loop \in Live \cup {"none", "done"}
         /\ r.lconn \in {0} \cup Conns /\ r.inv \in {"none", "flight", "checked", "gone"}
         /\ r.offer \in Media /\ r.mic \in {0} \cup Conns /\ r.ingest \in {0} \cup Conns
BY DEF Contexts

(* The contexts are numbered.                                               *)
LEMMA Numbered ==
  ASSUME Shapes
  PROVE  Ids = 1 .. Len(calls) /\ Len(calls) \in Nat /\ \A k \in Ids : calls[k] \in Contexts
BY LenProperties DEF Shapes, Ids

(* Who has answered has answered.                                           *)
LEMMA AnswersStay ==
  ASSUME CallInv, Ids \subseteq Ids', \A k \in Ids : Stays(calls[k], calls'[k]),
         NEW c, NEW p, AnsweredAt(c, p)
  PROVE  \E j \in Ids' : calls'[j].owner # p /\ calls'[j].lconn = c /\ calls'[j].answered
<1>1. PICK j \in Ids : calls[j].owner # p /\ calls[j].lconn = c /\ calls[j].answered
  BY DEF AnsweredAt
<1>2. Bound(calls[j])
  BY <1>1 DEF CallInv, Local
<1>3. Stays(calls[j], calls'[j]) /\ j \in Ids'
  BY <1>1
<1> QED BY <1>1, <1>2, <1>3 DEF Stays

(* A step that keeps what the contexts are to keep and brings no accept     *)
(* and no caller through that is not answered for.                          *)
LEMMA StepKeeps ==
  ASSUME CallInv, Shapes', Counted', Ids \subseteq Ids',
         \A k \in Ids : Stays(calls[k], calls'[k]),
         \A k \in Ids' : Local(calls'[k]),
         \A k \in Ids' : calls'[k].inv # "none" /\ Through(calls'[k].call) =>
           \/ k \in Ids /\ calls[k].inv # "none" /\ Through(calls[k].call)
           \/ AnsweredAt(calls'[k].lconn, calls'[k].owner),
         \A c \in Conns, p \in Peers :
           HasAccept(conn'[c].q[p]) => HasAccept(conn[c].q[p]) \/ AnsweredAt(c, p)
  PROVE  CallInv'
<1>1. ASSUME NEW c \in Conns, NEW p \in Peers, HasAccept(conn'[c].q[p])
      PROVE  \E j \in Ids' : calls'[j].owner # p /\ calls'[j].lconn = c /\ calls'[j].answered
  <2>1. AnsweredAt(c, p)
    BY <1>1 DEF CallInv, Heard
  <2> QED BY <2>1, AnswersStay
<1>2. ASSUME NEW k \in Ids', calls'[k].inv # "none", Through(calls'[k].call)
      PROVE  \E j \in Ids' : /\ calls'[j].owner # calls'[k].owner
                             /\ calls'[j].lconn = calls'[k].lconn /\ calls'[j].answered
  <2>1. AnsweredAt(calls'[k].lconn, calls'[k].owner)
    <3>1. CASE k \in Ids /\ calls[k].inv # "none" /\ Through(calls[k].call)
      <4>1. AnsweredAt(calls[k].lconn, calls[k].owner)
        BY <3>1 DEF CallInv, Heard
      <4>2. Bound(calls[k]) /\ Stays(calls[k], calls'[k])
        BY <3>1 DEF CallInv, Local
      <4>3. calls'[k].lconn = calls[k].lconn /\ calls'[k].owner = calls[k].owner
        BY <4>2 DEF Stays
      <4> QED BY <4>1, <4>3
    <3> QED BY <1>2, <3>1
  <2> QED BY <2>1, AnswersStay
<1>3. Heard'
  BY <1>1, <1>2 DEF Heard, AnsweredAt
<1> QED BY <1>3 DEF CallInv

(* A function on an initial interval is a sequence.                         *)
LEMMA IntervalSeq ==
  ASSUME NEW S, NEW n \in Nat, NEW f \in [1 .. n -> S]
  PROVE  f \in Seq(S) /\ Len(f) = n
BY SeqDef, LenProperties

(* Contexts change, none is added.                                          *)
LEMMA NoneAdded ==
  ASSUME CallInv, calls' \in [1 .. Len(calls) -> Contexts],
         \A j \in Ids :
           /\ Local(calls'[j]) /\ Stays(calls[j], calls'[j])
           /\ calls'[j].inv # "none" <=> calls[j].inv # "none"
           /\ calls'[j].inv \in {"flight", "checked"} => calls[j].inv \in {"flight", "checked"}
           /\ calls'[j].inv # "none" /\ Through(calls'[j].call) =>
                Through(calls[j].call) \/ AnsweredAt(calls'[j].lconn, calls'[j].owner),
         slot' \in [Peers -> {0} \cup Ids], ending' \in [Peers -> {"no", "decline", "hangup"}],
         conn' \in [Conns -> Links],
         \A c \in Conns, p \in Peers :
           HasAccept(conn'[c].q[p]) => HasAccept(conn[c].q[p]) \/ AnsweredAt(c, p)
  PROVE  CallInv'
<1>1. Shapes /\ Ids = 1 .. Len(calls) /\ Len(calls) \in Nat
  BY Numbered DEF CallInv
<1>2. calls' \in Seq(Contexts) /\ Len(calls') = Len(calls) /\ Ids' = Ids
  <2>1. calls' \in Seq(Contexts)
    <3> DEFINE n == Len(calls)
               f == calls'
    <3>1. n \in Nat /\ f \in [1 .. n -> Contexts]
      BY <1>1
    <3> HIDE DEF n, f
    <3>2. f \in Seq(Contexts)
      BY <3>1, IntervalSeq
    <3> QED BY <3>2 DEF f
  <2> QED BY <1>1, <2>1, LenProperties DEF Ids
<1>3. Shapes'
  BY <1>2 DEF Shapes
<1>4. Counted'
  <2>0. IsFiniteSet(Ids)
    BY <1>1, FS_Interval
  <2>1. Placings' = Placings
    BY <1>2 DEF Placings
  <2>2. Invites' \subseteq Invites
    BY <1>2 DEF Invites
  <2>3. IsFiniteSet(Invites)
    BY <2>0, FS_Subset DEF Invites
  <2>4. /\ Cardinality(Invites') <= Cardinality(Invites)
        /\ Cardinality(Invites) \in Nat /\ Cardinality(Invites') \in Nat
    BY <2>2, <2>3, FS_Subset, FS_CardinalityType
  <2>5. IsFiniteSet(Placings)
    BY <2>0, FS_Subset DEF Placings
  <2>6. Cardinality(Placings) \in Nat
    BY <2>5, FS_CardinalityType
  <2> HIDE DEF Invites, Placings
  <2> QED BY <1>1, <1>2, <2>1, <2>4, <2>6 DEF Counted, CallInv
<1>5. ASSUME NEW j \in Ids', calls'[j].inv # "none", Through(calls'[j].call)
      PROVE  \/ j \in Ids /\ calls[j].inv # "none" /\ Through(calls[j].call)
             \/ AnsweredAt(calls'[j].lconn, calls'[j].owner)
  BY <1>2, <1>5
<1> QED BY <1>2, <1>3, <1>4, <1>5, StepKeeps

(* What one context may become.                                             *)
Becomes(r, q) ==
  /\ Local(q) /\ Stays(r, q)
  /\ q.inv # "none" <=> r.inv # "none"
  /\ q.inv \in {"flight", "checked"} => r.inv \in {"flight", "checked"}
  /\ q.inv # "none" /\ Through(q.call) =>
       Through(r.call) \/ AnsweredAt(q.lconn, q.owner)

(* One context changes.                                                     *)
LEMMA OneChanges ==
  ASSUME CallInv, NEW k \in Ids, NEW q, calls' = [calls EXCEPT ![k] = q], Becomes(calls[k], q),
         slot' \in [Peers -> {0} \cup Ids], ending' \in [Peers -> {"no", "decline", "hangup"}],
         conn' \in [Conns -> Links],
         \A c \in Conns, p \in Peers :
           HasAccept(conn'[c].q[p]) => HasAccept(conn[c].q[p]) \/ AnsweredAt(c, p)
  PROVE  CallInv'
<1>1. Shapes /\ Ids = 1 .. Len(calls) /\ Len(calls) \in Nat
  BY Numbered DEF CallInv
<1>2. q \in Contexts
  BY DEF Local, Becomes
<1>3. calls' \in [1 .. Len(calls) -> Contexts]
  <2>1. calls \in [1 .. Len(calls) -> Contexts]
    BY <1>1, LenProperties DEF Shapes
  <2> QED BY <1>1, <1>2, <2>1
<1>4. \A j \in Ids : calls'[j] = IF j = k THEN q ELSE calls[j]
  BY <1>1 DEF Ids
<1>5. ASSUME NEW j \in Ids PROVE Becomes(calls[j], calls'[j])
  <2>1. CASE j = k
    BY <1>4, <2>1
  <2>2. CASE j # k
    BY <1>4, <2>2 DEF Becomes, CallInv, Stays
  <2> QED BY <2>1, <2>2
<1> QED BY <1>3, <1>5, NoneAdded DEF Becomes

(* Nothing but connections, slots and endings changes.                      *)
LEMMA CallsStay ==
  ASSUME CallInv, calls' = calls,
         slot' \in [Peers -> {0} \cup Ids], ending' \in [Peers -> {"no", "decline", "hangup"}],
         conn' \in [Conns -> Links],
         \A c \in Conns, p \in Peers :
           HasAccept(conn'[c].q[p]) => HasAccept(conn[c].q[p]) \/ AnsweredAt(c, p)
  PROVE  CallInv'
<1>1. Shapes /\ Ids = 1 .. Len(calls) /\ Len(calls) \in Nat
  BY Numbered DEF CallInv
<1>2. calls' \in [1 .. Len(calls) -> Contexts]
  BY <1>1, LenProperties DEF Shapes
<1>3. \A j \in Ids : Local(calls[j]) /\ Stays(calls[j], calls[j])
  BY DEF CallInv, Stays
<1> QED BY <1>2, <1>3, NoneAdded

(* A context goes on without an answer and without another receiver.        *)
LEMMA GoesOn ==
  ASSUME NEW r, Local(r), NEW q \in Contexts,
         q.owner = r.owner, q.rx = r.rx, q.acc = r.acc, q.lconn = r.lconn, q.answered = r.answered,
         q.inv # "none" <=> r.inv # "none",
         q.inv \in {"flight", "checked"} => r.inv \in {"flight", "checked"},
         Promised(q.call) => Promised(r.call),
         q.sup = "starting" => r.sup = "starting" \/ Promised(r.call),
         q.mic # 0 => r.mic # 0 \/ r.sup = "starting",
         q.loop # "none" => r.loop # "none", q.card => r.card,
         q.inv # "none" /\ Through(q.call) =>
           Through(r.call) \/ (Bound(r) /\ AnsweredAt(q.lconn, q.owner))
  PROVE  Becomes(r, q)
BY DEF Becomes, Local, Stays, Bound

(* The actions that only count on that.  An invite is lost or looked at, a  *)
(* dial fails, a card closes.                                               *)
LEMMA LittleSteps ==
  ASSUME CallInv, NEW k \in Ids,
         InviteLost(k) \/ InviteChecked(k) \/ DialFails(k) \/ CardCloses(k)
  PROVE  CallInv'
<1> DEFINE r == calls[k]
<1>1. r \in Contexts /\ Local(r) /\ Shapes
  BY Numbered DEF CallInv
<1>2. UNCHANGED <<slot, ending, conn>>
  BY DEF InviteLost, InviteChecked, DialFails, CardCloses
<1>3. ASSUME NEW inv \in {"gone", "checked"}, r.inv = "flight",
             calls' = [calls EXCEPT ![k].inv = inv]
      PROVE  CallInv'
  <2> DEFINE q == [r EXCEPT !.inv = inv]
  <2>1. q \in Contexts
    BY <1>1 DEF Contexts
  <2>2. /\ q.owner = r.owner /\ q.rx = r.rx /\ q.acc = r.acc
        /\ q.lconn = r.lconn /\ q.answered = r.answered
        /\ q.call = r.call /\ q.sup = r.sup /\ q.mic = r.mic /\ q.loop = r.loop /\ q.card = r.card
        /\ q.inv = inv
    BY <1>1 DEF Contexts
  <2>3. calls' = [calls EXCEPT ![k] = q]
    BY <1>3
  <2> HIDE DEF q
  <2>4. Becomes(r, q)
    BY <1>1, <1>3, <2>1, <2>2, GoesOn
  <2> QED BY <1>1, <1>2, <2>3, <2>4, OneChanges DEF Shapes
<1>4. CASE InviteLost(k)
  BY <1>3, <1>4 DEF InviteLost
<1>5. CASE InviteChecked(k)
  <2>1. PICK inv \in {"gone", "checked"} : calls' = [calls EXCEPT ![k].inv = inv]
    BY <1>5 DEF InviteChecked
  <2> QED BY <1>3, <1>5, <2>1 DEF InviteChecked
<1>6. CASE DialFails(k)
  <2> DEFINE q == [r EXCEPT !.dial = "done"]
  <2>1. q \in Contexts
    BY <1>1 DEF Contexts
  <2>2. /\ q.owner = r.owner /\ q.rx = r.rx /\ q.acc = r.acc
        /\ q.lconn = r.lconn /\ q.answered = r.answered
        /\ q.call = r.call /\ q.sup = r.sup /\ q.mic = r.mic /\ q.loop = r.loop /\ q.card = r.card
        /\ q.inv = r.inv
    BY <1>1 DEF Contexts
  <2>3. calls' = [calls EXCEPT ![k] = q]
    BY <1>6 DEF DialFails
  <2> HIDE DEF q
  <2>4. Becomes(r, q)
    BY <1>1, <2>1, <2>2, GoesOn
  <2> QED BY <1>1, <1>2, <2>3, <2>4, OneChanges DEF Shapes
<1>7. CASE CardCloses(k)
  <2> DEFINE q == [r EXCEPT !.card = FALSE]
  <2>1. q \in Contexts
    BY <1>1 DEF Contexts
  <2>2. /\ q.owner = r.owner /\ q.rx = r.rx /\ q.acc = r.acc
        /\ q.lconn = r.lconn /\ q.answered = r.answered
        /\ q.call = r.call /\ q.sup = r.sup /\ q.mic = r.mic /\ q.loop = r.loop /\ q.card = FALSE
        /\ q.inv = r.inv
    BY <1>1 DEF Contexts
  <2>3. calls' = [calls EXCEPT ![k] = q]
    BY <1>7 DEF CardCloses
  <2> HIDE DEF q
  <2>4. Becomes(r, q)
    BY <1>1, <2>1, <2>2, GoesOn
  <2> QED BY <1>1, <1>2, <2>3, <2>4, OneChanges DEF Shapes
<1> QED BY <1>4, <1>5, <1>6, <1>7

(* The user declines or hangs up.                                           *)
LEMMA UserEnds ==
  ASSUME CallInv, NEW p \in Peers, Decline(p) \/ HangUp(p) PROVE CallInv'
<1> DEFINE k == slot[p]
           r == calls[k]
<1>0. k \in Ids /\ slot \in [Peers -> {0} \cup Ids]
  BY DEF CallInv, Shapes, Decline, HangUp
<1>1. r \in Contexts /\ Local(r) /\ Shapes /\ r.call \in Calls
  BY <1>0, Numbered, ContextParts DEF CallInv
<1>2. UNCHANGED <<slot, conn>> /\ ending' \in [Peers -> {"no", "decline", "hangup"}]
  BY <1>1 DEF Decline, HangUp, Shapes
<1>3. PICK d \in {LocalDecline(r.call), Hangup(r.call)} : calls' = [calls EXCEPT ![k].call = d]
  BY DEF Decline, HangUp
<1>4. d \in Calls /\ (Promised(d) => Promised(r.call)) /\ (Through(d) => Through(r.call))
  BY <1>1, <1>3, DeclineFits, HangupFits
<1> HIDE DEF k
<1> DEFINE q == [r EXCEPT !.call = d]
<1>5. q \in Contexts
  BY <1>1, <1>4 DEF Contexts
<1>6. /\ q.owner = r.owner /\ q.rx = r.rx /\ q.acc = r.acc
      /\ q.lconn = r.lconn /\ q.answered = r.answered
      /\ q.call = d /\ q.sup = r.sup /\ q.mic = r.mic /\ q.loop = r.loop /\ q.card = r.card
      /\ q.inv = r.inv
  BY <1>1 DEF Contexts
<1>7. calls' = [calls EXCEPT ![k] = q]
  BY <1>3
<1> HIDE DEF q
<1>8. Becomes(r, q)
  BY <1>1, <1>4, <1>5, <1>6, GoesOn
<1> QED BY <1>0, <1>1, <1>2, <1>7, <1>8, OneChanges DEF Shapes

(* A connection changes, but for its messages.                              *)
LEMMA LinkFits ==
  ASSUME NEW f \in [Conns -> Links], NEW c, NEW l, c \in Conns => l \in Links /\ l.q = f[c].q
  PROVE  /\ [f EXCEPT ![c] = l] \in [Conns -> Links]
         /\ \A d \in Conns : [f EXCEPT ![c] = l][d].q = f[d].q
OBVIOUS

(* A context that is torn down, and one whose loop is cut.                  *)
LEMMA TornDown ==
  ASSUME NEW r \in Contexts, NEW d \in Calls,
         NEW sup \in {"parked", "polling", "starting", "aborted"}
  PROVE  /\ [r EXCEPT !.td = "done", !.call = d, !.kill = TRUE, !.sup = sup] \in Contexts
         /\ [r EXCEPT !.loop = "done"] \in Contexts
<1> DEFINE a == [r EXCEPT !.td = "done", !.call = d, !.kill = TRUE]
           b == [a EXCEPT !.sup = sup]
<1>1. a \in Contexts
  BY ZenonT(30) DEF Contexts
<1> HIDE DEF a
<1>2. b \in Contexts
  BY <1>1 DEF Contexts
<1>3. [r EXCEPT !.loop = "done"] \in Contexts
  BY DEF Contexts
<1> QED BY <1>2, <1>3 DEF a

(* The end of a call, its two halves.                                       *)
LEMMA TeardownFits ==
  ASSUME CallInv, (\E p \in Peers : TeardownStores(p)) \/ (\E k \in Ids : TeardownAborts(k))
  PROVE  CallInv'
<1>1. ASSUME NEW p \in Peers, TeardownStores(p) PROVE CallInv'
  <2> DEFINE k == slot[p]
             r == calls[k]
  <2>1. Shapes /\ slot \in [Peers -> {0} \cup Ids]
    BY DEF CallInv, Shapes
  <2>2. UNCHANGED <<slot, conn>> /\ ending' \in [Peers -> {"no", "decline", "hangup"}]
    BY <1>1, <2>1 DEF TeardownStores, Shapes
  <2>3. CASE k = 0
    BY <1>1, <2>1, <2>2, <2>3, CallsStay DEF TeardownStores, Shapes
  <2>4. CASE k # 0
    <3>1. k \in Ids
      BY <2>1, <2>4
    <3>2. r \in Contexts /\ Local(r)
      BY <2>1, <3>1, Numbered DEF CallInv
    <3> DEFINE q == [r EXCEPT !.td = "half", !.micStop = TRUE]
    <3>3. calls' = [calls EXCEPT ![k] = q]
      BY <1>1, <2>4 DEF TeardownStores
    <3> HIDE DEF k
    <3>4. q \in Contexts
      BY <3>2, ZenonT(30) DEF Contexts
    <3>5. /\ q.owner = r.owner /\ q.rx = r.rx /\ q.acc = r.acc
          /\ q.lconn = r.lconn /\ q.answered = r.answered
          /\ q.call = r.call /\ q.sup = r.sup /\ q.mic = r.mic /\ q.loop = r.loop
          /\ q.card = r.card /\ q.inv = r.inv
      BY <3>2 DEF Contexts
    <3> HIDE DEF q
    <3>6. Becomes(r, q)
      BY <3>2, <3>4, <3>5, GoesOn
    <3> QED BY <2>1, <2>2, <3>1, <3>3, <3>6, OneChanges DEF Shapes
  <2> QED BY <2>3, <2>4
<1>2. ASSUME NEW k \in Ids, TeardownAborts(k) PROVE CallInv'
  <2> DEFINE r == calls[k]
             cut == {j \in {i \in Ids : calls[i].pushed = k} : calls[j].loop \in Live}
             sup == IF r.sup = "parked" THEN "aborted" ELSE r.sup
             d == Command(r.call, "stop")
             t == [r EXCEPT !.td = "done", !.call = d, !.kill = TRUE, !.sup = sup]
             torn == [calls EXCEPT ![k] = t]
  <2>1. /\ r \in Contexts /\ Local(r) /\ Shapes /\ r.call \in Calls /\ r.owner \in Peers
        /\ Ids = 1 .. Len(calls)
    BY Numbered, ContextParts DEF CallInv
  <2>2. d \in Calls /\ d.st = r.call.st /\ (Promised(d) => Promised(r.call))
    BY <2>1, StopFits
  <2>3. /\ calls' = [j \in Ids |-> IF j \in cut THEN [torn[j] EXCEPT !.loop = "done"]
                                  ELSE torn[j]]
        /\ slot' = [slot EXCEPT ![r.owner] = 0] /\ ending' = ending
        /\ conn' = [c \in DOMAIN conn |->
                      IF \E j \in cut : calls[j].lconn = c /\ calls[j].loop = "run"
                      THEN [conn[c] EXCEPT !.eof = @ \cup {r.owner}, !.open = TRUE]
                      ELSE conn[c]]
    <3>1. Aborts(k, {i \in Ids : calls[i].pushed = k})
      BY <1>2 DEF TeardownAborts
    <3>2. /\ slot' = [slot EXCEPT ![r.owner] = 0] /\ ending' = ending
          /\ conn' = [c \in DOMAIN conn |->
                        IF \E j \in cut : calls[j].lconn = c /\ calls[j].loop = "run"
                        THEN [conn[c] EXCEPT !.eof = @ \cup {r.owner}, !.open = TRUE]
                        ELSE conn[c]]
      BY <3>1, ZenonT(60) DEF Aborts
    <3> DEFINE a == [calls EXCEPT ![k].td = "done", ![k].call = Command(@, "stop"),
                                  ![k].kill = TRUE,
                                  ![k].sup = IF @ = "parked" THEN "aborted" ELSE @]
    <3>3. a = torn
      BY ZenonT(60)
    <3>4. calls' = [j \in Ids |-> IF j \in cut THEN [a[j] EXCEPT !.loop = "done"] ELSE a[j]]
      BY <3>1, ZenonT(60) DEF Aborts
    <3> HIDE DEF a, torn, cut
    <3> QED BY <3>2, <3>3, <3>4
  <2>4. /\ sup \in {"parked", "polling", "starting", "aborted"}
        /\ (sup = "starting" => r.sup = "starting")
    BY <2>1 DEF Contexts
  <2> HIDE DEF sup, d
  <2>5. t \in Contexts
    BY <2>1, <2>2, <2>4, TornDown
  <2>6. /\ t.owner = r.owner /\ t.rx = r.rx /\ t.acc = r.acc
        /\ t.lconn = r.lconn /\ t.answered = r.answered
        /\ t.call = d /\ t.sup = sup /\ t.mic = r.mic /\ t.loop = r.loop
        /\ t.card = r.card /\ t.inv = r.inv
    BY <2>1 DEF Contexts
  <2> HIDE DEF t
  <2>7. ASSUME NEW j \in Ids
        PROVE  /\ torn[j] = IF j = k THEN t ELSE calls[j]
               /\ calls[j] \in Contexts /\ Local(calls[j])
    BY <2>1, Numbered DEF CallInv
  <2> HIDE DEF torn
  <2>8. ASSUME NEW j \in Ids PROVE Becomes(calls[j], torn[j]) /\ torn[j].loop = calls[j].loop
                                  /\ torn[j].acc = calls[j].acc
    <3>1. Becomes(r, t)
      BY <2>1, <2>2, <2>4, <2>5, <2>6, GoesOn DEF Through
    <3>2. CASE j = k
      BY <2>6, <2>7, <3>1, <3>2
    <3>3. CASE j # k
      BY <2>7, <3>3 DEF Becomes, Stays
    <3> QED BY <3>2, <3>3
  <2>9. ASSUME NEW j \in Ids PROVE Becomes(calls[j], calls'[j])
    <3> DEFINE a == torn[j]
               q == [a EXCEPT !.loop = "done"]
    <3>1. CASE j \notin cut
      BY <2>3, <2>8, <3>1
    <3>2. CASE j \in cut
      <4>1. a \in Contexts /\ Local(a) /\ calls'[j] = q /\ a.loop # "none"
        <5>1. a.loop \in Live
          BY <2>8, <3>2
        <5> QED BY <2>3, <2>8, <3>2, <5>1 DEF Becomes, Local, Live
      <4>2. q \in Contexts
        BY <2>2, <2>4, <4>1, TornDown
      <4>3. /\ q.owner = a.owner /\ q.rx = a.rx /\ q.acc = a.acc
            /\ q.lconn = a.lconn /\ q.answered = a.answered
            /\ q.call = a.call /\ q.sup = a.sup /\ q.mic = a.mic
            /\ q.card = a.card /\ q.inv = a.inv
        BY <4>1 DEF Contexts
      <4> HIDE DEF q, a
      <4>4. Becomes(a, q)
        BY <4>1, <4>2, <4>3, GoesOn
      <4>5. Becomes(calls[j], a)
        BY <2>8 DEF a
      <4> QED BY <4>1, <4>3, <4>4, <4>5 DEF Becomes, Stays
    <3> QED BY <3>1, <3>2
  <2>10. calls' \in [1 .. Len(calls) -> Contexts]
    BY <2>1, <2>3, <2>9 DEF Becomes, Local
  <2>11. slot' \in [Peers -> {0} \cup Ids]
    BY <2>1, <2>3 DEF Shapes
  <2>12. conn' \in [Conns -> Links] /\ \A c \in Conns : conn'[c].q = conn[c].q
    <3>1. conn \in [Conns -> Links]
      BY <2>1 DEF Shapes
    <3>2. ASSUME NEW c \in Conns
          PROVE  LET l == [conn[c] EXCEPT !.eof = @ \cup {r.owner}, !.open = TRUE]
                 IN l \in Links /\ l.q = conn[c].q
      <4>1. conn[c] \in Links
        BY <3>1
      <4> HIDE DEF r
      <4> QED BY <2>1, <4>1 DEF Links
    <3> HIDE DEF cut
    <3>3. ASSUME NEW c \in Conns PROVE conn'[c] \in Links /\ conn'[c].q = conn[c].q
      BY <2>3, <3>1, <3>2
    <3>4. conn' \in [Conns -> Links]
      BY <2>3, <3>1, <3>3
    <3> QED BY <3>3, <3>4
  <2> QED BY <2>1, <2>3, <2>9, <2>10, <2>11, <2>12, NoneAdded DEF Becomes, Shapes
<1> QED BY <1>1, <1>2

(* The supervisor and the tasks of the media.                               *)
LEMMA MediaFits ==
  ASSUME CallInv, NEW k \in Ids,
         Supervisor(k) \/ MicStops(k) \/ IngestEnds(k)
  PROVE  CallInv'
<1> DEFINE r == calls[k]
<1>1. r \in Contexts /\ Local(r) /\ Shapes /\ r.call \in Calls
  BY Numbered, ContextParts DEF CallInv
<1>2. UNCHANGED <<slot, ending, conn>>
  BY DEF Supervisor, SupTakesStart, SupStarts, SupStops, SupParks, MicStops, IngestEnds
<1>3. ASSUME r.call.mediaq # <<>>
      PROVE  LET d == [r.call EXCEPT !.mediaq = Tail(@)]
             IN d \in Calls /\ (Promised(d) => Promised(r.call)) /\ d.st = r.call.st
  <2> DEFINE d == [r.call EXCEPT !.mediaq = Tail(@)]
  <2>1. /\ Tail(r.call.mediaq) \in Seq({"start", "stop"})
        /\ HasStart(Tail(r.call.mediaq)) => HasStart(r.call.mediaq)
    BY <1>1, <1>3, CallParts, QueuesShrink
  <2>2. d \in Calls /\ d.st = r.call.st /\ d.outq = r.call.outq /\ d.mediaq = Tail(r.call.mediaq)
    BY <1>1, <2>1 DEF Calls
  <2> QED BY <2>1, <2>2 DEF Promised
<1>4. CASE SupStarts(k)
  <2> DEFINE q == [r EXCEPT !.sup = "polling", !.micStop = FALSE, !.mic = r.tp]
  <2>1. q \in Contexts
    BY <1>1, ContextParts, ZenonT(30) DEF Contexts
  <2>2. /\ q.owner = r.owner /\ q.rx = r.rx /\ q.acc = r.acc
        /\ q.lconn = r.lconn /\ q.answered = r.answered
        /\ q.call = r.call /\ q.sup = "polling" /\ (q.mic # 0 => r.sup = "starting")
        /\ q.loop = r.loop /\ q.card = r.card /\ q.inv = r.inv
    BY <1>1, <1>4 DEF Contexts, SupStarts
  <2>3. calls' = [calls EXCEPT ![k] = q]
    BY <1>4 DEF SupStarts
  <2> HIDE DEF q
  <2>4. Becomes(r, q)
    BY <1>1, <2>1, <2>2, GoesOn
  <2> QED BY <1>1, <1>2, <2>3, <2>4, OneChanges DEF Shapes
<1>5. CASE SupParks(k)
  <2> DEFINE q == [r EXCEPT !.sup = IF r.kill THEN "aborted" ELSE "parked"]
  <2>1. q \in Contexts
    BY <1>1 DEF Contexts
  <2>2. /\ q.owner = r.owner /\ q.rx = r.rx /\ q.acc = r.acc
        /\ q.lconn = r.lconn /\ q.answered = r.answered
        /\ q.call = r.call /\ q.sup # "starting" /\ q.mic = r.mic
        /\ q.loop = r.loop /\ q.card = r.card /\ q.inv = r.inv
    BY <1>1 DEF Contexts
  <2>3. calls' = [calls EXCEPT ![k] = q]
    BY <1>5 DEF SupParks
  <2> HIDE DEF q
  <2>4. Becomes(r, q)
    BY <1>1, <2>1, <2>2, GoesOn
  <2> QED BY <1>1, <1>2, <2>3, <2>4, OneChanges DEF Shapes
<1>6. CASE MicStops(k)
  <2> DEFINE q == [r EXCEPT !.mic = 0]
  <2>1. q \in Contexts
    BY <1>1 DEF Contexts
  <2>2. /\ q.owner = r.owner /\ q.rx = r.rx /\ q.acc = r.acc
        /\ q.lconn = r.lconn /\ q.answered = r.answered
        /\ q.call = r.call /\ q.sup = r.sup /\ q.mic = 0
        /\ q.loop = r.loop /\ q.card = r.card /\ q.inv = r.inv
    BY <1>1 DEF Contexts
  <2>3. calls' = [calls EXCEPT ![k] = q]
    BY <1>6 DEF MicStops
  <2> HIDE DEF q
  <2>4. Becomes(r, q)
    BY <1>1, <2>1, <2>2, GoesOn
  <2> QED BY <1>1, <1>2, <2>3, <2>4, OneChanges DEF Shapes
<1>7. CASE IngestEnds(k)
  <2> DEFINE q == [r EXCEPT !.ingest = 0]
  <2>1. q \in Contexts
    BY <1>1 DEF Contexts
  <2>2. /\ q.owner = r.owner /\ q.rx = r.rx /\ q.acc = r.acc
        /\ q.lconn = r.lconn /\ q.answered = r.answered
        /\ q.call = r.call /\ q.sup = r.sup /\ q.mic = r.mic
        /\ q.loop = r.loop /\ q.card = r.card /\ q.inv = r.inv
    BY <1>1 DEF Contexts
  <2>3. calls' = [calls EXCEPT ![k] = q]
    BY <1>7 DEF IngestEnds
  <2> HIDE DEF q
  <2>4. Becomes(r, q)
    BY <1>1, <2>1, <2>2, GoesOn
  <2> QED BY <1>1, <1>2, <2>3, <2>4, OneChanges DEF Shapes
<1>8. CASE SupStops(k)
  <2> DEFINE d == [r.call EXCEPT !.mediaq = Tail(@)]
             q == [r EXCEPT !.call = d, !.sup = "polling", !.micStop = TRUE, !.ingest = 0]
  <2>0. d \in Calls /\ (Promised(d) => Promised(r.call)) /\ d.st = r.call.st
    BY <1>3, <1>8 DEF SupStops, Serves
  <2>3. calls' = [calls EXCEPT ![k] = q]
    BY <1>8 DEF SupStops
  <2> HIDE DEF d
  <2>1. q \in Contexts
    BY <1>1, <2>0, ZenonT(30) DEF Contexts
  <2>2. /\ q.owner = r.owner /\ q.rx = r.rx /\ q.acc = r.acc
        /\ q.lconn = r.lconn /\ q.answered = r.answered
        /\ q.call = d /\ q.sup = "polling" /\ q.mic = r.mic /\ q.loop = r.loop
        /\ q.card = r.card /\ q.inv = r.inv
    BY <1>1 DEF Contexts
  <2> HIDE DEF q
  <2>4. Becomes(r, q)
    BY <1>1, <2>0, <2>1, <2>2, GoesOn DEF Through
  <2> QED BY <1>1, <1>2, <2>3, <2>4, OneChanges DEF Shapes
<1>9. CASE SupTakesStart(k)
  <2> DEFINE d == [r.call EXCEPT !.mediaq = Tail(@)]
  <2>0. d \in Calls /\ (Promised(d) => Promised(r.call)) /\ d.st = r.call.st
    BY <1>3, <1>9 DEF SupTakesStart, Serves
  <2>1. Promised(r.call)
    <3>1. r.call.mediaq # <<>> /\ Head(r.call.mediaq) = "start"
      BY <1>9 DEF SupTakesStart, Serves
    <3> QED BY <1>1, <3>1, CallParts, QueuesShrink DEF Promised
  <2>2. CASE r.tp = 0
    <3> DEFINE q == [r EXCEPT !.call = d, !.sup = "polling"]
    <3>1. calls' = [calls EXCEPT ![k] = q]
      BY <1>9, <2>2 DEF SupTakesStart
    <3> HIDE DEF d
    <3>2. q \in Contexts
      BY <1>1, <2>0, ZenonT(30) DEF Contexts
    <3>3. /\ q.owner = r.owner /\ q.rx = r.rx /\ q.acc = r.acc
          /\ q.lconn = r.lconn /\ q.answered = r.answered
          /\ q.call = d /\ q.sup = "polling" /\ q.mic = r.mic /\ q.loop = r.loop
          /\ q.card = r.card /\ q.inv = r.inv
      BY <1>1 DEF Contexts
    <3> HIDE DEF q
    <3>4. Becomes(r, q)
      BY <1>1, <2>0, <3>2, <3>3, GoesOn DEF Through
    <3> QED BY <1>1, <1>2, <3>1, <3>4, OneChanges DEF Shapes
  <2>3. CASE r.tp # 0
    <3> DEFINE q == [r EXCEPT !.call = d, !.sup = "starting", !.ingest = r.tp]
    <3>1. calls' = [calls EXCEPT ![k] = q]
      BY <1>9, <2>3 DEF SupTakesStart
    <3> HIDE DEF d
    <3>2. q \in Contexts
      BY <1>1, <2>0, ContextParts, ZenonT(30) DEF Contexts
    <3>3. /\ q.owner = r.owner /\ q.rx = r.rx /\ q.acc = r.acc
          /\ q.lconn = r.lconn /\ q.answered = r.answered
          /\ q.call = d /\ q.sup = "starting" /\ q.mic = r.mic /\ q.loop = r.loop
          /\ q.card = r.card /\ q.inv = r.inv
      BY <1>1 DEF Contexts
    <3> HIDE DEF q
    <3>4. Becomes(r, q)
      BY <1>1, <2>0, <2>1, <3>2, <3>3, GoesOn DEF Through
    <3> QED BY <1>1, <1>2, <3>1, <3>4, OneChanges DEF Shapes
  <2> QED BY <2>2, <2>3
<1> QED BY <1>4, <1>5, <1>6, <1>7, <1>8, <1>9 DEF Supervisor

(* There is a connection for every context.                                 *)
LEMMA IdsAreConns ==
  ASSUME CallInv PROVE Ids \subseteq Conns
<1>1. Shapes /\ Ids = 1 .. Len(calls) /\ Len(calls) \in Nat
  BY Numbered DEF CallInv
<1>2. IsFiniteSet(Ids)
  BY <1>1, FS_Interval
<1>3. IsFiniteSet(Placings) /\ IsFiniteSet(Invites)
  BY <1>2, FS_Subset DEF Placings, Invites
<1>4. Cardinality(Placings) \in Nat /\ Cardinality(Invites) \in Nat
  BY <1>3, FS_CardinalityType
<1>5. Len(calls) <= 2 * MaxPlaced
  <2> HIDE DEF Placings, Invites
  <2> QED BY <1>1, <1>4, MaxPlacedIsNat DEF CallInv, Counted
<1> QED BY <1>1, <1>5, MaxPlacedIsNat DEF Conns

(* The control loop opens, and ends.                                        *)
LEMMA LoopTurns ==
  ASSUME CallInv, NEW k \in Ids, LoopOpens(k) \/ LoopEnds(k) PROVE CallInv'
<1> DEFINE r == calls[k]
<1>1. r \in Contexts /\ Local(r) /\ Shapes /\ r.loop \in Live
  BY Numbered DEF CallInv, LoopOpens, LoopEnds, Live
<1>2. UNCHANGED <<slot, ending>>
  BY DEF LoopOpens, LoopEnds
<1>3. PICK loop \in {"run", "done"} : calls' = [calls EXCEPT ![k].loop = loop]
  BY DEF LoopOpens, LoopEnds
<1> DEFINE q == [r EXCEPT !.loop = loop]
<1>4. q \in Contexts
  BY <1>1 DEF Contexts, Live
<1>5. /\ q.owner = r.owner /\ q.rx = r.rx /\ q.acc = r.acc
      /\ q.lconn = r.lconn /\ q.answered = r.answered
      /\ q.call = r.call /\ q.sup = r.sup /\ q.mic = r.mic /\ q.card = r.card
      /\ q.inv = r.inv
  BY <1>1 DEF Contexts
<1>6. calls' = [calls EXCEPT ![k] = q]
  BY <1>3
<1> HIDE DEF q
<1>7. Becomes(r, q)
  BY <1>1, <1>4, <1>5, GoesOn DEF Live
<1>8. conn' = conn \/ conn' = [conn EXCEPT ![r.lconn].eof = @ \cup {r.owner}]
  BY DEF LoopOpens, LoopEnds
<1>9. conn' \in [Conns -> Links] /\ \A c \in Conns : conn'[c].q = conn[c].q
  <2>1. r.owner \in Peers /\ conn \in [Conns -> Links]
    BY <1>1, ContextParts DEF Shapes
  <2> HIDE DEF r
  <2>2. CASE conn' = conn
    BY <2>1, <2>2
  <2>3. CASE conn' = [conn EXCEPT ![r.lconn].eof = @ \cup {r.owner}]
    <3> DEFINE l == [conn[r.lconn] EXCEPT !.eof = @ \cup {r.owner}]
    <3>1. conn' = [conn EXCEPT ![r.lconn] = l]
      BY <2>3
    <3>2. ASSUME r.lconn \in Conns PROVE l \in Links /\ l.q = conn[r.lconn].q
      <4>1. conn[r.lconn] \in Links
        BY <2>1, <3>2
      <4> QED BY <2>1, <4>1 DEF Links
    <3> HIDE DEF l
    <3> QED BY <2>1, <3>1, <3>2, LinkFits
  <2> QED BY <1>8, <2>2, <2>3
<1> QED BY <1>1, <1>2, <1>6, <1>7, <1>9, OneChanges DEF Shapes

(* The other user.                                                          *)
LEMMA OthersDiffer ==
  ASSUME NEW p \in Peers PROVE Other(p) \in Peers /\ Other(p) # p
BY TwoPeers DEF Peers, Other

(* The loop sends: an accept only for a call that is answered.              *)
LEMMA SendsFit ==
  ASSUME CallInv, NEW k \in Ids, LoopSends(k) PROVE CallInv'
<1> DEFINE r == calls[k]
           d == [r.call EXCEPT !.outq = Tail(@)]
           q == [r EXCEPT !.call = d]
           m == Head(r.call.outq)
           c == r.lconn
           p == r.owner
<1>1. r \in Contexts /\ Local(r) /\ Shapes /\ r.call \in Calls /\ p \in Peers
  BY Numbered, ContextParts DEF CallInv
<1>2. UNCHANGED <<slot, ending>> /\ calls' = [calls EXCEPT ![k] = q] /\ r.call.outq # <<>>
  BY DEF LoopSends
<1>3. /\ Tail(r.call.outq) \in Seq(Messages) /\ m \in Messages
      /\ HasAccept(Tail(r.call.outq)) => HasAccept(r.call.outq)
      /\ m.kind = "accept" => HasAccept(r.call.outq)
  BY <1>1, <1>2, CallParts, QueuesShrink
<1>4. d \in Calls /\ d.st = r.call.st /\ (Promised(d) => Promised(r.call))
  <2>1. d \in Calls /\ d.st = r.call.st /\ d.mediaq = r.call.mediaq /\ d.outq = Tail(r.call.outq)
    BY <1>1, <1>3 DEF Calls
  <2> QED BY <1>3, <2>1 DEF Promised
<1> HIDE DEF d
<1>5. q \in Contexts
  BY <1>1, <1>4 DEF Contexts
<1>6. /\ q.owner = r.owner /\ q.rx = r.rx /\ q.acc = r.acc
      /\ q.lconn = r.lconn /\ q.answered = r.answered
      /\ q.call = d /\ q.sup = r.sup /\ q.mic = r.mic /\ q.loop = r.loop /\ q.card = r.card
      /\ q.inv = r.inv
  BY <1>1 DEF Contexts
<1> HIDE DEF q
<1>7. Becomes(r, q)
  BY <1>1, <1>4, <1>5, <1>6, GoesOn DEF Through
<1>8. m.kind = "accept" => AnsweredAt(c, Other(p))
  <2>1. m.kind = "accept" => r.answered
    BY <1>1, <1>3 DEF Local, Promised
  <2>2. p # Other(p)
    BY <1>1, OthersDiffer
  <2> QED BY <2>1, <2>2 DEF AnsweredAt
<1>9. CASE conn' = conn
  BY <1>1, <1>2, <1>7, <1>9, OneChanges DEF Shapes
<1>10. CASE conn' # conn
  <2> DEFINE o == Other(p)
             was == conn[c]
             l == [was EXCEPT !.q = [was.q EXCEPT ![o] = Append(@, m)], !.open = TRUE]
  <2>1. conn' = [conn EXCEPT ![c] = l]
    BY <1>10 DEF LoopSends
  <2>2. conn \in [Conns -> Links] /\ c \in Conns /\ o \in Peers
    <3>1. r.loop # "none"
      BY DEF LoopSends
    <3> QED BY <1>1, <3>1, ContextParts, OthersDiffer DEF Local, Shapes
  <2>3. was \in Links
    BY <2>2
  <2> HIDE DEF c, m, o, was
  <2>4. was.q \in [Peers -> Seq(Messages)] /\ was.q[o] \in Seq(Messages)
    BY <2>2, <2>3 DEF Links
  <2>5. Append(was.q[o], m) \in Seq(Messages)
        /\ (HasAccept(Append(was.q[o], m)) => HasAccept(was.q[o]) \/ m.kind = "accept")
    BY <1>3, <2>4, QueueGrows
  <2> DEFINE b == [was.q EXCEPT ![o] = Append(was.q[o], m)]
  <2>6. b \in [Peers -> Seq(Messages)] /\ b[o] = Append(was.q[o], m)
        /\ \A x \in Peers : x # o => b[x] = was.q[x]
    BY <2>2, <2>4, <2>5
  <2>7. l = [was EXCEPT !.q = b, !.open = TRUE]
    OBVIOUS
  <2> HIDE DEF b, l
  <2>8. l \in Links /\ l.q = b
    BY <2>3, <2>6, <2>7 DEF Links
  <2>9. conn' \in [Conns -> Links] /\ conn'[c] = l /\ \A x \in Conns : x # c => conn'[x] = conn[x]
    BY <2>1, <2>2, <2>8
  <2>10. ASSUME NEW x \in Conns, NEW y \in Peers, HasAccept(conn'[x].q[y])
         PROVE  HasAccept(conn[x].q[y]) \/ AnsweredAt(x, y)
    <3>1. CASE x = c /\ y = o
      <4>1. HasAccept(was.q[o]) \/ m.kind = "accept"
        BY <2>5, <2>6, <2>8, <2>9, <2>10, <3>1
      <4> QED BY <1>8, <3>1, <4>1 DEF c, m, o, was
    <3>2. CASE x = c /\ y # o
      <4>1. conn'[x].q[y] = was.q[y]
        BY <2>6, <2>8, <2>9, <3>2
      <4> QED BY <2>10, <3>2, <4>1 DEF was
    <3>3. CASE x # c
      BY <2>9, <2>10, <3>3
    <3> QED BY <3>1, <3>2, <3>3
  <2> QED BY <1>1, <1>2, <1>7, <2>9, <2>10, OneChanges DEF Shapes
<1> QED BY <1>9, <1>10

(* The loop receives: a caller is taken through by an accept, which is on   *)
(* the connection because the call at its other end is answered.            *)
LEMMA ReceivesFit ==
  ASSUME CallInv, NEW k \in Ids, LoopReceives(k) PROVE CallInv'
<1> DEFINE r == calls[k]
           c == r.lconn
           p == r.owner
           msgs == conn[c].q[p]
           m == Head(msgs)
           ends == m.kind \in {"hangup", "reject"}
           d == OnControl(r.call, m)
           loop == IF ends THEN "done" ELSE r.loop
           q == [r EXCEPT !.call = d, !.loop = loop]
<1>1. r \in Contexts /\ Local(r) /\ Shapes /\ r.call \in Calls /\ p \in Peers
  BY Numbered, ContextParts DEF CallInv
<1>2. /\ UNCHANGED <<slot, ending>> /\ calls' = [calls EXCEPT ![k] = q] /\ r.loop = "run"
      /\ msgs # <<>>
  BY DEF LoopReceives
<1>3. c \in Conns /\ Bound(r) /\ conn \in [Conns -> Links]
  BY <1>1, <1>2, ContextParts DEF Local, Shapes
<1>4. conn[c] \in Links /\ conn[c].q \in [Peers -> Seq(Messages)] /\ msgs \in Seq(Messages)
  BY <1>1, <1>3 DEF Links
<1>5. /\ Tail(msgs) \in Seq(Messages) /\ m \in Messages
      /\ HasAccept(Tail(msgs)) => HasAccept(msgs)
      /\ m.kind = "accept" => HasAccept(msgs)
  BY <1>2, <1>4, QueuesShrink
<1>6. m.kind = "accept" => AnsweredAt(c, p)
  BY <1>1, <1>3, <1>5 DEF CallInv, Heard
<1>7. /\ d \in Calls /\ (Promised(d) => Promised(r.call))
      /\ Through(d) => Through(r.call) \/ m.kind = "accept"
  BY <1>1, <1>5, ControlFits
<1>8. loop \in Live \cup {"none", "done"}
  BY <1>2 DEF Live
<1> HIDE DEF d, loop
<1>9. q \in Contexts
  BY <1>1, <1>7, <1>8 DEF Contexts
<1>10. /\ q.owner = r.owner /\ q.rx = r.rx /\ q.acc = r.acc
       /\ q.lconn = r.lconn /\ q.answered = r.answered
       /\ q.call = d /\ q.sup = r.sup /\ q.mic = r.mic /\ q.loop = loop /\ q.card = r.card
       /\ q.inv = r.inv
  BY <1>1 DEF Contexts
<1> HIDE DEF q
<1>11. Becomes(r, q)
  BY <1>1, <1>2, <1>3, <1>6, <1>7, <1>9, <1>10, GoesOn
<1> DEFINE was == conn[c]
           b == [was.q EXCEPT ![p] = Tail(@)]
           e == IF ends THEN was.eof \cup {p} ELSE was.eof
           l == [was EXCEPT !.q = b, !.eof = e]
<1>12. conn' = [conn EXCEPT ![c] = l]
  BY DEF LoopReceives
<1>13. b \in [Peers -> Seq(Messages)] /\ b[p] = Tail(msgs)
       /\ \A x \in Peers : x # p => b[x] = was.q[x]
  BY <1>1, <1>4, <1>5
<1>14. e \in SUBSET Peers
  BY <1>1, <1>4 DEF Links
<1> HIDE DEF b, e, m
<1>15. l \in Links /\ l.q = b
  BY <1>4, <1>13, <1>14 DEF Links
<1> HIDE DEF l
<1>16. conn' \in [Conns -> Links] /\ conn'[c] = l /\ \A x \in Conns : x # c => conn'[x] = conn[x]
  BY <1>3, <1>12, <1>15
<1>17. ASSUME NEW x \in Conns, NEW y \in Peers, HasAccept(conn'[x].q[y])
       PROVE  HasAccept(conn[x].q[y]) \/ AnsweredAt(x, y)
  <2>1. CASE x = c /\ y = p
    BY <1>5, <1>13, <1>15, <1>16, <1>17, <2>1
  <2>2. CASE x = c /\ y # p
    BY <1>13, <1>15, <1>16, <1>17, <2>2
  <2>3. CASE x # c
    BY <1>16, <1>17, <2>3
  <2> QED BY <2>1, <2>2, <2>3
<1> QED BY <1>1, <1>2, <1>11, <1>16, <1>17, OneChanges DEF Shapes

(* The user accepts: only a ring has a card, and its receiver is free.      *)
LEMMA AcceptKeeps ==
  ASSUME CallInv, NEW p \in Peers, NEW media \in Offers, Accept(p, media) PROVE CallInv'
<1> DEFINE k == slot[p]
           r == calls[k]
           q == [r EXCEPT !.rx = "taken", !.acc = "took", !.offer = media]
<1>1. k \in Ids /\ Shapes
  BY DEF CallInv, Shapes, Accept
<1>2. r \in Contexts /\ Local(r) /\ media \in Media
  BY <1>1, Numbered, OffersAreMedia DEF CallInv
<1>3. UNCHANGED <<slot, ending, conn>> /\ r.card /\ r.rx = "free"
  BY DEF Accept
<1>4. r.inv = "none" /\ ~Bound(r) /\ ~r.answered /\ r.loop = "none"
  BY <1>2, <1>3 DEF Local, Bound
<1>5. calls' = [calls EXCEPT ![k] = q]
  BY DEF Accept
<1>6. q \in Contexts
  BY <1>2, ZenonT(30) DEF Contexts
<1>7. /\ q.owner = r.owner /\ q.rx = "taken" /\ q.acc = "took" /\ q.answered = r.answered
      /\ q.call = r.call /\ q.sup = r.sup /\ q.mic = r.mic /\ q.loop = r.loop
      /\ q.card = r.card /\ q.inv = r.inv
  BY <1>2 DEF Contexts
<1> HIDE DEF q, k
<1>8. Becomes(r, q)
  BY <1>2, <1>4, <1>6, <1>7 DEF Becomes, Local, Stays, Bound
<1> QED BY <1>1, <1>3, <1>5, <1>8, OneChanges DEF Shapes

(* The rest of an accept: whoever took the receiver gives the loop its      *)
(* connection, and answers last.                                            *)
LEMMA AcceptingKeeps ==
  ASSUME CallInv, NEW k \in Ids, Accepting(k) PROVE CallInv'
<1> DEFINE r == calls[k]
<1>1. r \in Contexts /\ Local(r) /\ Shapes /\ r.call \in Calls /\ r.offer \in Media
      /\ r.tp \in {0} \cup Conns /\ r.owner \in Peers
  BY Numbered, ContextParts DEF CallInv
<1>2. UNCHANGED <<slot, ending, conn>>
  BY DEF Accepting, AcceptSpawns, AcceptPushes, AcceptAnswers
<1>3. r.acc # "no"
  BY DEF Accepting, AcceptSpawns, AcceptPushes, AcceptAnswers
<1>4. r.inv = "none" /\ r.rx = "taken"
  BY <1>1, <1>3 DEF Local
<1>5. CASE AcceptSpawns(k) /\ r.tp = 0
  <2> DEFINE q == [r EXCEPT !.acc = "no"]
  <2>1. calls' = [calls EXCEPT ![k] = q] /\ ~Bound(r)
    BY <1>5 DEF AcceptSpawns, Bound
  <2>2. q \in Contexts
    BY <1>1 DEF Contexts
  <2>3. /\ q.owner = r.owner /\ q.rx = "taken" /\ q.acc = "no" /\ q.answered = r.answered
        /\ q.call = r.call /\ q.sup = r.sup /\ q.mic = r.mic /\ q.loop = r.loop
        /\ q.card = r.card /\ q.inv = r.inv
    BY <1>1, <1>4 DEF Contexts
  <2> HIDE DEF q
  <2>4. Becomes(r, q)
    BY <1>1, <1>4, <2>1, <2>2, <2>3 DEF Becomes, Local, Stays, Bound
  <2> QED BY <1>1, <1>2, <2>1, <2>4, OneChanges DEF Shapes
<1>6. CASE AcceptSpawns(k) /\ r.tp # 0
  <2> DEFINE q == [r EXCEPT !.acc = "spawned", !.loop = "opening", !.lconn = r.tp]
  <2>1. calls' = [calls EXCEPT ![k] = q] /\ ~Bound(r)
    BY <1>6 DEF AcceptSpawns, Bound
  <2>2. q \in Contexts
    BY <1>1 DEF Contexts, Live
  <2>3. /\ q.owner = r.owner /\ q.rx = "taken" /\ q.acc = "spawned" /\ q.answered = r.answered
        /\ q.call = r.call /\ q.sup = r.sup /\ q.mic = r.mic /\ q.loop = "opening"
        /\ q.lconn = r.tp /\ q.card = r.card /\ q.inv = r.inv
    BY <1>1, <1>4 DEF Contexts
  <2> HIDE DEF q
  <2>4. Becomes(r, q)
    BY <1>1, <1>4, <1>6, <2>1, <2>2, <2>3 DEF Becomes, Local, Stays, Bound
  <2> QED BY <1>1, <1>2, <2>1, <2>4, OneChanges DEF Shapes
<1>7. CASE AcceptPushes(k)
  <2> DEFINE s == slot[r.owner]
             q == [r EXCEPT !.acc = "pushed", !.pushed = s]
  <2>1. calls' = [calls EXCEPT ![k] = q] /\ r.acc = "spawned"
    BY <1>7 DEF AcceptPushes
  <2>2. s \in Nat
    BY <1>1, Numbered DEF Shapes
  <2> HIDE DEF s
  <2>3. q \in Contexts
    BY <1>1, <2>2 DEF Contexts
  <2>4. /\ q.owner = r.owner /\ q.rx = r.rx /\ q.acc = "pushed"
        /\ q.lconn = r.lconn /\ q.answered = r.answered
        /\ q.call = r.call /\ q.sup = r.sup /\ q.mic = r.mic /\ q.loop = r.loop
        /\ q.card = r.card /\ q.inv = r.inv
    BY <1>1 DEF Contexts
  <2> HIDE DEF q
  <2>5. Becomes(r, q)
    BY <1>1, <1>4, <2>1, <2>3, <2>4 DEF Becomes, Local, Stays, Bound
  <2> QED BY <1>1, <1>2, <2>1, <2>5, OneChanges DEF Shapes
<1>8. CASE AcceptAnswers(k)
  <2> DEFINE d == MediaConnected(LocalAccept(r.call, r.offer))
             q == [r EXCEPT !.acc = "no", !.answered = TRUE, !.call = d]
  <2>1. calls' = [calls EXCEPT ![k] = q] /\ r.acc = "pushed"
    BY <1>8 DEF AcceptAnswers
  <2>2. d \in Calls
    BY <1>1, AcceptFits
  <2> HIDE DEF d
  <2>3. q \in Contexts
    BY <1>1, <2>2, ZenonT(30) DEF Contexts
  <2>4. /\ q.owner = r.owner /\ q.rx = r.rx /\ q.acc = "no"
        /\ q.lconn = r.lconn /\ q.answered
        /\ q.sup = r.sup /\ q.mic = r.mic /\ q.loop = r.loop
        /\ q.card = r.card /\ q.inv = r.inv
    BY <1>1 DEF Contexts
  <2> HIDE DEF q
  <2>5. Becomes(r, q)
    BY <1>1, <1>4, <2>1, <2>3, <2>4 DEF Becomes, Local, Stays, Bound
  <2> QED BY <1>1, <1>2, <2>1, <2>5, OneChanges DEF Shapes
<1> QED BY <1>5, <1>6, <1>7, <1>8 DEF Accepting

(* The session reaches the other side; a connection is lost.                *)
LEMMA SessionsFit ==
  ASSUME CallInv, NEW c \in Placings, Arrives(c) \/ ConnectionLost(c) PROVE CallInv'
<1>1. Shapes /\ c \in Conns /\ c \in Ids /\ conn \in [Conns -> Links]
  BY IdsAreConns DEF CallInv, Shapes, Placings
<1>2. UNCHANGED <<slot, ending>>
  BY DEF Arrives, ConnectionLost
<1>3. conn' \in [Conns -> Links] /\ \A x \in Conns : conn'[x].q = conn[x].q
  <2> DEFINE a == [conn[c] EXCEPT !.arrived = TRUE]
             b == [conn[c] EXCEPT !.lost = TRUE]
  <2>1. conn[c] \in Links
    BY <1>1
  <2>2. a \in Links /\ a.q = conn[c].q /\ b \in Links /\ b.q = conn[c].q
    BY <2>1 DEF Links
  <2>3. conn' = [conn EXCEPT ![c] = a] \/ conn' = [conn EXCEPT ![c] = b]
    BY DEF Arrives, ConnectionLost
  <2> HIDE DEF a, b
  <2> QED BY <1>1, <2>2, <2>3, LinkFits
<1>4. CASE ConnectionLost(c)
  BY <1>1, <1>2, <1>3, <1>4, CallsStay DEF ConnectionLost, Shapes
<1>5. CASE Arrives(c)
  <2> DEFINE p == Other(calls[c].owner)
             s == slot[p]
             r == calls[s]
             q == [r EXCEPT !.tp = c]
  <2>1. CASE s = 0
    BY <1>1, <1>2, <1>3, <1>5, <2>1, CallsStay DEF Arrives, Shapes
  <2>2. CASE s # 0
    <3>1. p \in Peers
      BY <1>1, Numbered, ContextParts, OthersDiffer
    <3>2. s \in Ids
      BY <1>1, <2>2, <3>1 DEF Shapes
    <3>3. r \in Contexts /\ Local(r)
      BY <1>1, <3>2, Numbered DEF CallInv
    <3>4. calls' = [calls EXCEPT ![s] = q]
      BY <1>5, <2>2 DEF Arrives
    <3> HIDE DEF s
    <3>5. q \in Contexts
      BY <1>1, <3>3 DEF Contexts
    <3>6. /\ q.owner = r.owner /\ q.rx = r.rx /\ q.acc = r.acc
          /\ q.lconn = r.lconn /\ q.answered = r.answered
          /\ q.call = r.call /\ q.sup = r.sup /\ q.mic = r.mic /\ q.loop = r.loop
          /\ q.card = r.card /\ q.inv = r.inv
      BY <3>3 DEF Contexts
    <3> HIDE DEF q
    <3>7. Becomes(r, q)
      BY <3>3, <3>5, <3>6, GoesOn
    <3> QED BY <1>1, <1>2, <1>3, <3>2, <3>4, <3>7, OneChanges DEF Shapes
  <2> QED BY <2>1, <2>2
<1> QED BY <1>4, <1>5

(* A context that is given a session.                                       *)
LEMMA DialedContext ==
  ASSUME NEW r \in Contexts, NEW k \in Conns
  PROVE  [r EXCEPT !.tp = k, !.rx = "taken", !.loop = "opening", !.lconn = k] \in Contexts
<1> DEFINE a == [r EXCEPT !.tp = k, !.rx = "taken"]
           b == [a EXCEPT !.loop = "opening", !.lconn = k]
<1>1. a \in Contexts
  BY DEF Contexts
<1> HIDE DEF a
<1>2. b \in Contexts
  BY <1>1 DEF Contexts, Live
<1> QED BY <1>2 DEF a

(* The dial succeeds: its session goes to whatever is in the slot, if the   *)
(* receiver there is free.                                                  *)
LEMMA DialFits ==
  ASSUME CallInv, NEW k \in Ids, DialConnects(k) PROVE CallInv'
<1> DEFINE p == calls[k].owner
           s == slot[p]
           dialed == [calls EXCEPT ![k].dial = "done"]
<1>1. /\ Shapes /\ k \in Conns /\ p \in Peers /\ calls[k] \in Contexts
      /\ calls \in [1 .. Len(calls) -> Contexts] /\ Ids = 1 .. Len(calls)
  BY IdsAreConns, Numbered, ContextParts, LenProperties DEF CallInv, Shapes
<1>2. UNCHANGED <<slot, ending>>
  BY DEF DialConnects
<1>3. conn' \in [Conns -> Links] /\ \A x \in Conns : conn'[x].q = conn[x].q
  <2> DEFINE a == [conn[k] EXCEPT !.up = TRUE]
  <2>1. conn[k] \in Links /\ conn \in [Conns -> Links]
    BY <1>1 DEF Shapes
  <2>2. a \in Links /\ a.q = conn[k].q
    BY <2>1 DEF Links
  <2>3. conn' = [conn EXCEPT ![k] = a]
    BY DEF DialConnects
  <2> HIDE DEF a
  <2> QED BY <2>1, <2>2, <2>3, LinkFits
<1>4. dialed \in [1 .. Len(calls) -> Contexts]
      /\ \A j \in Ids : Becomes(calls[j], dialed[j])
                        /\ (calls[j].rx = "free" => dialed[j].rx = "free")
  <2> DEFINE r == calls[k]
             q == [r EXCEPT !.dial = "done"]
  <2>1. q \in Contexts
    BY <1>1 DEF Contexts
  <2>2. /\ q.owner = r.owner /\ q.rx = r.rx /\ q.acc = r.acc
        /\ q.lconn = r.lconn /\ q.answered = r.answered
        /\ q.call = r.call /\ q.sup = r.sup /\ q.mic = r.mic /\ q.loop = r.loop
        /\ q.card = r.card /\ q.inv = r.inv
    BY <1>1 DEF Contexts
  <2>3. dialed = [calls EXCEPT ![k] = q]
    OBVIOUS
  <2> HIDE DEF q, dialed
  <2>4. Becomes(r, q)
    BY <2>1, <2>2, GoesOn DEF CallInv
  <2>5. ASSUME NEW j \in Ids
        PROVE  Becomes(calls[j], dialed[j]) /\ (calls[j].rx = "free" => dialed[j].rx = "free")
    <3>1. CASE j = k
      BY <1>1, <2>2, <2>3, <2>4, <3>1
    <3>2. CASE j # k
      <4>1. dialed[j] = calls[j]
        BY <1>1, <2>3, <3>2
      <4> QED BY <4>1 DEF Becomes, CallInv, Stays
    <3> QED BY <3>1, <3>2
  <2> QED BY <1>1, <2>1, <2>3, <2>5
<1>5. CASE calls' = dialed
  <2> HIDE DEF dialed
  <2> QED BY <1>1, <1>2, <1>3, <1>4, <1>5, NoneAdded DEF Becomes, Shapes
<1>6. CASE s # 0 /\ calls[s].rx # "taken"
           /\ calls' = [dialed EXCEPT ![s].tp = k, ![s].rx = "taken",
                                      ![s].loop = "opening", ![s].lconn = k]
  <2> DEFINE r == dialed[s]
             q == [r EXCEPT !.tp = k, !.rx = "taken", !.loop = "opening", !.lconn = k]
  <2>1. s \in Ids
    BY <1>1, <1>6 DEF Shapes
  <2>2. calls' = [dialed EXCEPT ![s] = q]
    BY <1>6
  <2>3. /\ r \in Contexts /\ Local(r) /\ Stays(calls[s], r) /\ calls[s].rx = "free" /\ r.rx = "free"
        /\ Becomes(calls[s], r) /\ ~Bound(calls[s])
    <3>1. calls[s].rx = "free"
      BY <1>1, <1>6, <2>1, Numbered, ContextParts
    <3> HIDE DEF dialed
    <3> QED BY <1>4, <2>1, <3>1 DEF Becomes, Local, Bound
  <2> HIDE DEF dialed, s
  <2>4. q \in Contexts
    BY <1>1, <2>3, DialedContext
  <2>5. /\ q.owner = r.owner /\ q.rx = "taken" /\ q.acc = r.acc
        /\ q.lconn = k /\ q.answered = r.answered
        /\ q.call = r.call /\ q.sup = r.sup /\ q.mic = r.mic /\ q.loop = "opening"
        /\ q.card = r.card /\ q.inv = r.inv
    BY <2>3 DEF Contexts
  <2> HIDE DEF q, r
  <2>6. k # 0
    BY <1>1, MaxPlacedIsNat DEF Conns
  <2>7. Becomes(calls[s], q)
    BY <2>3, <2>4, <2>5, <2>6 DEF Becomes, Local, Stays, Bound
  <2>8. calls' \in [1 .. Len(calls) -> Contexts]
        /\ \A j \in Ids : calls'[j] = IF j = s THEN q ELSE dialed[j]
    BY <1>1, <1>4, <2>1, <2>2, <2>4
  <2>9. \A j \in Ids : Becomes(calls[j], calls'[j])
    BY <1>4, <2>7, <2>8
  <2> QED BY <1>1, <1>2, <1>3, <2>8, <2>9, NoneAdded DEF Becomes, Shapes
<1> QED BY <1>5, <1>6 DEF DialConnects

(* A call that nothing but its placing or its invite has reached.           *)
LEMMA FreshCall ==
  ASSUME NEW m \in Media, NEW d, d = PlaceCall(Idle, m) \/ d = OnInvite(Idle, m)
  PROVE  d \in Calls /\ ~Promised(d) /\ ~Through(d)
<1>1. PICK st \in {"Dialing", "Ringing"} :
        d = [st |-> st, media |-> m, outq |-> <<>>, mediaq |-> <<>>]
  BY DEF PlaceCall, OnInvite, Step, Transition, Idle
<1>2. <<>> \in Seq(Messages) /\ <<>> \in Seq({"start", "stop"})
  OBVIOUS
<1>3. d \in Calls
  BY <1>1, <1>2 DEF Calls, CallStates, InProgress
<1>4. ~Promised(d) /\ ~Through(d)
  BY <1>1 DEF Promised, HasAccept, HasStart, Through
<1> QED BY <1>3, <1>4

(* A new context.                                                           *)
LEMMA FreshContext ==
  ASSUME NEW p \in Peers, NEW d \in Calls
  PROVE  LET r == NewCtx(p, d)
         IN /\ r \in Contexts /\ r.call = d /\ r.owner = p /\ r.sup = "parked" /\ r.mic = 0
            /\ ~r.answered /\ r.loop = "none" /\ r.inv = "none" /\ ~r.card /\ r.rx = "free"
            /\ r.acc = "no"
BY DEF NewCtx, Contexts, Live, Media

(* A context is added after the others; no connection changes.              *)
LEMMA OneAdded ==
  ASSUME CallInv, NEW base \in [1 .. Len(calls) -> Contexts], NEW r, Local(r),
         calls' = Append(base, r),
         \A j \in Ids : Becomes(calls[j], base[j]),
         r.inv # "none" => ~Through(r.call),
         slot' \in [Peers -> {0} \cup 1 .. (Len(calls) + 1)], UNCHANGED <<ending, conn>>,
         Counted'
  PROVE  CallInv'
<1>1. Shapes /\ Ids = 1 .. Len(calls) /\ Len(calls) \in Nat
  BY Numbered DEF CallInv
<1>2. base \in Seq(Contexts) /\ Len(base) = Len(calls) /\ r \in Contexts
  BY <1>1, IntervalSeq DEF Local
<1>3. /\ calls' \in Seq(Contexts) /\ Len(calls') = Len(calls) + 1
      /\ calls'[Len(calls) + 1] = r /\ \A j \in 1 .. Len(calls) : calls'[j] = base[j]
  BY <1>2, AppendProperties
<1>4. Ids' = 1 .. (Len(calls) + 1)
  BY <1>1, <1>3, LenProperties DEF Ids
<1>5. Shapes'
  BY <1>1, <1>3, <1>4 DEF Shapes
<1>6. Ids \subseteq Ids' /\ \A j \in Ids' : j \in Ids \/ j = Len(calls) + 1
  BY <1>1, <1>4
<1>7. \A j \in Ids : Becomes(calls[j], calls'[j])
  BY <1>1, <1>3
<1>8. \A j \in Ids : Stays(calls[j], calls'[j])
  BY <1>7 DEF Becomes
<1>9. \A j \in Ids' : Local(calls'[j])
  BY <1>3, <1>6, <1>7 DEF Becomes
<1>10. ASSUME NEW j \in Ids', calls'[j].inv # "none", Through(calls'[j].call)
       PROVE  \/ j \in Ids /\ calls[j].inv # "none" /\ Through(calls[j].call)
              \/ AnsweredAt(calls'[j].lconn, calls'[j].owner)
  <2>1. CASE j \in Ids
    BY <1>7, <1>10, <2>1 DEF Becomes
  <2>2. CASE j = Len(calls) + 1
    BY <1>3, <1>10, <2>2
  <2> QED BY <1>6, <2>1, <2>2
<1> QED BY <1>5, <1>6, <1>8, <1>9, <1>10, StepKeeps

(* Finite sets of contexts.                                                 *)
LEMMA Finite ==
  ASSUME CallInv
  PROVE  /\ IsFiniteSet(Placings) /\ IsFiniteSet(Invites)
         /\ Cardinality(Placings) \in Nat /\ Cardinality(Invites) \in Nat
<1>1. Ids = 1 .. Len(calls) /\ Len(calls) \in Nat
  BY Numbered DEF CallInv
<1>2. IsFiniteSet(Ids)
  BY <1>1, FS_Interval
<1>3. IsFiniteSet(Placings) /\ IsFiniteSet(Invites)
  BY <1>2, FS_Subset DEF Placings, Invites
<1> QED BY <1>3, FS_CardinalityType

(* A user places a call.                                                    *)
LEMMA PlaceKeeps ==
  ASSUME CallInv, NEW p \in Peers, NEW m \in Offers, Place(p, m) PROVE CallInv'
<1> DEFINE n == Len(calls) + 1
           d == PlaceCall(Idle, m)
           b == NewCtx(p, d)
           r == [b EXCEPT !.inv = "flight", !.offer = m, !.dial = "dialing"]
<1>1. Shapes /\ Ids = 1 .. Len(calls) /\ Len(calls) \in Nat
  BY Numbered DEF CallInv
<1>2. calls' = Append(calls, r) /\ slot' = [slot EXCEPT ![p] = n] /\ UNCHANGED <<ending, conn>>
  BY DEF Place
<1>3. d \in Calls /\ ~Promised(d) /\ ~Through(d) /\ m \in Media
  BY OffersAreMedia, FreshCall
<1> HIDE DEF d
<1>4. /\ b \in Contexts /\ b.call = d /\ b.sup = "parked" /\ b.mic = 0 /\ b.acc = "no"
      /\ ~b.answered /\ b.loop = "none" /\ ~b.card
  BY <1>3, FreshContext
<1> HIDE DEF b
<1>5. r \in Contexts
  <2> DEFINE a == [b EXCEPT !.inv = "flight", !.offer = m]
  <2>1. a \in Contexts
    BY <1>3, <1>4, ZenonT(30) DEF Contexts
  <2> HIDE DEF a
  <2>2. [a EXCEPT !.dial = "dialing"] \in Contexts
    BY <2>1 DEF Contexts
  <2> QED BY <2>2 DEF a
<1>6. /\ r.call = d /\ r.sup = "parked" /\ r.mic = 0 /\ r.inv = "flight" /\ r.acc = "no"
      /\ ~r.answered /\ r.loop = "none" /\ ~r.card
  BY <1>4 DEF Contexts
<1> HIDE DEF r
<1>7. Local(r) /\ ~Through(r.call)
  BY <1>3, <1>5, <1>6 DEF Local
<1>8. calls \in [1 .. Len(calls) -> Contexts]
  BY <1>1, LenProperties DEF Shapes
<1>9. \A j \in Ids : Becomes(calls[j], calls[j])
  BY DEF CallInv, Becomes, Stays
<1>10. slot' \in [Peers -> {0} \cup 1 .. (Len(calls) + 1)]
  BY <1>1, <1>2 DEF Shapes
<1>11. /\ Len(calls') = Len(calls) + 1 /\ calls'[n] = r /\ DOMAIN calls' = 1 .. n
       /\ \A j \in Ids : calls'[j] = calls[j]
  BY <1>1, <1>2, <1>5, AppendProperties, LenProperties DEF Shapes
<1>12. Ids' = Ids \cup {n} /\ n \notin Ids
  BY <1>1, <1>11 DEF Ids
<1> HIDE DEF n
<1>13. Placings' = Placings \cup {n} /\ n \notin Placings
  BY <1>6, <1>11, <1>12 DEF Placings
<1>14. Invites' = Invites \cup {n} /\ n \notin Invites
  BY <1>6, <1>11, <1>12 DEF Invites
<1>15. /\ Cardinality(Placings') = Cardinality(Placings) + 1
       /\ Cardinality(Invites') = Cardinality(Invites) + 1
  BY <1>13, <1>14, Finite, FS_AddElement
<1>16. Cardinality(Placings) < MaxPlaced
  BY DEF Place
<1>17. Counted'
  <2> HIDE DEF Placings, Invites
  <2> QED BY <1>1, <1>11, <1>15, <1>16, Finite, MaxPlacedIsNat DEF Counted, CallInv
<1> QED BY <1>2, <1>7, <1>8, <1>9, <1>10, <1>17, OneAdded

(* An invite rings: it is used up by the context it makes.                  *)
LEMMA RingKeeps ==
  ASSUME CallInv, NEW k \in Ids, InviteRings(k) PROVE CallInv'
<1> DEFINE n == Len(calls) + 1
           p == Other(calls[k].owner)
           d == OnInvite(Idle, calls[k].offer)
           b == NewCtx(p, d)
           r == [b EXCEPT !.card = TRUE]
           was == calls[k]
           q == [was EXCEPT !.inv = "gone"]
           base == [calls EXCEPT ![k] = q]
<1>1. Shapes /\ Ids = 1 .. Len(calls) /\ Len(calls) \in Nat
  BY Numbered DEF CallInv
<1>2. calls' = Append(base, r) /\ slot' = [slot EXCEPT ![p] = n] /\ UNCHANGED <<ending, conn>>
      /\ was.inv = "checked"
  BY DEF InviteRings
<1>3. was \in Contexts /\ Local(was) /\ p \in Peers /\ was.offer \in Media
  BY Numbered, ContextParts, OthersDiffer DEF CallInv
<1>4. d \in Calls /\ ~Promised(d) /\ ~Through(d)
  BY <1>3, FreshCall
<1> HIDE DEF d
<1>5. /\ b \in Contexts /\ b.call = d /\ b.sup = "parked" /\ b.mic = 0 /\ b.acc = "no"
      /\ ~b.answered /\ b.loop = "none" /\ b.inv = "none"
  BY <1>3, <1>4, FreshContext
<1> HIDE DEF b
<1>6. r \in Contexts
  BY <1>5, ZenonT(30) DEF Contexts
<1>7. /\ r.call = d /\ r.sup = "parked" /\ r.mic = 0 /\ r.inv = "none" /\ r.acc = "no"
      /\ ~r.answered /\ r.loop = "none"
  BY <1>5 DEF Contexts
<1> HIDE DEF r
<1>8. Local(r)
  BY <1>4, <1>6, <1>7 DEF Local
<1>9. q \in Contexts /\ q.inv = "gone"
  BY <1>3 DEF Contexts
<1>10. /\ q.owner = was.owner /\ q.rx = was.rx /\ q.acc = was.acc /\ q.lconn = was.lconn
       /\ q.answered = was.answered /\ q.call = was.call /\ q.sup = was.sup /\ q.mic = was.mic
       /\ q.loop = was.loop /\ q.card = was.card
  BY <1>3 DEF Contexts
<1>11. base \in [1 .. Len(calls) -> Contexts]
       /\ \A j \in Ids : base[j] = IF j = k THEN q ELSE calls[j]
  <2>1. calls \in [1 .. Len(calls) -> Contexts]
    BY <1>1, LenProperties DEF Shapes
  <2> QED BY <1>1, <1>9, <2>1
<1> HIDE DEF q, base
<1>12. Becomes(was, q)
  BY <1>2, <1>3, <1>9, <1>10, GoesOn
<1>13. ASSUME NEW j \in Ids PROVE Becomes(calls[j], base[j])
  <2>1. CASE j = k
    BY <1>11, <1>12, <2>1
  <2>2. CASE j # k
    BY <1>11, <2>2 DEF Becomes, CallInv, Stays
  <2> QED BY <2>1, <2>2
<1>14. slot' \in [Peers -> {0} \cup 1 .. (Len(calls) + 1)]
  <2> DEFINE S == {0} \cup 1 .. (Len(calls) + 1)
  <2>1. n \in S /\ {0} \cup Ids \subseteq S
    BY <1>1
  <2>2. slot \in [Peers -> S]
    <3> HIDE DEF S
    <3> QED BY <1>1, <2>1 DEF Shapes
  <2> HIDE DEF n, p, S
  <2>3. slot' \in [Peers -> S]
    BY <1>2, <2>1, <2>2
  <2> QED BY <2>3 DEF S
<1>15. base \in Seq(Contexts) /\ Len(base) = Len(calls)
  BY <1>1, <1>11, IntervalSeq
<1>16. /\ Len(calls') = Len(calls) + 1 /\ calls'[n] = r /\ DOMAIN calls' = 1 .. n
       /\ \A j \in Ids : calls'[j] = base[j]
  <2>1. /\ Append(base, r) \in Seq(Contexts) /\ Len(Append(base, r)) = Len(base) + 1
        /\ Append(base, r)[Len(base) + 1] = r
        /\ \A j \in 1 .. Len(base) : Append(base, r)[j] = base[j]
    BY <1>6, <1>15, AppendProperties
  <2>2. DOMAIN Append(base, r) = 1 .. Len(Append(base, r))
    BY <2>1, LenProperties
  <2> HIDE DEF p
  <2> QED BY <1>1, <1>2, <1>15, <2>1, <2>2
<1>17. Ids' = Ids \cup {n} /\ n \notin Ids
  BY <1>1, <1>16 DEF Ids
<1> HIDE DEF n
<1>18. Placings' = Placings
  BY <1>2, <1>7, <1>9, <1>11, <1>16, <1>17, ZenonT(30) DEF Placings
<1>19. Invites = Invites' \cup {k} /\ k \notin Invites'
  BY <1>2, <1>7, <1>9, <1>11, <1>16, <1>17, ZenonT(30) DEF Invites
<1>20. Cardinality(Invites) = Cardinality(Invites') + 1 /\ Cardinality(Invites') \in Nat
  <2>1. IsFiniteSet(Invites')
    BY <1>19, Finite, FS_Subset
  <2> QED BY <1>19, <2>1, FS_AddElement, FS_CardinalityType
<1>21. Counted'
  <2> HIDE DEF Placings, Invites
  <2> QED BY <1>1, <1>16, <1>18, <1>20, Finite, MaxPlacedIsNat DEF Counted, CallInv
<1> QED BY <1>2, <1>7, <1>8, <1>11, <1>13, <1>14, <1>21, OneAdded

(* No call, no message.                                                     *)
LEMMA CallInit == Init => CallInv
<1> SUFFICES ASSUME Init PROVE CallInv
  OBVIOUS
<1>1. calls = <<>> /\ Ids = {} /\ Len(calls) = 0 /\ Placings = {} /\ Invites = {}
  BY DEF Init, Ids, Placings, Invites
<1>2. NoConn \in Links /\ \A p \in Peers : NoConn.q[p] = <<>>
  BY DEF NoConn, Links
<1>3. conn \in [Conns -> Links] /\ \A c \in Conns : conn[c] = NoConn
  BY <1>2 DEF Init, Conns
<1>4. Shapes
  BY <1>1, <1>3 DEF Init, Shapes
<1>5. Counted
  BY <1>1, FS_EmptySet, MaxPlacedIsNat DEF Counted
<1>6. Heard
  BY <1>1, <1>2, <1>3 DEF Heard, HasAccept
<1> QED BY <1>1, <1>4, <1>5, <1>6 DEF CallInv

(* Every step keeps the invariant.                                          *)
LEMMA CallNext ==
  ASSUME CallInv, [Next]_vars PROVE CallInv'
<1>1. CASE UNCHANGED vars
  BY <1>1, CallsStay DEF vars, CallInv, Shapes
<1>2. CASE Environment
  <2>1. ASSUME NEW p \in Callers, NEW m \in Offers, Place(p, m) PROVE CallInv'
    <3>1. p \in Peers
      BY TwoPeers DEF Peers
    <3> QED BY <2>1, <3>1, PlaceKeeps
  <2>2. ASSUME NEW p \in Peers, (\E m \in Offers : Accept(p, m)) \/ Decline(p) \/ HangUp(p)
        PROVE  CallInv'
    BY <2>2, AcceptKeeps, UserEnds
  <2>3. ASSUME NEW k \in Ids, InviteLost(k) PROVE CallInv'
    BY <2>3, LittleSteps
  <2>4. ASSUME NEW c \in Placings, ConnectionLost(c) PROVE CallInv'
    BY <2>4, SessionsFit
  <2> QED BY <1>2, <2>1, <2>2, <2>3, <2>4 DEF Environment
<1>3. CASE System
  <2>1. ASSUME NEW k \in Ids,
               \/ Delivery(k) \/ Dialling(k) \/ Loop(k) \/ LoopReceives(k)
               \/ Supervisor(k) \/ MicStops(k) \/ IngestEnds(k)
               \/ Accepting(k) \/ CardCloses(k) \/ TeardownAborts(k)
        PROVE  CallInv'
    <3>1. CASE Delivery(k)
      BY <3>1, LittleSteps, RingKeeps DEF Delivery
    <3>2. CASE Dialling(k)
      BY <3>2, LittleSteps, DialFits DEF Dialling
    <3>3. CASE Loop(k)
      BY <3>3, LoopTurns, SendsFit DEF Loop
    <3>4. CASE LoopReceives(k)
      BY <3>4, ReceivesFit
    <3>5. CASE Supervisor(k) \/ MicStops(k) \/ IngestEnds(k)
      BY <3>5, MediaFits
    <3>6. CASE CardCloses(k)
      BY <3>6, LittleSteps
    <3>7. CASE TeardownAborts(k)
      BY <3>7, TeardownFits
    <3>8. CASE Accepting(k)
      BY <3>8, AcceptingKeeps
    <3> QED BY <2>1, <3>1, <3>2, <3>3, <3>4, <3>5, <3>6, <3>7, <3>8
  <2>2. ASSUME NEW c \in Placings, Arrives(c) PROVE CallInv'
    BY <2>2, SessionsFit
  <2>3. ASSUME NEW p \in Peers, TeardownStores(p) PROVE CallInv'
    BY <2>3, TeardownFits
  <2> QED BY <1>3, <2>1, <2>2, <2>3 DEF System
<1> QED BY <1>1, <1>2, <1>3 DEF Next

(* Never auto-answered, for any number of calls: a microphone runs only in  *)
(* a call its own user accepted, and a caller is past Dialing only when the *)
(* other end of its connection belongs to a call that user accepted         *)
(* (call_accept, run_control_loop and the media supervisor in call.rs).     *)
THEOREM NeverAutoAnswered == Spec => []NothingBeforeTheAnswer
<1>1. CallInv => NothingBeforeTheAnswer
  <2> SUFFICES ASSUME CallInv, NEW k \in Ids
               PROVE  /\ calls[k].mic # 0 => calls[k].answered
                      /\ calls[k].inv # "none" /\ State(k) \in {"Connecting", "Active"} =>
                           \E j \in Ids : /\ calls[j].owner # calls[k].owner
                                          /\ calls[j].lconn = calls[k].lconn /\ calls[j].answered
    BY DEF NothingBeforeTheAnswer
  <2>1. calls[k].mic # 0 => calls[k].answered
    BY DEF CallInv, Local
  <2>2. calls[k].inv # "none" /\ State(k) \in {"Connecting", "Active"} =>
          AnsweredAt(calls[k].lconn, calls[k].owner)
    BY DEF CallInv, Heard, State, Through
  <2> QED BY <2>1, <2>2 DEF AnsweredAt
<1> QED BY <1>1, CallInit, CallNext, PTL DEF Spec
=============================================================================
