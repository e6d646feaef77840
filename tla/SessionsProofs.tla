---------------------------- MODULE SessionsProofs ----------------------------
(***************************************************************************)
(* For every bound on the connections: both sessions keep their types,     *)
(* what is served was authorized on the very connection it is served over, *)
(* and the end of a session is reported once, as what it was, and never    *)
(* left out. For every number of viewers, shares and windows that start    *)
(* them: the loop serves only whom its user allowed, whoever is allowed    *)
(* keeps the way to the grant, and the handle that chat is sent to is that *)
(* of the viewer being served. For every depth of the event broadcast: a   *)
(* reader that missed nothing and has nothing left to read shows the state *)
(* its session is in. Then the composition: each part of SessionsSpec makes *)
(* its own steps only, so what is proved of the sessions, of the share loop *)
(* and of the events alone holds of it.                                    *)
(***************************************************************************)
EXTENDS MCSessions, TLAPS

(* The two sessions and their connection. *)

In(msg, s) == \E i \in 1 .. Len(s) : s[i] = msg
Heard(msg) == In(msg, toCtl)

(* Before the first connection nothing has been sent; whoever may announce  *)
(* or already serves has the authorization of the current connection.       *)
ConnInv ==
  /\ hPc \in {"idle", "establish"} => conn = 0 /\ toCtl = <<>>
  /\ cPc \in {"idle", "establish"} => conn = 0
  /\ hPc \in {"configure", "loop", "reconfig"} => granted = conn
  /\ cPc = "loop" => granted = conn
  /\ Heard("StreamConfig") => granted = conn

(* The stop flag is claimed before the state becomes terminal, except by a  *)
(* start that fails; only who claimed it reports; Revoked is told of only   *)
(* after it was applied.                                                    *)
HostEndInv ==
  /\ ~hStop => hEnded = <<>> /\ stopper.pc = "none"
  /\ ~hStop \/ stopper.pc = "claimed" => hEnded = <<>> /\ (hState \in Terminal => hPc = "failed")
  /\ stopper.pc = "ended" /\ stopper.kind = "revoke" => hState = "Revoked" \/ hPc = "failed"
  /\ hBye = "ByeRevoked" \/ Heard("ByeRevoked") \/ cState = "Revoked" => hState = "Revoked"
  /\ OneHostEnd

(* Where the controller's task is says which state it is in, unless that is *)
(* terminal; a set stop flag means it is, or that disconnect is on its way. *)
CtlInv ==
  /\ cPc = "idle" => cState = "Created" /\ ~cStop
  /\ ~cStop => leaver = "none"
  /\ cPc = "establish" => cState \in {"SessionConnecting"} \cup Terminal
  /\ cPc \in {"present", "handshake"} => cState \in {"ControlEstablished"} \cup Terminal
  /\ cPc = "loop" => cState \in {"Active"} \cup Terminal
  /\ cPc \in {"redial", "rehandshake"} => cState \in {"Suspended"} \cup Terminal
  /\ cStop => cState \in Terminal \/ leaver = "claimed"
  /\ leaver \in {"bye", "emit", "join", "done"} \/ cBye => cState \in Terminal
  /\ NoSilentEnd

-------------------------------------------------------------------------------
(* The state machine: a terminal state absorbs every event, an end leads    *)
(* from any other state to its own terminal state, and the edges go where   *)
(* they say.                                                                *)
LEMMA TerminalAbsorbs ==
  ASSUME NEW s \in Terminal, NEW e PROVE Apply(s, e) = s
BY DEF Apply, Successors, Terminal, Edges

(* An end takes the session from any state that is not terminal to its own  *)
(* terminal state.                                                          *)
LEMMA EndApplies ==
  ASSUME NEW s \in States \ Terminal, NEW e \in DOMAIN EndOf
  PROVE  Apply(s, e) = EndOf[e]
<1>1. {edge[3] : edge \in {x \in Edges : x[1] = s /\ x[2] = e}} = {}
  BY DEF Edges, EndOf
<1>2. Successors(s, e) = {EndOf[e]}
  BY <1>1 DEF Successors
<1> QED BY <1>2 DEF Apply, Invalid

(* Every edge of the table leads where the table says.                      *)
LEMMA EdgeApplies ==
  ASSUME NEW x \in Edges PROVE Apply(x[1], x[2]) = x[3]
<1>1. Successors(x[1], x[2]) = {x[3]}
  BY DEF Successors, Edges, EndOf, Terminal
<1> QED BY <1>1 DEF Apply, Invalid

(* apply never leaves the set of states, whatever the event.                *)
LEMMA ApplyType ==
  ASSUME NEW s \in States, NEW e PROVE Apply(s, e) \in States
<1>1. Successors(s, e) \subseteq States
  BY DEF Successors, Edges, EndOf, States
<1> QED BY <1>1 DEF Apply, Invalid

-------------------------------------------------------------------------------
(* What is in a stream after it was written, read or cut off.               *)
LEMMA StreamFacts ==
  ASSUME NEW S, NEW s \in Seq(S), NEW m
  PROVE  /\ ~In(m, <<>>)
         /\ \A a \in S : Append(s, a) \in Seq(S) /\ (In(m, Append(s, a)) => In(m, s) \/ m = a)
         /\ s # <<>> => /\ Tail(s) \in Seq(S) /\ Head(s) \in S /\ In(Head(s), s)
                        /\ In(m, Tail(s)) => In(m, s)
         /\ \A n \in 0 .. Len(s) : /\ SubSeq(s, 1, n) \in Seq(S)
                                   /\ In(m, SubSeq(s, 1, n)) => In(m, s)
         /\ \A a \in S : In(m, <<a>>) <=> m = a
<1>1. ~In(m, <<>>)
  BY DEF In
<1>2. \A a \in S : Append(s, a) \in Seq(S) /\ (In(m, Append(s, a)) => In(m, s) \/ m = a)
  BY DEF In
<1>3. s # <<>> => /\ Tail(s) \in Seq(S) /\ Head(s) \in S /\ In(Head(s), s)
                  /\ In(m, Tail(s)) => In(m, s)
  <2>1. HAVE s # <<>>
  <2>2. Len(s) >= 1 /\ s[1] = Head(s)
    BY <2>1
  <2>3. In(m, Tail(s)) => In(m, s)
    BY <2>1, <2>2 DEF In
  <2> QED BY <2>1, <2>2, <2>3 DEF In
<1>4. \A n \in 0 .. Len(s) : /\ SubSeq(s, 1, n) \in Seq(S)
                             /\ In(m, SubSeq(s, 1, n)) => In(m, s)
  <2> TAKE n \in 0 .. Len(s)
  <2>1. SubSeq(s, 1, n) \in Seq(S) /\ Len(SubSeq(s, 1, n)) = n
    OBVIOUS
  <2>2. \A i \in 1 .. n : SubSeq(s, 1, n)[i] = s[i]
    OBVIOUS
  <2> QED BY <2>1, <2>2 DEF In
<1>5. \A a \in S : In(m, <<a>>) <=> m = a
  BY DEF In
<1> QED BY <1>1, <1>2, <1>3, <1>4, <1>5
-------------------------------------------------------------------------------
(* The initial state has the right types.                                   *)
LEMMA LifecycleTypeInit == Init => LifecycleTypeOK
<1> HAVE Init
<1>1. hPc \in HostPcs /\ cPc \in CtlPcs
  BY DEF Init, HostPcs, CtlPcs
<1>2. stopper \in Stoppers
  BY DEF Init, Stoppers
<1>3. hState \in States /\ cState \in States
  BY DEF Init, States
<1>4. /\ toHost \in Seq(CtlMessages) /\ toCtl \in Seq(HostMessages)
      /\ hEnded \in Seq(HostReports) /\ cEvents \in Seq(CtlReports)
  BY DEF Init
<1>5. conn \in 0 .. MaxConns /\ granted \in 0 .. conn
  BY LifecycleAssumption DEF Init
<1>6. /\ hBye \in {"none", "ByeNormal", "ByeRevoked"}
      /\ leaver \in {"none", "claimed", "bye", "emit", "join", "done"}
      /\ link \in BOOLEAN /\ grantOk \in BOOLEAN /\ hStop \in BOOLEAN
      /\ cStop \in BOOLEAN /\ cBye \in BOOLEAN
  BY DEF Init
<1> QED BY <1>1, <1>2, <1>3, <1>4, <1>5, <1>6 DEF LifecycleTypeOK

(* What the host sends keeps the type of its stream.                        *)
LEMMA HostSends ==
  ASSUME LifecycleTypeOK, NEW msg \in HostMessages, SendToCtl(msg)
  PROVE  toCtl' \in Seq(HostMessages)
BY DEF LifecycleTypeOK, SendToCtl

(* What the controller sends keeps the type of its stream.                  *)
LEMMA CtlSends ==
  ASSUME LifecycleTypeOK, NEW msg \in CtlMessages, SendToHost(msg)
  PROVE  toHost' \in Seq(CtlMessages)
BY DEF LifecycleTypeOK, SendToHost

(* What the host reports keeps the type of its reports.                     *)
LEMMA HostReportsType ==
  ASSUME LifecycleTypeOK PROVE \A msg \in HostReports : Append(hEnded, msg) \in Seq(HostReports)
BY DEF LifecycleTypeOK

(* What the controller reports keeps the type of its events.                *)
LEMMA CtlReportsType ==
  ASSUME LifecycleTypeOK PROVE \A msg \in CtlReports : Append(cEvents, msg) \in Seq(CtlReports)
BY DEF LifecycleTypeOK

(* What remains once a message was read keeps the type of the stream.       *)
LEMMA ReadsType ==
  ASSUME LifecycleTypeOK
  PROVE  /\ toHost # <<>> => Tail(toHost) \in Seq(CtlMessages)
         /\ toCtl # <<>> => Tail(toCtl) \in Seq(HostMessages)
<1>1. toHost # <<>> => Tail(toHost) \in Seq(CtlMessages)
  BY DEF LifecycleTypeOK
<1>2. toCtl # <<>> => Tail(toCtl) \in Seq(HostMessages)
  BY DEF LifecycleTypeOK
<1> QED BY <1>1, <1>2

(* The streams a new connection starts with.                                *)
LEMMA HelloType == <<>> \in Seq(HostMessages) /\ <<"Hello">> \in Seq(HostMessages)
BY DEF HostMessages

(* A host that ends keeps its types.                                        *)
LEMMA HostEndsType ==
  ASSUME LifecycleTypeOK, NEW e, NEW reason \in HostReports, HostEnds(e, reason)
  PROVE  /\ hPc' \in HostPcs /\ hStop' \in BOOLEAN
         /\ hState' \in States /\ hEnded' \in Seq(HostReports)
<1>1. hPc' \in HostPcs
  BY DEF HostEnds, HostPcs, Over
<1>2. hStop' \in BOOLEAN /\ hState' \in States
  BY ApplyType DEF HostEnds, LifecycleTypeOK
<1>3. hEnded' \in Seq(HostReports)
  BY HostReportsType DEF HostEnds, LifecycleTypeOK
<1> QED BY <1>1, <1>2, <1>3

(* Every step of either session, of who stops them and of the wire keeps    *)
(* the types.                                                               *)
LEMMA LifecycleTypeNext ==
  LifecycleTypeOK /\ ConnInv /\ [Next]_vars => LifecycleTypeOK'
<1> SUFFICES ASSUME LifecycleTypeOK, ConnInv, [Next]_vars PROVE LifecycleTypeOK' OBVIOUS
<1> USE DEF LifecycleTypeOK, wire, auth, hostVars, hostTask, ctlVars, ctlTask
<1>1. CASE HostStart
  BY <1>1, ApplyType DEF HostStart, HostPcs, HostReserving
<1>2. CASE CtlConnect
  BY <1>2, ApplyType DEF CtlConnect, CtlPcs, Over
<1>3. CASE Establish
  BY <1>3, ApplyType, LifecycleAssumption DEF ConnInv, Establish, HostPcs, HostReserving,
     CtlPcs, NewConnection, HostMessages, CtlMessages
<1>4. CASE EstablishFails
  BY <1>4 DEF EstablishFails, HostPcs, HostReserving, Over, CtlPcs
<1>5. CASE Reconnect
  <2>1. hPc' \in HostPcs /\ cPc' \in CtlPcs
    BY <1>5 DEF Reconnect, HostPcs, CtlPcs, HostServing, HostReserving, CtlServing, Over
  <2>2. toHost' \in Seq(CtlMessages)
    BY <1>5 DEF Reconnect, CtlMessages
  <2>3. toCtl' = <<>> \/ toCtl' = <<"Hello">>
    BY <1>5 DEF Reconnect
  <2>4. toCtl' \in Seq(HostMessages)
    BY <1>5, <2>3, HelloType, Zenon
  <2>5. conn' \in 0 .. MaxConns /\ granted' \in 0 .. conn' /\ link' \in BOOLEAN
    BY <1>5, LifecycleAssumption DEF Reconnect, NewConnection, auth
  <2> QED BY <1>5, <2>1, <2>2, <2>3, <2>4, <2>5 DEF Reconnect
<1>6. CASE HostSaysHello
  BY <1>6 DEF HostSaysHello, HostPcs, HostReserving, Over, SendToCtl, HostMessages
<1>7. CASE HostReadsGrant
  <2>1. toHost' \in Seq(CtlMessages) /\ hPc' \in {"decide", "failed"}
    BY <1>7, ReadsType DEF HostReadsGrant
  <2>2. hPc' \in HostPcs
    BY <2>1 DEF HostPcs, Over
  <2> QED BY <1>7, <2>1, <2>2 DEF HostReadsGrant
<1>8. CASE HostAuthorizes
  BY <1>8, ApplyType DEF HostAuthorizes, HostPcs, HostReserving, Over
<1>9. CASE HostConfigures
  <2>1. toCtl' \in Seq(HostMessages)
    BY <1>9, HostSends DEF HostConfigures, HostMessages
  <2>2. hPc' \in HostPcs /\ hState' \in States
    BY <1>9, ApplyType DEF HostConfigures, HostPcs, HostServing, Over
  <2> QED BY <1>9, <2>1, <2>2 DEF HostConfigures
<1>10. CASE HostFlushesBye
  BY <1>10 DEF HostFlushesBye, HostPcs, HostReserving, Over, SendToCtl, HostMessages
<1>11. CASE HostReadsBye
  BY <1>11, HostEndsType DEF HostReadsBye, HostReports
<1>12. CASE HostLosesController
  BY <1>12 DEF HostLosesController, HostPcs, HostServing, HostReserving, Over
<1>13. CASE HostRereadsGrant
  BY <1>13 DEF HostRereadsGrant, HostPcs, HostServing, HostReserving
<1>14. CASE HostRevalidates
  BY <1>14 DEF HostRevalidates, HostPcs, HostServing, HostReserving
<1>15. CASE HostReconfigures
  BY <1>15 DEF HostReconfigures, HostPcs, HostServing, Over, SendToCtl, HostMessages
<1>16. CASE HostSendFails
  BY <1>16 DEF HostSendFails, HostPcs, HostReserving, Over
<1>17. CASE HostReserveFails
  BY <1>17, HostEndsType DEF HostReserveFails, HostReports
<1>18. CASE CtlPresentsGrant
  BY <1>18 DEF CtlPresentsGrant, CtlPcs, Over, SendToHost, CtlMessages
<1>19. CASE CtlHandshakes
  <2>1. cPc' \in CtlPcs /\ cState' \in States
    BY <1>19, ApplyType DEF CtlHandshakes, CtlPcs, CtlServing, Over
  <2>2. toCtl' \in Seq(HostMessages)
    BY <1>19, ReadsType DEF CtlHandshakes
  <2> QED BY <1>19, <2>1, <2>2 DEF CtlHandshakes
<1>20. CASE CtlSendsBye
  <2>1. toHost' \in Seq(CtlMessages)
    BY <1>20, CtlSends DEF CtlSendsBye, CtlMessages
  <2>2. cPc' \in CtlPcs
    BY <1>20 DEF CtlSendsBye, CtlPcs, Over
  <2> QED BY <1>20, <2>1, <2>2 DEF CtlSendsBye
<1>21. CASE CtlReadsBye
  BY <1>21, ApplyType DEF CtlReadsBye, CtlPcs, Over, CtlReports
<1>22. CASE CtlLosesHost
  <2>1. cPc' \in CtlPcs /\ cState' \in States
    BY <1>22, ApplyType DEF CtlLosesHost, CtlPcs, CtlServing, Over
  <2>2. cEvents' \in Seq(CtlReports)
    BY <1>22, CtlReportsType DEF CtlLosesHost, CtlReports
  <2> QED BY <1>22, <2>1, <2>2 DEF CtlLosesHost
<1>23. CASE CtlRehandshakes
  <2>1. cPc' \in CtlPcs /\ cState' \in States
    BY <1>23, ApplyType DEF CtlRehandshakes, CtlPcs, CtlServing
  <2>2. cEvents' \in Seq(CtlReports)
    BY <1>23, CtlReportsType DEF CtlRehandshakes, CtlReports
  <2>3. toCtl' \in Seq(HostMessages)
    BY <1>23, ReadsType DEF CtlRehandshakes
  <2> QED BY <1>23, <2>1, <2>2, <2>3 DEF CtlRehandshakes
<1>24. CASE CtlRedialFails
  <2>1. cPc' \in CtlPcs /\ cState' \in States
    BY <1>24, ApplyType DEF CtlRedialFails, CtlPcs, Over
  <2>2. cEvents' \in Seq(CtlReports)
    BY <1>24, CtlReportsType DEF CtlRedialFails, CtlReports
  <2> QED BY <1>24, <2>1, <2>2 DEF CtlRedialFails
<1>25. CASE HostStopCalled
  BY <1>25 DEF HostStopCalled, Stoppers
<1>26. CASE HostStopEnds
  BY <1>26, ApplyType DEF HostStopEnds, HostReports, StopperGoes, Stoppers
<1>27. CASE HostStopQueuesBye
  BY <1>27 DEF HostStopQueuesBye, StopperGoes, Stoppers, ByeOf
<1>28. CASE HostStopJoins
  BY <1>28 DEF HostStopJoins, HostPcs, HostReserving, Over, StopperGoes, Stoppers
<1>29. CASE DisconnectCalled
  BY <1>29 DEF DisconnectCalled
<1>30. CASE DisconnectApplies
  BY <1>30, ApplyType DEF DisconnectApplies, LeaverGoes
<1>31. CASE DisconnectQueuesBye
  BY <1>31 DEF DisconnectQueuesBye, LeaverGoes
<1>32. CASE DisconnectEmits
  BY <1>32 DEF DisconnectEmits, CtlReports, LeaverGoes
<1>33. CASE DisconnectJoins
  BY <1>33 DEF DisconnectJoins, CtlPcs, Over, LeaverGoes
<1>34. CASE LinkCut
  <2>1. toHost' \in Seq(CtlMessages)
    BY <1>34 DEF LinkCut
  <2>2. toCtl' \in Seq(HostMessages)
    BY <1>34 DEF LinkCut
  <2> QED BY <1>34, <2>1, <2>2 DEF LinkCut
<1>35. CASE GrantExpires
  BY <1>35 DEF GrantExpires
<1>36. CASE UNCHANGED vars
  BY <1>36 DEF vars
<1> QED
  BY <1>1, <1>2, <1>3, <1>4, <1>5, <1>6, <1>7, <1>8, <1>9, <1>10, <1>11, <1>12, <1>13, <1>14,
     <1>15, <1>16, <1>17, <1>18, <1>19, <1>20, <1>21, <1>22, <1>23, <1>24, <1>25, <1>26, <1>27,
     <1>28, <1>29, <1>30, <1>31, <1>32, <1>33, <1>34, <1>35, <1>36 DEF Next, HostSteps,
     StopSteps, CtlSteps, LeaverSteps

-------------------------------------------------------------------------------
(* What the controller can still hear, after a step.                        *)
LEMMA HeardNext ==
  ASSUME LifecycleTypeOK, NEW m
  PROVE  /\ toCtl' = toCtl => (Heard(m)' <=> Heard(m))
         /\ \A msg \in HostMessages : SendToCtl(msg) => (Heard(m)' => Heard(m) \/ m = msg)
         /\ toCtl # <<>> => Heard(Head(toCtl)) /\ (toCtl' = Tail(toCtl) => (Heard(m)' => Heard(m)))
         /\ toCtl' = <<>> => ~Heard(m)'
         /\ \A msg \in HostMessages : toCtl' = <<msg>> => (Heard(m)' => m = msg)
         /\ LinkCut => (Heard(m)' => Heard(m))
<1>0. toCtl \in Seq(HostMessages)
  BY DEF LifecycleTypeOK
<1> DEFINE H(s) == In(m, s)
<1>1. Heard(m) = H(toCtl) /\ Heard(m)' = H(toCtl')
  BY DEF Heard
<1>2. \A msg \in HostMessages : SendToCtl(msg) => (H(toCtl') => H(toCtl) \/ m = msg)
  BY <1>0, StreamFacts DEF SendToCtl
<1>3. toCtl # <<>> => In(Head(toCtl), toCtl) /\ (toCtl' = Tail(toCtl) => (H(toCtl') => H(toCtl)))
  <2>1. toCtl # <<>> => In(Head(toCtl), toCtl) /\ (In(m, Tail(toCtl)) => In(m, toCtl))
    BY <1>0, StreamFacts
  <2> QED BY <2>1
<1>4. \A msg \in HostMessages : toCtl' = <<msg>> => (H(toCtl') => m = msg)
  BY <1>0, StreamFacts
<1>5. LinkCut => (H(toCtl') => H(toCtl))
  BY <1>0, StreamFacts DEF LinkCut
<1>6. toCtl' = <<>> => ~H(toCtl')
  BY <1>0, StreamFacts
<1>7. toCtl' = toCtl => (H(toCtl') <=> H(toCtl))
  OBVIOUS
<1> QED BY <1>1, <1>2, <1>3, <1>4, <1>5, <1>6, <1>7 DEF Heard

(* Nothing was authorized yet, and nothing was connected.                   *)
LEMMA ConnInit == Init => ConnInv
BY DEF Init, ConnInv, In

(* Every step keeps an authorization with its connection: a new connection  *)
(* drops it, and only a validated grant restores it.                        *)
LEMMA ConnNext ==
  LifecycleTypeOK /\ ConnInv /\ [Next]_vars => ConnInv'
<1> SUFFICES ASSUME LifecycleTypeOK, ConnInv, [Next]_vars PROVE ConnInv' OBVIOUS
<1> USE DEF ConnInv, LifecycleTypeOK, wire, auth, hostVars, hostTask, ctlVars, ctlTask
<1>1. CASE HostStart
  BY <1>1 DEF HostStart
<1>2. CASE CtlConnect
  BY <1>2 DEF CtlConnect
<1>3. CASE Establish
  BY <1>3, HeardNext, LifecycleAssumption DEF Establish
<1>4. CASE EstablishFails
  BY <1>4 DEF EstablishFails
<1>5. CASE Reconnect
  BY <1>5, HeardNext, LifecycleAssumption DEF Reconnect, HostServing, Over, CtlServing,
     HostMessages
<1>6. CASE HostSaysHello
  BY <1>6, HeardNext DEF HostSaysHello, HostServing, Over, HostMessages
<1>7. CASE HostReadsGrant
  BY <1>7, HeardNext DEF HostReadsGrant
<1>8. CASE HostAuthorizes
  BY <1>8, HeardNext, LifecycleAssumption DEF HostAuthorizes
<1>9. CASE HostConfigures
  BY <1>9 DEF HostConfigures
<1>10. CASE HostFlushesBye
  BY <1>10 DEF HostFlushesBye
<1>11. CASE HostReadsBye
  BY <1>11, HostSends DEF HostReadsBye, HostServing, Over, HostEnds
<1>12. CASE HostLosesController
  BY <1>12 DEF HostLosesController
<1>13. CASE HostRereadsGrant
  BY <1>13, HeardNext DEF HostRereadsGrant
<1>14. CASE HostRevalidates
  BY <1>14 DEF HostRevalidates
<1>15. CASE HostReconfigures
  BY <1>15 DEF HostReconfigures
<1>16. CASE HostSendFails
  BY <1>16 DEF HostSendFails
<1>17. CASE HostReserveFails
  BY <1>17, HeardNext DEF HostReserveFails, HostServing, Over, HostEnds
<1>18. CASE CtlPresentsGrant
  BY <1>18, HeardNext DEF CtlPresentsGrant
<1>19. CASE CtlHandshakes
  BY <1>19, HeardNext DEF CtlHandshakes
<1>20. CASE CtlSendsBye
  BY <1>20 DEF CtlSendsBye
<1>21. CASE CtlReadsBye
  BY <1>21 DEF CtlReadsBye
<1>22. CASE CtlLosesHost
  BY <1>22 DEF CtlLosesHost
<1>23. CASE CtlRehandshakes
  BY <1>23, HeardNext DEF CtlRehandshakes
<1>24. CASE CtlRedialFails
  BY <1>24, HeardNext DEF CtlRedialFails
<1>25. CASE HostStopCalled
  BY <1>25, HeardNext DEF HostStopCalled
<1>26. CASE HostStopEnds
  BY <1>26, HeardNext DEF HostStopEnds
<1>27. CASE HostStopQueuesBye
  BY <1>27, HeardNext DEF HostStopQueuesBye
<1>28. CASE HostStopJoins
  BY <1>28, HeardNext DEF HostStopJoins
<1>29. CASE DisconnectCalled
  BY <1>29, HeardNext DEF DisconnectCalled
<1>30. CASE DisconnectApplies
  BY <1>30, HeardNext DEF DisconnectApplies
<1>31. CASE DisconnectQueuesBye
  BY <1>31, HeardNext DEF DisconnectQueuesBye
<1>32. CASE DisconnectEmits
  BY <1>32, HeardNext DEF DisconnectEmits
<1>33. CASE DisconnectJoins
  BY <1>33, HeardNext DEF DisconnectJoins
<1>34. CASE LinkCut
  <2>1. toCtl = <<>> => toCtl' = <<>>
    BY <1>34 DEF LinkCut
  <2>2. Heard("StreamConfig")' => Heard("StreamConfig")
    BY <1>34, HeardNext
  <2> QED BY <1>34, <2>1, <2>2 DEF LinkCut
<1>35. CASE GrantExpires
  BY <1>35, HeardNext DEF GrantExpires
<1>36. CASE UNCHANGED vars
  BY <1>36, HeardNext DEF vars
<1> QED
  BY <1>1, <1>2, <1>3, <1>4, <1>5, <1>6, <1>7, <1>8, <1>9, <1>10, <1>11, <1>12, <1>13, <1>14,
     <1>15, <1>16, <1>17, <1>18, <1>19, <1>20, <1>21, <1>22, <1>23, <1>24, <1>25, <1>26, <1>27,
     <1>28, <1>29, <1>30, <1>31, <1>32, <1>33, <1>34, <1>35, <1>36 DEF Next, HostSteps,
     StopSteps, CtlSteps, LeaverSteps

(* What apply makes of a state: a terminal one stays, another goes where    *)
(* its event says, and only Revoke leads to Revoked.                        *)
LEMMA ApplyFacts ==
  ASSUME NEW s \in States
  PROVE  /\ s \in Terminal => \A e : Apply(s, e) = s /\ Invalid(s, e)
         /\ s \notin Terminal =>
              /\ Apply(s, "Revoke") = "Revoked" /\ Apply(s, "Reject") = "Rejected"
              /\ \A e \in {"LocalStop", "PeerClosed", "Fatal"} : Apply(s, e) = "Terminated"
              /\ \A e \in {"Start", "ControlUp", "Authorized", "StreamConfigured",
                           "TransportLost", "TransportRestored"} : Apply(s, e) \notin Terminal
         /\ \A e : e # "Revoke" /\ s # "Revoked" => Apply(s, e) # "Revoked"
<1>1. s \in Terminal => \A e : Apply(s, e) = s /\ Invalid(s, e)
  BY DEF Apply, Invalid, Successors, Terminal, Edges
<1>2. s \notin Terminal =>
        /\ Apply(s, "Revoke") = "Revoked" /\ Apply(s, "Reject") = "Rejected"
        /\ \A e \in {"LocalStop", "PeerClosed", "Fatal"} : Apply(s, e) = "Terminated"
  BY EndApplies DEF EndOf
<1>3. s \notin Terminal =>
        \A e \in {"Start", "ControlUp", "Authorized", "StreamConfigured",
                  "TransportLost", "TransportRestored"} : Apply(s, e) \notin Terminal
  <2> SUFFICES ASSUME s \notin Terminal,
                      NEW e \in {"Start", "ControlUp", "Authorized", "StreamConfigured",
                                 "TransportLost", "TransportRestored"}
               PROVE  Apply(s, e) \notin Terminal
    OBVIOUS
  <2>1. Successors(s, e) \cap Terminal = {}
    BY DEF Successors, Edges, EndOf, Terminal
  <2> QED BY <2>1 DEF Apply, Invalid
<1>4. \A e : e # "Revoke" /\ s # "Revoked" => Apply(s, e) # "Revoked"
  <2> SUFFICES ASSUME NEW e, e # "Revoke", s # "Revoked" PROVE Apply(s, e) # "Revoked"
    OBVIOUS
  <2>1. "Revoked" \notin Successors(s, e)
    BY DEF Successors, Edges, EndOf
  <2> QED BY <2>1 DEF Apply, Invalid
<1> QED BY <1>1, <1>2, <1>3, <1>4

(* A stop moves from one of its steps to the next and stays what it was.    *)
LEMMA StopperStep ==
  ASSUME LifecycleTypeOK, NEW from, NEW to, from # "none", StopperGoes(from, to)
  PROVE  /\ stopper.pc = from /\ stopper.kind \in {"stop", "revoke"}
         /\ stopper'.pc = to /\ stopper'.kind = stopper.kind
BY DEF LifecycleTypeOK, Stoppers, StopperGoes

(* After an end the state is terminal, whatever it was.                     *)
LEMMA EndIsTerminal ==
  ASSUME NEW s \in States
  PROVE  \A e \in {"Revoke", "LocalStop", "PeerClosed", "Fatal"} : Apply(s, e) \in Terminal
<1>1. "Revoked" \in Terminal /\ "Terminated" \in Terminal
  BY DEF Terminal
<1> QED BY <1>1, ApplyFacts

(* The controller's edges.                                                  *)
LEMMA CtlApplies ==
  /\ Apply("Created", "Start") = "SessionConnecting"
  /\ Apply("SessionConnecting", "ControlUp") = "ControlEstablished"
  /\ Apply("ControlEstablished", "Authorized") = "ControlEstablished"
  /\ Apply("ControlEstablished", "StreamConfigured") = "Active"
  /\ Apply("Active", "TransportLost") = "Suspended" /\ ~Invalid("Active", "TransportLost")
  /\ Apply("Suspended", "TransportRestored") = "Active"
  /\ Apply("Suspended", "ReconnectWindowExpired") = "Terminated"
  /\ ~Invalid("Suspended", "ReconnectWindowExpired")
<1>1. \A x \in Edges : Apply(x[1], x[2]) = x[3] /\ ~Invalid(x[1], x[2])
  BY EdgeApplies DEF Invalid, Successors, Edges
<1> QED BY <1>1 DEF Edges

(* No one has stopped a host that has not started.                          *)
LEMMA HostEndInit == Init => HostEndInv
BY DEF Init, HostEndInv, OneHostEnd, Heard, In, Terminal

(* Every step keeps the rules of the host's end.                            *)
LEMMA HostEndNext ==
  LifecycleTypeOK /\ HostEndInv /\ [Next]_vars => HostEndInv'
<1> SUFFICES ASSUME LifecycleTypeOK, HostEndInv, [Next]_vars PROVE HostEndInv' OBVIOUS
<1> USE DEF HostEndInv, LifecycleTypeOK, OneHostEnd, wire, auth, hostVars, hostTask, ctlVars,
    ctlTask, HostMessages, Terminal
<1>1. CASE HostStart
  BY <1>1, ApplyFacts, HeardNext DEF HostStart
<1>2. CASE CtlConnect
  BY <1>2, ApplyFacts, HeardNext DEF CtlConnect
<1>3. CASE Establish
  BY <1>3, ApplyFacts, HeardNext DEF Establish
<1>4. CASE EstablishFails
  BY <1>4, HeardNext DEF EstablishFails
<1>5. CASE Reconnect
  BY <1>5, HeardNext DEF Reconnect
<1>6. CASE HostSaysHello
  BY <1>6, HeardNext DEF HostSaysHello
<1>7. CASE HostReadsGrant
  BY <1>7, HeardNext DEF HostReadsGrant
<1>8. CASE HostAuthorizes
  BY <1>8, ApplyFacts, HeardNext DEF HostAuthorizes
<1>9. CASE HostConfigures
  BY <1>9, ApplyFacts, HeardNext DEF HostConfigures
<1>10. CASE HostFlushesBye
  BY <1>10, HeardNext DEF HostFlushesBye
<1>11. CASE HostReadsBye
  BY <1>11, ApplyFacts, HeardNext DEF HostReadsBye, HostServing, Over, HostEnds
<1>12. CASE HostLosesController
  BY <1>12, HeardNext DEF HostLosesController
<1>13. CASE HostRereadsGrant
  BY <1>13, HeardNext DEF HostRereadsGrant
<1>14. CASE HostRevalidates
  BY <1>14, HeardNext DEF HostRevalidates
<1>15. CASE HostReconfigures
  BY <1>15, HeardNext DEF HostReconfigures
<1>16. CASE HostSendFails
  BY <1>16, HeardNext DEF HostSendFails
<1>17. CASE HostReserveFails
  BY <1>17, ApplyFacts, HeardNext DEF HostReserveFails, HostServing, HostReserving, HostEnds
<1>18. CASE CtlPresentsGrant
  BY <1>18, HeardNext DEF CtlPresentsGrant
<1>19. CASE CtlHandshakes
  <2>1. cState' = "Revoked" => cState = "Revoked"
    BY <1>19, ApplyFacts, ApplyType DEF CtlHandshakes
  <2>2. Heard("ByeRevoked")' => Heard("ByeRevoked")
    BY <1>19, HeardNext DEF CtlHandshakes
  <2> QED BY <1>19, <2>1, <2>2 DEF CtlHandshakes
<1>20. CASE CtlSendsBye
  BY <1>20, HeardNext DEF CtlSendsBye
<1>21. CASE CtlReadsBye
  BY <1>21, ApplyFacts, HeardNext, HeardNext DEF CtlReadsBye
<1>22. CASE CtlLosesHost
  BY <1>22, ApplyFacts, HeardNext DEF CtlLosesHost
<1>23. CASE CtlRehandshakes
  BY <1>23, ApplyFacts, HeardNext DEF CtlRehandshakes
<1>24. CASE CtlRedialFails
  BY <1>24, ApplyFacts, HeardNext DEF CtlRedialFails
<1>25. CASE HostStopCalled
  BY <1>25, HeardNext DEF HostStopCalled
<1>26. CASE HostStopEnds
  <2> USE <1>26
  <2>1. /\ stopper.pc = "claimed" /\ stopper.kind \in {"stop", "revoke"}
        /\ stopper'.pc = "ended" /\ stopper'.kind = stopper.kind
    BY StopperStep DEF HostStopEnds
  <2>2. hEnded = <<>> /\ hStop /\ (hState \in Terminal => hPc = "failed")
    BY <2>1
  <2>3. /\ stopper.kind = "revoke" => hState' = Apply(hState, "Revoke")
        /\ stopper.kind = "stop" => hState' = Apply(hState, "LocalStop")
        /\ hPc = "failed" => hEnded' = <<>>
        /\ hPc # "failed" => hEnded' = <<IF stopper.kind = "revoke" THEN "Revoked" ELSE "Stopped">>
    BY <2>1, <2>2 DEF HostStopEnds
  <2>4. /\ hState \in Terminal => hState' = hState
        /\ hState \notin Terminal /\ stopper.kind = "revoke" => hState' = "Revoked"
        /\ hState \notin Terminal /\ stopper.kind = "stop" => hState' = "Terminated"
    BY <2>1, <2>3, ApplyFacts
  <2>5. /\ hStop' = hStop /\ hPc' = hPc /\ hBye' = hBye /\ cState' = cState
        /\ Heard("ByeRevoked")' <=> Heard("ByeRevoked")
    BY HeardNext DEF HostStopEnds
  <2>6. OneHostEnd'
    <3>1. CASE hPc = "failed"
      BY <2>3, <3>1
    <3>2. CASE hPc # "failed" /\ stopper.kind = "revoke"
      <4>1. hEnded' = <<"Revoked">> /\ hState' = "Revoked"
        BY <2>2, <2>3, <2>4, <3>2
      <4> QED BY <4>1
    <3>3. CASE hPc # "failed" /\ stopper.kind = "stop"
      <4>1. hEnded' = <<"Stopped">> /\ hState' = "Terminated"
        BY <2>2, <2>3, <2>4, <3>3
      <4> QED BY <4>1
    <3> QED BY <2>1, <3>1, <3>2, <3>3
  <2>7. HostEndInv!3' /\ HostEndInv!4'
    BY <2>1, <2>2, <2>4, <2>5
  <2> QED BY <2>1, <2>2, <2>5, <2>6, <2>7
<1>27. CASE HostStopQueuesBye
  <2> USE <1>27
  <2>1. /\ stopper.pc = "ended" /\ stopper.kind \in {"stop", "revoke"}
        /\ stopper'.pc = "join" /\ stopper'.kind = stopper.kind
    BY StopperStep DEF HostStopQueuesBye
  <2>2. hBye' = "ByeRevoked" => hBye = "ByeRevoked" \/ hState = "Revoked"
    <3>1. CASE hPc \in HostServing
      BY <2>1, <3>1 DEF HostStopQueuesBye, ByeOf, HostServing, HostReserving
    <3>2. CASE hPc \notin HostServing
      BY <3>2 DEF HostStopQueuesBye
    <3> QED BY <3>1, <3>2
  <2>3. /\ hStop' = hStop /\ hPc' = hPc /\ cState' = cState /\ hState' = hState /\ hEnded' = hEnded
        /\ Heard("ByeRevoked")' <=> Heard("ByeRevoked")
    BY HeardNext DEF HostStopQueuesBye
  <2> QED BY <2>1, <2>2, <2>3
<1>28. CASE HostStopJoins
  BY <1>28, HeardNext DEF HostStopJoins, HostServing, Over, StopperGoes
<1>29. CASE DisconnectCalled
  BY <1>29, HeardNext DEF DisconnectCalled
<1>30. CASE DisconnectApplies
  BY <1>30, ApplyFacts, HeardNext DEF DisconnectApplies
<1>31. CASE DisconnectQueuesBye
  BY <1>31, HeardNext DEF DisconnectQueuesBye
<1>32. CASE DisconnectEmits
  BY <1>32, HeardNext DEF DisconnectEmits
<1>33. CASE DisconnectJoins
  BY <1>33, HeardNext DEF DisconnectJoins
<1>34. CASE LinkCut
  BY <1>34, HeardNext DEF LinkCut
<1>35. CASE GrantExpires
  BY <1>35, HeardNext DEF GrantExpires
<1>36. CASE UNCHANGED vars
  BY <1>36, HeardNext DEF vars
<1> QED
  BY <1>1, <1>2, <1>3, <1>4, <1>5, <1>6, <1>7, <1>8, <1>9, <1>10, <1>11, <1>12, <1>13, <1>14,
     <1>15, <1>16, <1>17, <1>18, <1>19, <1>20, <1>21, <1>22, <1>23, <1>24, <1>25, <1>26, <1>27,
     <1>28, <1>29, <1>30, <1>31, <1>32, <1>33, <1>34, <1>35, <1>36 DEF Next, HostSteps,
     StopSteps, CtlSteps, LeaverSteps

(* No one has stopped a controller that has not connected.                  *)
LEMMA CtlInit == Init => CtlInv
BY DEF Init, CtlInv, NoSilentEnd

(* Every step keeps the controller's state and its task together.           *)
LEMMA CtlNext ==
  LifecycleTypeOK /\ CtlInv /\ [Next]_vars => CtlInv'
<1> SUFFICES ASSUME LifecycleTypeOK, CtlInv, [Next]_vars PROVE CtlInv' OBVIOUS
<1> USE DEF CtlInv, LifecycleTypeOK, NoSilentEnd, wire, auth, hostVars, hostTask, ctlVars,
    ctlTask
<1>1. CASE HostStart
  BY <1>1 DEF HostStart
<1>2. CASE CtlConnect
  BY <1>2, ApplyFacts, CtlApplies DEF CtlConnect
<1>3. CASE Establish
  BY <1>3, ApplyFacts, CtlApplies DEF Establish
<1>4. CASE EstablishFails
  BY <1>4 DEF EstablishFails
<1>5. CASE Reconnect
  BY <1>5 DEF Reconnect
<1>6. CASE HostSaysHello
  BY <1>6 DEF HostSaysHello
<1>7. CASE HostReadsGrant
  BY <1>7 DEF HostReadsGrant
<1>8. CASE HostAuthorizes
  BY <1>8 DEF HostAuthorizes
<1>9. CASE HostConfigures
  BY <1>9 DEF HostConfigures
<1>10. CASE HostFlushesBye
  BY <1>10 DEF HostFlushesBye
<1>11. CASE HostReadsBye
  BY <1>11 DEF HostReadsBye
<1>12. CASE HostLosesController
  BY <1>12 DEF HostLosesController
<1>13. CASE HostRereadsGrant
  BY <1>13 DEF HostRereadsGrant
<1>14. CASE HostRevalidates
  BY <1>14 DEF HostRevalidates
<1>15. CASE HostReconfigures
  BY <1>15 DEF HostReconfigures
<1>16. CASE HostSendFails
  BY <1>16 DEF HostSendFails
<1>17. CASE HostReserveFails
  BY <1>17 DEF HostReserveFails
<1>18. CASE CtlPresentsGrant
  BY <1>18 DEF CtlPresentsGrant
<1>19. CASE CtlHandshakes
  BY <1>19, ApplyFacts, CtlApplies DEF CtlHandshakes
<1>20. CASE CtlSendsBye
  BY <1>20 DEF CtlSendsBye
<1>21. CASE CtlReadsBye
  BY <1>21, CtlApplies, EndIsTerminal DEF CtlReadsBye
<1>22. CASE CtlLosesHost
  BY <1>22, ApplyFacts, CtlApplies DEF CtlLosesHost
<1>23. CASE CtlRehandshakes
  BY <1>23, ApplyFacts, CtlApplies DEF CtlRehandshakes
<1>24. CASE CtlRedialFails
  BY <1>24, ApplyFacts, CtlApplies DEF CtlRedialFails, Terminal
<1>25. CASE HostStopCalled
  BY <1>25 DEF HostStopCalled
<1>26. CASE HostStopEnds
  BY <1>26 DEF HostStopEnds
<1>27. CASE HostStopQueuesBye
  BY <1>27 DEF HostStopQueuesBye
<1>28. CASE HostStopJoins
  BY <1>28 DEF HostStopJoins
<1>29. CASE DisconnectCalled
  BY <1>29 DEF DisconnectCalled
<1>30. CASE DisconnectApplies
  <2>1. cState' \in Terminal /\ leaver' = "bye"
    BY <1>30, EndIsTerminal DEF DisconnectApplies, LeaverGoes
  <2>2. cPc' = cPc /\ cStop' = cStop /\ cBye' = cBye
    BY <1>30 DEF DisconnectApplies
  <2>3. cPc # "idle" /\ cStop
    BY <1>30 DEF DisconnectApplies, LeaverGoes
  <2> QED BY <1>30, <2>1, <2>2, <2>3 DEF DisconnectApplies
<1>31. CASE DisconnectQueuesBye
  BY <1>31, CtlApplies DEF DisconnectQueuesBye, LeaverGoes
<1>32. CASE DisconnectEmits
  BY <1>32, CtlApplies DEF DisconnectEmits, LeaverGoes
<1>33. CASE DisconnectJoins
  BY <1>33, CtlApplies DEF DisconnectJoins, CtlServing, LeaverGoes
<1>34. CASE LinkCut
  BY <1>34 DEF LinkCut
<1>35. CASE GrantExpires
  BY <1>35 DEF GrantExpires
<1>36. CASE UNCHANGED vars
  BY <1>36 DEF vars
<1> QED
  BY <1>1, <1>2, <1>3, <1>4, <1>5, <1>6, <1>7, <1>8, <1>9, <1>10, <1>11, <1>12, <1>13, <1>14,
     <1>15, <1>16, <1>17, <1>18, <1>19, <1>20, <1>21, <1>22, <1>23, <1>24, <1>25, <1>26, <1>27,
     <1>28, <1>29, <1>30, <1>31, <1>32, <1>33, <1>34, <1>35, <1>36 DEF Next, HostSteps,
     StopSteps, CtlSteps, LeaverSteps

-------------------------------------------------------------------------------
(* The whole invariant.                                                     *)
LifecycleInv == LifecycleTypeOK /\ ConnInv /\ HostEndInv /\ CtlInv

(* The four parts together are inductive: the types need ConnInv (nothing   *)
(* has been connected before the first connection), the others the types.   *)
THEOREM LifecycleInvariance == Init /\ [][Next]_vars => []LifecycleInv
<1>1. Init => LifecycleInv
  BY LifecycleTypeInit, ConnInit, HostEndInit, CtlInit DEF LifecycleInv
<1>2. LifecycleInv /\ [Next]_vars => LifecycleInv'
  BY LifecycleTypeNext, ConnNext, HostEndNext, CtlNext DEF LifecycleInv
<1> QED BY <1>1, <1>2, PTL

(* Both sessions, their flags, tasks and streams keep their types.          *)
THEOREM LifecycleTypeCorrect == Spec => []LifecycleTypeOK
<1>1. LifecycleInv => LifecycleTypeOK
  BY DEF LifecycleInv
<1> QED BY <1>1, LifecycleInvariance, PTL DEF Spec

(* What the invariant says of the properties that the runs check.           *)
LEMMA LifecycleImplies == LifecycleInv => EndIsTold /\ AuthorityIsCurrent
BY DEF LifecycleInv, EndIsTold, AuthorityIsCurrent, HostEndInv, CtlInv, ConnInv,
       ServesOnlyValidated, RevokedOnlyByHost

(* However the user's stop, an emergency stop, the peer's Bye, a disconnect, *)
(* a lost connection and the reconnect window interleave: the host reports   *)
(* its end at most once and with the reason its state shows, and no          *)
(* controller task ends with the session left open.                          *)
THEOREM EndsAreTold == Spec => []EndIsTold
BY LifecycleInvariance, LifecycleImplies, PTL DEF Spec

(* Neither loop is ever serving on the authorization of an earlier           *)
(* connection, and a controller that ends as Revoked was revoked by the host.*)
THEOREM AuthorityStaysCurrent == Spec => []AuthorityIsCurrent
BY LifecycleInvariance, LifecycleImplies, PTL DEF Spec

-----------------------------------------------------------------------------
(* The share loop. *)

(* A connection of v for alpn has arrived and has not been accepted.        *)
Sent(v, alpn) == \E i \in 1 .. Len(inbox) : inbox[i].from = v /\ inbox[i].alpn = alpn
(* No one asks twice.                                                       *)
SentOnce ==
  \A i, j \in 1 .. Len(inbox) :
    inbox[i].from = inbox[j].from /\ inbox[i].alpn = "bootstrap" /\ inbox[j].alpn = "bootstrap"
      => i = j

(* The types, with what the task holds at each place of its loop.           *)
Places ==
  /\ slot \in 0 .. MaxShares /\ started \in Shares /\ running \in 0 .. started
  /\ handle \in Viewers \cup {Nobody} /\ held \in Viewers \cup {Nobody}
  /\ peer \in Viewers \cup {Nobody} /\ codec \in Viewers \cup {Nobody}
  /\ starter \in [Starters -> {"idle", "start"}]
  /\ stopSent \subseteq Shares /\ stopping \in BOOLEAN
  /\ pc \in {"off", "online", "top", "accept", "bootstrap", "prompt", "start",
            "serving", "reaccept"}
  /\ (pc = "off") = (running = 0)
  /\ (peer = Nobody) = (pc \in {"off", "online", "top", "accept"})
  /\ (pc = "prompt") = (prompt # "none")
  /\ prompt \in {"none", "open", "allow", "deny"}
  /\ viewer \in [Viewers -> {"idle", "asking", "ungranted", "granted", "dialing",
                             "watching", "cut", "left"}]
  /\ grantLink \in [Viewers -> {"none", "open", "granting", "done", "denied", "lost"}]
  /\ allowed \in [Viewers -> 0 .. MaxShares]

(* Only viewers ask or dial a session, each asks once, and none is idle     *)
(* that has a connection waiting.                                           *)
InboxInv ==
  /\ inbox \in Seq(Conn)
  /\ SentOnce
  /\ \A alpn : Sent(Nobody, alpn) => alpn = "other"
  /\ \A v \in Viewers : \A alpn : Sent(v, alpn) => viewer[v] # "idle"

(* Only shares that were started wait for the lock.                         *)
Queued == /\ waiting \in Seq(Shares)
          /\ \A i \in 1 .. Len(waiting) : waiting[i] <= started

-------------------------------------------------------------------------------
(* What is in a queue after something was appended.                         *)
LEMMA AppendFacts ==
  ASSUME NEW S, NEW q \in Seq(S), NEW e \in S
  PROVE  /\ Append(q, e) \in Seq(S) /\ Len(q) \in Nat
         /\ Len(Append(q, e)) = Len(q) + 1 /\ Append(q, e)[Len(q) + 1] = e
         /\ \A i \in 1 .. Len(q) : Append(q, e)[i] = q[i] /\ q[i] \in S
OBVIOUS

(* What is in a queue after its head was taken.                             *)
LEMMA TailFacts ==
  ASSUME NEW S, NEW q \in Seq(S), q # <<>>
  PROVE  /\ Tail(q) \in Seq(S) /\ Head(q) = q[1] /\ q[1] \in S
         /\ Len(q) \in Nat \ {0} /\ Len(Tail(q)) = Len(q) - 1
         /\ \A i \in 1 .. Len(Tail(q)) : Tail(q)[i] = q[i + 1]
OBVIOUS

(* What is on its way to the host after a viewer dialed.                    *)
LEMMA DialFacts ==
  ASSUME inbox \in Seq(Conn), NEW v \in Viewers \cup {Nobody},
         NEW alpn \in {"bootstrap", "session", "other"}, Dial(v, alpn)
  PROVE  /\ inbox' \in Seq(Conn)
         /\ \A w, a : Sent(w, a)' <=> Sent(w, a) \/ (w = v /\ a = alpn)
         /\ SentOnce /\ (alpn = "bootstrap" => ~Sent(v, alpn)) => SentOnce'
<1> DEFINE c == [from |-> v, alpn |-> alpn]
<1>1. c \in Conn /\ c.from = v /\ c.alpn = alpn
  BY DEF Conn
<1>2. inbox' = Append(inbox, c)
  BY DEF Dial
<1> HIDE DEF c
<1>3. /\ inbox' \in Seq(Conn) /\ Len(inbox) \in Nat /\ Len(inbox') = Len(inbox) + 1
      /\ inbox'[Len(inbox) + 1] = c
      /\ \A i \in 1 .. Len(inbox) : inbox'[i] = inbox[i]
  BY <1>1, <1>2
<1>4. ASSUME NEW w, NEW a PROVE Sent(w, a)' <=> Sent(w, a) \/ (w = v /\ a = alpn)
  BY <1>1, <1>3 DEF Sent
<1>5. ASSUME SentOnce, alpn = "bootstrap" => ~Sent(v, alpn) PROVE SentOnce'
  <2> SUFFICES ASSUME NEW i \in 1 .. Len(inbox'), NEW j \in 1 .. Len(inbox'),
                      inbox'[i].from = inbox'[j].from,
                      inbox'[i].alpn = "bootstrap", inbox'[j].alpn = "bootstrap"
               PROVE  i = j
    BY DEF SentOnce
  <2>1. CASE i \in 1 .. Len(inbox) /\ j \in 1 .. Len(inbox)
    BY <1>3, <1>5, <2>1 DEF SentOnce
  <2>2. CASE i = Len(inbox) + 1 /\ j \in 1 .. Len(inbox)
    BY <1>1, <1>3, <1>5, <2>2 DEF Sent
  <2>3. CASE j = Len(inbox) + 1 /\ i \in 1 .. Len(inbox)
    BY <1>1, <1>3, <1>5, <2>3 DEF Sent
  <2> QED BY <1>3, <2>1, <2>2, <2>3
<1> QED BY <1>3, <1>4, <1>5

(* What is on its way after the host took the oldest connection.            *)
LEMMA TakeFacts ==
  ASSUME inbox \in Seq(Conn), inbox # <<>>, inbox' = Tail(inbox)
  PROVE  /\ inbox' \in Seq(Conn) /\ Head(inbox) \in Conn
         /\ Sent(Head(inbox).from, Head(inbox).alpn)
         /\ \A w, a : Sent(w, a)' => Sent(w, a)
         /\ SentOnce => /\ SentOnce'
                        /\ \A w : w = Head(inbox).from /\ Head(inbox).alpn = "bootstrap"
                                    => ~Sent(w, "bootstrap")'
<1>1. /\ inbox' \in Seq(Conn) /\ Head(inbox) = inbox[1] /\ inbox[1] \in Conn
      /\ Len(inbox) \in Nat \ {0} /\ Len(inbox') = Len(inbox) - 1
      /\ \A i \in 1 .. Len(inbox') : inbox'[i] = inbox[i + 1]
  OBVIOUS
<1>2. Sent(Head(inbox).from, Head(inbox).alpn)
  BY <1>1 DEF Sent
<1>3. \A i \in 1 .. Len(inbox') : i + 1 \in 2 .. Len(inbox)
  BY <1>1
<1>4. ASSUME NEW w, NEW a, Sent(w, a)' PROVE Sent(w, a)
  <2>1. PICK i \in 1 .. Len(inbox') : inbox'[i].from = w /\ inbox'[i].alpn = a
    BY <1>4 DEF Sent
  <2>2. i + 1 \in 1 .. Len(inbox) /\ inbox[i + 1] = inbox'[i]
    BY <1>1, <1>3
  <2> QED BY <2>1, <2>2 DEF Sent
<1>5. ASSUME SentOnce PROVE SentOnce'
  <2> SUFFICES ASSUME NEW i \in 1 .. Len(inbox'), NEW j \in 1 .. Len(inbox'),
                      inbox'[i].from = inbox'[j].from,
                      inbox'[i].alpn = "bootstrap", inbox'[j].alpn = "bootstrap"
               PROVE  i = j
    BY DEF SentOnce
  <2>1. i + 1 \in 1 .. Len(inbox) /\ j + 1 \in 1 .. Len(inbox)
    BY <1>1, <1>3
  <2>2. i + 1 = j + 1
    BY <1>1, <1>5, <2>1 DEF SentOnce
  <2> QED BY <1>1, <2>2
<1>6. ASSUME SentOnce, NEW w, w = Head(inbox).from, Head(inbox).alpn = "bootstrap",
             Sent(w, "bootstrap")'
      PROVE  FALSE
  <2>1. PICK i \in 1 .. Len(inbox') : inbox'[i].from = w /\ inbox'[i].alpn = "bootstrap"
    BY <1>6 DEF Sent
  <2>2. i + 1 \in 2 .. Len(inbox) /\ inbox[i + 1] = inbox'[i]
    BY <1>1, <1>3
  <2>3. 1 = i + 1
    BY <1>1, <1>6, <2>1, <2>2 DEF SentOnce
  <2> QED BY <2>2, <2>3
<1> QED BY <1>1, <1>2, <1>4, <1>5, <1>6

(* What is on its way stays while nobody dials or takes.                    *)
LEMMA InboxSame ==
  ASSUME inbox' = inbox
  PROVE  (SentOnce' <=> SentOnce) /\ \A w, a : Sent(w, a)' <=> Sent(w, a)
BY DEF SentOnce, Sent

(* Whoever asks or dials a session is a viewer that has set out.            *)
LEMMA Arrived ==
  ASSUME InboxInv, NEW alpn \in {"bootstrap", "session"}, Incoming(alpn)
  PROVE  /\ Head(inbox).from \in Viewers /\ viewer[Head(inbox).from] # "idle"
         /\ Sent(Head(inbox).from, alpn)
<1>1. inbox \in Seq(Conn) /\ inbox # <<>> /\ Head(inbox).alpn = alpn
  BY DEF InboxInv, Incoming
<1>2. Head(inbox) \in Conn /\ Sent(Head(inbox).from, Head(inbox).alpn)
  <2>1. Len(inbox) \in Nat \ {0} /\ Head(inbox) = inbox[1] /\ inbox[1] \in Conn
    BY <1>1
  <2> QED BY <2>1 DEF Sent
<1>3. Head(inbox).from \in Viewers \cup {Nobody}
  BY <1>2 DEF Conn
<1>4. Sent(Head(inbox).from, alpn)
  BY <1>1, <1>2
<1>5. Head(inbox).from # Nobody
  BY <1>4 DEF InboxInv
<1> QED BY <1>3, <1>4, <1>5 DEF InboxInv

(* Dropping the connection that is held loses a grant that was being sent,  *)
(* and nothing else.                                                        *)
LEMMA DroppedFacts ==
  ASSUME Places
  PROVE  /\ Dropped(grantLink) \in
              [Viewers -> {"none", "open", "granting", "done", "denied", "lost"}]
         /\ \A v \in Viewers : \/ Dropped(grantLink)[v] = grantLink[v]
                               \/ /\ v = held /\ grantLink[v] = "granting"
                                  /\ Dropped(grantLink)[v] = "lost"
BY ShareAssumption DEF Places, Dropped

(* Dropping the connection that is held keeps the types.                    *)
LEMMA DroppedType ==
  Places => Dropped(grantLink) \in
              [Viewers -> {"none", "open", "granting", "done", "denied", "lost"}]
BY DroppedFacts

(* Every step keeps the types, and the loop's places with what it holds in  *)
(* each.                                                                    *)
LEMMA PlacesNext ==
  Places /\ InboxInv /\ Queued /\ [ShareNext]_shareVars => Places'
<1> SUFFICES ASSUME Places, InboxInv, Queued, [ShareNext]_shareVars PROVE Places' OBVIOUS
<1> USE DEF Places, loopVars, userVars, viewerVars, Shares
<1>1. ASSUME NEW a \in Starters, StartChecks(a) PROVE Places'
  BY <1>1, ShareAssumption DEF StartChecks
<1>2. ASSUME NEW a \in Starters, StartSets(a) PROVE Places'
  BY <1>2, ShareAssumption DEF StartSets
<1>3. ASSUME NEW answer \in {"allow", "deny"}, Respond(answer) PROVE Places'
  BY <1>3, ShareAssumption DEF Respond
<1>4. CASE StopTakes
  BY <1>4, ShareAssumption DEF StopTakes
<1>5. CASE StopCancels
  BY <1>5, ShareAssumption DEF StopCancels
<1>6. CASE TakesLock
  <2>1. waiting # <<>> /\ waiting \in Seq(Shares)
    BY <1>6 DEF TakesLock, Queued
  <2>2. Len(waiting) \in Nat \ {0} /\ Head(waiting) = waiting[1] /\ waiting[1] \in Shares
    BY <2>1, TailFacts
  <2>3. Head(waiting) \in 1 .. started
    BY <2>2 DEF Queued
  <2> QED BY <1>6, <2>3 DEF TakesLock
<1>7. CASE Refused
  BY <1>7, ShareAssumption, DroppedType DEF Refused, ShareEnds
<1>8. CASE OnlineStops
  BY <1>8, ShareAssumption, DroppedType DEF OnlineStops, ShareEnds
<1>9. CASE Online
  BY <1>9, ShareAssumption DEF Online
<1>10. CASE LoopTop
  BY <1>10, ShareAssumption DEF LoopTop
<1>11. CASE AcceptStops
  BY <1>11, ShareAssumption, DroppedType DEF AcceptStops, ShareEnds
<1>12. CASE AcceptOther
  BY <1>12, ShareAssumption DEF AcceptOther
<1>13. CASE AcceptBootstrap
  <2>1. peer' \in Viewers
    BY <1>13, Arrived DEF AcceptBootstrap
  <2>2. grantLink' \in [Viewers -> {"none", "open", "granting", "done", "denied", "lost"}]
    BY <1>13, <2>1, DroppedType DEF AcceptBootstrap
  <2> QED BY <1>13, <2>1, <2>2, ShareAssumption DEF AcceptBootstrap
<1>14. CASE BootstrapProceeds
  BY <1>14, ShareAssumption DEF BootstrapProceeds
<1>15. CASE BootstrapFails
  BY <1>15, ShareAssumption DEF BootstrapFails
<1>16. CASE PromptDenied
  BY <1>16, ShareAssumption DEF PromptDenied
<1>17. CASE PromptAllowed
  BY <1>17, ShareAssumption DEF PromptAllowed
<1>18. CASE AcceptSession
  <2>1. peer' \in Viewers
    BY <1>18, Arrived DEF AcceptSession
  <2>2. grantLink' \in [Viewers -> {"none", "open", "granting", "done", "denied", "lost"}]
    BY <1>18, DroppedType DEF AcceptSession
  <2> QED BY <1>18, <2>1, <2>2, ShareAssumption DEF AcceptSession
<1>19. CASE StartSucceeds
  BY <1>19, ShareAssumption DEF StartSucceeds, HasGrant
<1>20. CASE StartFails
  BY <1>20, ShareAssumption DEF StartFails
<1>21. CASE ServeStops
  BY <1>21, ShareAssumption DEF ServeStops, ServeReturns
<1>22. CASE ServeEnds
  BY <1>22, ShareAssumption DEF ServeEnds, ServeReturns
<1>23. CASE Reaccepts
  BY <1>23, ShareAssumption DEF Reaccepts
<1>24. CASE ReacceptDrops
  BY <1>24, ShareAssumption DEF ReacceptDrops
<1>25. CASE OtherArrives
  BY <1>25, ShareAssumption DEF OtherArrives, Quiet
<1>26. CASE ConnectionLost
  BY <1>26, ShareAssumption DEF ConnectionLost
<1>27. ASSUME NEW v \in Viewers, Ask(v) PROVE Places'
  BY <1>27, ShareAssumption DEF Ask, ViewerDials, Quiet
<1>28. ASSUME NEW v \in Viewers, DialUngranted(v) PROVE Places'
  BY <1>28, ShareAssumption DEF DialUngranted, ViewerDials, Quiet
<1>29. ASSUME NEW v \in Viewers, DialSession(v) PROVE Places'
  BY <1>29, ShareAssumption DEF DialSession, ViewerDials, Quiet
<1>30. ASSUME NEW v \in Viewers, Redial(v) PROVE Places'
  BY <1>30, ShareAssumption DEF Redial, ViewerDials, Quiet
<1>31. ASSUME NEW v \in Viewers, GrantArrives(v) PROVE Places'
  BY <1>31, ShareAssumption DEF GrantArrives, Quiet
<1>32. ASSUME NEW v \in Viewers, Leave(v) PROVE Places'
  BY <1>32, ShareAssumption DEF Leave, Quiet
<1>99. CASE UNCHANGED shareVars
  BY <1>99, ShareAssumption DEF shareVars
<1> QED
  BY <1>1, <1>2, <1>3, <1>4, <1>5, <1>6, <1>7, <1>8, <1>9, <1>10, <1>11, <1>12, <1>13, <1>14,
     <1>15, <1>16, <1>17, <1>18, <1>19, <1>20, <1>21, <1>22, <1>23, <1>24, <1>25, <1>26, <1>27,
     <1>28, <1>29, <1>30, <1>31, <1>32, <1>99
  DEF ShareNext, User, Host, Receives, OwnSteps, Outside

(* Every step keeps what is on its way: a viewer asks once.                 *)
LEMMA InboxNext ==
  Places /\ InboxInv /\ [ShareNext]_shareVars => InboxInv'
<1> SUFFICES ASSUME Places, InboxInv, [ShareNext]_shareVars PROVE InboxInv' OBVIOUS
<1> USE DEF Places, InboxInv, loopVars, userVars, viewerVars
<1>1. ASSUME NEW a \in Starters, StartChecks(a) PROVE InboxInv'
  BY <1>1, InboxSame DEF StartChecks
<1>2. ASSUME NEW a \in Starters, StartSets(a) PROVE InboxInv'
  BY <1>2, InboxSame DEF StartSets
<1>3. ASSUME NEW answer \in {"allow", "deny"}, Respond(answer) PROVE InboxInv'
  BY <1>3, InboxSame DEF Respond
<1>4. CASE StopTakes
  BY <1>4, InboxSame DEF StopTakes
<1>5. CASE StopCancels
  BY <1>5, InboxSame DEF StopCancels
<1>6. CASE TakesLock
  BY <1>6, InboxSame DEF TakesLock
<1>7. CASE Refused
  BY <1>7, InboxSame DEF Refused, ShareEnds
<1>8. CASE OnlineStops
  BY <1>8, InboxSame DEF OnlineStops, ShareEnds
<1>9. CASE Online
  BY <1>9, InboxSame DEF Online
<1>10. CASE LoopTop
  BY <1>10, InboxSame DEF LoopTop
<1>11. CASE AcceptStops
  BY <1>11, InboxSame DEF AcceptStops, ShareEnds
<1>12. CASE AcceptOther
  BY <1>12, TakeFacts DEF AcceptOther, Incoming
<1>13. CASE AcceptBootstrap
  BY <1>13, TakeFacts DEF AcceptBootstrap, Incoming
<1>14. CASE BootstrapProceeds
  BY <1>14, InboxSame DEF BootstrapProceeds
<1>15. CASE BootstrapFails
  BY <1>15, InboxSame DEF BootstrapFails
<1>16. CASE PromptDenied
  BY <1>16, InboxSame DEF PromptDenied
<1>17. CASE PromptAllowed
  BY <1>17, InboxSame DEF PromptAllowed
<1>18. CASE AcceptSession
  BY <1>18, TakeFacts DEF AcceptSession, Incoming
<1>19. CASE StartSucceeds
  BY <1>19, InboxSame DEF StartSucceeds, HasGrant
<1>20. CASE StartFails
  BY <1>20, InboxSame DEF StartFails
<1>21. CASE ServeStops
  BY <1>21, InboxSame DEF ServeStops, ServeReturns
<1>22. CASE ServeEnds
  BY <1>22, InboxSame DEF ServeEnds, ServeReturns
<1>23. CASE Reaccepts
  BY <1>23, TakeFacts DEF Reaccepts, Incoming
<1>24. CASE ReacceptDrops
  BY <1>24, TakeFacts DEF ReacceptDrops
<1>25. CASE OtherArrives
  <2>1. viewer' = viewer /\ Dial(Nobody, "other")
    BY <1>25 DEF OtherArrives, Quiet
  <2>2. /\ inbox' \in Seq(Conn) /\ SentOnce'
        /\ \A w, x : Sent(w, x)' <=> Sent(w, x) \/ (w = Nobody /\ x = "other")
    BY <2>1, DialFacts
  <2>3. \A x : Sent(Nobody, x)' => x = "other"
    BY <2>2
  <2>4. \A v \in Viewers : \A x : Sent(v, x)' => viewer'[v] # "idle"
    BY <2>1, <2>2, ShareAssumption, SMTT(30)
  <2> QED BY <2>2, <2>3, <2>4
<1>26. CASE ConnectionLost
  BY <1>26, InboxSame DEF ConnectionLost
<1>27. ASSUME NEW v \in Viewers, Ask(v) PROVE InboxInv'
  <2>1. /\ viewer[v] = "idle" /\ viewer' = [viewer EXCEPT ![v] = "asking"] /\ Dial(v, "bootstrap")
    BY <1>27 DEF Ask, ViewerDials
  <2>2. /\ inbox' \in Seq(Conn)
        /\ \A w, x : Sent(w, x)' <=> Sent(w, x) \/ (w = v /\ x = "bootstrap")
        /\ ("bootstrap" = "bootstrap" => ~Sent(v, "bootstrap")) => SentOnce'
    BY <2>1, DialFacts
  <2> QED BY <2>1, <2>2, ShareAssumption
<1>28. ASSUME NEW v \in Viewers, DialUngranted(v) PROVE InboxInv'
  <2>1. /\ viewer[v] = "idle" /\ viewer' = [viewer EXCEPT ![v] = "ungranted"] /\ Dial(v, "session")
    BY <1>28 DEF DialUngranted, ViewerDials
  <2>2. /\ inbox' \in Seq(Conn)
        /\ \A w, x : Sent(w, x)' <=> Sent(w, x) \/ (w = v /\ x = "session")
        /\ ("session" = "bootstrap" => ~Sent(v, "session")) => SentOnce'
    BY <2>1, DialFacts
  <2> QED BY <2>1, <2>2, ShareAssumption
<1>29. ASSUME NEW v \in Viewers, DialSession(v) PROVE InboxInv'
  <2>1. /\ viewer[v] = "granted" /\ viewer' = [viewer EXCEPT ![v] = "dialing"] /\ Dial(v, "session")
    BY <1>29 DEF DialSession, ViewerDials
  <2>2. /\ inbox' \in Seq(Conn)
        /\ \A w, x : Sent(w, x)' <=> Sent(w, x) \/ (w = v /\ x = "session")
        /\ ("session" = "bootstrap" => ~Sent(v, "session")) => SentOnce'
    BY <2>1, DialFacts
  <2> QED BY <2>1, <2>2, ShareAssumption
<1>30. ASSUME NEW v \in Viewers, Redial(v) PROVE InboxInv'
  <2>1. /\ viewer[v] = "cut" /\ viewer' = [viewer EXCEPT ![v] = "dialing"] /\ Dial(v, "session")
    BY <1>30 DEF Redial, ViewerDials
  <2>2. /\ inbox' \in Seq(Conn)
        /\ \A w, x : Sent(w, x)' <=> Sent(w, x) \/ (w = v /\ x = "session")
        /\ ("session" = "bootstrap" => ~Sent(v, "session")) => SentOnce'
    BY <2>1, DialFacts
  <2> QED BY <2>1, <2>2, ShareAssumption
<1>31. ASSUME NEW v \in Viewers, GrantArrives(v) PROVE InboxInv'
  BY <1>31, InboxSame DEF GrantArrives, Quiet
<1>32. ASSUME NEW v \in Viewers, Leave(v) PROVE InboxInv'
  BY <1>32, InboxSame DEF Leave, Quiet
<1>99. CASE UNCHANGED shareVars
  BY <1>99, InboxSame DEF shareVars
<1> QED
  BY <1>1, <1>2, <1>3, <1>4, <1>5, <1>6, <1>7, <1>8, <1>9, <1>10, <1>11, <1>12, <1>13, <1>14,
     <1>15, <1>16, <1>17, <1>18, <1>19, <1>20, <1>21, <1>22, <1>23, <1>24, <1>25, <1>26, <1>27,
     <1>28, <1>29, <1>30, <1>31, <1>32, <1>99
  DEF ShareNext, User, Host, Receives, OwnSteps, Outside

(* Every step keeps the queue of shares that wait for the lock.             *)
LEMMA QueuedNext ==
  Places /\ Queued /\ [ShareNext]_shareVars => Queued'
<1> SUFFICES ASSUME Places, Queued, [ShareNext]_shareVars PROVE Queued' OBVIOUS
<1> USE DEF Places, Queued, loopVars, userVars, viewerVars, Shares
<1>1. ASSUME NEW a \in Starters, StartChecks(a) PROVE Queued'
  BY <1>1 DEF StartChecks
<1>2. ASSUME NEW a \in Starters, StartSets(a) PROVE Queued'
  <2>1. waiting' = Append(waiting, started + 1) /\ started' = started + 1 /\ started + 1 \in Shares
    BY <1>2, ShareAssumption DEF StartSets
  <2>2. waiting \in Seq(Shares) /\ started \in Nat
    BY ShareAssumption
  <2>3. /\ waiting' \in Seq(Shares) /\ Len(waiting) \in Nat /\ Len(waiting') = Len(waiting) + 1
        /\ waiting'[Len(waiting) + 1] = started + 1
        /\ \A i \in 1 .. Len(waiting) : waiting'[i] = waiting[i] /\ waiting[i] \in Shares
    <3> HIDE DEF Shares
    <3> QED BY <2>1, <2>2, AppendFacts
  <2> QED BY <2>1, <2>2, <2>3
<1>3. ASSUME NEW answer \in {"allow", "deny"}, Respond(answer) PROVE Queued'
  BY <1>3 DEF Respond
<1>4. CASE StopTakes
  BY <1>4 DEF StopTakes
<1>5. CASE StopCancels
  BY <1>5 DEF StopCancels
<1>6. CASE TakesLock
  BY <1>6 DEF TakesLock
<1>7. CASE Refused
  BY <1>7 DEF Refused, ShareEnds
<1>8. CASE OnlineStops
  BY <1>8 DEF OnlineStops, ShareEnds
<1>9. CASE Online
  BY <1>9 DEF Online
<1>10. CASE LoopTop
  BY <1>10 DEF LoopTop
<1>11. CASE AcceptStops
  BY <1>11 DEF AcceptStops, ShareEnds
<1>12. CASE AcceptOther
  BY <1>12 DEF AcceptOther, Incoming
<1>13. CASE AcceptBootstrap
  BY <1>13 DEF AcceptBootstrap, Incoming
<1>14. CASE BootstrapProceeds
  BY <1>14 DEF BootstrapProceeds
<1>15. CASE BootstrapFails
  BY <1>15 DEF BootstrapFails
<1>16. CASE PromptDenied
  BY <1>16 DEF PromptDenied
<1>17. CASE PromptAllowed
  BY <1>17 DEF PromptAllowed
<1>18. CASE AcceptSession
  BY <1>18 DEF AcceptSession, Incoming
<1>19. CASE StartSucceeds
  BY <1>19 DEF StartSucceeds, HasGrant
<1>20. CASE StartFails
  BY <1>20 DEF StartFails
<1>21. CASE ServeStops
  BY <1>21 DEF ServeStops, ServeReturns
<1>22. CASE ServeEnds
  BY <1>22 DEF ServeEnds, ServeReturns
<1>23. CASE Reaccepts
  BY <1>23 DEF Reaccepts, Incoming
<1>24. CASE ReacceptDrops
  BY <1>24 DEF ReacceptDrops
<1>25. CASE OtherArrives
  BY <1>25 DEF OtherArrives, Quiet
<1>26. CASE ConnectionLost
  BY <1>26 DEF ConnectionLost
<1>27. ASSUME NEW v \in Viewers, Ask(v) PROVE Queued'
  BY <1>27 DEF Ask, ViewerDials, Quiet
<1>28. ASSUME NEW v \in Viewers, DialUngranted(v) PROVE Queued'
  BY <1>28 DEF DialUngranted, ViewerDials, Quiet
<1>29. ASSUME NEW v \in Viewers, DialSession(v) PROVE Queued'
  BY <1>29 DEF DialSession, ViewerDials, Quiet
<1>30. ASSUME NEW v \in Viewers, Redial(v) PROVE Queued'
  BY <1>30 DEF Redial, ViewerDials, Quiet
<1>31. ASSUME NEW v \in Viewers, GrantArrives(v) PROVE Queued'
  BY <1>31 DEF GrantArrives, Quiet
<1>32. ASSUME NEW v \in Viewers, Leave(v) PROVE Queued'
  BY <1>32 DEF Leave, Quiet
<1>99. CASE UNCHANGED shareVars
  BY <1>99 DEF shareVars
<1> QED
  BY <1>1, <1>2, <1>3, <1>4, <1>5, <1>6, <1>7, <1>8, <1>9, <1>10, <1>11, <1>12, <1>13, <1>14,
     <1>15, <1>16, <1>17, <1>18, <1>19, <1>20, <1>21, <1>22, <1>23, <1>24, <1>25, <1>26, <1>27,
     <1>28, <1>29, <1>30, <1>31, <1>32, <1>99
  DEF ShareNext, User, Host, Receives, OwnSteps, Outside

(* A session handle is in the slot only while its viewer is served.         *)
LEMMA HandleNext ==
  Places /\ HandleIsServed /\ [ShareNext]_shareVars => HandleIsServed'
<1> SUFFICES ASSUME Places, HandleIsServed, [ShareNext]_shareVars PROVE HandleIsServed' OBVIOUS
<1> USE DEF HandleIsServed, loopVars, userVars, viewerVars
<1>1. ASSUME NEW a \in Starters, StartChecks(a) PROVE HandleIsServed'
  BY <1>1 DEF StartChecks
<1>2. ASSUME NEW a \in Starters, StartSets(a) PROVE HandleIsServed'
  BY <1>2 DEF StartSets
<1>3. ASSUME NEW answer \in {"allow", "deny"}, Respond(answer) PROVE HandleIsServed'
  BY <1>3 DEF Respond
<1>4. CASE StopTakes
  BY <1>4 DEF StopTakes
<1>5. CASE StopCancels
  BY <1>5 DEF StopCancels
<1>6. CASE TakesLock
  BY <1>6 DEF TakesLock, Places
<1>7. CASE Refused
  BY <1>7 DEF Refused, ShareEnds
<1>8. CASE OnlineStops
  BY <1>8 DEF OnlineStops, ShareEnds
<1>9. CASE Online
  BY <1>9 DEF Online
<1>10. CASE LoopTop
  BY <1>10 DEF LoopTop
<1>11. CASE AcceptStops
  BY <1>11 DEF AcceptStops, ShareEnds
<1>12. CASE AcceptOther
  BY <1>12 DEF AcceptOther, Incoming
<1>13. CASE AcceptBootstrap
  BY <1>13 DEF AcceptBootstrap, Incoming
<1>14. CASE BootstrapProceeds
  BY <1>14 DEF BootstrapProceeds
<1>15. CASE BootstrapFails
  BY <1>15 DEF BootstrapFails
<1>16. CASE PromptDenied
  BY <1>16 DEF PromptDenied
<1>17. CASE PromptAllowed
  BY <1>17 DEF PromptAllowed
<1>18. CASE AcceptSession
  BY <1>18 DEF AcceptSession, Incoming
<1>19. CASE StartSucceeds
  BY <1>19 DEF StartSucceeds, HasGrant
<1>20. CASE StartFails
  BY <1>20 DEF StartFails
<1>21. CASE ServeStops
  BY <1>21 DEF ServeStops, ServeReturns
<1>22. CASE ServeEnds
  BY <1>22 DEF ServeEnds, ServeReturns
<1>23. CASE Reaccepts
  BY <1>23 DEF Reaccepts, Incoming
<1>24. CASE ReacceptDrops
  BY <1>24 DEF ReacceptDrops
<1>25. CASE OtherArrives
  BY <1>25 DEF OtherArrives, Quiet
<1>26. CASE ConnectionLost
  BY <1>26 DEF ConnectionLost
<1>27. ASSUME NEW v \in Viewers, Ask(v) PROVE HandleIsServed'
  BY <1>27 DEF Ask, ViewerDials, Quiet
<1>28. ASSUME NEW v \in Viewers, DialUngranted(v) PROVE HandleIsServed'
  BY <1>28 DEF DialUngranted, ViewerDials, Quiet
<1>29. ASSUME NEW v \in Viewers, DialSession(v) PROVE HandleIsServed'
  BY <1>29 DEF DialSession, ViewerDials, Quiet
<1>30. ASSUME NEW v \in Viewers, Redial(v) PROVE HandleIsServed'
  BY <1>30 DEF Redial, ViewerDials, Quiet
<1>31. ASSUME NEW v \in Viewers, GrantArrives(v) PROVE HandleIsServed'
  BY <1>31 DEF GrantArrives, Quiet
<1>32. ASSUME NEW v \in Viewers, Leave(v) PROVE HandleIsServed'
  BY <1>32 DEF Leave, Quiet
<1>99. CASE UNCHANGED shareVars
  BY <1>99 DEF shareVars
<1> QED
  BY <1>1, <1>2, <1>3, <1>4, <1>5, <1>6, <1>7, <1>8, <1>9, <1>10, <1>11, <1>12, <1>13, <1>14,
     <1>15, <1>16, <1>17, <1>18, <1>19, <1>20, <1>21, <1>22, <1>23, <1>24, <1>25, <1>26, <1>27,
     <1>28, <1>29, <1>30, <1>31, <1>32, <1>99
  DEF ShareNext, User, Host, Receives, OwnSteps, Outside

(* Who has its grant, or has it on its way, was allowed.                    *)
AllowedInv ==
  /\ \A v \in Viewers :
       viewer[v] \in {"granted", "dialing", "watching", "cut"}
         \/ grantLink[v] \in {"granting", "done"}
       => allowed[v] # 0
  /\ ServedWasAllowed

(* A viewer asks from its bootstrap dial until the grant has arrived or is  *)
(* lost; it has dialled no session meanwhile.                               *)
Asks(v) ==
  \/ Sent(v, "bootstrap")
  \/ pc \in {"bootstrap", "prompt"} /\ peer = v
  \/ grantLink[v] = "granting"

(* Where a request is, from its connection to the prompt to the grant.      *)
AskInv ==
  /\ pc \in {"off", "online"} => held = Nobody
  /\ pc \in {"bootstrap", "prompt"} => peer # Nobody /\ grantLink[peer] = "open"
  /\ \A v \in Viewers : /\ viewer[v] = "idle" => grantLink[v] = "none"
                        /\ Sent(v, "bootstrap") => grantLink[v] = "none"
                        /\ Asks(v) => viewer[v] \in {"asking", "left"} /\ ~Sent(v, "session")
  /\ GrantKept

(* Whoever is served was allowed by the share that serves it.               *)
LEMMA AllowedNext ==
  Places /\ InboxInv /\ AllowedInv /\ [ShareNext]_shareVars => AllowedInv'
<1> SUFFICES ASSUME Places, InboxInv, AllowedInv, [ShareNext]_shareVars PROVE AllowedInv' OBVIOUS
<1> USE DEF Places, AllowedInv, ServedWasAllowed, loopVars, userVars, viewerVars
<1>1. ASSUME NEW a \in Starters, StartChecks(a) PROVE AllowedInv'
  BY <1>1 DEF StartChecks
<1>2. ASSUME NEW a \in Starters, StartSets(a) PROVE AllowedInv'
  BY <1>2 DEF StartSets
<1>3. ASSUME NEW answer \in {"allow", "deny"}, Respond(answer) PROVE AllowedInv'
  BY <1>3 DEF Respond
<1>4. CASE StopTakes
  BY <1>4 DEF StopTakes
<1>5. CASE StopCancels
  BY <1>5 DEF StopCancels
<1>6. CASE TakesLock
  BY <1>6 DEF TakesLock
<1>7. CASE Refused
  BY <1>7, DroppedFacts DEF Refused, ShareEnds
<1>8. CASE OnlineStops
  BY <1>8, DroppedFacts DEF OnlineStops, ShareEnds
<1>9. CASE Online
  BY <1>9 DEF Online
<1>10. CASE LoopTop
  BY <1>10 DEF LoopTop
<1>11. CASE AcceptStops
  BY <1>11, DroppedFacts DEF AcceptStops, ShareEnds
<1>12. CASE AcceptOther
  BY <1>12 DEF AcceptOther, Incoming
<1>13. CASE AcceptBootstrap
  BY <1>13, DroppedFacts, Arrived DEF AcceptBootstrap, Incoming
<1>14. CASE BootstrapProceeds
  BY <1>14 DEF BootstrapProceeds
<1>15. CASE BootstrapFails
  BY <1>15 DEF BootstrapFails
<1>16. CASE PromptDenied
  BY <1>16 DEF PromptDenied
<1>17. CASE PromptAllowed
  BY <1>17 DEF PromptAllowed
<1>18. CASE AcceptSession
  BY <1>18, DroppedFacts, Arrived DEF AcceptSession, Incoming
<1>19. CASE StartSucceeds
  BY <1>19 DEF StartSucceeds, HasGrant
<1>20. CASE StartFails
  BY <1>20 DEF StartFails
<1>21. CASE ServeStops
  BY <1>21 DEF ServeStops, ServeReturns
<1>22. CASE ServeEnds
  BY <1>22 DEF ServeEnds, ServeReturns
<1>23. CASE Reaccepts
  BY <1>23 DEF Reaccepts, Incoming
<1>24. CASE ReacceptDrops
  BY <1>24 DEF ReacceptDrops
<1>25. CASE OtherArrives
  BY <1>25 DEF OtherArrives, Quiet
<1>26. CASE ConnectionLost
  BY <1>26 DEF ConnectionLost
<1>27. ASSUME NEW v \in Viewers, Ask(v) PROVE AllowedInv'
  BY <1>27 DEF Ask, ViewerDials, Quiet
<1>28. ASSUME NEW v \in Viewers, DialUngranted(v) PROVE AllowedInv'
  BY <1>28 DEF DialUngranted, ViewerDials, Quiet
<1>29. ASSUME NEW v \in Viewers, DialSession(v) PROVE AllowedInv'
  BY <1>29 DEF DialSession, ViewerDials, Quiet
<1>30. ASSUME NEW v \in Viewers, Redial(v) PROVE AllowedInv'
  BY <1>30 DEF Redial, ViewerDials, Quiet
<1>31. ASSUME NEW v \in Viewers, GrantArrives(v) PROVE AllowedInv'
  BY <1>31 DEF GrantArrives, Quiet
<1>32. ASSUME NEW v \in Viewers, Leave(v) PROVE AllowedInv'
  BY <1>32 DEF Leave, Quiet
<1>99. CASE UNCHANGED shareVars
  BY <1>99 DEF shareVars
<1> QED
  BY <1>1, <1>2, <1>3, <1>4, <1>5, <1>6, <1>7, <1>8, <1>9, <1>10, <1>11, <1>12, <1>13, <1>14,
     <1>15, <1>16, <1>17, <1>18, <1>19, <1>20, <1>21, <1>22, <1>23, <1>24, <1>25, <1>26, <1>27,
     <1>28, <1>29, <1>30, <1>31, <1>32, <1>99
  DEF ShareNext, User, Host, Receives, OwnSteps, Outside

(* A request that is allowed keeps its place until the grant is on its way. *)
LEMMA AskNext ==
  Places /\ InboxInv /\ AskInv /\ [ShareNext]_shareVars => AskInv'
<1> SUFFICES ASSUME Places, InboxInv, AskInv, [ShareNext]_shareVars PROVE AskInv' OBVIOUS
<1> USE DEF Places, AskInv, Asks, GrantKept, InboxInv, loopVars, userVars, viewerVars
<1>1. ASSUME NEW a \in Starters, StartChecks(a) PROVE AskInv'
  BY <1>1, InboxSame DEF StartChecks
<1>2. ASSUME NEW a \in Starters, StartSets(a) PROVE AskInv'
  BY <1>2, InboxSame DEF StartSets
<1>3. ASSUME NEW answer \in {"allow", "deny"}, Respond(answer) PROVE AskInv'
  BY <1>3, InboxSame DEF Respond
<1>4. CASE StopTakes
  BY <1>4, InboxSame DEF StopTakes
<1>5. CASE StopCancels
  BY <1>5, InboxSame DEF StopCancels
<1>6. CASE TakesLock
  BY <1>6, InboxSame DEF TakesLock
<1>7. CASE Refused
  BY <1>7, InboxSame, DroppedFacts, ShareAssumption DEF Refused, ShareEnds
<1>8. CASE OnlineStops
  BY <1>8, InboxSame, DroppedFacts, ShareAssumption DEF OnlineStops, ShareEnds
<1>9. CASE Online
  BY <1>9, InboxSame DEF Online
<1>10. CASE LoopTop
  BY <1>10, InboxSame DEF LoopTop
<1>11. CASE AcceptStops
  BY <1>11, InboxSame, DroppedFacts, ShareAssumption DEF AcceptStops, Told, ShareEnds
<1>12. CASE AcceptOther
  BY <1>12, TakeFacts, SMTT(30) DEF AcceptOther, Incoming
<1>13. CASE AcceptBootstrap
  BY <1>13, TakeFacts, DroppedFacts, Arrived, ShareAssumption DEF AcceptBootstrap, Incoming
<1>14. CASE BootstrapProceeds
  BY <1>14, InboxSame DEF BootstrapProceeds
<1>15. CASE BootstrapFails
  BY <1>15, InboxSame DEF BootstrapFails
<1>16. CASE PromptDenied
  BY <1>16, InboxSame DEF PromptDenied
<1>17. CASE PromptAllowed
  BY <1>17, InboxSame DEF PromptAllowed
<1>18. CASE AcceptSession
  <2> DEFINE w == Head(inbox).from
  <2>1. w \in Viewers /\ viewer[w] # "idle" /\ Sent(w, "session")
    BY <1>18, Arrived DEF AcceptSession
  <2>2. grantLink' = Dropped(grantLink) /\ held' = Nobody
        /\ viewer' = viewer /\ stopSent' = stopSent /\ pc' = "start"
    BY <1>18 DEF AcceptSession
  <2>3. \A v, a : Sent(v, a)' => Sent(v, a)
    BY <1>18, TakeFacts DEF AcceptSession, Incoming
  <2> HIDE DEF w
  <2>4. \A v \in Viewers : grantLink[v] = "granting" => v # w
    BY <2>1
  <2> QED BY <2>1, <2>2, <2>3, <2>4, DroppedFacts
<1>19. CASE StartSucceeds
  BY <1>19, InboxSame DEF StartSucceeds, HasGrant
<1>20. CASE StartFails
  BY <1>20, InboxSame DEF StartFails
<1>21. CASE ServeStops
  BY <1>21, InboxSame DEF ServeStops, ServeReturns
<1>22. CASE ServeEnds
  BY <1>22, InboxSame, SMTT(30) DEF ServeEnds, ServeReturns
<1>23. CASE Reaccepts
  BY <1>23, TakeFacts, SMTT(30) DEF Reaccepts, Incoming
<1>24. CASE ReacceptDrops
  BY <1>24, TakeFacts DEF ReacceptDrops
<1>25. CASE OtherArrives
  BY <1>25, DialFacts, SMTT(30) DEF OtherArrives, Quiet
<1>26. CASE ConnectionLost
  BY <1>26, InboxSame DEF ConnectionLost
<1>27. ASSUME NEW v \in Viewers, Ask(v) PROVE AskInv'
  BY <1>27, DialFacts DEF Ask, ViewerDials, Quiet
<1>28. ASSUME NEW v \in Viewers, DialUngranted(v) PROVE AskInv'
  BY <1>28, DialFacts DEF DialUngranted, ViewerDials, Quiet
<1>29. ASSUME NEW v \in Viewers, DialSession(v) PROVE AskInv'
  <2>1. /\ viewer[v] = "granted" /\ viewer' = [viewer EXCEPT ![v] = "dialing"] /\ Dial(v, "session")
    BY <1>29 DEF DialSession, ViewerDials
  <2>2. /\ inbox' \in Seq(Conn)
        /\ \A w, x : Sent(w, x)' <=> Sent(w, x) \/ (w = v /\ x = "session")
        /\ ("session" = "bootstrap" => ~Sent(v, "session")) => SentOnce'
    BY <2>1, DialFacts
  <2>3. UNCHANGED <<pc, peer, held, grantLink, stopSent>>
    BY <1>29 DEF DialSession, ViewerDials, Quiet
  <2>4. \A w \in Viewers : Asks(w)' <=> Asks(w)
    BY <2>2, <2>3
  <2>5. ~Asks(v)
    BY <2>1
  <2>6. \A w \in Viewers \ {v} : viewer'[w] = viewer[w]
        /\ (Sent(w, "session")' <=> Sent(w, "session"))
    BY <2>1, <2>2
  <2>7. viewer'[v] = "dialing"
    BY <2>1
  <2> HIDE DEF Asks
  <2>8. \A w \in Viewers : /\ (viewer[w] = "idle" => grantLink[w] = "none")'
                            /\ (Sent(w, "bootstrap") => grantLink[w] = "none")'
                            /\ (Asks(w) => viewer[w] \in {"asking", "left"} /\ ~Sent(w, "session"))'
    BY <2>2, <2>3, <2>4, <2>5, <2>6, <2>7
  <2>9. GrantKept'
    <3>1. \A w \in Viewers : viewer[w] # "idle" => viewer'[w] # "idle"
      BY <2>6, <2>7
    <3>2. grantLink' = grantLink /\ stopSent' = stopSent /\ GrantKept
      BY <2>3
    <3> QED BY <3>1, <3>2
  <2> QED BY <2>3, <2>8, <2>9
<1>30. ASSUME NEW v \in Viewers, Redial(v) PROVE AskInv'
  <2>1. /\ viewer[v] = "cut" /\ viewer' = [viewer EXCEPT ![v] = "dialing"] /\ Dial(v, "session")
    BY <1>30 DEF Redial, ViewerDials
  <2>2. /\ inbox' \in Seq(Conn)
        /\ \A w, x : Sent(w, x)' <=> Sent(w, x) \/ (w = v /\ x = "session")
        /\ ("session" = "bootstrap" => ~Sent(v, "session")) => SentOnce'
    BY <2>1, DialFacts
  <2>3. UNCHANGED <<pc, peer, held, grantLink, stopSent>>
    BY <1>30 DEF Redial, ViewerDials, Quiet
  <2>4. \A w \in Viewers : Asks(w)' <=> Asks(w)
    BY <2>2, <2>3
  <2>5. ~Asks(v)
    BY <2>1
  <2>6. \A w \in Viewers \ {v} : viewer'[w] = viewer[w]
        /\ (Sent(w, "session")' <=> Sent(w, "session"))
    BY <2>1, <2>2
  <2>7. viewer'[v] = "dialing"
    BY <2>1
  <2> HIDE DEF Asks
  <2>8. \A w \in Viewers : /\ (viewer[w] = "idle" => grantLink[w] = "none")'
                            /\ (Sent(w, "bootstrap") => grantLink[w] = "none")'
                            /\ (Asks(w) => viewer[w] \in {"asking", "left"} /\ ~Sent(w, "session"))'
    BY <2>2, <2>3, <2>4, <2>5, <2>6, <2>7
  <2>9. GrantKept'
    <3>1. \A w \in Viewers : viewer[w] # "idle" => viewer'[w] # "idle"
      BY <2>6, <2>7
    <3>2. grantLink' = grantLink /\ stopSent' = stopSent /\ GrantKept
      BY <2>3
    <3> QED BY <3>1, <3>2
  <2> QED BY <2>3, <2>8, <2>9
<1>31. ASSUME NEW v \in Viewers, GrantArrives(v) PROVE AskInv'
  BY <1>31, InboxSame DEF GrantArrives, Quiet
<1>32. ASSUME NEW v \in Viewers, Leave(v) PROVE AskInv'
  BY <1>32, InboxSame DEF Leave, Quiet
<1>99. CASE UNCHANGED shareVars
  BY <1>99, InboxSame DEF shareVars
<1> QED
  BY <1>1, <1>2, <1>3, <1>4, <1>5, <1>6, <1>7, <1>8, <1>9, <1>10, <1>11, <1>12, <1>13, <1>14,
     <1>15, <1>16, <1>17, <1>18, <1>19, <1>20, <1>21, <1>22, <1>23, <1>24, <1>25, <1>26, <1>27,
     <1>28, <1>29, <1>30, <1>31, <1>32, <1>99
  DEF ShareNext, User, Host, Receives, OwnSteps, Outside

(* Everything holds when the first share waits for the lock.                *)
LEMMA ShareInitial ==
  ShareInit => Places /\ Queued /\ InboxInv /\ AllowedInv /\ AskInv /\ HandleIsServed
<1> SUFFICES ASSUME ShareInit
             PROVE  /\ Places /\ Queued /\ InboxInv /\ AllowedInv /\ AskInv /\ HandleIsServed
  OBVIOUS
<1>1. 1 \in Shares
  BY ShareAssumption DEF Shares
<1>2. waiting = <<1>> /\ Len(waiting) = 1 /\ waiting[1] = 1 /\ inbox = <<>> /\ Len(inbox) = 0
  BY DEF ShareInit
<1>3. Places
  <2>1. slot \in 0 .. MaxShares /\ started \in Shares /\ running \in 0 .. started
    BY <1>1, ShareAssumption DEF ShareInit
  <2>2. viewer \in [Viewers -> {"idle", "asking", "ungranted", "granted", "dialing",
                              "watching", "cut", "left"}]
    BY DEF ShareInit
  <2>3. grantLink \in [Viewers -> {"none", "open", "granting", "done", "denied", "lost"}]
    BY DEF ShareInit
  <2>4. allowed \in [Viewers -> 0 .. MaxShares] /\ starter \in [Starters -> {"idle", "start"}]
    BY ShareAssumption DEF ShareInit
  <2> QED BY <2>1, <2>2, <2>3, <2>4 DEF ShareInit, Places
<1>4. Queued
  BY <1>1, <1>2 DEF Queued, ShareInit
<1>5. \A v, a : ~Sent(v, a)
  BY <1>2 DEF Sent
<1>6. InboxInv
  BY <1>2, <1>5 DEF InboxInv, SentOnce
<1>7. AllowedInv /\ HandleIsServed
  BY DEF ShareInit, AllowedInv, ServedWasAllowed, HandleIsServed
<1>8. AskInv
  BY <1>5 DEF ShareInit, AskInv, Asks, GrantKept
<1> QED BY <1>3, <1>4, <1>6, <1>7, <1>8
-------------------------------------------------------------------------------
(* The whole invariant.                                                     *)
ShareInv == Places /\ Queued /\ InboxInv /\ AllowedInv /\ AskInv /\ HandleIsServed

(* The invariant holds of the share loop alone, for every number of         *)
(* viewers, shares and starters.                                            *)
THEOREM ShareInvariance == ShareInit /\ [][ShareNext]_shareVars => []ShareInv
<1>1. ShareInit => ShareInv
  BY ShareInitial DEF ShareInv
<1>2. ShareInv /\ [ShareNext]_shareVars => ShareInv'
  BY PlacesNext, QueuedNext, InboxNext, AllowedNext, AskNext, HandleNext DEF ShareInv
<1> QED BY <1>1, <1>2, PTL

(* The loop, its slot, its queue and its viewers keep their types.          *)
THEOREM ShareTypeCorrect == ShareSpec => []ShareTypeOK
<1>1. ShareInv => ShareTypeOK
  BY DEF ShareInv, Places, Queued, InboxInv, ShareTypeOK
<1> QED BY <1>1, ShareInvariance, PTL DEF ShareSpec

(* What the invariant says of the property the run checks.                  *)
LEMMA ShareImplies == ShareInv => AllowIsServed
BY DEF ShareInv, AllowedInv, AskInv, AllowIsServed

(* For every number of viewers and shares: a viewer the user allowed is     *)
(* served or on its way to be, and no one is served that was not allowed.   *)
THEOREM AllowLeadsToService == ShareSpec => []AllowIsServed
BY ShareInvariance, ShareImplies, PTL DEF ShareSpec

(* The handle the chat goes to is that of the session being served, however *)
(* many windows start shares.                                               *)
THEOREM HandleStaysServed == ShareSpec => []HandleIsServed
<1>1. ShareInv => HandleIsServed
  BY DEF ShareInv
<1> QED BY <1>1, ShareInvariance, PTL DEF ShareSpec

-----------------------------------------------------------------------------
(* The events, and the composition. *)

(* Whether an end is still to be read, from where on nothing is told, and   *)
(* what a reader that reads everything will show.                           *)
HasEnd == \E i \in 1 .. Len(stream) : stream[i] \in Ends
QuietFrom(i) == \A j \in i .. Len(stream) : Tells(stream[j]) = "nothing"
Shows(s) == told.st = s
WillTell(s) ==
  \/ Shows(s) /\ QuietFrom(1)
  \/ \E i \in 1 .. Len(stream) : Tells(stream[i]) = s /\ QuietFrom(i + 1)

(* What the session's own flags say of each other, and of what it has sent. *)
SessionSound ==
  /\ session.stop <=> session.st = "ended"
  /\ session.redial => /\ session.loop /\ who = "viewer"
                       /\ session.st \in {"suspended", "ended"}
  /\ session.owes = "Suspended" => session.st \in {"suspended", "ended"}
  /\ session.owes = "Resumed" => session.st \in {"active", "ended"}
  /\ session.owes \in Ends \/ session.leaving => session.st = "ended"
  /\ ~session.kept => /\ session.st = "ended" /\ ~session.loop /\ ~session.leaving
                      /\ session.owes = "nothing"
  /\ HasEnd => session.st = "ended"

(* A reader that has left had reason to; one that reads will come to show   *)
(* what the session is, from what is in the stream or is yet to be emitted. *)
ToEnd == HasEnd \/ session.leaving \/ session.owes \in Ends
ToTell ==
  \/ Tells(session.owes) = session.st
  \/ Tells(session.owes) = "nothing" /\ WillTell(session.st)
ReaderSound ==
  /\ reader = "left" => /\ session.st = "ended"
                        /\ told.st = "ended" \/ (missed /\ ~session.kept)
  /\ reader = "reading" /\ ~missed => IF session.st = "ended" THEN ToEnd ELSE ToTell

(* The whole invariant of the event stream.                                 *)
FeedInv == FeedTypeOK /\ SessionSound /\ ReaderSound
-------------------------------------------------------------------------------
(* What the readers make of each kind of event.                             *)
LEMMA TellsFacts ==
  /\ \A e : Tells(e) \in {"nothing", "active", "suspended", "ended"}
  /\ \A e : Tells(e) = "ended" <=> e \in Ends
  /\ \A e \in Leases \cup {"note", "nothing"} : Tells(e) = "nothing" /\ e \notin Ends
  /\ Tells("Suspended") = "suspended" /\ Tells("Resumed") = "active"
  /\ \A e : Tells(e) = "suspended" => e = "Suspended"
  /\ \A e : Tells(e) = "active" => e = "Resumed"
  /\ "SessionEnded" \in Ends /\ "Disconnected" \in Ends
  /\ "nothing" \notin Ends /\ "nothing" \notin Kinds
BY DEF Tells, Ends, Leases, Kinds

(* Nothing is told, and nothing will be told otherwise, while both stay.    *)
LEMMA StreamSame ==
  ASSUME stream' = stream
  PROVE  /\ HasEnd' <=> HasEnd
         /\ told' = told => \A s : WillTell(s) <=> WillTell(s)'
<1>0. told' = told => \A s : Shows(s) <=> Shows(s)'
  BY DEF Shows
<1>2. \A i : QuietFrom(i)' <=> QuietFrom(i)
  BY DEF QuietFrom
<1> QED BY <1>0, <1>2 DEF HasEnd, WillTell

(* Passing an event on shows what it tells; one that tells nothing leaves   *)
(* what is shown.                                                           *)
LEMMA PassesFacts ==
  ASSUME FeedTypeOK, NEW e, Passes(e)
  PROVE  /\ told' \in [st : {"active", "suspended", "ended"}, control : BOOLEAN]
         /\ \A s : s = Tells(e) /\ s # "nothing" => Shows(s)'
         /\ Tells(e) = "nothing" => \A s : Shows(s) => Shows(s)'
<1> DEFINE t == Tells(e)
           c == e = "LeaseGranted" \/ (told.control /\ e # "LeaseEnded")
<1>0. t \in {"nothing", "active", "suspended", "ended"} /\ c \in BOOLEAN
  BY TellsFacts
<1>1. told' = [st |-> IF t = "nothing" THEN told.st ELSE t, control |-> c]
  BY DEF Passes
<1> HIDE DEF t, c
<1>2. told' \in [st : {"active", "suspended", "ended"}, control : BOOLEAN]
  BY <1>0, <1>1 DEF FeedTypeOK
<1>3. \A s : s = t /\ s # "nothing" => Shows(s)'
  BY <1>1 DEF Shows
<1>4. t = "nothing" => \A s : Shows(s) => Shows(s)'
  BY <1>1 DEF Shows
<1> QED BY <1>2, <1>3, <1>4 DEF t

(* Emitting an event keeps the stream and its bound.                        *)
LEMMA EmitType ==
  ASSUME FeedTypeOK, NEW e \in Kinds, Emit(e)
  PROVE  stream' \in Seq(Kinds) /\ Len(stream') <= Depth /\ missed' \in BOOLEAN
<1>1. stream \in Seq(Kinds) /\ Len(stream) <= Depth /\ missed \in BOOLEAN
  BY DEF FeedTypeOK
<1>2. \/ stream' = Append(stream, e) /\ Len(stream) < Depth
      \/ stream' = stream
  BY DEF Emit
<1>3. stream' \in Seq(Kinds)
  BY <1>1, <1>2, AppendFacts
<1>4. Len(stream') <= Depth
  BY <1>1, <1>2, AppendFacts, FeedAssumption
<1>5. missed' \in BOOLEAN
  BY <1>1 DEF Emit
<1> QED BY <1>3, <1>4, <1>5

(* An event that is emitted is in the stream, or was missed.                *)
LEMMA EmitFacts ==
  ASSUME FeedTypeOK, reader = "reading", NEW e \in Kinds, Emit(e), Keeps
  PROVE  /\ HasEnd' => HasEnd \/ e \in Ends
         /\ HasEnd => HasEnd'
         /\ e \in Ends /\ ~missed' => HasEnd'
         /\ session.st = "ended" /\ e \notin Ends /\ ~missed' => ~missed
         /\ Tells(e) = "nothing" => missed' = missed /\ \A s : WillTell(s) => WillTell(s)'
         /\ \A s : s = Tells(e) /\ s # "nothing" /\ ~missed' => WillTell(s)'
<1>0. /\ stream \in Seq(Kinds) /\ Len(stream) <= Depth /\ missed \in BOOLEAN
      /\ \A s : Shows(s) <=> Shows(s)'
  BY DEF FeedTypeOK, Keeps, Shows
<1>1. \/ stream' = Append(stream, e) /\ Len(stream) < Depth
      \/ stream' = stream /\ Len(stream) = Depth
  BY <1>0, FeedAssumption DEF Emit
<1>2. missed' = IF Tells(e) = "nothing" THEN missed
                ELSE Len(stream) = Depth \/ (missed /\ session.st = "ended" /\ e \notin Ends)
  BY DEF Emit
<1>3. /\ Len(stream) \in Nat
      /\ stream' = Append(stream, e) =>
           /\ stream' \in Seq(Kinds) /\ Len(stream') = Len(stream) + 1
           /\ stream'[Len(stream) + 1] = e
           /\ \A i \in 1 .. Len(stream) : stream'[i] = stream[i]
  BY <1>0, AppendFacts
<1>5. (HasEnd' => HasEnd \/ e \in Ends) /\ (HasEnd => HasEnd')
  BY <1>1, <1>3 DEF HasEnd
<1>6. Len(stream) # Depth => stream' = Append(stream, e)
  BY <1>1
<1>7. e \in Ends /\ ~missed' => HasEnd'
  <2> SUFFICES ASSUME e \in Ends, ~missed' PROVE HasEnd' OBVIOUS
  <2>1. stream' = Append(stream, e)
    BY <1>2, <1>6, TellsFacts
  <2>2. Len(stream) + 1 \in 1 .. Len(stream') /\ stream'[Len(stream) + 1] \in Ends
    BY <1>3, <2>1
  <2> QED BY <2>2 DEF HasEnd
<1>9. ASSUME Tells(e) = "nothing", NEW s, WillTell(s) PROVE WillTell(s)'
  <2>1. CASE stream' = stream
    BY <1>9, <2>1, StreamSame DEF Keeps
  <2>2. CASE stream' = Append(stream, e)
    <3>1. \A i \in 1 .. Len(stream) + 1 : QuietFrom(i) => QuietFrom(i)'
      <4> SUFFICES ASSUME NEW i \in 1 .. Len(stream) + 1, QuietFrom(i),
                          NEW j \in i .. Len(stream')
                   PROVE  Tells(stream'[j]) = "nothing"
        BY DEF QuietFrom
      <4>1. CASE j = Len(stream) + 1
        BY <1>3, <1>9, <2>2, <4>1
      <4>2. CASE j # Len(stream) + 1
        <5>1. j \in i .. Len(stream) /\ j \in 1 .. Len(stream)
          BY <1>3, <2>2, <4>2
        <5> QED BY <1>3, <2>2, <5>1 DEF QuietFrom
      <4> QED BY <4>1, <4>2
    <3>2. CASE Shows(s) /\ QuietFrom(1)
      BY <1>0, <1>3, <3>1, <3>2 DEF WillTell
    <3>3. ASSUME NEW i \in 1 .. Len(stream), Tells(stream[i]) = s, QuietFrom(i + 1)
          PROVE  WillTell(s)'
      <4>1. QuietFrom(i + 1)' /\ i \in 1 .. Len(stream') /\ stream'[i] = stream[i]
        BY <1>3, <2>2, <3>1, <3>3
      <4> QED BY <3>3, <4>1 DEF WillTell
    <3> QED BY <1>9, <3>2, <3>3 DEF WillTell
  <2> QED BY <1>1, <2>1, <2>2
<1>10. ASSUME NEW s, s = Tells(e), s # "nothing", ~missed' PROVE WillTell(s)'
  <2>1. stream' = Append(stream, e)
    BY <1>2, <1>6, <1>10
  <2>2. PICK n \in 1 .. Len(stream') : n = Len(stream) + 1 /\ n = Len(stream')
    BY <1>3, <2>1
  <2>3. Tells(stream'[n]) = s
    BY <1>3, <1>10, <2>1, <2>2
  <2>4. QuietFrom(n + 1)'
    BY <2>2 DEF QuietFrom
  <2> QED BY <2>2, <2>3, <2>4 DEF WillTell
<1> QED BY <1>2, <1>5, <1>7, <1>9, <1>10

(* What a reader has not been told yet it will still be told after a read.  *)
LEMMA ReadFacts ==
  ASSUME FeedTypeOK, stream # <<>>, stream' = Tail(stream), Passes(Head(stream))
  PROVE  /\ Head(stream) \in Kinds /\ stream' \in Seq(Kinds) /\ Len(stream') <= Depth
         /\ HasEnd' => HasEnd
         /\ HasEnd => HasEnd' \/ Head(stream) \in Ends
         /\ \A s : s # "nothing" /\ WillTell(s) => WillTell(s)'
<1>1. /\ stream' \in Seq(Kinds) /\ Head(stream) = stream[1] /\ stream[1] \in Kinds
      /\ Len(stream) \in Nat \ {0} /\ Len(stream') = Len(stream) - 1
      /\ \A i \in 1 .. Len(stream') : stream'[i] = stream[i + 1]
  <2>1. stream \in Seq(Kinds)
    BY DEF FeedTypeOK
  <2> QED BY <2>1, TailFacts
<1>2. Len(stream') <= Depth
  BY <1>1, FeedAssumption DEF FeedTypeOK
<1>3. \A i \in 2 .. Len(stream) : i - 1 \in 1 .. Len(stream') /\ stream'[i - 1] = stream[i]
  <2> TAKE i \in 2 .. Len(stream)
  <2>1. i - 1 \in 1 .. Len(stream') /\ (i - 1) + 1 = i
    BY <1>1
  <2> QED BY <1>1, <2>1
<1>4. HasEnd' => HasEnd
  <2> SUFFICES ASSUME NEW i \in 1 .. Len(stream'), stream'[i] \in Ends PROVE HasEnd
    BY DEF HasEnd
  <2>1. i + 1 \in 1 .. Len(stream) /\ stream[i + 1] \in Ends
    BY <1>1
  <2> QED BY <2>1 DEF HasEnd
<1>6. HasEnd => HasEnd' \/ Head(stream) \in Ends
  <2> SUFFICES ASSUME NEW i \in 1 .. Len(stream), stream[i] \in Ends, stream[1] \notin Ends
               PROVE  HasEnd'
    BY <1>1 DEF HasEnd
  <2>1. i \in 2 .. Len(stream)
    BY <1>1
  <2> QED BY <1>3, <2>1 DEF HasEnd
<1>7. ASSUME NEW s, s # "nothing", WillTell(s) PROVE WillTell(s)'
  <2>2. \A i \in Nat \ {0} : QuietFrom(i + 1) => QuietFrom(i)'
    <3> SUFFICES ASSUME NEW i \in Nat \ {0}, QuietFrom(i + 1), NEW j \in i .. Len(stream')
                 PROVE  Tells(stream'[j]) = "nothing"
      BY DEF QuietFrom
    <3>1. j + 1 \in i + 1 .. Len(stream) /\ j \in 1 .. Len(stream')
      BY <1>1
    <3> QED BY <1>1, <3>1 DEF QuietFrom
  <2>3. CASE Shows(s) /\ QuietFrom(1)
    <3>1. Tells(stream[1]) = "nothing" /\ QuietFrom(1 + 1)
      BY <1>1, <2>3 DEF QuietFrom
    <3>2. QuietFrom(1)'
      BY <2>2, <3>1
    <3>3. Shows(s)'
      BY <1>1, <2>3, <3>1, PassesFacts
    <3> QED BY <3>2, <3>3 DEF WillTell
  <2>4. ASSUME NEW i \in 1 .. Len(stream), Tells(stream[i]) = s, QuietFrom(i + 1)
        PROVE  WillTell(s)'
    <3>1. CASE i = 1
      <4>1. QuietFrom(1)'
        BY <2>2, <2>4, <3>1
      <4>2. Shows(s)'
        BY <1>1, <1>7, <2>4, <3>1, PassesFacts
      <4> QED BY <4>1, <4>2 DEF WillTell
    <3>2. CASE i # 1
      <4>1. i - 1 \in 1 .. Len(stream') /\ stream'[i - 1] = stream[i] /\ (i - 1) + 1 = i
        BY <1>3, <3>2
      <4>2. QuietFrom((i - 1) + 1)'
        BY <2>2, <2>4, <4>1
      <4> QED BY <2>4, <4>1, <4>2 DEF WillTell
    <3> QED BY <3>1, <3>2
  <2> QED BY <1>7, <2>3, <2>4 DEF WillTell
<1> QED BY <1>1, <1>2, <1>4, <1>6, <1>7
-------------------------------------------------------------------------------
(* The events of a start fit into the stream.                               *)
LEMMA FeedTypeInit == FeedInit => FeedTypeOK /\ \A i \in 1 .. Len(stream) : stream[i] = "note"
<1> HAVE FeedInit
<1>1. "note" \in Kinds
  BY DEF Kinds
<1>2. ASSUME NEW s \in Starts
      PROVE  s \in Seq(Kinds) /\ Len(s) \in 3 .. 5 /\ \A i \in 1 .. Len(s) : s[i] = "note"
  <2>1. CASE s = <<"note", "note", "note">>
    BY <1>1, <2>1
  <2>2. CASE s = <<"note", "note", "note", "note">>
    BY <1>1, <2>2
  <2>3. CASE s = <<"note", "note", "note", "note", "note">>
    BY <1>1, <2>3
  <2> QED BY <1>2, <2>1, <2>2, <2>3 DEF Starts
<1>3. stream \in Starts
  BY DEF FeedInit
<1> HIDE DEF Starts
<1>4. /\ stream \in Seq(Kinds) /\ Len(stream) <= Depth
      /\ \A i \in 1 .. Len(stream) : stream[i] = "note"
  BY <1>2, <1>3, FeedAssumption
<1> QED BY <1>4 DEF FeedInit, FeedTypeOK

(* The reader of a session that has just started shows it active.           *)
LEMMA FeedInitial == FeedInit => FeedInv
<1> HAVE FeedInit
<1>1. FeedTypeOK
  BY FeedTypeInit
<1>2. \A i \in 1 .. Len(stream) : stream[i] = "note"
  BY FeedTypeInit
<1>3. ~HasEnd
  BY <1>2 DEF HasEnd, Ends
<1>4. WillTell("active")
  <2>1. QuietFrom(1)
    BY <1>2, TellsFacts DEF QuietFrom
  <2>2. Shows("active")
    BY DEF FeedInit, Shows
  <2> QED BY <2>1, <2>2 DEF WillTell
<1>5. /\ session.st = "active" /\ ~session.stop /\ ~session.redial /\ session.owes = "nothing"
      /\ ~session.leaving /\ session.kept /\ reader = "reading"
  BY DEF FeedInit
<1>6. SessionSound
  BY <1>3, <1>5, TellsFacts DEF SessionSound
<1>7. ReaderSound
  BY <1>4, <1>5, TellsFacts DEF ReaderSound, ToTell
<1> QED BY <1>1, <1>6, <1>7 DEF FeedInv

(* Each step of a session keeps the types ...                               *)
LEMMA FeedTypeNext == FeedTypeOK /\ [FeedNext]_feedVars => FeedTypeOK'
<1> SUFFICES ASSUME FeedTypeOK, [FeedNext]_feedVars PROVE FeedTypeOK' OBVIOUS
<1> DEFINE SessionSet == [st : {"active", "suspended", "ended"}, stop : BOOLEAN, loop : BOOLEAN,
                          redial : BOOLEAN, owes : {"nothing"} \cup Kinds, leaving : BOOLEAN,
                          kept : BOOLEAN, lease : BOOLEAN]
           ToldSet == [st : {"active", "suspended", "ended"}, control : BOOLEAN]
           StreamOK == stream \in Seq(Kinds) /\ Len(stream) <= Depth /\ missed \in BOOLEAN
           Rest == who \in Readers /\ reader \in {"reading", "left"} /\ emitted \in Nat
<1>0. session \in SessionSet /\ told \in ToldSet /\ StreamOK /\ Rest
  BY DEF FeedTypeOK
<1>1. session' \in SessionSet /\ told' \in ToldSet /\ StreamOK' /\ Rest' => FeedTypeOK'
  BY DEF FeedTypeOK
<1>2. \A e \in Kinds : Emit(e) => StreamOK'
  BY EmitType
<1>3. Silent => StreamOK'
  BY <1>0 DEF Silent
<1>4. stream' = <<>> /\ missed' = missed => StreamOK'
  BY <1>0, FeedAssumption
<1>5. stream # <<>> /\ stream' = Tail(stream) /\ missed' = missed => StreamOK'
  BY <1>0, TailFacts, FeedAssumption
<1>6. \A e : Passes(e) => told' \in ToldSet
  BY PassesFacts
<1>7. {"note", "SessionEnded", "Disconnected", "Suspended", "Resumed", "LeaseGranted", "LeaseEnded"}
        \subseteq Kinds
  BY DEF Kinds, Ends, Leases
<1>8. Keeps => told' \in ToldSet /\ who' \in Readers /\ reader' \in {"reading", "left"}
  BY <1>0 DEF Keeps
<1>9. Counted \/ emitted' = emitted => emitted' \in Nat
  BY <1>0 DEF Counted
<1> HIDE DEF StreamOK, ToldSet
<1>10. CASE Notes
  BY <1>0, <1>1, <1>2, <1>7, <1>8, <1>9, <1>10 DEF Notes
<1>11. CASE Owed
  <2>1. session' \in SessionSet /\ session.owes \in Kinds
    BY <1>0, <1>7, <1>11 DEF Owed, Goes
  <2>2. StreamOK'
    BY <1>2, <1>11, <2>1 DEF Owed
  <2> QED BY <1>0, <1>1, <1>8, <1>9, <1>11, <2>1, <2>2 DEF Owed
<1>12. CASE Suspends
  BY <1>0, <1>1, <1>3, <1>7, <1>8, <1>9, <1>12 DEF Suspends, Goes
<1>13. CASE Resumes
  BY <1>0, <1>1, <1>3, <1>7, <1>8, <1>9, <1>13 DEF Resumes, Goes
<1>14. CASE RedialFails
  BY <1>0, <1>1, <1>3, <1>7, <1>8, <1>9, <1>14 DEF RedialFails, Goes
<1>15. CASE ByeArrives
  BY <1>0, <1>1, <1>3, <1>7, <1>8, <1>9, <1>15 DEF ByeArrives, Goes
<1>16. CASE Grants
  BY <1>0, <1>1, <1>3, <1>7, <1>8, <1>9, <1>16 DEF Grants, Goes
<1>17. CASE Refuses
  <2>1. \/ session' = [session EXCEPT !.owes = "LeaseEnded"]
        \/ session' = [session EXCEPT !.owes = "LeaseEnded", !.lease = FALSE]
    BY <1>17 DEF Refuses, Goes
  <2>2. session' \in SessionSet
    BY <1>0, <1>7, <2>1
  <2> QED BY <1>0, <1>1, <1>3, <1>8, <1>9, <1>17, <2>2 DEF Refuses
<1>18. CASE Lapses \/ Breaks
  BY <1>0, <1>1, <1>3, <1>8, <1>9, <1>18 DEF Lapses, Breaks, Goes
<1>26. CASE PeerEnds
  BY <1>0, <1>1, <1>3, <1>7, <1>8, <1>9, <1>26 DEF PeerEnds, Goes
<1>19. CASE Stops
  BY <1>0, <1>1, <1>3, <1>7, <1>8, <1>9, <1>19 DEF Stops, Goes
<1>20. CASE StopTells
  BY <1>0, <1>1, <1>2, <1>7, <1>8, <1>9, <1>20 DEF StopTells, Goes
<1>21. CASE LoopQuits \/ Drops
  BY <1>0, <1>1, <1>3, <1>8, <1>9, <1>21 DEF LoopQuits, Drops, Goes
<1>22. CASE ReadsToTheEnd
  BY <1>0, <1>1, <1>4, <1>5, <1>6, <1>22 DEF ReadsToTheEnd, Reads
<1>23. CASE ViewerCloses
  BY <1>0, <1>1, <1>3, <1>23 DEF ViewerCloses, Reads, Silent
<1>24. CASE StopPressed
  <2>1. session' \in SessionSet
    BY <1>0, <1>24 DEF StopPressed
  <2>2. told' \in ToldSet
    BY <1>0, <1>24 DEF StopPressed, ToldSet
  <2> QED BY <1>0, <1>1, <1>4, <1>24, <2>1, <2>2 DEF StopPressed
<1>25. CASE UNCHANGED feedVars
  BY <1>0, <1>1, <1>3, <1>25 DEF feedVars, Silent
<1> QED
  BY <1>10, <1>11, <1>12, <1>13, <1>14, <1>15, <1>16, <1>17, <1>18, <1>19, <1>20, <1>21, <1>22,
     <1>23, <1>24, <1>25, <1>26
  DEF FeedNext, SessionSteps, ReaderSteps, ViewerReads, ShareReads, HeadlessReads

(* A step of a session that emits nothing: what is in the stream stays.     *)
LEMMA SilentFacts ==
  ASSUME FeedInv, Silent, Keeps
  PROVE  /\ reader' = reader /\ told' = told /\ who' = who /\ missed' = missed
         /\ HasEnd' <=> HasEnd
         /\ \A s : WillTell(s) <=> WillTell(s)'
BY StreamSame DEF Silent, Keeps

(* ... and both parts of the invariant.                                     *)
LEMMA FeedSoundNext == FeedInv /\ [FeedNext]_feedVars => (SessionSound /\ ReaderSound)'
<1> SUFFICES ASSUME FeedInv, [FeedNext]_feedVars PROVE (SessionSound /\ ReaderSound)' OBVIOUS
<1> DEFINE SessionSet == [st : {"active", "suspended", "ended"}, stop : BOOLEAN, loop : BOOLEAN,
                          redial : BOOLEAN, owes : {"nothing"} \cup Kinds, leaving : BOOLEAN,
                          kept : BOOLEAN, lease : BOOLEAN]
<1>0. FeedTypeOK /\ session \in SessionSet /\ SessionSound /\ ReaderSound
  BY DEF FeedInv, FeedTypeOK
<1>1. {"note", "SessionEnded", "Disconnected", "Suspended", "Resumed", "LeaseGranted", "LeaseEnded"}
        \subseteq Kinds
  BY DEF Kinds, Ends, Leases
<1>2. /\ {"LeaseGranted", "LeaseEnded"} \subseteq Leases
      /\ {"SessionEnded", "Disconnected"} \subseteq Ends
  BY DEF Leases, Ends
<1>3. {"note", "Suspended", "Resumed", "LeaseGranted", "LeaseEnded", "nothing"} \cap Ends = {}
  BY DEF Ends
<1>4. reader \in {"reading", "left"}
  BY <1>0 DEF FeedTypeOK
<1> USE DEF SessionSound, ReaderSound, ToEnd, ToTell
<1>10. CASE Notes
  <2>1. /\ session' = session /\ who' = who /\ reader' = reader /\ told' = told
        /\ Emit("note") /\ Keeps
    BY <1>10 DEF Notes, Keeps
  <2>2. CASE reader = "left"
    BY <1>0, <2>1, <2>2, StreamSame DEF Emit
  <2>3. CASE reader = "reading"
    <3>1. /\ HasEnd' <=> HasEnd
          /\ missed' = missed /\ \A s : WillTell(s) => WillTell(s)'
      BY <1>0, <1>1, <1>3, <2>1, <2>3, EmitFacts, TellsFacts
    <3> QED BY <1>0, <2>1, <2>3, <3>1
  <2> QED BY <1>4, <2>2, <2>3
<1>11. CASE Owed
  <2> DEFINE e == session.owes
  <2>1. /\ session.owes # "nothing" /\ e \in Kinds /\ Emit(e) /\ Keeps
        /\ who' = who /\ reader' = reader /\ told' = told
        /\ session' = [session EXCEPT !.owes = IF @ = "Disconnected" THEN "SessionEnded"
                                               ELSE "nothing"]
    BY <1>0, <1>11 DEF Owed, Goes, Keeps
  <2>2. /\ session'.st = session.st /\ session'.stop = session.stop /\ session'.loop = session.loop
        /\ session'.redial = session.redial /\ session'.leaving = session.leaving
        /\ session'.kept = session.kept
        /\ session'.owes \in {"SessionEnded", "nothing"}
        /\ session'.owes = "SessionEnded" => session.owes = "Disconnected"
    BY <1>0, <2>1
  <2>3. session.kept
    BY <1>0, <2>1
  <2>4. e \in Ends \/ HasEnd => session.st = "ended"
    BY <1>0
  <2>5. CASE reader = "left"
    <3>1. missed' = missed /\ (HasEnd' <=> HasEnd)
      BY <2>1, <2>5, StreamSame DEF Emit
    <3> QED BY <1>0, <1>2, <2>1, <2>2, <2>3, <2>4, <2>5, <3>1
  <2>6. CASE reader = "reading"
    <3>1. /\ HasEnd' => HasEnd \/ e \in Ends
          /\ HasEnd => HasEnd'
          /\ e \in Ends /\ ~missed' => HasEnd'
          /\ session.st = "ended" /\ e \notin Ends /\ ~missed' => ~missed
          /\ Tells(e) = "nothing" => missed' = missed /\ \A s : WillTell(s) => WillTell(s)'
          /\ \A s : s = Tells(e) /\ s # "nothing" /\ ~missed' => WillTell(s)'
      BY <1>0, <2>1, <2>6, EmitFacts
    <3>2. SessionSound'
      <4>1. HasEnd' => session'.st = "ended"
        BY <2>2, <2>4, <3>1
      <4>2. session'.owes \in Ends => session.st = "ended"
        BY <1>2, <1>3, <2>2, <2>4
      <4>3. session'.owes # "Suspended" /\ session'.owes # "Resumed"
        BY <2>2
      <4> QED BY <1>0, <2>1, <2>2, <2>3, <4>1, <4>2, <4>3
    <3>3. session.st # "ended" => Tells(e) \in {"nothing", session.st} /\ session'.owes = "nothing"
      BY <1>0, <1>2, <2>2, <2>4, TellsFacts
    <3>4. session.st # "ended" /\ ~missed' => WillTell(session.st)'
      <4> SUFFICES ASSUME session.st # "ended", ~missed' PROVE WillTell(session.st)'
        OBVIOUS
      <4>0. session.st # "nothing"
        BY <1>0
      <4>1. CASE Tells(e) = "nothing"
        BY <1>0, <2>2, <2>6, <3>1, <4>0, <4>1
      <4>2. CASE Tells(e) = session.st
        BY <2>2, <3>1, <4>0, <4>2
      <4> QED BY <3>3, <4>1, <4>2
    <3>5. session.st = "ended" /\ ~missed' => ToEnd'
      BY <1>0, <2>2, <2>6, <3>1
    <3> QED BY <2>1, <2>2, <2>6, <3>2, <3>3, <3>4, <3>5, TellsFacts
  <2> QED BY <1>4, <2>5, <2>6
<1>12. CASE Suspends
  BY <1>0, <1>2, <1>3, <1>12, SilentFacts, TellsFacts DEF Suspends, Free, Goes
<1>13. CASE Resumes
  <2>1. Silent /\ Keeps /\ session.redial /\ session.owes = "nothing"
    BY <1>13 DEF Resumes
  <2>2. /\ session'.redial = FALSE /\ session'.owes = "Resumed" /\ session'.stop = session.stop
        /\ session'.loop = session.loop /\ session'.leaving = session.leaving
        /\ session'.kept = session.kept
        /\ session'.st = IF session.st = "suspended" THEN "active" ELSE session.st
    BY <1>0, <1>13 DEF Resumes, Goes
  <2> QED BY <1>0, <1>3, <2>1, <2>2, SilentFacts, TellsFacts
<1>14. CASE RedialFails
  <2>1. Silent /\ Keeps /\ session.redial /\ session.owes = "nothing"
    BY <1>14 DEF RedialFails
  <2>2. /\ session'.redial = FALSE /\ session'.stop /\ session'.st = "ended"
        /\ session'.leaving = session.leaving /\ session'.kept = session.kept
        /\ session'.owes = IF session.st = "suspended" THEN "SessionEnded" ELSE "nothing"
    BY <1>0, <1>14, <2>1 DEF RedialFails, Goes
  <2> QED BY <1>0, <1>2, <1>3, <2>1, <2>2, SilentFacts
<1>15. CASE ByeArrives
  BY <1>0, <1>2, <1>3, <1>15, SilentFacts DEF ByeArrives, Free, Goes
<1>16. CASE Grants
  BY <1>0, <1>2, <1>3, <1>16, SilentFacts, TellsFacts DEF Grants, Free, Goes
<1>17. CASE Refuses
  <2>1. Silent /\ Keeps /\ Free
    BY <1>17 DEF Refuses
  <2>2. \/ session' = [session EXCEPT !.owes = "LeaseEnded"]
        \/ session' = [session EXCEPT !.owes = "LeaseEnded", !.lease = FALSE]
    BY <1>17 DEF Refuses, Goes
  <2>3. /\ session'.redial = session.redial /\ session'.owes = "LeaseEnded"
        /\ session'.stop = session.stop /\ session'.st = session.st
        /\ session'.loop = session.loop /\ session'.leaving = session.leaving
        /\ session'.kept = session.kept
    BY <1>0, <2>2
  <2> QED BY <1>0, <1>2, <1>3, <2>1, <2>3, SilentFacts, TellsFacts DEF Free
<1>18. CASE Lapses \/ Breaks
  BY <1>0, <1>18, SilentFacts DEF Lapses, Breaks, Free, Goes, Hosts
<1>19. CASE PeerEnds
  BY <1>0, <1>2, <1>3, <1>19, SilentFacts DEF PeerEnds, Free, Goes, Hosts
<1>20. CASE Stops
  <2>1. Silent /\ Keeps /\ ~session.stop
    BY <1>20 DEF Stops
  <2>2. /\ session'.redial = session.redial /\ session'.owes = session.owes
        /\ session'.stop /\ session'.st = "ended" /\ session'.leaving
        /\ session'.loop = session.loop /\ session'.kept = session.kept
    BY <1>0, <1>20 DEF Stops, Goes
  <2> QED BY <1>0, <2>1, <2>2, SilentFacts
<1>21. CASE StopTells
  <2>1. /\ session.leaving /\ Emit("SessionEnded") /\ Keeps
        /\ who' = who /\ reader' = reader /\ told' = told
    BY <1>21 DEF StopTells, Keeps
  <2>2. /\ session'.redial = session.redial /\ session'.owes = session.owes
        /\ session'.stop = session.stop /\ session'.st = session.st /\ ~session'.leaving
        /\ session'.loop = session.loop /\ session'.kept = session.kept
    BY <1>0, <1>21 DEF StopTells, Goes
  <2>3. CASE reader = "left"
    BY <1>0, <2>1, <2>2, <2>3, StreamSame DEF Emit
  <2>4. CASE reader = "reading"
    BY <1>0, <1>1, <1>2, <2>1, <2>2, <2>4, EmitFacts
  <2> QED BY <1>4, <2>3, <2>4
<1>22. CASE LoopQuits
  BY <1>0, <1>3, <1>22, SilentFacts, TellsFacts DEF LoopQuits, Goes
<1>23. CASE Drops
  BY <1>0, <1>23, SilentFacts DEF Drops, Goes
<1>24. CASE ReadsToTheEnd
  <2> DEFINE e == Head(stream)
  <2>1. who' = who /\ session' = session /\ missed' = missed /\ reader = "reading" /\ Passes(e)
    BY <1>24 DEF ReadsToTheEnd, Reads
  <2>2. CASE e \in Ends
    <3>1. reader' = "left" /\ stream' = <<>>
      BY <1>24, <2>2 DEF ReadsToTheEnd
    <3>2. ~HasEnd'
      BY <3>1 DEF HasEnd
    <3>3. Shows("ended")'
      BY <1>0, <2>1, <2>2, TellsFacts, PassesFacts
    <3>4. HasEnd
      <4>1. stream \in Seq(Kinds) /\ stream # <<>>
        BY <1>0, <1>24 DEF FeedTypeOK, ReadsToTheEnd
      <4>2. 1 \in 1 .. Len(stream) /\ stream[1] = e
        BY <4>1, TailFacts
      <4> QED BY <2>2, <4>2 DEF HasEnd
    <3> QED BY <1>0, <2>1, <3>1, <3>2, <3>3, <3>4 DEF Shows
  <2>3. CASE e \notin Ends
    <3>1. reader' = reader /\ stream' = Tail(stream) /\ stream # <<>>
      BY <1>24, <2>3 DEF ReadsToTheEnd
    <3>2. /\ HasEnd' <=> HasEnd
          /\ \A s : s # "nothing" /\ WillTell(s) => WillTell(s)'
      BY <1>0, <2>1, <2>3, <3>1, ReadFacts
    <3>3. session.st # "nothing"
      BY <1>0
    <3> QED BY <1>0, <2>1, <3>1, <3>2, <3>3
  <2> QED BY <2>2, <2>3
<1>25. CASE ViewerCloses
  <2>1. ~HasEnd
    BY <1>25 DEF ViewerCloses, HasEnd
  <2>2. /\ stream' = stream /\ told' = told /\ session' = session /\ missed' = missed /\ who' = who
        /\ reader' = "left" /\ reader = "reading" /\ ~session.kept
    BY <1>25 DEF ViewerCloses, Reads
  <2> QED BY <1>0, <1>3, <2>1, <2>2, StreamSame
<1>26. CASE StopPressed
  <2>1. /\ session'.st = "ended" /\ session'.stop /\ who \in Hosts /\ who' = who
        /\ reader' = "left" /\ stream' = <<>>
        /\ session'.redial = session.redial /\ session'.kept = session.kept
        /\ session'.owes = session.owes /\ session'.loop = session.loop
        /\ session'.leaving = session.leaving
    BY <1>0, <1>26 DEF StopPressed
  <2>2. told'.st = "ended"
    BY <1>0, <1>26 DEF StopPressed, FeedTypeOK
  <2>3. ~HasEnd'
    BY <2>1 DEF HasEnd
  <2>4. who # "viewer"
    BY <2>1 DEF Hosts
  <2> QED BY <1>0, <2>1, <2>2, <2>3, <2>4
<1>27. CASE UNCHANGED feedVars
  BY <1>0, <1>27, StreamSame DEF feedVars
<1> QED
  BY <1>10, <1>11, <1>12, <1>13, <1>14, <1>15, <1>16, <1>17, <1>18, <1>19, <1>20, <1>21, <1>22,
     <1>23, <1>24, <1>25, <1>26, <1>27
  DEF FeedNext, SessionSteps, ReaderSteps, ViewerReads, ShareReads, HeadlessReads
-------------------------------------------------------------------------------
(* The invariant holds of the event stream alone, for every depth from      *)
(* five up.                                                                 *)
THEOREM FeedInvariance == FeedInit /\ [][FeedNext]_feedVars => []FeedInv
<1>1. FeedInv /\ [FeedNext]_feedVars => FeedInv'
  BY FeedTypeNext, FeedSoundNext DEF FeedInv
<1> QED BY <1>1, FeedInitial, PTL

(* The session's flags, the stream, the reader and what it shows keep their *)
(* types.                                                                   *)
THEOREM FeedTypeCorrect == FeedSpec => []FeedTypeOK
<1>1. FeedInv => FeedTypeOK
  BY DEF FeedInv
<1> QED BY <1>1, FeedInvariance, PTL DEF FeedSpec

(* With nothing left to read, what was to be told is what is shown.         *)
LEMMA FeedImplies == FeedInv => WindowTellsWhatIs
<1> SUFFICES ASSUME FeedInv, stream = <<>>, ~missed, Settled
             PROVE  told.st = session.st
  BY DEF WindowTellsWhatIs
<1>0. SessionSound /\ ReaderSound /\ reader \in {"reading", "left"} /\ session.st # "nothing"
  BY DEF FeedInv, FeedTypeOK
<1>1. ~HasEnd
  BY DEF HasEnd
<1>2. \A s : WillTell(s) => told.st = s
  BY DEF WillTell, Shows
<1>3. ~session.leaving /\ Tells(session.owes) = "nothing" /\ session.owes \notin Ends
  BY TellsFacts DEF Settled
<1> QED BY <1>0, <1>1, <1>2, <1>3 DEF ReaderSound, ToEnd, ToTell

(* For every depth of the broadcast: a reader with an empty stream, that    *)
(* missed nothing, shows the state the session is in.                       *)
THEOREM WindowTellsTheTruth == FeedSpec => []WindowTellsWhatIs
BY FeedInvariance, FeedImplies, PTL DEF FeedSpec

-------------------------------------------------------------------------------
(* A step of the composition is a step of each part or leaves it alone.     *)
LEMMA EachPartSteps ==
  [SessionsNext]_sessionVars => [Next]_vars /\ [ShareNext]_shareVars /\ [FeedNext]_feedVars
<1>1. Session(Next) => [Next]_vars /\ UNCHANGED shareVars /\ UNCHANGED feedVars
  BY DEF Session
<1>2. Share(ShareNext) => [ShareNext]_shareVars /\ UNCHANGED vars /\ UNCHANGED feedVars
  BY DEF Share
<1>3. Events(FeedNext) => [FeedNext]_feedVars /\ UNCHANGED vars /\ UNCHANGED shareVars
  BY DEF Events
<1>4. UNCHANGED sessionVars => UNCHANGED vars /\ UNCHANGED shareVars /\ UNCHANGED feedVars
  BY DEF sessionVars
<1> QED BY <1>1, <1>2, <1>3, <1>4 DEF SessionsNext

(* So the composition satisfies the specification of each part but for its  *)
(* fairness.                                                                *)
LEMMA EachPartRuns ==
  SessionsSpec => /\ Init /\ [][Next]_vars
                  /\ ShareInit /\ [][ShareNext]_shareVars
                  /\ FeedInit /\ [][FeedNext]_feedVars
<1>1. SessionsInit => Init /\ ShareInit /\ FeedInit
  BY DEF SessionsInit
<1> QED BY <1>1, EachPartSteps, PTL DEF SessionsSpec

(* However stops, Byes, disconnects, lost connections and full broadcasts   *)
(* interleave: an end is reported once, as what it was, and a window that   *)
(* has read everything shows the state its session is in.                   *)
THEOREM EndsAreShown == SessionsSpec => []EndIsShown
<1>1. LifecycleInv /\ FeedInv => EndIsShown
  BY LifecycleImplies, FeedImplies DEF EndIsShown
<1> QED BY <1>1, EachPartRuns, LifecycleInvariance, FeedInvariance, PTL

(* Neither side of a session serves on the authorization of an earlier      *)
(* connection, in the composition too.                                      *)
THEOREM AuthorityIsNeverOld == SessionsSpec => []AuthorityIsCurrent
BY EachPartRuns, LifecycleInvariance, LifecycleImplies, PTL

(* The share loop of the composition serves whom the user allowed, and only *)
(* them.                                                                    *)
THEOREM OnlyAllowedIsServed == SessionsSpec => []AllowIsServed
BY EachPartRuns, ShareInvariance, ShareImplies, PTL

=============================================================================
