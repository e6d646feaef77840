---------------------------- MODULE KeepersProofs ----------------------------
(***************************************************************************)
(* Proofs about what has to be remembered: how often a signal is shown,    *)
(* that an id the viewer is sent names the shape the host means, what is   *)
(* left down at the host and under which modifiers a key is struck, and    *)
(* what leaves the encoder.                                                *)
(*                                                                         *)
(* Of the signal the invariant dates the last showing: it fits in the time *)
(* a copy can be shown at all, all the showings before it fit in before    *)
(* it, and it is remembered for the longest age. It holds for any two      *)
(* clocks and any time a read may take, which the bound counts in.         *)
(*                                                                         *)
(* Of the cursor it says that the messages still on their way take the     *)
(* cache of the viewer to what the host has recorded of it, one state of   *)
(* the cache for each message.                                             *)
(*                                                                         *)
(* Of the input it says what each step between the gate and the dispatch,  *)
(* and between the revoke and the flush, can find: a lease that can only   *)
(* end, and nothing down once its end was flushed. For the modifiers under *)
(* which a key is struck it says more: the envelopes on the way take what  *)
(* is down at the host to what the page holds, one set of keys for each    *)
(* envelope. That part has hypotheses: commands reach the stream in the    *)
(* order they were invoked, there are Shift, Ctrl and Cmd, and the right   *)
(* Shift is no modifier of its own.                                        *)
(*                                                                         *)
(* Of the encoder it says where it counts in its group of pictures, that   *)
(* it owes a key frame as long as the last frame forwarded is of another   *)
(* size, and that it runs at the bitrate the pump applied.                 *)
(***************************************************************************)
EXTENDS MCKeepers, SequenceTheorems, FiniteSetTheorems, TLAPS

(* A connection that is open, and what the guard keeps of a signal.         *)
Open == [at : {"reading", "acked", "done"}, of : Signals, from : Nat, mine : BOOLEAN]
Entry == [tag : Signals, until : Int]

(* The times: a connection is not open longer than a read may take, and     *)
(* what it has acknowledged was fresh when it opened.                       *)
Times ==
  /\ now \in Nat /\ guard \subseteq Entry
  /\ issued \in [Signals -> Int]
  /\ conn \in [Conns -> {Idle} \cup Open]
  /\ surfaced \in [Signals -> Nat] /\ before \in [Signals -> Nat]

Timely ==
  \A c \in Conns : conn[c].at \in {"reading", "acked"} =>
    /\ conn[c] \in Open
    /\ conn[c].from <= now /\ now <= conn[c].from + SlowRead
    /\ issued[conn[c].of] # Unsent
    /\ conn[c].at = "acked" => Fresh(conn[c].of, conn[c].from)

(* A signal was last shown at time t: within the time it can be shown at    *)
(* all, so late that the showings before it fit in, and remembered since.   *)
Showings(s) == surfaced[s] - before[s]
LastShown(s, t) ==
  /\ t <= issued[s] + MaxAge + SlowRead /\ t <= now
  /\ (Showings(s) - 1) * (MaxAge + 1) <= t - issued[s] + MaxAge
  /\ now <= t + MaxAge => \E e \in guard : e.tag = s /\ e.until >= t + MaxAge

Remembered ==
  \A s \in Signals : Showings(s) # 0 =>
    Showings(s) \in Nat /\ issued[s] # Unsent /\ \E t \in Int : LastShown(s, t)

SignalInv == Times /\ Timely /\ Remembered

(* Nothing is on its way, nothing was shown.                                *)
LEMMA SignalInitial == SignalInit => SignalInv
BY SignalAssumption
   DEF SignalInit, SignalInv, Times, Timely, Remembered, Showings, Idle, Unsent

(* A record of a connection keeps its fields when it moves on.              *)
LEMMA OpenMoves ==
  ASSUME NEW r \in Open, NEW to \in {"acked", "done"}
  PROVE  /\ [r EXCEPT !.at = to] \in Open /\ [r EXCEPT !.at = to].at = to
         /\ [r EXCEPT !.at = to].of = r.of /\ [r EXCEPT !.at = to].from = r.from
BY DEF Open

(* What Opens makes of a connection.                                        *)
NewConn(s, n, mine) == [at |-> "reading", of |-> s, from |-> n, mine |-> mine]

(* A connection starts with its bytes still to be read.                     *)
LEMMA OpensAs ==
  ASSUME NEW s \in Signals, NEW n \in Nat, NEW mine \in BOOLEAN
  PROVE  /\ NewConn(s, n, mine) \in Open
         /\ NewConn(s, n, mine).of = s /\ NewConn(s, n, mine).from = n
         /\ NewConn(s, n, mine).at = "reading"
BY DEF Open, NewConn

(* What was shown stays remembered while the guard stays as it is.          *)
LEMMA StillRemembered ==
  ASSUME Times, Remembered, now' \in Nat, now <= now', UNCHANGED <<guard, surfaced, before>>,
         \A s \in Signals : issued[s] # Unsent => issued'[s] = issued[s]
  PROVE  Remembered'
<1> SUFFICES ASSUME NEW s \in Signals, Showings(s)' # 0
             PROVE  /\ Showings(s)' \in Nat /\ issued'[s] # Unsent
                    /\ \E t \in Int : LastShown(s, t)'
  BY DEF Remembered
<1>1. Showings(s)' = Showings(s)
  BY DEF Showings
<1>2. Showings(s) \in Nat /\ issued[s] # Unsent /\ issued'[s] = issued[s]
  BY <1>1 DEF Remembered
<1>3. PICK t \in Int : LastShown(s, t)
  BY <1>1 DEF Remembered
<1>4. LastShown(s, t)'
  <2>1. now' <= t + MaxAge => now <= t + MaxAge
    BY SignalAssumption DEF Times
  <2>2. t <= now'
    BY <1>3 DEF Times, LastShown
  <2> QED BY <1>1, <1>2, <1>3, <2>1, <2>2 DEF LastShown
<1> QED BY <1>1, <1>2, <1>4

(* A connection that opens for a signal that was sent is in time.           *)
LEMMA OpensTimely ==
  ASSUME Times, Timely, NEW s \in Signals, NEW c \in Conns, NEW mine \in BOOLEAN,
         conn' = [conn EXCEPT ![c] = NewConn(s, now, mine)], now' = now,
         issued' \in [Signals -> Int], issued'[s] # Unsent,
         \A z \in Signals : issued[z] # Unsent => issued'[z] = issued[z]
  PROVE  Timely' /\ conn' \in [Conns -> {Idle} \cup Open]
<1> DEFINE r == NewConn(s, now, mine)
<1>1. r \in Open /\ r.of = s /\ r.from = now /\ r.at = "reading"
  BY OpensAs DEF Times
<1>2. conn' = [conn EXCEPT ![c] = r]
  OBVIOUS
<1> HIDE DEF r
<1>3. conn' \in [Conns -> {Idle} \cup Open]
  BY <1>1, <1>2 DEF Times
<1>4. ASSUME NEW d \in Conns, conn'[d].at \in {"reading", "acked"}
      PROVE  /\ conn'[d] \in Open
             /\ conn'[d].from <= now' /\ now' <= conn'[d].from + SlowRead
             /\ issued'[conn'[d].of] # Unsent
             /\ conn'[d].at = "acked" => Fresh(conn[d].of, conn[d].from)'
  <2>1. CASE d = c
    <3>1. conn'[d] = r
      BY <1>2, <2>1 DEF Times
    <3> QED BY <1>1, <3>1, SignalAssumption DEF Times
  <2>2. CASE d # c
    <3>1. conn'[d] = conn[d]
      BY <1>2, <2>2 DEF Times
    <3>2. conn[d] \in Open /\ issued[conn[d].of] # Unsent /\ conn[d].of \in Signals
      BY <1>4, <3>1 DEF Timely, Open
    <3> QED BY <1>4, <3>1, <3>2 DEF Timely, Fresh
  <2> QED BY <2>1, <2>2
<1> QED BY <1>3, <1>4 DEF Timely

(* The signal is sent by now by its own date, which is no Unsent.           *)
LEMMA Dated ==
  ASSUME Times, NEW s \in Signals, issued[s] = Unsent,
         issued' = [issued EXCEPT ![s] = now + Skew]
  PROVE  /\ issued' \in [Signals -> Int] /\ issued'[s] # Unsent
         /\ \A z \in Signals : issued[z] # Unsent => issued'[z] = issued[z]
BY SignalAssumption DEF Times, Unsent

(* Every step of senders, receiver and clock keeps the invariant; the step  *)
(* that matters is CheckAndRemember.                                        *)
LEMMA SignalNextInv ==
  ASSUME SignalInv, [SignalNext]_signalVars PROVE SignalInv'
<1>0. Idle.at = "idle" /\ Idle \notin Open
  BY DEF Idle, Open
<1>a. Times /\ Timely /\ Remembered
  BY DEF SignalInv
<1>b. now \in Nat
  BY <1>a DEF Times
<1>1. ASSUME NEW s \in Signals, NEW c \in Conns, Send(s, c) PROVE SignalInv'
  <2>1. conn' = [conn EXCEPT ![c] = NewConn(s, now, TRUE)] /\ UNCHANGED <<now, guard, surfaced, before>>
        /\ issued[s] = Unsent /\ issued' = [issued EXCEPT ![s] = now + Skew]
    BY <1>1 DEF Send, Opens, NewConn
  <2>2. /\ issued' \in [Signals -> Int] /\ issued'[s] # Unsent
        /\ \A z \in Signals : issued[z] # Unsent => issued'[z] = issued[z]
    BY <1>a, <2>1, Dated
  <2>3. Timely' /\ conn' \in [Conns -> {Idle} \cup Open]
    BY <1>a, <2>1, <2>2, OpensTimely
  <2>4. Remembered'
    BY <1>a, <1>b, <2>1, <2>2, StillRemembered
  <2>5. Times'
    BY <1>a, <2>1, <2>2, <2>3 DEF Times
  <2> QED BY <2>3, <2>4, <2>5 DEF SignalInv
<1>2. ASSUME NEW s \in Signals, NEW c \in Conns, ArrivesAgain(s, c) PROVE SignalInv'
  <2>1. conn' = [conn EXCEPT ![c] = NewConn(s, now, FALSE)] /\ issued[s] # Unsent
        /\ UNCHANGED <<issued, now, guard, surfaced, before>>
    BY <1>2 DEF ArrivesAgain, Opens, NewConn
  <2>2. issued' \in [Signals -> Int]
    BY <1>a, <2>1 DEF Times
  <2>3. Timely' /\ conn' \in [Conns -> {Idle} \cup Open]
    BY <1>a, <2>1, <2>2, OpensTimely
  <2>4. Remembered'
    BY <1>a, <1>b, <2>1, StillRemembered
  <2>5. Times'
    BY <1>a, <2>1, <2>3 DEF Times
  <2> QED BY <2>3, <2>4, <2>5 DEF SignalInv
<1>3. ASSUME NEW s \in Signals, DialFails(s) PROVE SignalInv'
  <2>1. issued[s] = Unsent /\ issued' = [issued EXCEPT ![s] = now + Skew]
        /\ UNCHANGED <<now, conn, guard, surfaced, before>>
    BY <1>3 DEF DialFails
  <2>2. /\ issued' \in [Signals -> Int]
        /\ \A z \in Signals : issued[z] # Unsent => issued'[z] = issued[z]
    BY <1>a, <2>1, Dated
  <2>3. Times'
    BY <1>a, <2>1, <2>2 DEF Times
  <2>4. Timely'
    BY <1>a, <2>1, <2>2 DEF Timely, Open, Fresh, Times, Unsent
  <2>5. Remembered'
    BY <1>a, <1>b, <2>1, <2>2, StillRemembered
  <2> QED BY <2>3, <2>4, <2>5 DEF SignalInv
<1>4. ASSUME NEW c \in Conns, Refuses(c) \/ ConnEnds(c) PROVE SignalInv'
  <2>1. conn' = [conn EXCEPT ![c] = Idle] /\ UNCHANGED <<issued, now, guard, surfaced, before>>
    BY <1>4 DEF Refuses, ConnEnds
  <2>2. Times' /\ Timely'
    BY <1>0, <1>a, <2>1 DEF Times, Timely, Fresh
  <2>3. Remembered'
    BY <1>a, <1>b, <2>1, StillRemembered
  <2> QED BY <2>2, <2>3 DEF SignalInv
<1>5. ASSUME NEW c \in Conns, NEW yes \in BOOLEAN, Accepts(c, yes) PROVE SignalInv'
  <2>1. conn[c].at = "reading" /\ Fresh(conn[c].of, conn[c].from)
        /\ conn' = [conn EXCEPT ![c] = IF yes THEN [conn[c] EXCEPT !.at = "acked"] ELSE Idle]
        /\ UNCHANGED <<issued, now, guard, surfaced, before>>
    BY <1>5 DEF Accepts
  <2>2. conn[c] \in Open
    BY <1>a, <2>1 DEF Timely
  <2> DEFINE q == conn[c]
             r == [q EXCEPT !.at = "acked"]
  <2>3. r \in Open /\ r.at = "acked" /\ r.of = q.of /\ r.from = q.from
    <3> HIDE DEF q
    <3>1. q \in Open
      BY <2>2 DEF q
    <3> QED BY <3>1, OpenMoves
  <2>4. conn' = [conn EXCEPT ![c] = IF yes THEN r ELSE Idle] /\ q = conn[c]
    BY <2>1
  <2> HIDE DEF q, r
  <2>5. Times'
    BY <1>a, <2>1, <2>3, <2>4 DEF Times
  <2>6. Timely'
    <3> SUFFICES ASSUME NEW d \in Conns, conn'[d].at \in {"reading", "acked"}
                 PROVE  /\ conn'[d] \in Open
                        /\ conn'[d].from <= now' /\ now' <= conn'[d].from + SlowRead
                        /\ issued'[conn'[d].of] # Unsent
                        /\ conn'[d].at = "acked" => Fresh(conn[d].of, conn[d].from)'
      BY DEF Timely
    <3>1. CASE d = c
      BY <1>0, <1>a, <2>1, <2>3, <2>4, <3>1 DEF Timely, Times, Fresh
    <3>2. CASE d # c
      BY <1>a, <2>1, <2>4, <3>2 DEF Timely, Times, Fresh
    <3> QED BY <3>1, <3>2
  <2>7. Remembered'
    BY <1>a, <1>b, <2>1, StillRemembered
  <2> QED BY <2>5, <2>6, <2>7 DEF SignalInv
<1>6. ASSUME NEW c \in Conns, CheckAndRemember(c) PROVE SignalInv'
  <2> DEFINE s == conn[c].of
             e == [tag |-> s, until |-> now + MaxAge]
             q == conn[c]
  <2>1. conn[c].at = "acked" /\ UNCHANGED <<now, issued, before>>
    BY <1>6 DEF CheckAndRemember
  <2>2. /\ conn[c] \in Open /\ s \in Signals /\ issued[s] # Unsent /\ issued[s] \in Int
        /\ now <= issued[s] + MaxAge + SlowRead /\ issued[s] - now <= MaxAge
    BY <1>a, <2>1, SignalAssumption DEF Timely, Times, Fresh, Open
  <2>3. PICK r \in {Idle} \cup Open : conn' = [conn EXCEPT ![c] = r] /\ r.at \in {"idle", "done"}
    <3>1. [q EXCEPT !.at = "done"] \in Open /\ [q EXCEPT !.at = "done"].at = "done"
      <4>1. q \in Open
        BY <2>2
      <4> HIDE DEF q
      <4> QED BY <4>1, OpenMoves
    <3>2. conn' = [conn EXCEPT ![c] = IF q.mine /\ told[s] = "waiting"
                                      THEN [q EXCEPT !.at = "done"] ELSE Idle]
      BY <1>6 DEF CheckAndRemember
    <3> HIDE DEF q, s
    <3>3. CASE q.mine /\ told[s] = "waiting"
      BY <3>1, <3>2, <3>3
    <3>4. CASE ~(q.mine /\ told[s] = "waiting")
      BY <1>0, <3>2, <3>4
    <3> QED BY <3>3, <3>4
  <2>4. e \in Entry /\ e.tag = s /\ e.until = now + MaxAge
    BY <1>b, <2>2, SignalAssumption DEF Entry
  <2>5. /\ IsNew(s) => guard' = Swept \cup {e} /\ surfaced' = [surfaced EXCEPT ![s] = @ + 1]
        /\ ~IsNew(s) => guard' = Swept /\ surfaced' = surfaced
    BY <1>6 DEF CheckAndRemember
  <2> HIDE DEF s, e, q
  <2>6. /\ Swept \subseteq guard /\ Swept \subseteq guard'
        /\ \A x \in guard : x.until >= now => x \in Swept
    BY <1>a, <2>5 DEF Swept, Entry, Times
  <2>7. Times'
    BY <1>a, <1>b, <2>1, <2>2, <2>3, <2>4, <2>5, <2>6 DEF Times
  <2>8. Timely'
    BY <1>a, <2>1, <2>3 DEF Timely, Times, Fresh
  <2>9. ASSUME NEW z \in Signals, Showings(z)' # 0
        PROVE  /\ Showings(z)' \in Nat /\ issued'[z] # Unsent
               /\ \E t \in Int : LastShown(z, t)'
    <3>0. MaxAge \in Nat /\ SlowRead \in Nat /\ surfaced[z] \in Nat /\ before[z] \in Nat
          /\ issued[z] \in Int
      BY <1>a, SignalAssumption DEF Times
    <3>1. CASE z = s /\ IsNew(s)
      <4>1. surfaced'[z] = surfaced[z] + 1 /\ before'[z] = before[z]
        BY <1>a, <2>1, <2>5, <3>1 DEF Times
      <4>2. Showings(z)' = Showings(z) + 1 /\ Showings(z) \in Int
        BY <3>0, <4>1 DEF Showings
      <4>3. e \in guard'
        BY <2>5, <3>1
      <4>4. /\ Showings(z)' \in Nat
            /\ (Showings(z)' - 1) * (MaxAge + 1) <= now - issued[z] + MaxAge
        <5>1. CASE Showings(z) = 0
          <6>1. (Showings(z)' - 1) * (MaxAge + 1) = 0
            BY <3>0, <4>2, <5>1
          <6> QED BY <1>b, <2>2, <3>0, <3>1, <4>2, <5>1, <6>1
        <5>2. CASE Showings(z) # 0
          <6>1. PICK t \in Int : LastShown(z, t)
            BY <1>a, <5>2 DEF Remembered
          <6>2. Showings(z) \in Nat
            BY <1>a, <5>2 DEF Remembered
          <6>3. now >= t + MaxAge + 1
            <7> SUFFICES ASSUME now <= t + MaxAge PROVE FALSE
              BY <1>b, <3>0
            <7>1. PICK x \in guard : x.tag = z /\ x.until >= t + MaxAge
              BY <6>1 DEF LastShown
            <7>2. x.until >= now
              BY <1>a, <1>b, <3>0, <7>1 DEF Times, Entry
            <7>3. x \in Swept
              BY <2>6, <7>2
            <7> QED BY <3>1, <7>1, <7>3 DEF IsNew
          <6>4. (Showings(z) - 1) * (MaxAge + 1) <= t - issued[z] + MaxAge
            BY <6>1 DEF LastShown
          <6>5. \A n, m \in Int : (n + 1 - 1) * (m + 1) = (n - 1) * (m + 1) + (m + 1)
            OBVIOUS
          <6>6. (Showings(z)' - 1) * (MaxAge + 1) = (Showings(z) - 1) * (MaxAge + 1) + (MaxAge + 1)
            BY <3>0, <4>2, <6>5
          <6>7. (Showings(z) - 1) * (MaxAge + 1) \in Int
            BY <3>0, <4>2
          <6> QED BY <1>b, <3>0, <4>2, <6>2, <6>3, <6>4, <6>6, <6>7
        <5> QED BY <5>1, <5>2
      <4>5. now <= now + MaxAge => \E x \in guard' : x.tag = z /\ x.until >= now + MaxAge
        BY <1>b, <2>4, <3>0, <3>1, <4>3
      <4>6. LastShown(z, now)'
        BY <1>b, <2>1, <2>2, <3>1, <4>4, <4>5 DEF LastShown
      <4> QED BY <1>b, <2>1, <2>2, <3>1, <4>4, <4>6
    <3>2. CASE z # s \/ ~IsNew(s)
      <4>1. surfaced'[z] = surfaced[z] /\ before'[z] = before[z]
        BY <1>a, <2>1, <2>5, <3>2 DEF Times
      <4>2. Showings(z)' = Showings(z)
        BY <4>1 DEF Showings
      <4>3. Showings(z) \in Nat /\ issued[z] # Unsent
        BY <1>a, <2>9, <4>2 DEF Remembered
      <4>4. PICK t \in Int : LastShown(z, t)
        BY <1>a, <2>9, <4>2 DEF Remembered
      <4>5. ASSUME now <= t + MaxAge
            PROVE  \E x \in guard' : x.tag = z /\ x.until >= t + MaxAge
        <5>1. PICK x \in guard : x.tag = z /\ x.until >= t + MaxAge
          BY <4>4, <4>5 DEF LastShown
        <5>2. x.until >= now
          BY <1>a, <1>b, <3>0, <4>5, <5>1 DEF Times, Entry
        <5> QED BY <2>6, <5>1, <5>2
      <4>6. LastShown(z, t)'
        BY <2>1, <4>2, <4>4, <4>5 DEF LastShown
      <4> QED BY <2>1, <4>2, <4>3, <4>6
    <3> QED BY <3>1, <3>2
  <2>10. Remembered'
    BY <2>9 DEF Remembered
  <2> QED BY <2>7, <2>8, <2>10 DEF SignalInv
<1>7. CASE Tick
  <2>1. now' = now + 1 /\ UNCHANGED <<issued, conn, guard, surfaced, before>>
        /\ \A c \in Conns : conn[c].at \in {"reading", "acked"} => now < conn[c].from + SlowRead
    BY <1>7 DEF Tick
  <2>2. Times'
    BY <1>a, <2>1 DEF Times
  <2>3. Timely'
    BY <1>a, <1>b, <2>1, SignalAssumption DEF Timely, Fresh, Open
  <2>4. Remembered'
    BY <1>a, <1>b, <2>1, StillRemembered
  <2> QED BY <2>2, <2>3, <2>4 DEF SignalInv
<1>8. ASSUME UNCHANGED <<issued, now, conn, guard, surfaced, before>> PROVE SignalInv'
  <2>1. Times' /\ Timely'
    BY <1>a, <1>8 DEF Times, Timely, Fresh
  <2>2. Remembered'
    BY <1>a, <1>b, <1>8, StillRemembered
  <2> QED BY <2>1, <2>2 DEF SignalInv
<1>9. CASE ReceiverRestarts
  <2>1. /\ conn' = [c \in Conns |-> Idle] /\ guard' = {} /\ before' = surfaced
        /\ UNCHANGED <<issued, now, surfaced>>
    BY <1>9 DEF ReceiverRestarts
  <2>2. Times' /\ Timely'
    BY <1>0, <1>a, <2>1 DEF Times, Timely, Fresh
  <2>3. Remembered'
    BY <1>a, <2>1 DEF Remembered, Showings, Times
  <2> QED BY <2>2, <2>3 DEF SignalInv
<1>10. ASSUME NEW c \in Conns, NEW yes \in BOOLEAN, AckArrives(c, yes) PROVE SignalInv'
  BY <1>8, <1>10 DEF AckArrives
<1>11. CASE Blocked \/ UNCHANGED signalVars
  BY <1>8, <1>11 DEF Blocked, signalVars
<1> QED BY <1>1, <1>2, <1>3, <1>4, <1>5, <1>6, <1>7, <1>9, <1>10, <1>11 DEF SignalNext

(* A signal is shown a bounded number of times in a run of the receiver     *)
(* (handle_signal of main.rs, SignalReplayGuard), for any number of         *)
(* signals, connections and restarts, any capacity of the guard and any     *)
(* difference of the two clocks.                                            *)
THEOREM ShowingsAreBounded == SignalSpec => []ShowingsBounded
<1>1. SignalInv /\ [SignalNext]_signalVars => SignalInv'
  BY SignalNextInv
<1>2. ASSUME SignalInv PROVE ShowingsBounded
  <2> SUFFICES ASSUME NEW s \in Signals
               PROVE  (surfaced[s] - before[s] - 1) * (MaxAge + 1) <= 2 * MaxAge + SlowRead
    BY DEF ShowingsBounded
  <2>0. /\ MaxAge \in Nat /\ SlowRead \in Nat /\ issued[s] \in Int
        /\ surfaced[s] \in Nat /\ before[s] \in Nat
    BY <1>2, SignalAssumption DEF SignalInv, Times
  <2>1. CASE Showings(s) = 0
    <3>1. \A m \in Int : (0 - 1) * (m + 1) = 0 - (m + 1)
      OBVIOUS
    <3> QED BY <2>0, <2>1, <3>1 DEF Showings
  <2>2. CASE Showings(s) # 0
    <3>1. PICK t \in Int : LastShown(s, t)
      BY <1>2, <2>2 DEF SignalInv, Remembered
    <3>2. (Showings(s) - 1) * (MaxAge + 1) \in Int
      BY <2>0 DEF Showings
    <3> QED BY <2>0, <3>1, <3>2 DEF LastShown, Showings
  <2> QED BY <2>1, <2>2
<1> QED BY <1>1, <1>2, SignalInitial, PTL DEF SignalSpec

-------------------------------------------------------------------------------
(* The cursor.  A message on its way, and what the two ends have after it: *)
(* the ids a cache of CacheCap shapes holds, and the id that is drawn.     *)
AllIds == Pixels \cup Shapes
Msgs == [kind : {"hidden"}] \cup [kind : {"cached"}, id : AllIds]
        \cup [kind : {"shape"}, id : AllIds, shape : Shapes] \cup [kind : {"position"}, at : Places]
States == Seq(AllIds) \X (AllIds \cup {NoShape})

After(st, msg) ==
  << IF msg.kind = "shape" THEN Inserted(st[1], msg.id) ELSE st[1],
     CASE msg.kind = "hidden" -> NoShape
       [] msg.kind \in {"shape", "cached"} -> msg.id
       [] msg.kind = "position" -> st[2] >>

(* IdOf, of whatever observer there is; it never changes.                  *)
IdBy(o, s) == IF s = NoShape THEN NoShape ELSE IF o = "mac" THEN s ELSE s.pixels

(* The states between the messages; what is sent by reference is known     *)
(* when it arrives.                                                        *)
Leads(st, msg, next) == next = After(st, msg) /\ (msg.kind = "cached" => Contains(st[1], msg.id))
Chain(g, way) ==
  Len(g) = Len(way) + 1 /\ \A i \in 1 .. Len(way) : Leads(g[i], way[i], g[i + 1])

Way == stream \o outbound
Keys(cache) == [i \in 1 .. Len(cache) |-> cache[i][1]]

CursorTypes ==
  /\ cursor \in Shapes \cup {NoShape} /\ place \in Places
  /\ order \in Seq(AllIds) /\ outbound \in Seq(Msgs) /\ stream \in Seq(Msgs)
  /\ drawn \in Shapes \cup {NoShape} /\ breaks \in Nat
  /\ sinkCache \in Seq(AllIds \X Shapes)

OwnIds ==
  /\ \A i \in 1 .. Len(sinkCache) : IdBy(observer, sinkCache[i][2]) = sinkCache[i][1]
  /\ \A i \in 1 .. Len(Way) : Way[i].kind = "shape" => IdBy(observer, Way[i].shape) = Way[i].id

(* From what the sink has to what the host recorded, over the messages.    *)
CachesInStep ==
  breaks = 0 =>
    \E g \in Seq(States) :
      /\ Chain(g, Way)
      /\ g[1] = <<Keys(sinkCache), IdBy(observer, drawn)>>
      /\ g[Len(g)][1] = order
      /\ ~missed /\ lastId # NoPlace => g[Len(g)][2] = lastId

CursorInv == CursorTypes /\ OwnIds /\ CachesInStep

(* A cache that takes a shape holds ids.                                   *)
LEMMA InsertedIds ==
  ASSUME NEW c \in Seq(AllIds), NEW id \in AllIds PROVE Inserted(c, id) \in Seq(AllIds)
<1>1. Len(c) >= CacheCap => c # <<>>
  BY CursorAssumption
<1>2. CASE Len(c) >= CacheCap
  <2>1. Tail(c) \in Seq(AllIds)
    BY <1>1, <1>2, HeadTailProperties
  <2> QED BY <2>1, AppendProperties DEF Inserted
<1>3. CASE ~(Len(c) >= CacheCap)
  BY <1>3, AppendProperties DEF Inserted
<1> QED BY <1>2, <1>3

(* The four kinds of a message.                                            *)
LEMMA KindsOfMsg ==
  ASSUME NEW msg \in Msgs
  PROVE  /\ msg.kind \in {"hidden", "cached", "shape", "position"}
         /\ msg.kind \in {"cached", "shape"} => msg.id \in AllIds
         /\ msg.kind = "shape" => msg.shape \in Shapes
         /\ msg.kind = "position" => msg.at \in Places
BY DEF Msgs

(* A message leads from state to state.                                    *)
LEMMA AfterIsState ==
  ASSUME NEW st \in States, NEW msg \in Msgs PROVE After(st, msg) \in States
<1> DEFINE ids == IF msg.kind = "shape" THEN Inserted(st[1], msg.id) ELSE st[1]
           id == CASE msg.kind = "hidden" -> NoShape
                   [] msg.kind \in {"shape", "cached"} -> msg.id
                   [] msg.kind = "position" -> st[2]
<1>1. st[1] \in Seq(AllIds) /\ st[2] \in AllIds \cup {NoShape}
  BY DEF States
<1>2. msg.kind = "shape" => Inserted(st[1], msg.id) \in Seq(AllIds)
  BY <1>1, KindsOfMsg, InsertedIds
<1>3. ids \in Seq(AllIds) /\ id \in AllIds \cup {NoShape}
  BY <1>1, <1>2, KindsOfMsg
<1>4. After(st, msg) = <<ids, id>>
  BY DEF After
<1> HIDE DEF ids, id
<1> QED BY <1>3, <1>4 DEF States

(* A message that is sent adds a state at the end, ...                     *)
LEMMA ChainGrows ==
  ASSUME NEW g \in Seq(States), NEW way \in Seq(Msgs), NEW msg \in Msgs, Chain(g, way),
         msg.kind = "cached" => Contains(g[Len(g)][1], msg.id)
  PROVE  \E h \in Seq(States) :
           /\ Chain(h, Append(way, msg))
           /\ h[1] = g[1] /\ h[Len(h)] = After(g[Len(g)], msg)
<1> DEFINE last == g[Len(g)]
           h == Append(g, After(last, msg))
<1>1. Len(g) = Len(way) + 1 /\ Len(g) \in Nat /\ Len(way) \in Nat /\ last \in States
  BY DEF Chain
<1>2. After(last, msg) \in States
  BY <1>1, AfterIsState
<1>3. /\ h \in Seq(States) /\ Len(h) = Len(g) + 1 /\ h[Len(g) + 1] = After(last, msg)
      /\ \A i \in 1 .. Len(g) : h[i] = g[i]
  <2> HIDE DEF last
  <2> QED BY <1>2, AppendProperties
<1>4. /\ Len(Append(way, msg)) = Len(way) + 1 /\ Append(way, msg)[Len(way) + 1] = msg
      /\ \A i \in 1 .. Len(way) : Append(way, msg)[i] = way[i]
  BY AppendProperties
<1> HIDE DEF h
<1>5. ASSUME NEW i \in 1 .. Len(way) + 1
      PROVE  Leads(h[i], Append(way, msg)[i], h[i + 1])
  <2>1. CASE i = Len(way) + 1
    <3>1. h[i] = last /\ h[i + 1] = After(last, msg) /\ Append(way, msg)[i] = msg
      BY <1>1, <1>3, <1>4, <2>1
    <3> QED BY <3>1 DEF Leads
  <2>2. CASE i # Len(way) + 1
    <3>1. i \in 1 .. Len(way) /\ i \in 1 .. Len(g) /\ i + 1 \in 1 .. Len(g)
      BY <1>1, <2>2
    <3>2. Leads(g[i], way[i], g[i + 1])
      BY <3>1 DEF Chain
    <3>3. h[i] = g[i] /\ h[i + 1] = g[i + 1] /\ Append(way, msg)[i] = way[i]
      BY <1>3, <1>4, <3>1
    <3> QED BY <3>2, <3>3
  <2> QED BY <2>1, <2>2
<1>6. Chain(h, Append(way, msg))
  BY <1>1, <1>3, <1>4, <1>5 DEF Chain
<1> QED BY <1>1, <1>3, <1>6

(* ... and one that is read takes the first away.                          *)
LEMMA ChainShrinks ==
  ASSUME NEW g \in Seq(States), NEW way \in Seq(Msgs), way # <<>>, Chain(g, way)
  PROVE  /\ Tail(g) \in Seq(States) /\ Chain(Tail(g), Tail(way))
         /\ Tail(g)[1] = After(g[1], way[1])
         /\ Tail(g)[Len(Tail(g))] = g[Len(g)]
         /\ way[1].kind = "cached" => Contains(g[1][1], way[1].id)
<1>1. Len(g) = Len(way) + 1 /\ Len(g) \in Nat /\ Len(way) \in Nat /\ Len(way) >= 1
  BY DEF Chain
<1>2. /\ Tail(g) \in Seq(States) /\ Len(Tail(g)) = Len(way)
      /\ \A i \in 1 .. Len(way) : Tail(g)[i] = g[i + 1]
  BY <1>1, HeadTailProperties
<1>3. /\ Len(Tail(way)) = Len(way) - 1
      /\ \A i \in 1 .. Len(way) - 1 : Tail(way)[i] = way[i + 1]
  BY <1>1, HeadTailProperties
<1>4. ASSUME NEW i \in 1 .. Len(way) - 1
      PROVE  Leads(Tail(g)[i], Tail(way)[i], Tail(g)[i + 1])
  <2>1. i + 1 \in 1 .. Len(way) /\ i \in 1 .. Len(way)
    BY <1>1
  <2>2. Leads(g[i + 1], way[i + 1], g[i + 2])
    <3>1. (i + 1) + 1 = i + 2
      OBVIOUS
    <3> QED BY <2>1, <3>1 DEF Chain
  <2>3. Tail(g)[i] = g[i + 1] /\ Tail(g)[i + 1] = g[i + 2] /\ Tail(way)[i] = way[i + 1]
    BY <1>2, <1>3, <2>1
  <2> QED BY <2>2, <2>3
<1>5. Chain(Tail(g), Tail(way))
  BY <1>1, <1>2, <1>3, <1>4 DEF Chain
<1>6. Tail(g)[1] = After(g[1], way[1]) /\ (way[1].kind = "cached" => Contains(g[1][1], way[1].id))
  <2>1. 1 \in 1 .. Len(way) /\ 1 + 1 = 2
    BY <1>1
  <2>2. Leads(g[1], way[1], g[2])
    BY <2>1 DEF Chain
  <2>3. Tail(g)[1] = g[2]
    BY <1>2, <2>1
  <2> QED BY <2>2, <2>3 DEF Leads
<1>7. Tail(g)[Len(Tail(g))] = g[Len(g)]
  <2>1. Len(way) \in 1 .. Len(way)
    BY <1>1
  <2> QED BY <1>1, <1>2, <2>1
<1> QED BY <1>2, <1>5, <1>6, <1>7

(* An id is in the range of ids.                                           *)
LEMMA IdsOfShapes ==
  ASSUME NEW s \in Shapes PROVE IdBy(observer, s) \in AllIds
<1>1. s.pixels \in Pixels
  BY DEF Shapes
<1> QED BY <1>1 DEF IdBy, AllIds

(* The name the model gives it.                                            *)
LEMMA IdOfIsIdBy == IdOf(cursor) = IdBy(observer, cursor)
BY DEF IdOf, IdBy

(* What the host puts in the queue for the shape it found, and what it     *)
(* records with it.                                                        *)
LEMMA ShapeMsgFits ==
  ASSUME CursorTypes
  PROVE  /\ ShapeMsg(cursor) \in Msgs
         /\ ShapeMsg(cursor).kind = "cached" => Contains(order, ShapeMsg(cursor).id)
         /\ ShapeMsg(cursor).kind = "shape" =>
              IdBy(observer, ShapeMsg(cursor).shape) = ShapeMsg(cursor).id
         /\ Recorded(cursor) \in Seq(AllIds)
         /\ QueueRoom => \A st : st[1] = order =>
              After(st, ShapeMsg(cursor)) = <<Recorded(cursor), IdBy(observer, cursor)>>
<1>1. CASE cursor = NoShape
  BY <1>1, IdOfIsIdBy DEF CursorTypes, ShapeMsg, Recorded, After, Msgs, IdBy
<1>2. CASE cursor # NoShape
  <2>1. cursor \in Shapes /\ order \in Seq(AllIds)
    BY <1>2 DEF CursorTypes
  <2> DEFINE id == IdBy(observer, cursor)
  <2>2. id \in AllIds
    BY <2>1, IdsOfShapes
  <2>3. Inserted(order, id) \in Seq(AllIds)
    BY <2>1, <2>2, InsertedIds
  <2>4. Contains(order, id) => Inserted(order, id) = order
    BY DEF Inserted
  <2>5. CASE Contains(order, id)
    <3>1. ShapeMsg(cursor) = [kind |-> "cached", id |-> id]
      BY <1>2, <2>5, IdOfIsIdBy DEF ShapeMsg
    <3>2. Recorded(cursor) = order
      BY <2>4, <2>5, IdOfIsIdBy DEF Recorded
    <3>3. ShapeMsg(cursor).kind = "cached" /\ ShapeMsg(cursor).id = id
      BY <3>1
    <3>4. ShapeMsg(cursor) \in Msgs
      <4> HIDE DEF id
      <4> QED BY <2>2, <3>1 DEF Msgs
    <3>5. ASSUME NEW st, st[1] = order
          PROVE  After(st, ShapeMsg(cursor)) = <<Recorded(cursor), IdBy(observer, cursor)>>
      BY <3>2, <3>3, <3>5 DEF After
    <3> QED BY <2>1, <2>5, <3>2, <3>3, <3>4, <3>5
  <2>6. CASE ~Contains(order, id)
    <3>1. ShapeMsg(cursor) = [kind |-> "shape", id |-> id, shape |-> cursor]
      BY <1>2, <2>6, IdOfIsIdBy DEF ShapeMsg
    <3>2. /\ Recorded(cursor) \in {order, Inserted(order, id)}
          /\ QueueRoom => Recorded(cursor) = Inserted(order, id)
      BY <1>2, IdOfIsIdBy DEF Recorded
    <3>3. ShapeMsg(cursor).shape = cursor /\ ShapeMsg(cursor).id = id
          /\ ShapeMsg(cursor).kind = "shape"
      BY <3>1
    <3>4. IdBy(observer, ShapeMsg(cursor).shape) = ShapeMsg(cursor).id
      BY <3>3
    <3>5. ShapeMsg(cursor) \in Msgs
      <4> HIDE DEF id
      <4> QED BY <2>1, <2>2, <3>1 DEF Msgs
    <3>6. ASSUME NEW st, st[1] = order, QueueRoom
          PROVE  After(st, ShapeMsg(cursor)) = <<Recorded(cursor), IdBy(observer, cursor)>>
      BY <3>2, <3>3, <3>6 DEF After
    <3> QED BY <2>1, <2>3, <3>2, <3>3, <3>4, <3>5, <3>6
  <2> QED BY <2>5, <2>6
<1> QED BY <1>1, <1>2

(* The ids of a cache are a sequence of its length.                        *)
LEMMA KeysType ==
  ASSUME NEW c \in Seq(AllIds \X Shapes)
  PROVE  /\ Keys(c) \in Seq(AllIds) /\ Len(Keys(c)) = Len(c)
         /\ \A i \in 1 .. Len(c) : Keys(c)[i] = c[i][1]
<1>1. \A i \in 1 .. Len(c) : c[i][1] \in AllIds
  OBVIOUS
<1>2. Keys(c) \in [1 .. Len(c) -> AllIds] /\ Len(c) \in Nat
  BY <1>1 DEF Keys
<1> QED BY <1>2, SeqDef, LenProperties DEF Keys

(* The sink's cache keeps an id just as the host's does.                   *)
LEMMA SinkKeepsIds ==
  ASSUME sinkCache \in Seq(AllIds \X Shapes), NEW id \in AllIds, NEW s \in Shapes,
         IdBy(observer, s) = id,
         \A i \in 1 .. Len(sinkCache) : IdBy(observer, sinkCache[i][2]) = sinkCache[i][1]
  PROVE  /\ SinkKeeps(id, s) \in Seq(AllIds \X Shapes)
         /\ Keys(SinkKeeps(id, s)) = Inserted(Keys(sinkCache), id)
         /\ \A i \in 1 .. Len(SinkKeeps(id, s)) :
              IdBy(observer, SinkKeeps(id, s)[i][2]) = SinkKeeps(id, s)[i][1]
<1> DEFINE c == sinkCache
           ks == Keys(c)
<1>1. /\ ks \in Seq(AllIds) /\ Len(ks) = Len(c) /\ Len(c) \in Nat
      /\ \A i \in 1 .. Len(c) : ks[i] = c[i][1]
  BY KeysType, LenProperties
<1>2. DOMAIN c = 1 .. Len(c)
  BY LenProperties
<1>3. (\E i \in DOMAIN c : c[i][1] = id) <=> Contains(ks, id)
  BY <1>1, <1>2 DEF Contains
<1>4. CASE Contains(ks, id)
  BY <1>3, <1>4 DEF SinkKeeps, Inserted
<1>5. CASE ~Contains(ks, id) /\ Len(c) >= CacheCap
  <2>1. c # <<>> /\ ks # <<>> /\ Len(c) >= 1
    BY <1>1, <1>5, CursorAssumption
  <2>2. /\ Tail(c) \in Seq(AllIds \X Shapes) /\ Len(Tail(c)) = Len(c) - 1
        /\ \A i \in 1 .. Len(c) - 1 : Tail(c)[i] = c[i + 1]
    BY <2>1, HeadTailProperties
  <2>3. /\ Tail(ks) \in Seq(AllIds) /\ Len(Tail(ks)) = Len(c) - 1
        /\ \A i \in 1 .. Len(c) - 1 : Tail(ks)[i] = ks[i + 1]
    <3> HIDE DEF ks
    <3> QED BY <1>1, <2>1, HeadTailProperties
  <2> DEFINE k == Append(Tail(c), <<id, s>>)
  <2>4. SinkKeeps(id, s) = k
    BY <1>3, <1>5 DEF SinkKeeps
  <2>5. /\ k \in Seq(AllIds \X Shapes) /\ Len(k) = Len(c) /\ k[Len(c)] = <<id, s>>
        /\ \A i \in 1 .. Len(c) - 1 : k[i] = c[i + 1]
    BY <1>1, <2>1, <2>2, AppendProperties
  <2> DEFINE n == Append(Tail(ks), id)
  <2>6. Inserted(ks, id) = n
    BY <1>1, <1>5 DEF Inserted
  <2>7. /\ n \in Seq(AllIds) /\ Len(n) = Len(c) /\ n[Len(c)] = id
        /\ \A i \in 1 .. Len(c) - 1 : n[i] = ks[i + 1]
    <3> HIDE DEF ks
    <3> QED BY <1>1, <2>1, <2>3, AppendProperties
  <2> HIDE DEF k, n
  <2>8. Keys(k) \in Seq(AllIds) /\ Len(Keys(k)) = Len(c)
        /\ \A i \in 1 .. Len(c) : Keys(k)[i] = k[i][1]
    BY <2>5, KeysType
  <2>9. ASSUME NEW i \in 1 .. Len(c) PROVE Keys(k)[i] = n[i] /\ IdBy(observer, k[i][2]) = k[i][1]
    <3>1. CASE i = Len(c)
      <4>1. k[i][1] = id /\ k[i][2] = s
        BY <2>5, <3>1
      <4> QED BY <4>1, <2>7, <2>8, <3>1
    <3>2. CASE i # Len(c)
      <4>1. i \in 1 .. Len(c) - 1 /\ i + 1 \in 1 .. Len(c)
        BY <1>1, <3>2
      <4>2. k[i] = c[i + 1] /\ n[i] = ks[i + 1] /\ ks[i + 1] = c[i + 1][1]
        BY <1>1, <2>5, <2>7, <4>1
      <4> HIDE DEF c, ks
      <4> QED BY <2>8, <4>1, <4>2 DEF c
    <3> QED BY <3>1, <3>2
  <2>10. Keys(k) = n
    BY <2>7, <2>8, <2>9, SeqEqual
  <2> QED BY <2>4, <2>5, <2>6, <2>9, <2>10
<1>6. CASE ~Contains(ks, id) /\ ~(Len(c) >= CacheCap)
  <2> DEFINE k == Append(c, <<id, s>>)
             n == Append(ks, id)
  <2>1. SinkKeeps(id, s) = k
    BY <1>3, <1>6 DEF SinkKeeps
  <2>2. /\ k \in Seq(AllIds \X Shapes) /\ Len(k) = Len(c) + 1 /\ k[Len(c) + 1] = <<id, s>>
        /\ \A i \in 1 .. Len(c) : k[i] = c[i]
    BY AppendProperties
  <2>3. Inserted(ks, id) = n
    BY <1>1, <1>6 DEF Inserted
  <2>4. /\ n \in Seq(AllIds) /\ Len(n) = Len(c) + 1 /\ n[Len(c) + 1] = id
        /\ \A i \in 1 .. Len(c) : n[i] = ks[i]
    <3> HIDE DEF ks
    <3> QED BY <1>1, AppendProperties
  <2> HIDE DEF k, n
  <2>5. /\ Keys(k) \in Seq(AllIds) /\ Len(Keys(k)) = Len(c) + 1
        /\ \A i \in 1 .. Len(c) + 1 : Keys(k)[i] = k[i][1]
    BY <2>2, KeysType
  <2>6. ASSUME NEW i \in 1 .. Len(c) + 1
        PROVE Keys(k)[i] = n[i] /\ IdBy(observer, k[i][2]) = k[i][1]
    <3>1. CASE i = Len(c) + 1
      <4>1. k[i][1] = id /\ k[i][2] = s
        BY <2>2, <3>1
      <4> QED BY <4>1, <2>4, <2>5, <3>1
    <3>2. CASE i # Len(c) + 1
      <4>1. i \in 1 .. Len(c)
        BY <1>1, <3>2
      <4>2. k[i] = c[i] /\ n[i] = ks[i] /\ ks[i] = c[i][1]
        BY <1>1, <2>2, <2>4, <4>1
      <4> HIDE DEF c, ks
      <4> QED BY <2>5, <4>1, <4>2 DEF c
    <3> QED BY <3>1, <3>2
  <2>7. Keys(k) = n
    BY <2>4, <2>5, <2>6, SeqEqual
  <2> QED BY <2>1, <2>2, <2>3, <2>6, <2>7
<1> QED BY <1>1, <1>4, <1>5, <1>6

(* What the sink does with a message is what the host took it to do.       *)
LEMMA DrawsFits ==
  ASSUME CursorTypes, NEW msg \in Msgs, Draws(msg), observer' = observer,
         \A i \in 1 .. Len(sinkCache) : IdBy(observer, sinkCache[i][2]) = sinkCache[i][1],
         msg.kind = "shape" => IdBy(observer, msg.shape) = msg.id
  PROVE  /\ drawn' \in Shapes \cup {NoShape} /\ sinkCache' \in Seq(AllIds \X Shapes)
         /\ \A i \in 1 .. Len(sinkCache') : IdBy(observer, sinkCache'[i][2]) = sinkCache'[i][1]
         /\ (msg.kind = "cached" => Contains(Keys(sinkCache), msg.id)) =>
              After(<<Keys(sinkCache), IdBy(observer, drawn)>>, msg)
                = <<Keys(sinkCache'), IdBy(observer, drawn')>>
<1>1. /\ sinkCache \in Seq(AllIds \X Shapes) /\ drawn \in Shapes \cup {NoShape}
  BY DEF CursorTypes
<1>2. CASE msg.kind = "hidden"
  <2>1. drawn' = NoShape /\ sinkCache' = sinkCache
    BY <1>2 DEF Draws
  <2>2. IdBy(observer, NoShape) = NoShape
    BY DEF IdBy
  <2> QED BY <1>1, <1>2, <2>1, <2>2 DEF After
<1>3. CASE msg.kind = "position"
  <2>1. drawn' = drawn /\ sinkCache' = sinkCache
    BY <1>3 DEF Draws
  <2> QED BY <1>1, <1>3, <2>1 DEF After
<1>4. CASE msg.kind = "cached"
  <2>1. sinkCache' = sinkCache /\ msg.id \in AllIds
    BY <1>4, KindsOfMsg DEF Draws
  <2>2. drawn' \in {drawn} \cup Known(msg.id)
    BY <1>4 DEF Draws
  <2>3. drawn' \in Shapes \cup {NoShape}
    BY <1>1, <2>2 DEF Known
  <2>4. ASSUME Contains(Keys(sinkCache), msg.id) PROVE IdBy(observer, drawn') = msg.id
    <3>1. PICK i \in 1 .. Len(Keys(sinkCache)) : Keys(sinkCache)[i] = msg.id
      BY <2>4 DEF Contains
    <3>2. i \in 1 .. Len(sinkCache) /\ sinkCache[i][1] = msg.id
      BY <1>1, <3>1, KeysType
    <3>3. sinkCache[i] \in AllIds \X Shapes
      BY <1>1, <3>2
    <3>4. sinkCache[i] = <<msg.id, sinkCache[i][2]>> /\ sinkCache[i][2] \in Shapes
      BY <3>2, <3>3
    <3>5. sinkCache[i][2] \in Known(msg.id)
      BY <3>2, <3>4 DEF Known, Contains
    <3>6. drawn' \in Known(msg.id)
      BY <1>4, <3>5 DEF Draws
    <3>7. PICK j \in 1 .. Len(sinkCache) : sinkCache[j] = <<msg.id, drawn'>>
      BY <3>6 DEF Known, Contains
    <3>8. sinkCache[j][1] = msg.id /\ sinkCache[j][2] = drawn'
      BY <3>7
    <3> QED BY <3>7, <3>8
  <2> QED BY <1>1, <1>4, <2>1, <2>3, <2>4 DEF After
<1>5. CASE msg.kind = "shape"
  <2>1. msg.id \in AllIds /\ msg.shape \in Shapes /\ IdBy(observer, msg.shape) = msg.id
    BY <1>5, KindsOfMsg
  <2>2. drawn' = msg.shape /\ sinkCache' = SinkKeeps(msg.id, msg.shape)
    BY <1>5 DEF Draws
  <2>3. /\ SinkKeeps(msg.id, msg.shape) \in Seq(AllIds \X Shapes)
        /\ Keys(SinkKeeps(msg.id, msg.shape)) = Inserted(Keys(sinkCache), msg.id)
        /\ \A i \in 1 .. Len(SinkKeeps(msg.id, msg.shape)) :
             IdBy(observer, SinkKeeps(msg.id, msg.shape)[i][2]) = SinkKeeps(msg.id, msg.shape)[i][1]
    BY <1>1, <2>1, SinkKeepsIds
  <2>4. After(<<Keys(sinkCache), IdBy(observer, drawn)>>, msg)
          = <<Inserted(Keys(sinkCache), msg.id), msg.id>>
    BY <1>5 DEF After
  <2> QED BY <2>1, <2>2, <2>3, <2>4
<1> QED BY <1>2, <1>3, <1>4, <1>5, KindsOfMsg

(* The messages on the stream and in the queue, one after the other, when  *)
(* the loop forwards one, ...                                              *)
LEMMA ForwardedWay ==
  ASSUME NEW s \in Seq(Msgs), NEW o \in Seq(Msgs), o # <<>>
  PROVE  Append(s, Head(o)) \in Seq(Msgs) /\ Tail(o) \in Seq(Msgs)
         /\ Append(s, Head(o)) \o Tail(o) = s \o o
<1> DEFINE a == Append(s, Head(o))
           t == Tail(o)
<1>1. /\ Head(o) \in Msgs /\ t \in Seq(Msgs) /\ Len(t) = Len(o) - 1 /\ Head(o) = o[1]
      /\ \A i \in 1 .. Len(o) - 1 : t[i] = o[i + 1]
  BY HeadTailProperties
<1>2. /\ a \in Seq(Msgs) /\ Len(a) = Len(s) + 1 /\ a[Len(s) + 1] = o[1]
      /\ \A i \in 1 .. Len(s) : a[i] = s[i]
  BY <1>1, AppendProperties
<1>3. Len(s) \in Nat /\ Len(o) \in Nat /\ Len(o) >= 1
  BY LenProperties
<1> HIDE DEF a, t
<1>4. a \o t \in Seq(Msgs) /\ Len(a \o t) = Len(s) + Len(o)
  <2>1. a \o t \in Seq(Msgs) /\ Len(a \o t) = Len(a) + Len(t)
    BY <1>1, <1>2, ConcatProperties
  <2>2. Len(a) + Len(t) = Len(s) + Len(o)
    BY <1>1, <1>2, <1>3
  <2> QED BY <2>1, <2>2
<1>5. s \o o \in Seq(Msgs) /\ Len(s \o o) = Len(s) + Len(o)
  BY ConcatProperties
<1>6. ASSUME NEW i \in 1 .. Len(s) + Len(o) PROVE (a \o t)[i] = (s \o o)[i]
  <2>1. (a \o t)[i] = IF i <= Len(a) THEN a[i] ELSE t[i - Len(a)]
    <3>1. i \in 1 .. Len(a) + Len(t)
      BY <1>1, <1>2, <1>3
    <3> QED BY <1>1, <1>2, <3>1, ConcatProperties
  <2>2. (s \o o)[i] = IF i <= Len(s) THEN s[i] ELSE o[i - Len(s)]
    BY <1>3, <1>5, ConcatProperties
  <2>3. CASE i <= Len(s)
    BY <1>2, <1>3, <2>1, <2>2, <2>3
  <2>4. CASE i = Len(s) + 1
    BY <1>2, <1>3, <2>1, <2>2, <2>4
  <2>5. CASE i > Len(s) + 1
    <3>1. i - Len(a) \in 1 .. Len(o) - 1 /\ (i - Len(a)) + 1 = i - Len(s) /\ ~(i <= Len(a))
      BY <1>2, <1>3, <2>5
    <3>2. t[i - Len(a)] = o[i - Len(s)]
      BY <1>1, <3>1
    <3> QED BY <1>3, <2>1, <2>2, <2>5, <3>1, <3>2
  <2>6. i <= Len(s) \/ i = Len(s) + 1 \/ i > Len(s) + 1
    BY <1>3
  <2> QED BY <2>3, <2>4, <2>5, <2>6
<1>7. a \o t = s \o o
  BY <1>4, <1>5, <1>6, SeqEqual
<1> QED BY <1>1, <1>2, <1>7 DEF a, t

(* ... when the host sends one, ...                                        *)
LEMMA SentWay ==
  ASSUME NEW s \in Seq(Msgs), NEW o \in Seq(Msgs), NEW msg \in Msgs
  PROVE  Append(o, msg) \in Seq(Msgs) /\ s \o Append(o, msg) = Append(s \o o, msg)
<1> DEFINE a == Append(o, msg)
           w == s \o o
           b == Append(w, msg)
<1>1. /\ a \in Seq(Msgs) /\ Len(a) = Len(o) + 1 /\ a[Len(o) + 1] = msg
      /\ \A i \in 1 .. Len(o) : a[i] = o[i]
  BY AppendProperties
<1>2. Len(s) \in Nat /\ Len(o) \in Nat
  BY LenProperties
<1>3. w \in Seq(Msgs) /\ Len(w) = Len(s) + Len(o)
  BY ConcatProperties
<1>4. \A i \in 1 .. Len(s) + Len(o) : w[i] = IF i <= Len(s) THEN s[i] ELSE o[i - Len(s)]
  BY <1>2, <1>3, ConcatProperties
<1>5. /\ b \in Seq(Msgs) /\ Len(b) = Len(w) + 1 /\ b[Len(w) + 1] = msg
      /\ \A i \in 1 .. Len(w) : b[i] = w[i]
  <2> HIDE DEF w
  <2> QED BY <1>3, AppendProperties
<1> HIDE DEF a, w, b
<1>6. s \o a \in Seq(Msgs) /\ Len(s \o a) = Len(s) + Len(a)
  BY <1>1, ConcatProperties
<1>7. ASSUME NEW i \in 1 .. Len(b) PROVE (s \o a)[i] = b[i]
  <2>1. (s \o a)[i] = IF i <= Len(s) THEN s[i] ELSE a[i - Len(s)]
    BY <1>1, <1>2, <1>3, <1>5, <1>6, ConcatProperties
  <2>2. CASE i = Len(w) + 1
    BY <1>1, <1>2, <1>3, <1>5, <2>1, <2>2
  <2>3. CASE i # Len(w) + 1
    <3>1. i \in 1 .. Len(w) /\ i \in 1 .. Len(s) + Len(o)
      BY <1>2, <1>3, <1>5, <2>3
    <3>2. b[i] = IF i <= Len(s) THEN s[i] ELSE o[i - Len(s)]
      BY <1>4, <1>5, <3>1
    <3>3. CASE i <= Len(s)
      BY <2>1, <3>2, <3>3
    <3>4. CASE ~(i <= Len(s))
      <4>1. i - Len(s) \in 1 .. Len(o)
        BY <1>2, <3>1, <3>4
      <4>2. a[i - Len(s)] = o[i - Len(s)]
        BY <1>1, <4>1
      <4> QED BY <2>1, <3>2, <3>4, <4>2
    <3> QED BY <3>3, <3>4
  <2> QED BY <2>2, <2>3
<1>8. s \o a = b
  BY <1>1, <1>3, <1>5, <1>6, <1>7, SeqEqual
<1> QED BY <1>1, <1>8 DEF a, b, w

(* ... and when the controller reads one.                                  *)
LEMMA ReadWay ==
  ASSUME NEW s \in Seq(Msgs), NEW o \in Seq(Msgs), s # <<>>
  PROVE  /\ s \o o # <<>> /\ (s \o o)[1] = Head(s) /\ Head(s) \in Msgs
         /\ Tail(s) \in Seq(Msgs) /\ Tail(s) \o o = Tail(s \o o)
<1> DEFINE t == Tail(s)
           w == s \o o
           u == Tail(w)
<1>1. /\ Head(s) \in Msgs /\ t \in Seq(Msgs) /\ Len(t) = Len(s) - 1 /\ Head(s) = s[1]
      /\ \A i \in 1 .. Len(s) - 1 : t[i] = s[i + 1]
  BY HeadTailProperties
<1>2. Len(s) \in Nat /\ Len(o) \in Nat /\ Len(s) >= 1
  BY LenProperties
<1>3. w \in Seq(Msgs) /\ Len(w) = Len(s) + Len(o)
  BY ConcatProperties
<1>4. \A i \in 1 .. Len(s) + Len(o) : w[i] = IF i <= Len(s) THEN s[i] ELSE o[i - Len(s)]
  BY <1>2, <1>3, ConcatProperties
<1>5. w # <<>>
  BY <1>2, <1>3
<1>6. /\ u \in Seq(Msgs) /\ Len(u) = Len(w) - 1
      /\ \A i \in 1 .. Len(w) - 1 : u[i] = w[i + 1]
  <2> HIDE DEF w
  <2> QED BY <1>3, <1>5, HeadTailProperties
<1>7. w[1] = s[1]
  BY <1>2, <1>4
<1> HIDE DEF t, w, u
<1>8. t \o o \in Seq(Msgs) /\ Len(t \o o) = Len(t) + Len(o)
  BY <1>1, ConcatProperties
<1>9. ASSUME NEW i \in 1 .. Len(w) - 1 PROVE (t \o o)[i] = u[i]
  <2>1. (t \o o)[i] = IF i <= Len(t) THEN t[i] ELSE o[i - Len(t)]
    BY <1>1, <1>2, <1>3, <1>8, ConcatProperties
  <2>2. i + 1 \in 1 .. Len(s) + Len(o)
    BY <1>2, <1>3
  <2>3. u[i] = IF i + 1 <= Len(s) THEN s[i + 1] ELSE o[i + 1 - Len(s)]
    BY <1>4, <1>6, <2>2
  <2>4. CASE i + 1 <= Len(s)
    BY <1>1, <1>2, <2>1, <2>3, <2>4
  <2>5. CASE ~(i + 1 <= Len(s))
    <3>1. i - Len(t) = i + 1 - Len(s) /\ ~(i <= Len(t))
      BY <1>1, <1>2, <2>5
    <3> QED BY <2>1, <2>3, <2>5, <3>1
  <2> QED BY <2>4, <2>5
<1>10. t \o o = u
  <2>1. Len(t \o o) = Len(u) /\ Len(t \o o) = Len(w) - 1
    BY <1>1, <1>2, <1>3, <1>6, <1>8
  <2> QED BY <1>6, <1>8, <1>9, <2>1, SeqEqual
<1> QED BY <1>1, <1>5, <1>7, <1>10 DEF t, u, w

(* Nothing is cached, nothing is on its way.                               *)
LEMMA CursorInitial == CursorInit => CursorInv
<1> SUFFICES ASSUME CursorInit PROVE CursorInv
  OBVIOUS
<1>1. CursorTypes
  BY DEF CursorInit, CursorTypes
<1>2. Way = <<>> /\ sinkCache = <<>> /\ Len(Way) = 0
  BY DEF CursorInit, Way
<1>3. OwnIds
  BY <1>2 DEF OwnIds
<1> DEFINE st == <<Keys(sinkCache), IdBy(observer, drawn)>>
           g == <<st>>
<1>4. Keys(sinkCache) = <<>>
  <2>1. Keys(sinkCache) \in Seq(AllIds) /\ Len(Keys(sinkCache)) = 0
    BY <1>1, <1>2, KeysType DEF CursorTypes
  <2> QED BY <2>1
<1>5. IdBy(observer, drawn) = NoShape
  BY DEF CursorInit, IdBy
<1>6. st = << <<>>, NoShape >> /\ st \in States
  <2>1. <<>> \in Seq(AllIds)
    OBVIOUS
  <2>2. << <<>>, NoShape >> \in States
    BY <2>1 DEF States
  <2> QED BY <1>4, <1>5, <2>2
<1> HIDE DEF st
<1>7. g \in Seq(States) /\ Len(g) = 1 /\ g[1] = st
  BY <1>6
<1>8. Chain(g, Way)
  BY <1>2, <1>7 DEF Chain
<1>9. g[Len(g)][1] = order
  BY <1>6, <1>7 DEF CursorInit
<1>10. lastId = NoPlace
  BY DEF CursorInit
<1> QED BY <1>1, <1>3, <1>7, <1>8, <1>9, <1>10 DEF CursorInv, CachesInStep, st

(* The host sends a message: the caches are in step after it, too.         *)
LEMMA SendKeepsStep ==
  ASSUME CursorInv, NEW msg \in Msgs,
         msg.kind = "cached" => Contains(order, msg.id),
         msg.kind = "shape" => IdBy(observer, msg.shape) = msg.id,
         stream' = stream, outbound' = Append(outbound, msg),
         UNCHANGED <<observer, drawn, sinkCache, breaks>>,
         \A st : st[1] = order => After(st, msg)[1] = order',
         \A st : st[1] = order /\ ~missed' /\ lastId' # NoPlace
                   /\ (~missed /\ lastId # NoPlace => st[2] = lastId) => After(st, msg)[2] = lastId'
  PROVE  OwnIds' /\ CachesInStep' /\ outbound' \in Seq(Msgs)
<1>1. stream \in Seq(Msgs) /\ outbound \in Seq(Msgs)
  BY DEF CursorInv, CursorTypes
<1>2. Way' = Append(Way, msg) /\ outbound' \in Seq(Msgs)
  BY <1>1, SentWay DEF Way
<1>3. Way \in Seq(Msgs)
  BY <1>1, ConcatProperties DEF Way
<1>4. /\ Len(Way') = Len(Way) + 1 /\ Way'[Len(Way) + 1] = msg /\ Len(Way) \in Nat
      /\ \A i \in 1 .. Len(Way) : Way'[i] = Way[i]
  BY <1>2, <1>3, AppendProperties, LenProperties
<1>5. OwnIds'
  <2>1. \A i \in 1 .. Len(sinkCache') : IdBy(observer', sinkCache'[i][2]) = sinkCache'[i][1]
    BY DEF CursorInv, OwnIds
  <2>2. ASSUME NEW i \in 1 .. Len(Way'), Way'[i].kind = "shape"
        PROVE  IdBy(observer, Way'[i].shape) = Way'[i].id
    <3>1. CASE i = Len(Way) + 1
      BY <1>4, <2>2, <3>1
    <3>2. CASE i # Len(Way) + 1
      <4>1. i \in 1 .. Len(Way) /\ Way'[i] = Way[i]
        BY <1>4, <3>2
      <4> QED BY <2>2, <4>1 DEF CursorInv, OwnIds
    <3> QED BY <3>1, <3>2
  <2>3. \A i \in 1 .. Len(Way') :
          Way'[i].kind = "shape" => IdBy(observer', Way'[i].shape) = Way'[i].id
    BY <2>2
  <2> QED BY <2>1, <2>3 DEF OwnIds
<1>6. CachesInStep'
  <2> SUFFICES ASSUME breaks = 0 PROVE CachesInStep'
    BY DEF CachesInStep
  <2>1. PICK g \in Seq(States) :
          /\ Chain(g, Way)
          /\ g[1] = <<Keys(sinkCache), IdBy(observer, drawn)>>
          /\ g[Len(g)][1] = order
          /\ ~missed /\ lastId # NoPlace => g[Len(g)][2] = lastId
    BY DEF CursorInv, CachesInStep
  <2>2. msg.kind = "cached" => Contains(g[Len(g)][1], msg.id)
    BY <2>1
  <2>3. PICK h \in Seq(States) :
          /\ Chain(h, Append(Way, msg))
          /\ h[1] = g[1] /\ h[Len(h)] = After(g[Len(g)], msg)
    BY <1>3, <2>1, <2>2, ChainGrows
  <2>4. h[1] = <<Keys(sinkCache'), IdBy(observer', drawn')>>
    BY <2>1, <2>3
  <2>5. h[Len(h)][1] = order'
    BY <2>1, <2>3
  <2>6. ~missed' /\ lastId' # NoPlace => h[Len(h)][2] = lastId'
    BY <2>1, <2>3
  <2>7. Chain(h, Way')
    BY <1>2, <2>3
  <2> QED BY <2>4, <2>5, <2>6, <2>7 DEF CachesInStep
<1> QED BY <1>2, <1>5, <1>6

(* The way and the two ends stay: so does what is between them.            *)
LEMMA SameWayKeepsStep ==
  ASSUME CursorInv, Way' = Way, UNCHANGED <<observer, drawn, sinkCache, breaks, order>>,
         missed' \/ (missed' = missed /\ lastId' = lastId)
  PROVE  OwnIds' /\ CachesInStep'
<1>1. OwnIds'
  BY DEF CursorInv, OwnIds
<1>2. CachesInStep'
  <2> SUFFICES ASSUME breaks = 0 PROVE CachesInStep'
    BY DEF CachesInStep
  <2>1. PICK g \in Seq(States) :
          /\ Chain(g, Way)
          /\ g[1] = <<Keys(sinkCache), IdBy(observer, drawn)>>
          /\ g[Len(g)][1] = order
          /\ ~missed /\ lastId # NoPlace => g[Len(g)][2] = lastId
    BY DEF CursorInv, CachesInStep
  <2>2. g[1] = <<Keys(sinkCache'), IdBy(observer', drawn')>>
    BY <2>1
  <2>3. ~missed' /\ lastId' # NoPlace => g[Len(g)][2] = lastId'
    BY <2>1
  <2>4. Chain(g, Way') /\ g[Len(g)][1] = order'
    BY <2>1
  <2> QED BY <2>2, <2>3, <2>4 DEF CachesInStep
<1> QED BY <1>1, <1>2

(* The controller reads a message: what it has is the next state.          *)
LEMMA ReadKeepsStep ==
  ASSUME CursorInv, ControllerReads
  PROVE  CursorInv'
<1> DEFINE msg == Head(stream)
<1>1. CursorTypes /\ stream \in Seq(Msgs) /\ outbound \in Seq(Msgs) /\ stream # <<>>
  BY DEF CursorInv, CursorTypes, ControllerReads
<1>2. /\ Way # <<>> /\ Way[1] = msg /\ msg \in Msgs /\ Way' = Tail(Way)
      /\ stream' \in Seq(Msgs) /\ Way \in Seq(Msgs)
  <2>1. stream' = Tail(stream) /\ outbound' = outbound
    BY DEF ControllerReads
  <2> QED BY <1>1, <2>1, ReadWay, ConcatProperties DEF Way
<1>3. /\ Len(Way) \in Nat /\ Len(Way) >= 1 /\ Len(Way') = Len(Way) - 1
      /\ \A i \in 1 .. Len(Way) - 1 : Way'[i] = Way[i + 1]
  BY <1>2, HeadTailProperties, LenProperties
<1>4. msg.kind = "shape" => IdBy(observer, msg.shape) = msg.id
  <2>1. 1 \in 1 .. Len(Way)
    BY <1>3
  <2> QED BY <1>2, <2>1 DEF CursorInv, OwnIds
<1>5. UNCHANGED <<observer, cursor, place, lastId, order, outbound, missed, breaks>> /\ Draws(msg)
  BY DEF ControllerReads
<1> HIDE DEF msg
<1>6. ASSUME NEW i \in 1 .. Len(Way'), Way'[i].kind = "shape"
      PROVE  IdBy(observer', Way'[i].shape) = Way'[i].id
  <2>1. Way'[i] = Way[i + 1] /\ i + 1 \in 1 .. Len(Way)
    BY <1>3
  <2>2. IdBy(observer, Way[i + 1].shape) = Way[i + 1].id
    BY <1>6, <2>1 DEF CursorInv, OwnIds
  <2> QED BY <1>5, <2>1, <2>2
<1>7. \A i \in 1 .. Len(sinkCache) : IdBy(observer, sinkCache[i][2]) = sinkCache[i][1]
  BY DEF CursorInv, OwnIds
<1>8. /\ drawn' \in Shapes \cup {NoShape} /\ sinkCache' \in Seq(AllIds \X Shapes)
      /\ \A i \in 1 .. Len(sinkCache') : IdBy(observer, sinkCache'[i][2]) = sinkCache'[i][1]
      /\ (msg.kind = "cached" => Contains(Keys(sinkCache), msg.id)) =>
           After(<<Keys(sinkCache), IdBy(observer, drawn)>>, msg)
             = <<Keys(sinkCache'), IdBy(observer, drawn')>>
  BY <1>1, <1>2, <1>4, <1>5, <1>7, DrawsFits
<1>9. OwnIds'
  <2>1. \A i \in 1 .. Len(sinkCache') : IdBy(observer', sinkCache'[i][2]) = sinkCache'[i][1]
    BY <1>5, <1>8
  <2> QED BY <1>6, <2>1 DEF OwnIds
<1>10. CursorTypes'
  BY <1>1, <1>2, <1>5, <1>8 DEF CursorTypes
<1>11. CachesInStep'
  <2> SUFFICES ASSUME breaks = 0 PROVE CachesInStep'
    BY <1>5 DEF CachesInStep
  <2>1. PICK g \in Seq(States) :
          /\ Chain(g, Way)
          /\ g[1] = <<Keys(sinkCache), IdBy(observer, drawn)>>
          /\ g[Len(g)][1] = order
          /\ ~missed /\ lastId # NoPlace => g[Len(g)][2] = lastId
    BY DEF CursorInv, CachesInStep
  <2>2. /\ Tail(g) \in Seq(States) /\ Chain(Tail(g), Tail(Way))
        /\ Tail(g)[1] = After(g[1], Way[1])
        /\ Tail(g)[Len(Tail(g))] = g[Len(g)]
        /\ Way[1].kind = "cached" => Contains(g[1][1], Way[1].id)
    BY <1>2, <2>1, ChainShrinks
  <2>3. msg.kind = "cached" => Contains(Keys(sinkCache), msg.id)
    BY <1>2, <2>1, <2>2
  <2>4. Tail(g)[1] = <<Keys(sinkCache'), IdBy(observer', drawn')>>
    BY <1>2, <1>5, <1>8, <2>1, <2>2, <2>3
  <2> QED BY <1>2, <1>5, <2>1, <2>2, <2>4 DEF CachesInStep
<1> QED BY <1>9, <1>10, <1>11 DEF CursorInv

(* A connection breaks: nothing is claimed of the caches any more.         *)
LEMMA BreakKeepsStep ==
  ASSUME CursorInv, ConnectionBreaks PROVE CursorInv'
<1>1. CursorTypes /\ stream \in Seq(Msgs) /\ outbound \in Seq(Msgs)
  BY DEF CursorInv, CursorTypes
<1>2. /\ UNCHANGED <<observer, cursor, place, order, outbound, drawn, sinkCache>>
      /\ stream' = <<>> /\ breaks' = breaks + 1 /\ breaks \in Nat
  BY <1>1 DEF ConnectionBreaks, CursorTypes
<1>3. stream' \in Seq(Msgs)
  BY <1>2
<1>4. Len(stream) \in Nat /\ Len(outbound) \in Nat
  BY <1>1, LenProperties
<1>5. Way' \in Seq(Msgs) /\ Len(Way') = Len(outbound)
  <2>1. Len(stream') = 0
    BY <1>2
  <2>2. Way' \in Seq(Msgs) /\ Len(Way') = Len(stream') + Len(outbound)
    BY <1>1, <1>2, <1>3, ConcatProperties DEF Way
  <2> QED BY <1>4, <2>1, <2>2
<1>6. ASSUME NEW i \in 1 .. Len(Way'), Way'[i].kind = "shape"
      PROVE  IdBy(observer', Way'[i].shape) = Way'[i].id
  <2>1. Way'[i] = outbound[i]
    <3>1. Len(stream') = 0 /\ i \in 1 .. Len(stream') + Len(outbound)
      BY <1>2, <1>4, <1>5
    <3>2. Way'[i] = IF i <= Len(stream') THEN stream'[i] ELSE outbound[i - Len(stream')]
      BY <1>1, <1>2, <1>3, <3>1, ConcatProperties DEF Way
    <3> QED BY <1>4, <1>5, <3>1, <3>2
  <2> DEFINE j == i + Len(stream)
  <2>2. j \in 1 .. Len(stream) + Len(outbound) /\ ~(j <= Len(stream)) /\ j - Len(stream) = i
    BY <1>4, <1>5
  <2>3. Way[j] = outbound[i] /\ j \in 1 .. Len(Way)
    <3> HIDE DEF j
    <3>1. Len(Way) = Len(stream) + Len(outbound)
      BY <1>1, ConcatProperties DEF Way
    <3>2. Way[j] = IF j <= Len(stream) THEN stream[j] ELSE outbound[j - Len(stream)]
      BY <1>1, <2>2, ConcatProperties DEF Way
    <3> QED BY <2>2, <3>1, <3>2
  <2> HIDE DEF j
  <2>4. IdBy(observer, Way[j].shape) = Way[j].id
    BY <1>6, <2>1, <2>3 DEF CursorInv, OwnIds
  <2> QED BY <1>2, <2>1, <2>3, <2>4
<1>7. \A i \in 1 .. Len(sinkCache') : IdBy(observer', sinkCache'[i][2]) = sinkCache'[i][1]
  BY <1>2 DEF CursorInv, OwnIds
<1>8. OwnIds'
  BY <1>6, <1>7 DEF OwnIds
<1>9. CachesInStep'
  BY <1>2 DEF CachesInStep
<1>10. CursorTypes'
  BY <1>1, <1>2, <1>3 DEF CursorTypes
<1> QED BY <1>8, <1>9, <1>10 DEF CursorInv

(* Every step of the cursor keeps the caches in step.                      *)
LEMMA CursorStep == CursorInv /\ [CursorNext]_cursorVars => CursorInv'
<1> SUFFICES ASSUME CursorInv, [CursorNext]_cursorVars PROVE CursorInv'
  OBVIOUS
<1> USE DEF CursorInv
<1>1. CursorTypes
  OBVIOUS
<1>2. ASSUME NEW s \in Shapes \cup {NoShape}, NEW p \in Places, CursorChanges(s, p) PROVE CursorInv'
  <2>1. /\ UNCHANGED <<observer, order, outbound, stream, drawn, sinkCache, breaks, missed, lastId>>
        /\ cursor' = s /\ place' = p
    BY <1>2 DEF CursorChanges
  <2>2. Way' = Way
    BY <2>1 DEF Way
  <2>3. OwnIds' /\ CachesInStep'
    BY <2>1, <2>2, SameWayKeepsStep
  <2> QED BY <1>1, <2>1, <2>3 DEF CursorTypes
<1>3. CASE ShapeReport
  <2>1. /\ UNCHANGED <<observer, cursor, place, stream, drawn, sinkCache, breaks>>
        /\ lastId' = IdBy(observer, cursor) /\ missed' = ~QueueRoom
        /\ order' = Recorded(cursor) /\ outbound' = Offered(ShapeMsg(cursor))
    BY <1>3, IdOfIsIdBy DEF ShapeReport
  <2>2. order' \in Seq(AllIds)
    BY <1>1, <2>1, ShapeMsgFits
  <2>3. CASE QueueRoom
    <3> DEFINE msg == ShapeMsg(cursor)
    <3>1. /\ msg \in Msgs
          /\ msg.kind = "cached" => Contains(order, msg.id)
          /\ msg.kind = "shape" => IdBy(observer, msg.shape) = msg.id
          /\ \A st : st[1] = order =>
               After(st, msg) = <<Recorded(cursor), IdBy(observer, cursor)>>
      BY <1>1, <2>3, ShapeMsgFits
    <3>2. outbound' = Append(outbound, msg)
      BY <2>1, <2>3 DEF Offered
    <3> HIDE DEF msg
    <3>3. \A st : st[1] = order => After(st, msg)[1] = order' /\ After(st, msg)[2] = lastId'
      BY <2>1, <3>1
    <3>4. OwnIds' /\ CachesInStep' /\ outbound' \in Seq(Msgs)
      BY <2>1, <3>1, <3>2, <3>3, SendKeepsStep
    <3> QED BY <1>1, <2>1, <2>2, <3>4 DEF CursorTypes
  <2>4. CASE ~QueueRoom
    <3>1. outbound' = outbound /\ order' = order /\ missed'
      BY <2>1, <2>4 DEF Offered, Recorded
    <3>2. Way' = Way
      BY <2>1, <3>1 DEF Way
    <3>3. OwnIds' /\ CachesInStep'
      BY <2>1, <3>1, <3>2, SameWayKeepsStep
    <3> QED BY <1>1, <2>1, <2>2, <3>1, <3>3 DEF CursorTypes
  <2> QED BY <2>3, <2>4
<1>4. CASE MoveReport
  <2>1. /\ UNCHANGED <<observer, cursor, place, lastId, order, stream,
                       drawn, sinkCache, missed, breaks>>
        /\ outbound' = outbound \/ outbound' = Append(outbound, [kind |-> "position", at |-> place])
    BY <1>4 DEF MoveReport
  <2>2. CASE outbound' = outbound
    <3>1. Way' = Way
      BY <2>1, <2>2 DEF Way
    <3>2. OwnIds' /\ CachesInStep'
      BY <2>1, <3>1, SameWayKeepsStep
    <3> QED BY <1>1, <2>1, <2>2, <3>2 DEF CursorTypes
  <2>3. CASE outbound' = Append(outbound, [kind |-> "position", at |-> place])
    <3> DEFINE msg == [kind |-> "position", at |-> place]
    <3>1. msg \in Msgs /\ msg.kind = "position"
      BY <1>1 DEF Msgs, CursorTypes
    <3> HIDE DEF msg
    <3>2. \A st : After(st, msg) = <<st[1], st[2]>>
      BY <3>1 DEF After
    <3>3. \A st : After(st, msg)[1] = st[1] /\ After(st, msg)[2] = st[2]
      BY <3>2
    <3>4. outbound' = Append(outbound, msg)
      BY <2>3 DEF msg
    <3>5. OwnIds' /\ CachesInStep' /\ outbound' \in Seq(Msgs)
      BY <2>1, <3>1, <3>3, <3>4, SendKeepsStep
    <3> QED BY <1>1, <2>1, <3>5 DEF CursorTypes
  <2> QED BY <2>1, <2>2, <2>3
<1>5. CASE IntervalPasses \/ ServedAgain \/ UNCHANGED cursorVars
  <2>1. UNCHANGED <<observer, cursor, place, lastId, order, outbound, stream,
                    drawn, sinkCache, missed,
                    breaks>>
    BY <1>5 DEF IntervalPasses, ServedAgain, cursorVars
  <2>2. Way' = Way
    BY <2>1 DEF Way
  <2>3. OwnIds' /\ CachesInStep'
    BY <2>1, <2>2, SameWayKeepsStep
  <2> QED BY <1>1, <2>1, <2>3 DEF CursorTypes
<1>6. CASE LoopForwards
  <2>1. /\ UNCHANGED <<observer, cursor, place, lastId, order, drawn, sinkCache, missed, breaks>>
        /\ outbound # <<>> /\ stream' = Append(stream, Head(outbound)) /\ outbound' = Tail(outbound)
    BY <1>6 DEF LoopForwards
  <2>2. Way' = Way /\ stream' \in Seq(Msgs) /\ outbound' \in Seq(Msgs)
    BY <1>1, <2>1, ForwardedWay DEF Way, CursorTypes
  <2>3. OwnIds' /\ CachesInStep'
    BY <2>1, <2>2, SameWayKeepsStep
  <2> QED BY <1>1, <2>1, <2>2, <2>3 DEF CursorTypes
<1>7. CASE ConnectionBreaks
  BY <1>7, BreakKeepsStep
<1>8. CASE ControllerReads
  BY <1>8, ReadKeepsStep
<1> QED BY <1>2, <1>3, <1>4, <1>5, <1>6, <1>7, <1>8 DEF CursorNext

(* With nothing on its way there is one state: the two ends agree.         *)
LEMMA CursorGood == CursorInv => DrawsTheReport
<1> SUFFICES ASSUME CursorInv, AllArrived, breaks = 0, lastId # NoPlace PROVE IdOf(drawn) = lastId
  BY DEF DrawsTheReport
<1>1. Way = <<>>
  BY DEF AllArrived, Way
<1>2. PICK g \in Seq(States) :
        /\ Chain(g, Way)
        /\ g[1] = <<Keys(sinkCache), IdBy(observer, drawn)>>
        /\ g[Len(g)][2] = lastId
  BY DEF CursorInv, CachesInStep, AllArrived
<1>3. Len(g) = 1
  BY <1>1, <1>2 DEF Chain
<1>4. IdBy(observer, drawn) = lastId
  BY <1>2, <1>3
<1> QED BY <1>4 DEF IdOf, IdBy

(* A decoder is made for the format of the last packets.                   *)
LEMMA PlayerStep == DecoderFitsPackets /\ [PlayerNext]_playerVars => DecoderFitsPackets'
BY DEF DecoderFitsPackets, PlayerNext, playerVars, NewFormat, PlayerReconfigured, Decodes, Answered,
       Plays, DecoderFails, Resumes, Reset

(* Whatever the host's cursor does, with any capacity of the caches and    *)
(* any depth of the queue: when everything sent over one connection has    *)
(* arrived and the last report was not dropped, the viewer draws the shape *)
(* last reported (cursor_pump and CursorCache of session.rs); and sound is *)
(* decoded by a decoder of the packets' format (audio.js).                 *)
THEOREM ViewerIsCurrent == Spec => []ViewerFollows
<1>1. Init => CursorInv /\ DecoderFitsPackets
  BY CursorInitial DEF Init, PlayerInit, DecoderFitsPackets
<1>2. [Next]_vars => [CursorNext]_cursorVars /\ [PlayerNext]_playerVars
  BY DEF Next, vars, Sink, Remote, Player, Cursor, MediaThread, Signalling
<1>3. CursorInv /\ DecoderFitsPackets /\ [Next]_vars => (CursorInv /\ DecoderFitsPackets)'
  BY <1>2, CursorStep, PlayerStep
<1>4. CursorInv /\ DecoderFitsPackets => ViewerFollows
  BY CursorGood DEF ViewerFollows
<1> QED BY <1>1, <1>3, <1>4, PTL DEF Spec

-------------------------------------------------------------------------------
(* What an envelope is about.                                               *)
Name(a) == <<a.kind, a.of>>
KeyEdge(e) == e.action.kind = "key"

KeyActions == [kind : {"key"}, of : Plain \cup Mods, down : BOOLEAN, mods : SUBSET Mods]
ButtonActions == [kind : {"button"}, of : PointerButtons, down : BOOLEAN, mods : SUBSET Mods]
SentActions == KeyActions \cup ButtonActions \cup {ControlRequest}
Envelope == [lease : Nat, action : SentActions]

(* Nothing in w will be refused under lease l.                              *)
AllOf(w, l) == \A i \in 1 .. Len(w) : w[i].action = ControlRequest \/ w[i].lease = l

(* Every element of a finite set is somewhere in SetToSeq of it.            *)
LEMMA SetToSeqOf ==
  ASSUME NEW S, IsFiniteSet(S)
  PROVE  /\ SetToSeq(S) \in Seq(S)
         /\ \A x \in S : \E i \in 1 .. Len(SetToSeq(S)) : SetToSeq(S)[i] = x
<1>1. Cardinality(S) \in Nat /\ ExistsBijection(1 .. Cardinality(S), S)
  BY FS_CardinalityType
<1>2. PICK n \in Nat : n = Cardinality(S)
  BY <1>1
<1>3. PICK f \in Bijection(1 .. n, S) : TRUE
  BY <1>1, <1>2 DEF ExistsBijection
<1>4. f \in [1 .. n -> S] /\ IsInjective(f)
  BY <1>3 DEF Bijection, Injection, IsInjective
<1>5. PICK s : s = SetToSeq(S)
  OBVIOUS
<1>6. s \in [1 .. n -> S] /\ IsInjective(s)
  BY <1>2, <1>4, <1>5 DEF SetToSeq
<1>7. s \in Injection(1 .. n, S)
  BY <1>6 DEF Injection, IsInjective
<1>8. s \in Surjection(1 .. n, S)
  <2>1. IsFiniteSet(1 .. n) /\ Cardinality(1 .. n) = n
    BY FS_Interval
  <2> QED BY <1>2, <1>7, <2>1, FS_Injection
<1>9. s \in Seq(S) /\ Len(s) = n
  BY <1>6
<1> QED BY <1>5, <1>8, <1>9 DEF Surjection

(* Keys and buttons the page will release.                                  *)
PageNames == { <<"key", u>> : u \in heldKeys } \cup { <<"button", b>> : b \in heldButtons }

SinkFits ==
  /\ backend \in Backends
  /\ os \in [down : SUBSET Codes, caps : BOOLEAN]
  /\ sink \in [keys : SUBSET Codes, buttons : SUBSET Codes, mods : SUBSET Mods, caps : BOOLEAN]

(* The back end of the whole way: no edge fails, nothing was left behind.   *)
X11Host ==
  /\ backend = "x11" /\ failures = 0 /\ lost = {} /\ tapped = {}
  /\ sink.keys \subseteq { Code(u) : u \in Plain \cup Mods }
  /\ sink.buttons \subseteq { Button(b) : b \in PointerButtons }

(* Leases grow, and no news of one comes twice.                             *)
Wires ==
  /\ wire \in Seq(Envelope) /\ notices \in Seq(Nat)
  /\ lease \in Nat /\ leases \in Nat /\ viewerLease \in Nat
  /\ lease <= leases /\ viewerLease <= leases
  /\ \A i \in 1 .. Len(wire) : /\ wire[i].lease <= leases
                               /\ wire[i].action # ControlRequest => wire[i].lease # 0
  /\ \A i \in 1 .. Len(notices) : notices[i] <= leases
  /\ \A i, j \in 1 .. Len(notices) : i < j /\ notices[j] # 0 => notices[i] # notices[j]

(* Between the gate and the dispatch the lease can only end, and a lease is *)
(* only replaced once it has ended.                                         *)
Phases ==
  /\ ctl = "dispatch" => /\ taken \in 1 .. Len(wire) /\ wire[taken].action # ControlRequest
                         /\ lease \in {0, wire[taken].lease}
                         /\ InOrder => taken = 1
  /\ ctl \in {"flush", "issue"} => lease = 0

(* Under no lease, and under one the viewer has yet to hear of, nothing is  *)
(* down that the page does not know of as missed.                           *)
NewLeaseIsClean ==
  /\ lease = 0 /\ ~unseen => os.down = {}
  /\ \A j \in 1 .. Len(notices) : lease # 0 /\ notices[j] = lease =>
       /\ viewerLease # lease /\ (~unseen => os.down = {})
       /\ \A i \in 1 .. Len(wire) : wire[i].lease # lease

Page ==
  /\ heldKeys \subseteq Plain \cup Mods /\ heldButtons \subseteq PointerButtons
  /\ IsFiniteSet(heldKeys) /\ IsFiniteSet(heldButtons)
  /\ ~controlling => heldKeys = {} /\ heldButtons = {}
  /\ ~unseen => keyboard \subseteq Plain \cup Mods
  /\ ~unseen /\ controlling => heldKeys = { RemapHid(u) : u \in keyboard }

(* DownWithoutLease; before a late dispatch nothing is down at all.         *)
Down ==
  lease = 0 /\ ctl # "flush" /\ sweep = "idle" =>
    IF ctl = "dispatch" THEN os.down = {} ELSE os.down \subseteq Chord(late)

Current == lease # 0 /\ viewerLease = lease

RemoteInv == X11Host /\ Wires /\ Phases /\ NewLeaseIsClean /\ Page /\ Down

InputInv == SinkFits /\ SafeToRelease /\ (part = "remote" => RemoteInv)

(* The steps of the back ends.                                              *)
LEMMA SinkInitial == SinkInit => SinkFits /\ SafeToRelease
BY DEF SinkInit, SinkFits, SafeToRelease, Tracked

(* Codes the tables give are codes.                                         *)
LEMMA CodesAre ==
  /\ \A u \in Plain \cup Mods : Code(u) \in Codes
  /\ \A i \in Mods : Modifier(i) \in Codes
  /\ \A b \in PointerButtons : Button(b) \in Codes
  /\ CapsKey \in Codes /\ WheelKey \in Codes /\ NullKey \in Codes
BY DEF Codes

(* The edges of one key event, wherever they stop.                          *)
LEMMA KeyByEdgesSafe ==
  ASSUME SinkFits, SafeToRelease, NEW u \in Plain \cup Mods, NEW down \in BOOLEAN, NEW want,
         KeyByEdges(u, down, want)
  PROVE  SinkFits' /\ SafeToRelease'
<1>1. PICK cut \in Cuts(want) :
        LET done == { i \in Differing(want) : i < cut }
            withMods == (os.down \ { Modifier(i) : i \in done \ want })
                        \cup { Modifier(i) : i \in done \cap want }
            whole == cut = NMods + 2
        IN /\ os' = [os EXCEPT !.down = IF whole THEN Edge(withMods, Code(u), down) ELSE withMods]
           /\ sink' = [sink EXCEPT !.mods = Reconciled(@, want, cut),
                                   !.keys = IF whole THEN Edge(@, Code(u), down) ELSE @]
           /\ UNCHANGED <<backend, toggles, lost, tapped>>
  BY DEF KeyByEdges
<1> DEFINE done == { i \in Differing(want) : i < cut }
           withMods == (os.down \ { Modifier(i) : i \in done \ want })
                       \cup { Modifier(i) : i \in done \cap want }
           whole == cut = NMods + 2
           keys == IF whole THEN Edge(sink.keys, Code(u), down) ELSE sink.keys
           mods == Reconciled(sink.mods, want, cut)
           downs == IF whole THEN Edge(withMods, Code(u), down) ELSE withMods
<1>2. UNCHANGED <<backend, lost, tapped>>
  BY <1>1
<1>3. os' = [os EXCEPT !.down = downs]
  BY <1>1
<1>4. sink' = [sink EXCEPT !.mods = mods, !.keys = keys]
  BY <1>1
<1>5. /\ os \in [down : SUBSET Codes, caps : BOOLEAN]
      /\ sink \in [keys : SUBSET Codes, buttons : SUBSET Codes, mods : SUBSET Mods, caps : BOOLEAN]
  BY DEF SinkFits
<1>6. \A i \in Mods : i \in mods <=> IF i < cut THEN i \in want ELSE i \in sink.mods
  BY DEF Reconciled
<1>7. \A i \in done : i \in Mods /\ i < cut
  BY DEF Differing
<1>8. \A x \in withMods : \/ x \in os.down /\ ~\E i \in done \ want : x = Modifier(i)
                          \/ \E i \in done \cap want : x = Modifier(i)
  OBVIOUS
<1>9. \A i \in Mods : i < cut /\ i \notin want /\ i \in sink.mods => i \in done \ want
  BY DEF Differing
<1>10. withMods \subseteq Codes
  BY <1>5, <1>7, <1>8, CodesAre
<1>11. mods \subseteq Mods
  BY DEF Reconciled
<1>12. \A x \in withMods : x \in lost \cup tapped \/ x \in sink.keys \/ x \in sink.buttons
                           \/ \E i \in mods : x = Modifier(i)
  <2> SUFFICES ASSUME NEW x \in withMods, x \notin lost \cup tapped
               PROVE  x \in sink.keys \/ x \in sink.buttons \/ \E i \in mods : x = Modifier(i)
    OBVIOUS
  <2>1. CASE \E i \in done \cap want : x = Modifier(i)
    BY <1>6, <1>7, <2>1
  <2>2. CASE x \in os.down /\ ~\E i \in done \ want : x = Modifier(i)
    <3>1. x \in sink.keys \/ x \in sink.buttons \/ \E i \in sink.mods : x = Modifier(i)
      BY <2>2 DEF SafeToRelease, Tracked
    <3>2. ASSUME NEW i \in sink.mods, x = Modifier(i) PROVE i \in mods
      <4>1. i \in Mods /\ i \notin done \ want
        BY <1>5, <2>2, <3>2
      <4> QED BY <1>6, <1>9, <4>1
    <3> QED BY <3>1, <3>2
  <2> QED BY <1>8, <2>1, <2>2
<1> HIDE DEF done, withMods, mods
<1>13. keys \subseteq Codes /\ downs \subseteq Codes
  BY <1>5, <1>10, CodesAre DEF Edge
<1>14. \A x \in downs : x \in lost \cup tapped \/ x \in keys \/ x \in sink.buttons
                        \/ \E i \in mods : x = Modifier(i)
  BY <1>12 DEF Edge
<1> HIDE DEF keys, downs
<1>15. os'.down = downs /\ os' \in [down : SUBSET Codes, caps : BOOLEAN]
  BY <1>3, <1>5, <1>13
<1>16. /\ sink'.keys = keys /\ sink'.mods = mods /\ sink'.buttons = sink.buttons
       /\ sink' \in [keys : SUBSET Codes, buttons : SUBSET Codes, mods : SUBSET Mods,
            caps : BOOLEAN]
  BY <1>4, <1>5, <1>11, <1>13
<1>17. Codes' = Codes
  BY <1>2 DEF Codes, Code
<1> QED BY <1>2, <1>14, <1>15, <1>16, <1>17 DEF SinkFits, SafeToRelease, Tracked

(* A press and a release in one call.                                       *)
LEMMA TapSafe ==
  ASSUME NEW code \in Codes, NEW after \in [down : SUBSET Codes, caps : BOOLEAN],
         SinkFits, after.down = os.down, Tap(code, after)
  PROVE  /\ os' \in [down : SUBSET Codes, caps : BOOLEAN]
         /\ os'.down \ tapped' \subseteq os.down \ tapped
BY DEF Tap, SinkFits

(* What is down at the system, the back end will release or has lost track of. *)
LEMMA SinkNextSafe ==
  ASSUME SinkFits, SafeToRelease, [SinkNext]_sinkVars PROVE SinkFits' /\ SafeToRelease'
<1>1. /\ backend \in Backends
      /\ os \in [down : SUBSET Codes, caps : BOOLEAN]
      /\ sink \in [keys : SUBSET Codes, buttons : SUBSET Codes, mods : SUBSET Mods, caps : BOOLEAN]
  BY DEF SinkFits
<1>2. backend' = backend => Codes' = Codes
  BY DEF Codes, Code
<1>3. ASSUME NEW u \in Plain \cup Mods, NEW down \in BOOLEAN, NEW want, SinkKey(u, down, want)
      PROVE  SinkFits' /\ SafeToRelease'
  <2>1. CASE KeyByEdges(u, down, want)
    BY <2>1, KeyByEdgesSafe
  <2>2. CASE MacKey(u, down, want)
    <3>1. UNCHANGED <<backend, lost, tapped>> /\ Code(u) \in Codes
      BY <2>2, CodesAre DEF MacKey
    <3>2. CASE UNCHANGED <<os, sink>>
      BY <1>1, <1>2, <3>1, <3>2 DEF SinkFits, SafeToRelease, Tracked
    <3>3. CASE /\ os' = [os EXCEPT !.down = Edge(@, Code(u), down)]
               /\ sink' = [sink EXCEPT !.keys = Edge(@, Code(u), down)]
      <4>1. /\ os'.down = Edge(os.down, Code(u), down)
            /\ os' \in [down : SUBSET Codes, caps : BOOLEAN]
        BY <1>1, <3>1, <3>3 DEF Edge
      <4>2. /\ sink'.keys = Edge(sink.keys, Code(u), down)
            /\ sink'.buttons = sink.buttons /\ sink'.mods = sink.mods
            /\ sink' \in [keys : SUBSET Codes, buttons : SUBSET Codes, mods : SUBSET Mods,
                 caps : BOOLEAN]
        BY <1>1, <3>1, <3>3 DEF Edge
      <4> QED BY <1>1, <1>2, <3>1, <4>1, <4>2 DEF SinkFits, SafeToRelease, Tracked, Edge
    <3> QED BY <2>2, <3>2, <3>3 DEF MacKey
  <2> QED BY <1>3, <2>1, <2>2 DEF SinkKey, X11Key, UInputKey, WindowsKey
<1>4. ASSUME NEW b \in PointerButtons, NEW down \in BOOLEAN, SinkButton(b, down)
      PROVE  SinkFits' /\ SafeToRelease'
  <2>1. ButtonEdge(b, down)
    BY <1>4 DEF SinkButton, X11Button, UInputButton, WindowsButton, MacButton
  <2>2. UNCHANGED <<backend, lost, tapped>> /\ Button(b) \in Codes
    BY <2>1, CodesAre DEF ButtonEdge
  <2>3. CASE UNCHANGED <<os, sink>>
    BY <1>1, <1>2, <2>2, <2>3 DEF SinkFits, SafeToRelease, Tracked
  <2>4. CASE /\ os' = [os EXCEPT !.down = Edge(@, Button(b), down)]
             /\ sink' = [sink EXCEPT !.buttons = Edge(@, Button(b), down)]
    <3>1. /\ os'.down = Edge(os.down, Button(b), down)
          /\ os' \in [down : SUBSET Codes, caps : BOOLEAN]
      BY <1>1, <2>2, <2>4 DEF Edge
    <3>2. /\ sink'.buttons = Edge(sink.buttons, Button(b), down)
          /\ sink'.keys = sink.keys /\ sink'.mods = sink.mods
          /\ sink' \in [keys : SUBSET Codes, buttons : SUBSET Codes, mods : SUBSET Mods,
               caps : BOOLEAN]
      BY <1>1, <2>2, <2>4 DEF Edge
    <3> QED BY <1>1, <1>2, <2>2, <3>1, <3>2 DEF SinkFits, SafeToRelease, Tracked, Edge
  <2> QED BY <2>1, <2>3, <2>4 DEF ButtonEdge
<1>5. CASE X11Wheel \/ TypeText
  <2>1. UNCHANGED <<backend, sink, lost>> /\ (Tap(WheelKey, os) \/ Tap(NullKey, os))
    BY <1>5 DEF X11Wheel, TypeText
  <2>2. os' \in [down : SUBSET Codes, caps : BOOLEAN] /\
          os'.down \ tapped' \subseteq os.down \ tapped
    BY <1>1, <2>1, TapSafe, CodesAre
  <2> QED BY <1>1, <1>2, <2>1, <2>2 DEF SinkFits, SafeToRelease, Tracked
<1>6. CASE LocalCaps
  <2>1. UNCHANGED <<backend, sink, lost, tapped>> /\ os' = [os EXCEPT !.caps = ~@]
    BY <1>6 DEF LocalCaps
  <2>2. os'.down = os.down /\ os' \in [down : SUBSET Codes, caps : BOOLEAN]
    BY <1>1, <2>1
  <2> QED BY <1>1, <1>2, <2>1, <2>2 DEF SinkFits, SafeToRelease, Tracked
<1>7. ASSUME NEW want \in BOOLEAN, SinkSetLock(want) PROVE SinkFits' /\ SafeToRelease'
  <2>1. UNCHANGED <<backend, lost>>
    BY <1>7 DEF SinkSetLock
  <2>2. CASE UNCHANGED <<os, sink, failures, tapped>>
    BY <1>1, <1>2, <2>1, <2>2 DEF SinkFits, SafeToRelease, Tracked
  <2>3. CASE /\ Tap(CapsKey, [os EXCEPT !.caps = ~@])
             /\ sink' = [sink EXCEPT !.caps = IF backend = "uinput" /\ failures' = failures
                                                THEN want ELSE @]
    <3>1. [os EXCEPT !.caps = ~@] \in [down : SUBSET Codes, caps : BOOLEAN]
          /\ [os EXCEPT !.caps = ~@].down = os.down
      BY <1>1
    <3>2. os' \in [down : SUBSET Codes, caps : BOOLEAN] /\
            os'.down \ tapped' \subseteq os.down \ tapped
      BY <2>3, <3>1, TapSafe, CodesAre
    <3>3. /\ sink'.keys = sink.keys /\ sink'.buttons = sink.buttons /\ sink'.mods = sink.mods
          /\ sink' \in [keys : SUBSET Codes, buttons : SUBSET Codes, mods : SUBSET Mods,
               caps : BOOLEAN]
      BY <1>1, <2>3
    <3> QED BY <1>1, <1>2, <2>1, <3>2, <3>3 DEF SinkFits, SafeToRelease, Tracked
  <2> QED BY <1>7, <2>2, <2>3 DEF SinkSetLock
<1>8. ASSUME NEW kept \in SUBSET Tracked, SinkReleaseAll(kept) PROVE SinkFits' /\ SafeToRelease'
  <2>1. /\ os' = [os EXCEPT !.down = (@ \ Tracked) \cup (kept \cap @)]
        /\ sink' = [sink EXCEPT !.keys = {}, !.buttons = {}, !.mods = {}]
        /\ lost' = lost \cup (kept \cap os.down) /\ UNCHANGED <<backend, tapped>>
    BY <1>8 DEF SinkReleaseAll, X11ReleaseAll, WindowsReleaseAll, MacReleaseAll, UInputReleaseAll,
                ReleaseAll
  <2>2. /\ os'.down = (os.down \ Tracked) \cup (kept \cap os.down)
        /\ os' \in [down : SUBSET Codes, caps : BOOLEAN]
    BY <1>1, <2>1
  <2>3. sink' \in [keys : SUBSET Codes, buttons : SUBSET Codes, mods : SUBSET Mods, caps : BOOLEAN]
    BY <1>1, <2>1
  <2>4. \A x \in os'.down : x \in lost' \cup tapped'
    BY <2>1, <2>2 DEF SafeToRelease
  <2> QED BY <1>1, <1>2, <2>1, <2>2, <2>3, <2>4 DEF SinkFits, SafeToRelease
<1>9. CASE UNCHANGED sinkVars
  BY <1>1, <1>2, <1>9 DEF sinkVars, SinkFits, SafeToRelease, Tracked
<1> QED BY <1>3, <1>4, <1>5, <1>6, <1>7, <1>8, <1>9 DEF SinkNext

(* The whole way.  No edge fails: what a call of the sink does.             *)
LEMMA SinkUnchanged ==
  ASSUME X11Host, UNCHANGED sinkVars
  PROVE  X11Host' /\ UNCHANGED <<backend, os, sink, failures>>
BY DEF sinkVars, X11Host, Code, X11Keycode

(* What an action leaves down does not depend on anything that changes.     *)
LEMMA ChordIsSame ==
  ASSUME X11Host, X11Host', UNCHANGED late PROVE Chord(late)' = Chord(late)
<1>1. backend' = backend
  BY DEF X11Host
<1> QED BY <1>1 DEF Chord, Code

(* A step of no task of the host leaves what it left down.                  *)
LEMMA DownStays ==
  ASSUME X11Host, X11Host', Down, UNCHANGED <<lease, taskVars, os>> PROVE Down'
<1>1. UNCHANGED <<ctl, sweep, late>>
  BY DEF taskVars
<1> QED BY <1>1, ChordIsSame DEF Down

(* Envelopes join the stream.                                               *)
LEMMA WiresGrow ==
  ASSUME Wires, NEW r \in Seq(Envelope), wire' = wire \o r,
         UNCHANGED <<lease, leases, viewerLease, notices>>,
         \A i \in 1 .. Len(r) : \/ r[i].action = ControlRequest /\ r[i].lease = 0
                                \/ viewerLease # 0 /\ r[i].lease = viewerLease
  PROVE  Wires'
<1>1. /\ wire \in Seq(Envelope) /\ leases \in Nat /\ viewerLease \in Nat /\ viewerLease <= leases
      /\ \A i \in 1 .. Len(wire) : /\ wire[i].lease <= leases
                                   /\ wire[i].action # ControlRequest => wire[i].lease # 0
  BY DEF Wires
<1> DEFINE z == wire \o r
<1>2. /\ Len(wire) \in Nat /\ Len(r) \in Nat /\ Len(z) = Len(wire) + Len(r) /\ z \in Seq(Envelope)
      /\ \A i \in 1 .. Len(wire) : z[i] = wire[i]
      /\ \A i \in 1 .. Len(z) : i > Len(wire) => i - Len(wire) \in 1 .. Len(r) /\
           z[i] = r[i - Len(wire)]
  BY <1>1, ConcatProperties, LenProperties
<1>3. \A i \in 1 .. Len(z) : i <= Len(wire) => i \in 1 .. Len(wire)
  BY <1>2
<1>4. wire' = z
  OBVIOUS
<1> HIDE DEF z
<1>5. ASSUME NEW i \in 1 .. Len(z)
      PROVE  z[i].lease <= leases /\ (z[i].action # ControlRequest => z[i].lease # 0)
  <2>1. CASE i > Len(wire)
    <3>1. PICK e : e = r[i - Len(wire)] /\ z[i] = e
      BY <1>2, <2>1
    <3>2. \/ e.action = ControlRequest /\ e.lease = 0
          \/ viewerLease # 0 /\ e.lease = viewerLease
      BY <1>2, <2>1, <3>1
    <3> QED BY <1>1, <3>1, <3>2
  <2>2. CASE i <= Len(wire)
    BY <1>1, <1>2, <1>3, <2>2
  <2> QED BY <1>2, <2>1, <2>2
<1> QED BY <1>2, <1>4, <1>5 DEF Wires

(* The page acts and sends r.                                               *)
LEMMA PageSends ==
  ASSUME RemoteInv, NEW r \in Seq(Envelope), wire' = wire \o r,
         UNCHANGED <<lease, leases, notices, viewerLease, taskVars, sinkVars>>, Page',
         unseen => unseen',
         \A i \in 1 .. Len(r) : \/ r[i].action = ControlRequest /\ r[i].lease = 0
                                \/ viewerLease # 0 /\ r[i].lease = viewerLease
  PROVE  RemoteInv'
<1>0. X11Host /\ Wires /\ Phases /\ NewLeaseIsClean /\ Page /\ Down
  BY DEF RemoteInv
<1>1. X11Host' /\ UNCHANGED <<backend, os, sink>>
  BY <1>0, SinkUnchanged
<1>2. Wires'
  BY <1>0, WiresGrow
<1>3. wire \in Seq(Envelope) /\ viewerLease \in Nat
  BY <1>0 DEF Wires
<1>4. /\ Len(wire) \in Nat /\ Len(r) \in Nat /\ Len(wire') = Len(wire) + Len(r)
      /\ \A i \in 1 .. Len(wire) : i \in 1 .. Len(wire') /\ wire'[i] = wire[i]
      /\ \A i \in 1 .. Len(wire') : i > Len(wire) => i - Len(wire) \in 1 .. Len(r) /\
           wire'[i] = r[i - Len(wire)]
  BY <1>3, ConcatProperties, LenProperties
<1>5. NewLeaseIsClean'
  <2>1. lease = 0 /\ ~unseen' => os'.down = {}
    BY <1>0, <1>1 DEF NewLeaseIsClean
  <2>2. ASSUME NEW j \in 1 .. Len(notices), lease # 0, notices[j] = lease
        PROVE  /\ viewerLease # lease /\ (~unseen' => os'.down = {})
               /\ \A i \in 1 .. Len(wire') : wire'[i].lease # lease
    <3>1. /\ viewerLease # lease /\ (~unseen => os.down = {})
          /\ \A i \in 1 .. Len(wire) : wire[i].lease # lease
      BY <1>0, <2>2 DEF NewLeaseIsClean
    <3>2. ASSUME NEW i \in 1 .. Len(wire') PROVE wire'[i].lease # lease
      <4>1. CASE i > Len(wire)
        <5>1. PICK e : e = r[i - Len(wire)] /\ wire'[i] = e
          BY <1>4, <4>1
        <5>2. e.lease = 0 \/ e.lease = viewerLease
          BY <1>4, <4>1, <5>1
        <5> QED BY <2>2, <3>1, <5>1, <5>2
      <4>2. CASE i <= Len(wire)
        <5>1. i \in 1 .. Len(wire)
          BY <1>4, <4>2
        <5> QED BY <1>4, <3>1, <5>1
      <4> QED BY <1>4, <4>1, <4>2
    <3> QED BY <1>1, <3>1, <3>2
  <2> QED BY <2>1, <2>2 DEF NewLeaseIsClean
<1>6. Phases'
  <2>1. UNCHANGED <<ctl, taken>>
    BY DEF taskVars
  <2> QED BY <1>0, <1>4, <2>1 DEF Phases
<1>7. Down'
  BY <1>0, <1>1, DownStays
<1> QED BY <1>1, <1>2, <1>5, <1>6, <1>7 DEF RemoteInv

(* send_input_action, for each of the actions s.                            *)
LEMMA StampedAs ==
  ASSUME NEW s \in Seq(SentActions), viewerLease \in Nat
  PROVE  /\ Stamped(s) \in Seq(Envelope)
         /\ viewerLease = 0 => Stamped(s) = <<>>
         /\ viewerLease # 0 =>
              Len(Stamped(s)) = Len(s) /\ \A i \in 1 .. Len(s) :
                /\ Stamped(s)[i].lease = viewerLease
                                                                 /\ Stamped(s)[i].action = s[i]
<1>1. CASE viewerLease = 0
  BY <1>1 DEF Stamped
<1>2. CASE viewerLease # 0
  <2> DEFINE t == [i \in DOMAIN s |-> [lease |-> viewerLease, action |-> s[i]]]
  <2>1. Stamped(s) = t
    BY <1>2 DEF Stamped
  <2>2. DOMAIN s = 1 .. Len(s) /\ Len(s) \in Nat
    BY LenProperties
  <2>3. \A i \in 1 .. Len(s) : [lease |-> viewerLease, action |-> s[i]] \in Envelope
    BY DEF Envelope
  <2>4. t \in Seq(Envelope) /\ Len(t) = Len(s)
    BY <2>2, <2>3
  <2>5. \A i \in 1 .. Len(s) : t[i].lease = viewerLease /\ t[i].action = s[i]
    BY <2>2
  <2> HIDE DEF t
  <2> QED BY <1>2, <2>1, <2>4, <2>5
<1> QED BY <1>1, <1>2

(* What an action is of.                                                    *)
LEMMA ActionsAre ==
  /\ \A u \in Plain \cup Mods, down \in BOOLEAN, mods \in SUBSET Mods :
       KeyAction(u, down, mods) \in KeyActions
  /\ \A b \in PointerButtons, down \in BOOLEAN : ButtonAction(b, down) \in ButtonActions
  /\ ControlRequest.kind = "request" /\ ControlRequest.down = FALSE
  /\ KeyActions \subseteq SentActions /\ ButtonActions \subseteq SentActions
  /\ ControlRequest \in SentActions
BY DEF KeyAction, ButtonAction, ControlRequest, SentActions, KeyActions, ButtonActions

(* The ups of releaseHeldInput.                                             *)
LEMMA ReleasesAre ==
  ASSUME Page
  PROVE  /\ Releases \in Seq(SentActions)
         /\ \A i \in 1 .. Len(Releases) : ~Releases[i].down /\ Releases[i].mods = {}
         /\ \A x \in PageNames : \E i \in 1 .. Len(Releases) : Name(Releases[i]) = x
         /\ heldKeys # {} => \E i \in 1 .. Len(Releases) : Releases[i].kind = "key"
<1> DEFINE B == { ButtonAction(b, FALSE) : b \in heldButtons }
           K == { KeyAction(u, FALSE, {}) : u \in heldKeys }
<1>1. heldKeys \subseteq Plain \cup Mods /\ heldButtons \subseteq PointerButtons
      /\ IsFiniteSet(heldKeys) /\ IsFiniteSet(heldButtons)
  BY DEF Page
<1>2. IsFiniteSet(B)
  <2>1. [b \in heldButtons |-> ButtonAction(b, FALSE)] \in Surjection(heldButtons, B)
    BY DEF Surjection
  <2> HIDE DEF B
  <2> QED BY <1>1, <2>1, FS_Surjection
<1>3. IsFiniteSet(K)
  <2>1. [u \in heldKeys |-> KeyAction(u, FALSE, {})] \in Surjection(heldKeys, K)
    BY DEF Surjection
  <2> HIDE DEF K
  <2> QED BY <1>1, <2>1, FS_Surjection
<1>4. \A a \in B \cup K : a \in SentActions /\ ~a.down /\ a.mods = {}
  <2>1. ASSUME NEW u \in heldKeys
        PROVE  LET a == KeyAction(u, FALSE, {}) IN a \in SentActions /\ ~a.down /\ a.mods = {}
    BY <1>1 DEF KeyAction, SentActions, KeyActions
  <2>2. ASSUME NEW b \in heldButtons
        PROVE  LET a == ButtonAction(b, FALSE) IN a \in SentActions /\ ~a.down /\ a.mods = {}
    BY <1>1 DEF ButtonAction, SentActions, ButtonActions
  <2>3. ASSUME NEW a \in B PROVE a \in SentActions /\ ~a.down /\ a.mods = {}
    <3>1. PICK b \in heldButtons : a = ButtonAction(b, FALSE)
      OBVIOUS
    <3> QED BY <2>2, <3>1
  <2>4. ASSUME NEW a \in K PROVE a \in SentActions /\ ~a.down /\ a.mods = {}
    <3>1. PICK u \in heldKeys : a = KeyAction(u, FALSE, {})
      OBVIOUS
    <3> QED BY <2>1, <3>1
  <2> QED BY <2>3, <2>4
<1>5. \A a \in K : a.kind = "key"
  BY DEF KeyAction
<1>6. \A x \in PageNames : \E a \in B \cup K : Name(a) = x
  <2>1. ASSUME NEW u \in heldKeys PROVE \E a \in B \cup K : Name(a) = <<"key", u>>
    <3>1. KeyAction(u, FALSE, {}) \in B \cup K
      OBVIOUS
    <3>2. Name(KeyAction(u, FALSE, {})) = <<"key", u>>
      BY DEF Name, KeyAction
    <3> QED BY <3>1, <3>2
  <2>2. ASSUME NEW b \in heldButtons PROVE \E a \in B \cup K : Name(a) = <<"button", b>>
    <3>1. ButtonAction(b, FALSE) \in B \cup K
      OBVIOUS
    <3>2. Name(ButtonAction(b, FALSE)) = <<"button", b>>
      BY DEF Name, ButtonAction
    <3> QED BY <3>1, <3>2
  <2> HIDE DEF B, K
  <2> QED BY <2>1, <2>2 DEF PageNames
<1>7. heldKeys # {} => K # {}
  OBVIOUS
<1>8. Releases = SetToSeq(B) \o SetToSeq(K)
  BY DEF Releases
<1> HIDE DEF B, K
<1>9. PICK s, t : s = SetToSeq(B) /\ t = SetToSeq(K)
  OBVIOUS
<1>10. /\ s \in Seq(B) /\ \A x \in B : \E i \in 1 .. Len(s) : s[i] = x
       /\ t \in Seq(K) /\ \A x \in K : \E i \in 1 .. Len(t) : t[i] = x
  BY <1>2, <1>3, <1>9, SetToSeqOf
<1>11. s \in Seq(B \cup K) /\ t \in Seq(B \cup K)
  BY <1>10
<1> DEFINE z == s \o t
<1>12. /\ z \in Seq(B \cup K) /\ Len(s) \in Nat /\ Len(t) \in Nat /\ Len(z) = Len(s) + Len(t)
       /\ \A i \in 1 .. Len(s) : i \in 1 .. Len(z) /\ z[i] = s[i]
  BY <1>11, ConcatProperties, LenProperties
<1>13. \A i \in 1 .. Len(t) : Len(s) + i \in 1 .. Len(z) /\ z[Len(s) + i] = t[i]
  BY <1>11, <1>12, ConcatProperties
<1>14. Releases = z
  BY <1>8, <1>9
<1> HIDE DEF z
<1>15. \A a \in B \cup K : \E i \in 1 .. Len(z) : z[i] = a
  BY <1>10, <1>12, <1>13
<1>16. \A i \in 1 .. Len(z) : z[i] \in B \cup K
  BY <1>12
<1>17. z \in Seq(SentActions)
  BY <1>4, <1>12
<1>18. \A i \in 1 .. Len(z) : ~z[i].down /\ z[i].mods = {}
  BY <1>4, <1>16
<1>19. \A x \in PageNames : \E i \in 1 .. Len(z) : Name(z[i]) = x
  BY <1>6, <1>15
<1>20. heldKeys # {} => \E i \in 1 .. Len(z) : z[i].kind = "key"
  BY <1>5, <1>7, <1>15
<1> QED BY <1>14, <1>17, <1>18, <1>19, <1>20

(* The edges of a key on the whole way.                                     *)
LEMMA KeyEdgesAre ==
  ASSUME X11Host, SinkFits, failures' = failures, NEW u \in Plain \cup Mods, NEW down \in BOOLEAN,
         NEW want \in SUBSET Mods, SinkKey(u, down, want)
  PROVE  /\ sink'.mods = want
         /\ os'.down = Edge((os.down \ { Modifier(i) : i \in sink.mods \ want })
                              \cup { Modifier(i) : i \in want \ sink.mods }, X11Keycode(u), down)
<1>1. /\ backend = "x11" /\ failures = 0
      /\ os \in [down : SUBSET Codes, caps : BOOLEAN]
      /\ sink \in [keys : SUBSET Codes, buttons : SUBSET Codes, mods : SUBSET Mods, caps : BOOLEAN]
  BY DEF X11Host, SinkFits
<1>2. PICK cut \in Cuts(want) :
        LET done == { i \in Differing(want) : i < cut }
            withMods == (os.down \ { Modifier(i) : i \in done \ want })
                        \cup { Modifier(i) : i \in done \cap want }
            whole == cut = NMods + 2
        IN /\ os' = [os EXCEPT !.down = IF whole THEN Edge(withMods, Code(u), down) ELSE withMods]
           /\ sink' = [sink EXCEPT !.mods = Reconciled(@, want, cut),
                                   !.keys = IF whole THEN Edge(@, Code(u), down) ELSE @]
           /\ Fails(IF whole THEN 0 ELSE 1)
  BY <1>1 DEF SinkKey, X11Key, UInputKey, WindowsKey, MacKey, KeyByEdges
<1>3. cut = NMods + 2
  BY <1>1, <1>2 DEF Fails
<1>4. \A i \in Mods : i < cut
  BY <1>3, SinkAssumption DEF Mods
<1>5. Reconciled(sink.mods, want, cut) = want
  BY <1>4 DEF Reconciled
<1> DEFINE done == { i \in Differing(want) : i < cut }
<1>6. done \ want = sink.mods \ want /\ done \cap want = want \ sink.mods
  BY <1>1, <1>4 DEF Differing
<1>7. sink'.mods = want
  BY <1>1, <1>2, <1>5
<1>8. os' = [os EXCEPT !.down = Edge((os.down \ { Modifier(i) : i \in done \ want })
                                     \cup { Modifier(i) : i \in done \cap want }, Code(u), down)]
  BY <1>2, <1>3
<1>9. Code(u) = X11Keycode(u)
  BY <1>1 DEF Code
<1> HIDE DEF done
<1> QED BY <1>1, <1>6, <1>7, <1>8, <1>9

(* A key or a button at the host: its edges all pass, and what they put     *)
(* down is of its chord.                                                    *)
LEMMA DispatchEffect ==
  ASSUME X11Host, SinkFits, failures' = failures, NEW a \in KeyActions \cup ButtonActions,
         Dispatch(a)
  PROVE  X11Host' /\ os'.down \subseteq os.down \cup Chord(a)
<1>1. /\ backend = "x11" /\ failures = 0 /\ lost = {} /\ tapped = {}
      /\ sink.keys \subseteq { Code(v) : v \in Plain \cup Mods }
      /\ sink.buttons \subseteq { Button(b) : b \in PointerButtons }
      /\ os \in [down : SUBSET Codes, caps : BOOLEAN]
      /\ sink \in [keys : SUBSET Codes, buttons : SUBSET Codes, mods : SUBSET Mods, caps : BOOLEAN]
  BY DEF X11Host, SinkFits
<1>2. CASE a \in KeyActions
  <2>1. PICK u, down, want : u = a.of /\ down = a.down /\ want = a.mods
    OBVIOUS
  <2>2. a.kind = "key" /\ u \in Plain \cup Mods /\ down \in BOOLEAN /\ want \in SUBSET Mods
    BY <1>2, <2>1 DEF KeyActions
  <2>3. SinkKey(u, down, want)
    BY <2>1, <2>2 DEF Dispatch
  <2>4. os'.down = Edge((os.down \ { Modifier(i) : i \in sink.mods \ want })
                          \cup { Modifier(i) : i \in want \ sink.mods }, X11Keycode(u), down)
    BY <2>2, <2>3, KeyEdgesAre
  <2>5. Code(u) = X11Keycode(u) /\ Chord(a) = {Code(u)} \cup { Modifier(i) : i \in want }
    BY <1>1, <2>1, <2>2 DEF Code, Chord
  <2>6. os'.down \subseteq os.down \cup Chord(a)
    BY <2>4, <2>5 DEF Edge
  <2>7. PICK cut \in Cuts(want) :
          LET whole == cut = NMods + 2
          IN /\ sink' = [sink EXCEPT !.mods = Reconciled(@, want, cut),
                                     !.keys = IF whole THEN Edge(@, Code(u), down) ELSE @]
             /\ Fails(IF whole THEN 0 ELSE 1)
             /\ UNCHANGED <<backend, toggles, lost, tapped>>
    BY <1>1, <2>3 DEF SinkKey, X11Key, UInputKey, WindowsKey, MacKey, KeyByEdges
  <2>20. cut = NMods + 2
    BY <1>1, <2>7 DEF Fails
  <2>8. sink' = [sink EXCEPT !.mods = Reconciled(@, want, cut), !.keys = Edge(@, Code(u), down)]
    BY <2>7, <2>20
  <2>9. sink'.buttons = sink.buttons /\ sink'.keys = Edge(sink.keys, Code(u), down)
    BY <1>1, <2>8
  <2>10. backend' = backend /\ lost' = {} /\ tapped' = {} /\ failures' = 0
    BY <1>1, <2>7
  <2>11. \A v : Code(v)' = Code(v)
    BY <2>10 DEF Code
  <2>12. X11Host'
    BY <1>1, <2>2, <2>9, <2>10, <2>11 DEF X11Host, Edge
  <2> QED BY <2>6, <2>12
<1>3. CASE a \in ButtonActions
  <2>1. PICK b, down : b = a.of /\ down = a.down
    OBVIOUS
  <2>2. a.kind = "button" /\ b \in PointerButtons /\ down \in BOOLEAN
    BY <1>3, <2>1 DEF ButtonActions
  <2>3. SinkButton(b, down)
    BY <2>1, <2>2 DEF Dispatch
  <2>4. /\ os' = [os EXCEPT !.down = Edge(@, Button(b), down)]
        /\ sink' = [sink EXCEPT !.buttons = Edge(@, Button(b), down)]
        /\ UNCHANGED <<backend, toggles, lost, tapped>>
    BY <1>1, <2>3 DEF SinkButton, X11Button, UInputButton, WindowsButton, MacButton, ButtonEdge,
                      Fails
  <2>5. /\ os'.down = Edge(os.down, Button(b), down)
        /\ sink'.keys = sink.keys /\ sink'.buttons = Edge(sink.buttons, Button(b), down)
    BY <1>1, <2>4
  <2>6. Chord(a) = {Button(b)}
    BY <2>1, <2>2 DEF Chord
  <2>7. backend' = backend /\ lost' = {} /\ tapped' = {} /\ failures' = 0
    BY <1>1, <2>4
  <2>8. \A v : Code(v)' = Code(v)
    BY <2>7 DEF Code
  <2>9. X11Host'
    BY <1>1, <2>2, <2>5, <2>7, <2>8 DEF X11Host, Edge
  <2> QED BY <2>5, <2>6, <2>9 DEF Edge
<1> QED BY <1>2, <1>3

(* The host's flush leaves nothing.                                         *)
LEMMA ReleaseEffect ==
  ASSUME X11Host, SinkFits, SafeToRelease, failures' = failures, SinkReleaseAll({})
  PROVE  X11Host' /\ os'.down = {} /\ sink'.mods = {}
<1>1. /\ backend = "x11" /\ lost = {} /\ tapped = {} /\ failures = 0
      /\ os \in [down : SUBSET Codes, caps : BOOLEAN]
      /\ sink \in [keys : SUBSET Codes, buttons : SUBSET Codes, mods : SUBSET Mods, caps : BOOLEAN]
  BY DEF X11Host, SinkFits
<1>2. /\ os' = [os EXCEPT !.down = (@ \ Tracked) \cup ({} \cap @)]
      /\ sink' = [sink EXCEPT !.keys = {}, !.buttons = {}, !.mods = {}]
      /\ lost' = lost \cup ({} \cap os.down) /\ UNCHANGED <<backend, tapped>>
  BY DEF SinkReleaseAll, X11ReleaseAll, WindowsReleaseAll, MacReleaseAll, UInputReleaseAll,
     ReleaseAll
<1>3. sink'.keys = {} /\ sink'.buttons = {} /\ sink'.mods = {}
  BY <1>1, <1>2
<1>4. os'.down = (os.down \ Tracked) \cup ({} \cap os.down)
  BY <1>1, <1>2
<1>5. os'.down = {}
  BY <1>1, <1>4 DEF SafeToRelease
<1> QED BY <1>1, <1>2, <1>3, <1>5 DEF X11Host

(* What is left of a sequence when one is taken.                            *)
LEMMA RestIsOf ==
  ASSUME NEW E, NEW w \in Seq(E), NEW n \in 1 .. Len(w)
  PROVE  /\ RemoveAt(w, n) \in Seq(E)
         /\ \A i \in 1 .. Len(RemoveAt(w, n)) : \E j \in 1 .. Len(w) : RemoveAt(w, n)[i] = w[j]
<1>1. Len(w) \in Nat /\ \A i \in 1 .. Len(w) : w[i] \in { w[j] : j \in 1 .. Len(w) }
  BY LenProperties
<1> DEFINE S == { w[j] : j \in 1 .. Len(w) }
           a == SubSeq(w, 1, n - 1)
           b == SubSeq(w, n + 1, Len(w))
<1>2. a \in Seq(S)
  <2>1. \A i \in 1 .. n - 1 : w[i] \in S
    BY <1>1
  <2> HIDE DEF S
  <2> QED BY <1>1, <2>1, SubSeqProperties
<1>3. b \in Seq(S)
  <2>1. \A i \in n + 1 .. Len(w) : w[i] \in S
    BY <1>1
  <2> HIDE DEF S
  <2> QED BY <1>1, <2>1, SubSeqProperties
<1>4. S \subseteq E
  BY <1>1
<1>5. RemoveAt(w, n) = a \o b
  BY DEF RemoveAt
<1> HIDE DEF a, b
<1>6. PICK z : z = RemoveAt(w, n)
  OBVIOUS
<1>7. z \in Seq(S)
  <2> HIDE DEF S
  <2> QED BY <1>2, <1>3, <1>5, <1>6, ConcatProperties
<1>8. z \in Seq(E) /\ \A i \in 1 .. Len(z) : z[i] \in S
  <2>1. \A i \in 1 .. Len(z) : z[i] \in S
    <3> HIDE DEF S
    <3> QED BY <1>7
  <2>2. z \in Seq(E)
    <3> HIDE DEF S
    <3> QED BY <1>4, <1>7
  <2> QED BY <2>1, <2>2
<1> QED BY <1>6, <1>8

(* One more notice.                                                         *)
LEMMA NoticesGrow ==
  ASSUME notices \in Seq(Nat), NEW n \in Nat, notices' = Append(notices, n)
  PROVE  /\ notices' \in Seq(Nat) /\ Len(notices) \in Nat /\ Len(notices') = Len(notices) + 1
         /\ \A i \in 1 .. Len(notices) : notices'[i] = notices[i] /\ notices[i] \in Nat
         /\ notices'[Len(notices) + 1] = n
         /\ \A i \in 1 .. Len(notices') : i \in 1 .. Len(notices) \/ i = Len(notices) + 1
BY AppendProperties, LenProperties

(* Envelopes are taken, a lease ends.                                       *)
LEMMA WiresShrink ==
  ASSUME Wires, UNCHANGED <<notices, leases, viewerLease>>, lease' \in {0, lease},
         wire' \in Seq(Envelope), \A i \in 1 .. Len(wire') : \E j \in 1 .. Len(wire) : wire'[i] = wire[j]
  PROVE  Wires'
<1>1. leases \in Nat /\ lease \in Nat /\ lease <= leases
      /\ \A i \in 1 .. Len(wire) : /\ wire[i].lease <= leases
                                   /\ wire[i].action # ControlRequest => wire[i].lease # 0
  BY DEF Wires
<1>2. \A i \in 1 .. Len(wire') : /\ wire'[i].lease <= leases
                                 /\ wire'[i].action # ControlRequest => wire'[i].lease # 0
  BY <1>1
<1>3. lease' \in Nat /\ lease' <= leases
  BY <1>1
<1> QED BY <1>2, <1>3 DEF Wires

(* News for the viewer: that a request was denied, or a lease of its own.   *)
LEMMA WiresTell ==
  ASSUME Wires, NEW n \in {0, leases + 1}, notices' = Append(notices, n),
         leases' \in {leases, leases + 1}, n <= leases', lease' \in {lease, leases'},
         viewerLease' = viewerLease, wire' \in Seq(Envelope),
         \A i \in 1 .. Len(wire') : \E j \in 1 .. Len(wire) : wire'[i] = wire[j]
  PROVE  Wires'
<1>1. /\ notices \in Seq(Nat) /\ leases \in Nat /\ lease \in Nat /\ lease <= leases
      /\ viewerLease \in Nat /\ viewerLease <= leases
      /\ \A i \in 1 .. Len(notices) : notices[i] <= leases
      /\ \A i, j \in 1 .. Len(notices) : i < j /\ notices[j] # 0 => notices[i] # notices[j]
      /\ \A i \in 1 .. Len(wire) : /\ wire[i].lease <= leases
                                   /\ wire[i].action # ControlRequest => wire[i].lease # 0
      /\ wire \in Seq(Envelope)
  BY DEF Wires
<1>2. n \in Nat /\ leases' \in Nat /\ leases <= leases'
  BY <1>1
<1>3. /\ notices' \in Seq(Nat) /\ Len(notices) \in Nat /\ Len(notices') = Len(notices) + 1
      /\ \A i \in 1 .. Len(notices) : notices'[i] = notices[i] /\ notices[i] \in Nat
      /\ notices'[Len(notices) + 1] = n
      /\ \A i \in 1 .. Len(notices') : i \in 1 .. Len(notices) \/ i = Len(notices) + 1
  BY <1>1, <1>2, NoticesGrow
<1>4. ASSUME NEW i \in 1 .. Len(notices') PROVE notices'[i] <= leases'
  <2>1. CASE i \in 1 .. Len(notices)
    <3>1. notices'[i] = notices[i] /\ notices[i] \in Nat /\ notices[i] <= leases
      BY <1>1, <1>3, <2>1
    <3> QED BY <1>1, <1>2, <3>1
  <2>2. CASE i = Len(notices) + 1
    BY <1>3, <2>2
  <2> QED BY <1>3, <2>1, <2>2
<1>5. ASSUME NEW i \in 1 .. Len(notices'), NEW j \in 1 .. Len(notices'), i < j, notices'[j] # 0
      PROVE  notices'[i] # notices'[j]
  <2>1. CASE j = Len(notices) + 1
    <3>1. i \in 1 .. Len(notices)
      BY <1>3, <1>5, <2>1
    <3>2. notices'[i] = notices[i] /\ notices[i] \in Nat /\ notices[i] <= leases
      BY <1>1, <1>3, <3>1
    <3>3. notices'[j] = leases + 1
      BY <1>3, <1>5, <2>1
    <3> QED BY <1>1, <3>2, <3>3
  <2>2. CASE j \in 1 .. Len(notices)
    <3>1. i \in 1 .. Len(notices)
      BY <1>3, <1>5, <2>2
    <3> QED BY <1>1, <1>3, <1>5, <2>2, <3>1
  <2> QED BY <1>3, <2>1, <2>2
<1>6. ASSUME NEW i \in 1 .. Len(wire')
      PROVE  wire'[i].lease <= leases' /\ (wire'[i].action # ControlRequest => wire'[i].lease # 0)
  <2>1. PICK j \in 1 .. Len(wire) : wire'[i] = wire[j]
    OBVIOUS
  <2>2. wire[j] \in Envelope
    BY <1>1
  <2>4. \A f \in Envelope : f.lease \in Nat
    BY DEF Envelope
  <2>3. wire[j].lease \in Nat
    BY <2>2, <2>4
  <2> QED BY <1>1, <1>2, <2>1, <2>3
<1>7. lease' \in Nat /\ lease' <= leases' /\ viewerLease <= leases'
  BY <1>1, <1>2
<1> QED BY <1>1, <1>2, <1>3, <1>4, <1>5, <1>6, <1>7 DEF Wires

(* Nothing happens at the page.                                             *)
LEMMA PageSame ==
  ASSUME Page, UNCHANGED <<keyboard, swap, control, heldKeys, heldButtons>>, unseen => unseen'
  PROVE  Page'
<1>1. \A u : RemapHid(u)' = RemapHid(u)
  BY DEF RemapHid, Swapped
<1> QED BY <1>1 DEF Page, controlling

(* A lease is revoked, to be flushed next.                                  *)
LEMMA RevokedKeeps ==
  ASSUME RemoteInv, Revoked,
         \/ ctl = "loop" /\ ctl' = "flush" /\ sweep' = sweep
         \/ ctl' = ctl /\ sweep' = "flush"
  PROVE  RemoteInv'
<1>0. X11Host /\ Wires /\ Phases /\ NewLeaseIsClean /\ Page /\ Down
  BY DEF RemoteInv
<1>1. /\ lease' = 0 /\ unseen' = (unseen \/ os.down # {})
      /\ UNCHANGED <<leases, notices, taken, late, sinkVars, viewerLease, wire>>
      /\ UNCHANGED <<keyboard, swap, control, heldKeys, heldButtons>>
  BY DEF Revoked, HostUnchanged, viewerVars, fsmVars
<1>2. X11Host' /\ UNCHANGED os
  BY <1>0, <1>1, SinkUnchanged
<1>3. Wires'
  BY <1>0, <1>1, WiresShrink DEF Wires
<1>4. Phases'
  BY <1>0, <1>1 DEF Phases
<1>5. NewLeaseIsClean'
  BY <1>1, <1>2 DEF NewLeaseIsClean
<1>6. Page'
  BY <1>0, <1>1, PageSame
<1>7. Down'
  BY DEF Down
<1> QED BY <1>2, <1>3, <1>4, <1>5, <1>6, <1>7 DEF RemoteInv

(* And is flushed.                                                          *)
LEMMA FlushedKeeps ==
  ASSUME RemoteInv, SinkFits, SafeToRelease, failures' = failures, Flushed,
         \/ ctl = "flush" /\ ctl' = "issue" /\ sweep' = sweep
         \/ ctl' = ctl /\ sweep' = "idle"
  PROVE  RemoteInv'
<1>0. X11Host /\ Wires /\ Phases /\ NewLeaseIsClean /\ Page /\ Down
  BY DEF RemoteInv
<1>1. /\ SinkReleaseAll({}) /\ unseen' = (unseen \/ os'.down # os.down)
      /\ UNCHANGED <<lease, leases, notices, taken, viewerLease, wire>>
      /\ UNCHANGED <<keyboard, swap, control, heldKeys, heldButtons>>
  BY DEF Flushed, HostUnchanged, viewerVars, fsmVars
<1>2. X11Host' /\ os'.down = {}
  BY <1>0, <1>1, ReleaseEffect
<1>3. Wires'
  BY <1>0, <1>1, WiresShrink DEF Wires
<1>4. Phases'
  BY <1>0, <1>1 DEF Phases
<1>5. NewLeaseIsClean'
  BY <1>0, <1>1, <1>2 DEF NewLeaseIsClean
<1>6. Page'
  BY <1>0, <1>1, PageSame
<1>7. Down'
  BY <1>2 DEF Down
<1> QED BY <1>2, <1>3, <1>4, <1>5, <1>6, <1>7 DEF RemoteInv

(* A new lease begins with nothing down that the page would know of.        *)
LEMMA IssuedKeeps ==
  ASSUME RemoteInv, Issued, lease = 0 PROVE RemoteInv'
<1>0. X11Host /\ Wires /\ Phases /\ NewLeaseIsClean /\ Page /\ Down
  BY DEF RemoteInv
<1>1. /\ leases' = leases + 1 /\ lease' = leases + 1 /\ notices' = Append(notices, leases + 1)
      /\ ctl' = "loop" /\ UNCHANGED <<unseen, sinkVars, viewerLease, wire>>
      /\ UNCHANGED <<keyboard, swap, control, heldKeys, heldButtons>>
  BY DEF Issued, HostUnchanged, viewerVars, fsmVars
<1>2. X11Host' /\ UNCHANGED os
  BY <1>0, <1>1, SinkUnchanged
<1>3. /\ leases \in Nat /\ viewerLease \in Nat /\ viewerLease <= leases
      /\ wire \in Seq(Envelope) /\ \A i \in 1 .. Len(wire) : wire[i].lease <= leases
  BY <1>0 DEF Wires
<1>4. Wires'
  <2>1. leases + 1 \in {0, leases + 1} /\ leases + 1 <= leases'
    BY <1>1, <1>3
  <2>2. \A i \in 1 .. Len(wire') : \E j \in 1 .. Len(wire) : wire'[i] = wire[j]
    BY <1>1
  <2> QED BY <1>0, <1>1, <1>3, <2>1, <2>2, WiresTell
<1>5. lease' # 0 /\ viewerLease # lease' /\ \A i \in 1 .. Len(wire) : wire[i].lease # lease'
  <2>1. \A i \in 1 .. Len(wire) : wire[i] \in Envelope
    BY <1>3
  <2>2. \A f \in Envelope : f.lease \in Nat
    BY DEF Envelope
  <2>3. \A i \in 1 .. Len(wire) : wire[i].lease \in Nat
    BY <2>1, <2>2
  <2> QED BY <1>1, <1>3, <2>3
<1>6. Phases'
  BY <1>1 DEF Phases
<1>7. NewLeaseIsClean'
  BY <1>0, <1>1, <1>2, <1>5 DEF NewLeaseIsClean
<1>8. Page'
  BY <1>0, <1>1, PageSame
<1>9. Down'
  BY <1>5 DEF Down
<1> QED BY <1>2, <1>4, <1>6, <1>7, <1>8, <1>9 DEF RemoteInv

(* The control task refuses: a request to the prompt, or an input.          *)
LEMMA RefusalKeeps ==
  ASSUME RemoteInv, ctl # "dispatch", UNCHANGED <<lease, leases, viewerLease, taskVars, sinkVars>>,
         UNCHANGED <<keyboard, swap, control, heldKeys, heldButtons>>, unseen => unseen',
         notices' \in {notices, Append(notices, 0)}, wire' \in Seq(Envelope),
         \A i \in 1 .. Len(wire') : \E j \in 1 .. Len(wire) : wire'[i] = wire[j]
  PROVE  RemoteInv'
<1>0. X11Host /\ Wires /\ Phases /\ NewLeaseIsClean /\ Page /\ Down
  BY DEF RemoteInv
<1>1. X11Host' /\ UNCHANGED os
  BY <1>0, SinkUnchanged
<1>2. leases \in Nat /\ lease \in Nat /\ notices \in Seq(Nat)
  BY <1>0 DEF Wires
<1>3. Wires'
  <2>1. CASE notices' = notices
    BY <1>0, <2>1, WiresShrink
  <2>2. CASE notices' = Append(notices, 0)
    BY <1>0, <1>2, <2>2, WiresTell
  <2> QED BY <2>1, <2>2
<1>4. Phases'
  BY <1>0 DEF Phases, taskVars
<1>5. \A j \in 1 .. Len(notices') : notices'[j] # 0 =>
        j \in 1 .. Len(notices) /\ notices'[j] = notices[j]
  BY <1>2, NoticesGrow
<1>6. NewLeaseIsClean'
  <2>1. lease = 0 /\ ~unseen' => os'.down = {}
    BY <1>0, <1>1 DEF NewLeaseIsClean
  <2>2. ASSUME NEW j \in 1 .. Len(notices'), lease # 0, notices'[j] = lease
        PROVE  /\ viewerLease # lease /\ (~unseen' => os'.down = {})
               /\ \A i \in 1 .. Len(wire') : wire'[i].lease # lease
    <3>1. j \in 1 .. Len(notices) /\ notices[j] = lease
      BY <1>5, <2>2
    <3>2. /\ viewerLease # lease /\ (~unseen => os.down = {})
          /\ \A i \in 1 .. Len(wire) : wire[i].lease # lease
      BY <1>0, <2>2, <3>1 DEF NewLeaseIsClean
    <3> QED BY <1>1, <3>2
  <2> QED BY <2>1, <2>2 DEF NewLeaseIsClean
<1>7. Page'
  BY <1>0, PageSame
<1>8. Down'
  BY <1>0, <1>1, DownStays
<1> QED BY <1>1, <1>3, <1>4, <1>6, <1>7, <1>8 DEF RemoteInv

(* What is taken from the stream is on it.                                  *)
LEMMA ArrivingIsOnWire ==
  ASSUME Wires
  PROVE  \A i \in Arriving : /\ i \in 1 .. Len(wire) /\ (InOrder => i = 1)
                             /\ RemoveAt(wire, i) \in Seq(Envelope)
                             /\ \A n \in 1 .. Len(RemoveAt(wire, i)) :
                                  \E j \in 1 .. Len(wire) : RemoveAt(wire, i)[n] = wire[j]
<1>1. wire \in Seq(Envelope) /\ DOMAIN wire = 1 .. Len(wire)
  BY LenProperties DEF Wires
<1>2. \A i \in Arriving : i \in 1 .. Len(wire) /\ (InOrder => i = 1)
  BY <1>1 DEF Arriving
<1> QED BY <1>1, <1>2, RestIsOf

(* The news arrives at the viewer.                                          *)
LEMMA NoticeKeeps ==
  ASSUME RemoteInv, NoticeArrives PROVE RemoteInv'
<1>0. X11Host /\ Wires /\ Phases /\ NewLeaseIsClean /\ Page /\ Down
  BY DEF RemoteInv
<1>1. /\ notices # <<>> /\ viewerLease' = Head(notices) /\ notices' = Tail(notices)
      /\ UNCHANGED <<keyboard, swap, heldKeys, heldButtons, control, unseen, wire, lease, leases,
           taskVars, sinkVars>>
  BY DEF NoticeArrives, viewerVars
<1>2. /\ notices \in Seq(Nat) /\ leases \in Nat /\ wire \in Seq(Envelope)
      /\ \A i \in 1 .. Len(notices) : notices[i] <= leases
      /\ \A i, j \in 1 .. Len(notices) : i < j /\ notices[j] # 0 => notices[i] # notices[j]
  BY <1>0 DEF Wires
<1>3. /\ notices' \in Seq(Nat) /\ Len(notices) \in Nat /\ Len(notices') = Len(notices) - 1
      /\ 1 \in 1 .. Len(notices) /\ Head(notices) = notices[1] /\ notices[1] \in Nat
      /\ \A i \in 1 .. Len(notices') : i + 1 \in 1 .. Len(notices) /\ notices'[i] = notices[i + 1]
  BY <1>1, <1>2, HeadTailProperties, LenProperties, EmptySeq
<1>4. Wires'
  <2>1. \A i \in 1 .. Len(notices') : notices'[i] <= leases
    BY <1>2, <1>3
  <2>2. \A i, j \in 1 .. Len(notices') : i < j /\ notices'[j] # 0 => notices'[i] # notices'[j]
    <3> SUFFICES ASSUME NEW i \in 1 .. Len(notices'), NEW j \in 1 .. Len(notices'), i < j,
                        notices'[j] # 0
                 PROVE  notices'[i] # notices'[j]
      OBVIOUS
    <3>1. PICK n, m : n = i + 1 /\ m = j + 1
      OBVIOUS
    <3>2. n \in 1 .. Len(notices) /\ m \in 1 .. Len(notices) /\ n < m
      BY <1>3, <3>1
    <3>3. notices'[i] = notices[n] /\ notices'[j] = notices[m]
      BY <1>3, <3>1
    <3> QED BY <1>2, <3>2, <3>3
  <2>3. viewerLease' \in Nat /\ viewerLease' <= leases
    BY <1>1, <1>2, <1>3
  <2> QED BY <1>0, <1>1, <1>3, <2>1, <2>2, <2>3 DEF Wires
<1>5. X11Host' /\ UNCHANGED os
  BY <1>0, <1>1, SinkUnchanged
<1>6. Page'
  BY <1>0, <1>1, PageSame
<1>7. NewLeaseIsClean'
  <2>1. lease' = 0 /\ ~unseen' => os'.down = {}
    BY <1>0, <1>1, <1>5 DEF NewLeaseIsClean
  <2>2. ASSUME NEW j \in 1 .. Len(notices'), lease # 0, notices'[j] = lease
        PROVE  /\ viewerLease' # lease /\ (~unseen => os.down = {})
               /\ \A i \in 1 .. Len(wire) : wire[i].lease # lease
    <3>1. j + 1 \in 1 .. Len(notices) /\ notices[j + 1] = lease /\ 1 < j + 1
      BY <1>3, <2>2
    <3>2. notices[1] # lease
      BY <1>2, <1>3, <2>2, <3>1
    <3>3. (~unseen => os.down = {}) /\ \A i \in 1 .. Len(wire) : wire[i].lease # lease
      BY <1>0, <2>2, <3>1 DEF NewLeaseIsClean
    <3> QED BY <1>1, <1>3, <3>2, <3>3
  <2> QED BY <1>1, <1>5, <2>1, <2>2 DEF NewLeaseIsClean
<1>8. Phases' /\ Down'
  <2>1. UNCHANGED <<ctl, taken>>
    BY <1>1 DEF taskVars
  <2>2. Phases'
    BY <1>0, <1>1, <2>1 DEF Phases
  <2> QED BY <1>0, <1>1, <1>5, <2>2, DownStays
<1> QED BY <1>4, <1>5, <1>6, <1>7, <1>8 DEF RemoteInv

(* The gate lets an input pass, to be dispatched next.                      *)
LEMMA AuthorizedKeeps ==
  ASSUME RemoteInv, InputAuthorized PROVE RemoteInv'
<1>0. X11Host /\ Wires /\ Phases /\ NewLeaseIsClean /\ Page /\ Down
  BY DEF RemoteInv
<1>1. /\ ctl' = "dispatch" /\ taken' \in Arriving
      /\ wire[taken'].action # ControlRequest /\ wire[taken'].lease = lease
      /\ UNCHANGED <<lease, notices, leases, viewerLease, wire, unseen, sinkVars>>
      /\ UNCHANGED <<keyboard, swap, control, heldKeys, heldButtons>>
  BY DEF InputAuthorized, viewerVars, fsmVars
<1>2. taken' \in 1 .. Len(wire) /\ (InOrder => taken' = 1)
  BY <1>0, <1>1, ArrivingIsOnWire
<1>3. lease # 0
  BY <1>0, <1>1, <1>2 DEF Wires
<1>4. X11Host' /\ UNCHANGED os
  BY <1>0, <1>1, SinkUnchanged
<1>5. Wires'
  BY <1>0, <1>1, WiresShrink DEF Wires
<1>6. Phases'
  BY <1>1, <1>2 DEF Phases
<1>7. NewLeaseIsClean'
  BY <1>0, <1>1, <1>4 DEF NewLeaseIsClean
<1>8. Page'
  BY <1>0, <1>1, PageSame
<1>9. Down'
  BY <1>1, <1>3 DEF Down
<1> QED BY <1>4, <1>5, <1>6, <1>7, <1>8, <1>9 DEF RemoteInv

(* What was taken from the stream is a key or a button.                     *)
LEMMA TakenIs ==
  ASSUME Wires, Phases, ctl = "dispatch"
  PROVE  /\ taken \in 1 .. Len(wire) /\ wire[taken].action \in KeyActions \cup ButtonActions
         /\ wire[taken].lease # 0 /\ lease \in {0, wire[taken].lease} /\ (InOrder => taken = 1)
<1>1. taken \in 1 .. Len(wire) /\ wire[taken].action # ControlRequest
      /\ lease \in {0, wire[taken].lease} /\ (InOrder => taken = 1)
  BY DEF Phases
<1>2. wire[taken] \in Envelope /\ wire[taken].lease # 0
  BY <1>1 DEF Wires
<1>3. \A f \in Envelope : f.action \in SentActions
  BY DEF Envelope
<1>4. wire[taken].action \in SentActions
  BY <1>2, <1>3
<1> QED BY <1>1, <1>2, <1>4 DEF SentActions

(* The dispatch, of the lease or after its end.                             *)
LEMMA DispatchedKeeps ==
  ASSUME RemoteInv, SinkFits, failures' = failures, InputDispatched PROVE RemoteInv'
<1>0. X11Host /\ Wires /\ Phases /\ NewLeaseIsClean /\ Page /\ Down
  BY DEF RemoteInv
<1>1. PICK a, l : a = wire[taken].action /\ l = wire[taken].lease
  OBVIOUS
<1>2. /\ ctl = "dispatch" /\ ctl' = "loop" /\ Dispatch(a) /\ wire' = RemoveAt(wire, taken)
      /\ IF l = lease THEN UNCHANGED <<late, unseen>> ELSE late' = a /\ unseen' = TRUE
      /\ UNCHANGED <<lease, notices, leases, sweep, viewerLease>>
      /\ UNCHANGED <<keyboard, swap, control, heldKeys, heldButtons>>
  BY <1>1 DEF InputDispatched, viewerVars, fsmVars
<1>3. /\ taken \in 1 .. Len(wire) /\ a \in KeyActions \cup ButtonActions
      /\ l # 0 /\ lease \in {0, l}
  BY <1>0, <1>1, <1>2, TakenIs
<1>4. X11Host' /\ os'.down \subseteq os.down \cup Chord(a)
  BY <1>0, <1>2, <1>3, DispatchEffect
<1>5. wire \in Seq(Envelope)
  BY <1>0 DEF Wires
<1>6. /\ wire' \in Seq(Envelope)
      /\ \A i \in 1 .. Len(wire') : \E j \in 1 .. Len(wire) : wire'[i] = wire[j]
  BY <1>2, <1>3, <1>5, RestIsOf
<1>7. Wires'
  BY <1>0, <1>2, <1>6, WiresShrink
<1>8. Phases'
  BY <1>2 DEF Phases
<1>9. NewLeaseIsClean'
  <2>1. lease = 0 => unseen' = TRUE
    BY <1>2, <1>3
  <2>2. lease # 0 => \A j \in 1 .. Len(notices) : notices[j] # lease
    BY <1>0, <1>1, <1>3 DEF NewLeaseIsClean
  <2> QED BY <1>2, <2>1, <2>2 DEF NewLeaseIsClean
<1>10. Page'
  <2>1. unseen => unseen'
    BY <1>2
  <2> QED BY <1>0, <1>2, <2>1, PageSame
<1>11. Down'
  <2> SUFFICES ASSUME lease = 0, sweep = "idle" PROVE os'.down \subseteq Chord(late)'
    BY <1>2 DEF Down
  <2>1. os.down = {}
    BY <1>0, <1>2 DEF Down
  <2>2. late' = a
    BY <1>2, <1>3
  <2>3. backend' = backend
    BY <1>0, <1>4 DEF X11Host
  <2>4. Chord(late)' = Chord(a)
    BY <2>2, <2>3 DEF Chord, Code
  <2> QED BY <1>4, <2>1, <2>4
<1> QED BY <1>4, <1>7, <1>8, <1>9, <1>10, <1>11 DEF RemoteInv

(* Nothing is sent, nothing is pressed or let go of.                        *)
LEMMA QuietKeeps ==
  ASSUME RemoteInv, UNCHANGED <<wire, lease, leases, notices, viewerLease, taskVars, sinkVars>>,
         Page', unseen => unseen'
  PROVE  RemoteInv'
<1>1. wire \in Seq(Envelope)
  BY DEF RemoteInv, Wires
<1>2. PICK r : r = <<>>
  OBVIOUS
<1>3. r \in Seq(Envelope) /\ wire' = wire \o r /\ Len(r) = 0 /\ \A i : i \notin 1 .. Len(r)
  BY <1>1, <1>2, ConcatProperties
<1> QED BY <1>3, PageSends

(* releaseHeldInput, where nothing is left down at the viewer or control    *)
(* ends.                                                                    *)
LEMMA ReleaseKeeps ==
  ASSUME RemoteInv, ReleaseHeldInput,
         UNCHANGED <<lease, leases, notices, viewerLease, taskVars, sinkVars>>, unseen => unseen',
         ~unseen' => keyboard' \subseteq Plain \cup Mods,
         controlling' => keyboard' = {} \/ unseen'
  PROVE  RemoteInv'
<1>1. Wires /\ Page
  BY DEF RemoteInv
<1>2. wire \in Seq(Envelope) /\ viewerLease \in Nat
  BY <1>1 DEF Wires
<1>3. wire' = wire \o Stamped(Releases) /\ heldKeys' = {} /\ heldButtons' = {}
  BY DEF ReleaseHeldInput
<1>4. PICK s : s = Releases
  OBVIOUS
<1>5. s \in Seq(SentActions)
  BY <1>1, <1>4, ReleasesAre
<1>6. PICK r : r = Stamped(s)
  OBVIOUS
<1>7. /\ r \in Seq(Envelope) /\ wire' = wire \o r
      /\ \A i \in 1 .. Len(r) : viewerLease # 0 /\ r[i].lease = viewerLease
  BY <1>2, <1>3, <1>4, <1>5, <1>6, StampedAs
<1>8. Page'
  <2>1. controlling' /\ ~unseen' => {} = { RemapHid(u)' : u \in keyboard' }
    OBVIOUS
  <2>2. IsFiniteSet({})
    BY FS_EmptySet
  <2> QED BY <1>3, <2>1, <2>2 DEF Page
<1> QED BY <1>7, <1>8, PageSends

(* modifierBits are modifiers, and the swap of Ctrl and Cmd takes no two keys *)
(* to one.                                                                  *)
LEMMA SwapProperties ==
  ASSUME NMods >= 3
  PROVE  /\ \A u \in Plain \cup Mods : RemapHid(u) \in Plain \cup Mods
         /\ \A u, v \in Plain \cup Mods : RemapHid(u) = RemapHid(v) => u = v
         /\ \A down : ModifierBits(down) \in SUBSET Mods
<1>1. NMods \in Nat /\ Plain \cap Mods = {}
  BY SinkAssumption
<1>2. \A i \in Mods : Swapped(i) \in Mods
  BY <1>1 DEF Swapped, Mods
<1>3. \A i, j \in Mods : Swapped(i) = Swapped(j) => i = j
  BY <1>1 DEF Swapped, Mods
<1>5. 1 \in Mods
  BY <1>1 DEF Mods
<1>6. \A down : ModifierBits(down) \in SUBSET Mods
  BY <1>2, <1>5 DEF ModifierBits
<1> QED BY <1>1, <1>2, <1>3, <1>6 DEF RemapHid

(* keydown and keyup.                                                       *)
LEMMA ForwardKeyKeeps ==
  ASSUME RemoteInv, NMods >= 3, NEW u \in Plain \cup Mods, NEW down \in BOOLEAN, ForwardKey(u, down)
  PROVE  RemoteInv'
<1>0. Wires /\ Page
  BY DEF RemoteInv
<1>1. PICK kb : kb = Edge(keyboard, u, down)
  OBVIOUS
<1>2. /\ keyboard' = kb /\ (down <=> u \notin keyboard)
      /\ unseen' = (unseen \/ (controlling /\ viewerLease = 0))
      /\ UNCHANGED <<swap, control, heldButtons, lease, leases, notices, viewerLease, taskVars,
           sinkVars>>
      /\ IF ~controlling THEN UNCHANGED <<heldKeys, wire>>
         ELSE /\ heldKeys' = Edge(heldKeys, RemapHid(u), down)
              /\ wire' = wire \o Stamped(<<KeyAction(RemapHid(u), down, ModifierBits(kb))>>)
  BY <1>1 DEF ForwardKey, fsmVars, hostSideVars
<1>3. controlling' = controlling /\ (unseen => unseen') /\ \A v : RemapHid(v)' = RemapHid(v)
  BY <1>2 DEF controlling, RemapHid, Swapped
<1>4. wire \in Seq(Envelope) /\ viewerLease \in Nat
  BY <1>0 DEF Wires
<1>5. ~unseen => kb \subseteq Plain \cup Mods
  BY <1>0, <1>1 DEF Page, Edge
<1>6. CASE ~controlling
  <2>1. Page'
    BY <1>0, <1>2, <1>3, <1>5, <1>6 DEF Page
  <2> QED BY <1>2, <1>3, <1>6, <2>1, QuietKeeps
<1>7. CASE controlling
  <2>1. PICK h, m : h = RemapHid(u) /\ m = ModifierBits(kb)
    OBVIOUS
  <2>2. h \in Plain \cup Mods /\ m \in SUBSET Mods
    BY <2>1, SwapProperties
  <2>3. heldKeys' = Edge(heldKeys, h, down)
    BY <1>2, <1>7, <2>1
  <2>4. Page'
    <3>1. heldKeys' \subseteq Plain \cup Mods /\ IsFiniteSet(heldKeys')
      BY <1>0, <2>2, <2>3, FS_AddElement, FS_RemoveElement DEF Page, Edge
    <3>2. ASSUME ~unseen PROVE heldKeys' = { RemapHid(v) : v \in kb }
      <4>1. heldKeys = { RemapHid(v) : v \in keyboard } /\ keyboard \subseteq Plain \cup Mods
        BY <1>0, <1>7, <3>2 DEF Page
      <4>2. CASE down
        <5>1. kb = keyboard \cup {u} /\ heldKeys' = heldKeys \cup {h}
          BY <1>1, <2>3, <4>2 DEF Edge
        <5> QED BY <2>1, <4>1, <5>1
      <4>3. CASE ~down
        <5>1. kb = keyboard \ {u} /\ heldKeys' = heldKeys \ {h}
          BY <1>1, <2>3, <4>3 DEF Edge
        <5>2. \A v \in keyboard : RemapHid(v) = h => v = u
          BY <2>1, <4>1, SwapProperties
        <5> QED BY <2>1, <4>1, <5>1, <5>2
      <4> QED BY <4>2, <4>3
    <3> QED BY <1>0, <1>2, <1>3, <1>5, <1>7, <3>1, <3>2 DEF Page
  <2>5. PICK a : a = KeyAction(h, down, m)
    OBVIOUS
  <2>6. a \in SentActions
    BY <2>2, <2>5, ActionsAre
  <2>7. PICK s : s = <<a>>
    OBVIOUS
  <2>8. s \in Seq(SentActions)
    BY <2>6, <2>7
  <2>9. wire' = wire \o Stamped(s)
    <3>1. wire' = wire \o Stamped(<<KeyAction(RemapHid(u), down, ModifierBits(kb))>>)
      BY <1>2, <1>7
    <3>2. a = KeyAction(RemapHid(u), down, ModifierBits(kb))
      BY <2>1, <2>5, Zenon
    <3> QED BY <2>7, <3>1, <3>2, Zenon
  <2>10. PICK r : r = Stamped(s)
    OBVIOUS
  <2>11. /\ r \in Seq(Envelope) /\ wire' = wire \o r
         /\ \A i \in 1 .. Len(r) : viewerLease # 0 /\ r[i].lease = viewerLease
    BY <1>4, <2>8, <2>9, <2>10, StampedAs
  <2> QED BY <1>2, <1>3, <2>4, <2>11, PageSends
<1> QED BY <1>6, <1>7

(* pointerdown and pointerup.                                               *)
LEMMA ForwardButtonKeeps ==
  ASSUME RemoteInv, NEW b \in PointerButtons, NEW down \in BOOLEAN, NEW above \in BOOLEAN,
         ForwardButton(b, down, above)
  PROVE  RemoteInv'
<1>0. Wires /\ Page
  BY DEF RemoteInv
<1>1. /\ UNCHANGED <<keyboard, swap, control, heldKeys, unseen, lease, leases, notices,
           viewerLease, taskVars, sinkVars>>
      /\ IF ~controlling \/ ~above THEN UNCHANGED <<heldButtons, wire>>
         ELSE /\ heldButtons' = Edge(heldButtons, b, down)
              /\ wire' = wire \o Stamped(<<ButtonAction(b, down)>>)
  BY DEF ForwardButton, fsmVars, hostSideVars
<1>2. controlling' = controlling /\ \A v : RemapHid(v)' = RemapHid(v)
  BY <1>1 DEF controlling, RemapHid, Swapped
<1>3. wire \in Seq(Envelope) /\ viewerLease \in Nat
  BY <1>0 DEF Wires
<1>4. CASE ~controlling \/ ~above
  <2>1. Page'
    BY <1>0, <1>1, <1>2, <1>4 DEF Page
  <2> QED BY <1>1, <1>4, <2>1, QuietKeeps
<1>5. CASE controlling /\ above
  <2>1. heldButtons' = Edge(heldButtons, b, down)
    BY <1>1, <1>5
  <2>2. Page'
    <3>1. heldButtons' \subseteq PointerButtons /\ IsFiniteSet(heldButtons')
      BY <1>0, <2>1, FS_AddElement, FS_RemoveElement DEF Page, Edge
    <3> QED BY <1>0, <1>1, <1>2, <1>5, <3>1 DEF Page
  <2>3. PICK a : a = ButtonAction(b, down)
    OBVIOUS
  <2>4. a \in SentActions
    BY <2>3, ActionsAre
  <2>5. PICK s : s = <<a>>
    OBVIOUS
  <2>6. s \in Seq(SentActions)
    BY <2>4, <2>5
  <2>7. wire' = wire \o Stamped(s)
    <3>1. wire' = wire \o Stamped(<<ButtonAction(b, down)>>)
      BY <1>1, <1>5
    <3> QED BY <2>3, <2>5, <3>1, Zenon
  <2>8. PICK r : r = Stamped(s)
    OBVIOUS
  <2>9. /\ r \in Seq(Envelope) /\ wire' = wire \o r
        /\ \A i \in 1 .. Len(r) : viewerLease # 0 /\ r[i].lease = viewerLease
    BY <1>3, <2>6, <2>7, <2>8, StampedAs
  <2> QED BY <1>1, <2>2, <2>9, PageSends
<1> QED BY <1>4, <1>5

(* Focus and the swap of the keys.                                          *)
LEMMA FocusLostKeeps == ASSUME RemoteInv, FocusLost PROVE RemoteInv'
<1>1. /\ ReleaseHeldInput /\ unseen' = (unseen \/ keyboard' # {})
      /\ UNCHANGED <<lease, leases, notices, viewerLease, taskVars, sinkVars>>
  BY DEF FocusLost, hostSideVars
<1>2. ~unseen' => ~unseen /\ keyboard' = {}
  BY <1>1
<1> QED BY <1>1, <1>2, ReleaseKeeps

(* The swap of Ctrl and Cmd is changed: with a key down the page sees another. *)
LEMMA ToggleSwapKeeps == ASSUME RemoteInv, ToggleSwap PROVE RemoteInv'
<1>1. /\ unseen' = (unseen \/ keyboard # {})
      /\ UNCHANGED <<keyboard, control, heldKeys, heldButtons, wire, lease, leases, notices,
           viewerLease, taskVars, sinkVars>>
  BY DEF ToggleSwap, hostSideVars, fsmVars
<1>2. ~unseen' => ~unseen /\ keyboard = {}
  BY <1>1
<1>3. Page'
  <2>1. Page
    BY DEF RemoteInv
  <2>2. ~unseen' => { RemapHid(u) : u \in keyboard } = {} /\ { RemapHid(u)' : u \in keyboard } = {}
    BY <1>2
  <2> QED BY <1>1, <1>2, <2>1, <2>2 DEF Page, controlling
<1> QED BY <1>1, <1>2, <1>3, QuietKeeps

(* The steps of the take-control state machine.                             *)
LEMMA SetControlKeeps ==
  ASSUME RemoteInv, NEW state, state \notin {"granted", "requesting"}, SetControl(state),
         FsmUnchanged, UNCHANGED <<lease, leases, notices, taskVars>>
  PROVE  RemoteInv'
<1>1. ReleaseHeldInput /\ ~controlling' /\ UNCHANGED <<keyboard, viewerLease, sinkVars>>
  BY DEF SetControl, FsmUnchanged, controlling
<1>2. unseen => unseen'
  BY DEF FsmUnchanged
<1>3. ~unseen' => keyboard' \subseteq Plain \cup Mods
  BY <1>1, <1>2 DEF RemoteInv, Page
<1> QED BY <1>1, <1>2, <1>3, ReleaseKeeps

(* The page takes control: nothing is held until a key goes down.           *)
LEMMA GrantedKeeps ==
  ASSUME RemoteInv, SetControl("granted"), FsmUnchanged,
         UNCHANGED <<lease, leases, notices, taskVars>>
  PROVE  RemoteInv'
<1>1. /\ UNCHANGED <<heldKeys, heldButtons, wire, keyboard, swap, viewerLease, sinkVars>>
      /\ unseen' = (unseen \/ (control # "granted" /\ keyboard # {})) /\ controlling'
  BY DEF SetControl, FsmUnchanged, controlling
<1>2. \A u : RemapHid(u)' = RemapHid(u)
  BY <1>1 DEF RemapHid, Swapped
<1>3. ~unseen' => ~unseen /\ (controlling \/ keyboard = {})
  BY <1>1 DEF controlling
<1>4. Page'
  <2>1. Page
    BY DEF RemoteInv
  <2>2. keyboard = {} => { RemapHid(u) : u \in keyboard } = {}
    OBVIOUS
  <2> QED BY <1>1, <1>2, <1>3, <2>1, <2>2 DEF Page
<1> QED BY <1>1, <1>3, <1>4, QuietKeeps

(* A step that leaves the state of the page alone.                          *)
LEMMA SameControlKeeps ==
  ASSUME RemoteInv, FsmUnchanged,
         UNCHANGED <<control, heldKeys, heldButtons, wire, lease, leases, notices, taskVars>>
  PROVE  RemoteInv'
<1>1. UNCHANGED <<keyboard, swap, viewerLease, sinkVars>> /\ (unseen => unseen')
  BY DEF FsmUnchanged
<1>2. Page'
  BY <1>1, PageSame DEF RemoteInv
<1> QED BY <1>1, <1>2, QuietKeeps

(* A request for control is of no lease.                                    *)
LEMMA RequestKeeps == ASSUME RemoteInv, Request PROVE RemoteInv'
<1>1. /\ control = "idle" /\ control' = "requesting"
      /\ wire' = Append(wire, [lease |-> 0, action |-> ControlRequest])
      /\ UNCHANGED <<heldKeys, heldButtons, keyboard, lease, leases, notices, viewerLease,
           taskVars, sinkVars>>
      /\ (unseen => unseen')
  BY DEF Request, FsmUnchanged, hostSideVars
<1>2. PICK e : e = [lease |-> 0, action |-> ControlRequest]
  OBVIOUS
<1>3. e \in Envelope /\ e.action = ControlRequest /\ e.lease = 0
  BY <1>2, ActionsAre DEF Envelope
<1>4. wire \in Seq(Envelope)
  BY DEF RemoteInv, Wires
<1>5. PICK r : r = <<e>>
  OBVIOUS
<1>6. r \in Seq(Envelope) /\ Len(r) = 1 /\ r[1] = e /\ wire' = wire \o r
  <2>1. wire' = Append(wire, e)
    BY <1>1, <1>2, Zenon
  <2>2. r \in Seq(Envelope) /\ Len(r) = 1 /\ r[1] = e
    BY <1>3, <1>5
  <2>3. Append(wire, e) = wire \o r
    BY <1>3, <1>4, <1>5, AppendIsConcat
  <2> QED BY <2>1, <2>2, <2>3
<1>7. Page'
  BY <1>1 DEF RemoteInv, Page, controlling
<1>8. \A i \in 1 .. Len(r) : r[i].action = ControlRequest /\ r[i].lease = 0
  BY <1>3, <1>6
<1> QED BY <1>1, <1>6, <1>7, <1>8, PageSends

(* Every step of the host's tasks.                                          *)
LEMMA HostKeeps ==
  ASSUME RemoteInv, SinkFits, SafeToRelease, failures' = failures,
         \/ HostDenies \/ HostAllows \/ ReplacedIsFlushed \/ ReplacementIssued
         \/ SweepRevokes \/ SweepFlushes
  PROVE  RemoteInv'
<1>1. CASE HostDenies
  <2>1. /\ ctl = "loop" /\ notices' = Append(notices, 0)
        /\ UNCHANGED <<lease, leases, viewerLease, taskVars, sinkVars, unseen, wire>>
        /\ UNCHANGED <<keyboard, swap, control, heldKeys, heldButtons>>
    BY <1>1 DEF HostDenies, HostUnchanged, viewerVars, fsmVars
  <2>2. wire' \in Seq(Envelope)
    BY <2>1 DEF RemoteInv, Wires
  <2>3. ctl # "dispatch"
    BY <2>1
  <2> QED BY <2>1, <2>2, <2>3, RefusalKeeps
<1>2. CASE HostAllows
  BY <1>2, IssuedKeeps, RevokedKeeps DEF HostAllows
<1>3. CASE ReplacedIsFlushed
  BY <1>3, FlushedKeeps DEF ReplacedIsFlushed
<1>4. CASE ReplacementIssued
  BY <1>4, IssuedKeeps DEF ReplacementIssued, RemoteInv, Phases
<1>5. CASE SweepRevokes
  BY <1>5, RevokedKeeps DEF SweepRevokes
<1>6. CASE SweepFlushes
  BY <1>6, FlushedKeeps DEF SweepFlushes
<1> QED BY <1>1, <1>2, <1>3, <1>4, <1>5, <1>6

(* What the control task takes from the stream and lets no further.         *)
LEMMA RefusedKeeps ==
  ASSUME RemoteInv, InputRefused \/ \E refused \in BOOLEAN : RequestArrives(refused)
  PROVE  RemoteInv'
<1>1. Wires
  BY DEF RemoteInv
<1>2. /\ ctl = "loop" /\ \E i \in Arriving : wire' = RemoveAt(wire, i)
      /\ UNCHANGED <<lease, leases, viewerLease, taskVars, sinkVars>>
      /\ UNCHANGED <<keyboard, swap, control, heldKeys, heldButtons>>
      /\ (unseen => unseen') /\ notices' \in {notices, Append(notices, 0)}
  <2>1. CASE InputRefused
    BY <2>1 DEF InputRefused, viewerVars, fsmVars, hostSideVars
  <2>2. ASSUME NEW refused \in BOOLEAN, RequestArrives(refused)
        PROVE  /\ ctl = "loop" /\ \E i \in Arriving : wire' = RemoveAt(wire, i)
               /\ UNCHANGED <<lease, leases, viewerLease, taskVars, sinkVars>>
               /\ UNCHANGED <<keyboard, swap, control, heldKeys, heldButtons>>
               /\ (unseen => unseen') /\ notices' \in {notices, Append(notices, 0)}
    BY <2>2 DEF RequestArrives, viewerVars, fsmVars
  <2> QED BY <2>1, <2>2
<1>3. /\ wire' \in Seq(Envelope)
      /\ \A n \in 1 .. Len(wire') : \E j \in 1 .. Len(wire) : wire'[n] = wire[j]
  BY <1>1, <1>2, ArrivingIsOnWire
<1>4. ctl # "dispatch"
  BY <1>2
<1> QED BY <1>2, <1>3, <1>4, RefusalKeeps

(* Every step of the whole way.                                             *)
LEMMA RemoteNextKeeps ==
  ASSUME RemoteInv, SinkFits, SafeToRelease, NMods >= 3, RemoteNext, failures' = failures
  PROVE  RemoteInv'
<1>1. CASE ViewerActs
  <2>1. CASE Toggle
    BY <2>1, SetControlKeeps DEF Toggle, hostSideVars
  <2> QED BY <1>1, <2>1, ForwardKeyKeeps, ForwardButtonKeeps, FocusLostKeeps, ToggleSwapKeeps,
        RequestKeeps
          DEF ViewerActs
<1>2. CASE PollWakes
  BY <1>2, SameControlKeeps DEF PollWakes, hostSideVars
<1>3. CASE PollAnswered
  BY <1>3, GrantedKeeps, SameControlKeeps DEF PollAnswered, hostSideVars
<1>4. CASE RequestTimesOut
  BY <1>4, SetControlKeeps DEF RequestTimesOut, hostSideVars
<1>5. CASE RevertToIdle
  BY <1>5, SetControlKeeps DEF RevertToIdle, hostSideVars
<1>6. CASE NotifyConsentDenied
  BY <1>6, SetControlKeeps, SameControlKeeps DEF NotifyConsentDenied, hostSideVars
<1> QED BY <1>1, <1>2, <1>3, <1>4, <1>5, <1>6, HostKeeps, NoticeKeeps, RefusedKeeps,
      AuthorizedKeeps, DispatchedKeeps
        DEF RemoteNext

(* At the start.                                                            *)
LEMMA RemoteInitial == RemoteInit /\ backend = "x11" => RemoteInv
<1> SUFFICES ASSUME RemoteInit, backend = "x11" PROVE RemoteInv
  OBVIOUS
<1>1. /\ keyboard = {} /\ control = "idle" /\ heldKeys = {} /\ heldButtons = {} /\ viewerLease = 0
      /\ wire = <<>> /\ lease = 0 /\ notices = <<>> /\ leases = 0 /\ ctl = "loop"
      /\ sink = [keys |-> {}, buttons |-> {}, mods |-> {}, caps |-> FALSE]
      /\ os = [down |-> {}, caps |-> FALSE]
      /\ failures = 0 /\ lost = {} /\ tapped = {}
  BY DEF RemoteInit, SinkInit
<1>2. Len(<<>>) = 0 /\ <<>> \in Seq(Envelope) /\ <<>> \in Seq(Nat)
  OBVIOUS
<1>3. X11Host
  BY <1>1 DEF X11Host
<1>4. Wires
  BY <1>1, <1>2 DEF Wires
<1>5. NewLeaseIsClean
  BY <1>1, <1>2 DEF NewLeaseIsClean
<1>6. Page
  BY <1>1, FS_EmptySet DEF Page, controlling
<1>7. Phases
  BY <1>1 DEF Phases
<1>8. Down
  BY <1>1 DEF Down
<1> QED BY <1>3, <1>4, <1>5, <1>6, <1>7, <1>8 DEF RemoteInv

(* The invariant at the start of any of the parts.                          *)
LEMMA InputInitial == Init => InputInv
<1> SUFFICES ASSUME Init PROVE InputInv
  OBVIOUS
<1>1. RemoteInit /\ SinkInit /\ (part # "sink" => backend = "x11")
  BY DEF Init, RemoteInit
<1> QED BY <1>1, SinkInitial, RemoteInitial DEF InputInv

(* What the back end does on the whole way it does by itself.               *)
LEMMA RemoteSinkStep ==
  ASSUME RemoteInv, RemoteNext PROVE [SinkNext]_sinkVars
<1>1. CASE InputDispatched
  <2>1. PICK a : a = wire[taken].action
    OBVIOUS
  <2>2. a \in KeyActions \cup ButtonActions /\ Dispatch(a)
    BY <1>1, <2>1, TakenIs DEF RemoteInv, InputDispatched
  <2>3. CASE a \in KeyActions
    <3>1. a.kind = "key" /\ a.of \in Plain \cup Mods /\ a.down \in BOOLEAN /\ a.mods \in SUBSET Mods
      BY <2>3 DEF KeyActions
    <3>2. SinkKey(a.of, a.down, a.mods)
      BY <2>2, <3>1 DEF Dispatch
    <3> QED BY <3>1, <3>2 DEF SinkNext
  <2>4. CASE a \in ButtonActions
    <3>1. a.kind = "button" /\ a.of \in PointerButtons /\ a.down \in BOOLEAN
      BY <2>4 DEF ButtonActions
    <3>2. SinkButton(a.of, a.down)
      BY <2>2, <3>1 DEF Dispatch
    <3> QED BY <3>1, <3>2 DEF SinkNext
  <2> QED BY <2>2, <2>3, <2>4
<1>2. CASE ReplacedIsFlushed \/ SweepFlushes
  <2>1. SinkReleaseAll({})
    BY <1>2 DEF ReplacedIsFlushed, SweepFlushes, Flushed
  <2> QED BY <2>1 DEF SinkNext
<1>3. CASE HostDenies \/ HostAllows \/ ReplacementIssued \/ SweepRevokes \/ NoticeArrives
  BY <1>3 DEF HostDenies, HostAllows, ReplacementIssued, SweepRevokes, NoticeArrives, Issued, Revoked
<1>4. CASE InputRefused \/ InputAuthorized \/ \E refused \in BOOLEAN : RequestArrives(refused)
  BY <1>4 DEF InputRefused, InputAuthorized, RequestArrives
<1>5. CASE ViewerActs
  BY <1>5 DEF ViewerActs, ForwardKey, ForwardButton, FocusLost, ToggleSwap, Toggle, Request,
              FsmUnchanged
<1>6. CASE PollWakes \/ PollAnswered \/ RequestTimesOut \/ RevertToIdle \/ NotifyConsentDenied
  BY <1>6 DEF PollWakes, PollAnswered, RequestTimesOut, RevertToIdle, NotifyConsentDenied,
     FsmUnchanged
<1> QED BY <1>1, <1>2, <1>3, <1>4, <1>5, <1>6 DEF RemoteNext

(* The invariant is inductive.                                              *)
LEMMA InputNext ==
  ASSUME NMods >= 3, InputInv, [Next]_vars PROVE InputInv'
<1>0. SinkFits /\ SafeToRelease /\ (part = "remote" => RemoteInv)
  BY DEF InputInv
<1>1. CASE Sink
  <2>1. part = "sink" /\ part' = part /\ SinkNext
    BY <1>1 DEF Sink
  <2> QED BY <1>0, <2>1, SinkNextSafe DEF InputInv
<1>2. CASE Remote
  <2>1. part = "remote" /\ part' = part /\ RemoteNext /\ failures' = failures
    BY <1>2 DEF Remote
  <2>2. RemoteInv'
    BY <1>0, <2>1, RemoteNextKeeps
  <2>3. [SinkNext]_sinkVars
    BY <1>0, <2>1, RemoteSinkStep
  <2>4. SinkFits' /\ SafeToRelease'
    BY <1>0, <2>3, SinkNextSafe
  <2> QED BY <2>1, <2>2, <2>4 DEF InputInv
<1>3. CASE Player \/ Cursor \/ MediaThread \/ Signalling \/ UNCHANGED vars
  <2>1. part' = part /\ UNCHANGED remoteVars
    BY <1>3 DEF Player, Cursor, MediaThread, Signalling, vars
  <2>2. /\ UNCHANGED <<keyboard, swap, control, heldKeys, heldButtons, viewerLease, wire, lease>>
        /\ UNCHANGED <<leases, notices, taskVars, unseen, sinkVars>>
    BY <2>1 DEF remoteVars, viewerVars, fsmVars, hostSideVars
  <2>3. SinkFits' /\ SafeToRelease'
    BY <1>0, <2>2, SinkNextSafe
  <2>4. ASSUME RemoteInv PROVE RemoteInv'
    <3>1. Page'
      BY <2>2, <2>4, PageSame DEF RemoteInv
    <3> QED BY <2>2, <2>4, <3>1, QuietKeeps
  <2> QED BY <1>0, <2>1, <2>3, <2>4 DEF InputInv
<1> QED BY <1>1, <1>2, <1>3 DEF Next

(* host_handle_input, sweep_expired_lease, host_finish_control_request and  *)
(* release_all: whatever is down at the host the back end can release, and  *)
(* once whoever ended a lease has flushed, nothing is down without a lease  *)
(* but of the one action that had passed the gate before its end. In any    *)
(* order of the envelopes, over any number of leases.                       *)
THEOREM WhatIsLeftDown ==
  ASSUME NMods >= 3 PROVE Spec => [](SafeToRelease /\ LeaselessIsUp)
<1>1. InputInv /\ [Next]_vars => InputInv'
  BY InputNext
<1>2. InputInv => SafeToRelease /\ LeaselessIsUp
  <2> SUFFICES ASSUME InputInv, part = "remote", lease = 0, ctl # "flush", sweep = "idle"
               PROVE  os.down \subseteq Chord(late)
    BY DEF InputInv, LeaselessIsUp, DownWithoutLease
  <2> QED BY DEF InputInv, RemoteInv, Down
<1> QED BY <1>1, <1>2, InputInitial, PTL DEF Spec

-------------------------------------------------------------------------------
(* What the modifiers of a key are, when the keys K are down.               *)
Bits(K) == (K \cap Mods) \cup (IF Right \in K THEN {1} ELSE {})

(* The keys down at the viewer and the modifiers last sent, as the host     *)
(* will have them before each envelope and after the last.                  *)
Typing == (SUBSET (Plain \cup Mods)) \X SUBSET Mods

Follows(s, e, t) ==
  /\ ~KeyEdge(e) => t = s
  /\ KeyEdge(e) /\ e.action.down =>
       /\ s[2] = Bits(s[1])
       /\ t = << s[1] \cup {e.action.of}, e.action.mods >> /\ t[2] = Bits(t[1])
  /\ KeyEdge(e) /\ ~e.action.down =>
       /\ t = << s[1] \ {e.action.of}, e.action.mods >>
       /\ e.action.mods = {} \/ (s[2] = Bits(s[1]) /\ t[2] = Bits(t[1]))

TypedChain(g, w) ==
  /\ Len(g) = Len(w) + 1 /\ \A i \in 1 .. Len(w) : Follows(g[i], w[i], g[i + 1])
  /\ \A n \in 1 .. Len(g) : (\A i \in 1 .. Len(w) : i >= n => ~KeyEdge(w[i])) => g[n] = g[Len(g)]

(* The system has down what was typed.                                      *)
HostFits(down, mods, K) ==
  /\ \A u \in Plain : <<"key", u>> \in down <=> u \in K
  /\ \A i \in Mods : Modifier(i) \in down => i \in mods
  /\ mods = Bits(K) => \A i \in K \cap Mods : Modifier(i) \in down

(* What was typed, and the modifiers last sent: those of the keys, or none  *)
(* after the ups of the page.                                               *)
Begins(down, mods, s) ==
  s[2] = mods /\ mods \in {{}, Bits(s[1])} /\ HostFits(down, mods, s[1])

(* What the page holds is what will have been typed; it may have forgotten  *)
(* it under a lease it no longer has.                                       *)
EndFits(s) ==
  /\ s[2] = Bits(s[1]) /\ heldKeys \in {{}, s[1]}
  /\ Current => heldKeys = s[1]
  /\ lease = 0 => s[1] = {}

(* The newest lease is the one that is held; under it no other is heard of, *)
(* and only under it is more sent.                                          *)
Stamps ==
  /\ lease \in {0, leases}
  /\ \A i, j \in 1 .. Len(notices) : i < j /\ notices[j] # 0 => notices[i] < notices[j]
  /\ lease # 0 /\ (viewerLease = lease \/ \E i \in 1 .. Len(wire) : wire[i].lease = lease) =>
       viewerLease \in {0, lease} /\ \A j \in 1 .. Len(notices) : notices[j] = 0
  /\ \A i, j \in 1 .. Len(wire) : i < j /\ lease # 0 /\ wire[i].lease = lease =>
       wire[j].action = ControlRequest \/ wire[j].lease = lease

Typed ==
  ~unseen => /\ ~mistyped
             /\ AllOf(wire, lease) =>
                  \E g \in Seq(Typing) : /\ TypedChain(g, wire)
                                         /\ Begins(os.down, sink.mods, g[1])
                                         /\ EndFits(g[Len(g)])

TypedInv == Stamps /\ Typed

(* Two runs of envelopes, one after the other.                              *)
LEMMA ChainsJoin ==
  ASSUME NEW E, NEW w \in Seq(E), NEW r \in Seq(E), NEW g \in Seq(Typing), NEW h \in Seq(Typing),
         TypedChain(g, w), TypedChain(h, r), g[Len(g)] = h[1]
  PROVE  \E k \in Seq(Typing) : TypedChain(k, w \o r) /\ k[1] = g[1] /\ k[Len(k)] = h[Len(h)]
<1> DEFINE z == w \o r
           k == [i \in 1 .. Len(w) + Len(r) + 1 |-> IF i <= Len(w) + 1 THEN g[i] ELSE h[i - Len(w)]]
<1>1. /\ Len(w) \in Nat /\ Len(r) \in Nat /\ Len(z) = Len(w) + Len(r)
      /\ \A i \in 1 .. Len(w) : z[i] = w[i]
      /\ \A i \in 1 .. Len(z) : i > Len(w) => i - Len(w) \in 1 .. Len(r) /\ z[i] = r[i - Len(w)]
  BY ConcatProperties, LenProperties
<1>2. \A j \in 1 .. Len(r) : Len(w) + j \in 1 .. Len(z) /\ Len(w) + j > Len(w) /\
        z[Len(w) + j] = r[j]
  BY <1>1
<1>3. /\ Len(g) = Len(w) + 1 /\ Len(h) = Len(r) + 1
      /\ \A i \in 1 .. Len(w) : Follows(g[i], w[i], g[i + 1])
      /\ \A i \in 1 .. Len(r) : Follows(h[i], r[i], h[i + 1])
      /\ \A n \in 1 .. Len(g) : (\A i \in 1 .. Len(w) : i >= n => ~KeyEdge(w[i])) =>
           g[n] = g[Len(g)]
      /\ \A n \in 1 .. Len(h) : (\A i \in 1 .. Len(r) : i >= n => ~KeyEdge(r[i])) =>
           h[n] = h[Len(h)]
  BY DEF TypedChain
<1>4. /\ \A i \in 1 .. Len(g) : g[i] \in Typing
      /\ \A i \in 1 .. Len(h) : h[i] \in Typing
  OBVIOUS
<1>5. \A i \in 1 .. Len(w) + Len(r) + 1 : k[i] \in Typing
  BY <1>1, <1>3, <1>4
<1>6. k \in Seq(Typing) /\ Len(k) = Len(w) + Len(r) + 1
  BY <1>1, <1>5
<1>7. \A i \in 1 .. Len(w) + 1 : k[i] = g[i]
  BY <1>1
<1>8. \A j \in 1 .. Len(r) + 1 : k[Len(w) + j] = h[j]
  <2> SUFFICES ASSUME NEW j \in 1 .. Len(r) + 1 PROVE k[Len(w) + j] = h[j]
    OBVIOUS
  <2>1. CASE j = 1
    BY <1>1, <1>3, <2>1
  <2>2. CASE j # 1
    BY <1>1, <2>2
  <2> QED BY <2>1, <2>2
<1> HIDE DEF z, k
<1>9. ASSUME NEW i \in 1 .. Len(z) PROVE Follows(k[i], z[i], k[i + 1])
  <2>1. CASE i <= Len(w)
    <3>1. i \in 1 .. Len(w) /\ i \in 1 .. Len(w) + 1 /\ i + 1 \in 1 .. Len(w) + 1
      BY <1>1, <2>1
    <3>2. k[i] = g[i] /\ k[i + 1] = g[i + 1] /\ z[i] = w[i]
      BY <1>1, <1>7, <3>1
    <3> QED BY <1>3, <3>1, <3>2
  <2>2. CASE i > Len(w)
    <3>1. PICK j \in 1 .. Len(r) : i = Len(w) + j
      BY <1>1, <2>2
    <3>2. k[i] = h[j] /\ k[i + 1] = h[j + 1]
      <4>1. j \in 1 .. Len(r) + 1 /\ j + 1 \in 1 .. Len(r) + 1 /\ i + 1 = Len(w) + (j + 1)
        BY <1>1, <3>1
      <4> QED BY <1>8, <3>1, <4>1
    <3>3. z[i] = r[j]
      BY <1>2, <3>1
    <3> QED BY <1>3, <3>2, <3>3
  <2> QED BY <1>1, <2>1, <2>2
<1>10. k[Len(k)] = h[Len(h)]
  <2>1. Len(h) \in 1 .. Len(r) + 1 /\ Len(k) = Len(w) + Len(h)
    BY <1>1, <1>3, <1>6
  <2> QED BY <1>8, <2>1
<1>11. ASSUME NEW n \in 1 .. Len(k), \A i \in 1 .. Len(z) : i >= n => ~KeyEdge(z[i])
       PROVE  k[n] = k[Len(k)]
  <2>1. CASE n <= Len(w) + 1
    <3>1. \A i \in 1 .. Len(w) : i >= n => ~KeyEdge(w[i])
      BY <1>1, <1>11
    <3>2. \A i \in 1 .. Len(r) : ~KeyEdge(r[i])
      <4> SUFFICES ASSUME NEW i \in 1 .. Len(r) PROVE ~KeyEdge(r[i])
        OBVIOUS
      <4>1. Len(w) + i \in 1 .. Len(z) /\ Len(w) + i >= n /\ z[Len(w) + i] = r[i]
        BY <1>1, <1>2, <2>1
      <4> QED BY <1>11, <4>1
    <3>3. n \in 1 .. Len(g) /\ 1 \in 1 .. Len(h)
      BY <1>1, <1>3, <2>1
    <3>4. g[n] = g[Len(g)] /\ h[1] = h[Len(h)]
      BY <1>3, <3>1, <3>2, <3>3
    <3>5. k[n] = g[n]
      BY <1>1, <1>7, <2>1
    <3> QED BY <1>10, <3>4, <3>5
  <2>2. CASE n > Len(w) + 1
    <3>0. n - Len(w) \in 1 .. Len(h) /\ n = Len(w) + (n - Len(w))
      BY <1>1, <1>3, <1>6, <2>2
    <3>1. PICK j \in 1 .. Len(h) : n = Len(w) + j
      BY <3>0
    <3>2. k[n] = h[j]
      BY <1>3, <1>8, <3>1
    <3>3. ASSUME NEW i \in 1 .. Len(r), i >= j PROVE ~KeyEdge(r[i])
      <4>1. Len(w) + i \in 1 .. Len(z) /\ Len(w) + i >= n /\ z[Len(w) + i] = r[i]
        BY <1>1, <1>2, <3>1, <3>3
      <4> QED BY <1>11, <4>1
    <3> QED BY <1>3, <1>10, <3>2, <3>3
  <2> QED BY <1>1, <1>6, <2>1, <2>2
<1>12. TypedChain(k, z)
  BY <1>1, <1>6, <1>9, <1>11 DEF TypedChain
<1>13. k[1] = g[1]
  BY <1>1, <1>7
<1> QED BY <1>6, <1>10, <1>12, <1>13 DEF z

(* The first envelope arrives.                                              *)
LEMMA TypedChainShrinks ==
  ASSUME NEW E, NEW w \in Seq(E), w # <<>>, NEW g \in Seq(Typing), TypedChain(g, w)
  PROVE  /\ Tail(g) \in Seq(Typing) /\ TypedChain(Tail(g), Tail(w))
         /\ Follows(g[1], w[1], Tail(g)[1]) /\ Tail(g)[Len(Tail(g))] = g[Len(g)]
         /\ g[1] \in Typing /\ Tail(g)[1] \in Typing
<1> DEFINE t == Tail(w)
           k == Tail(g)
<1>1. Len(w) \in Nat /\ Len(t) = Len(w) - 1 /\ 1 \in 1 .. Len(w)
      /\ \A i \in 1 .. Len(t) : i + 1 \in 1 .. Len(w) /\ t[i] = w[i + 1]
  BY HeadTailProperties, LenProperties, EmptySeq
<1>2. /\ Len(g) = Len(w) + 1 /\ \A i \in 1 .. Len(w) : Follows(g[i], w[i], g[i + 1])
      /\ \A n \in 1 .. Len(g) : (\A i \in 1 .. Len(w) : i >= n => ~KeyEdge(w[i])) =>
           g[n] = g[Len(g)]
  BY DEF TypedChain
<1>3. g # <<>>
  BY <1>1, <1>2
<1>4. k \in Seq(Typing) /\ Len(k) = Len(w) /\ \A i \in 1 .. Len(k) : i + 1 \in 1 .. Len(g) /\
        k[i] = g[i + 1]
  BY <1>1, <1>2, <1>3, HeadTailProperties
<1> HIDE DEF t, k
<1>5. ASSUME NEW i \in 1 .. Len(t) PROVE Follows(k[i], t[i], k[i + 1])
  <2>1. i \in 1 .. Len(k) /\ i + 1 \in 1 .. Len(k) /\ i + 1 \in 1 .. Len(w)
    BY <1>1, <1>4
  <2>2. k[i] = g[i + 1] /\ k[i + 1] = g[(i + 1) + 1] /\ t[i] = w[i + 1]
    BY <1>1, <1>4, <2>1
  <2> QED BY <1>2, <2>1, <2>2
<1>6. k[Len(k)] = g[Len(g)]
  BY <1>1, <1>2, <1>4
<1>7. ASSUME NEW n \in 1 .. Len(k), \A i \in 1 .. Len(t) : i >= n => ~KeyEdge(t[i])
      PROVE  k[n] = k[Len(k)]
  <2>1. ASSUME NEW i \in 1 .. Len(w), i >= n + 1 PROVE ~KeyEdge(w[i])
    <3>1. i - 1 \in 1 .. Len(t) /\ i - 1 >= n /\ (i - 1) + 1 = i
      BY <1>1, <1>4, <2>1
    <3>2. t[i - 1] = w[i]
      BY <1>1, <3>1
    <3> QED BY <1>7, <3>1, <3>2
  <2>2. n + 1 \in 1 .. Len(g) /\ k[n] = g[n + 1]
    BY <1>4
  <2> QED BY <1>2, <1>6, <2>1, <2>2
<1>8. TypedChain(k, t)
  BY <1>1, <1>4, <1>5, <1>7 DEF TypedChain
<1>9. Follows(g[1], w[1], k[1])
  BY <1>1, <1>2, <1>4
<1>10. g[1] \in Typing /\ k[1] \in Typing
  BY <1>1, <1>2, <1>4
<1> QED BY <1>4, <1>6, <1>8, <1>9, <1>10 DEF t, k

(* Envelopes of no key change nothing.                                      *)
LEMMA SameChain ==
  ASSUME NEW E, NEW r \in Seq(E), NEW s \in Typing, \A i \in 1 .. Len(r) : ~KeyEdge(r[i])
  PROVE  \E h \in Seq(Typing) : TypedChain(h, r) /\ h[1] = s /\ h[Len(h)] = s
<1> DEFINE h == [i \in 1 .. Len(r) + 1 |-> s]
<1>1. Len(r) \in Nat
  BY LenProperties
<1>2. h \in Seq(Typing) /\ Len(h) = Len(r) + 1 /\ \A i \in 1 .. Len(r) + 1 : h[i] = s
  BY <1>1
<1> HIDE DEF h
<1>3. \A i \in 1 .. Len(r) : i \in 1 .. Len(r) + 1 /\ i + 1 \in 1 .. Len(r) + 1
  BY <1>1
<1>4. TypedChain(h, r)
  BY <1>1, <1>2, <1>3 DEF TypedChain, Follows
<1> QED BY <1>1, <1>2, <1>4

(* One key.                                                                 *)
LEMMA OneChain ==
  ASSUME NEW E, NEW r \in Seq(E), Len(r) = 1, NEW s \in Typing, NEW t \in Typing,
         Follows(s, r[1], t)
  PROVE  \E h \in Seq(Typing) : TypedChain(h, r) /\ h[1] = s /\ h[Len(h)] = t
<1> DEFINE h == [i \in 1 .. 2 |-> IF i = 1 THEN s ELSE t]
<1>1. h \in Seq(Typing) /\ Len(h) = 2 /\ h[1] = s /\ h[2] = t
  OBVIOUS
<1> HIDE DEF h
<1>2. \A i \in 1 .. Len(r) : Follows(h[i], r[i], h[i + 1])
  BY <1>1
<1>3. ASSUME NEW n \in 1 .. Len(h), \A i \in 1 .. Len(r) : i >= n => ~KeyEdge(r[i])
      PROVE  h[n] = h[Len(h)]
  <2>1. CASE n = 1
    <3>1. ~KeyEdge(r[1])
      BY <1>3, <2>1
    <3> QED BY <1>1, <2>1, <3>1 DEF Follows
  <2>2. CASE n = 2
    BY <1>1, <2>2
  <2> QED BY <1>1, <2>1, <2>2
<1>4. TypedChain(h, r)
  BY <1>1, <1>2, <1>3 DEF TypedChain
<1> QED BY <1>1, <1>4

(* The ups of releaseHeldInput, one after the other.                        *)
LEMMA UpsChain ==
  ASSUME NEW r \in Seq(Envelope), NEW K \in SUBSET (Plain \cup Mods),
         \A i \in 1 .. Len(r) : ~r[i].action.down /\ r[i].action.mods = {},
         \A u \in K : \E i \in 1 .. Len(r) : KeyEdge(r[i]) /\ r[i].action.of = u,
         Bits(K) \in SUBSET Mods
  PROVE  \E h \in Seq(Typing) : TypedChain(h, r) /\ h[1] = <<K, Bits(K)>> /\
         h[Len(h)] = <<{}, Bits({})>>
<1> DEFINE Up(n) == { r[i].action.of : i \in { j \in 1 .. Len(r) : j < n /\ KeyEdge(r[j]) } }
           Some(n) == \E j \in 1 .. Len(r) : j < n /\ KeyEdge(r[j])
           st(n) == << K \ Up(n), IF Some(n) THEN {} ELSE Bits(K) >>
           h == [n \in 1 .. Len(r) + 1 |-> st(n)]
<1>1. Len(r) \in Nat
  BY LenProperties
<1>2. \A n \in 1 .. Len(r) + 1 : st(n) \in Typing
  BY DEF Typing
<1>3. h \in Seq(Typing) /\ Len(h) = Len(r) + 1 /\ \A n \in 1 .. Len(r) + 1 : h[n] = st(n)
  BY <1>1, <1>2
<1>4. ASSUME NEW i \in 1 .. Len(r) PROVE Follows(st(i), r[i], st(i + 1))
  <2>1. CASE KeyEdge(r[i])
    <3>0. { j \in 1 .. Len(r) : j < i + 1 /\ KeyEdge(r[j]) } = { j \in 1 .. Len(r) : j < i /\
            KeyEdge(r[j]) } \cup {i}
      BY <1>1, <2>1
    <3>1. Up(i + 1) = Up(i) \cup {r[i].action.of}
      BY <3>0
    <3>2. Some(i + 1)
      BY <1>1, <2>1
    <3>3. st(i + 1) = << st(i)[1] \ {r[i].action.of}, {} >>
      BY <3>1, <3>2
    <3> HIDE DEF st
    <3> QED BY <2>1, <3>3 DEF Follows
  <2>2. CASE ~KeyEdge(r[i])
    <3>1. \A j \in 1 .. Len(r) : (j < i + 1 /\ KeyEdge(r[j])) <=> (j < i /\ KeyEdge(r[j]))
      BY <1>1, <2>2
    <3>2. { j \in 1 .. Len(r) : j < i + 1 /\ KeyEdge(r[j]) } = { j \in 1 .. Len(r) : j < i /\
            KeyEdge(r[j]) }
      BY <3>1
    <3>3. Up(i + 1) = Up(i) /\ (Some(i + 1) <=> Some(i))
      BY <3>1, <3>2
    <3>4. st(i + 1) = st(i)
      BY <3>3
    <3> HIDE DEF st
    <3> QED BY <2>2, <3>4 DEF Follows
  <2> QED BY <2>1, <2>2
<1>5. h[1] = <<K, Bits(K)>>
  <2>1. { j \in 1 .. Len(r) : j < 1 /\ KeyEdge(r[j]) } = {} /\ ~Some(1)
    BY <1>1
  <2>2. Up(1) = {}
    BY <2>1
  <2>3. st(1) = <<K, Bits(K)>>
    BY <2>1, <2>2
  <2>4. 1 \in 1 .. Len(r) + 1
    BY <1>1
  <2> HIDE DEF st, h
  <2> QED BY <1>3, <2>3, <2>4
<1>6. h[Len(r) + 1] = <<{}, Bits({})>>
  <2>1. K \subseteq Up(Len(r) + 1)
    BY <1>1
  <2>2. K # {} => Some(Len(r) + 1)
    BY <1>1
  <2>3. Bits({}) = {}
    BY DEF Bits
  <2>4. K \ Up(Len(r) + 1) = {} /\ (IF Some(Len(r) + 1) THEN {} ELSE Bits(K)) = {}
    BY <2>1, <2>2, <2>3
  <2>5. st(Len(r) + 1) = <<{}, Bits({})>>
    BY <2>3, <2>4
  <2>6. Len(r) + 1 \in 1 .. Len(r) + 1
    BY <1>1
  <2> HIDE DEF st, h
  <2> QED BY <1>3, <2>5, <2>6
<1>7. ASSUME NEW n \in 1 .. Len(r) + 1, \A i \in 1 .. Len(r) : i >= n => ~KeyEdge(r[i])
      PROVE  st(n) = st(Len(r) + 1)
  <2>1. \A j \in 1 .. Len(r) : (j < n /\ KeyEdge(r[j])) <=> (j < Len(r) + 1 /\ KeyEdge(r[j]))
    BY <1>1, <1>7
  <2>2. { j \in 1 .. Len(r) : j < n /\ KeyEdge(r[j]) } = { j \in 1 .. Len(r) : j < Len(r) + 1 /\
          KeyEdge(r[j]) }
    BY <2>1
  <2>3. Up(n) = Up(Len(r) + 1) /\ (Some(n) <=> Some(Len(r) + 1))
    BY <2>1, <2>2
  <2> QED BY <2>3
<1> HIDE DEF h, st
<1>8. TypedChain(h, r)
  <2>1. \A i \in 1 .. Len(r) : i \in 1 .. Len(r) + 1 /\ i + 1 \in 1 .. Len(r) + 1
    BY <1>1
  <2>2. \A i \in 1 .. Len(r) : Follows(h[i], r[i], h[i + 1])
    BY <1>3, <1>4, <2>1
  <2>3. Len(h) \in 1 .. Len(r) + 1
    BY <1>1, <1>3
  <2>4. \A n \in 1 .. Len(h) : (\A i \in 1 .. Len(r) : i >= n => ~KeyEdge(r[i])) => h[n] = h[Len(h)]
    BY <1>3, <1>7, <2>3
  <2> QED BY <1>3, <2>2, <2>4 DEF TypedChain
<1> QED BY <1>3, <1>5, <1>6, <1>8

(* The codes of keys, modifiers and buttons are apart.                      *)
LEMMA CodesApart ==
  /\ \A u \in Plain : X11Keycode(u) = <<"key", u>>
  /\ \A i \in Mods : X11Keycode(i) = Modifier(i)
  /\ \A u, v \in Plain : <<"key", u>> = <<"key", v>> => u = v
  /\ \A i, j \in Mods : Modifier(i) = Modifier(j) => i = j
  /\ \A u, i : <<"key", u>> # Modifier(i) /\ <<"key", u>> # Button(i) /\ Modifier(u) # Button(i)
  /\ \A u \in Plain : u \notin Mods
BY SinkAssumption DEF X11Keycode, Modifier, Button

(* A key goes down.                                                         *)
LEMMA DownFits ==
  ASSUME NEW D, NEW M \in SUBSET Mods, NEW K \in SUBSET (Plain \cup Mods),
         NEW u \in Plain \cup Mods,
         NEW want \in SUBSET Mods, NEW D2, HostFits(D, M, K), M = Bits(K), want = Bits(K \cup {u}),
         D2 = ((D \ { Modifier(i) : i \in M \ want }) \cup { Modifier(i) : i \in want \ M })
              \cup {X11Keycode(u)}
  PROVE  HostFits(D2, want, K \cup {u})
<1>1. M \subseteq want
  BY DEF Bits
<1>2. \A x : x \in D2 <=> x \in D \/ (\E i \in want \ M : x = Modifier(i)) \/ x = X11Keycode(u)
  BY <1>1
<1>3. /\ \A v \in Plain : <<"key", v>> \in D <=> v \in K
      /\ \A i \in Mods : Modifier(i) \in D => i \in M
      /\ \A i \in K \cap Mods : Modifier(i) \in D
  BY DEF HostFits
<1>4. ASSUME NEW v \in Plain PROVE <<"key", v>> \in D2 <=> v \in K \cup {u}
  <2>1. <<"key", v>> \in D2 <=> v \in K \/ <<"key", v>> = X11Keycode(u)
    BY <1>2, <1>3, CodesApart
  <2>2. <<"key", v>> = X11Keycode(u) <=> v = u
    BY CodesApart
  <2> QED BY <2>1, <2>2
<1>5. ASSUME NEW i \in Mods, Modifier(i) \in D2 PROVE i \in want
  <2>1. CASE Modifier(i) \in D
    BY <1>1, <1>3, <2>1
  <2>2. CASE \E j \in want \ M : Modifier(i) = Modifier(j)
    BY <2>2, CodesApart
  <2>3. CASE Modifier(i) = X11Keycode(u)
    <3>1. u \in Mods /\ u = i
      BY <2>3, CodesApart
    <3> QED BY <3>1 DEF Bits
  <2> QED BY <1>2, <1>5, <2>1, <2>2, <2>3
<1>6. ASSUME NEW i \in (K \cup {u}) \cap Mods PROVE Modifier(i) \in D2
  <2>1. CASE i \in K
    BY <1>2, <1>3, <1>6, <2>1
  <2>2. CASE i = u
    BY <1>2, <1>6, <2>2, CodesApart
  <2> QED BY <1>6, <2>1, <2>2
<1> QED BY <1>4, <1>5, <1>6 DEF HostFits

(* A key comes up.                                                          *)
LEMMA UpFits ==
  ASSUME NEW D, NEW M \in SUBSET Mods, NEW K \in SUBSET (Plain \cup Mods),
         NEW u \in Plain \cup Mods,
         NEW want \in SUBSET Mods, NEW D2, HostFits(D, M, K),
         want = {} \/ (M = Bits(K) /\ want = Bits(K \ {u})),
         D2 = ((D \ { Modifier(i) : i \in M \ want }) \cup { Modifier(i) : i \in want \ M })
              \ {X11Keycode(u)}
  PROVE  HostFits(D2, want, K \ {u})
<1>1. want \subseteq M
  BY DEF Bits
<1>2. \A x : x \in D2 <=> x \in D /\ ~(\E i \in M \ want : x = Modifier(i)) /\ x # X11Keycode(u)
  BY <1>1
<1>3. /\ \A v \in Plain : <<"key", v>> \in D <=> v \in K
      /\ \A i \in Mods : Modifier(i) \in D => i \in M
      /\ M = Bits(K) => \A i \in K \cap Mods : Modifier(i) \in D
  BY DEF HostFits
<1>4. ASSUME NEW v \in Plain PROVE <<"key", v>> \in D2 <=> v \in K \ {u}
  <2>1. <<"key", v>> \in D2 <=> v \in K /\ <<"key", v>> # X11Keycode(u)
    BY <1>2, <1>3, CodesApart
  <2>2. <<"key", v>> = X11Keycode(u) <=> v = u
    BY CodesApart
  <2> QED BY <2>1, <2>2
<1>5. ASSUME NEW i \in Mods, Modifier(i) \in D2 PROVE i \in want
  BY <1>2, <1>3, <1>5
<1>6. ASSUME want = Bits(K \ {u}), NEW i \in (K \ {u}) \cap Mods PROVE Modifier(i) \in D2
  <2>1. i \in want
    BY <1>6 DEF Bits
  <2>2. Modifier(i) \in D
    BY <1>3, <2>1
  <2>3. ~\E j \in M \ want : Modifier(i) = Modifier(j)
    BY <2>1, CodesApart
  <2>4. Modifier(i) # X11Keycode(u)
    BY CodesApart
  <2> QED BY <1>2, <2>2, <2>3, <2>4
<1> QED BY <1>4, <1>5, <1>6 DEF HostFits

(* The modifiers in effect are those that were typed.                       *)
LEMMA EffectiveIsTyped ==
  ASSUME NMods >= 3, Right \in Plain, NEW D, NEW K \in SUBSET (Plain \cup Mods),
         HostFits(D, Bits(K), K),
         \A i \in Mods : <<"key", i>> \notin D
  PROVE  EffectiveModifiers(D) = Bits(K)
<1>1. /\ <<"key", Right>> \in D <=> Right \in K
      /\ \A i \in Mods : Modifier(i) \in D => i \in Bits(K)
      /\ \A i \in K \cap Mods : Modifier(i) \in D
  BY DEF HostFits
<1>2. 1 \in Mods
  BY SinkAssumption DEF Mods
<1>3. \A i \in Mods : {Modifier(i), <<"key", i>>} \cap D # {} <=> Modifier(i) \in D
  OBVIOUS
<1>4. \A i \in Mods : i \in EffectiveModifiers(D) <=> Modifier(i) \in D \/ (i = 1 /\ Right \in K)
  BY <1>1, <1>3 DEF EffectiveModifiers
<1>5. \A i \in Mods : i \in Bits(K) <=> i \in K \/ (i = 1 /\ Right \in K)
  BY DEF Bits
<1>6. \A i \in Mods : i \in EffectiveModifiers(D) <=> i \in Bits(K)
  BY <1>1, <1>4, <1>5
<1>7. EffectiveModifiers(D) \subseteq Mods /\ Bits(K) \subseteq Mods
  BY <1>2 DEF EffectiveModifiers, Bits
<1> QED BY <1>6, <1>7

(* A key that was typed arrives.                                            *)
LEMMA KeyIsTyped ==
  ASSUME X11Host, SinkFits, SafeToRelease, failures' = failures, NMods >= 3, Right \in Plain,
         NEW e, KeyEdge(e), e.action \in KeyActions,
           SinkKey(e.action.of, e.action.down, e.action.mods),
         NEW s \in Typing, NEW t \in Typing, Follows(s, e, t),
         Begins(os.down, sink.mods, s)
  PROVE  /\ Begins(os'.down, sink'.mods, t)
         /\ e.action.down => EffectiveModifiers(os'.down) = e.action.mods
<1>1. PICK u, down, want : u = e.action.of /\ down = e.action.down /\ want = e.action.mods
  OBVIOUS
<1>2. u \in Plain \cup Mods /\ down \in BOOLEAN /\ want \in SUBSET Mods
  BY <1>1 DEF KeyActions
<1>3. SinkKey(u, down, want)
  BY <1>1, Zenon
<1>4. PICK K : K = s[1]
  OBVIOUS
<1>5. /\ K \in SUBSET (Plain \cup Mods) /\ sink.mods \in SUBSET Mods
      /\ s[2] = sink.mods /\ HostFits(os.down, sink.mods, K)
  BY <1>4 DEF Typing, Begins
<1>6. PICK D2 : D2 = os'.down
  OBVIOUS
<1>7. /\ sink'.mods = want
      /\ D2 = Edge((os.down \ { Modifier(i) : i \in sink.mods \ want })
                     \cup { Modifier(i) : i \in want \ sink.mods }, X11Keycode(u), down)
  BY <1>2, <1>3, <1>6, KeyEdgesAre
<1>8. CASE down
  <2>1. sink.mods = Bits(K) /\ t = << K \cup {u}, want >> /\ want = Bits(K \cup {u})
    BY <1>1, <1>4, <1>5, <1>8 DEF Follows
  <2>2. D2 = ((os.down \ { Modifier(i) : i \in sink.mods \ want })
                \cup { Modifier(i) : i \in want \ sink.mods }) \cup {X11Keycode(u)}
    BY <1>7, <1>8 DEF Edge
  <2>3. HostFits(D2, want, K \cup {u})
    BY <1>2, <1>5, <2>1, <2>2, DownFits
  <2>4. ASSUME NEW i \in Mods PROVE <<"key", i>> \notin D2
    <3>1. <<"key", i>> \notin os.down
      BY CodesApart DEF X11Host, SafeToRelease, Tracked, Code
    <3>2. <<"key", i>> # X11Keycode(u)
      BY <1>2, CodesApart DEF X11Keycode, Modifier
    <3>3. \A j : <<"key", i>> # Modifier(j)
      BY CodesApart
    <3> QED BY <2>2, <3>1, <3>2, <3>3
  <2>5. K \cup {u} \in SUBSET (Plain \cup Mods)
    BY <1>2, <1>5
  <2>6. EffectiveModifiers(D2) = want
    BY <2>1, <2>3, <2>4, <2>5, EffectiveIsTyped
  <2>7. Begins(D2, want, t)
    BY <2>1, <2>3 DEF Begins
  <2> QED BY <1>1, <1>6, <1>7, <2>6, <2>7
<1>9. CASE ~down
  <2>1. t = << K \ {u}, want >> /\ (want = {} \/ (sink.mods = Bits(K) /\ want = Bits(K \ {u})))
    BY <1>1, <1>4, <1>5, <1>9 DEF Follows
  <2>2. D2 = ((os.down \ { Modifier(i) : i \in sink.mods \ want })
                \cup { Modifier(i) : i \in want \ sink.mods }) \ {X11Keycode(u)}
    BY <1>7, <1>9 DEF Edge
  <2>3. HostFits(D2, want, K \ {u})
    BY <1>2, <1>5, <2>1, <2>2, UpFits
  <2>4. Begins(D2, want, t)
    BY <2>1, <2>3 DEF Begins
  <2> QED BY <1>1, <1>6, <1>7, <1>9, <2>4
<1> QED BY <1>2, <1>8, <1>9

(* A button changes nothing of it.                                          *)
LEMMA ButtonIsNoKey ==
  ASSUME X11Host, SinkFits, failures' = failures, NEW b, NEW down \in BOOLEAN, SinkButton(b, down),
         NEW K, HostFits(os.down, sink.mods, K)
  PROVE  sink'.mods = sink.mods /\ HostFits(os'.down, sink'.mods, K)
<1>1. /\ failures = 0 /\ os \in [down : SUBSET Codes, caps : BOOLEAN]
      /\ sink \in [keys : SUBSET Codes, buttons : SUBSET Codes, mods : SUBSET Mods, caps : BOOLEAN]
  BY DEF X11Host, SinkFits
<1>2. /\ os' = [os EXCEPT !.down = Edge(@, Button(b), down)]
      /\ sink' = [sink EXCEPT !.buttons = Edge(@, Button(b), down)]
  BY <1>1 DEF SinkButton, X11Button, UInputButton, WindowsButton, MacButton, ButtonEdge, Fails
<1>3. sink'.mods = sink.mods /\ os'.down = Edge(os.down, Button(b), down)
  BY <1>1, <1>2
<1>4. \A x : x # Button(b) => (x \in os'.down <=> x \in os.down)
  BY <1>3 DEF Edge
<1>5. \A u : <<"key", u>> # Button(b) /\ Modifier(u) # Button(b)
  BY CodesApart
<1>6. \A u : /\ <<"key", u>> \in os'.down <=> <<"key", u>> \in os.down
             /\ Modifier(u) \in os'.down <=> Modifier(u) \in os.down
  BY <1>4, <1>5
<1> QED BY <1>3, <1>6 DEF HostFits

(* The modifiers of keys are modifiers.                                     *)
LEMMA BitsAreMods ==
  ASSUME NMods >= 3
  PROVE  /\ \A K \in SUBSET (Plain \cup Mods) : Bits(K) \in SUBSET Mods /\ <<K, Bits(K)>> \in Typing
         /\ Bits({}) = {} /\ <<{}, {}>> \in Typing
<1>1. 1 \in Mods
  BY SinkAssumption DEF Mods
<1>2. \A K \in SUBSET (Plain \cup Mods) : Bits(K) \in SUBSET Mods
  BY <1>1 DEF Bits
<1>3. Bits({}) = {}
  BY DEF Bits
<1> QED BY <1>2, <1>3 DEF Typing

(* Nothing typed, nothing on the way.                                       *)
LEMMA CleanChain ==
  ASSUME NMods >= 3, NEW E, NEW w \in Seq(E), \A i \in 1 .. Len(w) : ~KeyEdge(w[i])
  PROVE  \E g \in Seq(Typing) : TypedChain(g, w) /\ g[1] = <<{}, {}>> /\ g[Len(g)] = <<{}, {}>>
BY SameChain, BitsAreMods

(* Where nothing is down and no key is on the way nothing was typed.        *)
LEMMA UpIsUntyped ==
  ASSUME NEW E, NEW w \in Seq(E), \A i \in 1 .. Len(w) : ~KeyEdge(w[i]), NEW g \in Seq(Typing),
         TypedChain(g, w), NEW mods, Begins({}, mods, g[1]), EndFits(g[Len(g)])
  PROVE  g[Len(g)][1] = {} /\ heldKeys = {} /\ mods = {}
<1>1. Len(w) \in Nat /\ Len(g) = Len(w) + 1 /\ 1 \in 1 .. Len(g)
  BY LenProperties DEF TypedChain
<1>2. g[1] = g[Len(g)] /\ g[1] \in Typing
  BY <1>1 DEF TypedChain
<1>3. PICK K : K = g[1][1]
  OBVIOUS
<1>4. K \subseteq Plain \cup Mods /\ mods = Bits(K) /\ heldKeys \in {{}, K} /\ HostFits({}, mods, K)
  BY <1>2, <1>3 DEF Typing, EndFits, Begins
<1>5. K = {}
  BY <1>4 DEF HostFits
<1>6. mods = {}
  BY <1>4, <1>5 DEF Bits
<1> QED BY <1>2, <1>3, <1>4, <1>5, <1>6

(* The page acts and sends r.                                               *)
LEMMA PageStamps ==
  ASSUME Wires, Stamps, NEW r \in Seq(Envelope), wire' = wire \o r,
         UNCHANGED <<lease, leases, notices, viewerLease>>,
         \A i \in 1 .. Len(r) : \/ r[i].action = ControlRequest /\ r[i].lease = 0
                                \/ viewerLease # 0 /\ r[i].lease = viewerLease
  PROVE  Stamps'
<1>1. wire \in Seq(Envelope)
  BY DEF Wires
<1>2. /\ Len(wire) \in Nat /\ Len(r) \in Nat /\ Len(wire') = Len(wire) + Len(r)
      /\ \A i \in 1 .. Len(wire) : i \in 1 .. Len(wire') /\ wire'[i] = wire[i]
      /\ \A i \in 1 .. Len(wire') : i > Len(wire) => i - Len(wire) \in 1 .. Len(r) /\
           wire'[i] = r[i - Len(wire)]
  BY <1>1, ConcatProperties, LenProperties
<1>3. /\ lease \in {0, leases}
      /\ \A i, j \in 1 .. Len(notices) : i < j /\ notices[j] # 0 => notices[i] < notices[j]
      /\ lease # 0 /\ (viewerLease = lease \/ \E i \in 1 .. Len(wire) : wire[i].lease = lease) =>
           viewerLease \in {0, lease} /\ \A j \in 1 .. Len(notices) : notices[j] = 0
      /\ \A i, j \in 1 .. Len(wire) : i < j /\ lease # 0 /\ wire[i].lease = lease =>
           wire[j].action = ControlRequest \/ wire[j].lease = lease
  BY DEF Stamps
<1>4. \A i \in 1 .. Len(wire') : \/ i \in 1 .. Len(wire) /\ wire'[i] = wire[i]
                                 \/ /\ i > Len(wire)
                                    /\ \/ wire'[i].action = ControlRequest /\ wire'[i].lease = 0
                                       \/ viewerLease # 0 /\ wire'[i].lease = viewerLease
  <2> SUFFICES ASSUME NEW i \in 1 .. Len(wire')
               PROVE  \/ i \in 1 .. Len(wire) /\ wire'[i] = wire[i]
                      \/ /\ i > Len(wire)
                         /\ \/ wire'[i].action = ControlRequest /\ wire'[i].lease = 0
                            \/ viewerLease # 0 /\ wire'[i].lease = viewerLease
    OBVIOUS
  <2>1. CASE i > Len(wire)
    <3>1. PICK n \in 1 .. Len(r) : wire'[i] = r[n]
      BY <1>2, <2>1
    <3> QED BY <2>1, <3>1
  <2>2. CASE i <= Len(wire)
    BY <1>2, <2>2
  <2> QED BY <1>2, <2>1, <2>2
<1>5. ASSUME lease # 0, NEW i \in 1 .. Len(wire'), wire'[i].lease = lease
      PROVE  /\ viewerLease \in {0, lease} /\ \A j \in 1 .. Len(notices) : notices[j] = 0
             /\ i > Len(wire) => viewerLease = lease
  BY <1>3, <1>4, <1>5
<1>6. ASSUME NEW i \in 1 .. Len(wire'), NEW j \in 1 .. Len(wire'), i < j, lease # 0,
             wire'[i].lease = lease
      PROVE  wire'[j].action = ControlRequest \/ wire'[j].lease = lease
  <2>1. CASE j > Len(wire)
    BY <1>2, <1>4, <1>5, <1>6, <2>1
  <2>2. CASE j <= Len(wire)
    <3>1. i \in 1 .. Len(wire) /\ j \in 1 .. Len(wire)
      BY <1>2, <1>6, <2>2
    <3> QED BY <1>2, <1>3, <1>6, <3>1
  <2> QED BY <1>2, <2>1, <2>2
<1> QED BY <1>3, <1>5, <1>6 DEF Stamps

(* What the page sends is what it then holds.                               *)
LEMMA PageTypes ==
  ASSUME RemoteInv, TypedInv, NEW r \in Seq(Envelope), wire' = wire \o r,
         UNCHANGED <<lease, leases, notices, viewerLease, sinkVars, mistyped>>,
         \A i \in 1 .. Len(r) : \/ r[i].action = ControlRequest /\ r[i].lease = 0
                                \/ viewerLease # 0 /\ r[i].lease = viewerLease,
         ~unseen' => ~unseen,
         ~unseen' /\ (\A i \in 1 .. Len(r) : r[i].action = ControlRequest) =>
           heldKeys' \in {{}, heldKeys},
         ~unseen' /\ viewerLease # 0 =>
           \E h \in Seq(Typing) : /\ TypedChain(h, r) /\ h[1] = <<heldKeys, Bits(heldKeys)>>
                                  /\ h[Len(h)] = <<heldKeys', Bits(heldKeys')>>
  PROVE  TypedInv'
<1>1. Wires /\ Stamps /\ Typed /\ wire \in Seq(Envelope)
  BY DEF RemoteInv, TypedInv, Wires
<1>2. Stamps'
  BY <1>1, PageStamps
<1>3. /\ Len(wire) \in Nat /\ Len(r) \in Nat /\ Len(wire') = Len(wire) + Len(r)
      /\ \A i \in 1 .. Len(wire) : i \in 1 .. Len(wire') /\ wire'[i] = wire[i]
  BY <1>1, ConcatProperties, LenProperties
<1>4. \A i \in 1 .. Len(r) : Len(wire) + i \in 1 .. Len(wire') /\ wire'[Len(wire) + i] = r[i]
  BY <1>1, <1>3, ConcatProperties
<1>5. Typed'
  <2> SUFFICES ASSUME ~unseen', AllOf(wire', lease)
               PROVE  /\ ~mistyped
                      /\ \E g \in Seq(Typing) : /\ TypedChain(g, wire')
                                                /\ Begins(os.down, sink.mods, g[1])
                                                /\ EndFits(g[Len(g)])'
    BY <1>1 DEF Typed, sinkVars
  <2>1. AllOf(wire, lease)
    BY <1>3 DEF AllOf
  <2>2. ~mistyped
    BY <1>1 DEF Typed
  <2>3. PICK g \in Seq(Typing) : /\ TypedChain(g, wire)
                                 /\ Begins(os.down, sink.mods, g[1])
                                 /\ EndFits(g[Len(g)])
    BY <1>1, <2>1 DEF Typed
  <2>4. g[Len(g)] \in Typing
    BY <1>3, <2>3 DEF TypedChain
  <2>5. PICK s \in Typing : s = g[Len(g)]
    BY <2>4
  <2>6. s[2] = Bits(s[1]) /\ heldKeys \in {{}, s[1]} /\ (Current => heldKeys = s[1]) /\
          (lease = 0 => s[1] = {})
    BY <2>3, <2>5 DEF EndFits
  <2>7. CASE Current
    <3>1. viewerLease # 0 /\ s = <<heldKeys, Bits(heldKeys)>> /\ lease # 0
      BY <2>6, <2>7 DEF Current, Typing
    <3>2. PICK h \in Seq(Typing) : /\ TypedChain(h, r) /\ h[1] = <<heldKeys, Bits(heldKeys)>>
                                   /\ h[Len(h)] = <<heldKeys', Bits(heldKeys')>>
      BY <3>1
    <3>3. PICK k \in Seq(Typing) : TypedChain(k, wire \o r) /\ k[1] = g[1] /\ k[Len(k)] = h[Len(h)]
      <4>1. g[Len(g)] = h[1]
        BY <2>5, <3>1, <3>2
      <4>2. PICK w : w = wire
        OBVIOUS
      <4>3. w \in Seq(Envelope) /\ TypedChain(g, w)
        BY <1>1, <2>3, <4>2
      <4>4. r \in Seq(Envelope) /\ g \in Seq(Typing) /\ h \in Seq(Typing) /\ TypedChain(h, r)
        BY <3>2
      <4>5. \E k \in Seq(Typing) : TypedChain(k, w \o r) /\ k[1] = g[1] /\ k[Len(k)] = h[Len(h)]
        BY <4>1, <4>3, <4>4, ChainsJoin
      <4> QED BY <4>2, <4>5
    <3>4. EndFits(k[Len(k)])'
      <4>1. k[Len(k)][1] = heldKeys' /\ k[Len(k)][2] = Bits(heldKeys')
        BY <3>2, <3>3
      <4> QED BY <3>1, <4>1 DEF EndFits
    <3> QED BY <2>2, <2>3, <3>3, <3>4
  <2>8. CASE ~Current
    <3>1. ASSUME NEW i \in 1 .. Len(r) PROVE r[i].action = ControlRequest
      <4>1. PICK a, l : a = r[i].action /\ l = r[i].lease
        OBVIOUS
      <4>2. a = ControlRequest \/ l = lease
        BY <1>4, <4>1 DEF AllOf
      <4>3. a = ControlRequest \/ (viewerLease # 0 /\ l = viewerLease)
        BY <4>1
      <4>4. a # ControlRequest => Current
        BY <4>2, <4>3, Zenon DEF Current
      <4> QED BY <2>8, <4>1, <4>4
    <3>2. \A i \in 1 .. Len(r) : ~KeyEdge(r[i])
      BY <3>1, ActionsAre DEF KeyEdge
    <3>3. PICK h \in Seq(Typing) : TypedChain(h, r) /\ h[1] = s /\ h[Len(h)] = s
      BY <3>2, SameChain
    <3>4. PICK k \in Seq(Typing) : TypedChain(k, wire \o r) /\ k[1] = g[1] /\ k[Len(k)] = h[Len(h)]
      BY <1>1, <2>3, <2>5, <3>3, ChainsJoin
    <3>5. heldKeys' \in {{}, heldKeys} /\ ~Current'
      BY <2>8, <3>1 DEF Current
    <3>6. EndFits(k[Len(k)])'
      <4>1. k[Len(k)] = s
        BY <3>3, <3>4
      <4>2. heldKeys' \in {{}, s[1]}
        BY <2>6, <3>5
      <4> QED BY <2>6, <3>5, <4>1, <4>2 DEF EndFits
    <3> QED BY <2>2, <2>3, <3>4, <3>6
  <2> QED BY <2>7, <2>8
<1> QED BY <1>2, <1>5 DEF TypedInv

(* Nothing is sent, no key is pressed or let go of.                         *)
LEMMA QuietTypes ==
  ASSUME RemoteInv, TypedInv, NMods >= 3, ~unseen' => ~unseen,
         UNCHANGED <<wire, lease, leases, notices, viewerLease, sinkVars, mistyped, heldKeys>>
  PROVE  TypedInv'
<1>1. wire \in Seq(Envelope) /\ heldKeys \in SUBSET (Plain \cup Mods)
  BY DEF RemoteInv, Wires, Page
<1>2. PICK r : r = <<>>
  OBVIOUS
<1>3. r \in Seq(Envelope) /\ wire' = wire \o r /\ Len(r) = 0 /\ \A i : i \notin 1 .. Len(r)
  BY <1>1, <1>2, ConcatProperties
<1>4. <<heldKeys, Bits(heldKeys)>> \in Typing
  BY <1>1, BitsAreMods
<1>5. \E h \in Seq(Typing) : /\ TypedChain(h, r) /\ h[1] = <<heldKeys, Bits(heldKeys)>>
                             /\ h[Len(h)] = <<heldKeys', Bits(heldKeys')>>
  BY <1>3, <1>4, SameChain
<1> QED BY <1>3, <1>5, PageTypes

(* releaseHeldInput.                                                        *)
LEMMA ReleaseTypes ==
  ASSUME RemoteInv, TypedInv, NMods >= 3, ~unseen' => ~unseen, ReleaseHeldInput,
         UNCHANGED <<lease, leases, notices, viewerLease, sinkVars, mistyped>>
  PROVE  TypedInv'
<1>1. Wires /\ Page
  BY DEF RemoteInv
<1>2. wire \in Seq(Envelope) /\ viewerLease \in Nat
  BY <1>1 DEF Wires
<1>3. wire' = wire \o Stamped(Releases) /\ heldKeys' = {}
  BY DEF ReleaseHeldInput
<1>4. PICK s : s = Releases
  OBVIOUS
<1>5. /\ s \in Seq(SentActions)
      /\ \A i \in 1 .. Len(s) : ~s[i].down /\ s[i].mods = {}
      /\ \A x \in PageNames : \E i \in 1 .. Len(s) : Name(s[i]) = x
  BY <1>1, <1>4, ReleasesAre
<1>6. PICK r : r = Stamped(s)
  OBVIOUS
<1>7. /\ r \in Seq(Envelope) /\ wire' = wire \o r
      /\ viewerLease = 0 => r = <<>>
      /\ viewerLease # 0 =>
           Len(r) = Len(s) /\ \A i \in 1 .. Len(s) : r[i].lease = viewerLease /\ r[i].action = s[i]
  BY <1>2, <1>3, <1>4, <1>5, <1>6, StampedAs
<1>8. \A i \in 1 .. Len(r) : viewerLease # 0 /\ r[i].lease = viewerLease
  BY <1>7
<1>9. ASSUME viewerLease # 0
      PROVE  \E h \in Seq(Typing) : /\ TypedChain(h, r) /\ h[1] = <<heldKeys, Bits(heldKeys)>>
                                    /\ h[Len(h)] = <<heldKeys', Bits(heldKeys')>>
  <2>1. Len(r) = Len(s) /\ \A i \in 1 .. Len(s) : r[i].action = s[i]
    BY <1>7, <1>9
  <2>2. \A i \in 1 .. Len(r) : ~r[i].action.down /\ r[i].action.mods = {}
    BY <1>5, <2>1
  <2>3. ASSUME NEW u \in heldKeys PROVE \E i \in 1 .. Len(r) : KeyEdge(r[i]) /\ r[i].action.of = u
    <3>1. <<"key", u>> \in PageNames
      BY DEF PageNames
    <3>2. PICK i \in 1 .. Len(s) : Name(s[i]) = <<"key", u>>
      BY <1>5, <3>1
    <3>3. s[i].kind = "key" /\ s[i].of = u
      BY <3>2 DEF Name
    <3> QED BY <2>1, <3>3 DEF KeyEdge
  <2>4. heldKeys \in SUBSET (Plain \cup Mods) /\ Bits(heldKeys) \in SUBSET Mods
    BY <1>1, BitsAreMods DEF Page
  <2>5. \E h \in Seq(Typing) : /\ TypedChain(h, r) /\ h[1] = <<heldKeys, Bits(heldKeys)>>
                               /\ h[Len(h)] = <<{}, Bits({})>>
    <3>1. PICK K : K = heldKeys
      OBVIOUS
    <3> QED BY <1>7, <2>2, <2>3, <2>4, <3>1, UpsChain
  <2> QED BY <1>3, <2>5
<1> QED BY <1>3, <1>7, <1>8, <1>9, PageTypes

(* A key that the page saw goes out as what the page then holds.            *)
LEMMA BitsAreHeld ==
  ASSUME NMods >= 3, Right \in Plain, NEW kb \in SUBSET (Plain \cup Mods), NEW held,
         held = { RemapHid(v) : v \in kb }
  PROVE  ModifierBits(kb) = Bits(held)
<1>1. NMods \in Nat /\ Plain \cap Mods = {} /\ 1 \in Mods
  BY SinkAssumption DEF Mods
<1>2. /\ Swapped(1) = 1 /\ RemapHid(Right) = Right
      /\ \A i \in Mods : RemapHid(i) = Swapped(i) /\ Swapped(i) \in Mods
      /\ \A u \in Plain : RemapHid(u) = u
  BY <1>1 DEF Swapped, RemapHid, Mods
<1>3. ASSUME NEW i
      PROVE  i \in ModifierBits(kb) <=> (\E j \in kb \cap Mods : i = Swapped(j)) \/
             (Right \in kb /\ i = 1)
  BY <1>2 DEF ModifierBits
<1>4. ASSUME NEW i
      PROVE  i \in Bits(held) <=> (i \in Mods /\ \E v \in kb : i = RemapHid(v)) \/
             (Right \in held /\ i = 1)
  BY DEF Bits
<1>5. Right \in held <=> Right \in kb
  BY <1>1, <1>2
<1>6. ASSUME NEW i
      PROVE  (i \in Mods /\ \E v \in kb : i = RemapHid(v)) <=>
             \E j \in kb \cap Mods : i = Swapped(j)
  <2>1. ASSUME NEW v \in kb, i \in Mods, i = RemapHid(v) PROVE v \in Mods /\ i = Swapped(v)
    BY <1>1, <1>2, <2>1
  <2>2. ASSUME NEW j \in kb \cap Mods, i = Swapped(j) PROVE i \in Mods /\ i = RemapHid(j)
    BY <1>2, <2>2
  <2> QED BY <2>1, <2>2
<1> QED BY <1>3, <1>4, <1>5, <1>6

(* keydown and keyup.                                                       *)
LEMMA ForwardKeyTypes ==
  ASSUME RemoteInv, TypedInv, NMods >= 3, Right \in Plain, NEW u \in Plain \cup Mods,
         NEW down \in BOOLEAN,
         ForwardKey(u, down)
  PROVE  TypedInv'
<1>0. Wires /\ Page /\ RemoteInv'
  BY ForwardKeyKeeps DEF RemoteInv
<1>1. PICK kb : kb = Edge(keyboard, u, down)
  OBVIOUS
<1>2. /\ keyboard' = kb
      /\ unseen' = (unseen \/ (controlling /\ viewerLease = 0))
      /\ UNCHANGED <<swap, control, lease, leases, notices, viewerLease, sinkVars, mistyped>>
      /\ IF ~controlling THEN UNCHANGED <<heldKeys, wire>>
         ELSE /\ heldKeys' = Edge(heldKeys, RemapHid(u), down)
              /\ wire' = wire \o Stamped(<<KeyAction(RemapHid(u), down, ModifierBits(kb))>>)
  BY <1>1 DEF ForwardKey, fsmVars, hostSideVars
<1>3. wire \in Seq(Envelope) /\ viewerLease \in Nat
  BY <1>0 DEF Wires
<1>4. CASE ~controlling
  BY <1>2, <1>4, QuietTypes
<1>5. CASE controlling
  <2>1. PICK h, m : h = RemapHid(u) /\ m = ModifierBits(kb)
    OBVIOUS
  <2>2. h \in Plain \cup Mods /\ m \in SUBSET Mods
    BY <2>1, SwapProperties
  <2>3. heldKeys' = Edge(heldKeys, h, down)
    BY <1>2, <1>5, <2>1
  <2>4. PICK a : a = KeyAction(h, down, m)
    OBVIOUS
  <2>5. a.kind = "key" /\ a.of = h /\ a.down = down /\ a.mods = m /\ a \in SentActions
    BY <2>2, <2>4, ActionsAre DEF KeyAction
  <2>6. PICK r : r = Stamped(<<a>>)
    OBVIOUS
  <2>7. /\ r \in Seq(Envelope) /\ wire' = wire \o r
        /\ viewerLease = 0 => r = <<>>
        /\ viewerLease # 0 => Len(r) = 1 /\ r[1].lease = viewerLease /\ r[1].action = a
    <3>1. <<a>> \in Seq(SentActions) /\ Len(<<a>>) = 1 /\ <<a>>[1] = a
      BY <2>5
    <3>2. wire' = wire \o Stamped(<<KeyAction(RemapHid(u), down, ModifierBits(kb))>>)
      BY <1>2, <1>5
    <3>3. a = KeyAction(RemapHid(u), down, ModifierBits(kb))
      BY <2>1, <2>4, Zenon
    <3>4. wire' = wire \o r
      BY <2>6, <3>2, <3>3, Zenon
    <3>5. PICK s : s = <<a>>
      OBVIOUS
    <3>6. s \in Seq(SentActions) /\ Len(s) = 1 /\ s[1] = a /\ r = Stamped(s)
      BY <2>6, <3>1, <3>5
    <3>7. 1 \in 1 .. Len(s)
      BY <3>6
    <3> QED BY <1>3, <3>4, <3>6, <3>7, StampedAs
  <2>8. \A i \in 1 .. Len(r) : viewerLease # 0 /\ r[i].lease = viewerLease
    BY <2>7
  <2>9. ASSUME ~unseen'
        PROVE  viewerLease # 0 /\ Len(r) = 1 /\ 1 \in 1 .. Len(r) /\ r[1].action = a /\
               KeyEdge(r[1])
    <3>1. viewerLease # 0
      BY <1>2, <1>5, <2>9
    <3>2. Len(r) = 1 /\ r[1].action = a
      BY <2>7, <3>1
    <3>3. 1 \in 1 .. Len(r)
      BY <3>2
    <3>4. r[1].action.kind = "key"
      BY <2>5, <3>2
    <3> QED BY <3>1, <3>2, <3>3, <3>4 DEF KeyEdge
  <2>10. ASSUME ~unseen' PROVE r[1].action # ControlRequest
    BY <2>5, <2>9, <2>10, ActionsAre
  <2>11. ASSUME ~unseen'
         PROVE  \E g \in Seq(Typing) : /\ TypedChain(g, r) /\ g[1] = <<heldKeys, Bits(heldKeys)>>
                                       /\ g[Len(g)] = <<heldKeys', Bits(heldKeys')>>
    <3>1. heldKeys \in SUBSET (Plain \cup Mods) /\ heldKeys' \in SUBSET (Plain \cup Mods)
      BY <1>0 DEF RemoteInv, Page
    <3>2. PICK s \in Typing, t \in Typing : s = <<heldKeys, Bits(heldKeys)>> /\
            t = <<heldKeys', Bits(heldKeys')>>
      BY <3>1, BitsAreMods
    <3>3. m = Bits(heldKeys')
      <4>1. controlling' /\ keyboard' \subseteq Plain \cup Mods
        BY <1>0, <1>2, <1>5, <2>11 DEF RemoteInv, Page, controlling
      <4>2. heldKeys' = { RemapHid(v) : v \in kb }
        <5>1. heldKeys' = { RemapHid(v)' : v \in keyboard' }
          BY <1>0, <2>11, <4>1 DEF RemoteInv, Page
        <5>2. \A v : RemapHid(v)' = RemapHid(v)
          BY <1>2 DEF RemapHid, Swapped
        <5> QED BY <1>2, <5>1, <5>2
      <4> QED BY <1>2, <2>1, <4>1, <4>2, BitsAreHeld
    <3>4. s[1] = heldKeys /\ s[2] = Bits(s[1]) /\ t[2] = Bits(t[1]) /\ t[2] = m /\ t[1] = heldKeys'
      BY <3>2, <3>3
    <3>5. t = <<heldKeys', m>>
      BY <3>2, <3>3
    <3>6. Follows(s, r[1], t)
      <4>1. CASE down
        <5>1. heldKeys' = heldKeys \cup {h}
          BY <2>3, <4>1 DEF Edge
        <5>2. r[1].action.down /\ r[1].action.of = h /\ r[1].action.mods = m /\ KeyEdge(r[1])
          BY <2>5, <2>9, <2>11, <4>1
        <5> QED BY <3>4, <3>5, <5>1, <5>2 DEF Follows
      <4>2. CASE ~down
        <5>1. heldKeys' = heldKeys \ {h}
          BY <2>3, <4>2 DEF Edge
        <5>2. ~r[1].action.down /\ r[1].action.of = h /\ r[1].action.mods = m /\ KeyEdge(r[1])
          BY <2>5, <2>9, <2>11, <4>2
        <5> QED BY <3>4, <3>5, <5>1, <5>2 DEF Follows
      <4> QED BY <4>1, <4>2
    <3>7. \E g \in Seq(Typing) : TypedChain(g, r) /\ g[1] = s /\ g[Len(g)] = t
      BY <2>7, <2>9, <2>11, <3>6, OneChain
    <3> QED BY <3>2, <3>7
  <2> QED BY <1>2, <2>7, <2>8, <2>9, <2>10, <2>11, PageTypes
<1> QED BY <1>4, <1>5

(* pointerdown and pointerup.                                               *)
LEMMA ForwardButtonTypes ==
  ASSUME RemoteInv, TypedInv, NMods >= 3, NEW b \in PointerButtons, NEW down \in BOOLEAN,
         NEW above \in BOOLEAN, ForwardButton(b, down, above)
  PROVE  TypedInv'
<1>0. Wires /\ Page
  BY DEF RemoteInv
<1>1. /\ UNCHANGED <<heldKeys, unseen, lease, leases, notices, viewerLease, sinkVars, mistyped>>
      /\ IF ~controlling \/ ~above THEN UNCHANGED wire
         ELSE wire' = wire \o Stamped(<<ButtonAction(b, down)>>)
  BY DEF ForwardButton, hostSideVars
<1>2. wire \in Seq(Envelope) /\ viewerLease \in Nat
  BY <1>0 DEF Wires
<1>3. CASE ~controlling \/ ~above
  BY <1>1, <1>3, QuietTypes
<1>4. CASE controlling /\ above
  <2>1. PICK a : a = ButtonAction(b, down)
    OBVIOUS
  <2>2. a.kind = "button" /\ a \in SentActions
    BY <2>1, ActionsAre DEF ButtonAction
  <2>3. PICK r : r = Stamped(<<a>>)
    OBVIOUS
  <2>4. /\ r \in Seq(Envelope) /\ wire' = wire \o r
        /\ viewerLease = 0 => r = <<>>
        /\ viewerLease # 0 => Len(r) = 1 /\ r[1].lease = viewerLease /\ r[1].action = a
    <3>1. <<a>> \in Seq(SentActions) /\ Len(<<a>>) = 1 /\ <<a>>[1] = a
      BY <2>2
    <3>2. wire' = wire \o Stamped(<<ButtonAction(b, down)>>)
      BY <1>1, <1>4
    <3>3. wire' = wire \o r
      BY <2>1, <2>3, <3>2, Zenon
    <3>4. PICK s : s = <<a>>
      OBVIOUS
    <3>5. s \in Seq(SentActions) /\ Len(s) = 1 /\ s[1] = a /\ r = Stamped(s)
      BY <2>3, <3>1, <3>4
    <3>6. 1 \in 1 .. Len(s)
      BY <3>5
    <3> QED BY <1>2, <3>3, <3>5, <3>6, StampedAs
  <2>5. \A i \in 1 .. Len(r) : viewerLease # 0 /\ r[i].lease = viewerLease /\ ~KeyEdge(r[i])
    BY <2>2, <2>4 DEF KeyEdge
  <2>6. <<heldKeys, Bits(heldKeys)>> \in Typing
    BY <1>0, BitsAreMods DEF Page
  <2>7. \E h \in Seq(Typing) : /\ TypedChain(h, r) /\ h[1] = <<heldKeys, Bits(heldKeys)>>
                               /\ h[Len(h)] = <<heldKeys', Bits(heldKeys')>>
    BY <1>1, <2>4, <2>5, <2>6, SameChain
  <2> QED BY <1>1, <2>4, <2>5, <2>7, PageTypes
<1> QED BY <1>3, <1>4

(* The other steps of the page.                                             *)
LEMMA FocusTypes ==
  ASSUME RemoteInv, TypedInv, NMods >= 3, FocusLost \/ ToggleSwap PROVE TypedInv'
<1>1. CASE FocusLost
  BY <1>1, ReleaseTypes DEF FocusLost, hostSideVars
<1>2. CASE ToggleSwap
  BY <1>2, QuietTypes DEF ToggleSwap, hostSideVars
<1> QED BY <1>1, <1>2

(* A request for control types nothing.                                     *)
LEMMA RequestTypes ==
  ASSUME RemoteInv, TypedInv, NMods >= 3, Request PROVE TypedInv'
<1>1. /\ wire' = Append(wire, [lease |-> 0, action |-> ControlRequest])
      /\ UNCHANGED <<heldKeys, lease, leases, notices, viewerLease, sinkVars, mistyped>>
      /\ (~unseen' => ~unseen)
  BY DEF Request, FsmUnchanged, hostSideVars
<1>2. PICK e : e = [lease |-> 0, action |-> ControlRequest]
  OBVIOUS
<1>3. e \in Envelope /\ e.action = ControlRequest /\ e.lease = 0
  BY <1>2, ActionsAre DEF Envelope
<1>4. wire \in Seq(Envelope) /\ heldKeys \in SUBSET (Plain \cup Mods)
  BY DEF RemoteInv, Wires, Page
<1>5. PICK r : r = <<e>>
  OBVIOUS
<1>6. r \in Seq(Envelope) /\ Len(r) = 1 /\ r[1] = e /\ wire' = wire \o r
  <2>1. wire' = Append(wire, e)
    BY <1>1, <1>2, Zenon
  <2>2. r \in Seq(Envelope) /\ Len(r) = 1 /\ r[1] = e
    BY <1>3, <1>5
  <2>3. Append(wire, e) = wire \o r
    BY <1>3, <1>4, <1>5, AppendIsConcat
  <2> QED BY <2>1, <2>2, <2>3
<1>7. \A i \in 1 .. Len(r) : r[i].action = ControlRequest /\ r[i].lease = 0 /\ ~KeyEdge(r[i])
  BY <1>3, <1>6, ActionsAre DEF KeyEdge
<1>8. <<heldKeys, Bits(heldKeys)>> \in Typing
  BY <1>4, BitsAreMods
<1>9. \E h \in Seq(Typing) : /\ TypedChain(h, r) /\ h[1] = <<heldKeys, Bits(heldKeys)>>
                             /\ h[Len(h)] = <<heldKeys', Bits(heldKeys')>>
  BY <1>1, <1>6, <1>7, <1>8, SameChain
<1> QED BY <1>1, <1>6, <1>7, <1>9, PageTypes

(* The steps of the take-control state machine.                             *)
LEMMA ControlTypes ==
  ASSUME RemoteInv, TypedInv, NMods >= 3, FsmUnchanged, UNCHANGED <<lease, leases, notices>>,
         UNCHANGED <<heldKeys, wire>> \/ \E state : SetControl(state)
  PROVE  TypedInv'
<1>1. (~unseen' => ~unseen) /\ UNCHANGED <<viewerLease, sinkVars, mistyped>>
  BY DEF FsmUnchanged
<1>2. CASE UNCHANGED <<heldKeys, wire>>
  BY <1>1, <1>2, QuietTypes
<1>3. CASE ReleaseHeldInput
  BY <1>1, <1>3, ReleaseTypes
<1> QED BY <1>2, <1>3 DEF SetControl

(* A lease begins or ends with nothing down that the page knows of.         *)
LEMMA CleanTypes ==
  ASSUME RemoteInv, TypedInv, NMods >= 3, UNCHANGED <<wire, heldKeys, mistyped, os, sink>>,
         ~unseen' => ~unseen /\ os.down = {}, ~Current',
         AllOf(wire, lease') => \A i \in 1 .. Len(wire) : wire[i].action = ControlRequest
  PROVE  Typed'
<1>0. ~unseen' => ~mistyped'
  BY DEF TypedInv, Typed
<1> SUFFICES ASSUME ~unseen', AllOf(wire', lease')
             PROVE  \E g \in Seq(Typing) : /\ TypedChain(g, wire')
                                           /\ Begins(os'.down, sink'.mods, g[1])
                                           /\ EndFits(g[Len(g)])'
  BY <1>0 DEF Typed
<1>1. \A i \in 1 .. Len(wire) : wire[i].action = ControlRequest /\ ~KeyEdge(wire[i])
  BY ActionsAre DEF KeyEdge
<1>2. AllOf(wire, lease)
  BY <1>1 DEF AllOf
<1>3. os'.down = {} /\ os.down = {}
  OBVIOUS
<1>5. wire \in Seq(Envelope)
  BY DEF RemoteInv, Wires
<1>6. heldKeys = {} /\ sink.mods = {}
  <2>1. PICK g \in Seq(Typing) : /\ TypedChain(g, wire)
                                 /\ Begins({}, sink.mods, g[1])
                                 /\ EndFits(g[Len(g)])
    BY <1>2, <1>3 DEF TypedInv, Typed
  <2>2. PICK w : w = wire
    OBVIOUS
  <2>3. w \in Seq(Envelope) /\ (\A i \in 1 .. Len(w) : ~KeyEdge(w[i])) /\ TypedChain(g, w)
    BY <1>1, <1>5, <2>1, <2>2
  <2> QED BY <2>1, <2>3, UpIsUntyped
<1>7. PICK g \in Seq(Typing) : TypedChain(g, wire) /\ g[1] = <<{}, {}>> /\ g[Len(g)] = <<{}, {}>>
  BY <1>1, <1>5, CleanChain
<1>8. Begins({}, {}, g[1])
  BY <1>7 DEF HostFits, Begins
<1>9. EndFits(g[Len(g)])'
  <2>1. g[Len(g)][1] = {} /\ g[Len(g)][2] = {}
    BY <1>7
  <2> QED BY <1>6, <2>1, BitsAreMods DEF EndFits
<1> QED BY <1>3, <1>6, <1>7, <1>8, <1>9

(* A lease is revoked, to be flushed next.                                  *)
LEMMA RevokedTypes ==
  ASSUME RemoteInv, TypedInv, NMods >= 3, Revoked PROVE TypedInv'
<1>0. X11Host /\ Wires /\ Stamps /\ Typed
  BY DEF RemoteInv, TypedInv
<1>1. /\ lease' = 0 /\ unseen' = (unseen \/ os.down # {})
      /\ UNCHANGED <<leases, notices, sinkVars, heldKeys, viewerLease, wire, mistyped>>
  BY DEF Revoked, HostUnchanged, viewerVars
<1>2. UNCHANGED <<os, sink>>
  BY <1>1 DEF sinkVars
<1>3. Stamps'
  BY <1>0, <1>1 DEF Stamps
<1>4. AllOf(wire, 0) => \A i \in 1 .. Len(wire) : wire[i].action = ControlRequest
  BY <1>0 DEF AllOf, Wires
<1>5. ~Current'
  BY <1>1 DEF Current
<1>6. Typed'
  BY <1>1, <1>2, <1>4, <1>5, CleanTypes
<1> QED BY <1>3, <1>6 DEF TypedInv

(* The flush lets go of nothing the page knows of.                          *)
LEMMA FlushedTypes ==
  ASSUME RemoteInv, TypedInv, NMods >= 3, SinkFits, SafeToRelease, failures' = failures, Flushed
  PROVE  TypedInv'
<1>0. X11Host /\ Wires /\ Stamps /\ Typed
  BY DEF RemoteInv, TypedInv
<1>1. /\ SinkReleaseAll({}) /\ unseen' = (unseen \/ os'.down # os.down)
      /\ UNCHANGED <<lease, leases, notices, heldKeys, viewerLease, wire, mistyped>>
  BY DEF Flushed, HostUnchanged, viewerVars
<1>2. os'.down = {} /\ sink'.mods = {}
  BY <1>0, <1>1, ReleaseEffect
<1>3. Stamps'
  BY <1>0, <1>1 DEF Stamps
<1>4. \A s : EndFits(s) => EndFits(s)'
  BY <1>1 DEF EndFits, Current
<1>5. ASSUME NEW s, Begins({}, sink.mods, s), s \in Typing PROVE sink.mods = {}
  <2>1. \A u \in Plain : u \notin s[1]
    BY <1>5 DEF Begins, HostFits
  <2>2. s[1] \subseteq Plain \cup Mods
    BY <1>5 DEF Typing
  <2>3. CASE sink.mods = Bits(s[1])
    <3>1. s[1] = {}
      BY <1>5, <2>1, <2>2, <2>3 DEF Begins, HostFits
    <3> QED BY <2>3, <3>1, BitsAreMods
  <2> QED BY <1>5, <2>3 DEF Begins
<1>7. ~unseen' => ~mistyped'
  BY <1>0, <1>1 DEF Typed
<1>6. Typed'
  <2> SUFFICES ASSUME ~unseen', AllOf(wire', lease')
               PROVE  \E g \in Seq(Typing) : /\ TypedChain(g, wire')
                                             /\ Begins(os'.down, sink'.mods, g[1])
                                             /\ EndFits(g[Len(g)])'
    BY <1>7 DEF Typed
  <2>0. ~unseen /\ os.down = {} /\ AllOf(wire, lease)
    BY <1>1, <1>2
  <2>2. PICK g \in Seq(Typing) : /\ TypedChain(g, wire)
                                 /\ Begins({}, sink.mods, g[1])
                                 /\ EndFits(g[Len(g)])
    BY <1>0, <2>0 DEF Typed
  <2>3. g[1] \in Typing
    <3>1. wire \in Seq(Envelope)
      BY <1>0 DEF Wires
    <3>2. Len(wire) \in Nat /\ Len(g) = Len(wire) + 1
      BY <2>2, <3>1, LenProperties DEF TypedChain
    <3> QED BY <3>2
  <2>4. sink.mods = {}
    BY <1>5, <2>2, <2>3
  <2> QED BY <1>1, <1>2, <1>4, <2>2, <2>4
<1> QED BY <1>3, <1>6 DEF TypedInv

(* News for the viewer.                                                     *)
LEMMA NewsIsLater ==
  ASSUME Wires, Stamps, NEW n \in {0, leases + 1}, notices' = Append(notices, n)
  PROVE  /\ \A i, j \in 1 .. Len(notices') : i < j /\ notices'[j] # 0 => notices'[i] < notices'[j]
         /\ n = 0 /\ (\A j \in 1 .. Len(notices) : notices[j] = 0) =>
              \A j \in 1 .. Len(notices') : notices'[j] = 0
<1>1. /\ notices \in Seq(Nat) /\ leases \in Nat
      /\ \A i \in 1 .. Len(notices) : notices[i] <= leases
      /\ \A i, j \in 1 .. Len(notices) : i < j /\ notices[j] # 0 => notices[i] < notices[j]
  BY DEF Wires, Stamps
<1>2. n \in Nat
  BY <1>1
<1>3. /\ Len(notices) \in Nat /\ Len(notices') = Len(notices) + 1
      /\ \A i \in 1 .. Len(notices) : notices'[i] = notices[i] /\ notices[i] \in Nat
      /\ notices'[Len(notices) + 1] = n
      /\ \A i \in 1 .. Len(notices') : i \in 1 .. Len(notices) \/ i = Len(notices) + 1
  BY <1>1, <1>2, NoticesGrow
<1>4. ASSUME NEW i \in 1 .. Len(notices'), NEW j \in 1 .. Len(notices'), i < j, notices'[j] # 0
      PROVE  notices'[i] < notices'[j]
  <2>1. i \in 1 .. Len(notices)
    BY <1>3, <1>4
  <2>2. CASE j = Len(notices) + 1
    <3>1. notices'[i] <= leases /\ notices'[i] \in Nat
      BY <1>1, <1>3, <2>1
    <3>2. notices'[j] = leases + 1
      BY <1>3, <1>4, <2>2
    <3> QED BY <1>1, <3>1, <3>2
  <2>3. CASE j \in 1 .. Len(notices)
    BY <1>1, <1>3, <1>4, <2>1, <2>3
  <2> QED BY <1>3, <2>2, <2>3
<1>5. ASSUME n = 0, \A j \in 1 .. Len(notices) : notices[j] = 0, NEW j \in 1 .. Len(notices')
      PROVE  notices'[j] = 0
  BY <1>3, <1>5
<1> QED BY <1>4, <1>5

(* A new lease begins.                                                      *)
LEMMA IssuedTypes ==
  ASSUME RemoteInv, TypedInv, NMods >= 3, Issued, lease = 0 PROVE TypedInv'
<1>0. Wires /\ NewLeaseIsClean /\ Stamps /\ Typed
  BY DEF RemoteInv, TypedInv
<1>1. /\ leases' = leases + 1 /\ lease' = leases + 1 /\ notices' = Append(notices, leases + 1)
      /\ UNCHANGED <<unseen, sinkVars, heldKeys, viewerLease, wire, mistyped>>
  BY DEF Issued, HostUnchanged, viewerVars
<1>2. UNCHANGED <<os, sink>>
  BY <1>1 DEF sinkVars
<1>3. /\ leases \in Nat /\ viewerLease \in Nat /\ viewerLease <= leases
      /\ wire \in Seq(Envelope) /\ \A i \in 1 .. Len(wire) : wire[i].lease <= leases
  BY <1>0 DEF Wires
<1>4. \A i \in 1 .. Len(wire) : wire[i].lease \in Nat
  <2>1. \A i \in 1 .. Len(wire) : wire[i] \in Envelope
    BY <1>3
  <2>2. \A e \in Envelope : e.lease \in Nat
    BY DEF Envelope
  <2> QED BY <2>1, <2>2
<1>5. viewerLease # lease' /\ \A i \in 1 .. Len(wire) : wire[i].lease # lease'
  BY <1>1, <1>3, <1>4
<1>6. \A i, j \in 1 .. Len(notices') : i < j /\ notices'[j] # 0 => notices'[i] < notices'[j]
  <2>1. leases + 1 \in {0, leases + 1}
    OBVIOUS
  <2> QED BY <1>0, <1>1, <2>1, NewsIsLater
<1>7. Stamps'
  BY <1>1, <1>5, <1>6 DEF Stamps
<1>8. AllOf(wire, lease') => \A i \in 1 .. Len(wire) : wire[i].action = ControlRequest
  BY <1>5 DEF AllOf
<1>9. ~Current'
  BY <1>1, <1>5 DEF Current
<1>10. ~unseen' => ~unseen /\ os.down = {}
  BY <1>0, <1>1 DEF NewLeaseIsClean
<1>11. Typed'
  BY <1>1, <1>2, <1>8, <1>9, <1>10, CleanTypes
<1> QED BY <1>7, <1>11 DEF TypedInv

(* What is left on the stream, and what the viewer is told of a refusal.    *)
LEMMA StampsKept ==
  ASSUME Wires, Stamps, UNCHANGED <<lease, leases, viewerLease>>,
         notices' \in {notices, Append(notices, 0)},
         wire' = wire \/ (wire # <<>> /\ wire' = Tail(wire))
  PROVE  Stamps'
<1>1. /\ lease \in {0, leases}
      /\ \A i, j \in 1 .. Len(notices) : i < j /\ notices[j] # 0 => notices[i] < notices[j]
      /\ lease # 0 /\ (viewerLease = lease \/ \E i \in 1 .. Len(wire) : wire[i].lease = lease) =>
           viewerLease \in {0, lease} /\ \A j \in 1 .. Len(notices) : notices[j] = 0
      /\ \A i, j \in 1 .. Len(wire) : i < j /\ lease # 0 /\ wire[i].lease = lease =>
           wire[j].action = ControlRequest \/ wire[j].lease = lease
  BY DEF Stamps
<1>2. wire \in Seq(Envelope)
  BY DEF Wires
<1>3. /\ \A i, j \in 1 .. Len(notices') : i < j /\ notices'[j] # 0 => notices'[i] < notices'[j]
      /\ (\A j \in 1 .. Len(notices) : notices[j] = 0) =>
           \A j \in 1 .. Len(notices') : notices'[j] = 0
  <2>1. CASE notices' = notices
    BY <1>1, <2>1
  <2>2. CASE notices' = Append(notices, 0)
    <3>1. 0 \in {0, leases + 1}
      OBVIOUS
    <3> QED BY <2>2, <3>1, NewsIsLater
  <2> QED BY <2>1, <2>2
<1>4. /\ (\E i \in 1 .. Len(wire') : wire'[i].lease = lease) =>
           \E i \in 1 .. Len(wire) : wire[i].lease = lease
      /\ \A i, j \in 1 .. Len(wire') : i < j /\ lease # 0 /\ wire'[i].lease = lease =>
           wire'[j].action = ControlRequest \/ wire'[j].lease = lease
  <2>1. CASE wire' = wire
    BY <1>1, <2>1
  <2>2. CASE wire # <<>> /\ wire' = Tail(wire)
    <3>1. /\ Len(wire) \in Nat /\ Len(wire') = Len(wire) - 1
          /\ \A i \in 1 .. Len(wire') : i + 1 \in 1 .. Len(wire) /\ wire'[i] = wire[i + 1]
      BY <1>2, <2>2, HeadTailProperties, LenProperties, EmptySeq
    <3>2. (\E i \in 1 .. Len(wire') : wire'[i].lease = lease) =>
            \E i \in 1 .. Len(wire) : wire[i].lease = lease
      BY <3>1
    <3>3. ASSUME NEW i \in 1 .. Len(wire'), NEW j \in 1 .. Len(wire'), i < j, lease # 0,
                 wire'[i].lease = lease
          PROVE  wire'[j].action = ControlRequest \/ wire'[j].lease = lease
      <4>1. PICK n, m : n = i + 1 /\ m = j + 1
        OBVIOUS
      <4>2. n \in 1 .. Len(wire) /\ m \in 1 .. Len(wire) /\ n < m /\ wire'[i] = wire[n] /\
              wire'[j] = wire[m]
        BY <3>1, <3>3, <4>1
      <4> QED BY <1>1, <3>3, <4>2
    <3> QED BY <3>2, <3>3
  <2> QED BY <2>1, <2>2
<1> QED BY <1>1, <1>3, <1>4 DEF Stamps

(* A denial.                                                                *)
LEMMA DeniesTypes ==
  ASSUME RemoteInv, TypedInv, HostDenies PROVE TypedInv'
<1>0. Wires /\ Stamps /\ Typed
  BY DEF RemoteInv, TypedInv
<1>1. /\ notices' = Append(notices, 0)
      /\ UNCHANGED <<lease, leases, unseen, sinkVars, heldKeys, viewerLease, wire, mistyped>>
  BY DEF HostDenies, HostUnchanged, viewerVars
<1>2. Stamps'
  BY <1>0, <1>1, StampsKept
<1>3. UNCHANGED <<os, sink>>
  BY <1>1 DEF sinkVars
<1>4. Typed'
  BY <1>0, <1>1, <1>3 DEF Typed, EndFits, Current
<1> QED BY <1>2, <1>4 DEF TypedInv

(* The control task and the task that sweeps.                               *)
LEMMA HostTypes ==
  ASSUME RemoteInv, TypedInv, NMods >= 3, SinkFits, SafeToRelease, failures' = failures,
         \/ HostDenies \/ HostAllows \/ ReplacedIsFlushed \/ ReplacementIssued
         \/ SweepRevokes \/ SweepFlushes
  PROVE  TypedInv'
<1>1. CASE HostDenies
  BY <1>1, DeniesTypes
<1>2. CASE HostAllows
  BY <1>2, IssuedTypes, RevokedTypes DEF HostAllows
<1>3. CASE ReplacedIsFlushed \/ SweepFlushes
  BY <1>3, FlushedTypes DEF ReplacedIsFlushed, SweepFlushes
<1>4. CASE ReplacementIssued
  BY <1>4, IssuedTypes DEF ReplacementIssued, RemoteInv, Phases
<1>5. CASE SweepRevokes
  BY <1>5, RevokedTypes DEF SweepRevokes
<1> QED BY <1>1, <1>2, <1>3, <1>4, <1>5

(* The news arrives at the viewer.                                          *)
LEMMA NoticeTypes ==
  ASSUME RemoteInv, TypedInv, NoticeArrives PROVE TypedInv'
<1>0. X11Host /\ Wires /\ NewLeaseIsClean /\ Stamps /\ Typed
  BY DEF RemoteInv, TypedInv
<1>1. /\ notices # <<>> /\ viewerLease' = Head(notices) /\ notices' = Tail(notices)
      /\ UNCHANGED <<heldKeys, unseen, wire, lease, leases, sinkVars, mistyped>>
  BY DEF NoticeArrives, viewerVars
<1>2. /\ notices \in Seq(Nat) /\ leases \in Nat /\ lease \in Nat
      /\ \A i \in 1 .. Len(notices) : notices[i] <= leases
      /\ wire \in Seq(Envelope)
  BY <1>0 DEF Wires
<1>3. /\ Len(notices) \in Nat /\ Len(notices') = Len(notices) - 1
      /\ 1 \in 1 .. Len(notices) /\ viewerLease' = notices[1] /\ notices[1] \in Nat
      /\ \A i \in 1 .. Len(notices') : i + 1 \in 1 .. Len(notices) /\ notices'[i] = notices[i + 1]
  BY <1>1, <1>2, HeadTailProperties, LenProperties, EmptySeq
<1>4. /\ lease \in {0, leases}
      /\ \A i, j \in 1 .. Len(notices) : i < j /\ notices[j] # 0 => notices[i] < notices[j]
      /\ lease # 0 /\ (viewerLease = lease \/ \E i \in 1 .. Len(wire) : wire[i].lease = lease) =>
           viewerLease \in {0, lease} /\ \A j \in 1 .. Len(notices) : notices[j] = 0
      /\ \A i, j \in 1 .. Len(wire) : i < j /\ lease # 0 /\ wire[i].lease = lease =>
           wire[j].action = ControlRequest \/ wire[j].lease = lease
  BY <1>0 DEF Stamps
<1>5. ASSUME NEW i \in 1 .. Len(notices'), NEW j \in 1 .. Len(notices'), i < j, notices'[j] # 0
      PROVE  notices'[i] < notices'[j]
  <2>1. PICK n, m : n = i + 1 /\ m = j + 1
    OBVIOUS
  <2>2. n \in 1 .. Len(notices) /\ m \in 1 .. Len(notices) /\ n < m /\ notices'[i] = notices[n] /\
          notices'[j] = notices[m]
    BY <1>3, <1>5, <2>1
  <2> QED BY <1>4, <1>5, <2>2
<1>6. ASSUME lease # 0, viewerLease' = lease, NEW j \in 1 .. Len(notices') PROVE notices'[j] = 0
  <2>1. PICK m : m = j + 1
    OBVIOUS
  <2>2. m \in 1 .. Len(notices) /\ 1 < m /\ notices'[j] = notices[m] /\ notices[m] \in Nat
    BY <1>2, <1>3, <2>1
  <2>3. notices[1] = leases /\ notices[m] <= leases
    BY <1>2, <1>3, <1>4, <1>6, <2>2
  <2>4. notices[m] # 0 => notices[1] < notices[m]
    BY <1>3, <1>4, <2>2
  <2> QED BY <1>2, <2>2, <2>3, <2>4
<1>7. ASSUME lease # 0, NEW i \in 1 .. Len(wire), wire[i].lease = lease
      PROVE  viewerLease' = 0 /\ \A j \in 1 .. Len(notices') : notices'[j] = 0
  BY <1>3, <1>4, <1>7
<1>8. Stamps'
  <2>1. \A i, j \in 1 .. Len(notices') : i < j /\ notices'[j] # 0 => notices'[i] < notices'[j]
    BY <1>5
  <2>2. lease # 0 /\ (viewerLease' = lease \/ \E i \in 1 .. Len(wire) : wire[i].lease = lease) =>
           viewerLease' \in {0, lease} /\ \A j \in 1 .. Len(notices') : notices'[j] = 0
    BY <1>6, <1>7
  <2> QED BY <1>1, <1>4, <2>1, <2>2 DEF Stamps
<1>9. Typed'
  <2> SUFFICES ASSUME ~unseen, AllOf(wire, lease), NEW g \in Seq(Typing), TypedChain(g, wire),
                      Begins(os.down, sink.mods, g[1]), EndFits(g[Len(g)])
               PROVE  EndFits(g[Len(g)])'
    BY <1>0, <1>1 DEF Typed, sinkVars
  <2>1. CASE ~Current'
    <3>1. EndFits(g[Len(g)])
      OBVIOUS
    <3> QED BY <1>1, <2>1, <3>1 DEF EndFits
  <2>2. CASE Current'
    <3>1. lease # 0 /\ notices[1] = lease
      BY <1>1, <1>3, <2>2 DEF Current
    <3>2. os.down = {} /\ \A i \in 1 .. Len(wire) : wire[i].lease # lease
      BY <1>0, <1>3, <3>1 DEF NewLeaseIsClean
    <3>3. \A i \in 1 .. Len(wire) : ~KeyEdge(wire[i])
      BY <3>2, ActionsAre DEF AllOf, KeyEdge
    <3>5. g[Len(g)][1] = {} /\ heldKeys = {}
      <4>1. PICK w : w = wire
        OBVIOUS
      <4>2. w \in Seq(Envelope) /\ (\A i \in 1 .. Len(w) : ~KeyEdge(w[i])) /\ TypedChain(g, w)
        BY <1>2, <3>3, <4>1
      <4>3. Begins({}, sink.mods, g[1])
        BY <3>2
      <4> QED BY <4>2, <4>3, UpIsUntyped
    <3> QED BY <1>1, <3>5 DEF EndFits
  <2> QED BY <2>1, <2>2
<1> QED BY <1>8, <1>9 DEF TypedInv

(* Taking the first of a sequence.                                          *)
LEMMA RemoveFirstIsTail ==
  ASSUME NEW E, NEW w \in Seq(E), w # <<>> PROVE RemoveAt(w, 1) = Tail(w)
<1>1. Len(w) \in Nat /\ Len(w) # 0
  BY LenProperties, EmptySeq
<1>2. SubSeq(w, 1, 0) = <<>>
  OBVIOUS
<1>3. SubSeq(w, 2, Len(w)) = Tail(w)
  BY <1>1
<1>4. RemoveAt(w, 1) = SubSeq(w, 1, 0) \o SubSeq(w, 2, Len(w))
  BY DEF RemoveAt
<1>5. Tail(w) \in Seq(E)
  BY HeadTailProperties
<1> QED BY <1>2, <1>3, <1>4, <1>5

(* A request for control at the head of the stream is refused under no lease. *)
LEMMA FirstIsFine ==
  ASSUME NEW w \in Seq(Envelope), w # <<>>, w[1].action = ControlRequest, AllOf(Tail(w), lease)
  PROVE  AllOf(w, lease)
<1> SUFFICES ASSUME NEW i \in 1 .. Len(w) PROVE w[i].action = ControlRequest \/ w[i].lease = lease
  BY DEF AllOf
<1>1. /\ Len(w) \in Nat /\ Len(Tail(w)) = Len(w) - 1
      /\ \A n \in 1 .. Len(Tail(w)) : n + 1 \in 1 .. Len(w) /\ Tail(w)[n] = w[n + 1]
  BY HeadTailProperties, LenProperties, EmptySeq
<1>2. CASE i # 1
  <2>1. i - 1 \in 1 .. Len(Tail(w)) /\ Tail(w)[i - 1] = w[i]
    BY <1>1, <1>2
  <2> QED BY <2>1 DEF AllOf
<1> QED BY <1>2

(* What is taken from the stream is the first, if no envelope overtakes another. *)
LEMMA TakesTheFirst ==
  ASSUME Wires, InOrder, NEW i \in Arriving
  PROVE  i = 1 /\ wire # <<>> /\ RemoveAt(wire, i) = Tail(wire) /\ wire[1] \in Envelope
<1>1. wire \in Seq(Envelope)
  BY DEF Wires
<1>2. i = 1 /\ i \in 1 .. Len(wire)
  BY ArrivingIsOnWire
<1>3. Len(wire) \in Nat /\ wire # <<>> /\ wire[1] \in Envelope
  BY <1>1, <1>2, LenProperties, EmptySeq
<1> QED BY <1>1, <1>2, <1>3, RemoveFirstIsTail

(* A request for control was typed by nobody.                               *)
LEMMA RequestArrivesTypes ==
  ASSUME RemoteInv, TypedInv, InOrder, NEW refused \in BOOLEAN, RequestArrives(refused)
  PROVE  TypedInv'
<1>0. Wires /\ Stamps /\ Typed
  BY DEF RemoteInv, TypedInv
<1>1. PICK i \in Arriving : wire[i].action = ControlRequest /\ wire' = RemoveAt(wire, i)
  BY DEF RequestArrives
<1>2. /\ notices' \in {notices, Append(notices, 0)}
      /\ UNCHANGED <<lease, leases, unseen, sinkVars, heldKeys, viewerLease, mistyped>>
  BY DEF RequestArrives, viewerVars
<1>3. wire # <<>> /\ wire' = Tail(wire) /\ wire[1] \in Envelope /\ wire[1].action = ControlRequest
  BY <1>0, <1>1, TakesTheFirst
<1>4. Stamps'
  BY <1>0, <1>2, <1>3, StampsKept
<1>5. UNCHANGED <<os, sink>>
  BY <1>2 DEF sinkVars
<1>6. wire \in Seq(Envelope)
  BY <1>0 DEF Wires
<1>7. AllOf(wire', lease) => AllOf(wire, lease)
  BY <1>3, <1>6, FirstIsFine
<1>8. ~KeyEdge(wire[1])
  BY <1>3, ActionsAre DEF KeyEdge
<1>9. \A s : EndFits(s) => EndFits(s)'
  BY <1>2 DEF EndFits, Current
<1>10. ASSUME ~unseen, AllOf(wire', lease)
       PROVE  \E g \in Seq(Typing) : /\ TypedChain(g, wire')
                                     /\ Begins(os.down, sink.mods, g[1])
                                     /\ EndFits(g[Len(g)])'
  <2>1. PICK g \in Seq(Typing) : /\ TypedChain(g, wire)
                                 /\ Begins(os.down, sink.mods, g[1])
                                 /\ EndFits(g[Len(g)])
    BY <1>0, <1>7, <1>10 DEF Typed
  <2>2. PICK k : k = Tail(g)
    OBVIOUS
  <2>3. k \in Seq(Typing) /\ TypedChain(k, wire') /\ Follows(g[1], wire[1], k[1]) /\
          k[Len(k)] = g[Len(g)]
    BY <1>3, <1>6, <2>1, <2>2, TypedChainShrinks
  <2>4. k[1] = g[1]
    BY <1>8, <2>3 DEF Follows
  <2> QED BY <1>9, <2>1, <2>3, <2>4
<1>11. ~unseen => ~mistyped
  BY <1>0 DEF Typed
<1>12. Typed'
  BY <1>2, <1>5, <1>10, <1>11 DEF Typed
<1> QED BY <1>4, <1>12 DEF TypedInv

(* What the gate refuses the page knows of as missed; what it lets pass is  *)
(* still to come.                                                           *)
LEMMA GateTypes ==
  ASSUME RemoteInv, TypedInv, NMods >= 3, InOrder, InputRefused \/ InputAuthorized
  PROVE  TypedInv'
<1>1. CASE InputRefused
  <2>1. PICK i \in Arriving : wire' = RemoveAt(wire, i)
    BY <1>1 DEF InputRefused
  <2>2. /\ unseen' = TRUE
        /\ UNCHANGED <<lease, leases, notices, viewerLease>>
    BY <1>1 DEF InputRefused, hostSideVars
  <2>3. wire # <<>> /\ wire' = Tail(wire)
    BY <2>1, TakesTheFirst DEF RemoteInv
  <2>4. Stamps'
    BY <2>2, <2>3, StampsKept DEF RemoteInv, TypedInv
  <2> QED BY <2>2, <2>4 DEF TypedInv, Typed
<1>2. CASE InputAuthorized
  BY <1>2, QuietTypes DEF InputAuthorized, viewerVars
<1> QED BY <1>1, <1>2

(* What passed is typed, or comes after the end of its lease.               *)
LEMMA DispatchedTypes ==
  ASSUME RemoteInv, TypedInv, NMods >= 3, Right \in Plain, SinkFits, SafeToRelease,
         failures' = failures,
         InOrder, InputDispatched
  PROVE  TypedInv'
<1>0. X11Host /\ Wires /\ Phases /\ Stamps /\ Typed
  BY DEF RemoteInv, TypedInv
<1>1. ctl = "dispatch"
  BY DEF InputDispatched
<1>2. /\ taken = 1 /\ 1 \in 1 .. Len(wire)
      /\ wire[1].action \in KeyActions \cup ButtonActions
      /\ wire[1].lease # 0 /\ lease \in {0, wire[1].lease}
  BY <1>0, <1>1, TakenIs
<1>3. PICK e : e = wire[1]
  OBVIOUS
<1>4. /\ wire' = RemoveAt(wire, 1) /\ Dispatch(e.action)
      /\ IF e.lease = lease THEN UNCHANGED unseen ELSE unseen' = TRUE
      /\ UNCHANGED <<heldKeys, lease, notices, leases, viewerLease>>
  BY <1>2, <1>3 DEF InputDispatched, viewerVars
<1>5. wire \in Seq(Envelope) /\ wire # <<>>
  BY <1>0, <1>2, LenProperties, EmptySeq DEF Wires
<1>6. wire' = Tail(wire)
  BY <1>4, <1>5, RemoveFirstIsTail
<1>7. Stamps'
  BY <1>0, <1>4, <1>5, <1>6, StampsKept
<1>8. CASE e.lease # lease
  BY <1>4, <1>7, <1>8 DEF TypedInv, Typed
<1>9. CASE e.lease = lease
  <2>1. AllOf(wire, lease)
    <3>1. lease # 0 /\ Len(wire) \in Nat
      BY <1>2, <1>3, <1>5, <1>9, LenProperties
    <3>2. \A i, j \in 1 .. Len(wire) : i < j /\ lease # 0 /\ wire[i].lease = lease =>
            wire[j].action = ControlRequest \/ wire[j].lease = lease
      BY <1>0 DEF Stamps
    <3>3. \A j \in 1 .. Len(wire) : j # 1 => 1 < j
      BY <3>1
    <3>4. \A j \in 1 .. Len(wire) : j # 1 => wire[j].action = ControlRequest \/
            wire[j].lease = lease
      BY <1>2, <1>3, <1>9, <3>1, <3>2, <3>3
    <3> QED BY <1>3, <1>9, <3>4 DEF AllOf
  <2>2. e.action \in KeyActions \cup ButtonActions /\ unseen' = unseen
    BY <1>2, <1>3, <1>4, <1>9
  <2>3. \A s : EndFits(s) => EndFits(s)'
    BY <1>4 DEF EndFits, Current
  <2>4. ASSUME ~unseen
        PROVE  /\ ~mistyped'
               /\ \E g \in Seq(Typing) : /\ TypedChain(g, wire')
                                         /\ Begins(os'.down, sink'.mods, g[1])
                                         /\ EndFits(g[Len(g)])'
    <3>1. /\ ~mistyped
          /\ \E g \in Seq(Typing) : /\ TypedChain(g, wire)
                                    /\ Begins(os.down, sink.mods, g[1])
                                    /\ EndFits(g[Len(g)])
      BY <1>0, <2>1, <2>4 DEF Typed
    <3>2. PICK g \in Seq(Typing) : /\ TypedChain(g, wire)
                                   /\ Begins(os.down, sink.mods, g[1])
                                   /\ EndFits(g[Len(g)])
      BY <3>1
    <3>3. PICK k : k = Tail(g)
      OBVIOUS
    <3>4. /\ k \in Seq(Typing) /\ TypedChain(k, wire') /\ Follows(g[1], e, k[1]) /\
               k[Len(k)] = g[Len(g)]
          /\ g[1] \in Typing /\ k[1] \in Typing
      BY <1>3, <1>5, <1>6, <3>2, <3>3, TypedChainShrinks
    <3>5. Begins(os'.down, sink'.mods, k[1]) /\ ~mistyped'
      <4>1. PICK s, t : s = g[1] /\ t = k[1]
        OBVIOUS
      <4>2. s \in Typing /\ t \in Typing /\ Follows(s, e, t) /\ Begins(os.down, sink.mods, s)
        BY <3>2, <3>4, <4>1
      <4>3. CASE e.action \in KeyActions
        <5>1. e.action.kind = "key"
          BY <4>3 DEF KeyActions
        <5>2. /\ SinkKey(e.action.of, e.action.down, e.action.mods)
              /\ mistyped' = (mistyped \/ /\ e.action.down /\ e.action.of \in Plain \ {Right}
                                          /\ EffectiveModifiers(os'.down) # e.action.mods
                                          /\ backend # "mac")
          BY <1>4, <5>1 DEF Dispatch
        <5>3. /\ Begins(os'.down, sink'.mods, t)
              /\ e.action.down => EffectiveModifiers(os'.down) = e.action.mods
          BY <1>0, <4>2, <4>3, <5>1, <5>2, KeyIsTyped DEF KeyEdge
        <5>4. ~mistyped'
          BY <3>1, <5>2, <5>3
        <5> QED BY <4>1, <5>3, <5>4
      <4>4. CASE e.action \in ButtonActions
        <5>1. e.action.kind = "button" /\ e.action.down \in BOOLEAN
          BY <4>4 DEF ButtonActions
        <5>2. SinkButton(e.action.of, e.action.down) /\ mistyped' = mistyped
          BY <1>4, <5>1 DEF Dispatch
        <5>3. Begins(os'.down, sink'.mods, s)
          BY <1>0, <4>2, <5>1, <5>2, ButtonIsNoKey DEF Begins
        <5>4. t = s
          BY <4>2, <5>1 DEF Follows, KeyEdge
        <5> QED BY <3>1, <4>1, <5>2, <5>3, <5>4
      <4> QED BY <2>2, <4>3, <4>4
    <3> QED BY <2>3, <3>2, <3>4, <3>5
  <2>5. Typed'
    BY <2>2, <2>4 DEF Typed
  <2> QED BY <1>7, <2>5 DEF TypedInv
<1> QED BY <1>8, <1>9

(* Every step of the whole way.                                             *)
LEMMA RemoteNextTypes ==
  ASSUME RemoteInv, TypedInv, NMods >= 3, Right \in Plain, SinkFits, SafeToRelease,
         InOrder, RemoteNext, failures' = failures
  PROVE  TypedInv'
<1>1. CASE ViewerActs
  <2>1. CASE Toggle
    BY <2>1, ControlTypes DEF Toggle, hostSideVars
  <2> QED BY <1>1, <2>1, ForwardKeyTypes, ForwardButtonTypes, FocusTypes,
        RequestTypes DEF ViewerActs
<1>2. CASE PollWakes
  BY <1>2, ControlTypes DEF PollWakes, hostSideVars
<1>3. CASE PollAnswered
  BY <1>3, ControlTypes DEF PollAnswered, hostSideVars
<1>4. CASE RequestTimesOut
  BY <1>4, ControlTypes DEF RequestTimesOut, hostSideVars
<1>5. CASE RevertToIdle
  BY <1>5, ControlTypes DEF RevertToIdle, hostSideVars
<1>6. CASE NotifyConsentDenied
  BY <1>6, ControlTypes DEF NotifyConsentDenied, hostSideVars
<1> QED BY <1>1, <1>2, <1>3, <1>4, <1>5, <1>6, HostTypes, NoticeTypes,
      RequestArrivesTypes, GateTypes, DispatchedTypes
        DEF RemoteNext

(* Nothing was typed at the start.                                          *)
LEMMA TypedInitial ==
  ASSUME NMods >= 3, RemoteInit PROVE TypedInv /\ ~mistyped
<1>1. /\ heldKeys = {} /\ viewerLease = 0 /\ wire = <<>> /\ lease = 0 /\ notices = <<>> /\
           leases = 0
      /\ sink = [keys |-> {}, buttons |-> {}, mods |-> {}, caps |-> FALSE]
      /\ os = [down |-> {}, caps |-> FALSE] /\ mistyped = FALSE
  BY DEF RemoteInit, SinkInit
<1>2. wire \in Seq(Envelope) /\ Len(wire) = 0 /\ \A i \in 1 .. Len(wire) : ~KeyEdge(wire[i])
  BY <1>1
<1>3. Stamps
  BY <1>1, <1>2 DEF Stamps
<1>4. PICK g \in Seq(Typing) : TypedChain(g, wire) /\ g[1] = <<{}, {}>> /\ g[Len(g)] = <<{}, {}>>
  BY <1>2, CleanChain
<1>5. HostFits({}, {}, {})
  BY DEF HostFits
<1>6. EndFits(g[Len(g)])
  <2>1. g[Len(g)][1] = {} /\ g[Len(g)][2] = {}
    BY <1>4
  <2> QED BY <1>1, <2>1, BitsAreMods DEF EndFits
<1>7. Begins(os.down, sink.mods, g[1])
  BY <1>1, <1>4, <1>5 DEF Begins
<1>8. Typed
  BY <1>1, <1>4, <1>6, <1>7 DEF Typed
<1> QED BY <1>1, <1>3, <1>8 DEF TypedInv

(* On its own the back end types nothing.                                   *)
KeysInv == InputInv /\ (part = "remote" => TypedInv) /\ (part # "remote" => ~mistyped)

(* The invariant is inductive.                                              *)
LEMMA KeysNext ==
  ASSUME InOrder, NMods >= 3, Right \in Plain, KeysInv, [Next]_vars PROVE KeysInv'
<1>0. /\ InputInv /\ (part = "remote" => TypedInv) /\ (part # "remote" => ~mistyped)
      /\ InputInv' /\ SinkFits /\ SafeToRelease /\ (part = "remote" => RemoteInv)
  BY InputNext DEF KeysInv, InputInv
<1>1. CASE Sink
  BY <1>0, <1>1 DEF Sink, KeysInv
<1>2. CASE Remote
  <2>1. part = "remote" /\ part' = part /\ RemoteNext /\ failures' = failures
    BY <1>2 DEF Remote
  <2>2. TypedInv'
    BY <1>0, <2>1, RemoteNextTypes
  <2> QED BY <1>0, <2>1, <2>2 DEF KeysInv
<1>3. CASE Player \/ Cursor \/ MediaThread \/ Signalling \/ UNCHANGED vars
  <2>1. part' = part /\ UNCHANGED remoteVars
    BY <1>3 DEF Player, Cursor, MediaThread, Signalling, vars
  <2>2. /\ UNCHANGED <<heldKeys, viewerLease, wire, lease, leases>>
        /\ UNCHANGED <<notices, unseen, mistyped, sinkVars>>
    BY <2>1 DEF remoteVars, viewerVars, hostSideVars
  <2>3. TypedInv /\ RemoteInv => TypedInv'
    BY <2>2, QuietTypes
  <2> QED BY <1>0, <2>1, <2>2, <2>3 DEF KeysInv
<1> QED BY <1>1, <1>2, <1>3 DEF Next

(* control.js and host_handle_input: the modifiers of a key are those that  *)
(* were down when it was struck, after whatever was refused, released or    *)
(* taken over in between, unless the page missed a key going down; if no    *)
(* command overtakes another and the right Shift is one of the plain keys.  *)
THEOREM KeysAreTypedAsHeld ==
  ASSUME InOrder, NMods >= 3, Right \in Plain PROVE Spec => []TypedAsHeld
<1>1. Init => KeysInv
  BY InputInitial, TypedInitial DEF Init, KeysInv, RemoteInit
<1>2. KeysInv /\ [Next]_vars => KeysInv'
  BY KeysNext
<1>3. KeysInv => TypedAsHeld
  BY DEF KeysInv, TypedInv, Typed, TypedAsHeld
<1> QED BY <1>1, <1>2, <1>3, PTL DEF Spec

-------------------------------------------------------------------------------
(* An encoder between two calls.                                            *)
Encoder == [kind : Kinds, size : Sizes, built : Sizes \cup {NoSize}, bitrate : Nat, rate : Nat,
            force : BOOLEAN, pos : 0 .. 3, lib : 0 .. 3]
Frame == [size : Sizes \cup {NoSize}, key : BOOLEAN, place : 0 .. 3]

(* The place the wrapper counts is the one libvpx counts, and its codec is  *)
(* for the size of the config.                                              *)
InStep(e) ==
  /\ e.kind = "vp9" => e.pos = e.lib
  /\ e.kind \in {"vp9", "vp8"} => e.built \in {NoSize, e.size}

(* A frame of another size than the last would be a key frame.              *)
StartsAfresh(e) ==
  \/ forwarded.size = e.size
  \/ e.kind \in {"vp9", "vp8"} /\ (e.force \/ e.built # e.size)
  \/ e.kind \in {"h264", "vt"} /\ e.lib = 0

(* The codec runs at b, or will when it is built.                           *)
RunsAt(e, b) ==
  IF e.built = NoSize THEN Clamp(e.kind, e.bitrate) = Clamp(e.kind, b)
                      ELSE e.rate = Clamp(e.kind, b)

PumpTyped ==
  /\ encoder \in Encoder /\ forwarded \in Frame
  /\ abr \in Nat /\ target \in Nat /\ wantLayer \in {0, 1, NoCeiling}
  /\ applied \in [bitrate : Nat, layer : {0, 1, NoCeiling}]

PumpInv ==
  /\ PumpTyped /\ InStep(encoder) /\ StartsAfresh(encoder)
  /\ ~misset => published = encoder.size /\ RunsAt(encoder, applied.bitrate)

(* What a call makes of an encoder.                                         *)
LEMMA ClampIdempotent ==
  ASSUME NEW k \in Kinds, NEW b \in Nat
  PROVE  /\ Clamp(k, b) \in Nat /\ Clamp(k, Clamp(k, b)) = Clamp(k, b)
         /\ Clamp("vt", b) \in Nat /\ (k = "vt" => Clamp(k, Clamp("vt", b)) = Clamp(k, b))
         /\ Clamp("h264", b) \in Nat /\ (k = "h264" => Clamp(k, Clamp("h264", b)) = Clamp(k, b))
BY EncoderAssumption DEF Clamp

(* A fresh group touches nothing but the places.                            *)
LEMMA FreshFits ==
  ASSUME NEW e \in Encoder
  PROVE  /\ FreshGop(e) \in Encoder /\ FreshGop(e).pos = 0 /\ FreshGop(e).lib = 0
         /\ FreshGop(e).built = e.built /\ FreshGop(e).rate = e.rate
         /\ FreshGop(e).kind = e.kind /\ FreshGop(e).bitrate = e.bitrate
         /\ FreshGop(e).force = e.force
         /\ FreshGop(e).size = e.size
<1>1. PICK z \in 0 .. 3 : z = 0
  OBVIOUS
<1>2. FreshGop(e) = [e EXCEPT !.pos = z, !.lib = z]
  BY <1>1 DEF FreshGop
<1>3. [e EXCEPT !.pos = z, !.lib = z] \in Encoder
  BY DEF Encoder
<1> QED BY <1>1, <1>2, <1>3 DEF Encoder

(* A codec that is built runs at the bitrate of its config, from the start  *)
(* of a group.                                                              *)
LEMMA BuiltFits ==
  ASSUME NEW e \in Encoder, NEW s \in Sizes
  PROVE  /\ Built(e, s) \in Encoder /\ Built(e, s).pos = 0 /\ Built(e, s).lib = 0
         /\ Built(e, s).built = s /\ Built(e, s).rate = Clamp(e.kind, e.bitrate)
         /\ Built(e, s).kind = e.kind /\ Built(e, s).bitrate = e.bitrate
         /\ Built(e, s).force = e.force
         /\ Built(e, s).size = e.size
<1>1. e.kind \in Kinds /\ e.bitrate \in Nat
  BY DEF Encoder
<1>2. Clamp(e.kind, e.bitrate) \in Nat
  BY <1>1, ClampIdempotent
<1>3. PICK f \in Encoder : f = FreshGop(e)
  BY FreshFits
<1>4. /\ f.pos = 0 /\ f.lib = 0 /\ f.kind = e.kind /\ f.bitrate = e.bitrate
      /\ f.force = e.force /\ f.size = e.size
  BY <1>3, FreshFits
<1>5. PICK r \in Nat : r = Clamp(e.kind, e.bitrate)
  BY <1>2
<1>6. Built(e, s) = [f EXCEPT !.built = s, !.rate = r]
  BY <1>3, <1>5 DEF Built
<1>7. [f EXCEPT !.built = s, !.rate = r] \in Encoder
  BY DEF Encoder
<1> QED BY <1>4, <1>5, <1>6, <1>7 DEF Encoder

(* A configured encoder owes a key frame and keeps its bitrate.              *)
LEMMA ConfiguredFits ==
  ASSUME NEW e \in Encoder, NEW s \in Sizes
  PROVE  /\ Configured(e, s) \in Encoder /\ Configured(e, s).pos = 0 /\ Configured(e, s).lib = 0
         /\ Configured(e, s).force /\ Configured(e, s).size = s
         /\ Configured(e, s).kind = e.kind
         /\ Configured(e, s).built \in {NoSize, s}
         /\ RunsAt(Configured(e, s), e.bitrate)
         /\ e.kind \in {"vp9", "vp8"} => Configured(e, s).built = NoSize
<1> DEFINE blank == [e EXCEPT !.size = s, !.force = TRUE, !.built = NoSize, !.rate = 0]
<1>1. /\ blank \in Encoder /\ blank.force /\ blank.size = s /\ blank.built = NoSize
      /\ blank.kind = e.kind /\ blank.bitrate = e.bitrate
  BY DEF Encoder
<1>2. /\ Built(blank, s) \in Encoder /\ Built(blank, s).pos = 0 /\ Built(blank, s).lib = 0
      /\ Built(blank, s).built = s /\ Built(blank, s).rate = Clamp(e.kind, e.bitrate)
      /\ Built(blank, s).kind = e.kind /\ Built(blank, s).bitrate = e.bitrate
      /\ Built(blank, s).force
      /\ Built(blank, s).size = s
  <2> HIDE DEF blank
  <2> QED BY <1>1, BuiltFits
<1>3. e.kind \in Kinds /\ e.bitrate \in Nat
  BY DEF Encoder
<1>4. CASE e.kind \in {"vp9", "vp8"}
  <2>1. Configured(e, s) = FreshGop(blank)
    BY <1>1, <1>4 DEF Configured, VpxConfigured
  <2> HIDE DEF blank
  <2> QED BY <1>1, <2>1, FreshFits DEF RunsAt
<1>5. CASE e.kind = "h264"
  <2>1. Configured(e, s) = Built(blank, s)
    BY <1>1, <1>5 DEF Configured, H264Configured
  <2> HIDE DEF blank
  <2> QED BY <1>2, <1>5, <2>1, PumpAssumption DEF RunsAt
<1>6. CASE e.kind = "vt"
  <2>1. Configured(e, s) = [Built(blank, s) EXCEPT !.bitrate = Clamp("vt", e.bitrate)]
    BY <1>1, <1>6 DEF Configured, VtConfigured
  <2>2. /\ Clamp("vt", e.bitrate) \in Nat
        /\ Clamp(e.kind, Clamp("vt", e.bitrate)) = Clamp(e.kind, e.bitrate)
    BY <1>3, <1>6, ClampIdempotent
  <2>3. PICK d : d = Built(blank, s)
    OBVIOUS
  <2> HIDE DEF blank
  <2>4. Configured(e, s) = [d EXCEPT !.bitrate = Clamp("vt", e.bitrate)]
    BY <2>1, <2>3
  <2> QED BY <1>2, <1>6, <2>2, <2>3, <2>4, PumpAssumption DEF RunsAt, Encoder
<1> QED BY <1>3, <1>4, <1>5, <1>6 DEF Kinds

(* All but the two rates stays as it was.                                   *)
SameButRates(d, e) ==
  /\ d.size = e.size /\ d.kind = e.kind /\ d.built = e.built /\ d.force = e.force
  /\ d.lib = e.lib /\ d.pos = e.pos

WithRates(e, m, n) == [e EXCEPT !.bitrate = m, !.rate = n]

(* ... and the result is an encoder.                                        *)
LEMMA RatesFit ==
  ASSUME NEW e \in Encoder, NEW m \in Nat, NEW n \in Nat
  PROVE  /\ WithRates(e, m, n) \in Encoder
         /\ WithRates(e, m, n).bitrate = m /\ WithRates(e, m, n).rate = n
         /\ SameButRates(WithRates(e, m, n), e)
BY DEF Encoder, SameButRates, WithRates

(* set_bitrate of the four encoders, in one line.                           *)
LEMMA RetargetedIs ==
  ASSUME NEW e \in Encoder, NEW b \in Nat, Retargets(e)
  PROVE  Retargeted(e, b) = WithRates(e, IF e.kind = "vt" THEN Clamp("vt", b)
                                         ELSE IF e.kind = "h264" THEN Clamp("h264", b)
                                         ELSE b, Live(e, b))
BY DEF Encoder, Kinds, Retargeted, Retargets, Live, WithRates, VpxRetargeted, H264Retargeted,
       VtRetargeted

(* A retargeted codec runs at the target, and owes no key frame for it.      *)
LEMMA RetargetedFits ==
  ASSUME NEW e \in Encoder, NEW b \in Nat, Retargets(e)
  PROVE  /\ Retargeted(e, b) \in Encoder /\ RunsAt(Retargeted(e, b), b)
         /\ SameButRates(Retargeted(e, b), e)
<1>1. e.kind \in Kinds
  BY DEF Encoder
<1>2. /\ Clamp(e.kind, b) \in Nat /\ Clamp("vt", b) \in Nat /\ Clamp("h264", b) \in Nat
      /\ e.kind = "vt" => Clamp(e.kind, Clamp("vt", b)) = Clamp(e.kind, b)
      /\ e.kind = "h264" => Clamp(e.kind, Clamp("h264", b)) = Clamp(e.kind, b)
  BY <1>1, ClampIdempotent
<1>3. PICK n \in Nat : n = Live(e, b) /\ (e.built # NoSize => n = Clamp(e.kind, b))
  BY <1>2 DEF Live
<1>4. PICK m \in Nat :
        m = IF e.kind = "vt" THEN Clamp("vt", b)
            ELSE IF e.kind = "h264" THEN Clamp("h264", b) ELSE b
  BY <1>2
<1>5. Clamp(e.kind, m) = Clamp(e.kind, b)
  BY <1>2, <1>4
<1>6. PICK d : d = WithRates(e, m, n)
  OBVIOUS
<1>7. d \in Encoder /\ d.bitrate = m /\ d.rate = n /\ SameButRates(d, e)
  BY <1>6, RatesFit
<1>8. RunsAt(d, b)
  BY <1>3, <1>5, <1>7 DEF RunsAt, SameButRates
<1>9. Retargeted(e, b) = d
  BY <1>3, <1>4, <1>6, RetargetedIs
<1> QED BY <1>7, <1>8, <1>9

(* One that could not be retargeted runs on as it did.                       *)
LEMMA RetargetFailuresFit ==
  ASSUME NEW e \in Encoder, NEW b \in Nat, NEW d \in RetargetFailures(e, b)
  PROVE  /\ d \in Encoder /\ SameButRates(d, e)
         /\ \A a : RunsAt(e, a) => RunsAt(d, a)
<1>1. e.kind \in Kinds
  BY DEF Encoder
<1>2. CASE d = e
  BY <1>2 DEF SameButRates
<1>3. CASE e.built # NoSize /\ \E m \in Nat : d = [e EXCEPT !.bitrate = m]
  BY <1>3 DEF SameButRates, RunsAt, Encoder
<1>4. Clamp("h264", b) \in Nat
  BY <1>1, ClampIdempotent
<1> QED BY <1>1, <1>2, <1>3, <1>4 DEF RetargetFailures, Kinds

(* The codec a picture meets still counts with its wrapper and runs at what *)
(* the encoder did.                                                         *)
LEMMA ReadyFits ==
  ASSUME NEW e \in Encoder, InStep(e)
  PROVE  /\ Ready(e, e.size) \in Encoder /\ InStep(Ready(e, e.size))
         /\ Ready(e, e.size).kind = e.kind /\ Ready(e, e.size).size = e.size
         /\ Ready(e, e.size).force = e.force
         /\ Ready(e, e.size).bitrate = e.bitrate
         /\ e.kind \in {"vp9", "vp8"} => Ready(e, e.size).built = e.size
         /\ \A b : RunsAt(e, b) => RunsAt(Ready(e, e.size), b)
<1>1. e.size \in Sizes
  BY DEF Encoder
<1>2. CASE Ready(e, e.size) = e
  <2>1. e.kind \in {"vp9", "vp8"} => e.built = e.size
    BY <1>1, <1>2, BuiltFits DEF Ready
  <2> QED BY <1>2, <2>1
<1>3. CASE Ready(e, e.size) = Built(e, e.size)
  <2>1. PICK f \in Encoder : f = Built(e, e.size)
    BY <1>1, BuiltFits
  <2>2. /\ f.pos = 0 /\ f.lib = 0 /\ f.built = e.size /\ f.rate = Clamp(e.kind, e.bitrate)
        /\ f.kind = e.kind /\ f.bitrate = e.bitrate /\ f.force = e.force
        /\ f.size = e.size
    BY <1>1, <2>1, BuiltFits
  <2>3. CASE e.built = NoSize
    <3>1. \A b : RunsAt(e, b) => RunsAt(f, b)
      BY <1>1, <2>2, <2>3, PumpAssumption DEF RunsAt
    <3> QED BY <1>3, <2>1, <2>2, <3>1 DEF InStep
  <2>4. CASE e.built # NoSize
    <3>1. Ready(e, e.size) = e
      BY <2>4 DEF Ready, InStep
    <3> QED BY <1>2, <2>4, <3>1 DEF InStep
  <2> QED BY <2>3, <2>4
<1> QED BY <1>2, <1>3 DEF Ready

(* A submitted picture takes its place in both counts.                      *)
LEMMA SubmittedFits ==
  ASSUME NEW e \in Encoder, NEW out \in BOOLEAN, InStep(e)
  PROVE  /\ Submitted(e, out) \in Encoder /\ InStep(Submitted(e, out))
         /\ Submitted(e, out).kind = e.kind /\ Submitted(e, out).size = e.size
         /\ Submitted(e, out).built = e.built
         /\ ~Submitted(e, out).force
         /\ e.kind \in {"h264", "vt"} /\ ~out => Submitted(e, out).lib = e.lib
         /\ \A b : RunsAt(e, b) => RunsAt(Submitted(e, out), b)
<1> DEFINE f == Submitted(e, out)
<1>1. e.kind \in Kinds /\ e.pos \in 0 .. 3 /\ e.lib \in 0 .. 3
  BY DEF Encoder
<1>2. \E p, l \in 0 .. 3 : /\ f = [e EXCEPT !.force = FALSE, !.lib = l, !.pos = p]
                           /\ e.kind = "vp9" => l = p
                           /\ e.kind \in {"h264", "vt"} /\ ~out => l = e.lib
  <2>1. CASE e.kind = "vp9"
    <3>1. PICK l, p \in 0 .. 3 : l = (e.lib + 1) % 4 /\ p = (e.pos + 1) % 4
      BY <1>1
    <3>2. f = [e EXCEPT !.force = FALSE, !.lib = l, !.pos = p]
      BY <2>1, <3>1 DEF Submitted, VpxSubmitted
    <3> HIDE DEF f
    <3> QED BY <2>1, <3>1, <3>2 DEF InStep
  <2>2. CASE e.kind = "vp8"
    <3>1. f = [e EXCEPT !.force = FALSE]
      BY <2>2 DEF Submitted
    <3>2. f = [e EXCEPT !.force = FALSE, !.lib = e.lib, !.pos = e.pos]
      BY <3>1 DEF Encoder
    <3> HIDE DEF f
    <3> QED BY <1>1, <2>2, <3>2
  <2>3. CASE e.kind \in {"h264", "vt"}
    <3>1. PICK l \in 0 .. 3 : l = IF out THEN 1 ELSE e.lib
      BY <1>1
    <3>2. f = [e EXCEPT !.force = FALSE, !.lib = l]
      BY <2>3, <3>1 DEF Submitted, H264Submitted, VtSubmitted
    <3>3. f = [e EXCEPT !.force = FALSE, !.lib = l, !.pos = e.pos]
      BY <3>2 DEF Encoder
    <3> HIDE DEF f
    <3> QED BY <1>1, <2>3, <3>1, <3>3
  <2> QED BY <1>1, <2>1, <2>2, <2>3 DEF Kinds
<1> HIDE DEF f
<1>3. PICK p, l \in 0 .. 3 : /\ f = [e EXCEPT !.force = FALSE, !.lib = l, !.pos = p]
                             /\ e.kind = "vp9" => l = p
                             /\ e.kind \in {"h264", "vt"} /\ ~out => l = e.lib
  BY <1>2
<1>4. /\ f \in Encoder /\ f.kind = e.kind /\ f.size = e.size
      /\ f.built = e.built /\ f.bitrate = e.bitrate /\ f.rate = e.rate /\ ~f.force
      /\ f.lib = l /\ f.pos = p
  BY <1>3 DEF Encoder
<1>5. InStep(f) /\ \A b : RunsAt(e, b) => RunsAt(f, b)
  BY <1>3, <1>4 DEF InStep, RunsAt
<1> QED BY <1>3, <1>4, <1>5 DEF f

(* A picture is encoded, and what comes out is forwarded.                   *)
LEMMA EncodedFits ==
  ASSUME NEW e \in Encoder, NEW out \in BOOLEAN, forwarded \in Frame, InStep(e),
         StartsAfresh(e), Encodes(e, e.size, out)
  PROVE  /\ encoder' \in Encoder /\ forwarded' \in Frame
         /\ InStep(encoder') /\ StartsAfresh(encoder)'
         /\ encoder'.kind = e.kind /\ encoder'.size = e.size
         /\ \A b : RunsAt(e, b) => RunsAt(encoder', b)
         /\ forwarded' # forwarded =>
              /\ forwarded'.size = e.size
              /\ forwarded'.size # forwarded.size => forwarded'.key
<1> DEFINE key == IsKey(e, e.size)
<1>1. PICK r \in Encoder : r = Ready(e, e.size)
  BY ReadyFits
<1>2. /\ InStep(r) /\ r.kind = e.kind /\ r.size = e.size
      /\ r.force = e.force
      /\ e.kind \in {"vp9", "vp8"} => r.built = e.size
      /\ \A b : RunsAt(e, b) => RunsAt(r, b)
  BY <1>1, ReadyFits
<1>3. encoder' = Submitted(r, out)
  BY <1>1 DEF Encodes
<1>4. /\ encoder' \in Encoder /\ InStep(encoder')
      /\ encoder'.kind = e.kind /\ encoder'.size = e.size
      /\ encoder'.built = r.built /\ ~encoder'.force
      /\ e.kind \in {"h264", "vt"} /\ ~out => encoder'.lib = r.lib
      /\ \A b : RunsAt(e, b) => RunsAt(encoder', b)
  BY <1>2, <1>3, SubmittedFits
<1>5. /\ e.kind \in Kinds /\ r.lib \in 0 .. 3 /\ r.pos \in 0 .. 3
      /\ e.size \in Sizes
  BY <1>2 DEF Encoder
<1>6. ~key => forwarded.size = e.size
  BY <1>5 DEF IsKey, StartsAfresh, Kinds
<1>7. e.kind \in {"h264", "vt"} => r.lib \in {0, e.lib}
  <2>1. CASE r = e
    BY <2>1
  <2>2. CASE r = Built(e, e.size)
    BY <1>5, <2>2, BuiltFits
  <2> QED BY <1>1, <2>1, <2>2 DEF Ready
<1>8. CASE ~out
  <2>1. (key => e.kind = "vt") /\ UNCHANGED forwarded
    BY <1>8 DEF Encodes
  <2>2. forwarded.size = e.size \/ (e.kind = "vt" /\ r.lib = 0)
    <3>1. CASE key
      <4>1. e.kind = "vt"
        BY <2>1, <3>1
      <4> QED BY <1>7, <4>1 DEF StartsAfresh
    <3>2. CASE ~key
      BY <1>6, <3>2
    <3> QED BY <3>1, <3>2
  <2>3. StartsAfresh(encoder)'
    BY <1>4, <1>8, <2>1, <2>2 DEF StartsAfresh
  <2> QED BY <1>4, <2>1, <2>3
<1>9. CASE out
  <2>1. forwarded' = [size |-> e.size, key |-> key, place |-> r.lib]
    BY <1>1, <1>9 DEF Encodes
  <2>2. key \in BOOLEAN
    BY DEF IsKey, Encoder
  <2>3. forwarded' \in Frame /\ forwarded'.size = e.size /\ (forwarded'.key <=> key)
    BY <1>5, <2>1, <2>2 DEF Frame
  <2>4. StartsAfresh(encoder)'
    BY <1>4, <2>3 DEF StartsAfresh
  <2> QED BY <1>4, <1>6, <2>3, <2>4
<1> QED BY <1>8, <1>9

(* The bitrate and the layer of a tick.                                     *)
LEMMA TickFits ==
  ASSUME NEW b \in Nat, NEW l \in Nat, NEW c \in Nat
  PROVE  Rate(c, b, l) \in Nat /\ Layer(b, l) \in {0, 1, NoCeiling}
<1>1. Ceiling \in Nat /\ Floor \in Nat /\ Ceiling \div 10 \in Nat /\ (b * 9) \div 10 \in Nat
      /\ (c * 8) \div 10 \in Nat
  BY AbrAssumption
<1>2. Step \in Nat /\ TickCeiling(b) \in Nat
  BY <1>1 DEF Step, TickCeiling, Most, Least
<1>3. PICK m \in Nat : m = IF l > 2 THEN (c * 8) \div 10 ELSE c + Step
  BY <1>1, <1>2
<1>4. Rate(c, b, l) \in Nat
  BY <1>1, <1>2, <1>3 DEF Rate, Within, Most, Least
<1> QED BY <1>4 DEF Layer

(* The pump starts with a configured encoder.                               *)
LEMMA PumpInitial == PumpInit => PumpInv
<1> SUFFICES ASSUME PumpInit PROVE PumpInv
  OBVIOUS
<1>1. PICK k \in Codecs, s \in Sizes :
        /\ encoder = Configured([kind |-> k, size |-> s, built |-> NoSize, bitrate |-> Ceiling,
                                 rate |-> 0, force |-> TRUE, pos |-> 0, lib |-> 0], s)
        /\ abr = Ceiling /\ target = Ceiling /\ wantLayer = NoCeiling
        /\ applied = [bitrate |-> Ceiling, layer |-> NoCeiling]
        /\ published = s /\ forwarded = NoFrameYet
  BY DEF PumpInit
<1>2. PICK e : e = [kind |-> k, size |-> s, built |-> NoSize, bitrate |-> Ceiling,
                    rate |-> 0, force |-> TRUE, pos |-> 0, lib |-> 0]
  OBVIOUS
<1>3. e \in Encoder /\ e.bitrate = Ceiling
  BY <1>2, PumpAssumption, AbrAssumption DEF Encoder
<1>4. encoder = Configured(e, s)
  BY <1>1, <1>2
<1>5. /\ encoder \in Encoder /\ encoder.pos = 0 /\ encoder.lib = 0 /\ encoder.force
      /\ encoder.size = s /\ RunsAt(encoder, Ceiling)
      /\ encoder.kind \in {"vp9", "vp8"} => encoder.built = NoSize
  BY <1>3, <1>4, ConfiguredFits
<1>6. encoder.kind \in Kinds
  BY <1>5 DEF Encoder
<1>7. PumpTyped
  BY <1>1, <1>5, AbrAssumption DEF PumpTyped, Frame, NoFrameYet, NoCeiling
<1>8. StartsAfresh(encoder) /\ InStep(encoder)
  BY <1>1, <1>5, <1>6 DEF StartsAfresh, InStep, Kinds
<1> QED BY <1>1, <1>5, <1>7, <1>8 DEF PumpInv

(* A turn of the pump begins, with an encoder that was retargeted or not.   *)
LEMMA SteeredInv ==
  ASSUME PumpInv, NEW p \in Encoder, NEW b \in Nat, SameButRates(p, encoder),
         ~misset => RunsAt(p, b), Steered(p, b)
  PROVE  PumpInv' /\ UNCHANGED forwarded
<1>1. /\ encoder' \in {p, [p EXCEPT !.force = TRUE]}
      /\ applied' = [bitrate |-> b, layer |-> wantLayer]
      /\ UNCHANGED <<abr, target, wantLayer, published, forwarded, misset>>
  BY DEF Steered, Requested
<1>2. /\ encoder' \in Encoder /\ encoder'.size = p.size /\ encoder'.kind = p.kind
      /\ encoder'.built = p.built
      /\ (p.force => encoder'.force) /\ encoder'.lib = p.lib /\ encoder'.pos = p.pos
      /\ encoder'.bitrate = p.bitrate /\ encoder'.rate = p.rate
  BY <1>1 DEF Encoder
<1>3. PumpTyped'
  BY <1>1, <1>2 DEF PumpInv, PumpTyped
<1>4. ~misset => RunsAt(encoder', b)
  BY <1>2 DEF RunsAt
<1>5. InStep(encoder') /\ StartsAfresh(encoder)'
  BY <1>1, <1>2 DEF PumpInv, InStep, StartsAfresh, SameButRates
<1>6. ~misset' => published' = encoder'.size /\ RunsAt(encoder', applied'.bitrate)
  BY <1>1, <1>2, <1>4 DEF PumpInv, SameButRates
<1> QED BY <1>1, <1>3, <1>5, <1>6 DEF PumpInv

(* The bitrate is set, could not be set, or is what it was.                 *)
LEMMA SteerInv ==
  ASSUME PumpInv, Steer \/ SteerFails PROVE PumpInv' /\ UNCHANGED forwarded
<1>1. encoder \in Encoder /\ target \in Nat /\ applied.bitrate \in Nat
  BY DEF PumpInv, PumpTyped
<1>2. ~misset => RunsAt(encoder, applied.bitrate)
  BY DEF PumpInv
<1>3. CASE Retargets(encoder) /\ Steered(Retargeted(encoder, target), target)
  BY <1>1, <1>3, RetargetedFits, SteeredInv
<1>4. CASE Steered(encoder, applied.bitrate)
  <2>1. SameButRates(encoder, encoder)
    BY DEF SameButRates
  <2> QED BY <1>1, <1>2, <1>4, <2>1, SteeredInv
<1>5. ASSUME NEW e \in RetargetFailures(encoder, target), Steered(e, applied.bitrate)
      PROVE  PumpInv' /\ UNCHANGED forwarded
  BY <1>1, <1>2, <1>5, RetargetFailuresFit, SteeredInv
<1> QED BY <1>3, <1>4, <1>5 DEF Steer, SteerFails

(* What a frame that is forwarded is to be.                                 *)
FrameAnnounced ==
  forwarded' # forwarded =>
    /\ forwarded'.size # forwarded.size => forwarded'.key
    /\ ~misset' => published' = forwarded'.size

(* A picture of the configured size.                                        *)
LEMMA PictureInv ==
  ASSUME PumpInv, NEW s \in Sizes, NEW out \in BOOLEAN, Picture(s, out)
  PROVE  PumpInv' /\ FrameAnnounced
<1>1. /\ encoder \in Encoder /\ forwarded \in Frame /\ InStep(encoder) /\ StartsAfresh(encoder)
      /\ Encodes(encoder, encoder.size, out)
  BY DEF PumpInv, PumpTyped, Picture
<1>2. /\ encoder' \in Encoder /\ forwarded' \in Frame
      /\ InStep(encoder') /\ StartsAfresh(encoder)'
      /\ encoder'.size = encoder.size
      /\ \A b : RunsAt(encoder, b) => RunsAt(encoder', b)
      /\ forwarded' # forwarded =>
           /\ forwarded'.size = encoder.size
           /\ forwarded'.size # forwarded.size => forwarded'.key
  BY <1>1, EncodedFits
<1>3. UNCHANGED <<abr, target, wantLayer, applied, published, misset>>
  BY DEF Picture
<1>4. PumpTyped'
  BY <1>2, <1>3 DEF PumpInv, PumpTyped
<1>5. ~misset' => published' = encoder'.size /\ RunsAt(encoder', applied'.bitrate)
  BY <1>2, <1>3 DEF PumpInv
<1>7. FrameAnnounced
  BY <1>2, <1>3 DEF FrameAnnounced, PumpInv
<1> QED BY <1>2, <1>4, <1>5, <1>7 DEF PumpInv

(* A picture of another size: what was configured for it owes a key frame.   *)
LEMMA ResizedInv ==
  ASSUME PumpInv, NEW s \in Sizes, NEW out \in BOOLEAN, Resized(s, out)
  PROVE  PumpInv' /\ FrameAnnounced
<1>1. /\ encoder \in Encoder /\ forwarded \in Frame /\ encoder.bitrate \in Nat
      /\ encoder.kind \in Kinds
  BY DEF PumpInv, PumpTyped, Encoder
<1>2. PICK d : d = Configured(encoder, s)
  OBVIOUS
<1>3. /\ d \in Encoder /\ d.pos = 0 /\ d.lib = 0 /\ d.force /\ d.size = s
      /\ d.kind = encoder.kind /\ RunsAt(d, encoder.bitrate)
      /\ d.kind \in {"vp9", "vp8"} => d.built = NoSize
  BY <1>1, <1>2, ConfiguredFits
<1>4. PICK e : e = Reconfigured(encoder, s)
  OBVIOUS
<1>5. e = [d EXCEPT !.force = TRUE]
  BY <1>2, <1>4 DEF Reconfigured, Requested
<1>6. /\ e \in Encoder /\ e.pos = 0 /\ e.lib = 0 /\ e.force /\ e.size = s
      /\ e.kind = encoder.kind
      /\ e.bitrate = d.bitrate /\ e.rate = d.rate /\ e.built = d.built
  BY <1>3, <1>5 DEF Encoder
<1>7. RunsAt(e, encoder.bitrate)
  BY <1>3, <1>6 DEF RunsAt
<1>8. InStep(e) /\ StartsAfresh(e)
  BY <1>1, <1>3, <1>6 DEF PumpInv, InStep, StartsAfresh, Kinds
<1>9. Encodes(e, e.size, out)
  BY <1>4, <1>6 DEF Resized
<1>10. /\ encoder' \in Encoder /\ forwarded' \in Frame
       /\ InStep(encoder') /\ StartsAfresh(encoder)'
       /\ encoder'.size = s
       /\ \A b : RunsAt(e, b) => RunsAt(encoder', b)
       /\ forwarded' # forwarded =>
            /\ forwarded'.size = s
            /\ forwarded'.size # forwarded.size => forwarded'.key
  BY <1>1, <1>6, <1>8, <1>9, EncodedFits
<1>11. /\ applied' = [applied EXCEPT !.bitrate = encoder.bitrate] /\ published' = s
       /\ UNCHANGED <<abr, target, wantLayer, misset>>
  BY DEF Resized
<1>12. PumpTyped' /\ applied'.bitrate = encoder.bitrate
  BY <1>1, <1>10, <1>11 DEF PumpInv, PumpTyped
<1>13. ~misset' => published' = encoder'.size /\ RunsAt(encoder', applied'.bitrate)
  BY <1>7, <1>10, <1>11, <1>12
<1>15. FrameAnnounced
  BY <1>10, <1>11 DEF FrameAnnounced
<1> QED BY <1>10, <1>12, <1>13, <1>15 DEF PumpInv

(* What is left after a failed configure starts with a key frame too.       *)
LEMMA ResizeFailsInv ==
  ASSUME PumpInv, NEW s \in Sizes, NEW out \in BOOLEAN, ResizeFails(s, out)
  PROVE  PumpInv' /\ FrameAnnounced
<1>1. encoder \in Encoder /\ forwarded \in Frame /\ encoder.kind \in Kinds
  BY DEF PumpInv, PumpTyped, Encoder
<1>2. PICK e \in ConfigureFailures(encoder, s) :
        /\ e.built # NoSize /\ Encodes(e, s, out)
        /\ UNCHANGED <<abr, wide, target, wantLayer, keyFlag, applied, published, over>>
  BY DEF ResizeFails
<1>3. misset'
  BY DEF ResizeFails
<1>4. /\ e \in Encoder /\ e.size = s /\ e.kind = encoder.kind /\ e.kind # "vp9" /\ e.lib = 0
      /\ e.kind \in {"h264", "vt"}
  <2>1. CASE encoder.kind \in {"vp9", "vp8"}
    BY <1>2, <2>1 DEF ConfigureFailures
  <2>2. CASE encoder.kind = "h264"
    <3>1. e = [encoder EXCEPT !.size = s, !.lib = 0]
      BY <1>2, <2>2 DEF ConfigureFailures
    <3>2. 0 \in 0 .. 3
      OBVIOUS
    <3> QED BY <1>1, <2>2, <3>1, <3>2 DEF Encoder
  <2>3. CASE encoder.kind = "vt"
    <3>1. PICK f \in Encoder : f = Built(encoder, s)
      BY <1>1, BuiltFits
    <3>2. f.lib = 0 /\ f.kind = encoder.kind
      BY <1>1, <3>1, BuiltFits
    <3>3. e = [encoder EXCEPT !.built = NoSize] \/ e = [f EXCEPT !.size = s, !.force = TRUE]
      BY <1>2, <2>3, <3>1 DEF ConfigureFailures
    <3>4. e # [encoder EXCEPT !.built = NoSize]
      BY <1>1, <1>2 DEF Encoder
    <3> QED BY <2>3, <3>2, <3>3, <3>4 DEF Encoder
  <2> QED BY <1>1, <2>1, <2>2, <2>3 DEF Kinds
<1>5. InStep(e) /\ StartsAfresh(e)
  BY <1>4 DEF PumpInv, InStep, StartsAfresh
<1>6. Encodes(e, e.size, out)
  BY <1>2, <1>4
<1>7. /\ encoder' \in Encoder /\ forwarded' \in Frame
      /\ InStep(encoder') /\ StartsAfresh(encoder)'
      /\ forwarded' # forwarded =>
           /\ forwarded'.size # forwarded.size => forwarded'.key
  BY <1>1, <1>4, <1>5, <1>6, EncodedFits
<1>8. PumpTyped'
  BY <1>2, <1>7 DEF PumpInv, PumpTyped
<1> QED BY <1>3, <1>7, <1>8 DEF PumpInv, FrameAnnounced

(* Every step of the loop and of the pump.                                  *)
LEMMA PumpNextInv ==
  ASSUME PumpInv, [PumpNext]_pumpVars
  PROVE  PumpInv' /\ [FrameAnnounced]_pumpVars
<1>1. ASSUME NEW b \in Bandwidths, NEW l \in Losses, NEW r \in BOOLEAN, StatsTick(b, l, r)
      PROVE  PumpInv' /\ UNCHANGED forwarded
  <2>1. b \in Nat /\ l \in Nat /\ abr \in Nat
    BY PumpAssumption DEF PumpInv, PumpTyped
  <2>2. abr' \in Nat /\ target' \in Nat /\ wantLayer' \in {0, 1, NoCeiling}
    BY <1>1, <2>1, TickFits DEF StatsTick
  <2>3. UNCHANGED <<encoder, applied, published, forwarded, misset>>
    BY <1>1 DEF StatsTick
  <2> QED BY <2>2, <2>3 DEF PumpInv, PumpTyped, InStep, StartsAfresh, RunsAt
<1>2. ASSUME EncodeFails PROVE PumpInv' /\ UNCHANGED forwarded
  <2>1. UNCHANGED <<abr, target, wantLayer, encoder, applied, published, forwarded, misset>>
    BY <1>2 DEF EncodeFails
  <2>2. PumpTyped'
    BY <2>1 DEF PumpInv, PumpTyped
  <2>3. InStep(encoder') /\ StartsAfresh(encoder)'
    BY <2>1 DEF PumpInv, InStep, StartsAfresh
  <2>4. ~misset' => published' = encoder'.size /\ RunsAt(encoder', applied'.bitrate)
    BY <2>1 DEF PumpInv
  <2> QED BY <2>1, <2>2, <2>3, <2>4 DEF PumpInv
<1>3. CASE UNCHANGED pumpVars
  BY <1>3 DEF pumpVars, PumpInv, PumpTyped, InStep, StartsAfresh, RunsAt
<1>4. UNCHANGED forwarded => FrameAnnounced
  BY DEF FrameAnnounced
<1> HIDE DEF PumpInv, FrameAnnounced
<1> QED BY <1>1, <1>2, <1>3, <1>4, SteerInv, PictureInv, ResizedInv, ResizeFailsInv DEF PumpNext

(* A target taken for applied is the one the codec runs at.                 *)
LEMMA PumpGood == PumpInv => RateFollows /\ LayersInStep
BY DEF PumpInv, RateFollows, RunsAt, LayersInStep, InStep

(* vp9_temporal_layer_bitrates_kbps.                                        *)
LEMMA Ladder ==
  ASSUME NEW total \in 1 .. 120
  PROVE  LET r == LayerRates(total)
         IN r[1] <= r[2] /\ r[2] <= r[3] /\ r[3] = total /\ (total >= 20 => r[1] >= 20)
BY DEF LayerRates, AtLeast, AtMost

(* Whatever the path reports, the sizes of the screen, the codec and the    *)
(* calls that fail: the first frame of another size is a key frame, and     *)
(* announced, and the live codec runs at the bitrate the pump takes for     *)
(* applied, over every rebuild, as long as no configure fails; and the      *)
(* layer VpxEncoder takes a frame for is the one libvpx gave it             *)
(* (media_pump of session.rs and the encoders it drives).                   *)
THEOREM StreamIsGood == Spec => StreamStaysGood
<1>1. Init => PumpInv /\ LadderAscends
  BY PumpInitial, Ladder DEF Init, LadderAscends
<1>2. [Next]_vars => [PumpNext]_pumpVars
  BY DEF Next, vars, Sink, Remote, Player, Cursor, MediaThread, Signalling
<1>3. PumpInv /\ [Next]_vars => PumpInv' /\ [FrameAnnounced]_pumpVars
  BY <1>2, PumpNextInv
<1>4. Spec => []PumpInv /\ [][FrameAnnounced]_pumpVars /\ LadderAscends
  BY <1>1, <1>3, PTL DEF Spec
<1>6. [FrameAnnounced]_pumpVars <=>
        [forwarded' # forwarded =>
           /\ forwarded'.size # forwarded.size => forwarded'.key
           /\ ~misset' => published' = forwarded'.size]_pumpVars
  BY DEF FrameAnnounced
<1>7. PumpInv => RateFollows /\ LayersInStep
  BY PumpGood
<1> QED BY <1>4, <1>6, <1>7, PTL DEF StreamStaysGood, NewSizeStartsAfresh
==============================================================================
