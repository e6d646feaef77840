------------------------------- MODULE Signal -------------------------------
(***************************************************************************)
(* Signed signals between contacts outside a session (ras-signal, and      *)
(* send_message, call_contact and handle_signal of main.rs): signed and    *)
(* dated by the sender, verified and acknowledged by the receiver, and     *)
(* checked against the guard of recent tags before they are shown. A       *)
(* recorded copy of a signal can arrive again. Signatures are external: a  *)
(* signal is its number, which stands for its replay tag.                  *)
(***************************************************************************)
EXTENDS Integers, FiniteSets

CONSTANTS Signals, Conns,
          MaxAge,      \* MAX_SIGNAL_AGE_MS, in ticks.
          Capacity,    \* SignalReplayGuard::max_entries.
          Skew,        \* How far the sender's clock is ahead (negative: behind).
          SlowRead,    \* Ticks a connection may take until its bytes are read; the
                       \* code sets no limit.
          MaxRestarts,
          MaxNow

ASSUME SignalAssumption ==
  /\ MaxAge \in Nat /\ Capacity \in Nat /\ Skew \in Int
  /\ SlowRead \in Nat /\ MaxRestarts \in Nat /\ MaxNow \in Nat

VARIABLES now,       \* The receiver's clock.
          active,    \* The sender is a contact that is not blocked.
          issued,    \* Per signal: when it was signed, by the sender's clock, or Unsent.
          told,      \* Per signal: what send_signal returned to the user.
          conn,      \* The connections of the receiver's accept loop.
          guard,     \* SignalReplayGuard::seen: the tags with their expiry.
          surfaced,  \* Per signal: how often the user was shown it ...
          before,    \* ... and how often before the receiver's app last started.
          restarts

signalVars == <<now, active, issued, told, conn, guard, surfaced, before, restarts>>

Unsent == Skew - 1   \* before any time of the sender
Idle == [at |-> "idle"]

SignalInit ==
  /\ now = 0 /\ active = TRUE
  /\ issued = [s \in Signals |-> Unsent] /\ told = [s \in Signals |-> "nothing"]
  /\ conn = [c \in Conns |-> Idle]
  /\ guard = {} /\ surfaced = [s \in Signals |-> 0]
  /\ before = surfaced /\ restarts = 0

(* handle_signal takes the time when it is called, before anything is read. *)
Opens(c, s, mine) ==
  /\ conn[c] = Idle
  /\ conn' = [conn EXCEPT ![c] = [at |-> "reading", of |-> s, from |-> now, mine |-> mine]]

(* send_message, call_contact: each send is dated and signed anew.         *)
Send(s, c) ==
  /\ issued[s] = Unsent
  /\ issued' = [issued EXCEPT ![s] = now + Skew]
  /\ told' = [told EXCEPT ![s] = "waiting"]
  /\ Opens(c, s, TRUE)
  /\ UNCHANGED <<now, active, guard, surfaced, before, restarts>>

(* The dial of a send fails: the contact appears offline.                  *)
DialFails(s) ==
  /\ issued[s] = Unsent
  /\ issued' = [issued EXCEPT ![s] = now + Skew]
  /\ told' = [told EXCEPT ![s] = "not delivered"]
  /\ UNCHANGED <<now, active, conn, guard, surfaced, before, restarts>>

(* The recorded bytes of a signal arrive on a connection of their own.     *)
ArrivesAgain(s, c) ==
  /\ issued[s] # Unsent /\ told[s] # "not delivered"
  /\ Opens(c, s, FALSE)
  /\ UNCHANGED <<now, active, issued, told, guard, surfaced, before, restarts>>

Fresh(s, at) == at - issued[s] <= MaxAge /\ issued[s] - at <= MaxAge

Answers(c, answer) ==
  told' = IF conn[c].mine THEN [told EXCEPT ![conn[c].of] = answer] ELSE told

(* verify_signed refuses: there is no acknowledgement.                     *)
Refuses(c) ==
  /\ conn[c].at = "reading" /\ ~(active /\ Fresh(conn[c].of, conn[c].from))
  /\ conn' = [conn EXCEPT ![c] = Idle]
  /\ Answers(c, "not delivered")
  /\ UNCHANGED <<now, active, issued, guard, surfaced, before, restarts>>

(* It accepts, and the acknowledgement is written; when that fails the     *)
(* signal is dropped here.                                                 *)
Accepts(c, written) ==
  /\ conn[c].at = "reading" /\ active /\ Fresh(conn[c].of, conn[c].from)
  /\ conn' = [conn EXCEPT ![c] = IF written THEN [conn[c] EXCEPT !.at = "acked"] ELSE Idle]
  /\ IF written THEN UNCHANGED told ELSE Answers(c, "not delivered")
  /\ UNCHANGED <<now, active, issued, guard, surfaced, before, restarts>>

(* The acknowledgement reaches the sender or is lost.                      *)
AckArrives(c, lost) ==
  /\ conn[c].at \in {"acked", "done"} /\ conn[c].mine /\ told[conn[c].of] = "waiting"
  /\ Answers(c, IF lost THEN "not delivered" ELSE "delivered")
  /\ UNCHANGED <<now, active, issued, conn, guard, surfaced, before, restarts>>

(* SignalReplayGuard::check_and_remember.                                  *)
Swept_OffByOne == { e \in guard : now < e.until }
Swept == { e \in guard : now <= e.until }

(* A full guard refuses rather than forget.                                *)
IsNew(s) == (\A e \in Swept : e.tag # s) /\ Cardinality(Swept) < Capacity

CheckAndRemember(c) ==
  LET s == conn[c].of
  IN
  /\ conn[c].at = "acked"
  /\ guard' = IF IsNew(s) THEN Swept \cup {[tag |-> s, until |-> now + MaxAge]} ELSE Swept
  /\ surfaced' = IF IsNew(s) THEN [surfaced EXCEPT ![s] = @ + 1] ELSE surfaced
  /\ conn' = [conn EXCEPT ![c] = IF @.mine /\ told[s] = "waiting" THEN [@ EXCEPT !.at = "done"]
                                 ELSE Idle]
  /\ UNCHANGED <<now, active, issued, told, before, restarts>>

ConnEnds(c) ==
  /\ conn[c].at = "done" /\ told[conn[c].of] # "waiting"
  /\ conn' = [conn EXCEPT ![c] = Idle]
  /\ UNCHANGED <<now, active, issued, told, guard, surfaced, before, restarts>>

(* A stuck read keeps a connection open while the clock goes on.           *)
Tick ==
  /\ now < MaxNow
  /\ \A c \in Conns : conn[c].at \in {"reading", "acked"} => now < conn[c].from + SlowRead
  /\ now' = now + 1
  /\ UNCHANGED <<active, issued, told, conn, guard, surfaced, before, restarts>>

Blocked ==
  /\ active /\ active' = FALSE
  /\ UNCHANGED <<now, issued, told, conn, guard, surfaced, before, restarts>>

(* The receiver's app restarts: the guard is in memory only.               *)
ReceiverRestarts ==
  /\ restarts < MaxRestarts /\ restarts' = restarts + 1
  /\ guard' = {} /\ conn' = [c \in Conns |-> Idle]
  /\ told' = [s \in Signals |-> IF told[s] = "waiting" THEN "not delivered" ELSE told[s]]
  /\ before' = surfaced
  /\ UNCHANGED <<now, active, issued, surfaced>>

SignalNext ==
  \/ \E s \in Signals, c \in Conns : Send(s, c) \/ ArrivesAgain(s, c)
  \/ \E s \in Signals : DialFails(s)
  \/ \E c \in Conns : Refuses(c) \/ CheckAndRemember(c) \/ ConnEnds(c)
  \/ \E c \in Conns, yes \in BOOLEAN : Accepts(c, yes) \/ AckArrives(c, yes)
  \/ Tick \/ Blocked \/ ReceiverRestarts

SignalSpec == SignalInit /\ [][SignalNext]_signalVars

SignalTypeOK ==
  /\ now \in 0 .. MaxNow
  /\ told \in [Signals -> {"nothing", "waiting", "delivered", "not delivered"}]
  /\ Cardinality(guard) <= Capacity
  /\ \A d, e \in guard : d.tag = e.tag => d = e

(* However the two clocks differ and however often its bytes arrive, a     *)
(* running receiver shows a signal a bounded number of times: it is fresh  *)
(* from MaxAge before to MaxAge after its date, may be read SlowRead later *)
(* than that was checked, and is remembered for MaxAge each time. With     *)
(* reads no slower than that: twice.                                       *)
ShowingsBounded ==
  \A s \in Signals :
    (surfaced[s] - before[s] - 1) * (MaxAge + 1) <= 2 * MaxAge + SlowRead

(* "a replay older than max_age_ms is already rejected by verify_signed's  *)
(* freshness check, so an entry can be swept once it's that stale"         *)
(* (ras-signal lib.rs:309-311): once. Violated by a sender whose clock is  *)
(* ahead, or a read that takes long: the tag is gone while the bytes are   *)
(* still fresh.                                                            *)
SurfacedOnce == \A s \in Signals : surfaced[s] - before[s] <= 1

(* Once, ever: a restart forgets the tags.                                 *)
SurfacedOnceEver == \A s \in Signals : surfaced[s] <= 1

(* The sender is never told of a success that was none (main.rs:975). The  *)
(* acknowledgement goes out before the guard is asked: a full guard drops  *)
(* an acknowledged signal.                                                 *)
DeliveredIsShown ==
  \A s \in Signals : told[s] = "delivered" =>
    surfaced[s] > 0 \/ \E c \in Conns : conn[c].at = "acked" /\ conn[c].of = s

(* Nor of a failure that was none: a lost acknowledgement is one.          *)
NotDeliveredIsUnseen == \A s \in Signals : told[s] = "not delivered" => surfaced[s] = 0
=============================================================================
