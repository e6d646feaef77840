--------------------------- MODULE SingleController ---------------------------
(***************************************************************************)
(* What the control lease promises the local user, with no word of lease    *)
(* ids, generations or clocks: control is a sequence of tenures, at most    *)
(* one is open, only the open one injects input, a closed one never again,  *)
(* and within a tenure no input is injected twice or out of order.          *)
(***************************************************************************)
EXTENDS Naturals, Sequences

CONSTANTS
  Tenures,   \* bound: tenures begun in one behaviour
  Seqs       \* sequence numbers an input may carry

VARIABLES
  tenure,   \* the open tenure, 0 when nobody has control
  begun,    \* tenures begun so far
  log       \* inputs injected: [tenure |-> t, seq |-> s]

avars == <<tenure, begun, log>>

Init == tenure = 0 /\ begun = 0 /\ log = <<>>

Begin ==
  /\ begun < Tenures
  /\ begun' = begun + 1
  /\ tenure' = begun + 1
  /\ UNCHANGED log

End == tenure' = 0 /\ UNCHANGED <<begun, log>>

Inject(seq) ==
  /\ tenure # 0
  /\ \A i \in DOMAIN log : log[i].tenure = tenure => log[i].seq < seq
  /\ log' = Append(log, [tenure |-> tenure, seq |-> seq])
  /\ UNCHANGED <<tenure, begun>>

Next == Begin \/ End \/ \E seq \in Seqs : Inject(seq)

Spec == Init /\ [][Next]_avars

===============================================================================
