---------------------------- MODULE VideoSource ----------------------------
(***************************************************************************)
(* The receiving end of the video plane, VideoSource of ras-transport-iroh:*)
(* per-frame streams are read concurrently, finish in any order and are    *)
(* handed out by ascending frame id; a missing id is reported as dropped   *)
(* once its grace window has elapsed.  A source is a record, and this      *)
(* module says what each turn of recv() makes of it; VideoPath decides     *)
(* when.                                                                   *)
(*   conn       connection it reads; 0 when there is no source             *)
(*   expected   next_expected, NoBase before the first frame               *)
(*   read       frames whose stream task has finished and is not joined    *)
(*   completed  frames joined and held back, in no order                   *)
(*   pending    the frame behind a gap that was just reported (at most one)*)
(*   watch      a grace deadline is running                                *)
(***************************************************************************)
EXTENDS Integers, FiniteSets

NoBase == -1

NoSource ==
  [conn |-> 0, expected |-> NoBase, read |-> {}, completed |-> {},
   pending |-> {}, watch |-> FALSE]

\* new: nothing is known of the stream yet.
FreshSource(c) == [NoSource EXCEPT !.conn = c]

Lowest(frames) == CHOOSE f \in frames : \A g \in frames : f.id <= g.id

\* The frames recv hands out without waiting: the stashed one, else the
\* lowest held one when it is the expected one or the first of all.
Ready(s) ==
  IF s.pending # {} THEN s.pending
  ELSE {f \in s.completed : /\ f = Lowest(s.completed)
                            /\ s.expected \in {NoBase, f.id}}

\* Handing f out.  Only a frame taken from the map cancels the watch.
Deliver(s, f) ==
  [s EXCEPT !.expected = f.id + 1,
            !.pending = {},
            !.completed = @ \ {f},
            !.watch = IF s.pending # {} THEN @ ELSE FALSE]

\* A stream task has read its frame to the end.
Finish(s, f) == [s EXCEPT !.read = @ \cup {f}]

\* join_next returns f: behind the watermark it is dropped, ahead of it it is
\* held and a watch starts unless one is running already.
Join(s, f) ==
  [s EXCEPT !.read = @ \ {f},
            !.completed = IF f.id < s.expected THEN @ ELSE {g \in @ : g.id # f.id} \cup {f},
            !.watch = @ \/ (s.expected # NoBase /\ f.id > s.expected)]

\* The deadline elapsed with the expected frame still missing: the lowest held
\* frame is stashed behind the report.
ElapseGap(s) ==
  [s EXCEPT !.watch = FALSE,
            !.completed = @ \ {Lowest(s.completed)},
            !.pending = {Lowest(s.completed)}]

\* recv waits: nothing can be handed out.
Waiting(s) == s.conn # 0 /\ Ready(s) = {}

\* A frame is held back while an earlier one is missing.
Gap(s) == Waiting(s) /\ s.completed # {}
=============================================================================
