------------------------------ MODULE HostScreen ------------------------------
(***************************************************************************)
(* What the user of the sharing machine is shown and asked: the prompts of *)
(* LocalConsent (app/src-tauri main.rs), which wait for an answer for 90   *)
(* seconds, the dialogs of the page that show them (app/ui main.js or the  *)
(* shipped shell.js), the main window, which is minimized while a viewer   *)
(* watches, and the badge of the overlay window (overlay.js).              *)
(*                                                                         *)
(* A prompt for access runs in the share loop; those for control and for a *)
(* file run beside the session that asked and outlive it.  Events reach    *)
(* the pages later and in order, and so do the answers the program.        *)
(***************************************************************************)
EXTENDS Naturals, Sequences

CONSTANTS
  Pages,      \* which page the main window may be: "main", "shell"
  Prompts,    \* bound: prompts that may be open at once
  MaxEvents   \* bound: events that the windows have not handled

ASSUME PromptAssumption == Pages \subseteq {"main", "shell"} /\ Prompts \subseteq Nat \ {0} /\ MaxEvents \in Nat

VARIABLES
  page,       \* the page in the main window
  asks,       \* each prompt: for what, of the viewer of "now" or one "gone", and where
  pending,    \* the three slots of LocalConsent: the prompt that an answer reaches
  serving,    \* is a viewer served, and does it hold the control lease?
  share,      \* "on", "stopping" or "off"
  events,     \* emitted to the windows and not handled
  display,    \* [dialogs, open, sharing] of the page
  badge,      \* viewing and controlling, of the overlay
  screen,     \* the main window: "up" or "minimized"
  answers     \* on their way from the page to the program

promptingVars == <<page, asks, pending, serving, share, events, display, badge, screen, answers>>
promptVars == <<asks, pending, serving, share>>
windowVars == <<display, badge, answers>>

Kinds == {"access", "control", "file"}
Free == [kind |-> "none", of |-> "now", at |-> "free", answer |-> "none", cut |-> FALSE]
Active(a) == \/ asks[a].at \in {"waiting", "cleared"}
             \/ asks[a].at = "closed" /\ asks[a].kind # "access"
Says(what) == Len(events) < MaxEvents /\ events' = Append(events, what)

-----------------------------------------------------------------------------
(* The slots.                                                               *)

Waiting(a) == asks[a].at = "waiting" /\ asks[a].answer = "none"

(* A sender that is dropped leaves its prompt without an answer: to one of  *)
(* another viewer, or of its own.                                           *)
Dropped(k, of) ==
  [a \in Prompts |->
     IF a # pending[k] \/ ~Waiting(a) THEN asks[a]
     ELSE [asks[a] EXCEPT !.answer = IF of = "now" /\ asks[a].of = "now" THEN "preempted" ELSE "dropped"]]

(* The sender is taken out and used; a prompt that timed out hears nothing. *)
(* It counts as allowed by mistake if the click was on another's dialog.    *)
Allowed == {"allow", "mistake"}
respond(k, allow, seen) ==
  /\ asks' = [a \in Prompts |->
       IF a # pending[k] \/ ~Waiting(a) THEN asks[a]
       ELSE [asks[a] EXCEPT !.answer = IF ~allow THEN "deny" ELSE IF seen = a THEN "allow" ELSE "mistake"]]
  /\ pending' = [pending EXCEPT ![k] = 0]

CutOff(kinds) ==
  /\ asks' = [a \in Prompts |-> IF ~Waiting(a) THEN asks[a]
               ELSE IF a \in {pending[k] : k \in kinds} THEN [asks[a] EXCEPT !.answer = "deny"]
               ELSE [asks[a] EXCEPT !.cut = TRUE]]
  /\ pending' = [k \in Kinds |-> IF k \in kinds THEN 0 ELSE pending[k]]
cancel_all_ButFile == CutOff({"access", "control"})   \* mutant of cancel_all
cancel_all == CutOff(Kinds)

-----------------------------------------------------------------------------
(* The prompts.                                                             *)

(* One viewer at a time is asked for access; a session has one prompt for   *)
(* control and one for a file at a time.                                    *)
Alone(k) ==
  \A a \in Prompts : Active(a) /\ asks[a].kind = k => k # "access" /\ asks[a].of = "gone"
MayAsk(k) == IF k = "access" THEN ~serving.viewer /\ share # "off" ELSE serving.viewer
NextAsk(a) == asks[a].at = "free" /\ \A b \in 1 .. a - 1 : asks[b].at # "free"

promptUser(a, k) ==
  /\ NextAsk(a) /\ MayAsk(k) /\ Alone(k)
  /\ asks' = [Dropped(k, "now") EXCEPT ![a] = [Free EXCEPT !.kind = k, !.at = "waiting"]]
  /\ pending' = [pending EXCEPT ![k] = a]
  /\ Says([is |-> "request", kind |-> k, ask |-> a])
  /\ screen' = "up"                                  \* alert_user
  /\ UNCHANGED <<page, serving, share, windowVars>>

(* A second request for control ends "the lease" for the windows.           *)
RefusedAtOnce ==
  /\ serving.viewer /\ ~Alone("control")
  /\ Says([is |-> "control", on |-> FALSE])
  /\ UNCHANGED <<page, promptVars, windowVars, screen>>

Returns(a) == asks[a].at = "closed" /\ asks' = [asks EXCEPT ![a] = Free]

(* The prompt has its answer, or none in 90 seconds, and empties the slot,  *)
(* whosever it is by now.                                                   *)
Resolves(a) ==
  /\ asks[a].at = "waiting"
  /\ asks' = [Dropped(asks[a].kind, asks[a].of) EXCEPT
                ![a] = [asks[a] EXCEPT !.at = "cleared", !.answer = IF @ = "none" THEN "deny" ELSE @]]
  /\ pending' = [pending EXCEPT ![asks[a].kind] = 0]
  /\ UNCHANGED <<page, serving, share, events, windowVars, screen>>

(* Only the share loop, and the session that asked for control, still wait  *)
(* for the outcome; a file is told of by the session.                       *)
Awaited(a) == \/ asks[a].kind = "access" /\ asks[a].answer \in Allowed
              \/ asks[a].kind = "control" /\ asks[a].of = "now"
Close(a) == /\ asks[a].at = "cleared"
            /\ asks' = [asks EXCEPT ![a] = IF Awaited(a) THEN [@ EXCEPT !.at = "closed"] ELSE Free]
            /\ UNCHANGED <<page, pending, serving, share, windowVars, screen>>

Closes_Denied(a) ==   \* mutant of Closes: what was allowed is not closed
  Close(a) /\ IF asks[a].answer \in Allowed THEN UNCHANGED events ELSE Says([is |-> "closed", kind |-> asks[a].kind])
Closes(a) == Close(a) /\ Says([is |-> "closed", kind |-> asks[a].kind])

-----------------------------------------------------------------------------
(* What becomes of the answers.                                             *)

(* serve_one: the viewer that was allowed arrives.                          *)
Serves(a) ==
  /\ asks[a].kind = "access" /\ asks[a].answer \in Allowed /\ Returns(a)
  /\ ~serving.viewer /\ share = "on"
  /\ serving' = [viewer |-> TRUE, control |-> FALSE]
  /\ Says([is |-> "viewer", on |-> TRUE]) /\ screen' = "minimized"
  /\ UNCHANGED <<page, pending, share, windowVars>>

(* The control task of the session that asked hears the consent.            *)
Leases(a) ==
  /\ asks[a].kind = "control" /\ Returns(a)
  /\ IF asks[a].answer \in Allowed THEN serving' = [serving EXCEPT !.control = TRUE]
                                 ELSE UNCHANGED serving
  /\ Says([is |-> "control", on |-> asks[a].answer \in Allowed])
  /\ UNCHANGED <<page, pending, share, windowVars, screen>>

(* The viewer that was allowed does not come.                               *)
StaysAway(a) ==
  /\ asks[a].kind = "access" /\ Returns(a)
  /\ UNCHANGED <<page, pending, serving, share, events, windowVars, screen>>

(* The lease ends by its time, which no window is told.                     *)
LeaseExpires ==
  /\ serving.control /\ serving' = [serving EXCEPT !.control = FALSE]
  /\ UNCHANGED <<page, asks, pending, share, events, windowVars, screen>>

Leaves ==
  /\ serving.viewer /\ serving' = [viewer |-> FALSE, control |-> FALSE]
  /\ asks' = [a \in Prompts |->
       IF asks[a].kind \notin {"control", "file"} THEN asks[a]
       ELSE IF asks[a].at = "closed" THEN Free ELSE [asks[a] EXCEPT !.of = "gone"]]
  /\ Says([is |-> "viewer", on |-> FALSE])
  /\ UNCHANGED <<page, pending, share, windowVars, screen>>

trigger_stop_sharing ==
  /\ share = "on" /\ share' = "stopping"
  /\ cancel_all
  /\ UNCHANGED <<page, serving, events, windowVars, screen>>

(* run_share returns: its windows are put back.                             *)
ShareEnds ==
  /\ share = "stopping" /\ ~serving.viewer /\ share' = "off"
  /\ \A a \in Prompts : asks[a].kind = "access" => ~Active(a)
  /\ Says([is |-> "share", on |-> FALSE]) /\ screen' = "up"
  /\ UNCHANGED <<page, asks, pending, serving, windowVars>>

start_sharing ==
  /\ share = "off" /\ share' = "on"
  /\ UNCHANGED <<page, asks, pending, serving, events, windowVars, screen>>

-----------------------------------------------------------------------------
(* The windows.                                                             *)

Shows(k) == page = "main" \/ k = "file"
onRequest(k, a) ==
  IF ~Shows(k) THEN display
  ELSE [display EXCEPT !.dialogs[k] = a, !.open = IF page = "main" THEN @ + 1 ELSE @]

(* Of the main page the dialog of a file stays up, until its own timer.     *)
Hidden(k) == IF page = "main" /\ k = "file" THEN display.dialogs[k] ELSE 0
onConsentClosed(k) ==
  [display EXCEPT !.dialogs[k] = Hidden(k), !.open = IF @ = 0 THEN 0 ELSE @ - 1]

(* The session's end hides what was offered in it.                          *)
setHostLive(live) ==
  IF page = "shell" THEN display
  ELSE [display EXCEPT !.sharing = live, !.dialogs["file"] = IF live THEN @ ELSE 0]

reminimizeMainIfSharing_Always(after) == page = "main" /\ after.sharing   \* mutant
reminimizeMainIfSharing(after) == page = "main" /\ after.sharing /\ after.open = 0

Handles ==
  /\ events # <<>> /\ events' = Tail(events)
  /\ LET e == Head(events) IN
     \/ /\ e.is = "request" /\ display' = onRequest(e.kind, e.ask)
        /\ UNCHANGED <<badge, screen>>
     \/ /\ e.is = "closed" /\ display' = onConsentClosed(e.kind)
        /\ screen' = IF reminimizeMainIfSharing(display') THEN "minimized" ELSE screen
        /\ UNCHANGED badge
     \/ /\ e.is = "viewer" /\ display' = setHostLive(e.on)
        /\ badge' = [badge EXCEPT !.viewing = e.on] /\ UNCHANGED screen
     \/ /\ e.is = "control" /\ badge' = [badge EXCEPT !.controlling = e.on]
        /\ UNCHANGED <<display, screen>>
     \/ /\ e.is = "share" /\ display' = setHostLive(FALSE)
        /\ badge' = [viewing |-> FALSE, controlling |-> FALSE] /\ UNCHANGED screen
  /\ UNCHANGED <<page, promptVars, answers>>

(* Allow, Deny or Escape; the dialog of a file denies after a minute.       *)
respondOffer(k, allow) ==
  /\ display.dialogs[k] # 0 /\ answers = <<>>   \* bound: one answer on its way
  /\ display' = [display EXCEPT !.dialogs[k] = 0]
  /\ answers' = Append(answers, [kind |-> k, seen |-> display.dialogs[k],
                                 allow |-> allow])
  /\ UNCHANGED <<page, promptVars, events, badge, screen>>
Clicks(k, allow) == screen = "up" /\ respondOffer(k, allow)
OfferTimesOut == respondOffer("file", FALSE)

respond_consent ==
  /\ answers # <<>> /\ answers' = Tail(answers)
  /\ LET r == Head(answers) IN respond(r.kind, r.allow, r.seen)
  /\ UNCHANGED <<page, serving, share, events, display, badge, screen>>

show_main_window ==
  /\ serving.viewer /\ screen = "minimized" /\ screen' = "up"
  /\ UNCHANGED <<page, promptVars, events, windowVars>>

-----------------------------------------------------------------------------
ScreenInit ==
  /\ page \in Pages
  /\ asks = [a \in Prompts |-> Free]
  /\ pending = [k \in Kinds |-> 0]
  /\ serving = [viewer |-> FALSE, control |-> FALSE] /\ share = "on"
  /\ events = <<>> /\ answers = <<>>
  /\ display = [dialogs |-> [k \in Kinds |-> 0], open |-> 0, sharing |-> FALSE]
  /\ badge = [viewing |-> FALSE, controlling |-> FALSE] /\ screen = "up"

ScreenNext ==
  \/ \E a \in Prompts : \/ \E k \in Kinds : promptUser(a, k)
                     \/ Resolves(a) \/ Closes(a)
                     \/ Serves(a) \/ Leases(a) \/ StaysAway(a)
  \/ RefusedAtOnce \/ LeaseExpires \/ Leaves \/ trigger_stop_sharing \/ ShareEnds \/ start_sharing
  \/ Handles \/ OfferTimesOut \/ respond_consent \/ show_main_window
  \/ \E k \in Kinds, allow \in BOOLEAN : Clicks(k, allow)

ScreenSpec == ScreenInit /\ [][ScreenNext]_promptingVars

-----------------------------------------------------------------------------
(* A prompt that waits is the one that its slot answers: an answer, or the  *)
(* cancelling of all, finds it, whatever was asked before or since.         *)
WaitingIsPending ==
  \A a \in Prompts : Waiting(a) => pending[asks[a].kind] = a

(* A prompt is left without an answer only by one of another viewer: within *)
(* a session none takes the place of another.                               *)
NotPreempted == \A a \in Prompts : asks[a].answer # "preempted"

(* What a stop found open is not allowed any more: no dialog that is still  *)
(* up, and no click on its way, answers it.                                 *)
CutIsDenied == \A a \in Prompts : ~(asks[a].cut /\ asks[a].answer \in Allowed)

(* When nothing is asked any more nothing asks: no dialog for access or     *)
(* control is up, and none keeps the window in the shared picture.          *)
Quiet == events = <<>> /\ \A a \in Prompts : ~Active(a)
NothingLeftUp ==
  Quiet => /\ display.dialogs["access"] = 0 /\ display.dialogs["control"] = 0 /\ display.open = 0
           /\ page = "shell" => display.dialogs["file"] = 0

(* A session that is served is marked on the screen, and one that is over   *)
(* is not.                                                                  *)
SessionIsMarked ==
  events = <<>> => /\ serving.viewer => badge.viewing
                   /\ share = "off" => ~badge.viewing /\ ~badge.controlling

(* The page does not slide away a dialog it shows: answering one prompt     *)
(* leaves the other where it can be answered.                               *)
PromptsStayUp ==
  [][Handles /\ screen = "up" /\ screen' = "minimized" =>
       display'.dialogs["access"] = 0 /\ display'.dialogs["control"] = 0]_promptingVars

-----------------------------------------------------------------------------
(* What the code does not keep; the README says of each what goes wrong.    *)

(* "A viewer is asking to see this screen.  Open Casual RAS to Allow or     *)
(* Deny.": when the page has handled all events, what waits is shown.         *)
PendingIsShown ==
  \A a \in Prompts : Waiting(a) /\ events = <<>> /\ answers = <<>>
                  => display.dialogs[asks[a].kind] = a

(* A click answers the request whose dialog was clicked.                    *)
ClickAnswersWhatWasShown == \A a \in Prompts : asks[a].answer # "mistake"

(* A request is denied by the user, by silence or by a stop.                *)
DeniedBySomeone == \A a \in Prompts : asks[a].answer # "dropped"

(* "The sharer's indicator reflects whether the viewer currently has OS     *)
(* control."                                                                *)
ControlIsMarked == events = <<>> => (serving.control => badge.controlling)
MarkedIsControl == events = <<>> => (badge.controlling => serving.control)

(* A dialog that is up can be seen.                                         *)
ShownIsVisible ==
  \A a \in Prompts : asks[a].at = "waiting" /\ display.dialogs[asks[a].kind] = a => screen = "up"
=============================================================================
