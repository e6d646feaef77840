------------------------------ MODULE MCSessions ------------------------------
(***************************************************************************)
(* A session from start to end, seen from both of its tasks, the share loop *)
(* that serves one session after another, and the events of a session on    *)
(* their way to a window.  The loop knows a session by how it starts and    *)
(* returns only, a window by its events only, so a behaviour is a behaviour *)
(* of one of the three, chosen at the start, while the others stay in their *)
(* initial states.                                                          *)
(***************************************************************************)
EXTENDS SessionLifecycle, ShareLoop, EventFeed

VARIABLE part
Parts == {"session", "share", "events"}

sessionVars == <<part, vars, shareVars, feedVars>>

SessionsInit ==
  /\ part \in Parts
  /\ Init /\ ShareInit /\ FeedInit
  /\ part # "events" => who = "viewer"

(* Viewers are alike: that the first comes first loses no behaviour.        *)
InOrder == \A v, w \in Viewers : v < w /\ viewer[w] # "idle" => viewer[v] # "idle"

Session(step) == part = "session" /\ step /\ UNCHANGED <<part, shareVars, feedVars>>
Share(step) == part = "share" /\ step /\ InOrder' /\ UNCHANGED <<part, vars, feedVars>>
Events(step) == part = "events" /\ step /\ UNCHANGED <<part, vars, shareVars>>

(* The fairness of all; a step is in question in its own part only.         *)
SessionsFairness ==
  /\ WF_sessionVars(Session(HostSteps) \/ Share(OwnSteps))
  /\ WF_sessionVars(Session(StopSteps) \/ Share(StopCancels))
  /\ WF_sessionVars(Session(HostReserveFails))
  /\ WF_sessionVars(Session(CtlSteps))
  /\ WF_sessionVars(Session(CtlRedialFails) \/ Events(ReaderSteps))
  /\ WF_sessionVars(Session(LeaverSteps))

SessionsNext == Session(Next) \/ Share(ShareNext) \/ Events(FeedNext)
SessionsSpec == SessionsInit /\ [][SessionsNext]_sessionVars /\ SessionsFairness

(* An end is reported once by who ended, and never silently; and what the   *)
(* window shows of a session is what it was last told of it.                *)
EndIsShown == EndIsTold /\ WindowTellsWhatIs

(* Whoever ends something ends all of it: the host's stop ends the          *)
(* controller's session, a controller that is gone ends the host's, a share *)
(* that was stopped ends unless its loop waits for a silent viewer, and who *)
(* reads a session's events stops reading when it is over.                  *)
EndsReachAll == StopEndsController /\ LeaveEndsHost /\ StopEnds /\ EveryReaderEnds
===============================================================================
