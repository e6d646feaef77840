------------------------------ MODULE HostControl ------------------------------
(***************************************************************************)
(* The host's input path across its threads (crates/ras-core, session.rs):  *)
(* the control task that runs host_control_loop, the stats task that sweeps *)
(* expired leases, the consent prompt, and the threads that call stop or    *)
(* emergency_stop.  They share the stop flag, the lease manager (one lock)  *)
(* and the OS input sink (another lock).  A step is one critical section.   *)
(***************************************************************************)
EXTENDS LeaseManager

CONSTANTS
  Keys,     \* keys and buttons the sink can hold down
  Stoppers  \* threads that call stop or emergency_stop

VARIABLES
  stop,      \* the shared stop flag
  held,      \* keys down at the OS: [key, lease it was pressed under]
  ctl,       \* where the control task is
  work,      \* the envelope, or the consent, the control task is working on
  prompt,    \* the control-consent prompt running off the loop
  allowed,   \* history: prompts the local user answered with Allow
  stats,     \* where the stats task is
  stopper,   \* where each stopping thread is
  bye,       \* a Bye is queued for the control task
  aborting   \* the control task's handle was aborted

hostVars == <<stop, held, ctl, work, prompt, allowed, stats, stopper, bye, aborting>>
allVars == <<vars, hostVars>>
leaseVars == vars

NoWork == [lease |-> 0]
NoPrompt == [state |-> "none"]

(* Where the control task is between a consent and the end of its handling. *)
Finishing == { "finish", "replace", "revokeOld", "flushOld", "issue" }

(* The stopper that won the swap, once its flush of the sink is done.       *)
Flushed == { "bye", "join", "done" }

HostInit ==
  /\ Init
  /\ stop = FALSE /\ held = {} /\ ctl = "loop" /\ work = NoWork
  /\ prompt = NoPrompt /\ allowed = 0 /\ stats = "idle"
  /\ stopper = [s \in Stoppers |-> "idle"] /\ bye = FALSE /\ aborting = FALSE

-------------------------------------------------------------------------------
(* The control task: host_control_loop.  "loop" is its select!, the only    *)
(* place besides "reserve" where it awaits and an abort takes effect.       *)

(* A ControlRequest that passes host_precheck_control_request opens the     *)
(* prompt; with one pending, or when stopping, it is refused.               *)
ReceiveControlRequest(requested) ==
  /\ ctl = "loop"
  /\ prompt = NoPrompt
  /\ ~stop
  /\ issued < MaxLeases   \* bound
  /\ prompt' = [state |-> "open", requested |-> requested]
  /\ UNCHANGED <<leaseVars, stop, held, ctl, work, allowed, stats, stopper, bye, aborting>>

UserAnswers(consented) ==
  /\ prompt.state = "open"
  /\ prompt' = [ state |-> "answered", requested |-> prompt.requested,
                 consented |-> consented ]
  /\ allowed' = IF consented = {} THEN allowed ELSE allowed + 1
  /\ UNCHANGED <<leaseVars, stop, held, ctl, work, stats, stopper, bye, aborting>>

ConsentResolved_DenialIgnored ==   \* mutant: an empty consent is not refused
  /\ ctl = "loop"
  /\ prompt.state = "answered"
  /\ prompt' = NoPrompt
  /\ ctl' = "finish"
  /\ work' = [requested |-> prompt.requested, consented |-> prompt.consented]
  /\ UNCHANGED <<leaseVars, stop, held, allowed, stats, stopper, bye, aborting>>

(* The consent result reaches the loop: an empty consent is a denial.       *)
ConsentResolved ==
  /\ ctl = "loop"
  /\ prompt.state = "answered"
  /\ prompt' = NoPrompt
  /\ IF prompt.consented = {}
       THEN UNCHANGED <<ctl, work>>
       ELSE /\ ctl' = "finish"
            /\ work' = [requested |-> prompt.requested, consented |-> prompt.consented]
  /\ UNCHANGED <<leaseVars, stop, held, allowed, stats, stopper, bye, aborting>>

Goto(from, to) == ctl = from /\ ctl' = to

CtlUnchanged == UNCHANGED <<stop, work, prompt, allowed, stats, stopper, bye, aborting>>

(* host_finish_control_request: the stop flag, then the lease lock to see   *)
(* whether a lease is replaced, then release_input, then issue.             *)
FinishChecksStop ==
  /\ Goto("finish", IF stop THEN "loop" ELSE "replace")
  /\ CtlUnchanged /\ UNCHANGED <<leaseVars, held>>

FinishChecksReplacing ==
  /\ Goto("replace", IF active # NoLease THEN "revokeOld" ELSE "issue")
  /\ CtlUnchanged /\ UNCHANGED <<leaseVars, held>>

FinishRevokesOld == Goto("revokeOld", "flushOld") /\ RevokeAll /\ CtlUnchanged /\ UNCHANGED held

FinishFlushesOld ==
  /\ Goto("flushOld", "issue")
  /\ held' = {}
  /\ CtlUnchanged /\ UNCHANGED leaseVars

FinishIssues(ttl) ==
  /\ Goto("issue", "loop")
  /\ Issue(work.requested, work.consented, ttl)
  /\ work' = NoWork
  /\ UNCHANGED <<stop, held, prompt, allowed, stats, stopper, bye, aborting>>

(* host_handle_input: the gate under the lease lock, then the stop flag and *)
(* the OS call under the sink lock.  A refused envelope changes nothing.    *)
ReceiveInput(env) ==
  /\ Goto("loop", "dispatch")
  /\ AuthorizeInput(env)
  /\ work' = [lease |-> env.leaseId, action |-> env.action]
  /\ UNCHANGED <<stop, held, prompt, allowed, stats, stopper, bye, aborting>>

(* What ras_control::dispatch leaves held at the OS.                        *)
HeldAfter(action, key, down) ==
  CASE action \in {"KeyEvent", "PointerButton"} /\ down ->
         held \cup {[key |-> key, lease |-> work.lease]}
    [] action \in {"KeyEvent", "PointerButton"} /\ ~down ->
         { h \in held : h.key # key }
    [] action = "ReleaseAllKeys" -> {}
    [] OTHER -> held

DispatchInput_StopNotRechecked(key, down) ==   \* mutant of DispatchInput
  /\ Goto("dispatch", "loop")
  /\ held' = HeldAfter(work.action, key, down)
  /\ work' = NoWork
  /\ UNCHANGED <<leaseVars, stop, prompt, allowed, stats, stopper, bye, aborting>>

DispatchInput(key, down) ==
  /\ Goto("dispatch", "loop")
  /\ held' = IF stop THEN held ELSE HeldAfter(work.action, key, down)
  /\ work' = NoWork
  /\ UNCHANGED <<leaseVars, stop, prompt, allowed, stats, stopper, bye, aborting>>

(* A Bye of the controller claims the stop flag and ends the loop.          *)
PeerBye ==
  /\ Goto("loop", "exit")
  /\ stop' = TRUE
  /\ UNCHANGED <<leaseVars, held, work, prompt, allowed, stats, stopper, bye, aborting>>

(* Our own Bye was asked for, or a send to the controller failed.           *)
LoopBreaks ==
  /\ Goto("loop", "exit")
  /\ CtlUnchanged /\ UNCHANGED <<leaseVars, held>>

(* recv failed: the lease and the prompt survive a successful re-serve.     *)
TransportLost ==
  /\ Goto("loop", IF stop THEN "exit" ELSE "reserve")
  /\ CtlUnchanged /\ UNCHANGED <<leaseVars, held>>

ReserveSucceeds ==
  /\ Goto("reserve", IF stop THEN "exit" ELSE "loop")
  /\ CtlUnchanged /\ UNCHANGED <<leaseVars, held>>

ReserveFails ==
  /\ Goto("reserve", "exit")
  /\ stop' = TRUE
  /\ UNCHANGED <<leaseVars, held, work, prompt, allowed, stats, stopper, bye, aborting>>

(* The finalizer of the control task: flush_input_sink on every loop exit.  *)
FinalFlush_Skipped ==   \* mutant of FinalFlush
  /\ Goto("exit", "gone")
  /\ UNCHANGED held
  /\ CtlUnchanged /\ UNCHANGED leaseVars

FinalFlush ==
  /\ Goto("exit", "gone")
  /\ held' = {}
  /\ CtlUnchanged /\ UNCHANGED leaseVars

(* An aborted task dies at an await, without its finalizer.                 *)
ControlTaskAborted ==
  /\ aborting
  /\ ctl \in {"loop", "reserve"}
  /\ ctl' = "gone"
  /\ CtlUnchanged /\ UNCHANGED <<leaseVars, held>>

-------------------------------------------------------------------------------
(* The stats task: host_stats_loop with sweep_expired_lease.                *)
StatsUnchanged == UNCHANGED <<stop, ctl, work, prompt, allowed, stopper, bye, aborting>>

StatsTick ==
  /\ stats = "idle" /\ ~stop
  /\ stats' = "sweep"
  /\ StatsUnchanged /\ UNCHANGED <<leaseVars, held>>

SweepLease ==
  /\ stats = "sweep"
  /\ IF Expired THEN RevokeIfExpired /\ stats' = "flush"
                ELSE stats' = "idle" /\ UNCHANGED leaseVars
  /\ StatsUnchanged /\ UNCHANGED held

SweepFlush_Skipped ==   \* mutant of SweepFlush
  /\ stats = "flush" /\ stats' = "idle"
  /\ UNCHANGED held
  /\ StatsUnchanged /\ UNCHANGED leaseVars

SweepFlush ==
  /\ stats = "flush" /\ stats' = "idle"
  /\ held' = {}
  /\ StatsUnchanged /\ UNCHANGED leaseVars

-------------------------------------------------------------------------------
(* stop and emergency_stop: the first caller wins the swap of the flag, a   *)
(* later one returns at once.                                               *)
Step(s, from, to) == stopper[s] = from /\ stopper' = [stopper EXCEPT ![s] = to]

StopCalled(s) ==
  /\ Step(s, "idle", IF stop THEN "ignored" ELSE "revoke")
  /\ stop' = TRUE
  /\ UNCHANGED <<leaseVars, held, ctl, work, prompt, allowed, stats, bye, aborting>>

StopRevokes(s) ==
  /\ Step(s, "revoke", "flush")
  /\ RevokeAll
  /\ UNCHANGED <<stop, held, ctl, work, prompt, allowed, stats, bye, aborting>>

StopFlushes(s) ==
  /\ Step(s, "flush", "bye")
  /\ held' = {}
  /\ UNCHANGED <<leaseVars, stop, ctl, work, prompt, allowed, stats, bye, aborting>>

StopSendsBye(s) ==
  /\ Step(s, "bye", "join")
  /\ bye' = TRUE
  /\ UNCHANGED <<leaseVars, stop, held, ctl, work, prompt, allowed, stats, aborting>>

(* The bounded wait for the control task: it is gone, or it is aborted.     *)
StopJoins(s) ==
  /\ Step(s, "join", "done")
  /\ aborting' = (ctl # "gone")
  /\ UNCHANGED <<leaseVars, stop, held, ctl, work, prompt, allowed, stats, bye>>

ClockTicks == ClockChanges /\ UNCHANGED hostVars

-------------------------------------------------------------------------------
ControlTask ==
  \/ ConsentResolved
  \/ FinishChecksStop \/ FinishChecksReplacing \/ FinishRevokesOld
  \/ FinishFlushesOld \/ \E ttl \in Ttls : FinishIssues(ttl)
  \/ \E key \in Keys, down \in BOOLEAN : DispatchInput(key, down)
  \/ ReserveSucceeds \/ ReserveFails \/ FinalFlush \/ ControlTaskAborted

StatsTask == StatsTick \/ SweepLease \/ SweepFlush

StopThread(s) ==
  StopCalled(s) \/ StopRevokes(s) \/ StopFlushes(s) \/ StopSendsBye(s) \/ StopJoins(s)

(* What the peer, the network and the local user may do.                    *)
Environment ==
  \/ \E requested \in Requests : ReceiveControlRequest(requested)
  \/ \E consented \in Consents : UserAnswers(consented)
  \/ \E env \in Envelope : ReceiveInput(env)
  \/ PeerBye \/ LoopBreaks \/ TransportLost
  \/ ClockTicks

HostNext ==
  \/ ControlTask
  \/ StatsTask
  \/ \E s \in Stoppers : StopThread(s)
  \/ Environment

(* Every task that has a step left is scheduled.  Nobody has to call stop,  *)
(* and neither the peer nor the user has to act.                            *)
Fairness ==
  /\ WF_allVars(ControlTask)
  /\ \A s \in Stoppers :
       WF_allVars(StopRevokes(s) \/ StopFlushes(s) \/ StopSendsBye(s) \/ StopJoins(s))

HostSpec == HostInit /\ [][HostNext]_allVars /\ Fairness

-------------------------------------------------------------------------------
(* Types of the host's shared state.                                        *)
HostTypeOK ==
  /\ TypeOK
  /\ stop \in BOOLEAN /\ bye \in BOOLEAN /\ aborting \in BOOLEAN
  /\ held \subseteq [key : Keys, lease : LeaseIds]
  /\ ctl \in { "loop", "dispatch", "reserve", "exit", "gone" } \cup Finishing
  /\ prompt.state \in { "none", "open", "answered" }
  /\ stats \in { "idle", "sweep", "flush" }
  /\ allowed \in Nat
  /\ stopper \in [Stoppers -> {"idle", "revoke", "flush", "ignored"} \cup Flushed]

(* The stop overrides input in flight: once the flush of the stop that won  *)
(* the flag is done, or the control task has ended in whatever way, no key  *)
(* is down at the OS, whichever input was authorised before.                *)
KeysReleasedAtEnd ==
  (ctl = "gone" \/ \E s \in Stoppers : stopper[s] \in Flushed) => held = {}

(* sweep_expired_lease lets at most the one input in flight stick: a lease  *)
(* that has ended leaves at most one key down, unless a flush is on its way.*)
ResidualBounded ==
  /\ stats # "flush" /\ ctl \notin {"flushOld", "exit"}
  /\ \A s \in Stoppers : stopper[s] # "flush"
  => \A h, k \in held : h.lease = k.lease /\ h.lease # active.id => h = k

(* Every lease answers an Allow of the local user of its own: a denial, a   *)
(* second request or a reconnect never yields one.                          *)
OneLeasePerConsent ==
  issued + (IF ctl \in Finishing THEN 1 ELSE 0) <= allowed

(* Whoever sets the stop flag, peer, network or local user, every key is    *)
(* eventually released for good.                                            *)
KeysReleased == stop ~> [](held = {})

(* host_finish_control_request flushes the old holder's keys "so no         *)
(* key/modifier crosses the lease boundary": while the session runs and no  *)
(* sweep is on its way, every key down was pressed under the live lease.    *)
NoKeyCrossesLease ==
  active # NoLease /\ ~stop /\ stats # "flush" => \A h \in held : h.lease = active.id

(* The stop check after the consent: issue must not "resurrect a lease      *)
(* after revoke_all had already cleared it".                                *)
NoLeaseResurrected ==
  (\E s \in Stoppers : stopper[s] \in {"flush"} \cup Flushed) => active = NoLease

===============================================================================
