------------------------------- MODULE ShareLoop -------------------------------
(***************************************************************************)
(* The share loop of the desktop application (app/src-tauri/src/main.rs):   *)
(* start_sharing, run_share, handle_bootstrap, the access prompt, serve_one *)
(* and stop_sharing, with the viewers that dial in (connect_to_host).       *)
(*                                                                          *)
(* Each share runs in a task of its own, one at a time under run_lock.  A   *)
(* viewer first asks over a bootstrap connection; the grant travels back    *)
(* over it for as long as the host holds it; then the viewer dials a        *)
(* session with that grant.                                                 *)
(***************************************************************************)
EXTENDS Integers, Sequences, SequencesExt

CONSTANTS
  Viewers,     \* connection attempts, each from an endpoint of its own
  Starters,    \* calls of start_sharing that may be under way at once
  Nobody,
  MaxShares,   \* bound: shares started
  MaxOthers,   \* bound: signal, gossip and call connections that arrive
  MaxLosses    \* bound: session connections lost

ASSUME ShareAssumption ==
  /\ Nobody \notin Viewers
  /\ MaxShares \in Nat \ {0} /\ MaxOthers \in Nat /\ MaxLosses \in Nat

VARIABLES
  slot,        \* ShareState.session: the share it is for, 0 for None
  handle,      \* its host: the viewer whose session chat is sent to
  starter,     \* where each start_sharing is
  stopSent,    \* shares whose stop watch is true
  stopping,    \* is a trigger_stop_sharing between its two halves?
  waiting,     \* tasks queued on run_lock
  running,     \* the share whose task holds run_lock, 0 for none
  pc, peer,    \* where that task is, and with whom
  prompt,      \* the access prompt: LocalConsent.pending and its channel
  held,        \* pending_bootstrap: whose grant is being delivered
  codec,       \* whose codec preferences the served session encodes for
  inbox,       \* connections the endpoint has not accepted yet
  viewer,      \* where each viewer is
  grantLink,   \* each viewer's bootstrap connection
  allowed,     \* history: the share in which each viewer was allowed
  started, others, losses

loopVars == <<running, pc, peer, held, codec>>
userVars == <<slot, starter, stopSent, stopping, waiting, started>>
viewerVars == <<viewer, grantLink, allowed>>
shareVars == <<loopVars, userVars, viewerVars, handle, prompt, inbox, others, losses>>

-------------------------------------------------------------------------------
Shares == 1 .. MaxShares
Told == running \in stopSent          \* what *stop.borrow() reads
SenderGone == running # slot          \* stop.changed() no longer waits

Conn == [from : Viewers \cup {Nobody}, alpn : {"bootstrap", "session", "other"}]
Dial(v, alpn) == inbox' = Append(inbox, [from |-> v, alpn |-> alpn])
Incoming(alpn) == inbox # <<>> /\ Head(inbox).alpn = alpn

(* Dropping the held connection discards a grant that is still on its way.  *)
Dropped(l) == IF held # Nobody /\ l[held] = "granting"
                THEN [l EXCEPT ![held] = "lost"] ELSE l

ShareInit ==
  /\ slot = 1 /\ handle = Nobody /\ started = 1       \* shared at startup
  /\ starter = [a \in Starters |-> "idle"]
  /\ stopSent = {} /\ stopping = FALSE
  /\ waiting = <<1>> /\ running = 0 /\ pc = "off" /\ peer = Nobody
  /\ prompt = "none" /\ held = Nobody /\ codec = Nobody /\ inbox = <<>>
  /\ viewer = [v \in Viewers |-> "idle"] /\ grantLink = [v \in Viewers |-> "none"]
  /\ allowed = [v \in Viewers |-> 0] /\ others = 0 /\ losses = 0

-------------------------------------------------------------------------------
(* The local user.                                                          *)

(* start_sharing looks at the slot and fills it under two lock calls.       *)
StartChecks(a) ==
  /\ starter[a] = "idle" /\ slot = 0
  /\ starter' = [starter EXCEPT ![a] = "start"]
  /\ UNCHANGED <<loopVars, viewerVars, slot, stopSent, stopping, waiting, started,
                 handle, prompt, inbox, others, losses>>

StartSets(a) ==
  /\ starter[a] = "start" /\ started < MaxShares
  /\ starter' = [starter EXCEPT ![a] = "idle"]
  /\ started' = started + 1 /\ slot' = started' /\ handle' = Nobody
  /\ waiting' = Append(waiting, started')
  /\ UNCHANGED <<loopVars, viewerVars, stopSent, stopping, prompt, inbox, others, losses>>

(* respond_consent.                                                         *)
Respond(answer) ==
  /\ prompt = "open"
  /\ prompt' = answer
  /\ UNCHANGED <<loopVars, userVars, viewerVars, handle, inbox, others, losses>>

(* trigger_stop_sharing: first the slot, then cancel_all.                   *)
StopTakes ==
  /\ ~stopping /\ slot # 0
  /\ stopSent' = stopSent \cup {slot}
  /\ slot' = 0 /\ handle' = Nobody /\ stopping' = TRUE
  /\ UNCHANGED <<loopVars, viewerVars, starter, waiting, started, prompt, inbox, others, losses>>

StopCancels ==
  /\ stopping
  /\ stopping' = FALSE
  /\ prompt' = IF prompt = "open" THEN "deny" ELSE prompt
  /\ UNCHANGED <<loopVars, viewerVars, slot, starter, stopSent, waiting, started,
                 handle, inbox, others, losses>>

User == \/ \E a \in Starters : StartChecks(a) \/ StartSets(a)
        \/ \E answer \in {"allow", "deny"} : Respond(answer)
        \/ StopTakes \/ StopCancels

-------------------------------------------------------------------------------
(* The task that holds run_lock.                                            *)

ShareEnds ==
  /\ running' = 0 /\ pc' = "off" /\ peer' = Nobody
  /\ held' = Nobody /\ grantLink' = Dropped(grantLink)
  /\ UNCHANGED <<codec, userVars, viewer, allowed, handle, prompt, inbox, others, losses>>

TakesLock ==
  /\ running = 0 /\ waiting # <<>>
  /\ running' = Head(waiting) /\ waiting' = Tail(waiting) /\ pc' = "online"
  /\ UNCHANGED <<peer, held, codec, slot, starter, stopSent, stopping, started,
                 viewerVars, handle, prompt, inbox, others, losses>>

(* A missing permission or identity ends the share and leaves the slot.     *)
Refused == pc = "online" /\ ShareEnds

OnlineStops == pc = "online" /\ SenderGone /\ ShareEnds

Online ==
  /\ pc = "online" /\ pc' = "top"
  /\ UNCHANGED <<running, peer, held, codec, userVars, viewerVars, handle, prompt,
                 inbox, others, losses>>

(* The flag is read at the top of the loop; while the accept is awaited a   *)
(* stop and a connection may both be there, and either is taken.            *)
AcceptStops == pc \in {"top", "accept"} /\ Told /\ ShareEnds

LoopTop ==
  /\ pc = "top" /\ ~Told /\ pc' = "accept"
  /\ UNCHANGED <<running, peer, held, codec, userVars, viewerVars, handle, prompt,
                 inbox, others, losses>>

(* Signals, gossip and calls go to tasks of their own.                      *)

AcceptOther ==
  /\ pc = "accept" /\ Incoming("other")
  /\ inbox' = Tail(inbox) /\ pc' = "top"
  /\ UNCHANGED <<running, peer, held, codec, userVars, viewerVars, handle, prompt, others, losses>>

AcceptBootstrap ==
  /\ pc = "accept" /\ Incoming("bootstrap")
  /\ inbox' = Tail(inbox) /\ peer' = Head(inbox).from /\ pc' = "bootstrap"
  /\ held' = Nobody /\ grantLink' = [Dropped(grantLink) EXCEPT ![peer'] = "open"]
  /\ UNCHANGED <<running, codec, userVars, viewer, allowed, handle, prompt, others, losses>>

(* handle_bootstrap up to the prompt, which is not tied to the share.       *)
BootstrapProceeds ==
  /\ pc = "bootstrap" /\ viewer[peer] = "asking"
  /\ pc' = "prompt" /\ prompt' = "open"
  /\ UNCHANGED <<running, peer, held, codec, userVars, viewerVars, handle, inbox,
                 others, losses>>

(* The peer is gone or its request is refused.                              *)
BootstrapFails ==
  /\ pc = "bootstrap"
  /\ pc' = "top" /\ peer' = Nobody /\ grantLink' = [grantLink EXCEPT ![peer] = "denied"]
  /\ UNCHANGED <<running, held, codec, userVars, viewer, allowed, handle, prompt,
                 inbox, others, losses>>

(* Denied, or 90 seconds without an answer.                                 *)
PromptDenied ==
  /\ pc = "prompt" /\ prompt \in {"open", "deny"}
  /\ prompt' = "none"
  /\ pc' = "top" /\ peer' = Nobody /\ grantLink' = [grantLink EXCEPT ![peer] = "denied"]
  /\ UNCHANGED <<running, held, codec, userVars, viewer, allowed, handle, inbox,
                 others, losses>>

(* The grant is issued and sent; a send that fails holds nothing.           *)
PromptAllowed ==
  /\ pc = "prompt" /\ prompt = "allow"
  /\ prompt' = "none" /\ allowed' = [allowed EXCEPT ![peer] = running]
  /\ pc' = "top" /\ peer' = Nobody
  /\ \/ held' = peer /\ grantLink' = [grantLink EXCEPT ![peer] = "granting"]
     \/ held' = held /\ grantLink' = [grantLink EXCEPT ![peer] = "denied"]
  /\ UNCHANGED <<running, codec, userVars, viewer, handle, inbox, others, losses>>

(* Any session dial takes what is held, whoever it is held for.             *)
AcceptSession ==
  /\ pc = "accept" /\ Incoming("session")
  /\ inbox' = Tail(inbox) /\ peer' = Head(inbox).from /\ pc' = "start"
  /\ codec' = held /\ held' = Nobody /\ grantLink' = Dropped(grantLink)
  /\ UNCHANGED <<running, userVars, viewer, allowed, handle, prompt, others, losses>>

HasGrant_Unchecked == TRUE
(* GrantSessionValidator looks at the grant alone, not at who issued when.  *)
HasGrant == viewer[peer] = "dialing"

StartSucceeds ==
  /\ pc = "start" /\ HasGrant
  /\ pc' = "serving" /\ viewer' = [viewer EXCEPT ![peer] = "watching"]
  /\ handle' = IF slot = 0 THEN Nobody ELSE peer
  /\ UNCHANGED <<running, peer, held, codec, userVars, grantLink, allowed, prompt, inbox,
                 others, losses>>

(* HostSession::start fails: no grant, or the viewer is gone.               *)
StartFails ==
  /\ pc = "start"
  /\ pc' = "top" /\ peer' = Nobody /\ codec' = Nobody
  /\ viewer' = [viewer EXCEPT ![peer] = "left"]
  /\ UNCHANGED <<running, held, userVars, grantLink, allowed, handle, prompt, inbox,
                 others, losses>>

(* The end of serve_one.  A viewer that is connected hears of it.           *)
ServeReturns_HandleKept ==                    \* mutant of ServeReturns
  /\ pc' = "top" /\ peer' = Nobody /\ codec' = Nobody
  /\ viewer' = IF pc = "serving" THEN [viewer EXCEPT ![peer] = "left"] ELSE viewer
  /\ UNCHANGED <<running, held, userVars, grantLink, allowed, handle, prompt, inbox,
                 others, losses>>

ServeReturns ==
  /\ pc' = "top" /\ peer' = Nobody /\ codec' = Nobody /\ handle' = Nobody
  /\ viewer' = IF pc = "serving" THEN [viewer EXCEPT ![peer] = "left"] ELSE viewer
  /\ UNCHANGED <<running, held, userVars, grantLink, allowed, prompt, inbox, others, losses>>

ServeStops == pc \in {"serving", "reaccept"} /\ Told /\ ServeReturns

(* The viewer has left, or the window to come back is over.                 *)
ServeEnds ==
  /\ pc = "reaccept" \/ (pc = "serving" /\ viewer[peer] = "left")
  /\ ServeReturns

(* IrohSessionTransport::reconnect on the host takes the connections that   *)
(* arrive, keeps the same peer's session and drops every other.             *)
Reaccepts ==
  /\ pc = "reaccept" /\ Incoming("session") /\ Head(inbox).from = peer
  /\ inbox' = Tail(inbox) /\ pc' = "serving"
  /\ viewer' = [viewer EXCEPT ![peer] = IF @ = "dialing" THEN "watching" ELSE @]
  /\ UNCHANGED <<running, peer, held, codec, userVars, grantLink, allowed, handle, prompt,
                 others, losses>>

ReacceptDrops ==
  /\ pc = "reaccept" /\ inbox # <<>> /\ Head(inbox).from # peer
  /\ inbox' = Tail(inbox)
  /\ LET from == Head(inbox).from IN
     viewer' = IF from = Nobody THEN viewer ELSE [viewer EXCEPT ![from] = "left"]
  /\ UNCHANGED <<loopVars, userVars, grantLink, allowed, handle, prompt, others, losses>>

(* The receives of a bootstrap and of a session's start wait for the viewer *)
(* without a timeout; everything else the task does of its own.             *)
Receives == BootstrapProceeds \/ BootstrapFails \/ StartSucceeds \/ StartFails
OwnSteps == \/ TakesLock \/ OnlineStops \/ Online \/ LoopTop \/ AcceptStops \/ AcceptOther
            \/ AcceptBootstrap \/ PromptDenied \/ PromptAllowed \/ AcceptSession
            \/ ServeStops \/ ServeEnds \/ Reaccepts \/ ReacceptDrops
Host == Receives \/ OwnSteps

-------------------------------------------------------------------------------
(* Viewers and the network.                                                 *)
Quiet == UNCHANGED <<loopVars, userVars, allowed, handle, prompt>>

ViewerDials(v, from, to, alpn) ==
  /\ viewer[v] = from
  /\ viewer' = [viewer EXCEPT ![v] = to] /\ Dial(v, alpn)
  /\ UNCHANGED <<grantLink, others, losses>> /\ Quiet

(* connect_to_host: ask, receive the decision, dial the session.            *)
Ask(v) == ViewerDials(v, "idle", "asking", "bootstrap")
DialUngranted(v) == ViewerDials(v, "idle", "ungranted", "session")
DialSession(v) == ViewerDials(v, "granted", "dialing", "session")
Redial(v) == ViewerDials(v, "cut", "dialing", "session")

GrantArrives(v) ==
  /\ viewer[v] = "asking" /\ grantLink[v] = "granting"
  /\ viewer' = [viewer EXCEPT ![v] = "granted"] /\ grantLink' = [grantLink EXCEPT ![v] = "done"]
  /\ UNCHANGED <<inbox, others, losses>> /\ Quiet

(* The viewer gives up, of its own or because the bootstrap failed.         *)
Leave(v) ==
  /\ viewer[v] \notin {"idle", "left"}
  /\ viewer' = [viewer EXCEPT ![v] = "left"]
  /\ UNCHANGED <<grantLink, inbox, others, losses>> /\ Quiet

OtherArrives ==
  /\ others < MaxOthers
  /\ others' = others + 1 /\ Dial(Nobody, "other")
  /\ UNCHANGED <<viewer, grantLink, losses>> /\ Quiet

ConnectionLost ==
  /\ pc = "serving" /\ viewer[peer] = "watching" /\ losses < MaxLosses
  /\ losses' = losses + 1
  /\ pc' = "reaccept" /\ viewer' = [viewer EXCEPT ![peer] = "cut"]
  /\ UNCHANGED <<running, peer, held, codec, userVars, grantLink, allowed, handle, prompt,
                 inbox, others>>

Outside ==
  \/ OtherArrives \/ ConnectionLost \/ Refused
  \/ \E v \in Viewers : \/ Ask(v) \/ DialUngranted(v) \/ DialSession(v) \/ Redial(v)
                        \/ GrantArrives(v) \/ Leave(v)

ShareNext == User \/ Host \/ Outside

(* Tokio goes on with a task that can run, and prompts time out; a stop,    *)
(* once begun, returns.  No viewer has to answer.                           *)
ShareFairness == WF_shareVars(OwnSteps) /\ WF_shareVars(StopCancels)

ShareSpec == ShareInit /\ [][ShareNext]_shareVars /\ ShareFairness

-------------------------------------------------------------------------------
(* Properties.                                                              *)

(* Type correctness of the share state, the loop and the viewers.           *)
ShareTypeOK ==
  /\ slot \in 0 .. MaxShares /\ started \in Shares /\ running \in 0 .. started
  /\ handle \in Viewers \cup {Nobody} /\ held \in Viewers \cup {Nobody}
  /\ peer \in Viewers \cup {Nobody} /\ codec \in Viewers \cup {Nobody}
  /\ starter \in [Starters -> {"idle", "start"}]
  /\ stopSent \subseteq Shares /\ stopping \in BOOLEAN
  /\ waiting \in Seq(Shares) /\ inbox \in Seq(Conn)
  /\ pc \in {"off", "online", "top", "accept", "bootstrap", "prompt", "start", "serving", "reaccept"}
  /\ (pc = "off") = (running = 0)
  /\ (peer = Nobody) = (pc \in {"off", "online", "top", "accept"})
  /\ (pc = "prompt") = (prompt # "none")
  /\ prompt \in {"none", "open", "allow", "deny"}
  /\ viewer \in [Viewers -> {"idle", "asking", "ungranted", "granted", "dialing",
                             "watching", "cut", "left"}]
  /\ grantLink \in [Viewers -> {"none", "open", "granting", "done", "denied", "lost"}]
  /\ allowed \in [Viewers -> 0 .. MaxShares]

(* Nobody is served whom the local user has not allowed, also when dials    *)
(* of several viewers arrive in any order and one comes without a grant.    *)
ServedWasAllowed == pc \in {"serving", "reaccept"} => allowed[peer] # 0

(* Chat and clipboard sent from the share's handle reach the viewer being   *)
(* served now, never one that is gone, over any stop and restart.           *)
HandleIsServed == handle # Nobody => pc \in {"serving", "reaccept"} /\ peer = handle

(* Whatever share is running, Stop reaches it or already has.               *)
RunningIsStoppable == running # 0 => slot = running \/ Told

(* Presence, signals and calls that arrive while a grant is on its way do   *)
(* not cost the viewer its grant: only another viewer or a stop does.       *)
GrantKept ==
  \A v \in Viewers : grantLink[v] = "lost" =>
    stopSent # {} \/ \E w \in Viewers \ {v} : viewer[w] # "idle"

(* An Allow, and only an Allow, leads to being served.                      *)
AllowIsServed == ServedWasAllowed /\ GrantKept

(* The slot and the chat handle are those of the share that runs.           *)
SlotIsTheShare == RunningIsStoppable /\ HandleIsServed

(* A share that was stopped ends, whatever it was doing, unless a viewer    *)
(* that dialled it in time never says another word.  (None follows another  *)
(* without "off" in between.)                                               *)
Unanswered == pc \in {"bootstrap", "start"}
StopEnds == Told ~> (~Told \/ [](Told /\ Unanswered))

(* What the documents and comments say, and the loop does not do.           *)

(* docs/04, section 5: an emergency stop always overrides a grant.  A viewer *)
(* is served in the share in which it was allowed, not in a later one.      *)
StopOverridesGrants == pc = "serving" => allowed[peer] = running

(* A stop leaves no dialog for a session that no longer exists (main.rs,    *)
(* trigger_stop_sharing).                                                   *)
NoPromptAfterStop == prompt = "open" => (~Told \/ stopping)

(* A viewer is served in the codec that its own request negotiated.         *)
ServedInOwnCodec == pc = "serving" /\ codec # Nobody => codec = peer

(* Stop ends the whole share, well within 250 ms (main.rs, stop_sharing and *)
(* trigger_stop_sharing).  A viewer that goes on with its connection and    *)
(* says nothing keeps the share, and the next one behind it, for good.      *)
StopEndsForGood == Told ~> ~Told

(* After a refusal the user can share again, as the status text asks.       *)
ShareAgainRuns == slot # 0 => slot = running \/ Contains(waiting, slot)
================================================================================
