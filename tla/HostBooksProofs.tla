--------------------------- MODULE HostBooksProofs ---------------------------
(***************************************************************************)
(* What the user of the host decided holds, and what the user is shown is  *)
(* true, for every value of the constants: a contact that was removed or   *)
(* blocked has no presence task that goes on; an answer reaches the prompt *)
(* that it is for; no dialog stays up that nothing asks for, and none is   *)
(* slid away; the badge marks the session; the panel of the page that      *)
(* sends a file is not stuck; a file the host keeps has the offered size,  *)
(* its chunks in the order they were read.                                 *)
(***************************************************************************)
EXTENDS MCHostBooks, SequenceTheorems, FiniteSetTheorems, TLAPS

-----------------------------------------------------------------------------
(* The contact book.                                                        *)

RunningTasks == [of : Peers, at : TaskAt, aborted : BOOLEAN]

ContactTypes ==
  /\ book \in [Peers -> Standing] /\ disk \in [Peers -> Standing]
  /\ entry \in [Peers -> Tasks \cup {Untaken, Reserved}]
  /\ task \in [Tasks -> RunningTasks \cup {Gone}]
  /\ revoked \in [Peers -> BOOLEAN]

ContactInv == ContactTypes /\ RevokeHolds /\ EveryTaskCanBeStopped

(* A task that is gone is nobody's; one that runs is at one of the three    *)
(* places, and neither is an entry without a handle.                        *)
LEMMA TaskFacts ==
  /\ Gone.of \notin Peers /\ Gone.at = "gone" /\ Gone \notin RunningTasks
  /\ Untaken \notin Tasks /\ Reserved \notin Tasks /\ Untaken # Reserved
  /\ \A r \in RunningTasks : /\ r # Gone /\ r.of \in Peers /\ r.aborted \in BOOLEAN
                             /\ r.at \in {"subscribing", "listening", "verified"}
<1>1. /\ Gone.of \notin Peers /\ Gone.at = "gone"
      /\ Untaken \notin Tasks /\ Reserved \notin Tasks /\ Untaken # Reserved
  BY ContactAssumption DEF Gone, Untaken, Reserved
<1>2. \A r \in RunningTasks : /\ r.of \in Peers /\ r.aborted \in BOOLEAN
                              /\ r.at \in {"subscribing", "listening", "verified"}
  BY DEF RunningTasks, TaskAt
<1> QED BY <1>1, <1>2

(* What a dropped handle does: the task of the entry is aborted, and all    *)
(* others are as they are in the tasks it starts from.                      *)
LEMMA AbortsOne ==
  ASSUME ContactTypes, NEW p \in Peers, NEW tasks,
         tasks \in [Tasks -> RunningTasks \cup {Gone}],
         \A t \in Tasks : task[t] # Gone => tasks[t] \in RunningTasks
  PROVE  /\ Aborts(tasks, p) \in [Tasks -> RunningTasks \cup {Gone}]
         /\ \A t \in Tasks : /\ Aborts(tasks, p)[t].of = tasks[t].of
                             /\ Aborts(tasks, p)[t].at = tasks[t].at
                             /\ tasks[t] = Gone => Aborts(tasks, p)[t] = Gone
                             /\ tasks[t].aborted => Aborts(tasks, p)[t].aborted
                             /\ entry[p] = t /\ task[t] # Gone => Aborts(tasks, p)[t].aborted
<1> DEFINE a == Aborts(tasks, p)
<1>1. a = [t \in Tasks |-> IF entry[p] = t /\ task[t] # Gone
                             THEN [tasks[t] EXCEPT !.aborted = TRUE] ELSE tasks[t]]
  BY DEF Aborts
<1>2. ASSUME NEW t \in Tasks
      PROVE  /\ a[t] \in RunningTasks \cup {Gone}
             /\ a[t].of = tasks[t].of /\ a[t].at = tasks[t].at
             /\ tasks[t] = Gone => a[t] = Gone
             /\ tasks[t].aborted => a[t].aborted
             /\ entry[p] = t /\ task[t] # Gone => a[t].aborted
  <2>1. CASE entry[p] = t /\ task[t] # Gone
    <3>1. a[t] = [tasks[t] EXCEPT !.aborted = TRUE] /\ tasks[t] \in RunningTasks
      BY <1>1, <2>1
    <3>2. tasks[t] # Gone
      BY <3>1, TaskFacts
    <3> HIDE DEF a
    <3> QED BY <3>1, <3>2 DEF RunningTasks
  <2>2. CASE ~(entry[p] = t /\ task[t] # Gone)
    BY <1>1, <2>2
  <2> QED BY <2>1, <2>2
<1>3. a = [t \in Tasks |-> a[t]]
  BY <1>1
<1> HIDE DEF a
<1>4. a \in [Tasks -> RunningTasks \cup {Gone}]
  BY <1>2, <1>3
<1> QED BY <1>2, <1>4 DEF a

(* Presence stops: what was its task is aborted, unless it still waits for  *)
(* its subscription.                                                        *)
LEMMA Stops ==
  ASSUME ContactInv, NEW p \in Peers, StopPresenceFor(p)
  PROVE  /\ entry' \in [Peers -> Tasks \cup {Untaken, Reserved}]
         /\ task' \in [Tasks -> RunningTasks \cup {Gone}]
         /\ entry'[p] = Untaken /\ \A q \in Peers : q # p => entry'[q] = entry[q]
         /\ \A t \in Tasks : /\ task'[t].of = task[t].of /\ task'[t].at = task[t].at
                             /\ task[t].aborted => task'[t].aborted
                             /\ task'[t].of = p => task'[t].aborted \/ task'[t].at = "subscribing"
         /\ EveryTaskCanBeStopped'
<1>1. ContactTypes /\ entry' = [entry EXCEPT ![p] = Untaken] /\ task' = Aborts(task, p)
  BY DEF ContactInv, StopPresenceFor
<1>2. /\ task \in [Tasks -> RunningTasks \cup {Gone}]
      /\ \A t \in Tasks : task[t] # Gone => task[t] \in RunningTasks
  BY <1>1 DEF ContactTypes
<1>3. /\ entry' \in [Peers -> Tasks \cup {Untaken, Reserved}]
      /\ entry'[p] = Untaken /\ \A q \in Peers : q # p => entry'[q] = entry[q]
  BY <1>1 DEF ContactTypes
<1>4. /\ task' \in [Tasks -> RunningTasks \cup {Gone}]
      /\ \A t \in Tasks : /\ task'[t].of = task[t].of /\ task'[t].at = task[t].at
                          /\ task[t].aborted => task'[t].aborted
                          /\ entry[p] = t /\ task[t] # Gone => task'[t].aborted
  BY <1>1, <1>2, AbortsOne
<1>5. ASSUME NEW t \in Tasks, task'[t].at \in {"listening", "verified"}
      PROVE  task'[t].aborted \/ (entry'[task'[t].of] = t /\ task'[t].of # p)
  <2>1. task[t] \in RunningTasks /\ task[t].of \in Peers
    BY <1>2, <1>4, <1>5, TaskFacts
  <2>2. task[t].aborted \/ entry[task[t].of] = t
    BY <1>4, <1>5 DEF ContactInv, EveryTaskCanBeStopped
  <2>3. task[t] # Gone
    BY <2>1, TaskFacts
  <2>4. CASE task[t].of = p
    <3>1. task[t].aborted \/ entry[p] = t
      BY <2>2, <2>4
    <3> QED BY <1>4, <2>3, <3>1
  <2>5. CASE task[t].of # p
    <3>1. entry'[task[t].of] = entry[task[t].of] /\ task'[t].of = task[t].of
      BY <1>3, <1>4, <2>1, <2>5
    <3> QED BY <1>4, <2>2, <2>5, <3>1
  <2> QED BY <2>4, <2>5
<1>6. ASSUME NEW t \in Tasks, task'[t].of = p PROVE task'[t].aborted \/ task'[t].at = "subscribing"
  BY <1>2, <1>4, <1>5, <1>6, TaskFacts
<1> QED BY <1>3, <1>4, <1>5, <1>6 DEF EveryTaskCanBeStopped

(* Presence starts: at most one task is new, and it is the contact's.       *)
LEMMA Spawns ==
  ASSUME ContactInv, NEW p \in Peers, SpawnPresenceFor(p)
  PROVE  /\ entry' \in [Peers -> Tasks \cup {Untaken, Reserved}]
         /\ task' \in [Tasks -> RunningTasks \cup {Gone}]
         /\ \A q \in Peers : q # p => entry'[q] = entry[q]
         /\ \A t \in Tasks : task'[t] = task[t] \/ task'[t].of = p
         /\ EveryTaskCanBeStopped'
<1>1. /\ entry \in [Peers -> Tasks \cup {Untaken, Reserved}]
      /\ task \in [Tasks -> RunningTasks \cup {Gone}] /\ EveryTaskCanBeStopped
  BY DEF ContactInv, ContactTypes
<1>2. CASE entry[p] # Untaken
  BY <1>1, <1>2 DEF SpawnPresenceFor, EveryTaskCanBeStopped
<1>3. CASE entry[p] = Untaken
  <2> DEFINE new == [of |-> p, at |-> "subscribing", aborted |-> FALSE]
  <2>1. PICK t \in Tasks : /\ entry' = [entry EXCEPT ![p] = Reserved]
                           /\ task' = [task EXCEPT ![t] = new]
    BY <1>3 DEF SpawnPresenceFor
  <2>2. new \in RunningTasks /\ new.of = p /\ new.at = "subscribing"
    BY DEF RunningTasks, TaskAt
  <2> HIDE DEF new
  <2>3. /\ entry' \in [Peers -> Tasks \cup {Untaken, Reserved}]
        /\ task' \in [Tasks -> RunningTasks \cup {Gone}]
        /\ \A q \in Peers : q # p => entry'[q] = entry[q]
        /\ task'[t] = new /\ \A u \in Tasks : u # t => task'[u] = task[u]
    BY <1>1, <2>1, <2>2
  <2>4. ASSUME NEW u \in Tasks, task'[u].at \in {"listening", "verified"}
        PROVE  task'[u].aborted \/ entry'[task'[u].of] = u
    <3>1. u # t /\ task'[u] = task[u]
      BY <2>2, <2>3, <2>4
    <3>2. task[u] \in RunningTasks /\ task[u].of \in Peers
      BY <1>1, <2>4, <3>1, TaskFacts
    <3>3. task[u].aborted \/ entry[task[u].of] = u
      BY <1>1, <2>4, <3>1 DEF EveryTaskCanBeStopped
    <3> QED BY <1>3, <2>3, <3>1, <3>2, <3>3, TaskFacts
  <2> QED BY <2>2, <2>3, <2>4 DEF EveryTaskCanBeStopped
<1> QED BY <1>2, <1>3

(* The commands that save: no contact but the one they are about changes,   *)
(* in the book and in the file.                                             *)
LEMMA WritesKeep ==
  ASSUME ContactInv, NEW p \in Peers, book' \in [Peers -> Standing], disk' \in {book', disk},
         \A q \in Peers : q # p =>
            book'[q] = book[q] /\ entry'[q] = entry[q] /\ revoked'[q] = revoked[q]
  PROVE  /\ disk' \in [Peers -> Standing]
         /\ \A q \in Peers : q # p /\ revoked'[q] =>
              /\ revoked[q] /\ book'[q] # "active" /\ disk'[q] # "active" /\ entry'[q] = Untaken
<1>1. disk \in [Peers -> Standing]
  BY DEF ContactInv, ContactTypes
<1>2. \A q \in Peers : revoked[q] => book[q] # "active" /\ disk[q] # "active" /\ entry[q] = Untaken
  BY DEF ContactInv, RevokeHolds
<1> QED BY <1>1, <1>2

(* What is left to show of a command, when it leaves no task of a contact   *)
(* that is revoked.                                                         *)
LEMMA RevokedStay ==
  ASSUME ContactInv, ContactTypes', EveryTaskCanBeStopped', NEW p \in Peers,
         \A q \in Peers : q # p /\ revoked'[q] =>
            revoked[q] /\ book'[q] # "active" /\ disk'[q] # "active" /\ entry'[q] = Untaken,
         revoked'[p] => /\ book'[p] # "active" /\ disk'[p] # "active" /\ entry'[p] = Untaken
                        /\ \A t \in Tasks : task'[t].of = p =>
                             task'[t].aborted \/ task'[t].at = "subscribing",
         \A t \in Tasks : \/ task'[t].of = p
                          \/ /\ task'[t].of = task[t].of /\ task'[t].at = task[t].at
                             /\ task[t].aborted => task'[t].aborted
  PROVE  ContactInv'
<1>1. ASSUME NEW q \in Peers, revoked'[q], q # p, NEW t \in Tasks, task'[t].of = q
      PROVE  task'[t].aborted \/ task'[t].at = "subscribing"
  BY <1>1 DEF ContactInv, RevokeHolds
<1>2. RevokeHolds'
  BY <1>1 DEF RevokeHolds
<1> QED BY <1>2 DEF ContactInv

(* The four commands of the contact book.                                   *)
LEMMA CommandInv ==
  ASSUME ContactInv, NEW p \in Peers, NEW wrote \in BOOLEAN, NEW saved \in BOOLEAN,
         \/ RemoveContact(p, wrote, saved) \/ Block(p, wrote, saved)
         \/ Unblock(p, wrote, saved) \/ AddContact(p, wrote)
  PROVE  ContactInv'
<1>0. /\ book \in [Peers -> Standing] /\ book[p] \in Standing
      /\ revoked \in [Peers -> BOOLEAN] /\ "absent" \in Standing
  BY DEF ContactInv, ContactTypes, Standing
(* A command that stops the presence of the contact.                        *)
<1>1. ASSUME NEW v \in Standing, v # "active", book' = [book EXCEPT ![p] = v],
             Writes(wrote, saved, book'), StopPresenceFor(p),
             revoked' = [revoked EXCEPT ![p] = saved]
      PROVE  ContactInv'
  <2>0. /\ book' \in [Peers -> Standing] /\ book'[p] = v
        /\ \A q \in Peers : q # p => book'[q] = book[q]
    BY <1>0, <1>1
  <2>1. /\ revoked' \in [Peers -> BOOLEAN] /\ (revoked'[p] => saved)
        /\ \A q \in Peers : q # p => revoked'[q] = revoked[q]
    BY <1>0, <1>1
  <2>2. disk' \in {book', disk} /\ (saved => disk' = book')
    BY <1>1 DEF Writes
  <2>3. /\ entry' \in [Peers -> Tasks \cup {Untaken, Reserved}]
        /\ task' \in [Tasks -> RunningTasks \cup {Gone}]
        /\ entry'[p] = Untaken /\ \A q \in Peers : q # p => entry'[q] = entry[q]
        /\ \A t \in Tasks : /\ task'[t].of = task[t].of /\ task'[t].at = task[t].at
                            /\ task[t].aborted => task'[t].aborted
                            /\ task'[t].of = p => task'[t].aborted \/ task'[t].at = "subscribing"
        /\ EveryTaskCanBeStopped'
    BY <1>1, Stops
  <2>4. /\ disk' \in [Peers -> Standing] /\ (saved => disk' = book')
        /\ \A q \in Peers : q # p /\ revoked'[q] =>
             revoked[q] /\ book'[q] # "active" /\ disk'[q] # "active" /\ entry'[q] = Untaken
    <3>1. \A q \in Peers : q # p => entry'[q] = entry[q]
      BY <2>3
    <3> QED BY <2>0, <2>1, <2>2, <3>1, WritesKeep
  <2>5. ContactTypes'
    BY <2>0, <2>1, <2>3, <2>4 DEF ContactTypes
  <2> QED BY <1>1, <2>0, <2>1, <2>3, <2>4, <2>5, RevokedStay
(* One that may start it, or leaves it as it is.                            *)
<1>2. ASSUME NEW v \in Standing, NEW last \in BOOLEAN, book' = [book EXCEPT ![p] = v],
             Writes(wrote, last, book'), revoked' = [revoked EXCEPT ![p] = FALSE],
             entry' \in [Peers -> Tasks \cup {Untaken, Reserved}],
             task' \in [Tasks -> RunningTasks \cup {Gone}],
             \A q \in Peers : q # p => entry'[q] = entry[q],
             \A t \in Tasks : task'[t] = task[t] \/ task'[t].of = p, EveryTaskCanBeStopped'
      PROVE  ContactInv'
  <2>0. /\ book' \in [Peers -> Standing] /\ book'[p] = v
        /\ \A q \in Peers : q # p => book'[q] = book[q]
    BY <1>0, <1>2
  <2>1. /\ revoked' \in [Peers -> BOOLEAN] /\ ~revoked'[p]
        /\ \A q \in Peers : q # p => revoked'[q] = revoked[q]
    BY <1>0, <1>2
  <2>2. /\ disk' \in [Peers -> Standing]
        /\ \A q \in Peers : q # p /\ revoked'[q] =>
             revoked[q] /\ book'[q] # "active" /\ disk'[q] # "active" /\ entry'[q] = Untaken
    <3>1. disk' \in {book', disk}
      BY <1>2 DEF Writes
    <3> QED BY <1>2, <2>0, <2>1, <3>1, WritesKeep
  <2>3. ContactTypes'
    BY <1>2, <2>0, <2>1, <2>2 DEF ContactTypes
  <2> QED BY <1>2, <2>1, <2>2, <2>3, RevokedStay
<1>3. CASE RemoveContact(p, wrote, saved)
  <2>1. /\ book' = [book EXCEPT ![p] = "absent"] /\ Writes(wrote, saved, book')
        /\ revoked' = [revoked EXCEPT ![p] = saved]
        /\ IF saved THEN StopPresenceFor(p) ELSE UNCHANGED <<entry, task>>
    BY <1>3 DEF RemoveContact
  <2>2. CASE saved
    BY <1>0, <1>1, <2>1, <2>2
  <2>3. CASE ~saved
    <3>1. revoked' = [revoked EXCEPT ![p] = FALSE]
      BY <2>1, <2>3
    <3>2. /\ entry' \in [Peers -> Tasks \cup {Untaken, Reserved}]
          /\ task' \in [Tasks -> RunningTasks \cup {Gone}]
          /\ entry' = entry /\ task' = task /\ EveryTaskCanBeStopped'
      BY <2>1, <2>3 DEF ContactInv, ContactTypes, EveryTaskCanBeStopped
    <3> QED BY <1>0, <1>2, <2>1, <3>1, <3>2
  <2> QED BY <2>2, <2>3
<1>4. CASE Block(p, wrote, saved)
  <2> DEFINE v == IF book[p] = "absent" THEN book[p] ELSE "blocked"
  <2>1. v \in Standing /\ v # "active"
    BY DEF Standing
  <2> HIDE DEF v
  <2>2. /\ book' = [book EXCEPT ![p] = v] /\ Writes(wrote, saved, book') /\ StopPresenceFor(p)
        /\ revoked' = [revoked EXCEPT ![p] = saved]
    BY <1>4 DEF Block, v
  <2> QED BY <1>1, <2>1, <2>2
<1>5. ASSUME NEW v \in Standing, NEW last \in BOOLEAN, book' = [book EXCEPT ![p] = v],
             Writes(wrote, last, book'), SpawnPresenceFor(p),
             revoked' = [revoked EXCEPT ![p] = FALSE]
      PROVE  ContactInv'
  BY <1>2, <1>5, Spawns
<1>6. CASE Unblock(p, wrote, saved)
  <2> DEFINE v == IF book[p] = "absent" THEN book[p] ELSE "active"
  <2>1. v \in Standing
    BY DEF Standing
  <2> HIDE DEF v
  <2>2. /\ book' = [book EXCEPT ![p] = v] /\ Writes(wrote, saved, book') /\ SpawnPresenceFor(p)
        /\ revoked' = [revoked EXCEPT ![p] = FALSE]
    BY <1>6 DEF Unblock, v
  <2> QED BY <1>5, <2>1, <2>2
<1>7. CASE AddContact(p, wrote)
  <2> DEFINE v == IF book[p] = "absent" THEN "active" ELSE book[p]
  <2>1. v \in Standing
    BY <1>0 DEF Standing
  <2> HIDE DEF v
  <2>2. /\ book' = [book EXCEPT ![p] = v] /\ Writes(wrote, wrote, book')
        /\ SpawnPresenceFor(p) /\ revoked' = [revoked EXCEPT ![p] = FALSE]
    BY <1>7 DEF AddContact, v
  <2> QED BY <1>5, <2>1, <2>2
<1> QED BY <1>3, <1>4, <1>6, <1>7

(* What a presence task does.                                               *)
LEMMA TaskInv ==
  ASSUME ContactInv, NEW t \in Tasks,
         \/ Subscribed(t) \/ SubscribeFails(t) \/ BeaconVerified(t) \/ BeaconObserved(t)
         \/ TaskEnds(t)
  PROVE  ContactInv'
<1> DEFINE p == task[t].of
           S == RunningTasks \cup {Gone}
<1>1. /\ entry \in [Peers -> Tasks \cup {Untaken, Reserved}] /\ task \in [Tasks -> S]
      /\ book \in [Peers -> Standing] /\ disk \in [Peers -> Standing]
      /\ revoked \in [Peers -> BOOLEAN]
  BY DEF ContactInv, ContactTypes
<1>2. UNCHANGED <<book, disk, revoked>> /\ task[t].at \in TaskAt
  BY DEF Subscribed, SubscribeFails, BeaconVerified, BeaconObserved, TaskEnds, TaskAt
<1>3. task[t] \in RunningTasks /\ p \in Peers /\ task[t].aborted \in BOOLEAN /\ task[t] # Gone
  <2>1. Gone.at \notin TaskAt
    BY DEF Gone, TaskAt
  <2> QED BY <1>1, <1>2, <2>1, TaskFacts
<1>4. /\ \A q \in Peers : revoked[q] => entry[q] = Untaken
      /\ \A q \in Peers : revoked[q] =>
           \A u \in Tasks : task[u].of = q => task[u].aborted \/ task[u].at = "subscribing"
      /\ \A u \in Tasks : task[u].at \in {"listening", "verified"} =>
           task[u].aborted \/ entry[task[u].of] = u
      /\ \A q \in Peers : revoked[q] => book[q] # "active" /\ disk[q] # "active"
  BY DEF ContactInv, RevokeHolds, EveryTaskCanBeStopped
(* Enough: the other tasks are what they were or aborted as well, and the   *)
(* entries of all contacts but p stand.                                     *)
<1>5. ASSUME entry' \in [Peers -> Tasks \cup {Untaken, Reserved}], task' \in [Tasks -> S],
             \A q \in Peers : q # p => entry'[q] = entry[q],
             revoked[p] => entry'[p] = Untaken,
             task'[t] = Gone \/ task'[t].of = p,
             revoked[p] => task'[t].aborted \/ task'[t] = Gone,
             task'[t] # Gone => task'[t].aborted \/ entry'[p] = t,
             \A u \in Tasks : u # t => /\ task'[u].of = task[u].of /\ task'[u].at = task[u].at
                                       /\ task[u].aborted => task'[u].aborted,
             \A u \in Tasks : u # t /\ task[u] # Gone /\ entry[p] = u =>
                                task'[u].aborted \/ entry'[p] = u
      PROVE  ContactInv'
  <2>1. ContactTypes'
    BY <1>1, <1>2, <1>5 DEF ContactTypes
  <2>2. ASSUME NEW u \in Tasks, task'[u].at \in {"listening", "verified"}
        PROVE  task'[u].aborted \/ entry'[task'[u].of] = u
    <3>1. CASE u = t
      BY <1>5, <2>2, <3>1, TaskFacts
    <3>2. CASE u # t
      <4>1. task[u] \in RunningTasks /\ task[u] # Gone /\ task[u].of \in Peers
        BY <1>1, <1>5, <2>2, <3>2, TaskFacts
      <4>2. task[u].aborted \/ entry[task[u].of] = u
        BY <1>4, <1>5, <2>2, <3>2
      <4>3. CASE task[u].of = p
        BY <1>5, <3>2, <4>1, <4>2, <4>3
      <4>4. CASE task[u].of # p
        BY <1>5, <3>2, <4>1, <4>2, <4>4
      <4> QED BY <4>3, <4>4
    <3> QED BY <3>1, <3>2
  <2>3. ASSUME NEW q \in Peers, revoked[q], NEW u \in Tasks, task'[u].of = q
        PROVE  task'[u].aborted \/ task'[u].at = "subscribing"
    <3>1. CASE u = t
      BY <1>5, <2>3, <3>1, TaskFacts
    <3>2. CASE u # t
      BY <1>4, <1>5, <2>3, <3>2
    <3> QED BY <3>1, <3>2
  <2>4. ASSUME NEW q \in Peers, revoked[q] PROVE entry'[q] = Untaken
    BY <1>4, <1>5, <2>4
  <2>5. RevokeHolds'
    BY <1>2, <1>4, <2>3, <2>4 DEF RevokeHolds
  <2>6. EveryTaskCanBeStopped'
    BY <2>2 DEF EveryTaskCanBeStopped
  <2> QED BY <2>1, <2>5, <2>6 DEF ContactInv
<1>6. CASE Subscribed(t) /\ entry[p] = Untaken
  <2> DEFINE a == [task EXCEPT ![t].at = "listening"]
  <2>1. task' = [a EXCEPT ![t].aborted = TRUE] /\ entry' = entry
    BY <1>6 DEF Subscribed
  <2>2. /\ a[t] \in RunningTasks /\ a[t].of = p
        /\ a \in [Tasks -> S] /\ \A u \in Tasks : u # t => a[u] = task[u]
    BY <1>1, <1>3 DEF RunningTasks, TaskAt
  <2> HIDE DEF a
  <2>3. /\ task'[t] \in RunningTasks /\ task'[t].of = p /\ task'[t].aborted
        /\ task' \in [Tasks -> S] /\ \A u \in Tasks : u # t => task'[u] = task[u]
    BY <2>1, <2>2 DEF RunningTasks
  <2> HIDE DEF p, S
  <2> QED BY <1>1, <1>4, <1>5, <1>6, <2>1, <2>3
<1>7. CASE Subscribed(t) /\ entry[p] # Untaken
  <2> DEFINE a == [task EXCEPT ![t].at = "listening"]
  <2>1. task' = Aborts(a, p) /\ entry' = [entry EXCEPT ![p] = t]
    BY <1>7 DEF Subscribed
  <2>2. /\ a[t] \in RunningTasks /\ a[t].of = p
        /\ a \in [Tasks -> S] /\ \A u \in Tasks : u # t => a[u] = task[u]
        /\ \A u \in Tasks : task[u] # Gone => a[u] \in RunningTasks
    BY <1>1, <1>3 DEF RunningTasks, TaskAt
  <2> HIDE DEF a
  <2>3. /\ task' \in [Tasks -> S]
        /\ \A u \in Tasks : /\ task'[u].of = a[u].of /\ task'[u].at = a[u].at
                            /\ a[u].aborted => task'[u].aborted
                            /\ entry[p] = u /\ task[u] # Gone => task'[u].aborted
    BY <1>3, <2>1, <2>2, AbortsOne DEF ContactInv
  <2>4. entry' \in [Peers -> Tasks \cup {Untaken, Reserved}] /\ entry'[p] = t
        /\ \A q \in Peers : q # p => entry'[q] = entry[q]
    BY <1>1, <1>3, <2>1
  <2>5. ~revoked[p]
    BY <1>3, <1>4, <1>7
  <2> HIDE DEF p, S
  <2> QED BY <1>5, <2>2, <2>3, <2>4, <2>5
<1>8. CASE SubscribeFails(t)
  <2> DEFINE a == Aborts(task, p)
  <2>1. task' = [a EXCEPT ![t] = Gone] /\ entry' = [entry EXCEPT ![p] = Untaken]
    BY <1>8 DEF SubscribeFails
  <2>2. \A u \in Tasks : task[u] # Gone => task[u] \in RunningTasks
    BY <1>1
  <2>3. /\ a \in [Tasks -> S]
        /\ \A u \in Tasks : /\ a[u].of = task[u].of /\ a[u].at = task[u].at
                            /\ task[u].aborted => a[u].aborted
                            /\ entry[p] = u /\ task[u] # Gone => a[u].aborted
    BY <1>1, <1>3, <2>2, AbortsOne DEF ContactInv
  <2> HIDE DEF a
  <2>4. /\ task' \in [Tasks -> S] /\ task'[t] = Gone
        /\ \A u \in Tasks : u # t => task'[u] = a[u]
    BY <2>1, <2>3
  <2>5. entry' \in [Peers -> Tasks \cup {Untaken, Reserved}] /\ entry'[p] = Untaken
        /\ \A q \in Peers : q # p => entry'[q] = entry[q]
    BY <1>1, <1>3, <2>1
  <2> HIDE DEF p, S
  <2> QED BY <1>5, <2>3, <2>4, <2>5
<1>9. CASE BeaconVerified(t) \/ BeaconObserved(t)
  <2>1. PICK to \in TaskAt : task' = [task EXCEPT ![t].at = to] /\ UNCHANGED entry
    BY <1>9 DEF BeaconVerified, BeaconObserved, TaskAt
  <2>2. task[t].aborted \/ entry[p] = t
    BY <1>4, <1>9 DEF BeaconVerified, BeaconObserved
  <2>3. /\ task'[t] \in RunningTasks /\ task'[t].of = p /\ task'[t].aborted = task[t].aborted
        /\ task' \in [Tasks -> S] /\ \A u \in Tasks : u # t => task'[u] = task[u]
    BY <1>1, <1>3, <2>1 DEF RunningTasks
  <2>4. revoked[p] => task[t].aborted
    BY <1>3, <1>4, <2>2, TaskFacts
  <2> HIDE DEF p, S
  <2> QED BY <1>1, <1>3, <1>4, <1>5, <2>1, <2>2, <2>3, <2>4
<1>10. CASE TaskEnds(t)
  <2>1. task' = [task EXCEPT ![t] = Gone] /\ UNCHANGED entry
    BY <1>10 DEF TaskEnds
  <2>2. task' \in [Tasks -> S] /\ task'[t] = Gone /\ \A u \in Tasks : u # t => task'[u] = task[u]
    BY <1>1, <2>1
  <2> HIDE DEF p, S
  <2> QED BY <1>1, <1>3, <1>4, <1>5, <2>1, <2>2
<1> QED BY <1>6, <1>7, <1>8, <1>9, <1>10

(* The app starts again: nothing listens yet.                               *)
LEMMA RestartInv ==
  ASSUME ContactInv, Restart PROVE ContactInv'
<1>1. /\ disk \in [Peers -> Standing] /\ revoked \in [Peers -> BOOLEAN]
      /\ \A q \in Peers : revoked[q] => disk[q] # "active"
  BY DEF ContactInv, ContactTypes, RevokeHolds
<1>2. /\ book' = disk /\ UNCHANGED <<disk, revoked>>
      /\ entry' = [p \in Peers |-> IF disk[p] = "active" THEN Reserved ELSE Untaken]
  BY DEF Restart
<1>3. PICK own \in [Peers -> Tasks] :
        task' = [t \in Tasks |->
          IF \E p \in Peers : own[p] = t /\ disk[p] = "active"
          THEN [of |-> CHOOSE p \in Peers : own[p] = t, at |-> "subscribing", aborted |-> FALSE]
          ELSE Gone]
  BY DEF Restart
<1>4. ASSUME NEW t \in Tasks
      PROVE  \/ task'[t] = Gone
             \/ task'[t] \in RunningTasks /\ task'[t].at = "subscribing"
  <2> DEFINE q == CHOOSE p \in Peers : own[p] = t
  <2>1. CASE \E p \in Peers : own[p] = t /\ disk[p] = "active"
    <3>1. q \in Peers
      BY <2>1
    <3>2. task'[t] = [of |-> q, at |-> "subscribing", aborted |-> FALSE]
      BY <1>3, <2>1
    <3> HIDE DEF q
    <3> QED BY <3>1, <3>2 DEF RunningTasks, TaskAt
  <2>2. CASE ~\E p \in Peers : own[p] = t /\ disk[p] = "active"
    BY <1>3, <2>2
  <2> QED BY <2>1, <2>2
<1>5. task' \in [Tasks -> RunningTasks \cup {Gone}]
  <2>1. task' = [t \in Tasks |-> task'[t]]
    BY <1>3
  <2> QED BY <1>4, <2>1
<1>6. ContactTypes'
  BY <1>1, <1>2, <1>5 DEF ContactTypes
<1>7. RevokeHolds'
  BY <1>1, <1>2, <1>4, TaskFacts DEF RevokeHolds
<1>8. EveryTaskCanBeStopped'
  BY <1>4, TaskFacts DEF EveryTaskCanBeStopped
<1> QED BY <1>6, <1>7, <1>8 DEF ContactInv

(* Every step keeps what the contact book promises.                         *)
LEMMA ContactNextInv ==
  ASSUME ContactInv, [ContactNext]_contactVars PROVE ContactInv'
<1>1. ASSUME UNCHANGED <<book, disk, entry, task, revoked>> PROVE ContactInv'
  BY <1>1 DEF ContactInv, ContactTypes, RevokeHolds, EveryTaskCanBeStopped
<1>2. CASE UNCHANGED contactVars
  BY <1>1, <1>2 DEF contactVars
<1>3. CASE PollPresence \/ \E p \in Peers : GoesStale(p)
  BY <1>1, <1>3 DEF PollPresence, GoesStale
<1>4. CASE Restart
  BY <1>4, RestartInv
<1>5. CASE \E t \in Tasks : \/ Subscribed(t) \/ SubscribeFails(t) \/ BeaconVerified(t)
                            \/ BeaconObserved(t) \/ TaskEnds(t)
  BY <1>5, TaskInv
<1>6. CASE \E p \in Peers, wrote \in BOOLEAN : AddContact(p, wrote)
  BY <1>6, CommandInv
<1>7. CASE \E p \in Peers, wrote, saved \in BOOLEAN :
              \/ RemoveContact(p, wrote, saved) \/ Block(p, wrote, saved)
              \/ Unblock(p, wrote, saved)
  BY <1>7, CommandInv
<1> QED BY <1>2, <1>3, <1>4, <1>5, <1>6, <1>7 DEF ContactNext

(* Nobody is known at first.                                                *)
LEMMA ContactInitInv ==
  ASSUME ContactInit PROVE ContactInv
<1>1. ContactTypes
  BY DEF ContactInit, ContactTypes, Each, Standing
<1>2. \A p \in Peers : ~revoked[p]
  BY DEF ContactInit, Each
<1>3. \A t \in Tasks : task[t] = Gone
  BY DEF ContactInit
<1> QED BY <1>1, <1>2, <1>3, TaskFacts DEF ContactInv, RevokeHolds, EveryTaskCanBeStopped

-----------------------------------------------------------------------------
(* The prompts.                                                             *)

(* A prompt that is asked: no answer is ever "preempted", and none is left  *)
(* open by a stop.                                                          *)
Asked == [kind : Kinds, of : {"now", "gone"}, at : {"waiting", "cleared", "closed"},
          answer : {"none", "allow", "mistake", "deny", "dropped"}, cut : {FALSE}]

PromptTypes ==
  /\ asks \in [Prompts -> Asked \cup {Free}]
  /\ pending \in [Kinds -> Prompts \cup {0}]
  /\ answers = <<>> \/ (answers = <<answers[1]>> /\ answers[1].kind \in Kinds)

(* A slot holds a prompt of its kind that waits.                            *)
SlotsWait ==
  \A k \in Kinds : pending[k] # 0 => asks[pending[k]].kind = k /\ Waiting(pending[k])

(* Of two prompts of a kind that the session or the share loop still waits  *)
(* for, one was asked by a viewer that is gone.                             *)
OneAtATime ==
  \A a, b \in Prompts : a # b /\ Active(a) /\ Active(b) /\ asks[a].kind = asks[b].kind
                        => asks[a].of = "gone" \/ asks[b].of = "gone"

PromptInv == PromptTypes /\ WaitingIsPending /\ SlotsWait /\ OneAtATime

(* What the two sorts of prompt are, field by field.                        *)
LEMMA AskFacts ==
  /\ Free \notin Asked /\ Free.at = "free" /\ Free.answer = "none" /\ ~Free.cut
  /\ 0 \notin Prompts /\ {"access", "control", "file"} = Kinds
  /\ \A r \in Asked : /\ r.kind \in Kinds /\ r.of \in {"now", "gone"}
                      /\ r.at \in {"waiting", "cleared", "closed"} /\ r # Free
                      /\ r.answer \in {"none", "allow", "mistake", "deny", "dropped"}
                      /\ r.cut = FALSE
<1>1. Free.at = "free" /\ Free.answer = "none" /\ ~Free.cut
  BY DEF Free
<1>2. \A r \in Asked : /\ r.kind \in Kinds /\ r.of \in {"now", "gone"}
                       /\ r.at \in {"waiting", "cleared", "closed"}
                       /\ r.answer \in {"none", "allow", "mistake", "deny", "dropped"}
                       /\ r.cut = FALSE
  BY DEF Asked
<1>3. 0 \notin Prompts /\ {"access", "control", "file"} = Kinds
  BY PromptAssumption DEF Kinds
<1> QED BY <1>1, <1>2, <1>3

(* A prompt with a field changed, kept opaque.                              *)
Answered(r, what) == [r EXCEPT !.answer = what]
Moved(r, to, what) == [r EXCEPT !.at = to, !.answer = what]
Orphan(r) == [r EXCEPT !.of = "gone"]
New(k) == [Free EXCEPT !.kind = k, !.at = "waiting"]

(* What such a change leaves as it was.                                     *)
LEMMA AskMoves ==
  ASSUME NEW r \in Asked, NEW what \in {"none", "allow", "mistake", "deny", "dropped"},
         NEW to \in {"cleared", "closed"}
  PROVE  /\ Answered(r, what) \in Asked /\ Answered(r, what).answer = what
            /\ Answered(r, what).at = r.at /\ Answered(r, what).kind = r.kind
            /\ Answered(r, what).of = r.of
         /\ Moved(r, to, what) \in Asked /\ Moved(r, to, what).answer = what
            /\ Moved(r, to, what).at = to /\ Moved(r, to, what).kind = r.kind
            /\ Moved(r, to, what).of = r.of
         /\ Orphan(r) \in Asked /\ Orphan(r).answer = r.answer /\ Orphan(r).at = r.at
            /\ Orphan(r).kind = r.kind /\ Orphan(r).of = "gone"
<1>1. /\ Answered(r, what) \in Asked /\ Answered(r, what).answer = what
      /\ Answered(r, what).at = r.at /\ Answered(r, what).kind = r.kind
      /\ Answered(r, what).of = r.of
  BY DEF Answered, Asked
<1>2. /\ Moved(r, to, what) \in Asked /\ Moved(r, to, what).answer = what
      /\ Moved(r, to, what).at = to /\ Moved(r, to, what).kind = r.kind
      /\ Moved(r, to, what).of = r.of
  BY DEF Moved, Asked
<1>3. /\ Orphan(r) \in Asked /\ Orphan(r).answer = r.answer /\ Orphan(r).at = r.at
      /\ Orphan(r).kind = r.kind /\ Orphan(r).of = "gone"
  BY DEF Orphan, Asked
<1> QED BY <1>1, <1>2, <1>3

(* ... and the one a prompt starts with.                                    *)
LEMMA AskNew ==
  ASSUME NEW k \in Kinds
  PROVE  /\ New(k) \in Asked /\ New(k).kind = k /\ New(k).at = "waiting"
         /\ New(k).answer = "none" /\ New(k).of = "now"
BY DEF New, Asked, Free

(* What the slots and the prompts in them have to do with one another.      *)
LEMMA PromptFacts ==
  ASSUME PromptInv
  PROVE  /\ asks \in [Prompts -> Asked \cup {Free}] /\ pending \in [Kinds -> Prompts \cup {0}]
         /\ \A a \in Prompts : Waiting(a) => asks[a] \in Asked /\ pending[asks[a].kind] = a
         /\ \A a \in Prompts : asks[a].at # "free" => asks[a] \in Asked
         /\ \A k \in Kinds : pending[k] # 0 =>
              /\ pending[k] \in Prompts /\ asks[pending[k]] \in Asked
              /\ asks[pending[k]].kind = k /\ Waiting(pending[k])
<1>1. asks \in [Prompts -> Asked \cup {Free}] /\ pending \in [Kinds -> Prompts \cup {0}]
  BY DEF PromptInv, PromptTypes
<1>2. \A a \in Prompts : asks[a].at # "free" => asks[a] \in Asked
  BY <1>1, AskFacts
<1>3. \A a \in Prompts : Waiting(a) => asks[a] \in Asked /\ pending[asks[a].kind] = a
  BY <1>2 DEF PromptInv, WaitingIsPending, Waiting
<1>4. \A k \in Kinds : pending[k] # 0 =>
        /\ pending[k] \in Prompts /\ asks[pending[k]] \in Asked
        /\ asks[pending[k]].kind = k /\ Waiting(pending[k])
  BY <1>1, <1>3 DEF PromptInv, SlotsWait
<1> QED BY <1>1, <1>2, <1>3, <1>4

(* A step that leaves the prompts and their slots alone.                    *)
LEMMA PromptsKept ==
  ASSUME PromptInv, UNCHANGED <<asks, pending>>,
         \/ answers' = <<>> \/ answers' = answers
         \/ answers' = <<answers'[1]>> /\ answers'[1].kind \in Kinds
  PROVE  PromptInv'
<1>1. PromptTypes'
  BY DEF PromptInv, PromptTypes
<1>2. WaitingIsPending' /\ SlotsWait' /\ OneAtATime'
  BY DEF PromptInv, WaitingIsPending, SlotsWait, OneAtATime, Waiting, Active
<1> QED BY <1>1, <1>2 DEF PromptInv

(* A step that asks nothing new: what is asked still was asked before, for  *)
(* the same and of the same viewer or of one that is gone by now, and none  *)
(* waits or is awaited that was not.                                        *)
LEMMA PromptsMove ==
  ASSUME PromptInv,
         asks' \in [Prompts -> Asked \cup {Free}], pending' \in [Kinds -> Prompts \cup {0}],
         answers' = <<>> \/ answers' = answers,
         \A a \in Prompts : Active(a)' => /\ Active(a) /\ asks'[a].kind = asks[a].kind
                                          /\ asks'[a].of = asks[a].of \/ asks'[a].of = "gone",
         WaitingIsPending', SlotsWait'
  PROVE  PromptInv'
<1>1. PromptTypes'
  BY DEF PromptInv, PromptTypes
<1>2. ASSUME NEW a \in Prompts, NEW b \in Prompts, a # b, Active(a)', Active(b)',
             asks'[a].kind = asks'[b].kind
      PROVE  asks'[a].of = "gone" \/ asks'[b].of = "gone"
  BY <1>2 DEF PromptInv, OneAtATime
<1>3. OneAtATime'
  BY <1>2 DEF OneAtATime, Active
<1> QED BY <1>1, <1>3 DEF PromptInv

(* What dropping the sender of a kind leaves: nobody of the kind waits, and *)
(* nobody is preempted unless two of the session's own met.                 *)
LEMMA Drops ==
  ASSUME PromptInv, NEW k \in Kinds, NEW of \in {"now", "gone"},
         pending[k] # 0 /\ of = "now" => asks[pending[k]].of = "gone"
  PROVE  /\ Dropped(k, of) \in [Prompts -> Asked \cup {Free}]
         /\ \A a \in Prompts :
              /\ Dropped(k, of)[a].at = asks[a].at /\ Dropped(k, of)[a].kind = asks[a].kind
              /\ Dropped(k, of)[a].of = asks[a].of
              /\ a # pending[k] => Dropped(k, of)[a] = asks[a]
              /\ Waiting(a) /\ a = pending[k] => Dropped(k, of)[a].answer = "dropped"
<1> DEFINE d == Dropped(k, of)
<1>1. d = [a \in Prompts |->
             IF a # pending[k] \/ ~Waiting(a) THEN asks[a]
             ELSE Answered(asks[a], IF of = "now" /\ asks[a].of = "now" THEN "preempted"
                                    ELSE "dropped")]
  BY DEF Dropped, Answered
<1>2. /\ asks \in [Prompts -> Asked \cup {Free}]
      /\ \A a \in Prompts : Waiting(a) => asks[a] \in Asked
      /\ 0 \notin Prompts
  BY PromptFacts, AskFacts
<1>3. ASSUME NEW a \in Prompts
      PROVE  /\ d[a] \in Asked \cup {Free}
             /\ d[a].at = asks[a].at /\ d[a].kind = asks[a].kind /\ d[a].of = asks[a].of
             /\ a # pending[k] => d[a] = asks[a]
             /\ Waiting(a) /\ a = pending[k] => d[a].answer = "dropped"
  <2>1. CASE a # pending[k] \/ ~Waiting(a)
    BY <1>1, <1>2, <2>1
  <2>2. CASE a = pending[k] /\ Waiting(a)
    <3>1. a # 0 /\ ~(of = "now" /\ asks[a].of = "now")
      BY <1>2, <2>2
    <3>2. d[a] = Answered(asks[a], "dropped") /\ asks[a] \in Asked
      BY <1>1, <1>2, <2>2, <3>1
    <3> HIDE DEF d
    <3> QED BY <2>2, <3>2, AskMoves
  <2> QED BY <2>1, <2>2
<1>4. d = [a \in Prompts |-> d[a]]
  BY <1>1
<1> HIDE DEF d
<1>5. d \in [Prompts -> Asked \cup {Free}]
  BY <1>3, <1>4
<1> QED BY <1>3, <1>5 DEF d

(* A prompt is put up: none of its kind waits that the session or the share *)
(* loop still hears.                                                        *)
LEMMA AsksInv ==
  ASSUME PromptInv, NEW a \in Prompts, NEW k \in Kinds, promptUser(a, k)
  PROVE  PromptInv'
<1> DEFINE d == Dropped(k, "now")
<1>1. /\ asks[a].at = "free" /\ Alone(k) /\ asks' = [d EXCEPT ![a] = New(k)]
      /\ pending' = [pending EXCEPT ![k] = a] /\ answers' = answers
  BY DEF promptUser, NextAsk, New, windowVars
<1>2. /\ asks \in [Prompts -> Asked \cup {Free}] /\ pending \in [Kinds -> Prompts \cup {0}]
      /\ \A b \in Prompts : Waiting(b) => asks[b] \in Asked /\ pending[asks[b].kind] = b
      /\ \A j \in Kinds : pending[j] # 0 =>
              /\ pending[j] \in Prompts /\ asks[pending[j]] \in Asked
              /\ asks[pending[j]].kind = j /\ Waiting(pending[j])
  BY PromptFacts
<1>3. pending[k] # 0 => asks[pending[k]].of = "gone"
  BY <1>1, <1>2 DEF Alone, Active, Waiting
<1>4. /\ d \in [Prompts -> Asked \cup {Free}]
      /\ \A b \in Prompts :
              /\ d[b].at = asks[b].at /\ d[b].kind = asks[b].kind /\ d[b].of = asks[b].of
              /\ b # pending[k] => d[b] = asks[b]
              /\ Waiting(b) /\ b = pending[k] => d[b].answer = "dropped"
  BY <1>3, Drops
<1>5. /\ New(k) \in Asked /\ New(k).kind = k /\ New(k).at = "waiting"
      /\ New(k).answer = "none" /\ New(k).of = "now"
  BY AskNew
<1> HIDE DEF d
<1>6. /\ asks' \in [Prompts -> Asked \cup {Free}] /\ asks'[a] = New(k)
      /\ \A b \in Prompts : b # a => asks'[b] = d[b]
  BY <1>1, <1>4, <1>5
<1>7. /\ pending' \in [Kinds -> Prompts \cup {0}] /\ pending'[k] = a
      /\ \A j \in Kinds : j # k => pending'[j] = pending[j]
  BY <1>1, <1>2
<1>8. PromptTypes'
  BY <1>1, <1>6, <1>7 DEF PromptInv, PromptTypes
<1>9. ASSUME NEW b \in Prompts, Waiting(b)' PROVE pending'[asks'[b].kind] = b
  <2>1. CASE b = a
    BY <1>5, <1>6, <1>7, <2>1
  <2>2. CASE b # a
    <3>1. Waiting(b) /\ asks'[b] = d[b]
      <4>1. asks'[b] = d[b] /\ asks[b].at = "waiting" /\ d[b].answer = "none"
        BY <1>4, <1>6, <1>9, <2>2 DEF Waiting
      <4>2. CASE b = pending[k]
        BY <1>2, <1>4, <4>1, <4>2, AskFacts
      <4>3. CASE b # pending[k]
        BY <1>4, <4>1, <4>3 DEF Waiting
      <4> QED BY <4>2, <4>3
    <3>2. asks[b] \in Asked /\ pending[asks[b].kind] = b /\ b # pending[k]
      BY <1>2, <1>4, <1>9, <3>1 DEF Waiting
    <3>3. asks[b].kind # k /\ asks[b].kind \in Kinds
      BY <3>2, AskFacts
    <3> QED BY <1>4, <1>7, <3>1, <3>2, <3>3
  <2> QED BY <2>1, <2>2
<1>10. ASSUME NEW j \in Kinds, pending'[j] # 0
       PROVE  asks'[pending'[j]].kind = j /\ asks'[pending'[j]].at = "waiting"
              /\ asks'[pending'[j]].answer = "none"
  <2>1. CASE j = k
    BY <1>5, <1>6, <1>7, <2>1
  <2>2. CASE j # k
    <3> DEFINE b == pending[j]
    <3>1. /\ b \in Prompts /\ pending'[j] = b /\ asks[b].kind = j /\ Waiting(b)
      BY <1>2, <1>7, <1>10, <2>2
    <3>2. b # a
      BY <1>1, <3>1 DEF Waiting
    <3>3. b # pending[k]
      <4>1. b # 0
        BY <3>1, AskFacts
      <4> QED BY <1>2, <2>2, <3>1, <4>1
    <3> HIDE DEF b
    <3> QED BY <1>4, <1>6, <3>1, <3>2, <3>3 DEF Waiting
  <2> QED BY <2>1, <2>2
<1>11. ASSUME NEW b \in Prompts, b # a, Active(b)', asks'[b].kind = k PROVE asks'[b].of = "gone"
  <2>1. Active(b) /\ asks[b].kind = k /\ asks'[b].of = asks[b].of
    BY <1>4, <1>6, <1>11 DEF Active
  <2> QED BY <1>1, <2>1 DEF Alone
<1>12. ASSUME NEW b \in Prompts, NEW c \in Prompts, b # c, Active(b)', Active(c)',
              asks'[b].kind = asks'[c].kind
       PROVE  asks'[b].of = "gone" \/ asks'[c].of = "gone"
  <2>1. CASE b = a \/ c = a
    BY <1>5, <1>6, <1>11, <1>12, <2>1
  <2>2. CASE b # a /\ c # a
    <3>1. /\ Active(b) /\ Active(c) /\ asks[b].kind = asks[c].kind
          /\ asks'[b].of = asks[b].of /\ asks'[c].of = asks[c].of
      BY <1>4, <1>6, <1>12, <2>2 DEF Active
    <3> QED BY <1>12, <3>1 DEF PromptInv, OneAtATime
  <2> QED BY <2>1, <2>2
<1>13. WaitingIsPending'
  BY <1>9 DEF WaitingIsPending, Waiting
<1>14. SlotsWait'
  BY <1>10 DEF SlotsWait, Waiting
<1>15. OneAtATime'
  BY <1>12 DEF OneAtATime, Active
<1> QED BY <1>8, <1>13, <1>14, <1>15 DEF PromptInv

(* A prompt that is not waiting goes back or moves on; its answer stays.    *)
LEMMA OneMovesOn ==
  ASSUME PromptInv, NEW a \in Prompts, ~Waiting(a), NEW r,
         asks' = [asks EXCEPT ![a] = r], UNCHANGED <<pending, answers>>,
         r = Free \/ (asks[a].at = "cleared" /\ r = Moved(asks[a], "closed", asks[a].answer))
  PROVE  PromptInv'
<1>1. /\ asks \in [Prompts -> Asked \cup {Free}] /\ pending \in [Kinds -> Prompts \cup {0}]
      /\ \A b \in Prompts : Waiting(b) => asks[b] \in Asked /\ pending[asks[b].kind] = b
      /\ \A b \in Prompts : asks[b].at # "free" => asks[b] \in Asked
      /\ \A j \in Kinds : pending[j] # 0 =>
              /\ pending[j] \in Prompts /\ asks[pending[j]] \in Asked
              /\ asks[pending[j]].kind = j /\ Waiting(pending[j])
  BY PromptFacts
<1>2. /\ r \in Asked \cup {Free} /\ r.at # "waiting"
      /\ r.at = "free" \/ (/\ asks[a].at = "cleared" /\ r.at = "closed"
                           /\ r.kind = asks[a].kind /\ r.of = asks[a].of)
  <2>1. CASE r = Free
    BY <2>1, AskFacts
  <2>2. CASE asks[a].at = "cleared" /\ r = Moved(asks[a], "closed", asks[a].answer)
    <3>1. asks[a] \in Asked /\ asks[a].answer \in {"none", "allow", "mistake", "deny", "dropped"}
      BY <1>1, <2>2, AskFacts
    <3> QED BY <2>2, <3>1, AskMoves
  <2> QED BY <2>1, <2>2
<1>3. /\ asks' \in [Prompts -> Asked \cup {Free}] /\ asks'[a] = r
      /\ \A b \in Prompts : b # a => asks'[b] = asks[b]
  BY <1>1, <1>2
<1>4. ASSUME NEW b \in Prompts, Active(b)'
      PROVE  Active(b) /\ asks'[b].kind = asks[b].kind /\ asks'[b].of = asks[b].of
  BY <1>2, <1>3, <1>4 DEF Active
<1>5. WaitingIsPending'
  BY <1>1, <1>2, <1>3 DEF WaitingIsPending, Waiting
<1>6. SlotsWait'
  <2>1. ASSUME NEW j \in Kinds, pending[j] # 0
        PROVE  asks'[pending[j]].kind = j /\ asks'[pending[j]].at = "waiting"
               /\ asks'[pending[j]].answer = "none"
    BY <1>1, <1>3, <2>1 DEF Waiting
  <2> QED BY <2>1 DEF SlotsWait, Waiting
<1> QED BY <1>1, <1>3, <1>4, <1>5, <1>6, PromptsMove

(* A prompt is answered or given up, and it empties the slot of its kind,   *)
(* with whoever is in it.                                                   *)
LEMMA ResolvesInv ==
  ASSUME PromptInv, NEW a \in Prompts, Resolves(a) PROVE PromptInv'
<1> DEFINE k == asks[a].kind
           d == Dropped(k, asks[a].of)
           r == Moved(asks[a], "cleared", IF asks[a].answer = "none" THEN "deny"
                                          ELSE asks[a].answer)
<1>1. /\ asks[a].at = "waiting" /\ asks' = [d EXCEPT ![a] = r]
      /\ pending' = [pending EXCEPT ![k] = 0] /\ answers' = answers
  BY DEF Resolves, Moved, windowVars
<1>2. /\ asks \in [Prompts -> Asked \cup {Free}] /\ pending \in [Kinds -> Prompts \cup {0}]
      /\ \A b \in Prompts : Waiting(b) => asks[b] \in Asked /\ pending[asks[b].kind] = b
      /\ \A b \in Prompts : asks[b].at # "free" => asks[b] \in Asked
      /\ \A j \in Kinds : pending[j] # 0 =>
              /\ pending[j] \in Prompts /\ asks[pending[j]] \in Asked
              /\ asks[pending[j]].kind = j /\ Waiting(pending[j])
  BY PromptFacts
<1>3. asks[a] \in Asked /\ k \in Kinds /\ asks[a].of \in {"now", "gone"}
  BY <1>1, <1>2, AskFacts
<1>4. r \in Asked /\ r.at = "cleared" /\ r.kind = k /\ r.of = asks[a].of
  <2>1. (IF asks[a].answer = "none" THEN "deny" ELSE asks[a].answer)
          \in {"none", "allow", "mistake", "deny", "dropped"}
    BY <1>3, AskFacts
  <2> QED BY <1>3, <2>1, AskMoves
<1>5. CASE pending[k] = a
  <2> HIDE DEF r
  <2>1. \A b \in Prompts : b # a => d[b] = asks[b]
    BY <1>5 DEF Dropped
  <2>2. asks' = [b \in Prompts |-> IF b = a THEN r ELSE asks[b]]
    <3>1. d = [b \in Prompts |-> d[b]]
      BY DEF Dropped
    <3> HIDE DEF d
    <3> QED BY <1>1, <2>1, <3>1
  <2> HIDE DEF k, d
  <2>3. /\ asks' \in [Prompts -> Asked \cup {Free}] /\ asks'[a] = r
        /\ \A b \in Prompts : b # a => asks'[b] = asks[b]
    BY <1>2, <1>4, <2>2
  <2>4. /\ pending' \in [Kinds -> Prompts \cup {0}] /\ pending'[k] = 0
        /\ \A j \in Kinds : j # k => pending'[j] = pending[j]
    BY <1>1, <1>2, <1>3
  <2>5. ASSUME NEW b \in Prompts, Active(b)'
        PROVE  Active(b) /\ asks'[b].kind = asks[b].kind /\ asks'[b].of = asks[b].of
    BY <1>1, <1>4, <2>3, <2>5 DEF Active, k
  <2>6. ASSUME NEW b \in Prompts, Waiting(b)' PROVE pending'[asks'[b].kind] = b
    <3>1. b # a /\ asks'[b] = asks[b] /\ Waiting(b)
      BY <1>4, <2>3, <2>6 DEF Waiting
    <3>2. pending[asks[b].kind] = b /\ asks[b].kind \in Kinds
      BY <1>2, <3>1, AskFacts
    <3> QED BY <1>5, <2>4, <3>1, <3>2
  <2>7. ASSUME NEW j \in Kinds, pending'[j] # 0
        PROVE  asks'[pending'[j]].kind = j /\ asks'[pending'[j]].at = "waiting"
               /\ asks'[pending'[j]].answer = "none"
    <3>1. j # k /\ pending'[j] = pending[j]
      BY <2>4, <2>7
    <3>2. pending[j] \in Prompts /\ asks[pending[j]].kind = j /\ Waiting(pending[j])
      BY <1>2, <2>7, <3>1
    <3>3. pending[j] # a
      BY <3>1, <3>2 DEF k
    <3> QED BY <2>3, <3>1, <3>2, <3>3 DEF Waiting
  <2>8. WaitingIsPending' /\ SlotsWait'
    BY <2>6, <2>7 DEF WaitingIsPending, SlotsWait, Waiting
  <2> QED BY <1>1, <2>3, <2>4, <2>5, <2>8, PromptsMove
<1>6. CASE pending[k] # a
  <2>1. asks[a].answer # "none"
    BY <1>1, <1>2, <1>6 DEF Waiting
  <2>2. pending[k] # 0 /\ asks[a].of = "now" => asks[pending[k]].of = "gone"
    <3>1. ASSUME pending[k] # 0, asks[a].of = "now"
          PROVE  asks[pending[k]].of = "gone"
      <4>1. /\ pending[k] \in Prompts /\ asks[pending[k]].kind = k /\ Active(pending[k])
            /\ Active(a)
        BY <1>1, <1>2, <1>3, <3>1 DEF Waiting, Active
      <4> QED BY <1>6, <3>1, <4>1 DEF PromptInv, OneAtATime
    <3> QED BY <3>1
  <2>3. /\ d \in [Prompts -> Asked \cup {Free}]
        /\ \A b \in Prompts :
              /\ d[b].at = asks[b].at /\ d[b].kind = asks[b].kind /\ d[b].of = asks[b].of
              /\ b # pending[k] => d[b] = asks[b]
              /\ Waiting(b) /\ b = pending[k] => d[b].answer = "dropped"
    <3> HIDE DEF r
    <3> QED BY <1>3, <2>2, Drops
  <2> HIDE DEF r, d, k
  <2>4. /\ asks' \in [Prompts -> Asked \cup {Free}] /\ asks'[a] = r
        /\ \A b \in Prompts : b # a => asks'[b] = d[b]
    BY <1>1, <1>4, <2>3
  <2>5. /\ pending' \in [Kinds -> Prompts \cup {0}] /\ pending'[k] = 0
        /\ \A j \in Kinds : j # k => pending'[j] = pending[j]
    BY <1>1, <1>2, <1>3
  <2>6. ASSUME NEW b \in Prompts, Active(b)'
        PROVE  Active(b) /\ asks'[b].kind = asks[b].kind /\ asks'[b].of = asks[b].of
    BY <1>1, <1>4, <2>3, <2>4, <2>6 DEF Active, k
  <2>7. ASSUME NEW b \in Prompts, Waiting(b)' PROVE pending'[asks'[b].kind] = b
    <3>1. b # a /\ asks'[b] = d[b] /\ asks[b].at = "waiting" /\ d[b].answer = "none"
      BY <1>4, <2>3, <2>4, <2>7 DEF Waiting
    <3>2. b # pending[k]
      <4>1. SUFFICES ASSUME b = pending[k] PROVE FALSE
        OBVIOUS
      <4>2. b # 0
        BY AskFacts
      <4>3. Waiting(b)
        BY <1>2, <1>3, <4>1, <4>2
      <4> QED BY <2>3, <3>1, <4>1, <4>3
    <3>3. d[b] = asks[b] /\ Waiting(b)
      BY <2>3, <3>1, <3>2 DEF Waiting
    <3>4. pending[asks[b].kind] = b /\ asks[b].kind \in Kinds
      BY <1>2, <3>3, AskFacts
    <3> QED BY <2>5, <3>1, <3>2, <3>3, <3>4
  <2>8. ASSUME NEW j \in Kinds, pending'[j] # 0
        PROVE  asks'[pending'[j]].kind = j /\ asks'[pending'[j]].at = "waiting"
               /\ asks'[pending'[j]].answer = "none"
    <3>1. j # k /\ pending'[j] = pending[j]
      BY <2>5, <2>8
    <3>2. pending[j] \in Prompts /\ asks[pending[j]].kind = j /\ Waiting(pending[j])
      BY <1>2, <2>8, <3>1
    <3>3. pending[j] # a
      BY <3>1, <3>2 DEF k
    <3>4. pending[j] # pending[k]
      <4>1. pending[j] # 0
        BY <3>2, AskFacts
      <4> QED BY <1>2, <1>3, <3>1, <3>2, <4>1
    <3> QED BY <2>3, <2>4, <3>1, <3>2, <3>3, <3>4 DEF Waiting
  <2>9. WaitingIsPending' /\ SlotsWait'
    BY <2>7, <2>8 DEF WaitingIsPending, SlotsWait, Waiting
  <2> QED BY <1>1, <2>4, <2>5, <2>6, <2>9, PromptsMove
<1> QED BY <1>5, <1>6

(* The user's answer reaches the prompt in the slot, if it waits.           *)
LEMMA AnswerInv ==
  ASSUME PromptInv, respond_consent PROVE PromptInv'
<1>1. PICK r : answers = <<r>> /\ r.kind \in Kinds
  BY DEF respond_consent, PromptInv, PromptTypes
<1> DEFINE k == r.kind
           said(a) == IF ~r.allow THEN "deny" ELSE IF r.seen = a THEN "allow" ELSE "mistake"
<1>2. Head(answers) = r /\ Tail(answers) = <<>>
  BY <1>1
<1>3. respond(k, r.allow, r.seen) /\ answers' = <<>>
  BY <1>2 DEF respond_consent
<1>4. /\ asks' = [a \in Prompts |-> IF a # pending[k] \/ ~Waiting(a) THEN asks[a]
                                    ELSE Answered(asks[a], said(a))]
      /\ pending' = [pending EXCEPT ![k] = 0]
  BY <1>3 DEF respond, Answered
<1>5. /\ asks \in [Prompts -> Asked \cup {Free}] /\ pending \in [Kinds -> Prompts \cup {0}]
      /\ \A b \in Prompts : Waiting(b) => asks[b] \in Asked /\ pending[asks[b].kind] = b
      /\ \A j \in Kinds : pending[j] # 0 =>
              /\ pending[j] \in Prompts /\ asks[pending[j]] \in Asked
              /\ asks[pending[j]].kind = j /\ Waiting(pending[j])
  BY PromptFacts
<1>6. \A a : said(a) \in {"none", "allow", "mistake", "deny", "dropped"} /\ said(a) # "none"
  OBVIOUS
<1> HIDE DEF said, k
<1>7. ASSUME NEW a \in Prompts
      PROVE  /\ asks'[a] \in Asked \cup {Free}
             /\ asks'[a].at = asks[a].at /\ asks'[a].kind = asks[a].kind
             /\ asks'[a].of = asks[a].of
             /\ asks'[a] = asks[a] \/ (a = pending[k] /\ asks'[a].answer # "none")
             /\ a = pending[k] => asks'[a].answer # "none" \/ ~Waiting(a)
             /\ a # pending[k] => asks'[a] = asks[a]
  <2>1. CASE a # pending[k] \/ ~Waiting(a)
    BY <1>4, <1>5, <2>1
  <2>2. CASE a = pending[k] /\ Waiting(a)
    <3>1. asks'[a] = Answered(asks[a], said(a)) /\ asks[a] \in Asked
      BY <1>4, <1>5, <2>2
    <3>2. said(a) \in {"none", "allow", "mistake", "deny", "dropped"} /\ said(a) # "none"
      BY <1>6
    <3> QED BY <2>2, <3>1, <3>2, AskMoves
  <2> QED BY <2>1, <2>2
<1>8. asks' \in [Prompts -> Asked \cup {Free}]
  <2>1. asks' = [a \in Prompts |-> asks'[a]]
    BY <1>4
  <2> QED BY <1>7, <2>1
<1>9. /\ pending' \in [Kinds -> Prompts \cup {0}] /\ pending'[k] = 0
      /\ \A j \in Kinds : j # k => pending'[j] = pending[j]
  BY <1>1, <1>4, <1>5 DEF k
<1>10. ASSUME NEW b \in Prompts, Active(b)'
       PROVE  Active(b) /\ asks'[b].kind = asks[b].kind /\ asks'[b].of = asks[b].of
  BY <1>7, <1>10 DEF Active
<1>11. ASSUME NEW b \in Prompts, Waiting(b)' PROVE pending'[asks'[b].kind] = b
  <2>1. asks'[b] = asks[b] /\ Waiting(b) /\ b # pending[k]
    BY <1>7, <1>11 DEF Waiting
  <2>2. pending[asks[b].kind] = b /\ asks[b].kind \in Kinds
    BY <1>5, <2>1, AskFacts
  <2> QED BY <1>9, <2>1, <2>2
<1>12. ASSUME NEW j \in Kinds, pending'[j] # 0
       PROVE  asks'[pending'[j]].kind = j /\ asks'[pending'[j]].at = "waiting"
              /\ asks'[pending'[j]].answer = "none"
  <2>1. j # k /\ pending'[j] = pending[j]
    BY <1>9, <1>12
  <2>2. pending[j] \in Prompts /\ asks[pending[j]].kind = j /\ Waiting(pending[j])
    BY <1>5, <1>12, <2>1
  <2>3. pending[j] # pending[k]
    <3>1. pending[j] # 0 /\ k \in Kinds
      BY <1>1, <2>2, AskFacts DEF k
    <3> QED BY <1>5, <2>1, <2>2, <3>1
  <2> QED BY <1>7, <2>1, <2>2, <2>3 DEF Waiting
<1>13. WaitingIsPending' /\ SlotsWait'
  BY <1>11, <1>12 DEF WaitingIsPending, SlotsWait, Waiting
<1> QED BY <1>3, <1>8, <1>9, <1>10, <1>13, PromptsMove

(* A stop denies every prompt that waits: each is in the slot of its kind.  *)
LEMMA StopInv ==
  ASSUME PromptInv, trigger_stop_sharing PROVE PromptInv'
<1>1. /\ asks' = [a \in Prompts |-> IF ~Waiting(a) THEN asks[a]
                    ELSE IF a \in {pending[k] : k \in Kinds} THEN Answered(asks[a], "deny")
                    ELSE [asks[a] EXCEPT !.cut = TRUE]]
      /\ pending' = [k \in Kinds |-> 0] /\ answers' = answers
  BY DEF trigger_stop_sharing, cancel_all, CutOff, Answered, windowVars
<1>2. /\ asks \in [Prompts -> Asked \cup {Free}]
      /\ \A b \in Prompts : Waiting(b) => asks[b] \in Asked /\ pending[asks[b].kind] = b
  BY PromptFacts
<1>3. ASSUME NEW a \in Prompts
      PROVE  /\ asks'[a] \in Asked \cup {Free}
             /\ asks'[a].at = asks[a].at /\ asks'[a].kind = asks[a].kind
             /\ asks'[a].of = asks[a].of
             /\ ~(asks'[a].at = "waiting" /\ asks'[a].answer = "none")
  <2>1. CASE ~Waiting(a)
    BY <1>1, <1>2, <2>1 DEF Waiting
  <2>2. CASE Waiting(a)
    <3>1. asks[a] \in Asked /\ asks[a].kind \in Kinds /\ pending[asks[a].kind] = a
      BY <1>2, <2>2, AskFacts
    <3>2. asks'[a] = Answered(asks[a], "deny")
      BY <1>1, <2>2, <3>1
    <3> QED BY <3>1, <3>2, AskMoves
  <2> QED BY <2>1, <2>2
<1>4. asks' \in [Prompts -> Asked \cup {Free}]
  <2>1. asks' = [a \in Prompts |-> asks'[a]]
    BY <1>1
  <2> QED BY <1>3, <2>1
<1>5. pending' \in [Kinds -> Prompts \cup {0}] /\ \A k \in Kinds : pending'[k] = 0
  BY <1>1
<1>6. ASSUME NEW b \in Prompts, Active(b)'
      PROVE  Active(b) /\ asks'[b].kind = asks[b].kind /\ asks'[b].of = asks[b].of
  BY <1>3, <1>6 DEF Active
<1>7. WaitingIsPending'
  BY <1>3 DEF WaitingIsPending, Waiting
<1>8. SlotsWait'
  BY <1>5 DEF SlotsWait
<1> QED BY <1>1, <1>4, <1>5, <1>6, <1>7, <1>8, PromptsMove

(* The viewer leaves: its prompts for control and files are a gone viewer's *)
(* now, and wait on.                                                        *)
LEMMA LeavesInv ==
  ASSUME PromptInv, Leaves PROVE PromptInv'
<1>1. /\ asks' = [a \in Prompts |->
                    IF asks[a].kind \notin {"control", "file"} THEN asks[a]
                    ELSE IF asks[a].at = "closed" THEN Free ELSE Orphan(asks[a])]
      /\ UNCHANGED <<pending, answers>>
  BY DEF Leaves, Orphan, windowVars
<1>2. /\ asks \in [Prompts -> Asked \cup {Free}] /\ pending \in [Kinds -> Prompts \cup {0}]
      /\ \A b \in Prompts : Waiting(b) => asks[b] \in Asked /\ pending[asks[b].kind] = b
      /\ \A j \in Kinds : pending[j] # 0 =>
              /\ pending[j] \in Prompts /\ asks[pending[j]] \in Asked
              /\ asks[pending[j]].kind = j /\ Waiting(pending[j])
  BY PromptFacts
<1>3. ASSUME NEW a \in Prompts
      PROVE  /\ asks'[a] \in Asked \cup {Free}
             /\ \/ asks'[a].at = "free" /\ asks[a].at \in {"closed", "free"}
                \/ /\ asks'[a].at = asks[a].at /\ asks'[a].kind = asks[a].kind
                   /\ asks'[a].answer = asks[a].answer
                   /\ asks'[a].of = asks[a].of \/ asks'[a].of = "gone"
  <2>1. CASE asks[a].kind \notin {"control", "file"}
    BY <1>1, <1>2, <2>1
  <2>2. CASE asks[a].kind \in {"control", "file"} /\ asks[a].at = "closed"
    BY <1>1, <2>2, AskFacts
  <2>3. CASE asks[a].kind \in {"control", "file"} /\ asks[a].at # "closed"
    <3>1. asks'[a] = Orphan(asks[a])
      BY <1>1, <2>3
    <3>2. Free.kind = "none"
      BY DEF Free
    <3>3. asks[a] \in Asked
      BY <1>2, <2>3, <3>2
    <3> QED BY <3>1, <3>3, AskMoves
  <2> QED BY <2>1, <2>2, <2>3
<1>4. asks' \in [Prompts -> Asked \cup {Free}]
  <2>1. asks' = [a \in Prompts |-> asks'[a]]
    BY <1>1
  <2> QED BY <1>3, <2>1
<1>5. ASSUME NEW b \in Prompts, Active(b)'
      PROVE  /\ Active(b) /\ asks'[b].kind = asks[b].kind
             /\ asks'[b].of = asks[b].of \/ asks'[b].of = "gone"
  BY <1>3, <1>5 DEF Active
<1>6. WaitingIsPending'
  BY <1>1, <1>2, <1>3 DEF WaitingIsPending, Waiting
<1>7. SlotsWait'
  <2>1. ASSUME NEW j \in Kinds, pending[j] # 0
        PROVE  asks'[pending[j]].kind = j /\ asks'[pending[j]].at = "waiting"
               /\ asks'[pending[j]].answer = "none"
    BY <1>2, <1>3, <2>1 DEF Waiting
  <2> QED BY <1>1, <2>1 DEF SlotsWait, Waiting
<1> QED BY <1>1, <1>2, <1>4, <1>5, <1>6, <1>7, PromptsMove

(* Every step of the screen keeps the prompts and their slots in order.     *)
LEMMA ScreenNextInv ==
  ASSUME PromptInv, [ScreenNext]_promptingVars PROVE PromptInv'
<1>1. CASE \E a \in Prompts, k \in Kinds : promptUser(a, k)
  BY <1>1, AsksInv
<1>2. ASSUME NEW a \in Prompts, Resolves(a) PROVE PromptInv'
  BY <1>2, ResolvesInv
<1>3. ASSUME NEW a \in Prompts, Closes(a) PROVE PromptInv'
  <2>1. asks[a].at = "cleared" /\ UNCHANGED <<pending, answers>>
    BY <1>3 DEF Closes, Close, windowVars
  <2>2. asks' = [asks EXCEPT ![a] = IF Awaited(a) THEN Moved(asks[a], "closed", asks[a].answer)
                                    ELSE Free]
    <3>1. asks' = [asks EXCEPT ![a] = IF Awaited(a) THEN [asks[a] EXCEPT !.at = "closed"]
                                      ELSE Free]
      BY <1>3 DEF Closes, Close
    <3>2. [asks[a] EXCEPT !.at = "closed"] = Moved(asks[a], "closed", asks[a].answer)
      <4>1. asks[a] \in Asked
        BY <2>1, PromptFacts
      <4> QED BY <4>1 DEF Moved, Asked
    <3> QED BY <3>1, <3>2
  <2> QED BY <2>1, <2>2, OneMovesOn DEF Waiting
<1>4. ASSUME NEW a \in Prompts, Serves(a) \/ Leases(a) \/ StaysAway(a) PROVE PromptInv'
  <2>1. /\ asks[a].at = "closed" /\ asks' = [asks EXCEPT ![a] = Free]
        /\ UNCHANGED <<pending, answers>>
    BY <1>4 DEF Serves, Leases, StaysAway, Returns, windowVars
  <2> QED BY <2>1, OneMovesOn DEF Waiting
<1>5. CASE \/ RefusedAtOnce \/ LeaseExpires \/ ShareEnds \/ start_sharing \/ Handles
           \/ show_main_window \/ UNCHANGED promptingVars
  <2>1. UNCHANGED <<asks, pending, answers>>
    BY <1>5 DEF RefusedAtOnce, LeaseExpires, ShareEnds, start_sharing, Handles, show_main_window,
                promptingVars, promptVars, windowVars
  <2> QED BY <2>1, PromptsKept
<1>6. ASSUME NEW k \in Kinds, NEW allow \in BOOLEAN, respondOffer(k, allow) PROVE PromptInv'
  <2> DEFINE r == [kind |-> k, seen |-> display.dialogs[k], allow |-> allow]
  <2>1. UNCHANGED <<asks, pending>> /\ answers = <<>> /\ answers' = Append(answers, r)
    BY <1>6 DEF respondOffer, promptVars
  <2>2. answers' = <<r>> /\ r.kind = k
    BY <2>1
  <2> HIDE DEF r
  <2> QED BY <2>1, <2>2, PromptsKept
<1>7. CASE OfferTimesOut \/ \E k \in Kinds, allow \in BOOLEAN : Clicks(k, allow)
  BY <1>6, <1>7 DEF OfferTimesOut, Clicks, Kinds
<1>8. CASE Leaves \/ trigger_stop_sharing \/ respond_consent
  BY <1>8, LeavesInv, StopInv, AnswerInv
<1> QED BY <1>1, <1>2, <1>3, <1>4, <1>5, <1>7, <1>8 DEF ScreenNext

(* No prompt is up at first.                                                *)
LEMMA ScreenInitInv ==
  ASSUME ScreenInit PROVE PromptInv
<1>1. /\ asks = [a \in Prompts |-> Free] /\ pending = [k \in Kinds |-> 0] /\ answers = <<>>
  BY DEF ScreenInit
<1>2. \A a \in Prompts : ~Waiting(a) /\ ~Active(a)
  BY <1>1, AskFacts DEF Waiting, Active
<1> QED BY <1>1, <1>2 DEF PromptInv, PromptTypes, WaitingIsPending, SlotsWait, OneAtATime

-----------------------------------------------------------------------------
(* The panel that sends a file.                                             *)

SendAt == Calling \cup {"no", "waiting", "over", "sent"}

PanelTypes ==
  /\ sends \in [Sends -> [at : SendAt, sent : Nat]]
  /\ sending \in BOOLEAN /\ sessions \in Nat
  /\ awaited \in Sends \cup {0}
  /\ told \in Seq({"accepted", "rejected", "over", "live"})

(* The call whose wait is open waits; and while the panel refuses another   *)
(* file there is a call that goes on by itself, or this one with a timer.   *)
WaitIsOpen == awaited # 0 => sends[awaited].at = "waiting"
StuckNever ==
  sending => \/ \E n \in Sends : sends[n].at \in Calling
             \/ awaited # 0 /\ timers # {}

(* Before the page hears that the session lives nothing is sent, and after  *)
(* it has heard, the flag says whether a call is in flight, until the       *)
(* session is over for the page, which in a first session is for good.      *)
Idleness == ~sending /\ \A n \in Sends : ~InFlight(n)
Unheard == \E i \in DOMAIN told : told[i] = "live"
HeardOnce == \A i, j \in DOMAIN told : told[i] = "live" /\ told[j] = "live" => i = j
FirstSession ==
  /\ OneInFlight
  /\ pageLive /\ ~sending => \A n \in Sends : ~InFlight(n)
  /\ Unheard => ~pageLive /\ Idleness
  /\ HeardOnce
  /\ sessions = 0 => ~Unheard /\ ~pageLive /\ Idleness

PanelInv == PanelTypes /\ WaitIsOpen /\ StuckNever /\ (sessions <= 1 => FirstSession)

(* No call is number 0, and a call that moves keeps the shape.              *)
LEMMA CallMoves ==
  ASSUME PanelTypes, NEW n \in Sends, NEW to \in SendAt, Goes(n, to)
  PROVE  /\ sends' \in [Sends -> [at : SendAt, sent : Nat]] /\ sends'[n].at = to
         /\ \A m \in Sends : m # n => sends'[m] = sends[m]
<1> DEFINE r == [sends[n] EXCEPT !.at = to]
<1>1. sends \in [Sends -> [at : SendAt, sent : Nat]]
  BY DEF PanelTypes
<1>2. r \in [at : SendAt, sent : Nat] /\ r.at = to
  BY <1>1
<1>3. sends' = [sends EXCEPT ![n] = r]
  BY DEF Goes
<1> HIDE DEF r
<1> QED BY <1>1, <1>2, <1>3

(* The rule for a step that neither starts a session nor a call: a call     *)
(* that is in flight was, no word of a new session comes, the page does not *)
(* take one to live, and the flag falls only with the last call or for a    *)
(* page that no longer takes the session to live.                           *)
LEMMA PanelMoves ==
  ASSUME PanelInv, PanelTypes', WaitIsOpen', StuckNever', UNCHANGED sessions,
         \A n \in Sends : InFlight(n)' => InFlight(n),
         sending' => sending, pageLive' => pageLive, Unheard' => Unheard, HeardOnce => HeardOnce',
         sending /\ ~sending' => \/ ~pageLive'
                                 \/ \E n \in Sends : InFlight(n) /\ ~InFlight(n)'
  PROVE  PanelInv'
<1>1. ASSUME sessions <= 1 PROVE FirstSession'
  <2>1. FirstSession
    BY <1>1 DEF PanelInv
  <2>2. OneInFlight'
    BY <2>1 DEF FirstSession, OneInFlight, InFlight
  <2>3. Idleness => Idleness'
    BY DEF Idleness, InFlight
  <2>4. ASSUME pageLive', ~sending', NEW m \in Sends, InFlight(m)' PROVE FALSE
    <3>1. pageLive /\ InFlight(m)
      BY <2>4
    <3>2. sending
      BY <2>1, <3>1 DEF FirstSession
    <3>3. PICK n \in Sends : InFlight(n) /\ ~InFlight(n)'
      BY <2>4, <3>2
    <3>4. m = n
      BY <2>1, <3>1, <3>3 DEF FirstSession, OneInFlight
    <3> QED BY <2>4, <3>3, <3>4
  <2>5. (pageLive' /\ ~sending') => \A m \in Sends : ~InFlight(m)'
    BY <2>4
  <2>6. HeardOnce' /\ (Unheard' => ~pageLive' /\ Idleness')
    BY <2>1, <2>3 DEF FirstSession
  <2>7. sessions' = 0 => ~Unheard' /\ ~pageLive' /\ Idleness'
    BY <2>1, <2>3 DEF FirstSession
  <2> QED BY <2>2, <2>5, <2>6, <2>7 DEF FirstSession, InFlight
<1> QED BY <1>1 DEF PanelInv

(* What happens to the words on their way, but for the first of a session.  *)
LEMMA WordsMove ==
  ASSUME PanelTypes,
         \/ told' = told
         \/ \E w \in {"accepted", "rejected", "over"} : told' = Append(told, w)
         \/ told # <<>> /\ told' = Tail(told)
  PROVE  /\ told' \in Seq({"accepted", "rejected", "over", "live"})
         /\ (Unheard' => Unheard) /\ (HeardOnce => HeardOnce')
<1> DEFINE W == {"accepted", "rejected", "over", "live"}
<1>1. told \in Seq(W)
  BY DEF PanelTypes
<1> HIDE DEF W
<1>2. ASSUME told' = told
      PROVE  told' \in Seq(W) /\ (Unheard' => Unheard) /\ (HeardOnce => HeardOnce')
  BY <1>1, <1>2 DEF Unheard, HeardOnce
<1>3. ASSUME NEW w \in {"accepted", "rejected", "over"}, told' = Append(told, w)
      PROVE  told' \in Seq(W) /\ (Unheard' => Unheard) /\ (HeardOnce => HeardOnce')
  <2>1. w \in W /\ w # "live"
    BY <1>3 DEF W
  <2>2. /\ told' \in Seq(W) /\ Len(told') = Len(told) + 1 /\ told'[Len(told) + 1] = w
        /\ \A i \in 1 .. Len(told) : told'[i] = told[i]
    BY <1>1, <1>3, <2>1, AppendProperties
  <2>3. DOMAIN told = 1 .. Len(told) /\ DOMAIN told' = 1 .. Len(told') /\ Len(told) \in Nat
    BY <1>1, <2>2, LenProperties
  <2>4. \A i \in DOMAIN told' : told'[i] = "live" => i \in DOMAIN told /\ told[i] = "live"
    <3>1. SUFFICES ASSUME NEW i \in DOMAIN told', told'[i] = "live"
                   PROVE  i \in DOMAIN told /\ told[i] = "live"
      OBVIOUS
    <3>2. i \in 1 .. Len(told) + 1 /\ i # Len(told) + 1
      BY <2>1, <2>2, <2>3, <3>1
    <3>3. i \in 1 .. Len(told)
      <4>1. Len(told) \in Nat
        BY <2>3
      <4> QED BY <3>2, <4>1
    <3> QED BY <2>2, <2>3, <3>1, <3>3
  <2> QED BY <2>2, <2>4 DEF Unheard, HeardOnce
<1>4. ASSUME told # <<>>, told' = Tail(told)
      PROVE  told' \in Seq(W) /\ (Unheard' => Unheard) /\ (HeardOnce => HeardOnce')
  <2>1. /\ told' \in Seq(W) /\ Len(told') = Len(told) - 1
        /\ \A i \in 1 .. Len(told) - 1 : told'[i] = told[i + 1]
    BY <1>1, <1>4, HeadTailProperties
  <2>2. DOMAIN told = 1 .. Len(told) /\ DOMAIN told' = 1 .. Len(told') /\ Len(told) \in Nat
    BY <1>1, <2>1, LenProperties
  <2>3. \A i \in DOMAIN told' : i \in Nat /\ i + 1 \in DOMAIN told /\ told'[i] = told[i + 1]
    BY <2>1, <2>2
  <2>4. Unheard' => Unheard
    BY <2>3 DEF Unheard
  <2>5. HeardOnce => HeardOnce'
    <3>1. ASSUME HeardOnce, NEW i \in DOMAIN told', NEW j \in DOMAIN told',
                 told'[i] = "live", told'[j] = "live"
          PROVE  i = j
      <4>1. i + 1 = j + 1
        BY <2>3, <3>1 DEF HeardOnce
      <4> QED BY <2>3, <4>1
    <3> QED BY <3>1 DEF HeardOnce
  <2> QED BY <2>1, <2>4, <2>5
<1> QED BY <1>2, <1>3, <1>4 DEF W

(* A call ends, and the flag with it.                                       *)
LEMMA EndsInv ==
  ASSUME PanelInv, NEW n \in Sends, NEW how \in {"over", "sent"}, NEW tells, Ends(n, how, tells),
         InFlight(n), awaited' \in {0, awaited}, awaited = n => awaited' = 0,
         pageLive' => pageLive, UNCHANGED sessions,
         told' \in Seq({"accepted", "rejected", "over", "live"}),
         Unheard' => Unheard, HeardOnce => HeardOnce'
  PROVE  PanelInv'
<1>1. PanelTypes /\ WaitIsOpen /\ Goes(n, how) /\ sending' = FALSE
  BY DEF PanelInv, Ends
<1>2. /\ sends' \in [Sends -> [at : SendAt, sent : Nat]] /\ sends'[n].at = how
      /\ \A m \in Sends : m # n => sends'[m] = sends[m]
  BY <1>1, CallMoves DEF SendAt
<1>3. awaited \in Sends \cup {0} /\ 0 \notin Sends
  BY <1>1, PanelAssumption DEF PanelTypes
<1>4. PanelTypes'
  BY <1>1, <1>2, <1>3 DEF PanelTypes
<1>5. WaitIsOpen'
  BY <1>1, <1>2, <1>3 DEF WaitIsOpen
<1>6. ~InFlight(n)' /\ \A m \in Sends : InFlight(m)' => InFlight(m)
  BY <1>2 DEF InFlight, Calling
<1>7. StuckNever'
  BY <1>1 DEF StuckNever
<1> QED BY <1>1, <1>4, <1>5, <1>6, <1>7, PanelMoves

(* A call goes on to another step of its own.                               *)
LEMMA GoesOnInv ==
  ASSUME PanelInv, NEW n \in Sends, sends[n].at \in Calling,
         sends' \in [Sends -> [at : SendAt, sent : Nat]], sends'[n].at \in Calling,
         \A m \in Sends : m # n => sends'[m] = sends[m],
         UNCHANGED <<sending, awaited, timers, sessions, pageLive>>,
         told' = told \/ \E w \in {"accepted", "rejected", "over"} : told' = Append(told, w)
  PROVE  PanelInv'
<1>1. PanelTypes /\ WaitIsOpen /\ StuckNever
  BY DEF PanelInv
<1>2. /\ told' \in Seq({"accepted", "rejected", "over", "live"})
      /\ (Unheard' => Unheard) /\ (HeardOnce => HeardOnce')
  BY <1>1, WordsMove
<1>4. awaited \in Sends \cup {0} /\ 0 \notin Sends /\ "waiting" \notin Calling
  BY <1>1, PanelAssumption DEF PanelTypes, Calling
<1>5. PanelTypes'
  BY <1>1, <1>2 DEF PanelTypes
<1>6. WaitIsOpen'
  BY <1>1, <1>4 DEF WaitIsOpen
<1>7. StuckNever'
  BY <1>1 DEF StuckNever
<1>8. \A m \in Sends : InFlight(m)' => InFlight(m)
  BY DEF InFlight
<1> QED BY <1>1, <1>2, <1>5, <1>6, <1>7, <1>8, PanelMoves

(* The wait is settled, by whatever settles it: the call it was of goes on  *)
(* or ends.                                                                 *)
LEMMA SettlesInv ==
  ASSUME PanelInv, NEW answer, NEW stopped, NEW fired, settleAccept(answer, stopped, fired),
         UNCHANGED <<sessions, pageLive>>,
         \/ told' = told
         \/ told # <<>> /\ told' = Tail(told)
  PROVE  PanelInv'
<1>1. PanelTypes /\ WaitIsOpen /\ StuckNever /\ awaited' = 0
  BY DEF PanelInv, settleAccept
<1>2. /\ told' \in Seq({"accepted", "rejected", "over", "live"})
      /\ (Unheard' => Unheard) /\ (HeardOnce => HeardOnce')
  BY <1>1, WordsMove
<1>3. awaited \in Sends \cup {0} /\ 0 \notin Sends
  BY <1>1, PanelAssumption DEF PanelTypes
<1>4. CASE awaited = 0
  <2>1. UNCHANGED <<sends, sending>>
    BY <1>4 DEF settleAccept
  <2>2. PanelTypes'
    BY <1>1, <1>2, <2>1 DEF PanelTypes
  <2>3. WaitIsOpen' /\ StuckNever'
    BY <1>1, <1>4, <2>1 DEF WaitIsOpen, StuckNever
  <2>4. \A m \in Sends : InFlight(m)' => InFlight(m)
    BY <2>1 DEF InFlight
  <2> QED BY <1>2, <2>1, <2>2, <2>3, <2>4, PanelMoves
<1>5. CASE awaited # 0 /\ answer = "accepted" /\ ~stopped
  <2>1. Goes(awaited, "reading") /\ sending' = sending /\ awaited \in Sends
    BY <1>3, <1>5 DEF settleAccept
  <2>2. /\ sends' \in [Sends -> [at : SendAt, sent : Nat]] /\ sends'[awaited].at = "reading"
        /\ \A m \in Sends : m # awaited => sends'[m] = sends[m]
    <3>1. "reading" \in SendAt
      BY DEF SendAt, Calling
    <3> QED BY <1>1, <2>1, <3>1, CallMoves
  <2>3. PanelTypes'
    BY <1>1, <1>2, <2>1, <2>2 DEF PanelTypes
  <2>4. WaitIsOpen' /\ StuckNever'
    BY <1>1, <2>1, <2>2 DEF WaitIsOpen, StuckNever, Calling
  <2>5. \A m \in Sends : InFlight(m)' => InFlight(m)
    BY <1>1, <1>5, <2>2 DEF InFlight, WaitIsOpen
  <2> QED BY <1>2, <2>1, <2>3, <2>4, <2>5, PanelMoves
<1>6. CASE awaited # 0 /\ ~(answer = "accepted" /\ ~stopped)
  <2>1. PICK tells : Ends(awaited, "over", tells)
    BY <1>6 DEF settleAccept
  <2>2. awaited \in Sends /\ InFlight(awaited)
    BY <1>1, <1>3, <1>6 DEF InFlight, WaitIsOpen
  <2> QED BY <1>1, <1>2, <2>1, <2>2, EndsInv
<1> QED BY <1>4, <1>5, <1>6

(* The panel is reset, of a session that is over for the page.              *)
LEMMA ResetInv ==
  ASSUME PanelInv, Reset, ~pageLive', UNCHANGED sessions,
         told' = told \/ (told # <<>> /\ told' = Tail(told))
  PROVE  PanelInv'
<1>1. PanelTypes /\ WaitIsOpen /\ StuckNever
  BY DEF PanelInv
<1>2. /\ told' \in Seq({"accepted", "rejected", "over", "live"})
      /\ (Unheard' => Unheard) /\ (HeardOnce => HeardOnce')
  BY <1>1, WordsMove
<1>3. awaited \in Sends \cup {0} /\ 0 \notin Sends
  BY <1>1, PanelAssumption DEF PanelTypes
<1>4. CASE ~sending
  <2>1. UNCHANGED <<sends, sending, awaited, timers>>
    BY <1>4 DEF Reset, waitVars
  <2>2. PanelTypes' /\ WaitIsOpen' /\ StuckNever'
    BY <1>1, <1>2, <2>1 DEF PanelTypes, WaitIsOpen, StuckNever
  <2>3. \A m \in Sends : InFlight(m)' => InFlight(m)
    BY <2>1 DEF InFlight
  <2> QED BY <1>2, <2>1, <2>2, <2>3, PanelMoves
<1>5. CASE sending
  <2>1. sending' = FALSE /\ awaited' = 0 /\ (awaited = 0 => UNCHANGED sends)
        /\ (awaited # 0 => Goes(awaited, "over"))
    BY <1>5 DEF Reset
  <2>2. /\ sends' \in [Sends -> [at : SendAt, sent : Nat]]
        /\ \A m \in Sends : sends'[m] = sends[m] \/ sends'[m].at = "over"
    <3>1. CASE awaited = 0
      BY <1>1, <2>1, <3>1 DEF PanelTypes
    <3>2. CASE awaited # 0
      BY <1>1, <1>3, <2>1, <3>2, CallMoves DEF SendAt
    <3> QED BY <3>1, <3>2
  <2>3. PanelTypes' /\ WaitIsOpen' /\ StuckNever'
    BY <1>1, <1>2, <2>1, <2>2 DEF PanelTypes, WaitIsOpen, StuckNever
  <2>4. \A m \in Sends : InFlight(m)' => InFlight(m)
    BY <2>2 DEF InFlight, Calling
  <2> QED BY <1>2, <2>1, <2>3, <2>4, PanelMoves
<1> QED BY <1>4, <1>5

(* What a call does itself.                                                 *)
LEMMA CallInvar ==
  ASSUME PanelInv, NEW n \in Sends,
         \/ Picks(n) \/ file_begin(n) \/ BeginFails(n) \/ waitForAccept(n)
         \/ TimerFires(n) \/ SliceRead(n) \/ SliceSent(n)
  PROVE  PanelInv'
<1>1. /\ PanelTypes /\ WaitIsOpen /\ StuckNever
      /\ sends \in [Sends -> [at : SendAt, sent : Nat]] /\ awaited \in Sends \cup {0}
      /\ 0 \notin Sends
  BY PanelAssumption DEF PanelInv, PanelTypes
<1>2. CASE Picks(n)
  <2>1. /\ pageLive /\ ~sending /\ sends[n].at = "no" /\ Goes(n, "begin") /\ sending' = TRUE
        /\ UNCHANGED <<pageLive, sessions, awaited, timers, told>>
    BY <1>2 DEF Picks, sessionOnly, waitVars
  <2>2. /\ sends' \in [Sends -> [at : SendAt, sent : Nat]] /\ sends'[n].at = "begin"
        /\ \A m \in Sends : m # n => sends'[m] = sends[m]
    <3>1. "begin" \in SendAt
      BY DEF SendAt, Calling
    <3> QED BY <1>1, <2>1, <3>1, CallMoves
  <2>3. PanelTypes'
    BY <1>1, <2>1, <2>2 DEF PanelTypes
  <2>4. WaitIsOpen' /\ StuckNever'
    BY <1>1, <2>1, <2>2 DEF WaitIsOpen, StuckNever, Calling
  <2>5. ASSUME sessions <= 1 PROVE FirstSession'
    <3>1. FirstSession /\ \A m \in Sends : ~InFlight(m)
      BY <2>1, <2>5 DEF PanelInv, FirstSession
    <3>2. ~Unheard' /\ HeardOnce' /\ sessions' # 0
      BY <2>1, <3>1 DEF FirstSession, Unheard, HeardOnce
    <3>3. OneInFlight'
      BY <2>2, <3>1 DEF OneInFlight, InFlight
    <3> QED BY <2>1, <3>2, <3>3 DEF FirstSession
  <2> QED BY <2>1, <2>3, <2>4, <2>5 DEF PanelInv
<1>3. CASE file_begin(n)
  <2>1. PICK to \in {"begun", "refused"} : Goes(n, to)
    BY <1>3 DEF file_begin
  <2>2. /\ sends[n].at = "begin" /\ UNCHANGED <<pageLive, sessions, sending, awaited, timers>>
        /\ told' = told \/ told' = Append(told, "rejected")
    BY <1>3 DEF file_begin, Offered, sessionOnly, flags, waitVars
  <2>3. to \in SendAt /\ to \in Calling /\ sends[n].at \in Calling
    BY <2>2 DEF SendAt, Calling
  <2>4. /\ sends' \in [Sends -> [at : SendAt, sent : Nat]] /\ sends'[n].at = to
        /\ \A m \in Sends : m # n => sends'[m] = sends[m]
    BY <1>1, <2>1, <2>3, CallMoves
  <2> QED BY <2>2, <2>3, <2>4, GoesOnInv
<1>4. CASE BeginFails(n)
  <2>1. /\ Ends(n, "over", TRUE) /\ sends[n].at = "refused"
        /\ UNCHANGED <<pageLive, sessions, awaited, told>>
    BY <1>4 DEF BeginFails, sessionOnly, waitVars
  <2>2. InFlight(n) /\ awaited # n
    BY <1>1, <2>1 DEF InFlight, Calling, WaitIsOpen
  <2> QED BY <1>1, <2>1, <2>2, EndsInv DEF PanelTypes, Unheard, HeardOnce
<1>5. CASE waitForAccept(n)
  <2>1. /\ sends[n].at = "begun" /\ Goes(n, "waiting") /\ awaited' = n /\ timers' # {}
        /\ UNCHANGED <<pageLive, sessions, sending, told>>
    BY <1>5 DEF waitForAccept, sessionOnly, flags
  <2>2. /\ sends' \in [Sends -> [at : SendAt, sent : Nat]] /\ sends'[n].at = "waiting"
        /\ \A m \in Sends : m # n => sends'[m] = sends[m]
    BY <1>1, <2>1, CallMoves DEF SendAt
  <2>3. PanelTypes'
    BY <1>1, <2>1, <2>2 DEF PanelTypes
  <2>4. WaitIsOpen' /\ StuckNever'
    BY <1>1, <2>1, <2>2 DEF WaitIsOpen, StuckNever
  <2>5. \A m \in Sends : InFlight(m)' => InFlight(m)
    BY <2>1, <2>2 DEF InFlight, Calling
  <2>6. (Unheard' => Unheard) /\ (HeardOnce => HeardOnce')
    BY <2>1 DEF Unheard, HeardOnce
  <2> QED BY <2>1, <2>3, <2>4, <2>5, <2>6, PanelMoves
<1>6. CASE TimerFires(n)
  <2>1. settleAccept("timeout", isCancelled, {n}) /\ UNCHANGED <<sessions, pageLive, told>>
    BY <1>6 DEF TimerFires, sessionOnly
  <2> QED BY <2>1, SettlesInv
<1>7. CASE SliceRead(n)
  <2>1. sends[n].at = "reading" /\ UNCHANGED <<pageLive, sessions, awaited, timers, told>>
    BY <1>7 DEF SliceRead, sessionOnly, waitVars
  <2>2. InFlight(n) /\ awaited # n /\ sends[n].at \in Calling
    BY <1>1, <2>1 DEF InFlight, Calling, WaitIsOpen
  <2>3. CASE isCancelled \/ ~held
    <3>1. Ends(n, "over", TRUE)
      BY <1>7, <2>3 DEF SliceRead
    <3> QED BY <1>1, <2>1, <2>2, <3>1, EndsInv DEF PanelTypes, Unheard, HeardOnce
  <2>4. CASE ~(isCancelled \/ ~held)
    <3>1. Goes(n, "posting") /\ UNCHANGED sending
      BY <1>7, <2>4 DEF SliceRead
    <3>2. "posting" \in SendAt /\ "posting" \in Calling
      BY DEF SendAt, Calling
    <3>3. /\ sends' \in [Sends -> [at : SendAt, sent : Nat]] /\ sends'[n].at = "posting"
          /\ \A m \in Sends : m # n => sends'[m] = sends[m]
      BY <1>1, <3>1, <3>2, CallMoves
    <3> QED BY <2>1, <2>2, <3>1, <3>2, <3>3, GoesOnInv
  <2> QED BY <2>3, <2>4
<1>8. CASE SliceSent(n)
  <2>1. sends[n].at = "posting" /\ UNCHANGED <<pageLive, sessions, awaited, timers, told>>
    BY <1>8 DEF SliceSent, sessionOnly, waitVars
  <2>2. InFlight(n) /\ awaited # n /\ sends[n].at \in Calling
    BY <1>1, <2>1 DEF InFlight, Calling, WaitIsOpen
  <2>3. (Unheard' => Unheard) /\ (HeardOnce => HeardOnce')
    BY <2>1 DEF Unheard, HeardOnce
  <2>4. CASE sends[n].sent + 1 = MaxSlices
    <3>1. PICK r \in [at : {"sent", "over"}, sent : Nat] :
            sends' = [sends EXCEPT ![n] = r] /\ sending' = FALSE
      BY <1>8, <2>4 DEF SliceSent
    <3>2. r \in [at : SendAt, sent : Nat] /\ r.at \in {"sent", "over"}
      BY DEF SendAt
    <3>3. /\ sends' \in [Sends -> [at : SendAt, sent : Nat]] /\ sends'[n] = r
          /\ \A m \in Sends : m # n => sends'[m] = sends[m]
      BY <1>1, <3>1, <3>2
    <3>4. PanelTypes'
      BY <1>1, <2>1, <3>1, <3>3 DEF PanelTypes
    <3>5. WaitIsOpen' /\ StuckNever'
      BY <1>1, <2>1, <2>2, <3>1, <3>3 DEF WaitIsOpen, StuckNever
    <3>6. ~InFlight(n)' /\ \A m \in Sends : InFlight(m)' => InFlight(m)
      BY <3>2, <3>3 DEF InFlight, Calling
    <3> QED BY <2>1, <2>2, <2>3, <3>1, <3>4, <3>5, <3>6, PanelMoves
  <2>5. CASE sends[n].sent + 1 # MaxSlices
    <3> DEFINE r == [at |-> "reading", sent |-> sends[n].sent + 1]
    <3>1. sends' = [sends EXCEPT ![n] = r] /\ UNCHANGED sending
      BY <1>8, <2>5 DEF SliceSent
    <3>2. r \in [at : SendAt, sent : Nat] /\ r.at \in Calling
      BY <1>1 DEF SendAt, Calling
    <3> HIDE DEF r
    <3>3. /\ sends' \in [Sends -> [at : SendAt, sent : Nat]] /\ sends'[n] = r
          /\ \A m \in Sends : m # n => sends'[m] = sends[m]
      BY <1>1, <3>1, <3>2
    <3> QED BY <2>1, <2>2, <3>1, <3>2, <3>3, GoesOnInv
  <2> QED BY <2>4, <2>5
<1> QED BY <1>2, <1>3, <1>4, <1>5, <1>6, <1>7, <1>8

(* What leaves the calls and the flag alone, and tells nothing of a new     *)
(* session.                                                                 *)
LEMMA PanelKept ==
  ASSUME PanelInv, UNCHANGED <<sends, sending, awaited, timers, sessions>>, pageLive' => pageLive,
         \/ told' = told \/ \E w \in {"accepted", "rejected", "over"} : told' = Append(told, w)
         \/ told # <<>> /\ told' = Tail(told)
  PROVE  PanelInv'
<1>1. PanelTypes /\ WaitIsOpen /\ StuckNever
  BY DEF PanelInv
<1>2. /\ told' \in Seq({"accepted", "rejected", "over", "live"})
      /\ (Unheard' => Unheard) /\ (HeardOnce => HeardOnce')
  BY <1>1, WordsMove
<1>3. PanelTypes' /\ WaitIsOpen' /\ StuckNever'
  BY <1>1, <1>2 DEF PanelTypes, WaitIsOpen, StuckNever
<1>4. \A m \in Sends : InFlight(m)' => InFlight(m)
  BY DEF InFlight
<1> QED BY <1>2, <1>3, <1>4, PanelMoves

(* The page hears that the session lives: nothing was sent in it before.    *)
LEMMA HearsLive ==
  ASSUME PanelInv, told # <<>>, Head(told) = "live", told' = Tail(told), pageLive' = TRUE,
         UNCHANGED <<sends, sending, awaited, timers, sessions>>
  PROVE  PanelInv'
<1> DEFINE W == {"accepted", "rejected", "over", "live"}
<1>1. PanelTypes /\ WaitIsOpen /\ StuckNever /\ told \in Seq(W)
  BY DEF PanelInv, PanelTypes
<1>2. /\ told' \in Seq(W) /\ (Unheard' => Unheard) /\ (HeardOnce => HeardOnce')
  BY <1>1, WordsMove
<1>3. PanelTypes' /\ WaitIsOpen' /\ StuckNever'
  BY <1>1, <1>2 DEF PanelTypes, WaitIsOpen, StuckNever
<1>4. /\ 1 \in DOMAIN told /\ told[1] = "live"
      /\ \A i \in DOMAIN told' : i \in Nat \ {0} /\ i + 1 \in DOMAIN told /\ told'[i] = told[i + 1]
  <2> HIDE DEF W
  <2>1. /\ Len(told') = Len(told) - 1 /\ Head(told) = told[1]
        /\ \A i \in 1 .. Len(told) - 1 : told'[i] = told[i + 1]
    BY <1>1, HeadTailProperties
  <2>2. DOMAIN told = 1 .. Len(told) /\ DOMAIN told' = 1 .. Len(told') /\ Len(told) \in Nat
        /\ Len(told) # 0
    BY <1>1, <1>2, LenProperties
  <2> QED BY <2>1, <2>2
<1>5. ASSUME sessions <= 1 PROVE FirstSession'
  <2>1. FirstSession /\ Unheard
    BY <1>4, <1>5 DEF PanelInv, Unheard
  <2>2. Idleness /\ sessions # 0 /\ HeardOnce
    BY <2>1 DEF FirstSession
  <2>3. ~Unheard'
    <3>1. ASSUME NEW i \in DOMAIN told', told'[i] = "live" PROVE FALSE
      <4>1. i + 1 = 1
        BY <1>4, <2>2, <3>1 DEF HeardOnce
      <4> QED BY <1>4, <4>1
    <3> QED BY <3>1 DEF Unheard
  <2>4. Idleness' /\ OneInFlight'
    BY <2>2 DEF Idleness, OneInFlight, InFlight
  <2> QED BY <1>2, <2>2, <2>3, <2>4 DEF FirstSession, Idleness
<1> QED BY <1>3, <1>5 DEF PanelInv

(* A session starts, and the page is told: in the first, it knows of none.  *)
LEMMA SessionStartsInv ==
  ASSUME PanelInv, SessionStarts PROVE PanelInv'
<1> DEFINE W == {"accepted", "rejected", "over", "live"}
<1>1. PanelTypes /\ WaitIsOpen /\ StuckNever /\ told \in Seq(W) /\ sessions \in Nat
  BY DEF PanelInv, PanelTypes
<1>2. /\ ~pageLive /\ sessions' = sessions + 1 /\ told' = Append(told, "live")
      /\ UNCHANGED <<pageLive, sends, sending, awaited, timers>>
  BY DEF SessionStarts, flags, waitVars
<1>3. /\ told' \in Seq(W) /\ DOMAIN told = 1 .. Len(told) /\ Len(told) \in Nat
      /\ DOMAIN told' = 1 .. Len(told) + 1
      /\ \A i \in 1 .. Len(told) : told'[i] = told[i]
  <2>1. "live" \in W
    OBVIOUS
  <2> HIDE DEF W
  <2>2. /\ told' \in Seq(W) /\ Len(told') = Len(told) + 1
        /\ \A i \in 1 .. Len(told) : told'[i] = told[i]
    BY <1>1, <1>2, <2>1, AppendProperties
  <2> QED BY <1>1, <2>2, LenProperties
<1>4. PanelTypes'
  BY <1>1, <1>2, <1>3 DEF PanelTypes
<1>5. WaitIsOpen' /\ StuckNever'
  BY <1>1, <1>2 DEF WaitIsOpen, StuckNever
<1>6. ASSUME sessions' <= 1 PROVE FirstSession'
  <2>1. sessions = 0 /\ sessions' # 0
    BY <1>1, <1>2, <1>6
  <2>2. FirstSession /\ ~Unheard /\ Idleness
    BY <2>1 DEF PanelInv, FirstSession
  <2>3. Idleness' /\ OneInFlight'
    BY <1>2, <2>2 DEF Idleness, OneInFlight, InFlight
  <2>4. \A i \in DOMAIN told' : told'[i] = "live" => i = Len(told) + 1
    BY <1>3, <2>2 DEF Unheard
  <2>5. HeardOnce'
    BY <2>4 DEF HeardOnce
  <2> QED BY <1>2, <2>1, <2>3, <2>5 DEF FirstSession, Idleness
<1> QED BY <1>4, <1>5, <1>6 DEF PanelInv

(* Every step keeps the panel going, and its first session to one call.     *)
LEMMA PanelNextInv ==
  ASSUME PanelInv, [PanelNext]_panelVars PROVE PanelInv'
<1>1. CASE \E n \in Sends : \/ Picks(n) \/ file_begin(n) \/ BeginFails(n) \/ waitForAccept(n)
                            \/ TimerFires(n) \/ SliceRead(n) \/ SliceSent(n)
  BY <1>1, CallInvar
<1>2. CASE Cancels
  <2>1. settleAccept("cancelled", TRUE, {}) /\ UNCHANGED <<sessions, pageLive, told>>
    BY <1>2 DEF Cancels, sessionOnly
  <2> QED BY <2>1, SettlesInv
<1>3. CASE Hears
  <2>1. told # <<>> /\ told' = Tail(told) /\ UNCHANGED sessions
    BY <1>3 DEF Hears
  <2>2. CASE settleAccept(Head(told), isCancelled, {}) /\ UNCHANGED pageLive
    BY <2>1, <2>2, SettlesInv
  <2>3. CASE Head(told) = "over" /\ panel = "main"
    <3>1. Reset /\ pageLive' = FALSE
      BY <1>3, <2>3 DEF Hears
    <3> QED BY <2>1, <2>3, <3>1, ResetInv
  <2>4. CASE Head(told) = "over" /\ panel # "main"
    <3>1. UNCHANGED <<sends, sending, awaited, timers, pageLive>>
      BY <1>3, <2>4 DEF Hears, waitVars
    <3> QED BY <2>1, <2>4, <3>1, PanelKept
  <2>5. CASE Head(told) = "live" /\ pageLive' = TRUE
    <3>1. UNCHANGED <<sends, sending, awaited, timers>>
      BY <1>3, <2>5 DEF Hears, waitVars, flags
    <3> QED BY <2>1, <2>5, <3>1, HearsLive
  <2> QED BY <1>3, <2>2, <2>3, <2>4, <2>5 DEF Hears
<1>4. CASE SessionStarts
  BY <1>4, SessionStartsInv
<1>5. CASE SessionLost
  <2>1. /\ UNCHANGED <<sends, sending, awaited, timers, sessions, pageLive>>
        /\ told' = Append(told, "over")
    BY <1>5 DEF SessionLost, flags, waitVars
  <2> QED BY <2>1, PanelKept
<1>6. CASE SessionClosed
  BY <1>6, ResetInv DEF SessionClosed
<1>7. CASE \E allow \in BOOLEAN : HostDecides(allow)
  <2>1. PICK w \in {"accepted", "rejected"} : told' = Append(told, w)
    BY <1>7 DEF HostDecides
  <2>2. UNCHANGED <<sends, sending, awaited, timers, sessions, pageLive>>
    BY <1>7 DEF HostDecides, sessionOnly, flags, waitVars
  <2> QED BY <2>1, <2>2, PanelKept
<1>8. CASE Disconnects
  <2>1. /\ UNCHANGED <<sends, sending, awaited, timers, sessions, pageLive>>
        /\ told' = told \/ told' = Append(told, "over")
    BY <1>8 DEF Disconnects, flags, waitVars
  <2> QED BY <2>1, PanelKept
<1>9. CASE UNCHANGED panelVars
  <2>1. UNCHANGED <<sends, sending, awaited, timers, sessions, pageLive, told>>
    BY <1>9 DEF panelVars, sessionOnly
  <2> QED BY <2>1, PanelKept
<1> QED BY <1>1, <1>2, <1>3, <1>4, <1>5, <1>6, <1>7, <1>8, <1>9 DEF PanelNext

(* Nothing is sent at first.                                                *)
LEMMA PanelInitInv ==
  ASSUME PanelInit PROVE PanelInv
<1>1. /\ sends = [n \in Sends |-> [at |-> "no", sent |-> 0]] /\ told = <<>>
      /\ sessions = 0 /\ sending = FALSE /\ awaited = 0 /\ ~pageLive
  BY DEF PanelInit
<1>2. \A n \in Sends : ~InFlight(n)
  BY <1>1 DEF InFlight, Calling
<1>3. PanelTypes
  <2>1. [at |-> "no", sent |-> 0] \in [at : SendAt, sent : Nat]
    BY DEF SendAt
  <2>2. sends \in [Sends -> [at : SendAt, sent : Nat]]
    BY <1>1, <2>1
  <2>3. told \in Seq({"accepted", "rejected", "over", "live"})
    BY <1>1
  <2>4. sending \in BOOLEAN /\ sessions \in Nat /\ awaited \in Sends \cup {0}
    BY <1>1
  <2> QED BY <2>2, <2>3, <2>4 DEF PanelTypes
<1>4. ~Unheard /\ HeardOnce
  BY <1>1 DEF Unheard, HeardOnce
<1> QED BY <1>1, <1>2, <1>3, <1>4
    DEF PanelInv, FirstSession, OneInFlight, Idleness, WaitIsOpen, StuckNever

(* What the panel promises.                                                 *)
LEMMA PanelPromise ==
  ASSUME PanelInv PROVE NeverStuck /\ OneInASession
<1>1. awaited \in Sends \cup {0}
  BY DEF PanelInv, PanelTypes
<1>2. NeverStuck
  BY <1>1 DEF PanelInv, NeverStuck, StuckNever, WaitIsOpen
<1> QED BY <1>2 DEF PanelInv, FirstSession, OneInASession

-----------------------------------------------------------------------------
(* What the windows show.                                                   *)

(* What is emitted to the windows.                                          *)
Askings == [is : {"request"}, kind : Kinds, ask : Prompts]
Closings == [is : {"closed"}, kind : Kinds]
Marks == [is : {"viewer", "control", "share"}, on : BOOLEAN]
Emitted == Askings \cup Closings \cup Marks

(* How an event moves the count of the requests that the page has handled   *)
(* and not seen closed, by kind: it never closes one that is not there.     *)
Counts == [Kinds -> Nat]
Effect(e, c, d) ==
  /\ e.is = "request" => d = [c EXCEPT ![e.kind] = @ + 1]
  /\ e.is = "closed" => c[e.kind] # 0 /\ d = [c EXCEPT ![e.kind] = @ - 1]
  /\ e.is \notin {"request", "closed"} => d = c

(* What a window will have shown before and after each event on its way, of *)
(* the states S and moving as R says.                                       *)
Links(g, ev, S, R) ==
  /\ g \in Seq(S) /\ Len(g) = Len(ev) + 1
  /\ \A i \in 1 .. Len(ev) : <<ev[i], g[i], g[i + 1]>> \in R
Counting == {x \in Emitted \X Counts \X Counts : Effect(x[1], x[2], x[3])}

(* The counts from the page's, over the events on their way, to what is up. *)
All(c) == c["access"] + c["control"] + c["file"]

Up(k) == {a \in Prompts : asks[a].kind = k /\ asks[a].at \in {"waiting", "cleared"}}
Shown(c) ==
  /\ display.open = IF page = "main" THEN All(c) ELSE 0
  /\ \A k \in Kinds : display.dialogs[k] # 0 /\ (k # "file" \/ page = "shell") => c[k] # 0

ScreenTypes ==
  /\ page \in {"main", "shell"}
  /\ display \in [dialogs : [Kinds -> Nat], open : Nat, sharing : BOOLEAN]
  /\ events \in Seq(Emitted)

CountInv ==
  /\ ScreenTypes
  /\ \A k \in Kinds : IsFiniteSet(Up(k))
  /\ \E g : /\ Links(g, events, Counts, Counting)
            /\ \A k \in Kinds : g[Len(g)][k] = Cardinality(Up(k))
            /\ Shown(g[1])

(* The counts are natural numbers, of three kinds.                          *)
LEMMA CountFacts ==
  ASSUME NEW c \in Counts
  PROVE  /\ All(c) \in Nat /\ \A k \in Kinds : c[k] \in Nat /\ (All(c) = 0 => c[k] = 0)
         /\ \A k \in Kinds : /\ [c EXCEPT ![k] = @ + 1] \in Counts
                             /\ All([c EXCEPT ![k] = @ + 1]) = All(c) + 1
                             /\ c[k] # 0 => /\ [c EXCEPT ![k] = @ - 1] \in Counts /\ All(c) # 0
                                            /\ All([c EXCEPT ![k] = @ - 1]) = All(c) - 1
<1>1. c["access"] \in Nat /\ c["control"] \in Nat /\ c["file"] \in Nat
  BY DEF Counts, Kinds
<1>2. All(c) \in Nat /\ \A k \in Kinds : c[k] \in Nat /\ (All(c) = 0 => c[k] = 0)
  BY <1>1 DEF All, Kinds
<1>3. ASSUME NEW k \in Kinds
      PROVE  /\ [c EXCEPT ![k] = @ + 1] \in Counts
             /\ All([c EXCEPT ![k] = @ + 1]) = All(c) + 1
  <2> DEFINE d == [c EXCEPT ![k] = @ + 1]
  <2>1. d \in Counts /\ \A j \in Kinds : d[j] = IF j = k THEN c[k] + 1 ELSE c[j]
    BY <1>2 DEF Counts
  <2> HIDE DEF d
  <2>2. All(d) = All(c) + 1
    BY <1>1, <2>1 DEF All, Kinds
  <2> QED BY <2>1, <2>2 DEF d
<1>4. ASSUME NEW k \in Kinds, c[k] # 0
      PROVE  /\ [c EXCEPT ![k] = @ - 1] \in Counts /\ All(c) # 0
             /\ All([c EXCEPT ![k] = @ - 1]) = All(c) - 1
  <2> DEFINE d == [c EXCEPT ![k] = @ - 1]
  <2>0. c[k] - 1 \in Nat
    BY <1>2, <1>4
  <2>1. d \in Counts /\ \A j \in Kinds : d[j] = IF j = k THEN c[k] - 1 ELSE c[j]
    BY <1>2, <2>0 DEF Counts
  <2> HIDE DEF d
  <2>2. All(d) = All(c) - 1
    BY <1>1, <2>1 DEF All, Kinds
  <2> QED BY <1>2, <1>4, <2>1, <2>2 DEF d
<1> QED BY <1>2, <1>3, <1>4

(* An event more, ...                                                       *)
LEMMA LinkOn ==
  ASSUME NEW S, NEW R, NEW g, NEW ev \in Seq(Emitted), Links(g, ev, S, R), NEW e \in Emitted,
         NEW d \in S, <<e, g[Len(g)], d>> \in R
  PROVE  LET h == Append(g, d)
         IN  Links(h, Append(ev, e), S, R) /\ h[1] = g[1] /\ h[Len(h)] = d
<1> DEFINE h == Append(g, d)
           w == Append(ev, e)
<1>1. /\ g \in Seq(S) /\ Len(g) = Len(ev) + 1 /\ Len(ev) \in Nat
      /\ \A i \in 1 .. Len(ev) : <<ev[i], g[i], g[i + 1]>> \in R
  BY LenProperties DEF Links
<1>2. /\ h \in Seq(S) /\ Len(h) = Len(g) + 1 /\ h[Len(g) + 1] = d
      /\ \A i \in 1 .. Len(g) : h[i] = g[i]
  BY <1>1, AppendProperties
<1>3. /\ w \in Seq(Emitted) /\ Len(w) = Len(ev) + 1 /\ w[Len(ev) + 1] = e
      /\ \A i \in 1 .. Len(ev) : w[i] = ev[i]
  BY AppendProperties
<1> HIDE DEF h, w
<1>4. ASSUME NEW i \in 1 .. Len(w) PROVE <<w[i], h[i], h[i + 1]>> \in R
  <2>1. CASE i = Len(ev) + 1
    <3>1. w[i] = e /\ h[i] = g[Len(g)] /\ h[i + 1] = d
      BY <1>1, <1>2, <1>3, <2>1
    <3> QED BY <3>1
  <2>2. CASE i # Len(ev) + 1
    <3>1. i \in 1 .. Len(ev)
      BY <1>1, <1>3, <2>2
    <3>2. w[i] = ev[i] /\ h[i] = g[i] /\ h[i + 1] = g[i + 1]
      BY <1>1, <1>2, <1>3, <3>1
    <3> QED BY <1>1, <3>1, <3>2
  <2> QED BY <2>1, <2>2
<1>5. Links(h, w, S, R) /\ h[1] = g[1] /\ h[Len(h)] = d
  BY <1>1, <1>2, <1>3, <1>4 DEF Links
<1> QED BY <1>5 DEF h, w

(* ... and one less.                                                        *)
LEMMA LinkOff ==
  ASSUME NEW S, NEW R, NEW g, NEW ev \in Seq(Emitted), Links(g, ev, S, R), ev # <<>>
  PROVE  LET h == Tail(g)
         IN  /\ Links(h, Tail(ev), S, R) /\ h[Len(h)] = g[Len(g)] /\ <<Head(ev), g[1], h[1]>> \in R
             /\ g[1] \in S /\ h[1] \in S /\ Head(ev) \in Emitted
             /\ Tail(ev) \in Seq(Emitted)
<1> DEFINE h == Tail(g)
           w == Tail(ev)
<1>1. /\ g \in Seq(S) /\ Len(g) = Len(ev) + 1 /\ Len(ev) \in Nat
      /\ \A i \in 1 .. Len(ev) : <<ev[i], g[i], g[i + 1]>> \in R
  BY LenProperties DEF Links
<1>2. /\ w \in Seq(Emitted) /\ Len(w) = Len(ev) - 1 /\ Head(ev) = ev[1] /\ Head(ev) \in Emitted
      /\ \A i \in 1 .. Len(ev) - 1 : w[i] = ev[i + 1]
  BY HeadTailProperties
<1>3. Len(ev) # 0 /\ Len(w) \in Nat
  BY <1>2, LenProperties
<1>4. /\ h \in Seq(S) /\ Len(h) = Len(g) - 1
      /\ \A i \in 1 .. Len(g) - 1 : h[i] = g[i + 1]
  <2>1. g # <<>>
    BY <1>1, LenProperties
  <2> QED BY <1>1, <2>1, HeadTailProperties
<1>5. g[1] \in S /\ g[2] \in S
  BY <1>1, <1>3, LenProperties
<1> HIDE DEF h, w
<1>6. ASSUME NEW i \in 1 .. Len(w) PROVE <<w[i], h[i], h[i + 1]>> \in R
  <2>1. i + 1 \in 1 .. Len(ev) /\ w[i] = ev[i + 1]
    BY <1>1, <1>2, <1>3
  <2>2. h[i] = g[i + 1] /\ h[i + 1] = g[i + 2]
    BY <1>1, <1>2, <1>3, <1>4
  <2>3. <<ev[i + 1], g[i + 1], g[(i + 1) + 1]>> \in R /\ (i + 1) + 1 = i + 2
    BY <1>1, <2>1
  <2> QED BY <2>1, <2>2, <2>3
<1>7. h[Len(h)] = g[Len(g)] /\ h[1] = g[2]
  BY <1>1, <1>3, <1>4
<1>8. <<ev[1], g[1], g[2]>> \in R
  <2>1. 1 \in 1 .. Len(ev) /\ 1 + 1 = 2
    BY <1>1, <1>3
  <2> QED BY <1>1, <2>1
<1>9. Links(h, w, S, R)
  BY <1>1, <1>2, <1>4, <1>6 DEF Links
<1> QED BY <1>2, <1>5, <1>7, <1>8, <1>9 DEF h, w

(* How the prompts move when none is put up and none is closed: they are    *)
(* answered, resolved, freed once closed, or lose their viewer.             *)
Steady ==
  \A a \in Prompts :
    \/ asks'[a].at = "free" /\ asks[a].at \in {"free", "closed"}
    \/ /\ asks'[a].kind = asks[a].kind
       /\ asks'[a].of = asks[a].of \/ (asks'[a].of = "gone" /\ ~serving'.viewer)
       /\ asks'[a].at = asks[a].at \/ (asks[a].at = "waiting" /\ asks'[a].at = "cleared")

(* A dropped sender moves no prompt.                                        *)
LEMMA DropsStay ==
  ASSUME PromptInv, NEW k, NEW of, NEW a \in Prompts
  PROVE  /\ Dropped(k, of)[a].kind = asks[a].kind /\ Dropped(k, of)[a].of = asks[a].of
         /\ Dropped(k, of)[a].at = asks[a].at
<1> DEFINE what == IF of = "now" /\ asks[a].of = "now" THEN "preempted" ELSE "dropped"
           r == [asks[a] EXCEPT !.answer = what]
<1>1. Dropped(k, of)[a] = IF a # pending[k] \/ ~Waiting(a) THEN asks[a] ELSE r
  BY DEF Dropped
<1>2. asks[a] \in Asked \/ asks[a] = Free
  BY PromptFacts
<1>3. r.kind = asks[a].kind /\ r.of = asks[a].of /\ r.at = asks[a].at
  <2> HIDE DEF what
  <2>1. CASE asks[a] \in Asked
    BY <2>1 DEF Asked
  <2>2. CASE asks[a] = Free
    BY <2>2 DEF Free
  <2> QED BY <1>2, <2>1, <2>2
<1> HIDE DEF r
<1> QED BY <1>1, <1>3

(* All steps but those that put a prompt up or close one are steady.        *)
LEMMA SteadySteps ==
  ASSUME PromptInv,
         \/ \E a \in Prompts : Resolves(a) \/ Serves(a) \/ Leases(a) \/ StaysAway(a)
         \/ Leaves \/ trigger_stop_sharing \/ respond_consent
  PROVE  Steady
<1>0. \A a \in Prompts : (asks[a] \in Asked \/ asks[a] = Free) /\ (Waiting(a) => asks[a] \in Asked)
  BY PromptFacts
<1>1. ASSUME NEW a \in Prompts, Resolves(a) PROVE Steady
  <2> DEFINE d == Dropped(asks[a].kind, asks[a].of)
             r == Moved(asks[a], "cleared", IF asks[a].answer = "none" THEN "deny"
                                            ELSE asks[a].answer)
  <2>1. asks[a].at = "waiting" /\ asks' = [d EXCEPT ![a] = r]
    BY <1>1 DEF Resolves, Moved
  <2>2. r.kind = asks[a].kind /\ r.of = asks[a].of /\ r.at = "cleared"
    <3>1. asks[a] \in Asked
      BY <1>0, <2>1, AskFacts
    <3> QED BY <3>1 DEF Moved, Asked
  <2>3. DOMAIN d = Prompts
    BY DEF Dropped
  <2>4. \A b \in Prompts : d[b].kind = asks[b].kind /\ d[b].of = asks[b].of /\ d[b].at = asks[b].at
    BY DropsStay
  <2> HIDE DEF d, r
  <2>5. asks'[a] = r /\ \A b \in Prompts : b # a => asks'[b] = d[b]
    BY <2>1, <2>3
  <2> QED BY <2>1, <2>2, <2>4, <2>5 DEF Steady
<1>2. ASSUME NEW a \in Prompts, Serves(a) \/ Leases(a) \/ StaysAway(a) PROVE Steady
  <2>1. asks[a].at = "closed" /\ asks' = [asks EXCEPT ![a] = Free]
    BY <1>2 DEF Serves, Leases, StaysAway, Returns
  <2>2. DOMAIN asks = Prompts
    BY PromptFacts
  <2>3. asks'[a] = Free /\ \A b \in Prompts : b # a => asks'[b] = asks[b]
    BY <2>1, <2>2
  <2> QED BY <2>1, <2>3, AskFacts DEF Steady
<1>3. CASE Leaves
  <2>1. /\ asks' = [a \in Prompts |->
                      IF asks[a].kind \notin {"control", "file"} THEN asks[a]
                      ELSE IF asks[a].at = "closed" THEN Free ELSE Orphan(asks[a])]
        /\ ~serving'.viewer
    BY <1>3 DEF Leaves, Orphan
  <2>2. Free.kind = "none"
    BY DEF Free
  <2>3. ASSUME NEW a \in Prompts
        PROVE  \/ asks'[a].at = "free" /\ asks[a].at \in {"free", "closed"}
               \/ /\ asks'[a].kind = asks[a].kind
                  /\ asks'[a].of = asks[a].of \/ (asks'[a].of = "gone" /\ ~serving'.viewer)
                  /\ asks'[a].at = asks[a].at
    <3>1. CASE asks[a].kind \notin {"control", "file"}
      BY <2>1, <3>1
    <3>2. CASE asks[a].kind \in {"control", "file"} /\ asks[a].at = "closed"
      BY <2>1, <3>2, AskFacts
    <3>3. CASE asks[a].kind \in {"control", "file"} /\ asks[a].at # "closed"
      <4>1. asks'[a] = Orphan(asks[a]) /\ asks[a] \in Asked
        BY <1>0, <2>1, <2>2, <3>3
      <4> QED BY <2>1, <4>1, AskMoves
    <3> QED BY <3>1, <3>2, <3>3
  <2> QED BY <2>3 DEF Steady
<1>4. CASE trigger_stop_sharing
  <2>1. asks' = [a \in Prompts |-> IF ~Waiting(a) THEN asks[a]
                    ELSE IF a \in {pending[k] : k \in Kinds} THEN Answered(asks[a], "deny")
                    ELSE [asks[a] EXCEPT !.cut = TRUE]]
    BY <1>4 DEF trigger_stop_sharing, cancel_all, CutOff, Answered
  <2>2. ASSUME NEW a \in Prompts
        PROVE  asks'[a].kind = asks[a].kind /\ asks'[a].of = asks[a].of /\ asks'[a].at = asks[a].at
    <3>1. CASE ~Waiting(a)
      BY <2>1, <3>1
    <3>2. CASE Waiting(a)
      <4>1. asks[a] \in Asked
        BY <1>0, <3>2
      <4>2. asks'[a] = Answered(asks[a], "deny") \/ asks'[a] = [asks[a] EXCEPT !.cut = TRUE]
        BY <2>1, <3>2
      <4>3. CASE asks'[a] = Answered(asks[a], "deny")
        BY <4>1, <4>3, AskMoves
      <4>4. CASE asks'[a] = [asks[a] EXCEPT !.cut = TRUE]
        BY <4>1, <4>4 DEF Asked
      <4> QED BY <4>2, <4>3, <4>4
    <3> QED BY <3>1, <3>2
  <2> QED BY <2>2 DEF Steady
<1>5. CASE respond_consent
  <2>1. PICK k, allow, clicked : respond(k, allow, clicked)
    BY <1>5 DEF respond_consent
  <2>2. asks' = [a \in Prompts |-> IF a # pending[k] \/ ~Waiting(a) THEN asks[a]
                   ELSE Answered(asks[a], IF ~allow THEN "deny"
                                          ELSE IF clicked = a THEN "allow" ELSE "mistake")]
    BY <2>1 DEF respond, Answered
  <2>3. ASSUME NEW a \in Prompts
        PROVE  asks'[a].kind = asks[a].kind /\ asks'[a].of = asks[a].of /\ asks'[a].at = asks[a].at
    <3>1. CASE ~Waiting(a) \/ a # pending[k]
      BY <2>2, <3>1
    <3>2. CASE Waiting(a) /\ a = pending[k]
      <4>1. asks[a] \in Asked
        BY <1>0, <3>2
      <4>2. asks'[a] \in {Answered(asks[a], "deny"), Answered(asks[a], "allow"),
                          Answered(asks[a], "mistake")}
        BY <2>2, <3>2
      <4> QED BY <4>1, <4>2, AskMoves
    <3> QED BY <3>1, <3>2
  <2> QED BY <2>3 DEF Steady
<1> QED BY <1>1, <1>2, <1>3, <1>4, <1>5

(* A steady step leaves what is up, and so the counts, if the page does not *)
(* change but for a dialog that is answered.                                *)
LEMMA UpStays ==
  ASSUME Steady, NEW k \in Kinds PROVE Up(k)' = Up(k)
BY DEF Steady, Up

(* How many prompts of each kind are up.                                    *)
Now == [k \in Kinds |-> Cardinality(Up(k))]

(* The counts that CountInv speaks of.                                      *)
LEMMA CountOf ==
  ASSUME CountInv
  PROVE  /\ Now \in Counts /\ ScreenTypes /\ \A k \in Kinds : IsFiniteSet(Up(k))
         /\ \A k \in Kinds : Now[k] = Cardinality(Up(k))
         /\ \E g : /\ Links(g, events, Counts, Counting) /\ g[Len(g)] = Now
                   /\ Shown(g[1]) /\ g[1] \in Counts
<1>1. PICK g : /\ Links(g, events, Counts, Counting)
               /\ \A k \in Kinds : g[Len(g)][k] = Cardinality(Up(k))
               /\ Shown(g[1])
  BY DEF CountInv
<1>2. g \in Seq(Counts) /\ Len(g) \in Nat \ {0}
  <2>1. events \in Seq(Emitted)
    BY DEF CountInv, ScreenTypes
  <2>2. Len(events) \in Nat /\ Len(g) = Len(events) + 1 /\ g \in Seq(Counts)
    BY <1>1, <2>1, LenProperties DEF Links
  <2> QED BY <2>2
<1>3. g[1] \in Counts /\ g[Len(g)] \in Counts
  BY <1>2, LenProperties
<1>4. g[Len(g)] = Now
  BY <1>1, <1>3 DEF Counts, Now
<1>5. \A k \in Kinds : Now[k] = Cardinality(Up(k))
  BY DEF Now
<1> QED BY <1>1, <1>3, <1>4, <1>5 DEF CountInv

(* A step that emits and leaves the page's window alone.                    *)
LEMMA CountEmits ==
  ASSUME CountInv, NEW e \in Emitted, NEW d \in Counts, Effect(e, Now, d),
         \A k \in Kinds : IsFiniteSet(Up(k))' /\ d[k] = Cardinality(Up(k))',
         events' = Append(events, e), UNCHANGED <<page, display>>
  PROVE  CountInv'
<1>1. PICK g : /\ Links(g, events, Counts, Counting) /\ g[Len(g)] = Now
               /\ Shown(g[1]) /\ g[1] \in Counts
  BY CountOf
<1>2. ScreenTypes
  BY CountOf
<1>3. events \in Seq(Emitted)
  BY <1>2 DEF ScreenTypes
<1> DEFINE h == Append(g, d)
<1>4. Links(h, Append(events, e), Counts, Counting) /\ h[1] = g[1] /\ h[Len(h)] = d
  <2>1. <<e, g[Len(g)], d>> \in Counting
    BY <1>1, CountOf DEF Counting
  <2> QED BY <1>1, <1>3, <2>1, LinkOn
<1> HIDE DEF h
<1>5. ScreenTypes'
  <2>1. events' \in Seq(Emitted)
    BY <1>3, AppendProperties
  <2> QED BY <1>2, <2>1 DEF ScreenTypes
<1>6. Shown(h[1])'
  BY <1>1, <1>4 DEF Shown
<1>7. Links(h, events, Counts, Counting)'
  BY <1>4
<1> QED BY <1>4, <1>5, <1>6, <1>7 DEF CountInv

(* A step that emits nothing, leaves what is up, and may take a dialog from *)
(* the page.                                                                *)
LEMMA CountStays ==
  ASSUME CountInv, \A k \in Kinds : Up(k)' = Up(k), UNCHANGED <<page, events>>,
         display' \in [dialogs : [Kinds -> Nat], open : Nat, sharing : BOOLEAN],
         display'.open = display.open,
         \A k \in Kinds : display'.dialogs[k] \in {0, display.dialogs[k]}
  PROVE  CountInv'
<1>1. PICK g : /\ Links(g, events, Counts, Counting)
               /\ \A k \in Kinds : g[Len(g)][k] = Cardinality(Up(k))
               /\ Shown(g[1])
  BY DEF CountInv
<1>2. ScreenTypes' /\ \A k \in Kinds : IsFiniteSet(Up(k))'
  BY DEF CountInv, ScreenTypes
<1>3. Shown(g[1])'
  BY <1>1 DEF Shown
<1>4. Links(g, events, Counts, Counting)' /\ \A k \in Kinds : g[Len(g)][k] = Cardinality(Up(k))'
  BY <1>1
<1> QED BY <1>2, <1>3, <1>4 DEF CountInv

(* A steady step counts nothing.                                            *)
LEMMA CountSteady ==
  ASSUME CountInv, Steady, UNCHANGED <<page, display>>,
         events' = events \/ \E m \in Marks : events' = Append(events, m)
  PROVE  CountInv'
<1>1. \A k \in Kinds : Up(k)' = Up(k)
  BY UpStays
<1>2. CASE events' = events
  <2>1. display \in [dialogs : [Kinds -> Nat], open : Nat, sharing : BOOLEAN]
    BY DEF CountInv, ScreenTypes
  <2>2. \A k \in Kinds : display'.dialogs[k] \in {0, display.dialogs[k]}
    OBVIOUS
  <2> QED BY <1>1, <1>2, <2>1, <2>2, CountStays
<1>3. ASSUME NEW m \in Marks, events' = Append(events, m) PROVE CountInv'
  <2>1. m \in Emitted /\ m.is \notin {"request", "closed"}
    BY DEF Emitted, Marks
  <2>2. Effect(m, Now, Now)
    BY <2>1 DEF Effect
  <2>3. /\ Now \in Counts
        /\ \A k \in Kinds : IsFiniteSet(Up(k)) /\ Now[k] = Cardinality(Up(k))
    BY CountOf
  <2>4. ASSUME NEW d \in Counts, d = Now PROVE CountInv'
    <3>1. Effect(m, Now, d)
      BY <2>2, <2>4
    <3>2. \A k \in Kinds : IsFiniteSet(Up(k))' /\ d[k] = Cardinality(Up(k))'
      BY <1>1, <2>3, <2>4
    <3> QED BY <1>3, <2>1, <3>1, <3>2, CountEmits
  <2> QED BY <2>3, <2>4
<1> QED BY <1>2, <1>3

(* A request puts one up, ...                                               *)
LEMMA CountAsks ==
  ASSUME PromptInv, CountInv, NEW a \in Prompts, NEW k \in Kinds, promptUser(a, k)
  PROVE  CountInv'
<1> DEFINE d == Dropped(k, "now")
           e == [is |-> "request", kind |-> k, ask |-> a]
           c == [Now EXCEPT ![k] = @ + 1]
<1>1. /\ asks[a].at = "free" /\ asks' = [d EXCEPT ![a] = New(k)]
      /\ events' = Append(events, e) /\ UNCHANGED <<page, display>>
  BY DEF promptUser, NextAsk, New, windowVars, Says
<1>2. DOMAIN d = Prompts
  BY DEF Dropped
<1>3. \A b \in Prompts : d[b].kind = asks[b].kind /\ d[b].at = asks[b].at
  BY DropsStay
<1>4. New(k).kind = k /\ New(k).at = "waiting"
  BY AskNew
<1>5. /\ e \in Emitted /\ e.is = "request" /\ e.kind = k
  BY DEF Emitted, Askings
<1> HIDE DEF d, e
<1>6. asks'[a] = New(k) /\ \A b \in Prompts : b # a => asks'[b] = d[b]
  BY <1>1, <1>2
<1>7. a \notin Up(k) /\ Up(k)' = Up(k) \cup {a}
  BY <1>1, <1>3, <1>4, <1>6 DEF Up
<1>8. \A j \in Kinds : j # k => Up(j)' = Up(j)
  BY <1>1, <1>3, <1>4, <1>6 DEF Up
<1>9. /\ Now \in Counts
      /\ \A j \in Kinds : IsFiniteSet(Up(j)) /\ Now[j] = Cardinality(Up(j))
  BY CountOf
<1>10. IsFiniteSet(Up(k) \cup {a}) /\ Cardinality(Up(k) \cup {a}) = Cardinality(Up(k)) + 1
  BY <1>7, <1>9, FS_AddElement
<1>11. c \in Counts
  BY <1>9, CountFacts
<1>12. Effect(e, Now, c)
  BY <1>5 DEF Effect
<1>13. c[k] = Now[k] + 1 /\ \A j \in Kinds : j # k => c[j] = Now[j]
  BY <1>9 DEF Counts
<1> HIDE DEF c
<1>14. \A j \in Kinds : IsFiniteSet(Up(j))' /\ c[j] = Cardinality(Up(j))'
  BY <1>7, <1>8, <1>9, <1>10, <1>13
<1> QED BY <1>1, <1>5, <1>11, <1>12, <1>14, CountEmits

(* ... and its close takes it down.                                         *)
LEMMA CountCloses ==
  ASSUME PromptInv, CountInv, NEW a \in Prompts, Closes(a)
  PROVE  CountInv'
<1>0. asks[a].at = "cleared" /\ asks[a] \in Asked /\ DOMAIN asks = Prompts
  <2>1. asks[a].at = "cleared"
    BY DEF Closes, Close
  <2> QED BY <2>1, PromptFacts, AskFacts
<1>3. PICK k \in Kinds : asks[a].kind = k
  BY <1>0, AskFacts
<1> DEFINE e == [is |-> "closed", kind |-> k]
           c == [Now EXCEPT ![k] = @ - 1]
<1>1. /\ asks[a].at = "cleared" /\ asks[a].kind = k
      /\ asks' = [asks EXCEPT ![a] = IF Awaited(a) THEN [asks[a] EXCEPT !.at = "closed"] ELSE Free]
      /\ events' = Append(events, e) /\ UNCHANGED <<page, display>>
  BY <1>3 DEF Closes, Close, windowVars, Says
<1>2. asks[a] \in Asked /\ DOMAIN asks = Prompts
  BY <1>0
<1>4. /\ asks'[a].at \in {"closed", "free"}
      /\ \A b \in Prompts : b # a => asks'[b] = asks[b]
  <2>1. asks'[a] = [asks[a] EXCEPT !.at = "closed"] \/ asks'[a] = Free
    BY <1>1, <1>2
  <2>2. [asks[a] EXCEPT !.at = "closed"].at = "closed"
    BY <1>2 DEF Asked
  <2> QED BY <1>1, <1>2, <2>1, <2>2, AskFacts
<1>5. /\ e \in Emitted /\ e.is = "closed" /\ e.kind = k
  BY <1>3 DEF Emitted, Closings
<1> HIDE DEF e
<1>6. a \in Up(k) /\ Up(k)' = Up(k) \ {a}
  <2>1. a \in Up(k)
    BY <1>1 DEF Up
  <2>2. \A b \in Prompts : (asks'[b].kind = k /\ asks'[b].at \in {"waiting", "cleared"})
                           <=> (b # a /\ asks[b].kind = k /\ asks[b].at \in {"waiting", "cleared"})
    BY <1>4
  <2>3. {b \in Prompts : asks'[b].kind = k /\ asks'[b].at \in {"waiting", "cleared"}}
          = {b \in Prompts : asks[b].kind = k /\ asks[b].at \in {"waiting", "cleared"}} \ {a}
    BY <2>2
  <2> QED BY <2>1, <2>3 DEF Up
<1>7. \A j \in Kinds : j # k => Up(j)' = Up(j)
  BY <1>1, <1>4 DEF Up
<1>8. /\ Now \in Counts
      /\ \A j \in Kinds : IsFiniteSet(Up(j)) /\ Now[j] = Cardinality(Up(j))
  BY CountOf
<1>9. /\ IsFiniteSet(Up(k) \ {a}) /\ Cardinality(Up(k) \ {a}) = Cardinality(Up(k)) - 1
      /\ Cardinality(Up(k)) # 0
  <2>1. IsFiniteSet(Up(k))
    BY <1>3, <1>8
  <2>2. /\ IsFiniteSet(Up(k) \ {a})
        /\ Cardinality(Up(k) \ {a})
             = IF a \in Up(k) THEN Cardinality(Up(k)) - 1 ELSE Cardinality(Up(k))
    BY <2>1, FS_RemoveElement
  <2>3. Cardinality(Up(k) \ {a}) \in Nat /\ Cardinality(Up(k)) \in Nat
    BY <2>1, <2>2, FS_CardinalityType
  <2> QED BY <1>6, <2>2, <2>3
<1>10. Now[k] # 0
  BY <1>3, <1>8, <1>9
<1>11. c \in Counts
  BY <1>3, <1>8, <1>10, CountFacts
<1>12. Effect(e, Now, c)
  BY <1>5, <1>10 DEF Effect
<1>13. c[k] = Now[k] - 1 /\ \A j \in Kinds : j # k => c[j] = Now[j]
  BY <1>3, <1>8 DEF Counts
<1> HIDE DEF c
<1>14. \A j \in Kinds : IsFiniteSet(Up(j))' /\ c[j] = Cardinality(Up(j))'
  <2>1. IsFiniteSet(Up(k))' /\ c[k] = Cardinality(Up(k))'
    BY <1>3, <1>6, <1>8, <1>9, <1>13
  <2>2. ASSUME NEW j \in Kinds, j # k PROVE IsFiniteSet(Up(j))' /\ c[j] = Cardinality(Up(j))'
    BY <1>7, <1>8, <1>13, <2>2
  <2> QED BY <2>1, <2>2
<1> QED BY <1>1, <1>5, <1>11, <1>12, <1>14, CountEmits

(* The page handles an event: its counts move as the event says.            *)
LEMMA CountHandles ==
  ASSUME CountInv, Handles
  PROVE  CountInv'
<1>1. PICK g : /\ Links(g, events, Counts, Counting) /\ g[Len(g)] = Now
               /\ Shown(g[1]) /\ g[1] \in Counts
  BY CountOf
<1>2. /\ ScreenTypes /\ Now \in Counts
      /\ \A k \in Kinds : IsFiniteSet(Up(k)) /\ Now[k] = Cardinality(Up(k))
  BY CountOf
<1>3. /\ page \in {"main", "shell"} /\ events \in Seq(Emitted)
      /\ display \in [dialogs : [Kinds -> Nat], open : Nat, sharing : BOOLEAN]
  BY <1>2 DEF ScreenTypes
<1>4. /\ events # <<>> /\ events' = Tail(events) /\ UNCHANGED <<page, asks>>
  BY DEF Handles, promptVars
<1> DEFINE h == Tail(g)
           e == Head(events)
<1>5. /\ Links(h, Tail(events), Counts, Counting) /\ h[Len(h)] = g[Len(g)] /\ Effect(e, g[1], h[1])
      /\ h[1] \in Counts /\ e \in Emitted /\ Tail(events) \in Seq(Emitted)
  <2>1. /\ Links(h, Tail(events), Counts, Counting) /\ h[Len(h)] = g[Len(g)]
        /\ <<e, g[1], h[1]>> \in Counting /\ h[1] \in Counts
        /\ e \in Emitted /\ Tail(events) \in Seq(Emitted)
    BY <1>1, <1>3, <1>4, LinkOff
  <2> QED BY <2>1 DEF Counting
<1>6. \/ e.is = "request" /\ display' = onRequest(e.kind, e.ask)
      \/ e.is = "closed" /\ display' = onConsentClosed(e.kind)
      \/ e.is = "viewer" /\ display' = setHostLive(e.on)
      \/ e.is = "control" /\ UNCHANGED display
      \/ e.is = "share" /\ display' = setHostLive(FALSE)
  BY DEF Handles
<1> HIDE DEF h, e
<1>7. PICK c \in Counts, d \in Counts : c = g[1] /\ d = h[1] /\ Effect(e, c, d) /\ Shown(c)
  BY <1>1, <1>5
<1>8. /\ All(c) \in Nat /\ \A k \in Kinds : c[k] \in Nat /\ (All(c) = 0 => c[k] = 0)
      /\ \A k \in Kinds : /\ [c EXCEPT ![k] = @ + 1] \in Counts
                             /\ All([c EXCEPT ![k] = @ + 1]) = All(c) + 1
                             /\ c[k] # 0 => /\ [c EXCEPT ![k] = @ - 1] \in Counts /\ All(c) # 0
                                            /\ All([c EXCEPT ![k] = @ - 1]) = All(c) - 1
  BY CountFacts
<1>9. /\ display.open = IF page = "main" THEN All(c) ELSE 0
      /\ \A k \in Kinds : display.dialogs[k] # 0 /\ (k # "file" \/ page = "shell") => c[k] # 0
  BY <1>7 DEF Shown
<1>10. (/\ display' \in [dialogs : [Kinds -> Nat], open : Nat, sharing : BOOLEAN]
        /\ display'.open = IF page = "main" THEN All(d) ELSE 0
        /\ \A k \in Kinds : display'.dialogs[k] # 0 /\ (k # "file" \/ page = "shell") => d[k] # 0)
  <2>1. CASE e.is = "request" /\ display' = onRequest(e.kind, e.ask)
    <3>1. PICK k \in Kinds, a \in Prompts : e.kind = k /\ e.ask = a
      BY <1>5, <2>1 DEF Emitted, Askings, Closings, Marks
    <3>2. d = [c EXCEPT ![k] = @ + 1]
      BY <1>7, <2>1, <3>1 DEF Effect
    <3>3. /\ All(d) = All(c) + 1 /\ d[k] # 0
          /\ \A j \in Kinds : d[j] = IF j = k THEN c[k] + 1 ELSE c[j]
      <4>1. All(d) = All(c) + 1
        BY <3>2, CountFacts
      <4>2. \A j \in Kinds : d[j] = IF j = k THEN c[k] + 1 ELSE c[j]
        BY <3>2 DEF Counts
      <4>3. c[k] \in Nat
        BY <1>8
      <4> QED BY <4>1, <4>2, <4>3
    <3>4. a \in Nat
      BY PromptAssumption
    <3>5. CASE ~Shows(k)
      <4>1. display' = display /\ k # "file" /\ page = "shell"
        BY <1>3, <2>1, <3>1, <3>5 DEF onRequest, Shows
      <4> QED BY <1>3, <1>8, <1>9, <3>3, <4>1
    <3>6. CASE Shows(k)
      <4> DEFINE n == IF page = "main" THEN display.open + 1 ELSE display.open
      <4>1. display' = [display EXCEPT !.dialogs[k] = a, !.open = n]
        BY <2>1, <3>1, <3>6 DEF onRequest
      <4>2. n \in Nat /\ n = IF page = "main" THEN All(d) ELSE 0
        BY <1>3, <1>9, <3>3
      <4> HIDE DEF n
      <4>3. /\ display' \in [dialogs : [Kinds -> Nat], open : Nat, sharing : BOOLEAN]
            /\ display'.open = n
            /\ \A j \in Kinds : j # k => display'.dialogs[j] = display.dialogs[j]
        BY <1>3, <3>4, <4>1, <4>2
      <4>4. \A j \in Kinds : display'.dialogs[j] # 0 /\ (j # "file" \/ page = "shell") => d[j] # 0
        BY <1>9, <3>3, <4>3
      <4> QED BY <4>2, <4>3, <4>4
    <3> QED BY <3>5, <3>6
  <2>2. CASE e.is = "closed" /\ display' = onConsentClosed(e.kind)
    <3>1. PICK k \in Kinds : e.kind = k
      BY <1>5, <2>2 DEF Emitted, Askings, Closings, Marks
    <3>2. c[k] # 0 /\ d = [c EXCEPT ![k] = @ - 1]
      BY <1>7, <2>2, <3>1 DEF Effect
    <3>3. /\ All(d) = All(c) - 1 /\ All(c) # 0
          /\ \A j \in Kinds : d[j] = IF j = k THEN c[k] - 1 ELSE c[j]
      <4>1. All(d) = All(c) - 1 /\ All(c) # 0
        BY <3>2, CountFacts
      <4>2. \A j \in Kinds : d[j] = IF j = k THEN c[k] - 1 ELSE c[j]
        BY <3>2 DEF Counts
      <4> QED BY <4>1, <4>2
    <3> DEFINE n == IF display.open = 0 THEN 0 ELSE display.open - 1
               x == Hidden(k)
    <3>4. display' = [display EXCEPT !.dialogs[k] = x, !.open = n]
      BY <2>2, <3>1 DEF onConsentClosed
    <3>5. n \in Nat /\ n = IF page = "main" THEN All(d) ELSE 0
      BY <1>3, <1>8, <1>9, <3>3
    <3>6. x \in Nat /\ (x # 0 => k = "file" /\ page = "main")
      BY <1>3 DEF Hidden
    <3> HIDE DEF n, x
    <3>7. /\ display' \in [dialogs : [Kinds -> Nat], open : Nat, sharing : BOOLEAN]
          /\ display'.open = n /\ display'.dialogs[k] = x
          /\ \A j \in Kinds : j # k => display'.dialogs[j] = display.dialogs[j]
      BY <1>3, <3>4, <3>5, <3>6
    <3>8. \A j \in Kinds : display'.dialogs[j] # 0 /\ (j # "file" \/ page = "shell") => d[j] # 0
      BY <1>9, <3>3, <3>6, <3>7
    <3> QED BY <3>5, <3>7, <3>8
  <2>3. CASE e.is \in {"viewer", "control", "share"}
    <3>1. d = c
      BY <1>7, <2>3 DEF Effect
    <3>2. PICK live \in BOOLEAN : display' = display \/ display' = setHostLive(live)
      <4>1. e.on \in BOOLEAN
        BY <1>5, <2>3 DEF Emitted, Askings, Closings, Marks
      <4> QED BY <1>6, <2>3, <4>1
    <3>3. CASE display' = display
      BY <1>3, <1>9, <3>1, <3>3
    <3>4. CASE display' # display
      <4> DEFINE x == IF live THEN display.dialogs["file"] ELSE 0
      <4>1. display' = [display EXCEPT !.sharing = live, !.dialogs["file"] = x] /\ page = "main"
        BY <1>3, <3>2, <3>4 DEF setHostLive
      <4>2. x \in Nat /\ "file" \in Kinds
        BY <1>3 DEF Kinds
      <4> HIDE DEF x
      <4>3. /\ display' \in [dialogs : [Kinds -> Nat], open : Nat, sharing : BOOLEAN]
            /\ display'.open = display.open
            /\ \A j \in Kinds : j # "file" => display'.dialogs[j] = display.dialogs[j]
        BY <1>3, <4>1, <4>2
      <4> QED BY <1>9, <3>1, <4>1, <4>3
    <3> QED BY <3>3, <3>4
  <2> QED BY <1>6, <2>1, <2>2, <2>3
<1>11. ScreenTypes'
  BY <1>3, <1>4, <1>5, <1>10 DEF ScreenTypes
<1>12. Shown(d)'
  BY <1>4, <1>10 DEF Shown
<1>13. \A k \in Kinds : IsFiniteSet(Up(k))' /\ h[Len(h)][k] = Cardinality(Up(k))'
  BY <1>1, <1>2, <1>4, <1>5 DEF Up
<1>14. Links(h, events, Counts, Counting)'
  BY <1>4, <1>5
<1>15. Shown(h[1])'
  BY <1>7, <1>12
<1> QED BY <1>11, <1>13, <1>14, <1>15 DEF CountInv

(* The page counts right, whatever happens.                                 *)
LEMMA CountNextInv ==
  ASSUME PromptInv, CountInv, [ScreenNext]_promptingVars PROVE CountInv'
<1>1. CASE \E a \in Prompts, k \in Kinds : promptUser(a, k)
  BY <1>1, CountAsks
<1>2. CASE \E a \in Prompts : Closes(a)
  BY <1>2, CountCloses
<1>3. CASE \E a \in Prompts : Resolves(a) \/ Serves(a) \/ Leases(a) \/ StaysAway(a)
  <2>1. /\ UNCHANGED <<page, display>>
        /\ events' = events \/ \E m \in Marks : events' = Append(events, m)
    <3>1. PICK a \in Prompts : Resolves(a) \/ Serves(a) \/ Leases(a) \/ StaysAway(a)
      BY <1>3
    <3>2. [is |-> "viewer", on |-> TRUE] \in Marks
      BY DEF Marks
    <3>3. [is |-> "control", on |-> asks[a].answer \in Allowed] \in Marks
      BY DEF Marks
    <3> QED BY <3>1, <3>2, <3>3 DEF Resolves, Serves, Leases, StaysAway, windowVars, Says
  <2> QED BY <1>3, <2>1, SteadySteps, CountSteady
<1>4. CASE Leaves \/ trigger_stop_sharing \/ respond_consent
  <2>1. [is |-> "viewer", on |-> FALSE] \in Marks
    BY DEF Marks
  <2>2. /\ UNCHANGED <<page, display>>
        /\ events' = events \/ \E m \in Marks : events' = Append(events, m)
    BY <1>4, <2>1 DEF Leaves, trigger_stop_sharing, respond_consent, windowVars, Says
  <2> QED BY <1>4, <2>2, SteadySteps, CountSteady
<1>5. CASE \/ RefusedAtOnce \/ LeaseExpires \/ ShareEnds \/ start_sharing
           \/ show_main_window \/ UNCHANGED promptingVars
  <2>1. [is |-> "control", on |-> FALSE] \in Marks /\ [is |-> "share", on |-> FALSE] \in Marks
    BY DEF Marks
  <2>2. /\ UNCHANGED <<page, asks, display>>
        /\ events' = events \/ \E m \in Marks : events' = Append(events, m)
    BY <1>5, <2>1 DEF RefusedAtOnce, LeaseExpires, ShareEnds, start_sharing, show_main_window,
                      promptingVars, promptVars, windowVars, Says
  <2>3. Steady
    BY <2>2 DEF Steady
  <2> QED BY <2>2, <2>3, CountSteady
<1>6. CASE Handles
  BY <1>6, CountHandles
<1>7. ASSUME NEW k \in Kinds, NEW allow \in BOOLEAN, respondOffer(k, allow) PROVE CountInv'
  <2>1. /\ UNCHANGED <<page, asks, events>> /\ display' = [display EXCEPT !.dialogs[k] = 0]
    BY <1>7 DEF respondOffer, promptVars
  <2>2. display \in [dialogs : [Kinds -> Nat], open : Nat, sharing : BOOLEAN]
    BY DEF CountInv, ScreenTypes
  <2>3. /\ display' \in [dialogs : [Kinds -> Nat], open : Nat, sharing : BOOLEAN]
        /\ display'.open = display.open
        /\ \A j \in Kinds : display'.dialogs[j] \in {0, display.dialogs[j]}
    BY <2>1, <2>2
  <2>4. \A j \in Kinds : Up(j)' = Up(j)
    BY <2>1 DEF Up
  <2> QED BY <2>1, <2>3, <2>4, CountStays
<1>8. CASE OfferTimesOut \/ \E k \in Kinds, allow \in BOOLEAN : Clicks(k, allow)
  BY <1>7, <1>8 DEF OfferTimesOut, Clicks, Kinds
<1> QED BY <1>1, <1>2, <1>3, <1>4, <1>5, <1>6, <1>8 DEF ScreenNext

(* Nothing has been asked at first.                                         *)
LEMMA CountInitInv ==
  ASSUME ScreenInit PROVE CountInv
<1> DEFINE c == [k \in Kinds |-> 0]
           g == <<c>>
<1>1. /\ page \in Pages /\ asks = [a \in Prompts |-> Free] /\ events = <<>>
      /\ display = [dialogs |-> c, open |-> 0, sharing |-> FALSE]
  BY DEF ScreenInit
<1>2. c \in Counts /\ \A k \in Kinds : c[k] = 0
  BY DEF Counts
<1>3. All(c) = 0
  BY DEF All, Kinds
<1>4. \A k \in Kinds : Up(k) = {}
  BY <1>1, AskFacts DEF Up
<1>5. \A k \in Kinds : IsFiniteSet(Up(k)) /\ Cardinality(Up(k)) = 0
  BY <1>4, FS_EmptySet
<1> HIDE DEF c
<1>6. /\ page \in {"main", "shell"} /\ display.open = 0 /\ display.dialogs = c
      /\ display \in [dialogs : [Kinds -> Nat], open : Nat, sharing : BOOLEAN]
  <2>1. c \in [Kinds -> Nat]
    BY <1>2 DEF Counts
  <2> QED BY <1>1, <2>1, PromptAssumption
<1>7. ScreenTypes
  BY <1>1, <1>6 DEF ScreenTypes
<1>8. Len(g) = 1 /\ g[1] = c /\ g \in Seq(Counts)
  BY <1>2
<1> HIDE DEF g
<1>9. Links(g, events, Counts, Counting)
  BY <1>1, <1>8 DEF Links
<1>10. Shown(g[1])
  BY <1>2, <1>3, <1>6, <1>8 DEF Shown
<1>11. \A k \in Kinds : g[Len(g)][k] = Cardinality(Up(k))
  BY <1>2, <1>5, <1>8
<1> QED BY <1>5, <1>7, <1>9, <1>10, <1>11 DEF CountInv

(* What the counts say: with nothing asked nothing is up, ...               *)
LEMMA NothingUp ==
  ASSUME CountInv, PromptInv PROVE NothingLeftUp
<1> SUFFICES ASSUME Quiet PROVE NothingLeftUp
  BY DEF NothingLeftUp
<1>1. PICK g : /\ Links(g, events, Counts, Counting)
               /\ \A k \in Kinds : g[Len(g)][k] = Cardinality(Up(k))
               /\ Shown(g[1])
  BY DEF CountInv
<1>2. events = <<>> /\ \A k \in Kinds : Up(k) = {}
  BY DEF Quiet, Up, Active
<1>3. Len(g) = 1
  BY <1>1, <1>2 DEF Links
<1>4. \A k \in Kinds : g[1][k] = 0
  BY <1>1, <1>2, <1>3, FS_EmptySet
<1>5. g[1]["access"] = 0 /\ g[1]["control"] = 0 /\ g[1]["file"] = 0
  BY <1>4 DEF Kinds
<1>6. All(g[1]) = 0
  BY <1>5 DEF All
<1>7. display.open = 0 /\ \A k \in Kinds : k # "file" \/ page = "shell" => display.dialogs[k] = 0
  BY <1>1, <1>4, <1>6 DEF Shown
<1> QED BY <1>7 DEF NothingLeftUp, Kinds

(* ... and with no prompt open none is shown.                               *)
LEMMA StaysUp ==
  ASSUME CountInv, CountInv', Handles, screen = "up", screen' = "minimized"
  PROVE  display'.dialogs["access"] = 0 /\ display'.dialogs["control"] = 0
<1>1. page = "main" /\ page' = page /\ display'.open = 0
  BY DEF Handles, reminimizeMainIfSharing
<1>2. \E c \in Counts : Shown(c)'
  <2>1. PICK g : Links(g, events, Counts, Counting)' /\ Shown(g[1])'
    BY DEF CountInv
  <2>2. events' \in Seq(Emitted)
    BY DEF CountInv, ScreenTypes
  <2>3. g[1] \in Counts
    <3>1. Len(events') \in Nat /\ Len(g) = Len(events') + 1 /\ g \in Seq(Counts)
      BY <2>1, <2>2, LenProperties DEF Links
    <3> QED BY <3>1
  <2> QED BY <2>1, <2>3
<1>3. PICK c \in Counts : Shown(c)'
  BY <1>2
<1>4. All(c) = 0 /\ \A k \in Kinds : c[k] = 0
  <2>1. All(c) = 0
    BY <1>1, <1>3 DEF Shown
  <2> QED BY <2>1, CountFacts
<1>5. \A k \in Kinds : display'.dialogs[k] # 0 /\ (k # "file" \/ page' = "shell") => c[k] # 0
  BY <1>3 DEF Shown
<1> QED BY <1>4, <1>5 DEF Kinds

(* The badge, by the same means.  It ends up as the session is: marked while *)
(* a viewer is served, dark once the share is over.                         *)
Badges == [viewing : BOOLEAN, controlling : BOOLEAN]
Marked(e, b, d) ==
  /\ e.is = "viewer" => d.viewing = e.on /\ d.controlling = b.controlling
  /\ e.is = "control" => d.viewing = b.viewing /\ d.controlling = e.on
  /\ e.is = "share" => d.viewing = FALSE /\ d.controlling = FALSE
  /\ e.is \notin {"viewer", "control", "share"} => d = b
Marking == {x \in Emitted \X Badges \X Badges : Marked(x[1], x[2], x[3])}
Final(d) == /\ serving.viewer => d.viewing
            /\ share = "off" => d.viewing = FALSE /\ d.controlling = FALSE

(* Only a session that is served waits for its control, and none is served  *)
(* when the share is over.                                                  *)
Served ==
  /\ serving \in [viewer : BOOLEAN, control : BOOLEAN]
  /\ share = "off" => ~serving.viewer
  /\ \A a \in Prompts : asks[a].kind = "control" /\ (asks[a].of = "now" \/ asks[a].at = "closed")
                        => serving.viewer
MarkInv ==
  /\ Served /\ badge \in Badges /\ events \in Seq(Emitted)
  /\ \E b : Links(b, events, Badges, Marking) /\ b[1] = badge /\ Final(b[Len(b)])

(* The ends of such a sequence are badges.                                  *)
LEMMA MarkEnds ==
  ASSUME NEW ev \in Seq(Emitted), NEW b, Links(b, ev, Badges, Marking)
  PROVE  Len(b) = Len(ev) + 1 /\ b[1] \in Badges /\ b[Len(b)] \in Badges
<1>1. Len(ev) \in Nat /\ Len(b) = Len(ev) + 1 /\ b \in Seq(Badges)
  BY LenProperties DEF Links
<1>2. 1 \in 1 .. Len(b) /\ Len(b) \in 1 .. Len(b)
  BY <1>1
<1> QED BY <1>1, <1>2, LenProperties

(* Every event leads from a badge to a badge.                               *)
LEMMA MarkMoves ==
  ASSUME NEW e \in Emitted, NEW b \in Badges
  PROVE  \E d \in Badges : Marked(e, b, d)
<1>1. CASE e.is = "viewer"
  <2> DEFINE d == [viewing |-> e.on, controlling |-> b.controlling]
  <2>1. e.on \in BOOLEAN
    BY <1>1 DEF Emitted, Askings, Closings, Marks
  <2>2. d \in Badges /\ d.viewing = e.on /\ d.controlling = b.controlling
    BY <2>1 DEF Badges
  <2> HIDE DEF d
  <2> QED BY <1>1, <2>2 DEF Marked
<1>2. CASE e.is = "control"
  <2> DEFINE d == [viewing |-> b.viewing, controlling |-> e.on]
  <2>1. e.on \in BOOLEAN
    BY <1>2 DEF Emitted, Askings, Closings, Marks
  <2>2. d \in Badges /\ d.viewing = b.viewing /\ d.controlling = e.on
    BY <2>1 DEF Badges
  <2> HIDE DEF d
  <2> QED BY <1>2, <2>2 DEF Marked
<1>3. CASE e.is = "share"
  <2> DEFINE d == [viewing |-> FALSE, controlling |-> FALSE]
  <2>1. d \in Badges /\ d.viewing = FALSE /\ d.controlling = FALSE
    BY DEF Badges
  <2> HIDE DEF d
  <2> QED BY <1>3, <2>1 DEF Marked
<1>4. CASE e.is \notin {"viewer", "control", "share"}
  BY <1>4 DEF Marked
<1> QED BY <1>1, <1>2, <1>3, <1>4

(* A step that emits moves the last badge by one event.                     *)
LEMMA MarkEmits ==
  ASSUME MarkInv, Served', UNCHANGED badge, NEW e \in Emitted, events' = Append(events, e),
         \A c, d \in Badges : Final(c) /\ Marked(e, c, d) => Final(d)'
  PROVE  MarkInv'
<1>1. PICK b : Links(b, events, Badges, Marking) /\ b[1] = badge /\ Final(b[Len(b)])
  BY DEF MarkInv
<1>2. events \in Seq(Emitted) /\ badge \in Badges
  BY DEF MarkInv
<1>3. b[Len(b)] \in Badges
  BY <1>1, <1>2, MarkEnds
<1>4. PICK d \in Badges : Marked(e, b[Len(b)], d)
  BY <1>3, MarkMoves
<1>5. <<e, b[Len(b)], d>> \in Marking
  BY <1>3, <1>4 DEF Marking
<1> DEFINE h == Append(b, d)
<1>6. Links(h, Append(events, e), Badges, Marking) /\ h[1] = b[1] /\ h[Len(h)] = d
  BY <1>1, <1>2, <1>5, LinkOn
<1> HIDE DEF h
<1>7. Final(d)'
  BY <1>1, <1>3, <1>4
<1>8. Final(h[Len(h)])'
  BY <1>6, <1>7
<1>9. Links(h, events, Badges, Marking)' /\ h[1] = badge'
  BY <1>1, <1>6
<1>10. events' \in Seq(Emitted)
  BY <1>2, AppendProperties
<1> QED BY <1>2, <1>8, <1>9, <1>10 DEF MarkInv

(* A step that emits nothing to it.                                         *)
LEMMA MarkStays ==
  ASSUME MarkInv, Served', UNCHANGED <<badge, events>>,
         \A c \in Badges : Final(c) => Final(c)'
  PROVE  MarkInv'
<1>1. PICK b : Links(b, events, Badges, Marking) /\ b[1] = badge /\ Final(b[Len(b)])
  BY DEF MarkInv
<1>2. events \in Seq(Emitted) /\ badge \in Badges
  BY DEF MarkInv
<1>3. Final(b[Len(b)])'
  BY <1>1, <1>2, MarkEnds
<1>4. Links(b, events, Badges, Marking)' /\ b[1] = badge'
  BY <1>1
<1> QED BY <1>2, <1>3, <1>4 DEF MarkInv

(* The overlay handles an event.                                            *)
LEMMA MarkHandles ==
  ASSUME MarkInv, Served', Handles
  PROVE  MarkInv'
<1>1. PICK b : Links(b, events, Badges, Marking) /\ b[1] = badge /\ Final(b[Len(b)])
  BY DEF MarkInv
<1>2. events \in Seq(Emitted) /\ badge \in Badges
  BY DEF MarkInv
<1>3. events # <<>> /\ events' = Tail(events) /\ UNCHANGED <<serving, share>>
  BY DEF Handles, promptVars
<1> DEFINE h == Tail(b)
           e == Head(events)
<1>4. /\ Links(h, Tail(events), Badges, Marking) /\ h[Len(h)] = b[Len(b)]
      /\ <<e, b[1], h[1]>> \in Marking /\ h[1] \in Badges
      /\ e \in Emitted /\ Tail(events) \in Seq(Emitted)
  BY <1>1, <1>2, <1>3, LinkOff
<1>5. \/ e.is \in {"request", "closed"} /\ UNCHANGED badge
      \/ e.is = "viewer" /\ badge' = [badge EXCEPT !.viewing = e.on]
      \/ e.is = "control" /\ badge' = [badge EXCEPT !.controlling = e.on]
      \/ e.is = "share" /\ badge' = [viewing |-> FALSE, controlling |-> FALSE]
  BY DEF Handles
<1> HIDE DEF h, e
<1>6. PICK d \in Badges : d = h[1] /\ Marked(e, badge, d)
  BY <1>1, <1>4 DEF Marking
<1>7. badge' = d
  <2>1. badge = [viewing |-> badge.viewing, controlling |-> badge.controlling]
        /\ d = [viewing |-> d.viewing, controlling |-> d.controlling]
    BY <1>2 DEF Badges
  <2>2. CASE e.is \in {"request", "closed"}
    BY <1>5, <1>6, <2>2 DEF Marked
  <2>3. CASE e.is = "viewer"
    <3>1. badge' = [viewing |-> e.on, controlling |-> badge.controlling]
      BY <1>2, <1>5, <2>3 DEF Badges
    <3>2. d.viewing = e.on /\ d.controlling = badge.controlling
      BY <1>6, <2>3 DEF Marked
    <3> QED BY <2>1, <3>1, <3>2
  <2>4. CASE e.is = "control"
    <3>1. badge' = [viewing |-> badge.viewing, controlling |-> e.on]
      BY <1>2, <1>5, <2>4 DEF Badges
    <3>2. d.viewing = badge.viewing /\ d.controlling = e.on
      BY <1>6, <2>4 DEF Marked
    <3> QED BY <2>1, <3>1, <3>2
  <2>5. CASE e.is = "share"
    <3>1. d.viewing = FALSE /\ d.controlling = FALSE
      BY <1>6, <2>5 DEF Marked
    <3> QED BY <1>5, <2>1, <2>5, <3>1
  <2> QED BY <1>5, <2>2, <2>3, <2>4, <2>5
<1>8. Links(h, events, Badges, Marking)' /\ h[1] = badge' /\ badge' \in Badges
  BY <1>3, <1>4, <1>6, <1>7
<1>9. Final(h[Len(h)])'
  BY <1>1, <1>3, <1>4 DEF Final
<1>10. events' \in Seq(Emitted)
  BY <1>3, <1>4
<1> QED BY <1>8, <1>9, <1>10 DEF MarkInv

(* A steady step of a viewer that stays leaves its control prompts its own. *)
LEMMA ServedSteady ==
  ASSUME Served, PromptInv', Steady, serving.viewer => serving'.viewer,
         serving' \in [viewer : BOOLEAN, control : BOOLEAN], share' = "off" => ~serving'.viewer
  PROVE  Served'
<1>1. ASSUME NEW a \in Prompts, asks'[a].kind = "control",
             asks'[a].of = "now" \/ asks'[a].at = "closed"
      PROVE  serving'.viewer
  <2>1. asks'[a].at # "free"
    <3>1. asks' \in [Prompts -> Asked \cup {Free}]
      BY DEF PromptInv, PromptTypes
    <3>2. Free.kind # "control"
      BY DEF Free
    <3> QED BY <1>1, <3>1, <3>2, AskFacts
  <2>2. /\ asks'[a].kind = asks[a].kind
        /\ asks'[a].of = asks[a].of \/ (asks'[a].of = "gone" /\ ~serving'.viewer)
        /\ asks'[a].at = asks[a].at \/ (asks[a].at = "waiting" /\ asks'[a].at = "cleared")
    BY <2>1 DEF Steady
  <2>3. asks[a].of = "now" \/ asks[a].at = "closed"
    BY <1>1, <2>2
  <2> QED BY <1>1, <2>2, <2>3 DEF Served
<1> QED BY <1>1 DEF Served

(* Who is served, at every step.                                            *)
LEMMA ServedNext ==
  ASSUME PromptInv, PromptInv', Served, [ScreenNext]_promptingVars PROVE Served'
<1>0. /\ serving \in [viewer : BOOLEAN, control : BOOLEAN] /\ (share = "off" => ~serving.viewer)
      /\ \A a \in Prompts :
           asks[a].kind = "control" /\ (asks[a].of = "now" \/ asks[a].at = "closed")
           => serving.viewer
  BY DEF Served
<1>1. ASSUME NEW a \in Prompts, NEW k \in Kinds, promptUser(a, k) PROVE Served'
  <2> DEFINE d == Dropped(k, "now")
  <2>1. /\ asks' = [d EXCEPT ![a] = New(k)] /\ UNCHANGED <<serving, share>>
        /\ k = "control" => serving.viewer
    BY <1>1 DEF promptUser, New, MayAsk
  <2>2. DOMAIN d = Prompts
    BY DEF Dropped
  <2>3. \A b \in Prompts : d[b].kind = asks[b].kind /\ d[b].of = asks[b].of /\ d[b].at = asks[b].at
    BY DropsStay
  <2> HIDE DEF d
  <2>4. asks'[a] = New(k) /\ \A b \in Prompts : b # a => asks'[b] = d[b]
    BY <2>1, <2>2
  <2>5. New(k).kind = k
    BY AskNew
  <2>6. ASSUME NEW b \in Prompts, asks'[b].kind = "control",
               asks'[b].of = "now" \/ asks'[b].at = "closed"
        PROVE  serving.viewer
    BY <1>0, <2>1, <2>3, <2>4, <2>5, <2>6
  <2> QED BY <1>0, <2>1, <2>6 DEF Served
<1>2. ASSUME NEW a \in Prompts, Closes(a) PROVE Served'
  <2>1. /\ asks[a].at = "cleared" /\ UNCHANGED <<serving, share>>
        /\ asks' = [asks EXCEPT ![a] = IF Awaited(a) THEN [asks[a] EXCEPT !.at = "closed"]
                                       ELSE Free]
    BY <1>2 DEF Closes, Close
  <2>2. asks[a] \in Asked /\ DOMAIN asks = Prompts
    BY <2>1, PromptFacts, AskFacts
  <2>3. /\ \A b \in Prompts : b # a => asks'[b] = asks[b]
        /\ asks'[a] = IF Awaited(a) THEN [asks[a] EXCEPT !.at = "closed"] ELSE Free
    BY <2>1, <2>2
  <2>4. asks'[a].kind = "control" => asks[a].kind = "control" /\ asks[a].of = "now"
    <3>1. CASE Awaited(a)
      <4>1. [asks[a] EXCEPT !.at = "closed"].kind = asks[a].kind
        BY <2>2 DEF Asked
      <4> QED BY <2>3, <3>1, <4>1 DEF Awaited
    <3>2. CASE ~Awaited(a)
      BY <2>3, <3>2 DEF Free
    <3> QED BY <3>1, <3>2
  <2>5. ASSUME NEW b \in Prompts, asks'[b].kind = "control",
               asks'[b].of = "now" \/ asks'[b].at = "closed"
        PROVE  serving.viewer
    BY <1>0, <2>3, <2>4, <2>5
  <2> QED BY <1>0, <2>1, <2>5 DEF Served
<1>3. CASE \/ \E a \in Prompts : Resolves(a) \/ Serves(a) \/ Leases(a) \/ StaysAway(a)
           \/ trigger_stop_sharing \/ respond_consent
  <2>1. Steady
    BY <1>3, SteadySteps
  <2>2. /\ serving.viewer => serving'.viewer
        /\ serving' \in [viewer : BOOLEAN, control : BOOLEAN]
        /\ share' = "off" => ~serving'.viewer
    <3>1. CASE \E a \in Prompts : Resolves(a) \/ StaysAway(a)
      BY <1>0, <3>1 DEF Resolves, StaysAway
    <3>2. CASE \E a \in Prompts : Serves(a)
      <4>1. serving' = [viewer |-> TRUE, control |-> FALSE] /\ share' = "on"
        BY <3>2 DEF Serves
      <4> QED BY <4>1
    <3>3. CASE \E a \in Prompts : Leases(a)
      <4>1. share' = share /\ (serving' = serving \/ serving' = [serving EXCEPT !.control = TRUE])
        BY <3>3 DEF Leases
      <4> QED BY <1>0, <4>1
    <3>4. CASE trigger_stop_sharing
      BY <1>0, <3>4 DEF trigger_stop_sharing
    <3>5. CASE respond_consent
      BY <1>0, <3>5 DEF respond_consent
    <3> QED BY <1>3, <3>1, <3>2, <3>3, <3>4, <3>5
  <2> QED BY <2>1, <2>2, ServedSteady
<1>4. CASE Leaves
  <2>1. /\ asks' = [a \in Prompts |->
                      IF asks[a].kind \notin {"control", "file"} THEN asks[a]
                      ELSE IF asks[a].at = "closed" THEN Free ELSE Orphan(asks[a])]
        /\ serving' = [viewer |-> FALSE, control |-> FALSE]
    BY <1>4 DEF Leaves, Orphan
  <2>2. Free.kind = "none"
    BY DEF Free
  <2>3. ASSUME NEW a \in Prompts, asks'[a].kind = "control"
        PROVE  asks'[a].of # "now" /\ asks'[a].at # "closed"
    <3>1. asks[a].kind \in {"control", "file"} /\ asks[a].at # "closed"
      BY <2>1, <2>2, <2>3
    <3>2. asks[a] \in Asked
      BY <2>2, <3>1, PromptFacts
    <3>3. asks'[a] = Orphan(asks[a])
      BY <2>1, <3>1
    <3> QED BY <3>1, <3>2, <3>3, AskMoves
  <2>4. serving' \in [viewer : BOOLEAN, control : BOOLEAN] /\ serving'.viewer = FALSE
    BY <2>1
  <2> QED BY <2>3, <2>4 DEF Served
<1>5. CASE \/ RefusedAtOnce \/ LeaseExpires \/ ShareEnds \/ start_sharing \/ Handles
           \/ show_main_window \/ UNCHANGED promptingVars
  <2>1. Steady
    <3>1. asks' = asks
      BY <1>5 DEF RefusedAtOnce, LeaseExpires, ShareEnds, start_sharing, Handles, show_main_window,
                  promptingVars, promptVars
    <3> QED BY <3>1 DEF Steady
  <2>2. serving' = serving \/ serving' = [serving EXCEPT !.control = FALSE]
    BY <1>5 DEF RefusedAtOnce, LeaseExpires, ShareEnds, start_sharing, Handles, show_main_window,
                promptingVars, promptVars
  <2>3. share' = share \/ share' = "on" \/ ~serving.viewer
    BY <1>5 DEF RefusedAtOnce, LeaseExpires, ShareEnds, start_sharing, Handles, show_main_window,
                promptingVars, promptVars
  <2>4. /\ serving' \in [viewer : BOOLEAN, control : BOOLEAN]
        /\ serving.viewer => serving'.viewer
        /\ serving'.viewer => serving.viewer
    BY <1>0, <2>2
  <2>5. share' = "off" => ~serving'.viewer
    BY <1>0, <2>3, <2>4
  <2> QED BY <2>1, <2>4, <2>5, ServedSteady
<1>6. CASE OfferTimesOut \/ \E k \in Kinds, allow \in BOOLEAN : Clicks(k, allow)
  <2>1. UNCHANGED <<asks, serving, share>>
    BY <1>6 DEF OfferTimesOut, Clicks, respondOffer, promptVars
  <2> QED BY <1>0, <2>1 DEF Served
<1> QED BY <1>1, <1>2, <1>3, <1>4, <1>5, <1>6 DEF ScreenNext

(* What each event and each silent step does to the badge's last state.     *)
LEMMA MarkNextInv ==
  ASSUME PromptInv, PromptInv', MarkInv, [ScreenNext]_promptingVars PROVE MarkInv'
<1>0. Served /\ Served'
  BY ServedNext DEF MarkInv
<1>1. ASSUME NEW a \in Prompts, NEW k \in Kinds, promptUser(a, k) PROVE MarkInv'
  <2> DEFINE e == [is |-> "request", kind |-> k, ask |-> a]
  <2>1. events' = Append(events, e) /\ UNCHANGED <<serving, share, badge>>
    BY <1>1 DEF promptUser, Says, windowVars
  <2>2. e \in Emitted /\ e.is = "request"
    BY DEF Emitted, Askings
  <2> HIDE DEF e
  <2>3. \A c, d \in Badges : Final(c) /\ Marked(e, c, d) => Final(d)'
    BY <2>1, <2>2 DEF Final, Marked
  <2> QED BY <1>0, <2>1, <2>2, <2>3, MarkEmits
<1>2. ASSUME NEW a \in Prompts, Closes(a) PROVE MarkInv'
  <2>1. PICK k \in Kinds : asks[a].kind = k
    <3>1. asks[a].at = "cleared"
      BY <1>2 DEF Closes, Close
    <3> QED BY <3>1, PromptFacts, AskFacts
  <2> DEFINE e == [is |-> "closed", kind |-> k]
  <2>2. events' = Append(events, e) /\ UNCHANGED <<serving, share, badge>>
    BY <1>2, <2>1 DEF Closes, Close, Says, windowVars
  <2>3. e \in Emitted /\ e.is = "closed"
    BY DEF Emitted, Closings
  <2> HIDE DEF e
  <2>4. \A c, d \in Badges : Final(c) /\ Marked(e, c, d) => Final(d)'
    BY <2>2, <2>3 DEF Final, Marked
  <2> QED BY <1>0, <2>2, <2>3, <2>4, MarkEmits
<1>3. ASSUME NEW a \in Prompts, Serves(a) PROVE MarkInv'
  <2> DEFINE e == [is |-> "viewer", on |-> TRUE]
  <2>1. events' = Append(events, e) /\ share' = "on" /\ badge' = badge
    BY <1>3 DEF Serves, Says, windowVars
  <2>2. e \in Emitted /\ e.is = "viewer" /\ e.on = TRUE
    BY DEF Emitted, Marks
  <2> HIDE DEF e
  <2>3. \A c, d \in Badges : Final(c) /\ Marked(e, c, d) => Final(d)'
    BY <2>1, <2>2 DEF Final, Marked
  <2> QED BY <1>0, <2>1, <2>2, <2>3, MarkEmits
<1>4. ASSUME NEW a \in Prompts, Leases(a) PROVE MarkInv'
  <2>1. PICK e \in Marks : e = [is |-> "control", on |-> asks[a].answer \in Allowed]
    <3>1. [is |-> "control", on |-> asks[a].answer \in Allowed] \in Marks
      BY DEF Marks
    <3> QED BY <3>1
  <2>2. /\ events' = Append(events, e) /\ share' = share /\ badge' = badge
        /\ serving' = serving \/ serving' = [serving EXCEPT !.control = TRUE]
    BY <1>4, <2>1 DEF Leases, Says, windowVars
  <2>3. e \in Emitted /\ e.is = "control"
    BY <2>1 DEF Emitted, Marks
  <2>4. asks[a].kind = "control" /\ asks[a].at = "closed"
    BY <1>4 DEF Leases, Returns
  <2>5. serving.viewer /\ share # "off" /\ serving'.viewer = serving.viewer
    BY <1>0, <2>2, <2>4 DEF Served
  <2>6. \A c, d \in Badges : Final(c) /\ Marked(e, c, d) => Final(d)'
    BY <2>2, <2>3, <2>5 DEF Final, Marked
  <2> QED BY <1>0, <2>2, <2>3, <2>6, MarkEmits
<1>5. CASE Leaves
  <2> DEFINE e == [is |-> "viewer", on |-> FALSE]
  <2>1. /\ events' = Append(events, e) /\ share' = share /\ badge' = badge
        /\ serving.viewer /\ serving' = [viewer |-> FALSE, control |-> FALSE]
    BY <1>5 DEF Leaves, Says, windowVars
  <2>2. e \in Emitted /\ e.is = "viewer"
    BY DEF Emitted, Marks
  <2> HIDE DEF e
  <2>3. share # "off" /\ serving'.viewer = FALSE
    BY <1>0, <2>1 DEF Served
  <2>4. \A c, d \in Badges : Final(c) /\ Marked(e, c, d) => Final(d)'
    BY <2>1, <2>3 DEF Final
  <2> QED BY <1>0, <2>1, <2>2, <2>4, MarkEmits
<1>6. CASE RefusedAtOnce
  <2> DEFINE e == [is |-> "control", on |-> FALSE]
  <2>1. /\ events' = Append(events, e) /\ UNCHANGED <<share, badge, serving>> /\ serving.viewer
    BY <1>6 DEF RefusedAtOnce, Says, windowVars, promptVars
  <2>2. e \in Emitted /\ e.is = "control"
    BY DEF Emitted, Marks
  <2> HIDE DEF e
  <2>3. share # "off"
    BY <1>0, <2>1 DEF Served
  <2>4. \A c, d \in Badges : Final(c) /\ Marked(e, c, d) => Final(d)'
    BY <2>1, <2>2, <2>3 DEF Final, Marked
  <2> QED BY <1>0, <2>1, <2>2, <2>4, MarkEmits
<1>7. CASE ShareEnds
  <2> DEFINE e == [is |-> "share", on |-> FALSE]
  <2>1. /\ events' = Append(events, e) /\ UNCHANGED <<badge, serving>> /\ ~serving.viewer
    BY <1>7 DEF ShareEnds, Says, windowVars
  <2>2. e \in Emitted /\ e.is = "share"
    BY DEF Emitted, Marks
  <2> HIDE DEF e
  <2>3. \A c, d \in Badges : Final(c) /\ Marked(e, c, d) => Final(d)'
    BY <2>1, <2>2 DEF Final, Marked
  <2> QED BY <1>0, <2>1, <2>2, <2>3, MarkEmits
<1>8. CASE \/ \E a \in Prompts : Resolves(a) \/ StaysAway(a)
           \/ respond_consent \/ show_main_window \/ OfferTimesOut
           \/ \E k \in Kinds, allow \in BOOLEAN : Clicks(k, allow)
           \/ UNCHANGED promptingVars
  <2>1. UNCHANGED <<badge, events, serving, share>>
    BY <1>8 DEF Resolves, StaysAway, respond_consent, show_main_window, OfferTimesOut, Clicks,
                respondOffer, promptingVars, promptVars, windowVars
  <2>2. \A c \in Badges : Final(c) => Final(c)'
    BY <2>1 DEF Final
  <2> QED BY <1>0, <2>1, <2>2, MarkStays
<1>9. CASE LeaseExpires \/ trigger_stop_sharing \/ start_sharing
  <2>1. /\ UNCHANGED <<badge, events>> /\ (share' = share \/ share' # "off")
        /\ serving' = serving \/ serving' = [serving EXCEPT !.control = FALSE]
    BY <1>9 DEF LeaseExpires, trigger_stop_sharing, start_sharing, windowVars
  <2>2. serving'.viewer = serving.viewer
    BY <1>0, <2>1 DEF Served
  <2>3. \A c \in Badges : Final(c) => Final(c)'
    BY <2>1, <2>2 DEF Final
  <2> QED BY <1>0, <2>1, <2>3, MarkStays
<1>10. CASE Handles
  BY <1>0, <1>10, MarkHandles
<1> QED BY <1>1, <1>2, <1>3, <1>4, <1>5, <1>6, <1>7, <1>8, <1>9, <1>10 DEF ScreenNext

(* Nobody is served at first, and the badge is dark.                        *)
LEMMA MarkInitInv ==
  ASSUME ScreenInit PROVE MarkInv
<1> DEFINE b == <<badge>>
<1>1. /\ asks = [a \in Prompts |-> Free] /\ events = <<>> /\ share = "on"
      /\ serving = [viewer |-> FALSE, control |-> FALSE]
      /\ badge = [viewing |-> FALSE, controlling |-> FALSE]
  BY DEF ScreenInit
<1>2. Served
  <2>1. \A a \in Prompts : asks[a].kind # "control"
    BY <1>1 DEF Free
  <2> QED BY <1>1, <2>1 DEF Served
<1>3. badge \in Badges
  BY <1>1 DEF Badges
<1>4. Len(b) = 1 /\ b[1] = badge /\ b \in Seq(Badges)
  BY <1>3
<1> HIDE DEF b
<1>5. Links(b, events, Badges, Marking)
  BY <1>1, <1>4 DEF Links
<1>6. Final(b[Len(b)])
  BY <1>1, <1>4 DEF Final
<1>7. events \in Seq(Emitted)
  BY <1>1
<1> QED BY <1>2, <1>3, <1>4, <1>5, <1>6, <1>7 DEF MarkInv

(* When all events are handled the badge is in its last state.              *)
LEMMA MarkedAtLast ==
  ASSUME MarkInv PROVE SessionIsMarked
<1> SUFFICES ASSUME events = <<>> PROVE SessionIsMarked
  BY DEF SessionIsMarked
<1>1. PICK b : Links(b, events, Badges, Marking) /\ b[1] = badge /\ Final(b[Len(b)])
  BY DEF MarkInv
<1>2. Len(b) = 1
  BY <1>1 DEF Links
<1> QED BY <1>1, <1>2 DEF Final, SessionIsMarked
-----------------------------------------------------------------------------
(* The parts side by side.                                                  *)

(* A step of the books is one of the part that was chosen: the contacts, the *)
(* screen and the panel move in theirs alone.                               *)
LEMMA EachBookSteps ==
  ASSUME [\/ LeaseManaged \/ Contacts \/ Audit \/ Files \/ Wire \/ Screen \/ Panel
          \/ Stored]_bookVars
  PROVE  [ContactNext]_contactVars /\ [ScreenNext]_promptingVars /\ [PanelNext]_panelVars
<1>1. CASE LeaseManaged
  BY <1>1 DEF LeaseManaged
<1>2. CASE Contacts
  BY <1>2 DEF Contacts
<1>3. CASE Audit
  BY <1>3 DEF Audit
<1>4. CASE Files
  BY <1>4 DEF Files
<1>5. CASE Wire
  BY <1>5 DEF Wire
<1>6. CASE Screen
  BY <1>6 DEF Screen
<1>7. CASE Panel
  BY <1>7 DEF Panel
<1>8. CASE Stored
  BY <1>8 DEF Stored
<1>9. CASE UNCHANGED bookVars
  BY <1>9 DEF bookVars
<1> QED BY <1>1, <1>2, <1>3, <1>4, <1>5, <1>6, <1>7, <1>8, <1>9

(* What the user decided holds (main.rs, ras-identity): a contact that was  *)
(* removed or blocked with success is active neither in memory nor in the   *)
(* file, and no presence task of it goes on; every task that runs can be    *)
(* stopped; a prompt that waits is the one that an answer finds, none is    *)
(* answered for by another of its own session, and none that a stop found   *)
(* open is allowed.                                                         *)
THEOREM WhatIsDecidedHolds == BooksSpec => []DecidedHolds
<1>1. BooksInit => ContactInv /\ PromptInv
  BY ContactInitInv, ScreenInitInv DEF BooksInit
<1>2. /\ ContactInv /\ PromptInv
      /\ [\/ LeaseManaged \/ Contacts \/ Audit \/ Files \/ Wire \/ Screen \/ Panel
          \/ Stored]_bookVars
      => ContactInv' /\ PromptInv'
  BY EachBookSteps, ContactNextInv, ScreenNextInv
<1>3. ContactInv /\ PromptInv => DecidedHolds
  <2>1. SUFFICES ASSUME ContactInv, PromptInv PROVE NotPreempted /\ CutIsDenied
    BY DEF ContactInv, PromptInv, DecidedHolds
  <2>2. ASSUME NEW a \in Prompts PROVE asks[a].answer # "preempted" /\ asks[a].cut = FALSE
    <3>1. asks[a] \in Asked \cup {Free}
      BY <2>1, PromptFacts
    <3>2. CASE asks[a] \in Asked
      BY <3>2, AskFacts
    <3>3. CASE asks[a] = Free
      BY <3>3 DEF Free
    <3> QED BY <3>1, <3>2, <3>3
  <2> QED BY <2>2 DEF NotPreempted, CutIsDenied
<1> QED BY <1>1, <1>2, <1>3, PTL DEF BooksSpec

(* The inductive invariant of the screen.                                   *)
ScreenInv == PromptInv /\ CountInv /\ MarkInv

(* The screen alone, step by step.                                          *)
LEMMA ScreenSteps ==
  /\ ScreenInit => ScreenInv
  /\ ScreenInv /\ [ScreenNext]_promptingVars => ScreenInv'
<1>1. ScreenInit => ScreenInv
  BY ScreenInitInv, CountInitInv, MarkInitInv DEF ScreenInv
<1>2. ASSUME ScreenInv, [ScreenNext]_promptingVars PROVE ScreenInv'
  <2>1. PromptInv'
    BY <1>2, ScreenNextInv DEF ScreenInv
  <2>2. CountInv' /\ MarkInv'
    BY <1>2, <2>1, CountNextInv, MarkNextInv DEF ScreenInv
  <2> QED BY <2>1, <2>2 DEF ScreenInv
<1> QED BY <1>1, <1>2

(* The screen shows its user the truth (LocalConsent in main.rs, main.js,   *)
(* overlay.js): when nothing is asked any more and every event has been     *)
(* handled, no dialog for access or control is up and none keeps the window *)
(* in the shared picture; a session that is served is marked and one that   *)
(* is over is not; and a panel that refuses another file has a send under   *)
(* way that something will end.                                             *)
THEOREM WhatIsShownIsTrue == BooksSpec => []ScreenIsTrue
<1>1. BooksInit => ScreenInv /\ PanelInv
  BY ScreenSteps, PanelInitInv DEF BooksInit
<1>2. /\ ScreenInv /\ PanelInv
      /\ [\/ LeaseManaged \/ Contacts \/ Audit \/ Files \/ Wire \/ Screen \/ Panel
          \/ Stored]_bookVars
      => ScreenInv' /\ PanelInv'
  BY EachBookSteps, ScreenSteps, PanelNextInv
<1>3. ScreenInv /\ PanelInv => ScreenIsTrue
  BY NothingUp, MarkedAtLast, PanelPromise DEF ScreenInv, ScreenIsTrue
<1> QED BY <1>1, <1>2, <1>3, PTL DEF BooksSpec

(* The page does not slide away a dialog it shows (main.js): whenever       *)
(* handling an event minimizes the window that was up, no dialog for access *)
(* or control is left in it.                                                *)
THEOREM DialogsAreNotSlidAway == BooksSpec => PromptsStayUp
<1>1. BooksInit => ScreenInv
  BY ScreenSteps DEF BooksInit
<1>2. /\ ScreenInv
      /\ [\/ LeaseManaged \/ Contacts \/ Audit \/ Files \/ Wire \/ Screen \/ Panel
          \/ Stored]_bookVars
      => /\ ScreenInv'
         /\ [Handles /\ screen = "up" /\ screen' = "minimized" =>
               display'.dialogs["access"] = 0 /\ display'.dialogs["control"] = 0]_promptingVars
  <2> SUFFICES ASSUME ScreenInv,
                      [\/ LeaseManaged \/ Contacts \/ Audit \/ Files \/ Wire \/ Screen \/ Panel
                       \/ Stored]_bookVars
               PROVE  /\ ScreenInv'
                      /\ Handles /\ screen = "up" /\ screen' = "minimized" =>
                           display'.dialogs["access"] = 0 /\ display'.dialogs["control"] = 0
    OBVIOUS
  <2>1. ScreenInv'
    BY EachBookSteps, ScreenSteps
  <2> QED BY <2>1, StaysUp DEF ScreenInv
<1> QED BY <1>1, <1>2, PTL DEF BooksSpec, PromptsStayUp

-----------------------------------------------------------------------------
(* The file push, for any number of offers, size of file and depth of the   *)
(* queues. The invariant says where the sink's open file is (SinkInv), that *)
(* whoever is spoken of was offered and whatever is written was allowed     *)
(* (Named), that the chunks under way are in the order in which the sender  *)
(* read them (StreamInv), and that what is stored came before them and,     *)
(* within one offer, runs ahead of its index by as many chunks as were lost *)
(* (StoredInv): a file of one offer and the right length lost none.         *)

(* The types. A chunk's bytes are its offer and its place.                  *)
Chunks == [kind : {"chunk"}, offer : Offers, place : 1 .. MaxSize]
Messages == [kind : {"offer"}, offer : Offers] \cup Chunks \cup [kind : {"complete"}]
Senders == [offer : 0 .. MaxOffers, phase : {"idle", "wait", "stream"}, next : Nat \ {0}]
Ctls == [pc : Pcs \ {"reply", "open", "arm", "write"}]
          \cup [pc : {"reply"}, reply : {"accept", "reject"}]
          \cup [pc : {"open", "arm"}, offer : Offers]
          \cup [pc : {"write"}, chunk : Chunks]
Asks == [state : {"none"}] \cup [state : {"open"}, offer : Offers]
          \cup [state : {"answered"}, offer : Offers, yes : BOOLEAN]
Transfers == [offer : Offers, received : Nat]
StoredAs == [kind : {"absent", "partial", "kept", "unsynced"}, data : Seq(Chunks)]

SenderTyped ==
  /\ size \in [Offers -> 0 .. MaxSize]
  /\ sender \in Senders /\ (sender.phase # "idle" => sender.offer \in Offers)
  /\ toHost \in Seq(Messages) /\ toSender \in Seq({"accept", "reject"})
TaskTyped ==
  /\ stop \in BOOLEAN /\ stopper \in {"none", "join", "abort", "done"}
  /\ ctl \in Ctls /\ prompt \in Asks /\ allowed \subseteq Offers
SinkTyped ==
  /\ transfer \in Transfers \cup {NoTransfer}
  /\ writer \in Offers \cup {None} /\ dest \in [Offers -> StoredAs]
FileTyped == SenderTyped /\ TaskTyped /\ SinkTyped

(* Where the sink's open file is.                                           *)
SinkInv ==
  /\ \A o \in Offers : dest[o].kind = "partial" <=> writer = o
  /\ transfer # NoTransfer => writer = transfer.offer
  /\ transfer = NoTransfer => writer = None \/ ctl.pc \in {"arm", "discard", "finish"}
  /\ ctl.pc \in {"open", "arm", "discard", "finish"} \/ prompt.state # "none" =>
       transfer = NoTransfer
  /\ ctl.pc \in {"open", "arm"} => prompt.state = "none"
  /\ ctl.pc = "arm" => writer = ctl.offer
  /\ ctl.pc = "gone" => transfer = NoTransfer
  /\ stopper # "none" => stop

(* Whoever is spoken of was offered, and its size stays; what is written    *)
(* was allowed.                                                             *)
Named ==
  /\ \A i \in 1 .. Len(toHost) : toHost[i].kind = "offer" => toHost[i].offer <= sender.offer
  /\ prompt.state # "none" => prompt.offer <= sender.offer
  /\ ctl.pc \in {"open", "arm"} => ctl.offer <= sender.offer /\ ctl.offer \in allowed
  /\ prompt.state = "answered" => (prompt.yes => prompt.offer \in allowed)
  /\ writer <= sender.offer /\ (writer # None => writer \in allowed)
  /\ \A o \in Offers : dest[o].kind # "absent" => o <= sender.offer

(* Chunks are in order, all the way: those of an offer behind those of an   *)
(* earlier one, and the chunks of an offer by their place.                  *)
Before(x, y) == x.offer < y.offer \/ (x.offer = y.offer /\ x.place < y.place)
Behind(x, s) == x.offer < s.offer \/ (x.offer = s.offer /\ x.place < s.next)
Fits(x, s, z) == x.offer <= s.offer /\ x.place <= z[x.offer]
Ahead(x, q, s) ==
  /\ \A i \in 1 .. Len(q) : q[i].kind = "chunk" => Before(x, q[i])
  /\ Behind(x, s)
InOrder(q, s, z) ==
  /\ \A i \in 1 .. Len(q) : q[i].kind = "chunk" => Fits(q[i], s, z) /\ Behind(q[i], s)
  /\ \A i, j \in 1 .. Len(q) :
       i < j /\ q[i].kind = "chunk" /\ q[j].kind = "chunk" => Before(q[i], q[j])
StreamInv ==
  /\ InOrder(toHost, sender, size)
  /\ ctl.pc = "write" => Fits(ctl.chunk, sender, size) /\ Ahead(ctl.chunk, toHost, sender)

(* What is stored is in order and skips forward only; behind what was       *)
(* stored for the transfer comes what is still under way.                   *)
Ordered(data, s, z) ==
  /\ \A i \in 1 .. Len(data) : Fits(data[i], s, z)
  /\ \A i, j \in 1 .. Len(data) : i < j => Before(data[i], data[j])
  /\ \A i, j \in 1 .. Len(data) :
       i < j /\ data[i].offer = data[j].offer => data[i].place + j <= data[j].place + i
Passed(data, q, s) == \A i \in 1 .. Len(data) : Ahead(data[i], q, s)
Precedes(data, x) == \A i \in 1 .. Len(data) : Before(data[i], x)
Arriving(data) ==
  /\ Len(data) = transfer.received /\ Passed(data, toHost, sender)
  /\ ctl.pc = "write" => Precedes(data, ctl.chunk)
StoredInv ==
  /\ \A o \in Offers : dest[o].kind # "absent" => Ordered(dest[o].data, sender, size)
  /\ transfer # NoTransfer => Arriving(dest[transfer.offer].data)
  /\ ctl.pc = "arm" => dest[ctl.offer].data = <<>>
  /\ ctl.pc = "finish" => writer # None /\ Len(dest[writer].data) = size[writer]
  /\ \A o \in Offers : dest[o].kind = "kept" => o \in allowed /\ Len(dest[o].data) = size[o]

FileInv == FileTyped /\ SinkInv /\ Named /\ StreamInv /\ StoredInv

-----------------------------------------------------------------------------
(* The queues, by what is at each of their places.                          *)
Shorter(q, p) == \A i \in 1 .. Len(q) : i \in 1 .. Len(p) /\ q[i] = p[i]
Shifted(q, p) == \A i \in 1 .. Len(q) : i + 1 \in 1 .. Len(p) /\ q[i] = p[i + 1]
Longer(q, p, m) ==
  \A i \in 1 .. Len(q) : \/ i \in 1 .. Len(p) /\ q[i] = p[i]
                         \/ i = Len(p) + 1 /\ q[i] = m

(* What is in a queue after something was appended,                         *)
LEMMA AppendFacts ==
  ASSUME NEW S, NEW q \in Seq(S), NEW e \in S
  PROVE  /\ Append(q, e) \in Seq(S) /\ Len(q) \in Nat
         /\ Len(Append(q, e)) = Len(q) + 1 /\ Longer(Append(q, e), q, e)
         /\ Append(q, e)[Len(q) + 1] = e
         /\ \A i \in 1 .. Len(q) : Append(q, e)[i] = q[i] /\ q[i] \in S
BY DEF Longer

(* after its head was taken,                                                *)
LEMMA TailFacts ==
  ASSUME NEW S, NEW q \in Seq(S), q # <<>>
  PROVE  /\ Tail(q) \in Seq(S) /\ Shifted(Tail(q), q)
         /\ Head(q) = q[1] /\ q[1] \in S /\ 1 \in 1 .. Len(q)
BY DEF Shifted

(* after its end was lost,                                                  *)
LEMMA PrefixFacts ==
  ASSUME NEW S, NEW q \in Seq(S), NEW n \in 0 .. Len(q)
  PROVE  SubSeq(q, 1, n) \in Seq(S) /\ Shorter(SubSeq(q, 1, n), q)
BY DEF Shorter

(* and when nothing was done to it.                                         *)
LEMMA SameFacts ==
  ASSUME NEW S, NEW q \in Seq(S), NEW m
  PROVE  Shorter(q, q) /\ Longer(q, q, m) /\ Len(q) \in Nat /\ \A i \in 1 .. Len(q) : q[i] \in S
BY DEF Shorter, Longer

(* A command is at the end of the queue, or was dropped.                    *)
LEMMA PostFacts ==
  ASSUME toHost \in Seq(Messages), NEW m \in Messages, Post(m)
  PROVE  toHost' \in Seq(Messages) /\ Longer(toHost', toHost, m)
<1>1. toHost' = toHost \/ toHost' = Append(toHost, m)
  BY DEF Post
<1> HIDE DEF Messages
<1>2. CASE toHost' = toHost
  BY <1>2, SameFacts
<1>3. CASE toHost' = Append(toHost, m)
  <2>1. Append(toHost, m) \in Seq(Messages) /\ Longer(Append(toHost, m), toHost, m)
    BY AppendFacts
  <2> QED BY <1>3, <2>1
<1> QED BY <1>1, <1>2, <1>3

(* What the task reads is the head of the queue.                            *)
LEMMA ReadFacts ==
  ASSUME toHost \in Seq(Messages), NEW kind, Reads(kind)
  PROVE  /\ toHost' \in Seq(Messages) /\ Shifted(toHost', toHost)
         /\ Head(toHost) = toHost[1] /\ toHost[1] \in Messages /\ 1 \in 1 .. Len(toHost)
         /\ ctl.pc = "loop" /\ toHost[1].kind = kind
<1> HIDE DEF Messages
<1> QED BY TailFacts DEF Reads

(* What is left of both directions when the connection is cut.              *)
LEMMA CutFacts ==
  ASSUME toHost \in Seq(Messages), toSender \in Seq({"accept", "reject"}), TransportLost
  PROVE  /\ toHost' \in Seq(Messages) /\ Shorter(toHost', toHost)
         /\ toSender' \in Seq({"accept", "reject"}) /\ Shorter(toSender', toSender)
<1> HIDE DEF Messages
<1>1. PICK n \in 0 .. Len(toHost) : toHost' = SubSeq(toHost, 1, n)
  BY DEF TransportLost
<1>2. PICK m \in 0 .. Len(toSender) : toSender' = SubSeq(toSender, 1, m)
  BY DEF TransportLost
<1>3. toHost' \in Seq(Messages) /\ Shorter(toHost', toHost)
  BY <1>1, PrefixFacts
<1>4. toSender' \in Seq({"accept", "reject"}) /\ Shorter(toSender', toSender)
  BY <1>2, PrefixFacts
<1> QED BY <1>3, <1>4

(* The records of the model, by the names of what they stand for.           *)
OfferMsg(o) == [kind |-> "offer", offer |-> o]
ChunkMsg(o, p) == [kind |-> "chunk", offer |-> o, place |-> p]
CompleteMsg == [kind |-> "complete"]
FileWaiting(o) == [offer |-> o, phase |-> "wait", next |-> 1]
Phased(s, phase) == [s EXCEPT !.phase = phase]
Sent(s) == [s EXCEPT !.next = @ + 1]
Reply(r) == [pc |-> "reply", reply |-> r]
Opening(o) == [pc |-> "open", offer |-> o]
Arming(c) == [c EXCEPT !.pc = "arm"]
Writing(x) == [pc |-> "write", chunk |-> x]
AskFor(o) == [state |-> "open", offer |-> o]
FileAnswered(o, yes) == [state |-> "answered", offer |-> o, yes |-> yes]
NoAsk == [state |-> "none"]
Armed(o) == [offer |-> o, received |-> 0]
More(t) == [t EXCEPT !.received = @ + 1]
Partial == [kind |-> "partial", data |-> <<>>]
FileMarked(f, kind) == [f EXCEPT !.kind = kind]
Written(f, x) == [f EXCEPT !.data = Append(@, x)]

(* Each kind of message is one.                                             *)
LEMMA MessageFacts ==
  /\ \A o \in Offers : /\ OfferMsg(o) \in Messages
                       /\ OfferMsg(o).kind = "offer" /\ OfferMsg(o).offer = o
  /\ \A o \in Offers, p \in 1 .. MaxSize :
       /\ ChunkMsg(o, p) \in Messages /\ ChunkMsg(o, p).kind = "chunk"
       /\ ChunkMsg(o, p).offer = o /\ ChunkMsg(o, p).place = p
  /\ CompleteMsg \in Messages /\ CompleteMsg.kind = "complete"
BY DEF Messages, Chunks, OfferMsg, ChunkMsg, CompleteMsg

(* What a message is, by its kind.                                          *)
LEMMA MessageIs ==
  ASSUME NEW m \in Messages
  PROVE  /\ m.kind \in {"offer", "chunk", "complete"}
         /\ m.kind = "offer" => m.offer \in Offers
         /\ m.kind = "chunk" => m \in Chunks
BY DEF Messages, Chunks

(* A chunk is a message, of an offer and at a place.                        *)
LEMMA ChunkIs ==
  ASSUME NEW m \in Chunks
  PROVE  m \in Messages /\ m.kind = "chunk" /\ m.offer \in Offers /\ m.place \in 1 .. MaxSize
BY DEF Messages, Chunks

(* The sender, when it offers, is told something and sends.                 *)
LEMMA SenderFacts ==
  /\ \A s \in Senders : /\ s.offer \in 0 .. MaxOffers /\ s.phase \in {"idle", "wait", "stream"}
                        /\ s.next \in Nat \ {0}
  /\ \A o \in Offers : /\ FileWaiting(o) \in Senders
                       /\ FileWaiting(o).offer = o /\ FileWaiting(o).phase = "wait"
                       /\ FileWaiting(o).next = 1
  /\ \A s \in Senders : \A p \in {"idle", "wait", "stream"} :
       /\ Phased(s, p) \in Senders
       /\ Phased(s, p).offer = s.offer /\ Phased(s, p).phase = p /\ Phased(s, p).next = s.next
  /\ \A s \in Senders :
       /\ Sent(s) \in Senders
       /\ Sent(s).offer = s.offer /\ Sent(s).phase = s.phase /\ Sent(s).next = s.next + 1
BY TransferAssumption DEF Senders, Offers, FileWaiting, Phased, Sent

(* Where the task can be, and what it carries there.                        *)
LEMMA CtlFacts ==
  /\ \A pc \in Pcs \ {"reply", "open", "arm", "write"} : At(pc) \in Ctls /\ At(pc).pc = pc
  /\ \A r \in {"accept", "reject"} :
       Reply(r) \in Ctls /\ Reply(r).pc = "reply" /\ Reply(r).reply = r
  /\ \A o \in Offers : Opening(o) \in Ctls /\ Opening(o).pc = "open" /\ Opening(o).offer = o
  /\ \A x \in Chunks : Writing(x) \in Ctls /\ Writing(x).pc = "write" /\ Writing(x).chunk = x
  /\ \A c \in Ctls : c.pc = "open" =>
       Arming(c) \in Ctls /\ Arming(c).pc = "arm" /\ Arming(c).offer = c.offer
<1> USE DEF Ctls
<1>1. \A pc \in Pcs \ {"reply", "open", "arm", "write"} : At(pc) \in Ctls /\ At(pc).pc = pc
  BY DEF At
<1>2. /\ \A r \in {"accept", "reject"} :
           Reply(r) \in Ctls /\ Reply(r).pc = "reply" /\ Reply(r).reply = r
      /\ \A o \in Offers : Opening(o) \in Ctls /\ Opening(o).pc = "open" /\ Opening(o).offer = o
      /\ \A x \in Chunks : Writing(x) \in Ctls /\ Writing(x).pc = "write" /\ Writing(x).chunk = x
  BY DEF Reply, Opening, Writing
<1>3. \A c \in Ctls : c.pc = "open" =>
        Arming(c) \in Ctls /\ Arming(c).pc = "arm" /\ Arming(c).offer = c.offer
  BY DEF Arming
<1> QED BY <1>1, <1>2, <1>3

(* What the task carries, by where it is.                                   *)
LEMMA CtlIs ==
  ASSUME NEW c \in Ctls
  PROVE  /\ c.pc \in Pcs
         /\ c.pc = "reply" => c.reply \in {"accept", "reject"}
         /\ c.pc \in {"open", "arm"} => c.offer \in Offers
         /\ c.pc = "write" => c.chunk \in Chunks
BY DEF Ctls, Pcs

(* The prompt, before and after the answer.                                 *)
LEMMA FileAskFacts ==
  /\ NoAsk \in Asks /\ NoAsk.state = "none"
  /\ \A o \in Offers : AskFor(o) \in Asks /\ AskFor(o).state = "open" /\ AskFor(o).offer = o
  /\ \A o \in Offers : \A y \in BOOLEAN :
       /\ FileAnswered(o, y) \in Asks /\ FileAnswered(o, y).state = "answered"
       /\ FileAnswered(o, y).offer = o /\ FileAnswered(o, y).yes = y
BY DEF Asks, NoAsk, AskFor, FileAnswered

(* What the prompt holds, by its state.                                     *)
LEMMA AskIs ==
  ASSUME NEW p \in Asks
  PROVE  /\ p.state \in {"none", "open", "answered"}
         /\ p.state # "none" => p.offer \in Offers
         /\ p.state = "answered" => p.yes \in BOOLEAN
BY DEF Asks

(* A transfer, when it is armed and when a chunk is counted.                *)
LEMMA TransferFacts ==
  /\ NoTransfer \notin Transfers
  /\ \A o \in Offers : Armed(o) \in Transfers /\ Armed(o).offer = o /\ Armed(o).received = 0
  /\ \A t \in Transfers : /\ t.offer \in Offers /\ t.received \in Nat /\ More(t) \in Transfers
                          /\ More(t).offer = t.offer /\ More(t).received = t.received + 1
BY DEF Transfers, NoTransfer, Offers, None, Armed, More

(* A stored file, when it is made, written to and let go of.                *)
LEMMA StoredFacts ==
  /\ Absent \in StoredAs /\ Absent.kind = "absent"
  /\ Partial \in StoredAs /\ Partial.kind = "partial" /\ Partial.data = <<>>
  /\ \A f \in StoredAs : \A k \in {"kept", "unsynced"} :
       FileMarked(f, k) \in StoredAs /\ FileMarked(f, k).kind = k /\ FileMarked(f, k).data = f.data
  /\ \A f \in StoredAs :
       f.kind \in {"absent", "partial", "kept", "unsynced"} /\ f.data \in Seq(Chunks)
BY DEF StoredAs, Absent, Partial, FileMarked

(* A stored file, when a chunk is written to it.                            *)
LEMMA WriteFacts ==
  ASSUME NEW f \in StoredAs, NEW x \in Chunks
  PROVE  /\ Written(f, x) \in StoredAs /\ Written(f, x).kind = f.kind
         /\ Written(f, x).data = Append(f.data, x)
<1>1. f.data \in Seq(Chunks)
  BY DEF StoredAs
<1>2. Append(f.data, x) \in Seq(Chunks)
  BY <1>1, AppendFacts
<1> QED BY <1>2 DEF StoredAs, Written

-----------------------------------------------------------------------------
(* What a change of the queue, of the sender or of the sizes keeps of the   *)
(* order of the chunks: of those under way, and of those that went before.  *)
Keeps(q, t, z, p, s, y) ==
  /\ InOrder(p, s, y) => InOrder(q, t, z)
  /\ \A x \in Chunks : Ahead(x, p, s) => Ahead(x, q, t)
  /\ \A x \in Chunks : Fits(x, s, y) => Fits(x, t, z)

(* A queue that lost its end, or its first message.                         *)
LEMMA LessKeeps ==
  ASSUME NEW p \in Seq(Messages), NEW q \in Seq(Messages), NEW s, NEW y,
         Shorter(q, p) \/ Shifted(q, p)
  PROVE  Keeps(q, s, y, p, s, y)
<1>0. Len(p) \in Nat /\ Len(q) \in Nat
  OBVIOUS
<1>1. ASSUME NEW i \in 1 .. Len(q) PROVE \E k \in 1 .. Len(p) : q[i] = p[k]
  BY <1>0 DEF Shorter, Shifted
<1>2. ASSUME NEW i \in 1 .. Len(q), NEW j \in 1 .. Len(q), i < j
      PROVE  \E k, l \in 1 .. Len(p) : k < l /\ q[i] = p[k] /\ q[j] = p[l]
  <2>1. CASE Shorter(q, p)
    BY <1>0, <1>2, <2>1 DEF Shorter
  <2>2. CASE Shifted(q, p)
    <3>1. /\ i + 1 \in 1 .. Len(p) /\ q[i] = p[i + 1]
          /\ j + 1 \in 1 .. Len(p) /\ q[j] = p[j + 1]
      BY <2>2 DEF Shifted
    <3>2. i + 1 < j + 1
      BY <1>0, <1>2
    <3> QED BY <3>1, <3>2
  <2> QED BY <2>1, <2>2
<1>3. ASSUME NEW x \in Chunks, Ahead(x, p, s) PROVE Ahead(x, q, s)
  BY <1>1, <1>3 DEF Ahead
<1>4. ASSUME InOrder(p, s, y) PROVE InOrder(q, s, y)
  <2>1. ASSUME NEW i \in 1 .. Len(q), q[i].kind = "chunk"
        PROVE  Fits(q[i], s, y) /\ Behind(q[i], s)
    BY <1>1, <1>4, <2>1 DEF InOrder
  <2>2. ASSUME NEW i \in 1 .. Len(q), NEW j \in 1 .. Len(q),
               i < j, q[i].kind = "chunk", q[j].kind = "chunk"
        PROVE  Before(q[i], q[j])
    <3>1. PICK k, l \in 1 .. Len(p) : k < l /\ q[i] = p[k] /\ q[j] = p[l]
      BY <1>2, <2>2
    <3> QED BY <1>4, <2>2, <3>1 DEF InOrder
  <2> QED BY <2>1, <2>2 DEF InOrder
<1> QED BY <1>3, <1>4 DEF Keeps

(* The chunk that is read is behind the others.                             *)
LEMMA FirstIsBehind ==
  ASSUME NEW p \in Seq(Messages), NEW q \in Seq(Messages), NEW s, NEW y,
         Shifted(q, p), 1 \in 1 .. Len(p), p[1].kind = "chunk", InOrder(p, s, y)
  PROVE  Ahead(p[1], q, s) /\ Fits(p[1], s, y)
<1>0. Len(p) \in Nat /\ Len(q) \in Nat
  OBVIOUS
<1>1. ASSUME NEW i \in 1 .. Len(q), q[i].kind = "chunk" PROVE Before(p[1], q[i])
  <2>1. i + 1 \in 1 .. Len(p) /\ q[i] = p[i + 1]
    BY DEF Shifted
  <2>2. 1 < i + 1
    BY <1>0
  <2> QED BY <1>1, <2>1, <2>2 DEF InOrder
<1> QED BY <1>1 DEF Ahead, InOrder

(* A sender at the same place, or with a new offer.                         *)
LEMMA StillKeeps ==
  ASSUME NEW p \in Seq(Messages), NEW q \in Seq(Messages), NEW m,
         Longer(q, p, m), m.kind # "chunk",
         NEW s \in Senders, NEW t \in Senders,
         s.offer < t.offer \/ (s.offer = t.offer /\ s.next = t.next),
         NEW y, NEW z, \A o \in Offers : o <= s.offer => z[o] = y[o]
  PROVE  Keeps(q, t, z, p, s, y)
<1>0. Len(p) \in Nat /\ Len(q) \in Nat /\ s.offer \in Nat /\ t.offer \in Nat /\ Offers \subseteq Nat
  BY SenderFacts DEF Offers
<1>1. ASSUME NEW i \in 1 .. Len(q), q[i].kind = "chunk"
      PROVE  i \in 1 .. Len(p) /\ q[i] = p[i] /\ q[i] \in Chunks
  BY <1>1, MessageIs DEF Longer
<1>5. ASSUME NEW x \in Chunks, Behind(x, s) PROVE Behind(x, t)
  <2>1. x.offer \in Nat
    BY <1>0, ChunkIs
  <2>2. CASE x.offer < s.offer
    BY <1>0, <2>1, <2>2 DEF Behind
  <2>3. CASE x.offer = s.offer /\ x.place < s.next
    BY <2>3 DEF Behind
  <2> QED BY <1>5, <2>2, <2>3 DEF Behind
<1>2. ASSUME NEW x \in Chunks, Ahead(x, p, s) PROVE Ahead(x, q, t)
  BY <1>1, <1>2, <1>5 DEF Ahead
<1>3. ASSUME NEW x \in Chunks, Fits(x, s, y) PROVE Fits(x, t, z)
  <2>1. x.offer \in Offers /\ x.offer \in Nat
    BY <1>0, ChunkIs
  <2>2. x.offer <= s.offer /\ x.place <= y[x.offer]
    BY <1>3 DEF Fits
  <2>3. z[x.offer] = y[x.offer] /\ x.offer <= t.offer
    BY <1>0, <2>1, <2>2
  <2> QED BY <2>2, <2>3 DEF Fits
<1>4. ASSUME InOrder(p, s, y) PROVE InOrder(q, t, z)
  <2>1. ASSUME NEW i \in 1 .. Len(q), q[i].kind = "chunk"
        PROVE  Fits(q[i], t, z) /\ Behind(q[i], t)
    BY <1>1, <1>3, <1>4, <1>5, <2>1 DEF InOrder
  <2>2. ASSUME NEW i \in 1 .. Len(q), NEW j \in 1 .. Len(q),
               i < j, q[i].kind = "chunk", q[j].kind = "chunk"
        PROVE  Before(q[i], q[j])
    BY <1>1, <1>4, <2>2 DEF InOrder
  <2> QED BY <2>1, <2>2 DEF InOrder
<1> QED BY <1>2, <1>3, <1>4 DEF Keeps

(* The next chunk of the stream.                                            *)
LEMMA SendKeeps ==
  ASSUME NEW p \in Seq(Messages), NEW q \in Seq(Messages), NEW m, Longer(q, p, m),
         NEW s \in Senders, NEW t \in Senders, NEW y,
         t.offer = s.offer, t.next = s.next + 1,
         m.offer = s.offer, m.place = s.next, s.next <= y[s.offer]
  PROVE  Keeps(q, t, y, p, s, y)
<1>0. Len(p) \in Nat /\ Len(q) \in Nat /\ s.offer \in Nat /\ s.next \in Nat
  BY SenderFacts
<1>1. ASSUME NEW x \in Chunks, Ahead(x, p, s) PROVE Ahead(x, q, t)
  <2>1. x.place \in Nat /\ x.offer \in Nat /\ Behind(x, s) /\ Behind(x, t)
    BY <1>0, <1>1, ChunkIs DEF Ahead, Behind, Offers
  <2>2. ASSUME NEW i \in 1 .. Len(q), q[i].kind = "chunk" PROVE Before(x, q[i])
    <3>1. CASE i \in 1 .. Len(p) /\ q[i] = p[i]
      BY <1>1, <2>2, <3>1 DEF Ahead
    <3>2. CASE q[i] = m
      BY <2>1, <3>2 DEF Before, Behind
    <3> QED BY <3>1, <3>2 DEF Longer
  <2> QED BY <2>1, <2>2 DEF Ahead
<1>2. \A x \in Chunks : Fits(x, s, y) => Fits(x, t, y)
  BY DEF Fits
<1>3. ASSUME InOrder(p, s, y) PROVE InOrder(q, t, y)
  <2>1. ASSUME NEW i \in 1 .. Len(q), q[i].kind = "chunk"
        PROVE  Fits(q[i], t, y) /\ Behind(q[i], t)
    <3>1. CASE i \in 1 .. Len(p) /\ q[i] = p[i]
      <4>1. p[i].place \in Nat
        BY <2>1, <3>1, MessageIs, ChunkIs
      <4> QED BY <1>0, <1>3, <2>1, <3>1, <4>1 DEF InOrder, Fits, Behind
    <3>2. CASE q[i] = m
      BY <1>0, <3>2 DEF Fits, Behind
    <3> QED BY <3>1, <3>2 DEF Longer
  <2>2. ASSUME NEW i \in 1 .. Len(q), NEW j \in 1 .. Len(q),
               i < j, q[i].kind = "chunk", q[j].kind = "chunk"
        PROVE  Before(q[i], q[j])
    <3>1. i \in 1 .. Len(p) /\ q[i] = p[i]
      BY <1>0, <2>2 DEF Longer
    <3>2. CASE j \in 1 .. Len(p) /\ q[j] = p[j]
      BY <1>3, <2>2, <3>1, <3>2 DEF InOrder
    <3>3. CASE q[j] = m
      BY <1>3, <2>2, <3>1, <3>3 DEF InOrder, Before, Behind
    <3> QED BY <3>2, <3>3 DEF Longer
  <2> QED BY <2>1, <2>2 DEF InOrder
<1> QED BY <1>1, <1>2, <1>3 DEF Keeps

(* A gap stays one when a chunk is added behind it.                         *)
LEMMA GapGrows ==
  ASSUME NEW a \in Nat, NEW b \in Nat, NEW c \in Nat, NEW n \in Nat, NEW k \in Nat,
         a + n <= b + k, b + 1 <= c
  PROVE  a + (n + 1) <= c + k
OBVIOUS

(* A file that is written to stays in order.                                *)
LEMMA WriteOrdered ==
  ASSUME NEW d \in Seq(Chunks), NEW x \in Chunks, NEW q, NEW s, NEW z,
         Ordered(d, s, z), Passed(d, q, s), Fits(x, s, z), Ahead(x, q, s), Precedes(d, x)
  PROVE  Ordered(Append(d, x), s, z) /\ Passed(Append(d, x), q, s)
<1> DEFINE e == Append(d, x)
<1>0. /\ Len(d) \in Nat /\ Len(e) = Len(d) + 1 /\ e[Len(d) + 1] = x
      /\ \A i \in 1 .. Len(d) : e[i] = d[i] /\ d[i] \in Chunks
  BY AppendFacts
<1>1. \A c \in Chunks : c.place \in Nat /\ c.offer \in Nat
  BY ChunkIs, TransferAssumption DEF Offers
<1> HIDE DEF e
<1>2. ASSUME NEW i \in 1 .. Len(d), d[i].offer = x.offer
      PROVE  d[i].place + (Len(d) + 1) <= x.place + i
  <2>1. /\ Len(d) \in 1 .. Len(d) /\ d[i] \in Chunks /\ d[Len(d)] \in Chunks
        /\ Before(d[Len(d)], x) /\ Before(d[i], x)
    BY <1>0 DEF Precedes
  <2>3. /\ d[i].place \in Nat /\ d[Len(d)].place \in Nat /\ x.place \in Nat
        /\ d[i].offer \in Nat /\ d[Len(d)].offer \in Nat /\ x.offer \in Nat
        /\ Len(d) \in Nat /\ i \in Nat
    BY <1>0, <1>1, <2>1
  <2>6. i < Len(d) => Before(d[i], d[Len(d)])
    BY <2>1 DEF Ordered
  <2>7. d[Len(d)].offer = x.offer /\ d[Len(d)].place + 1 <= x.place
    BY <1>0, <1>2, <2>1, <2>3, <2>6 DEF Before
  <2>2. d[i].place + Len(d) <= d[Len(d)].place + i
    <3>1. CASE i = Len(d)
      BY <2>3, <3>1
    <3>2. CASE i < Len(d)
      BY <1>2, <2>1, <2>7, <3>2 DEF Ordered
    <3> QED BY <1>0, <3>1, <3>2
  <2> QED BY <2>2, <2>3, <2>7, GapGrows
<1>4. ASSUME NEW i \in 1 .. Len(e)
      PROVE  Fits(e[i], s, z) /\ Ahead(e[i], q, s)
  <2>1. CASE i \in 1 .. Len(d)
    BY <1>0, <2>1 DEF Ordered, Passed
  <2>2. CASE i = Len(d) + 1
    BY <1>0, <2>2
  <2> QED BY <1>0, <2>1, <2>2
<1>5. ASSUME NEW i \in 1 .. Len(e), NEW j \in 1 .. Len(e), i < j
      PROVE  /\ Before(e[i], e[j])
             /\ e[i].offer = e[j].offer => e[i].place + j <= e[j].place + i
  <2>1. i \in 1 .. Len(d)
    BY <1>0, <1>5
  <2>2. CASE j \in 1 .. Len(d)
    BY <1>0, <1>5, <2>1, <2>2 DEF Ordered
  <2>3. CASE j = Len(d) + 1
    <3>1. Before(d[i], x)
      BY <2>1 DEF Precedes
    <3> QED BY <1>0, <1>2, <2>1, <2>3, <3>1
  <2> QED BY <1>0, <2>2, <2>3
<1> QED BY <1>4, <1>5 DEF Ordered, Passed, e

(* What is stored stays in order and passed.                                *)
LEMMA StoredKeeps ==
  ASSUME NEW d \in Seq(Chunks), NEW q, NEW t, NEW z, NEW p, NEW s, NEW y, Keeps(q, t, z, p, s, y)
  PROVE  /\ Ordered(d, s, y) => Ordered(d, t, z)
         /\ Passed(d, p, s) => Passed(d, q, t)
<1>1. \A i \in 1 .. Len(d) : d[i] \in Chunks
  OBVIOUS
<1> QED BY <1>1 DEF Keeps, Ordered, Passed

(* A chunk that comes after what was passed.                                *)
LEMMA PassedPrecedes ==
  ASSUME NEW d \in Seq(Chunks), NEW q, NEW s, Passed(d, q, s),
         1 \in 1 .. Len(q), q[1].kind = "chunk"
  PROVE  Precedes(d, q[1])
BY DEF Passed, Ahead, Precedes

(* An empty file.                                                           *)
LEMMA EmptyFacts ==
  \A q, s, z, x : Ordered(<<>>, s, z) /\ Passed(<<>>, q, s) /\ Precedes(<<>>, x) /\ Len(<<>>) = 0
BY DEF Ordered, Passed, Precedes

(* In a file in order that has all it should, if it is the file that was    *)
(* offered, each chunk is in its place.                                     *)
LEMMA WholeFacts ==
  ASSUME NEW d \in Seq(Chunks), NEW s, NEW z \in [Offers -> 0 .. MaxSize], NEW o \in Offers,
         Ordered(d, s, z), Len(d) = z[o]
  PROVE  /\ \A i, j \in DOMAIN d : i < j =>
              \/ d[i].offer < d[j].offer
              \/ d[i].offer = d[j].offer /\ d[i].place < d[j].place
         /\ (\A k \in DOMAIN d : d[k].offer = o) => \A k \in DOMAIN d : d[k].place = k
<1>0. /\ DOMAIN d = 1 .. Len(d) /\ Len(d) \in Nat
      /\ \A i \in 1 .. Len(d) : d[i] \in Chunks
  OBVIOUS
<1>1. \A i \in 1 .. Len(d) : d[i].place \in Nat /\ d[i].place >= 1
  BY <1>0, ChunkIs, TransferAssumption
<1>2. ASSUME NEW i \in 1 .. Len(d), NEW j \in 1 .. Len(d), i < j
      PROVE  \/ d[i].offer < d[j].offer
             \/ d[i].offer = d[j].offer /\ d[i].place < d[j].place
  BY <1>0, <1>2 DEF Ordered, Before
<1>3. ASSUME \A k \in 1 .. Len(d) : d[k].offer = o, NEW k \in 1 .. Len(d) PROVE d[k].place = k
  <2>1. /\ 1 \in 1 .. Len(d) /\ Len(d) \in 1 .. Len(d)
        /\ d[1].offer = o /\ d[k].offer = o /\ d[Len(d)].offer = o
    BY <1>0, <1>3
  <2>2. d[k].place + Len(d) <= d[Len(d)].place + k
    <3>1. CASE k = Len(d)
      BY <1>0, <1>1, <3>1
    <3>2. CASE k < Len(d)
      BY <1>0, <2>1, <3>2 DEF Ordered
    <3> QED BY <1>0, <3>1, <3>2
  <2>3. d[1].place + k <= d[k].place + 1
    <3>1. CASE k = 1
      BY <1>0, <1>1, <3>1
    <3>2. CASE 1 < k
      BY <1>0, <2>1, <3>2 DEF Ordered
    <3> QED BY <1>0, <3>1, <3>2
  <2>4. d[Len(d)].place <= Len(d)
    BY <2>1 DEF Ordered, Fits
  <2>5. d[k].place \in Nat /\ d[Len(d)].place \in Nat /\ d[1].place \in Nat /\ d[1].place >= 1
    BY <1>1, <2>1
  <2> QED BY <1>0, <2>2, <2>3, <2>4, <2>5
<1> QED BY <1>0, <1>2, <1>3

-----------------------------------------------------------------------------
(* What each action does, and that it keeps the types.                      *)

(* An offer is one that was never made before.                              *)
LEMMA OfferDoes ==
  ASSUME FileTyped, NEW n \in 1 .. MaxSize, Offer(n)
  PROVE  /\ FileTyped' /\ sender.phase = "idle" /\ sender.offer + 1 \in Offers
         /\ sender'.offer = sender.offer + 1 /\ sender'.phase = "wait"
         /\ \A o \in Offers : o <= sender.offer => size'[o] = size[o]
         /\ Longer(toHost', toHost, OfferMsg(sender.offer + 1))
         /\ OfferMsg(sender.offer + 1).kind = "offer"
         /\ OfferMsg(sender.offer + 1).offer = sender.offer + 1
         /\ toSender' = toSender /\ stop' = stop /\ ctl' = ctl /\ prompt' = prompt
         /\ allowed' = allowed /\ stopper' = stopper /\ transfer' = transfer
         /\ writer' = writer /\ dest' = dest
<1>1. /\ sender.phase = "idle" /\ sender.offer < MaxOffers
      /\ sender' = FileWaiting(sender.offer + 1)
      /\ size' = [size EXCEPT ![sender.offer + 1] = n] /\ Post(OfferMsg(sender.offer + 1))
      /\ toSender' = toSender /\ stop' = stop /\ ctl' = ctl /\ prompt' = prompt
      /\ allowed' = allowed /\ stopper' = stopper /\ transfer' = transfer
      /\ writer' = writer /\ dest' = dest
  BY DEF Offer, FileWaiting, OfferMsg, senderVars, hostVars, fileVars
<1>2. sender.offer + 1 \in Offers /\ sender.offer \in Nat
  BY <1>1, SenderFacts, TransferAssumption DEF FileTyped, SenderTyped, Offers
<1>3. OfferMsg(sender.offer + 1) \in Messages
  BY <1>2, MessageFacts
<1>4. toHost' \in Seq(Messages) /\ Longer(toHost', toHost, OfferMsg(sender.offer + 1))
  BY <1>1, <1>3, PostFacts DEF FileTyped, SenderTyped
<1>5. sender' \in Senders /\ sender'.offer = sender.offer + 1 /\ sender'.phase = "wait"
  BY <1>1, <1>2, SenderFacts
<1>6. /\ size' \in [Offers -> 0 .. MaxSize]
      /\ \A o \in Offers : o <= sender.offer => size'[o] = size[o]
  BY <1>1, <1>2, TransferAssumption DEF FileTyped, SenderTyped
<1>7. FileTyped'
  BY <1>1, <1>2, <1>4, <1>5, <1>6 DEF FileTyped, SenderTyped, TaskTyped, SinkTyped
<1> QED BY <1>1, <1>2, <1>4, <1>5, <1>6, <1>7, MessageFacts

(* The sender gives up its wait, and may tell the host.                     *)
LEMMA SenderGivesUpDoes ==
  ASSUME FileTyped, SenderGivesUp
  PROVE  /\ FileTyped' /\ size' = size /\ sender'.offer = sender.offer /\ sender'.next = sender.next
         /\ sender'.phase = "idle" /\ Longer(toHost', toHost, CompleteMsg)
         /\ CompleteMsg.kind = "complete"
         /\ toSender' = toSender /\ stop' = stop /\ ctl' = ctl
         /\ prompt' = prompt /\ allowed' = allowed /\ stopper' = stopper
         /\ transfer' = transfer /\ writer' = writer /\ dest' = dest
<1>1. /\ sender' = Phased(sender, "idle") /\ size' = size
      /\ toHost' = toHost \/ Post(CompleteMsg)
      /\ toSender' = toSender /\ stop' = stop /\ ctl' = ctl
      /\ prompt' = prompt /\ allowed' = allowed /\ stopper' = stopper
      /\ transfer' = transfer /\ writer' = writer /\ dest' = dest
  BY DEF SenderGivesUp, Phased, CompleteMsg, senderVars, hostVars, fileVars
<1>2. /\ sender' \in Senders /\ sender'.offer = sender.offer /\ sender'.next = sender.next
      /\ sender'.phase = "idle"
  BY <1>1, SenderFacts DEF FileTyped, SenderTyped
<1>3. toHost' \in Seq(Messages) /\ Longer(toHost', toHost, CompleteMsg)
  <2>1. toHost \in Seq(Messages)
    BY DEF FileTyped, SenderTyped
  <2>2. CASE toHost' = toHost
    BY <2>1, <2>2 DEF Longer
  <2>3. CASE Post(CompleteMsg)
    BY <2>1, <2>3, MessageFacts, PostFacts
  <2> QED BY <1>1, <2>2, <2>3
<1>4. FileTyped'
  BY <1>1, <1>2, <1>3 DEF FileTyped, SenderTyped, TaskTyped, SinkTyped
<1> QED BY <1>1, <1>2, <1>3, <1>4, MessageFacts

(* Only an accept makes a sender stream.                                    *)
LEMMA SenderHearsDoes ==
  ASSUME FileTyped, SenderHears
  PROVE  /\ FileTyped' /\ size' = size /\ sender'.offer = sender.offer /\ sender'.next = sender.next
         /\ Shifted(toSender', toSender) /\ 1 \in 1 .. Len(toSender)
         /\ sender'.phase = "stream" => sender.phase = "stream" \/ toSender[1] = "accept"
         /\ sender.phase = "stream" => sender' = sender
         /\ toHost' = toHost /\ stop' = stop /\ ctl' = ctl /\ prompt' = prompt
         /\ allowed' = allowed /\ stopper' = stopper /\ transfer' = transfer
         /\ writer' = writer /\ dest' = dest
<1>1. /\ toSender # <<>> /\ toSender' = Tail(toSender) /\ size' = size
      /\ sender' = IF sender.phase # "wait" THEN sender
                    ELSE Phased(sender, IF Head(toSender) = "accept" THEN "stream" ELSE "idle")
      /\ toHost' = toHost /\ stop' = stop /\ ctl' = ctl /\ prompt' = prompt
      /\ allowed' = allowed /\ stopper' = stopper /\ transfer' = transfer
      /\ writer' = writer /\ dest' = dest
  BY DEF SenderHears, Phased, senderVars, hostVars, fileVars
<1>2. /\ toSender' \in Seq({"accept", "reject"}) /\ Shifted(toSender', toSender)
      /\ Head(toSender) = toSender[1] /\ 1 \in 1 .. Len(toSender)
  BY <1>1, TailFacts DEF FileTyped, SenderTyped
<1>3. /\ sender' \in Senders /\ sender'.offer = sender.offer /\ sender'.next = sender.next
      /\ sender'.phase = "stream" => sender.phase = "stream" \/ toSender[1] = "accept"
      /\ sender'.phase # "idle" => sender.phase # "idle"
      /\ sender.phase = "stream" => sender' = sender
  BY <1>1, <1>2, SenderFacts DEF FileTyped, SenderTyped
<1>4. FileTyped'
  BY <1>1, <1>2, <1>3 DEF FileTyped, SenderTyped, TaskTyped, SinkTyped
<1> QED BY <1>1, <1>2, <1>3, <1>4

(* A chunk is the next of the offer that streams.                           *)
LEMMA SendChunkDoes ==
  ASSUME FileTyped, SendChunk
  PROVE  /\ FileTyped' /\ size' = size /\ sender.offer \in Offers /\ sender.next \in Nat
         /\ sender'.offer = sender.offer /\ sender'.phase = "stream"
         /\ sender'.next = sender.next + 1
         /\ sender.phase = "stream" /\ sender.next \in 1 .. MaxSize
         /\ sender.next <= size[sender.offer]
         /\ Longer(toHost', toHost, ChunkMsg(sender.offer, sender.next))
         /\ ChunkMsg(sender.offer, sender.next).kind = "chunk"
         /\ ChunkMsg(sender.offer, sender.next).offer = sender.offer
         /\ ChunkMsg(sender.offer, sender.next).place = sender.next
         /\ toSender' = toSender /\ stop' = stop /\ ctl' = ctl /\ prompt' = prompt
         /\ allowed' = allowed /\ stopper' = stopper /\ transfer' = transfer
         /\ writer' = writer /\ dest' = dest
<1>1. /\ sender.phase = "stream" /\ sender.next <= size[sender.offer] /\ size' = size
      /\ Post(ChunkMsg(sender.offer, sender.next)) /\ sender' = Sent(sender)
      /\ toSender' = toSender /\ stop' = stop /\ ctl' = ctl /\ prompt' = prompt
      /\ allowed' = allowed /\ stopper' = stopper /\ transfer' = transfer
      /\ writer' = writer /\ dest' = dest
  BY DEF SendChunk, Sent, ChunkMsg, senderVars, hostVars, fileVars
<1>2. sender.offer \in Offers /\ sender.next \in 1 .. MaxSize /\ sender.next \in Nat
  BY <1>1, SenderFacts, TransferAssumption DEF FileTyped, SenderTyped
<1>3. ChunkMsg(sender.offer, sender.next) \in Messages
  BY <1>2, MessageFacts
<1>4. toHost' \in Seq(Messages) /\ Longer(toHost', toHost, ChunkMsg(sender.offer, sender.next))
  BY <1>1, <1>3, PostFacts DEF FileTyped, SenderTyped
<1>5. /\ sender' \in Senders /\ sender'.offer = sender.offer /\ sender'.phase = "stream"
      /\ sender'.next = sender.next + 1
  BY <1>1, SenderFacts DEF FileTyped, SenderTyped
<1>6. FileTyped'
  BY <1>1, <1>2, <1>4, <1>5 DEF FileTyped, SenderTyped, TaskTyped, SinkTyped
<1> QED BY <1>1, <1>2, <1>4, <1>5, <1>6, MessageFacts

(* A completion ends the stream.                                            *)
LEMMA SendCompleteDoes ==
  ASSUME FileTyped, SendComplete
  PROVE  /\ FileTyped' /\ size' = size /\ sender'.offer = sender.offer /\ sender'.next = sender.next
         /\ sender'.phase = "idle"
         /\ sender.phase = "stream" /\ Longer(toHost', toHost, CompleteMsg)
         /\ CompleteMsg.kind = "complete"
         /\ toSender' = toSender /\ stop' = stop /\ ctl' = ctl /\ prompt' = prompt
         /\ allowed' = allowed /\ stopper' = stopper /\ transfer' = transfer
         /\ writer' = writer /\ dest' = dest
<1>1. /\ sender.phase = "stream" /\ Post(CompleteMsg) /\ sender' = Phased(sender, "idle")
      /\ size' = size
      /\ toSender' = toSender /\ stop' = stop /\ ctl' = ctl /\ prompt' = prompt
      /\ allowed' = allowed /\ stopper' = stopper /\ transfer' = transfer
      /\ writer' = writer /\ dest' = dest
  BY DEF SendComplete, Phased, CompleteMsg, senderVars, hostVars, fileVars
<1>2. toHost' \in Seq(Messages) /\ Longer(toHost', toHost, CompleteMsg)
  BY <1>1, MessageFacts, PostFacts DEF FileTyped, SenderTyped
<1>3. /\ sender' \in Senders /\ sender'.offer = sender.offer /\ sender'.next = sender.next
      /\ sender'.phase = "idle"
  BY <1>1, SenderFacts DEF FileTyped, SenderTyped
<1>4. FileTyped'
  BY <1>1, <1>2, <1>3 DEF FileTyped, SenderTyped, TaskTyped, SinkTyped
<1> QED BY <1>1, <1>2, <1>3, <1>4, MessageFacts

(* The host refuses an offer, or asks its user about it.                    *)
LEMMA ReceiveOfferDoes ==
  ASSUME FileTyped, ReceiveOffer
  PROVE  /\ FileTyped' /\ Shifted(toHost', toHost) /\ 1 \in 1 .. Len(toHost)
         /\ toHost[1].kind = "offer"
         /\ ctl.pc = "loop" /\ size' = size /\ sender' = sender /\ toSender' = toSender
         /\ stop' = stop /\ allowed' = allowed /\ stopper' = stopper /\ transfer' = transfer
         /\ writer' = writer /\ dest' = dest
         /\ \/ ctl'.pc = "reply" /\ ctl'.reply = "reject" /\ prompt' = prompt
            \/ /\ ~stop /\ prompt.state = "none" /\ transfer = NoTransfer
               /\ prompt'.state = "open" /\ prompt'.offer = toHost[1].offer /\ ctl' = ctl
<1>1. /\ Reads("offer") /\ size' = size /\ sender' = sender /\ toSender' = toSender
      /\ stop' = stop /\ allowed' = allowed /\ stopper' = stopper /\ transfer' = transfer
      /\ writer' = writer /\ dest' = dest
      /\ \/ ctl' = Reply("reject") /\ prompt' = prompt
         \/ /\ ~stop /\ prompt.state = "none" /\ transfer = NoTransfer
            /\ prompt' = AskFor(Head(toHost).offer) /\ ctl' = ctl
  BY DEF ReceiveOffer, Replies, Reply, AskFor, senderVars, hostVars, fileVars
<1>2. /\ toHost' \in Seq(Messages) /\ Shifted(toHost', toHost) /\ 1 \in 1 .. Len(toHost)
      /\ Head(toHost) = toHost[1] /\ toHost[1].kind = "offer" /\ toHost[1] \in Messages
      /\ ctl.pc = "loop"
  BY <1>1, ReadFacts DEF FileTyped, SenderTyped
<1>3. toHost[1].offer \in Offers
  BY <1>2, MessageIs
<1>4. /\ ctl' \in Ctls /\ prompt' \in Asks
      /\ \/ ctl'.pc = "reply" /\ ctl'.reply = "reject" /\ prompt' = prompt
         \/ /\ ~stop /\ prompt.state = "none" /\ transfer = NoTransfer
            /\ prompt'.state = "open" /\ prompt'.offer = toHost[1].offer /\ ctl' = ctl
  BY <1>1, <1>2, <1>3, CtlFacts, FileAskFacts DEF FileTyped, TaskTyped
<1>5. FileTyped'
  BY <1>1, <1>2, <1>4 DEF FileTyped, SenderTyped, TaskTyped, SinkTyped
<1> QED BY <1>1, <1>2, <1>4, <1>5

(* An answer is about the offer that was asked about.                       *)
LEMMA UserAnswersDoes ==
  ASSUME FileTyped, NEW yes \in BOOLEAN, UserAnswers(yes)
  PROVE  /\ FileTyped' /\ prompt.state = "open" /\ prompt'.state = "answered"
         /\ prompt'.offer = prompt.offer /\ prompt'.yes = yes /\ prompt.offer \in Offers
         /\ allowed \subseteq allowed' /\ (yes => prompt.offer \in allowed')
         /\ size' = size /\ sender' = sender /\ toHost' = toHost /\ toSender' = toSender
         /\ stop' = stop /\ ctl' = ctl /\ stopper' = stopper /\ transfer' = transfer
         /\ writer' = writer /\ dest' = dest
<1>1. /\ prompt.state = "open" /\ prompt' = FileAnswered(prompt.offer, yes)
      /\ allowed' = (IF yes THEN allowed \cup { prompt.offer } ELSE allowed)
      /\ size' = size /\ sender' = sender /\ toHost' = toHost /\ toSender' = toSender
      /\ stop' = stop /\ ctl' = ctl /\ stopper' = stopper /\ transfer' = transfer
      /\ writer' = writer /\ dest' = dest
  BY DEF UserAnswers, FileAnswered, senderVars, hostVars, fileVars
<1>2. /\ prompt' \in Asks /\ prompt'.state = "answered" /\ prompt'.offer = prompt.offer
      /\ prompt'.yes = yes /\ prompt.offer \in Offers
  BY <1>1, FileAskFacts, AskIs DEF FileTyped, TaskTyped
<1>3. allowed' \subseteq Offers /\ allowed \subseteq allowed' /\ (yes => prompt.offer \in allowed')
  BY <1>1, <1>2 DEF FileTyped, TaskTyped
<1>4. FileTyped'
  BY <1>1, <1>2, <1>3 DEF FileTyped, SenderTyped, TaskTyped, SinkTyped
<1> QED BY <1>1, <1>2, <1>3, <1>4

(* Only a yes opens the sink.                                               *)
LEMMA ConsentResolvedDoes ==
  ASSUME FileTyped, ConsentResolved
  PROVE  /\ FileTyped' /\ ctl.pc = "loop" /\ prompt.state = "answered" /\ prompt'.state = "none"
         /\ \/ ctl'.pc = "reply" /\ ctl'.reply = "reject"
            \/ ctl'.pc = "open" /\ ctl'.offer = prompt.offer /\ prompt.yes
         /\ size' = size /\ sender' = sender /\ toHost' = toHost /\ toSender' = toSender
         /\ stop' = stop /\ allowed' = allowed /\ stopper' = stopper /\ transfer' = transfer
         /\ writer' = writer /\ dest' = dest
<1>1. /\ ctl.pc = "loop" /\ prompt.state = "answered" /\ prompt' = NoAsk
      /\ ctl' = IF stop \/ ~prompt.yes THEN Reply("reject") ELSE Opening(prompt.offer)
      /\ size' = size /\ sender' = sender /\ toHost' = toHost /\ toSender' = toSender
      /\ stop' = stop /\ allowed' = allowed /\ stopper' = stopper /\ transfer' = transfer
      /\ writer' = writer /\ dest' = dest
  BY DEF ConsentResolved, Replies, Reply, Opening, NoAsk, senderVars, hostVars, fileVars
<1>2. prompt' \in Asks /\ prompt'.state = "none" /\ prompt.offer \in Offers
  BY <1>1, FileAskFacts, AskIs DEF FileTyped, TaskTyped
<1>3. /\ ctl' \in Ctls
      /\ \/ ctl'.pc = "reply" /\ ctl'.reply = "reject"
         \/ ctl'.pc = "open" /\ ctl'.offer = prompt.offer /\ prompt.yes
  BY <1>1, <1>2, CtlFacts
<1>4. FileTyped'
  BY <1>1, <1>2, <1>3 DEF FileTyped, SenderTyped, TaskTyped, SinkTyped
<1> QED BY <1>1, <1>2, <1>3, <1>4

(* An opened file is empty and nothing else changes on the disk.            *)
LEMMA OpenSinkDoes ==
  ASSUME FileTyped, OpenSink
  PROVE  /\ FileTyped' /\ ctl.pc = "open" /\ ctl.offer \in Offers /\ size' = size
         /\ sender' = sender /\ toHost' = toHost /\ toSender' = toSender /\ stop' = stop
         /\ prompt' = prompt /\ allowed' = allowed /\ stopper' = stopper
         /\ transfer' = transfer
         /\ \/ /\ ctl'.pc = "arm" /\ ctl'.offer = ctl.offer /\ writer' = ctl.offer
               /\ dest'[ctl.offer].kind = "partial" /\ dest'[ctl.offer].data = <<>>
               /\ \A o \in Offers : o # ctl.offer => dest'[o] = dest[o]
            \/ ctl'.pc = "reply" /\ ctl'.reply = "reject" /\ writer' = writer /\ dest' = dest
<1>1. /\ ctl.pc = "open" /\ size' = size /\ sender' = sender /\ toHost' = toHost
      /\ toSender' = toSender /\ stop' = stop /\ prompt' = prompt /\ allowed' = allowed
      /\ stopper' = stopper /\ transfer' = transfer
      /\ \/ /\ writer' = ctl.offer /\ dest' = [dest EXCEPT ![ctl.offer] = Partial]
            /\ ctl' = Arming(ctl)
         \/ ctl' = Reply("reject") /\ writer' = writer /\ dest' = dest
  BY DEF OpenSink, Replies, Reply, Arming, Partial, senderVars, hostVars, fileVars
<1>2. ctl \in Ctls /\ ctl.offer \in Offers /\ dest \in [Offers -> StoredAs]
  BY <1>1, CtlIs DEF FileTyped, TaskTyped, SinkTyped
<1>3. CASE /\ writer' = ctl.offer /\ dest' = [dest EXCEPT ![ctl.offer] = Partial]
           /\ ctl' = Arming(ctl)
  <2>1. ctl' \in Ctls /\ ctl'.pc = "arm" /\ ctl'.offer = ctl.offer
    BY <1>1, <1>2, <1>3, CtlFacts
  <2>2. /\ dest' \in [Offers -> StoredAs] /\ dest'[ctl.offer] = Partial
        /\ \A o \in Offers : o # ctl.offer => dest'[o] = dest[o]
    BY <1>2, <1>3, StoredFacts
  <2>3. FileTyped'
    BY <1>1, <1>2, <1>3, <2>1, <2>2 DEF FileTyped, SenderTyped, TaskTyped, SinkTyped
  <2> QED BY <1>1, <1>2, <1>3, <2>1, <2>2, <2>3, StoredFacts
<1>4. CASE ctl' = Reply("reject") /\ writer' = writer /\ dest' = dest
  <2>1. ctl' \in Ctls /\ ctl'.pc = "reply" /\ ctl'.reply = "reject"
    BY <1>4, CtlFacts
  <2>2. FileTyped'
    BY <1>1, <1>4, <2>1 DEF FileTyped, SenderTyped, TaskTyped, SinkTyped
  <2> QED BY <1>1, <1>2, <1>4, <2>1, <2>2
<1> QED BY <1>1, <1>3, <1>4

(* The transfer is that of the offer whose file was opened.                 *)
LEMMA ArmTransferDoes ==
  ASSUME FileTyped, ArmTransfer
  PROVE  /\ FileTyped' /\ ctl.pc = "arm" /\ ctl'.pc = "reply" /\ ctl'.reply = "accept"
         /\ transfer' # NoTransfer /\ transfer'.offer = ctl.offer /\ transfer'.received = 0
         /\ size' = size /\ sender' = sender /\ toHost' = toHost /\ toSender' = toSender
         /\ stop' = stop /\ prompt' = prompt /\ allowed' = allowed /\ stopper' = stopper
         /\ writer' = writer /\ dest' = dest
<1>1. /\ ctl.pc = "arm" /\ transfer' = Armed(ctl.offer) /\ ctl' = Reply("accept")
      /\ size' = size /\ sender' = sender /\ toHost' = toHost /\ toSender' = toSender
      /\ stop' = stop /\ prompt' = prompt /\ allowed' = allowed /\ stopper' = stopper
      /\ writer' = writer /\ dest' = dest
  BY DEF ArmTransfer, Replies, Reply, Armed, senderVars, hostVars, fileVars
<1>2. ctl.offer \in Offers /\ ctl' \in Ctls /\ ctl'.pc = "reply" /\ ctl'.reply = "accept"
  BY <1>1, CtlFacts, CtlIs DEF FileTyped, TaskTyped
<1>3. /\ transfer' \in Transfers /\ transfer' # NoTransfer
      /\ transfer'.offer = ctl.offer /\ transfer'.received = 0
  BY <1>1, <1>2, TransferFacts
<1>4. FileTyped'
  BY <1>1, <1>2, <1>3 DEF FileTyped, SenderTyped, TaskTyped, SinkTyped
<1> QED BY <1>1, <1>2, <1>3, <1>4

(* A reply goes out, or the loop ends.                                      *)
LEMMA SendReplyDoes ==
  ASSUME FileTyped, SendReply
  PROVE  /\ FileTyped' /\ ctl.pc = "reply" /\ ctl'.pc \in {"loop", "final"}
         /\ Longer(toSender', toSender, ctl.reply) /\ size' = size /\ sender' = sender
         /\ toHost' = toHost /\ stop' = stop /\ prompt' = prompt /\ allowed' = allowed
         /\ stopper' = stopper /\ transfer' = transfer /\ writer' = writer /\ dest' = dest
<1>1. /\ ctl.pc = "reply" /\ size' = size /\ sender' = sender /\ toHost' = toHost
      /\ stop' = stop /\ prompt' = prompt /\ allowed' = allowed /\ stopper' = stopper
      /\ transfer' = transfer /\ writer' = writer /\ dest' = dest
      /\ \/ toSender' = Append(toSender, ctl.reply) /\ ctl' = At("loop")
         \/ toSender' = toSender /\ ctl' = At("final")
  BY DEF SendReply, senderVars, hostVars, fileVars
<1>2. ctl.reply \in {"accept", "reject"} /\ ctl' \in Ctls /\ ctl'.pc \in {"loop", "final"}
  BY <1>1, CtlFacts, CtlIs DEF FileTyped, TaskTyped, Pcs
<1>3. toSender' \in Seq({"accept", "reject"}) /\ Longer(toSender', toSender, ctl.reply)
  <2>1. toSender \in Seq({"accept", "reject"})
    BY DEF FileTyped, SenderTyped
  <2>2. /\ Append(toSender, ctl.reply) \in Seq({"accept", "reject"})
        /\ Longer(Append(toSender, ctl.reply), toSender, ctl.reply)
    BY <1>2, <2>1, AppendFacts
  <2>3. Longer(toSender, toSender, ctl.reply)
    BY <2>1, SameFacts
  <2> QED BY <1>1, <2>1, <2>2, <2>3
<1>4. FileTyped'
  BY <1>1, <1>2, <1>3 DEF FileTyped, SenderTyped, TaskTyped, SinkTyped
<1> QED BY <1>1, <1>2, <1>3, <1>4

(* The chunk in hand is the oldest under way.                               *)
LEMMA ReadChunkDoes ==
  ASSUME FileTyped, ReadChunk
  PROVE  /\ FileTyped' /\ Shifted(toHost', toHost) /\ 1 \in 1 .. Len(toHost)
         /\ toHost[1].kind = "chunk"
         /\ ctl.pc = "loop" /\ (ctl' = ctl \/ (ctl'.pc = "write" /\ ctl'.chunk = toHost[1]))
         /\ size' = size /\ sender' = sender /\ toSender' = toSender /\ stop' = stop
         /\ prompt' = prompt /\ allowed' = allowed /\ stopper' = stopper
         /\ transfer' = transfer /\ writer' = writer /\ dest' = dest
<1>1. /\ Reads("chunk") /\ ctl' = (IF stop THEN ctl ELSE Writing(Head(toHost)))
      /\ size' = size /\ sender' = sender /\ toSender' = toSender /\ stop' = stop
      /\ prompt' = prompt /\ allowed' = allowed /\ stopper' = stopper
      /\ transfer' = transfer /\ writer' = writer /\ dest' = dest
  BY DEF ReadChunk, Writing, senderVars, hostVars, fileVars
<1>2. /\ toHost' \in Seq(Messages) /\ Shifted(toHost', toHost) /\ 1 \in 1 .. Len(toHost)
      /\ Head(toHost) = toHost[1] /\ toHost[1].kind = "chunk" /\ toHost[1] \in Messages
      /\ ctl.pc = "loop"
  BY <1>1, ReadFacts DEF FileTyped, SenderTyped
<1>3. ctl' \in Ctls /\ (ctl' = ctl \/ (ctl'.pc = "write" /\ ctl'.chunk = toHost[1]))
  <2>1. toHost[1] \in Chunks
    BY <1>2, MessageIs
  <2>2. /\ Writing(toHost[1]) \in Ctls /\ Writing(toHost[1]).pc = "write"
        /\ Writing(toHost[1]).chunk = toHost[1]
    BY <2>1, CtlFacts
  <2>3. ctl' = ctl \/ ctl' = Writing(toHost[1])
    BY <1>1, <1>2
  <2>4. ctl \in Ctls
    BY DEF FileTyped, TaskTyped
  <2>5. CASE ctl' = Writing(toHost[1])
    BY <2>2, <2>5, Zenon
  <2>6. CASE ctl' = ctl
    <3>1. ctl' \in Ctls
      BY <2>4, <2>6
    <3> QED BY <2>6, <3>1
  <2> QED BY <2>3, <2>5, <2>6
<1>4. FileTyped'
  BY <1>1, <1>2, <1>3 DEF FileTyped, SenderTyped, TaskTyped, SinkTyped
<1> QED BY <1>1, <1>2, <1>3, <1>4

(* A chunk is appended to the open file, or the transfer is over.           *)
LEMMA WriteChunkDoes ==
  ASSUME FileTyped, WriteChunk
  PROVE  /\ FileTyped' /\ ctl.pc = "write" /\ ctl.chunk \in Chunks /\ size' = size
         /\ sender' = sender /\ toHost' = toHost /\ toSender' = toSender /\ stop' = stop
         /\ prompt' = prompt /\ allowed' = allowed /\ stopper' = stopper /\ writer' = writer
         /\ \/ transfer' = transfer /\ dest' = dest /\ ctl'.pc = "loop" /\ transfer = NoTransfer
            \/ transfer' = NoTransfer /\ dest' = dest /\ ctl'.pc = "discard"
            \/ /\ transfer # NoTransfer /\ writer # None /\ ctl'.pc = "loop"
               /\ transfer' # NoTransfer /\ transfer'.offer = transfer.offer
               /\ transfer'.received = transfer.received + 1
               /\ dest'[writer].kind = dest[writer].kind
               /\ dest'[writer].data = Append(dest[writer].data, ctl.chunk)
               /\ \A o \in Offers : o # writer => dest'[o] = dest[o]
<1>1. /\ ctl.pc = "write" /\ size' = size /\ sender' = sender /\ toHost' = toHost
      /\ toSender' = toSender /\ stop' = stop /\ prompt' = prompt /\ allowed' = allowed
      /\ stopper' = stopper /\ writer' = writer
      /\ \/ transfer = NoTransfer /\ ctl' = At("loop") /\ transfer' = transfer /\ dest' = dest
         \/ transfer' = NoTransfer /\ ctl' = At("discard") /\ dest' = dest
         \/ /\ transfer # NoTransfer /\ writer # None /\ transfer' = More(transfer)
            /\ ctl' = At("loop")
            /\ dest' = [dest EXCEPT ![writer] = Written(dest[writer], ctl.chunk)]
  BY DEF WriteChunk, More, Written, senderVars, hostVars, fileVars
<1>2. /\ ctl.chunk \in Chunks /\ dest \in [Offers -> StoredAs]
      /\ At("loop") \in Ctls /\ At("loop").pc = "loop"
      /\ At("discard") \in Ctls /\ At("discard").pc = "discard"
  BY <1>1, CtlFacts, CtlIs DEF FileTyped, TaskTyped, SinkTyped, Pcs
<1>3. CASE transfer = NoTransfer /\ ctl' = At("loop") /\ transfer' = transfer /\ dest' = dest
  <2>1. FileTyped'
    BY <1>1, <1>2, <1>3 DEF FileTyped, SenderTyped, TaskTyped, SinkTyped
  <2> QED BY <1>1, <1>2, <1>3, <2>1
<1>4. CASE transfer' = NoTransfer /\ ctl' = At("discard") /\ dest' = dest
  <2>1. FileTyped'
    BY <1>1, <1>2, <1>4 DEF FileTyped, SenderTyped, TaskTyped, SinkTyped
  <2> QED BY <1>1, <1>2, <1>4, <2>1
<1>5. CASE /\ transfer # NoTransfer /\ writer # None /\ transfer' = More(transfer)
           /\ ctl' = At("loop")
           /\ dest' = [dest EXCEPT ![writer] = Written(dest[writer], ctl.chunk)]
  <2>1. writer \in Offers /\ transfer \in Transfers
    BY <1>5 DEF FileTyped, SinkTyped
  <2>2. /\ Written(dest[writer], ctl.chunk) \in StoredAs
        /\ Written(dest[writer], ctl.chunk).kind = dest[writer].kind
        /\ Written(dest[writer], ctl.chunk).data = Append(dest[writer].data, ctl.chunk)
    BY <1>2, <2>1, WriteFacts
  <2>3. /\ dest' \in [Offers -> StoredAs] /\ dest'[writer] = Written(dest[writer], ctl.chunk)
        /\ \A o \in Offers : o # writer => dest'[o] = dest[o]
    BY <1>2, <1>5, <2>1, <2>2
  <2>4. /\ transfer' \in Transfers /\ transfer' # NoTransfer /\ transfer'.offer = transfer.offer
        /\ transfer'.received = transfer.received + 1
    BY <1>5, <2>1, TransferFacts
  <2>5. FileTyped'
    BY <1>1, <1>2, <1>5, <2>3, <2>4 DEF FileTyped, SenderTyped, TaskTyped, SinkTyped
  <2> QED BY <1>1, <1>2, <1>5, <2>2, <2>3, <2>4, <2>5
<1> QED BY <1>1, <1>3, <1>4, <1>5

(* An abort of the sink removes the open file, and nothing else.            *)
LEMMA AbortFacts ==
  ASSUME SinkTyped, AbortSink
  PROVE  /\ writer' = None /\ dest' \in [Offers -> StoredAs]
         /\ \A o \in Offers : o # writer => dest'[o] = dest[o]
         /\ writer # None => dest'[writer].kind = "absent"
<1>1. CASE writer = None
  BY <1>1 DEF AbortSink, SinkTyped
<1>2. CASE writer # None
  <2>1. writer \in Offers /\ dest' = [dest EXCEPT ![writer] = Absent] /\ writer' = None
    BY <1>2 DEF AbortSink, SinkTyped
  <2> QED BY <1>2, <2>1, StoredFacts DEF SinkTyped
<1> QED BY <1>1, <1>2

(* A failed transfer takes its file with it.                                *)
LEMMA DiscardFileDoes ==
  ASSUME FileTyped, DiscardFile
  PROVE  /\ FileTyped' /\ ctl.pc = "discard" /\ ctl'.pc = "loop" /\ writer' = None
         /\ size' = size /\ sender' = sender /\ toHost' = toHost /\ toSender' = toSender
         /\ stop' = stop /\ prompt' = prompt /\ allowed' = allowed /\ stopper' = stopper
         /\ transfer' = transfer
         /\ \A o \in Offers : o # writer => dest'[o] = dest[o]
         /\ writer # None => dest'[writer].kind = "absent"
<1>1. /\ ctl.pc = "discard" /\ AbortSink /\ ctl' = At("loop")
      /\ size' = size /\ sender' = sender /\ toHost' = toHost /\ toSender' = toSender
      /\ stop' = stop /\ prompt' = prompt /\ allowed' = allowed /\ stopper' = stopper
      /\ transfer' = transfer
  BY DEF DiscardFile, senderVars, hostVars, fileVars
<1>2. ctl' \in Ctls /\ ctl'.pc = "loop"
  BY <1>1, CtlFacts DEF Pcs
<1>3. /\ writer' = None /\ dest' \in [Offers -> StoredAs]
      /\ \A o \in Offers : o # writer => dest'[o] = dest[o]
      /\ writer # None => dest'[writer].kind = "absent"
  BY <1>1, AbortFacts DEF FileTyped
<1>4. FileTyped'
  BY <1>1, <1>2, <1>3 DEF FileTyped, SenderTyped, TaskTyped, SinkTyped
<1> QED BY <1>1, <1>2, <1>3, <1>4

(* A completion is taken up, or on a stopping host ends the transfer.       *)
LEMMA ReadCompleteDoes ==
  ASSUME FileTyped, ReadComplete
  PROVE  /\ FileTyped' /\ Shifted(toHost', toHost) /\ 1 \in 1 .. Len(toHost)
         /\ toHost[1].kind = "complete"
         /\ ctl.pc = "loop" /\ size' = size /\ sender' = sender /\ toSender' = toSender
         /\ stop' = stop /\ prompt' = prompt /\ allowed' = allowed /\ stopper' = stopper
         /\ \/ /\ stop /\ transfer' = NoTransfer /\ writer' = None /\ ctl' = ctl
               /\ \A o \in Offers : o # writer => dest'[o] = dest[o]
               /\ writer # None => dest'[writer].kind = "absent"
            \/ ctl'.pc = "complete" /\ transfer' = transfer /\ writer' = writer /\ dest' = dest
<1>1. /\ Reads("complete") /\ size' = size /\ sender' = sender /\ toSender' = toSender
      /\ stop' = stop /\ prompt' = prompt /\ allowed' = allowed /\ stopper' = stopper
      /\ \/ stop /\ transfer' = NoTransfer /\ AbortSink /\ ctl' = ctl
         \/ ctl' = At("complete") /\ transfer' = transfer /\ writer' = writer /\ dest' = dest
  BY DEF ReadComplete, senderVars, hostVars, fileVars
<1>2. /\ toHost' \in Seq(Messages) /\ Shifted(toHost', toHost) /\ 1 \in 1 .. Len(toHost)
      /\ toHost[1].kind = "complete" /\ ctl.pc = "loop"
  BY <1>1, ReadFacts DEF FileTyped, SenderTyped
<1>3. CASE stop /\ transfer' = NoTransfer /\ AbortSink /\ ctl' = ctl
  <2>1. /\ writer' = None /\ dest' \in [Offers -> StoredAs]
        /\ \A o \in Offers : o # writer => dest'[o] = dest[o]
        /\ writer # None => dest'[writer].kind = "absent"
    BY <1>3, AbortFacts DEF FileTyped
  <2>2. FileTyped'
    BY <1>1, <1>2, <1>3, <2>1 DEF FileTyped, SenderTyped, TaskTyped, SinkTyped
  <2> QED BY <1>1, <1>2, <1>3, <2>1, <2>2
<1>4. CASE ctl' = At("complete") /\ transfer' = transfer /\ writer' = writer /\ dest' = dest
  <2>1. ctl' \in Ctls /\ ctl'.pc = "complete"
    BY <1>4, CtlFacts DEF Pcs
  <2>2. FileTyped'
    BY <1>1, <1>2, <1>4, <2>1 DEF FileTyped, SenderTyped, TaskTyped, SinkTyped
  <2> QED BY <1>1, <1>2, <1>4, <2>1, <2>2
<1> QED BY <1>1, <1>3, <1>4

(* Only a transfer of the size that was offered is finished.                *)
LEMMA TakeTransferDoes ==
  ASSUME FileTyped, TakeTransfer
  PROVE  /\ FileTyped' /\ ctl.pc = "complete" /\ transfer' = NoTransfer /\ size' = size
         /\ sender' = sender /\ toHost' = toHost /\ toSender' = toSender /\ stop' = stop
         /\ prompt' = prompt /\ allowed' = allowed /\ stopper' = stopper /\ writer' = writer
         /\ dest' = dest
         /\ \/ transfer = NoTransfer /\ ctl'.pc = "loop"
            \/ /\ transfer # NoTransfer /\ transfer.received = size[transfer.offer]
               /\ ctl'.pc = "finish"
            \/ transfer # NoTransfer /\ ctl'.pc = "discard"
<1>1. /\ ctl.pc = "complete" /\ transfer' = NoTransfer /\ size' = size /\ sender' = sender
      /\ toHost' = toHost /\ toSender' = toSender /\ stop' = stop /\ prompt' = prompt
      /\ allowed' = allowed /\ stopper' = stopper /\ writer' = writer /\ dest' = dest
      /\ \/ transfer = NoTransfer /\ ctl' = At("loop")
         \/ /\ transfer # NoTransfer /\ transfer.received = size[transfer.offer]
            /\ ctl' = At("finish")
         \/ transfer # NoTransfer /\ ctl' = At("discard")
  BY DEF TakeTransfer, senderVars, hostVars, fileVars
<1>2. \A pc \in {"loop", "finish", "discard"} : At(pc) \in Ctls /\ At(pc).pc = pc
  BY CtlFacts DEF Pcs
<1>3. ctl' \in Ctls
  BY <1>1, <1>2
<1>4. FileTyped'
  BY <1>1, <1>3 DEF FileTyped, SenderTyped, TaskTyped, SinkTyped
<1> QED BY <1>1, <1>2, <1>4

(* A finished file keeps what was written to it.                            *)
LEMMA FinishFileDoes ==
  ASSUME FileTyped, FinishFile
  PROVE  /\ FileTyped' /\ ctl.pc = "finish" /\ writer \in Offers /\ writer' = None
         /\ size' = size /\ sender' = sender /\ toHost' = toHost /\ toSender' = toSender
         /\ stop' = stop /\ prompt' = prompt /\ allowed' = allowed /\ stopper' = stopper
         /\ transfer' = transfer
         /\ \A o \in Offers : o # writer => dest'[o] = dest[o]
         /\ dest'[writer].data = dest[writer].data
         /\ dest'[writer].kind \in {"kept", "unsynced"}
         /\ ctl'.pc \in {"loop", "discard"}
<1>1. /\ ctl.pc = "finish" /\ writer # None /\ writer' = None /\ size' = size
      /\ sender' = sender /\ toHost' = toHost /\ toSender' = toSender /\ stop' = stop
      /\ prompt' = prompt /\ allowed' = allowed /\ stopper' = stopper
      /\ transfer' = transfer
      /\ \/ dest' = [dest EXCEPT ![writer] = FileMarked(dest[writer], "kept")] /\ ctl' = At("loop")
         \/ /\ dest' = [dest EXCEPT ![writer] = FileMarked(dest[writer], "unsynced")]
            /\ ctl' = At("discard")
  BY DEF FinishFile, FileMarked, senderVars, hostVars, fileVars
<1>2. /\ At("loop") \in Ctls /\ At("loop").pc = "loop"
      /\ At("discard") \in Ctls /\ At("discard").pc = "discard"
  BY CtlFacts DEF Pcs
<1>3. writer \in Offers /\ dest \in [Offers -> StoredAs] /\ dest[writer] \in StoredAs
  BY <1>1 DEF FileTyped, SinkTyped
<1>4. PICK k \in {"kept", "unsynced"} :
        dest' = [dest EXCEPT ![writer] = FileMarked(dest[writer], k)]
  BY <1>1
<1>5. FileMarked(dest[writer], k) \in StoredAs /\ FileMarked(dest[writer], k).kind = k
      /\ FileMarked(dest[writer], k).data = dest[writer].data
  BY <1>3, StoredFacts
<1>6. /\ dest' \in [Offers -> StoredAs] /\ dest'[writer] = FileMarked(dest[writer], k)
      /\ \A o \in Offers : o # writer => dest'[o] = dest[o]
  BY <1>3, <1>4, <1>5
<1>7. ctl' \in Ctls /\ ctl'.pc \in {"loop", "discard"}
  BY <1>1, <1>2
<1>8. FileTyped'
  BY <1>1, <1>6, <1>7 DEF FileTyped, SenderTyped, TaskTyped, SinkTyped
<1> QED BY <1>1, <1>3, <1>5, <1>6, <1>7, <1>8

(* The same for an abort of the transfer that is active.                    *)
LEMMA AbortTransferFacts ==
  ASSUME SinkTyped, AbortTransfer
  PROVE  /\ transfer' = NoTransfer /\ SinkTyped'
         /\ transfer = NoTransfer => writer' = writer /\ dest' = dest
         /\ transfer # NoTransfer => /\ writer' = None
                                     /\ \A o \in Offers : o # writer => dest'[o] = dest[o]
                                     /\ writer # None => dest'[writer].kind = "absent"
<1>1. CASE transfer = NoTransfer
  BY <1>1 DEF AbortTransfer, SinkTyped
<1>2. CASE transfer # NoTransfer
  <2>1. transfer' = NoTransfer /\ AbortSink
    BY <1>2 DEF AbortTransfer
  <2> QED BY <1>2, <2>1, AbortFacts DEF SinkTyped
<1> QED BY <1>1, <1>2

(* The last thing the task does is to abort its transfer.                   *)
LEMMA FinalAbortDoes ==
  ASSUME FileTyped, FinalAbort
  PROVE  /\ FileTyped' /\ ctl.pc = "final" /\ ctl'.pc = "gone" /\ transfer' = NoTransfer
         /\ size' = size /\ sender' = sender /\ toHost' = toHost /\ toSender' = toSender
         /\ stop' = stop /\ prompt' = prompt /\ allowed' = allowed /\ stopper' = stopper
         /\ transfer = NoTransfer => writer' = writer /\ dest' = dest
         /\ transfer # NoTransfer => /\ writer' = None
                                     /\ \A o \in Offers : o # writer => dest'[o] = dest[o]
                                     /\ writer # None => dest'[writer].kind = "absent"
<1>1. /\ ctl.pc = "final" /\ ctl' = At("gone") /\ AbortTransfer /\ size' = size
      /\ sender' = sender /\ toHost' = toHost /\ toSender' = toSender /\ stop' = stop
      /\ prompt' = prompt /\ allowed' = allowed /\ stopper' = stopper
  BY DEF FinalAbort, senderVars, hostVars, fileVars
<1>2. ctl' \in Ctls /\ ctl'.pc = "gone"
  BY <1>1, CtlFacts DEF Pcs
<1>3. /\ transfer' = NoTransfer /\ SinkTyped'
      /\ transfer = NoTransfer => writer' = writer /\ dest' = dest
      /\ transfer # NoTransfer => /\ writer' = None
                                  /\ \A o \in Offers : o # writer => dest'[o] = dest[o]
                                  /\ writer # None => dest'[writer].kind = "absent"
  BY <1>1, AbortTransferFacts DEF FileTyped
<1>4. FileTyped'
  BY <1>1, <1>2, <1>3 DEF FileTyped, SenderTyped, TaskTyped
<1> QED BY <1>1, <1>2, <1>3, <1>4

(* A cut loses the ends of both queues.                                     *)
LEMMA TransportLostDoes ==
  ASSUME FileTyped, TransportLost
  PROVE  /\ FileTyped' /\ Shorter(toHost', toHost) /\ Shorter(toSender', toSender)
         /\ size' = size /\ sender' = sender /\ stop' = stop /\ ctl' = ctl
         /\ prompt' = prompt /\ allowed' = allowed /\ stopper' = stopper
         /\ transfer' = transfer /\ writer' = writer /\ dest' = dest
<1>1. /\ size' = size /\ sender' = sender /\ stop' = stop /\ ctl' = ctl /\ prompt' = prompt
      /\ allowed' = allowed /\ stopper' = stopper /\ transfer' = transfer
      /\ writer' = writer /\ dest' = dest
  BY DEF TransportLost, senderVars, hostVars, fileVars
<1>2. /\ toHost' \in Seq(Messages) /\ Shorter(toHost', toHost)
      /\ toSender' \in Seq({"accept", "reject"}) /\ Shorter(toSender', toSender)
  BY CutFacts DEF FileTyped, SenderTyped
<1>3. FileTyped'
  BY <1>1, <1>2 DEF FileTyped, SenderTyped, TaskTyped, SinkTyped
<1> QED BY <1>1, <1>2, <1>3

(* A loop that ends stops its session.                                      *)
LEMMA LoopEndsDoes ==
  ASSUME FileTyped, LoopEnds
  PROVE  /\ FileTyped' /\ ctl.pc = "loop" /\ ctl'.pc = "final" /\ stop' = TRUE /\ size' = size
         /\ sender' = sender /\ toHost' = toHost /\ toSender' = toSender /\ prompt' = prompt
         /\ allowed' = allowed /\ stopper' = stopper /\ transfer' = transfer
         /\ writer' = writer /\ dest' = dest
<1>1. /\ ctl.pc = "loop" /\ ctl' = At("final") /\ stop' = TRUE /\ size' = size
      /\ sender' = sender /\ toHost' = toHost /\ toSender' = toSender /\ prompt' = prompt
      /\ allowed' = allowed /\ stopper' = stopper /\ transfer' = transfer
      /\ writer' = writer /\ dest' = dest
  BY DEF LoopEnds, senderVars, hostVars, fileVars
<1>2. ctl' \in Ctls /\ ctl'.pc = "final"
  BY <1>1, CtlFacts DEF Pcs
<1>3. FileTyped'
  BY <1>1, <1>2 DEF FileTyped, SenderTyped, TaskTyped, SinkTyped
<1> QED BY <1>1, <1>2, <1>3

(* Who stops the host has set the flag.                                     *)
LEMMA StoppingDoes ==
  ASSUME FileTyped, stopper # "none" => stop, StopCalled \/ StopJoins
  PROVE  /\ FileTyped' /\ stop' = TRUE
         /\ size' = size /\ sender' = sender /\ toHost' = toHost /\ toSender' = toSender
         /\ ctl' = ctl /\ prompt' = prompt /\ allowed' = allowed /\ transfer' = transfer
         /\ writer' = writer /\ dest' = dest
<1>1. /\ stop' = TRUE /\ stopper' \in {"join", "abort"}
      /\ size' = size /\ sender' = sender /\ toHost' = toHost /\ toSender' = toSender
      /\ ctl' = ctl /\ prompt' = prompt /\ allowed' = allowed /\ transfer' = transfer
      /\ writer' = writer /\ dest' = dest
  BY DEF StopCalled, StopJoins, FileTyped, TaskTyped, senderVars, fileVars
<1>2. FileTyped'
  BY <1>1 DEF FileTyped, SenderTyped, TaskTyped, SinkTyped
<1> QED BY <1>1, <1>2

(* An abort ends the task where it awaits.                                  *)
LEMMA TaskAbortedDoes ==
  ASSUME FileTyped, TaskAborted
  PROVE  /\ FileTyped' /\ ctl.pc \in {"loop", "reply"} /\ ctl'.pc = "aborted" /\ size' = size
         /\ sender' = sender /\ toHost' = toHost /\ toSender' = toSender /\ stop' = stop
         /\ prompt' = prompt /\ allowed' = allowed /\ stopper' = stopper
         /\ transfer' = transfer /\ writer' = writer /\ dest' = dest
<1>1. /\ ctl.pc \in {"loop", "reply"} /\ ctl' = At("aborted") /\ size' = size
      /\ sender' = sender /\ toHost' = toHost /\ toSender' = toSender /\ stop' = stop
      /\ prompt' = prompt /\ allowed' = allowed /\ stopper' = stopper
      /\ transfer' = transfer /\ writer' = writer /\ dest' = dest
  BY DEF TaskAborted, Awaiting, senderVars, hostVars, fileVars
<1>2. ctl' \in Ctls /\ ctl'.pc = "aborted"
  BY <1>1, CtlFacts DEF Pcs
<1>3. FileTyped'
  BY <1>1, <1>2 DEF FileTyped, SenderTyped, TaskTyped, SinkTyped
<1> QED BY <1>1, <1>2, <1>3

(* The stopping thread aborts the transfer that is active.                  *)
LEMMA StopAbortsTransferDoes ==
  ASSUME FileTyped, StopAbortsTransfer
  PROVE  /\ FileTyped' /\ stopper = "abort" /\ stopper' = "done" /\ transfer' = NoTransfer
         /\ size' = size /\ sender' = sender /\ toHost' = toHost /\ toSender' = toSender
         /\ stop' = stop /\ ctl' = ctl /\ prompt' = prompt /\ allowed' = allowed
         /\ transfer = NoTransfer => writer' = writer /\ dest' = dest
         /\ transfer # NoTransfer => /\ writer' = None
                                     /\ \A o \in Offers : o # writer => dest'[o] = dest[o]
                                     /\ writer # None => dest'[writer].kind = "absent"
<1>1. /\ stopper = "abort" /\ stopper' = "done" /\ AbortTransfer /\ size' = size
      /\ sender' = sender /\ toHost' = toHost /\ toSender' = toSender /\ stop' = stop
      /\ ctl' = ctl /\ prompt' = prompt /\ allowed' = allowed
  BY DEF StopAbortsTransfer, senderVars, hostVars, fileVars
<1>2. /\ transfer' = NoTransfer /\ SinkTyped'
      /\ transfer = NoTransfer => writer' = writer /\ dest' = dest
      /\ transfer # NoTransfer => /\ writer' = None
                                  /\ \A o \in Offers : o # writer => dest'[o] = dest[o]
                                  /\ writer # None => dest'[writer].kind = "absent"
  BY <1>1, AbortTransferFacts DEF FileTyped
<1>3. FileTyped'
  BY <1>1, <1>2 DEF FileTyped, SenderTyped, TaskTyped
<1> QED BY <1>1, <1>2, <1>3

-----------------------------------------------------------------------------
(* What every step keeps.                                                    *)

(* Every step keeps the types.                                              *)
LEMMA TypedNext ==
  ASSUME FileTyped, stopper # "none" => stop, [FileNext]_transferVars
  PROVE  FileTyped'
<1>1. ASSUME NEW n \in 1 .. MaxSize, Offer(n) PROVE FileTyped'
  BY <1>1, OfferDoes
<1>2. CASE SenderGivesUp
  BY <1>2, SenderGivesUpDoes
<1>3. CASE SenderHears
  BY <1>3, SenderHearsDoes
<1>4. CASE SendChunk
  BY <1>4, SendChunkDoes
<1>5. CASE SendComplete
  BY <1>5, SendCompleteDoes
<1>6. CASE ReceiveOffer
  BY <1>6, ReceiveOfferDoes
<1>7. ASSUME NEW yes \in BOOLEAN, UserAnswers(yes) PROVE FileTyped'
  BY <1>7, UserAnswersDoes
<1>8. CASE ConsentResolved
  BY <1>8, ConsentResolvedDoes
<1>9. CASE OpenSink
  BY <1>9, OpenSinkDoes
<1>10. CASE ArmTransfer
  BY <1>10, ArmTransferDoes
<1>11. CASE SendReply
  BY <1>11, SendReplyDoes
<1>12. CASE ReadChunk
  BY <1>12, ReadChunkDoes
<1>13. CASE WriteChunk
  BY <1>13, WriteChunkDoes
<1>14. CASE DiscardFile
  BY <1>14, DiscardFileDoes
<1>15. CASE ReadComplete
  BY <1>15, ReadCompleteDoes
<1>16. CASE TakeTransfer
  BY <1>16, TakeTransferDoes
<1>17. CASE FinishFile
  BY <1>17, FinishFileDoes
<1>18. CASE FinalAbort
  BY <1>18, FinalAbortDoes
<1>19. CASE TransportLost
  BY <1>19, TransportLostDoes
<1>20. CASE LoopEnds
  BY <1>20, LoopEndsDoes
<1>21. CASE StopCalled \/ StopJoins
  BY <1>21, StoppingDoes
<1>22. CASE TaskAborted
  BY <1>22, TaskAbortedDoes
<1>23. CASE StopAbortsTransfer
  BY <1>23, StopAbortsTransferDoes
<1>99. CASE UNCHANGED transferVars
  BY <1>99 DEF transferVars, senderVars, hostVars, fileVars, FileTyped, SenderTyped, TaskTyped,
     SinkTyped
<1> QED
  BY <1>1, <1>2, <1>3, <1>4, <1>5, <1>6, <1>7, <1>8, <1>9, <1>10, <1>11, <1>12, <1>13,
     <1>14, <1>15, <1>16, <1>17, <1>18, <1>19, <1>20, <1>21, <1>22, <1>23, <1>99
  DEF FileNext, HostSteps

(* Every step keeps track of the sink's open file.                          *)
LEMMA SinkNext ==
  ASSUME FileTyped, SinkInv, [FileNext]_transferVars
  PROVE  SinkInv'
<1> USE DEF SinkInv
<1>0. /\ None \notin Offers /\ (transfer # NoTransfer => transfer.offer \in Offers)
      /\ writer \in Offers \cup {None}
  BY TransferFacts DEF FileTyped, SinkTyped, Offers, None
<1>00. ctl.pc \in {"open", "arm"} => ctl.offer \in Offers
  BY CtlIs DEF FileTyped, TaskTyped
<1>1. ASSUME NEW n \in 1 .. MaxSize, Offer(n) PROVE SinkInv'
  BY <1>1, OfferDoes, <1>0, <1>00
<1>2. CASE SenderGivesUp
  BY <1>2, SenderGivesUpDoes, <1>0, <1>00
<1>3. CASE SenderHears
  BY <1>3, SenderHearsDoes, <1>0, <1>00
<1>4. CASE SendChunk
  BY <1>4, SendChunkDoes, <1>0, <1>00
<1>5. CASE SendComplete
  BY <1>5, SendCompleteDoes, <1>0, <1>00
<1>6. CASE ReceiveOffer
  BY <1>6, ReceiveOfferDoes, <1>0, <1>00
<1>7. ASSUME NEW yes \in BOOLEAN, UserAnswers(yes) PROVE SinkInv'
  BY <1>7, UserAnswersDoes, <1>0, <1>00
<1>8. CASE ConsentResolved
  BY <1>8, ConsentResolvedDoes, <1>0, <1>00
<1>9. CASE OpenSink
  BY <1>9, OpenSinkDoes, <1>0, <1>00
<1>10. CASE ArmTransfer
  BY <1>10, ArmTransferDoes, <1>0, <1>00
<1>11. CASE SendReply
  BY <1>11, SendReplyDoes, <1>0, <1>00
<1>12. CASE ReadChunk
  BY <1>12, ReadChunkDoes, <1>0, <1>00
<1>13. CASE WriteChunk
  BY <1>13, WriteChunkDoes, <1>0, <1>00
<1>14. CASE DiscardFile
  BY <1>14, DiscardFileDoes, <1>0, <1>00
<1>15. CASE ReadComplete
  <2>1. ctl.pc = "loop" /\ (transfer = NoTransfer => writer = None)
    BY <1>15, ReadCompleteDoes
  <2>2. CASE ctl'.pc = "complete" /\ transfer' = transfer /\ writer' = writer /\ dest' = dest
    BY <1>15, <2>1, <2>2, ReadCompleteDoes, <1>0
  <2>3. CASE transfer' = NoTransfer /\ writer' = None /\ ctl' = ctl
    <3>1. \A o \in Offers : dest'[o].kind # "partial"
      BY <1>15, <2>1, <2>3, ReadCompleteDoes, <1>0
    <3> QED BY <1>15, <2>1, <2>3, <3>1, ReadCompleteDoes, <1>0
  <2>4. \/ ctl'.pc = "complete" /\ transfer' = transfer /\ writer' = writer /\ dest' = dest
        \/ transfer' = NoTransfer /\ writer' = None /\ ctl' = ctl
    BY <1>15, ReadCompleteDoes
  <2> QED BY <2>2, <2>3, <2>4
<1>16. CASE TakeTransfer
  BY <1>16, TakeTransferDoes, <1>0, <1>00
<1>17. CASE FinishFile
  BY <1>17, FinishFileDoes, <1>0, <1>00
<1>18. CASE FinalAbort
  <2>1. CASE transfer = NoTransfer
    BY <1>18, <2>1, FinalAbortDoes, <1>0, <1>00
  <2>2. CASE transfer # NoTransfer
    <3>1. \A o \in Offers : dest'[o].kind # "partial"
      BY <1>18, <2>2, FinalAbortDoes, <1>0
    <3> QED BY <1>18, <2>2, <3>1, FinalAbortDoes, <1>0, <1>00
  <2> QED BY <2>1, <2>2
<1>19. CASE TransportLost
  BY <1>19, TransportLostDoes, <1>0, <1>00
<1>20. CASE LoopEnds
  BY <1>20, LoopEndsDoes, <1>0, <1>00
<1>21. CASE StopCalled \/ StopJoins
  BY <1>21, StoppingDoes, <1>0, <1>00
<1>22. CASE TaskAborted
  BY <1>22, TaskAbortedDoes, <1>0, <1>00
<1>23. CASE StopAbortsTransfer
  <2>1. CASE transfer = NoTransfer
    BY <1>23, <2>1, StopAbortsTransferDoes, <1>0, <1>00
  <2>2. CASE transfer # NoTransfer
    <3>1. \A o \in Offers : dest'[o].kind # "partial"
      BY <1>23, <2>2, StopAbortsTransferDoes, <1>0
    <3> QED BY <1>23, <2>2, <3>1, StopAbortsTransferDoes, <1>0, <1>00
  <2> QED BY <2>1, <2>2
<1>99. CASE UNCHANGED transferVars
  BY <1>99 DEF transferVars, senderVars, hostVars, fileVars
<1> QED
  BY <1>1, <1>2, <1>3, <1>4, <1>5, <1>6, <1>7, <1>8, <1>9, <1>10, <1>11, <1>12, <1>13,
     <1>14, <1>15, <1>16, <1>17, <1>18, <1>19, <1>20, <1>21, <1>22, <1>23, <1>99
  DEF FileNext, HostSteps

(* Every step speaks of what was offered, and writes only what was allowed. *)
LEMMA NamedNext ==
  ASSUME FileTyped, SinkInv, Named, [FileNext]_transferVars
  PROVE  Named'
<1> USE DEF Named
<1>00. stopper # "none" => stop
  BY DEF SinkInv
<1>0. /\ sender.offer \in Nat /\ writer \in Offers \cup {None} /\ writer \in Nat
      /\ Offers \subseteq Nat /\ None \in Nat /\ None <= sender.offer /\ None \notin Offers
      /\ \A i \in 1 .. Len(toHost) : toHost[i].kind = "offer" => toHost[i].offer \in Nat
      /\ prompt.state # "none" => prompt.offer \in Nat
      /\ ctl.pc \in {"open", "arm"} => ctl.offer \in Nat
  <2>1. /\ sender.offer \in Nat /\ writer \in Offers \cup {None} /\ writer \in Nat
        /\ Offers \subseteq Nat /\ None \in Nat /\ None <= sender.offer /\ None \notin Offers
    BY SenderFacts DEF FileTyped, SinkTyped, SenderTyped, Offers, None
  <2>2. /\ prompt.state # "none" => prompt.offer \in Nat
        /\ ctl.pc \in {"open", "arm"} => ctl.offer \in Nat
    BY <2>1, AskIs, CtlIs DEF FileTyped, TaskTyped
  <2>3. ASSUME NEW i \in 1 .. Len(toHost), toHost[i].kind = "offer" PROVE toHost[i].offer \in Nat
    <3>1. toHost[i] \in Messages
      BY DEF FileTyped, SenderTyped
    <3> QED BY <2>1, <2>3, <3>1, MessageIs
  <2> QED BY <2>1, <2>2, <2>3
<1> USE DEF Shorter, Shifted, Longer
<1>1. ASSUME NEW n \in 1 .. MaxSize, Offer(n) PROVE Named'
  <2>1. ASSUME NEW i \in 1 .. Len(toHost'), toHost'[i].kind = "offer"
        PROVE  toHost'[i].offer <= sender'.offer
    BY <1>1, <2>1, OfferDoes, <1>0
  <2>2. /\ prompt' = prompt /\ ctl' = ctl /\ writer' = writer /\ allowed' = allowed
        /\ dest' = dest
        /\ sender'.offer = sender.offer + 1
    BY <1>1, OfferDoes
  <2> QED BY <2>1, <2>2, <1>0
<1>2. CASE SenderGivesUp
  BY <1>2, SenderGivesUpDoes, <1>0, <1>00
<1>3. CASE SenderHears
  BY <1>3, SenderHearsDoes, <1>0, <1>00
<1>4. CASE SendChunk
  BY <1>4, SendChunkDoes, <1>0, <1>00
<1>5. CASE SendComplete
  BY <1>5, SendCompleteDoes, <1>0, <1>00
<1>6. CASE ReceiveOffer
  BY <1>6, ReceiveOfferDoes, <1>0, <1>00
<1>7. ASSUME NEW yes \in BOOLEAN, UserAnswers(yes) PROVE Named'
  BY <1>7, UserAnswersDoes, <1>0, <1>00
<1>8. CASE ConsentResolved
  BY <1>8, ConsentResolvedDoes, <1>0, <1>00
<1>9. CASE OpenSink
  BY <1>9, OpenSinkDoes, <1>0, <1>00
<1>10. CASE ArmTransfer
  BY <1>10, ArmTransferDoes, <1>0, <1>00
<1>11. CASE SendReply
  BY <1>11, SendReplyDoes, <1>0, <1>00
<1>12. CASE ReadChunk
  BY <1>12, ReadChunkDoes, <1>0, <1>00
<1>13. CASE WriteChunk
  BY <1>13, WriteChunkDoes, <1>0, <1>00
<1>14. CASE DiscardFile
  BY <1>14, DiscardFileDoes, <1>0, <1>00
<1>15. CASE ReadComplete
  BY <1>15, ReadCompleteDoes, <1>0, <1>00
<1>16. CASE TakeTransfer
  BY <1>16, TakeTransferDoes, <1>0, <1>00
<1>17. CASE FinishFile
  BY <1>17, FinishFileDoes, <1>0, <1>00
<1>18. CASE FinalAbort
  BY <1>18, FinalAbortDoes, <1>0, <1>00
<1>19. CASE TransportLost
  BY <1>19, TransportLostDoes, <1>0, <1>00
<1>20. CASE LoopEnds
  BY <1>20, LoopEndsDoes, <1>0, <1>00
<1>21. CASE StopCalled \/ StopJoins
  BY <1>21, StoppingDoes, <1>0, <1>00
<1>22. CASE TaskAborted
  BY <1>22, TaskAbortedDoes, <1>0, <1>00
<1>23. CASE StopAbortsTransfer
  BY <1>23, StopAbortsTransferDoes, <1>0, <1>00
<1>99. CASE UNCHANGED transferVars
  BY <1>99 DEF transferVars, senderVars, hostVars, fileVars
<1> QED
  BY <1>1, <1>2, <1>3, <1>4, <1>5, <1>6, <1>7, <1>8, <1>9, <1>10, <1>11, <1>12, <1>13,
     <1>14, <1>15, <1>16, <1>17, <1>18, <1>19, <1>20, <1>21, <1>22, <1>23, <1>99
  DEF FileNext, HostSteps

(* Every step keeps the order of the chunks.                                *)
LEMMA KeepsNext ==
  ASSUME FileTyped, stopper # "none" => stop, [FileNext]_transferVars
  PROVE  /\ Keeps(toHost', sender', size', toHost, sender, size)
         /\ \A o \in Offers : o <= sender.offer => size'[o] = size[o]
<1>0. Keeps(toHost, sender, size, toHost, sender, size)
  BY DEF Keeps
<1>1. ASSUME NEW n \in 1 .. MaxSize, Offer(n)
      PROVE  /\ Keeps(toHost', sender', size', toHost, sender, size)
             /\ \A o \in Offers : o <= sender.offer => size'[o] = size[o]
  <2>1. /\ toHost \in Seq(Messages) /\ toHost' \in Seq(Messages)
        /\ sender \in Senders /\ sender' \in Senders
    BY <1>1, OfferDoes DEF FileTyped, SenderTyped
  <2>2. sender.offer \in Nat
    BY <2>1, SenderFacts
  <2> QED BY <1>1, <2>1, <2>2, OfferDoes, StillKeeps
<1>2. CASE SenderGivesUp
  <2>1. /\ toHost \in Seq(Messages) /\ toHost' \in Seq(Messages)
        /\ sender \in Senders /\ sender' \in Senders
    BY <1>2, SenderGivesUpDoes DEF FileTyped, SenderTyped
  <2>2. sender.offer \in Nat
    BY <2>1, SenderFacts
  <2> QED BY <1>2, <2>1, <2>2, SenderGivesUpDoes, StillKeeps
<1>3. CASE SenderHears
  <2>1. /\ toHost \in Seq(Messages) /\ toHost' \in Seq(Messages)
        /\ sender \in Senders /\ sender' \in Senders
    BY <1>3, SenderHearsDoes DEF FileTyped, SenderTyped
  <2>2. /\ sender.offer \in Nat /\ Longer(toHost, toHost, CompleteMsg)
        /\ CompleteMsg.kind = "complete"
    BY <2>1, SenderFacts, MessageFacts DEF Longer
  <2> QED BY <1>3, <2>1, <2>2, SenderHearsDoes, StillKeeps
<1>4. CASE SendChunk
  <2>1. /\ toHost \in Seq(Messages) /\ toHost' \in Seq(Messages)
        /\ sender \in Senders /\ sender' \in Senders
    BY <1>4, SendChunkDoes DEF FileTyped, SenderTyped
  <2> QED BY <1>4, <2>1, SendChunkDoes, SendKeeps
<1>5. CASE SendComplete
  <2>1. /\ toHost \in Seq(Messages) /\ toHost' \in Seq(Messages)
        /\ sender \in Senders /\ sender' \in Senders
    BY <1>5, SendCompleteDoes DEF FileTyped, SenderTyped
  <2>2. sender.offer \in Nat
    BY <2>1, SenderFacts
  <2> QED BY <1>5, <2>1, <2>2, SendCompleteDoes, StillKeeps
<1>6. CASE ReceiveOffer
  <2>1. /\ toHost \in Seq(Messages) /\ toHost' \in Seq(Messages)
        /\ sender \in Senders /\ sender' \in Senders
    BY <1>6, ReceiveOfferDoes DEF FileTyped, SenderTyped
  <2> QED BY <1>6, <2>1, ReceiveOfferDoes, LessKeeps
<1>7. ASSUME NEW yes \in BOOLEAN, UserAnswers(yes)
      PROVE  /\ Keeps(toHost', sender', size', toHost, sender, size)
             /\ \A o \in Offers : o <= sender.offer => size'[o] = size[o]
  BY <1>7, UserAnswersDoes, <1>0
<1>8. CASE ConsentResolved
  BY <1>8, ConsentResolvedDoes, <1>0
<1>9. CASE OpenSink
  BY <1>9, OpenSinkDoes, <1>0
<1>10. CASE ArmTransfer
  BY <1>10, ArmTransferDoes, <1>0
<1>11. CASE SendReply
  BY <1>11, SendReplyDoes, <1>0
<1>12. CASE ReadChunk
  <2>1. /\ toHost \in Seq(Messages) /\ toHost' \in Seq(Messages)
        /\ sender \in Senders /\ sender' \in Senders
    BY <1>12, ReadChunkDoes DEF FileTyped, SenderTyped
  <2> QED BY <1>12, <2>1, ReadChunkDoes, LessKeeps
<1>13. CASE WriteChunk
  BY <1>13, WriteChunkDoes, <1>0
<1>14. CASE DiscardFile
  BY <1>14, DiscardFileDoes, <1>0
<1>15. CASE ReadComplete
  <2>1. /\ toHost \in Seq(Messages) /\ toHost' \in Seq(Messages)
        /\ sender \in Senders /\ sender' \in Senders
    BY <1>15, ReadCompleteDoes DEF FileTyped, SenderTyped
  <2> QED BY <1>15, <2>1, ReadCompleteDoes, LessKeeps
<1>16. CASE TakeTransfer
  BY <1>16, TakeTransferDoes, <1>0
<1>17. CASE FinishFile
  BY <1>17, FinishFileDoes, <1>0
<1>18. CASE FinalAbort
  BY <1>18, FinalAbortDoes, <1>0
<1>19. CASE TransportLost
  <2>1. /\ toHost \in Seq(Messages) /\ toHost' \in Seq(Messages)
        /\ sender \in Senders /\ sender' \in Senders
    BY <1>19, TransportLostDoes DEF FileTyped, SenderTyped
  <2> QED BY <1>19, <2>1, TransportLostDoes, LessKeeps
<1>20. CASE LoopEnds
  BY <1>20, LoopEndsDoes, <1>0
<1>21. CASE StopCalled \/ StopJoins
  BY <1>21, StoppingDoes, <1>0
<1>22. CASE TaskAborted
  BY <1>22, TaskAbortedDoes, <1>0
<1>23. CASE StopAbortsTransfer
  BY <1>23, StopAbortsTransferDoes, <1>0
<1>99. CASE UNCHANGED transferVars
  BY <1>99, <1>0 DEF transferVars, senderVars, hostVars, fileVars
<1> QED
  BY <1>1, <1>2, <1>3, <1>4, <1>5, <1>6, <1>7, <1>8, <1>9, <1>10, <1>11, <1>12, <1>13,
     <1>14, <1>15, <1>16, <1>17, <1>18, <1>19, <1>20, <1>21, <1>22, <1>23, <1>99
  DEF FileNext, HostSteps

(* What a step leaves of the order of the chunks that were there before it. *)
FlowKept ==
  /\ InOrder(toHost', sender', size')
  /\ \A x \in Chunks : Fits(x, sender, size) => Fits(x, sender', size')
  /\ ctl.pc = "write" => Ahead(ctl.chunk, toHost', sender')
  /\ \A o \in Offers : dest[o].kind # "absent" =>
       /\ Ordered(dest[o].data, sender', size')
       /\ size'[o] = size[o]
  /\ transfer # NoTransfer => Passed(dest[transfer.offer].data, toHost', sender')

(* The chunks that were there before a step stay in order.                  *)
LEMMA FlowNext ==
  ASSUME FileTyped, SinkInv, Named, StreamInv, StoredInv, [FileNext]_transferVars
  PROVE  FlowKept
<1>0. /\ stopper # "none" => stop
      /\ \A o \in Offers : dest[o] \in StoredAs /\ dest[o].data \in Seq(Chunks)
      /\ toHost \in Seq(Messages)
      /\ transfer # NoTransfer => transfer.offer \in Offers
      /\ ctl.pc = "write" => ctl.chunk \in Chunks
  BY StoredFacts, TransferFacts, CtlIs DEF SinkInv, FileTyped, SenderTyped, TaskTyped, SinkTyped
<1>1. /\ Keeps(toHost', sender', size', toHost, sender, size)
      /\ \A o \in Offers : o <= sender.offer => size'[o] = size[o]
  BY <1>0, KeepsNext
<1>2. /\ InOrder(toHost', sender', size')
      /\ \A x \in Chunks : Fits(x, sender, size) => Fits(x, sender', size')
      /\ ctl.pc = "write" => Ahead(ctl.chunk, toHost', sender')
  BY <1>0, <1>1 DEF Keeps, StreamInv
<1>3. ASSUME NEW o \in Offers, dest[o].kind # "absent"
      PROVE  Ordered(dest[o].data, sender', size') /\ size'[o] = size[o]
  <2>1. Ordered(dest[o].data, sender, size) /\ o <= sender.offer
    BY <1>3 DEF StoredInv, Named
  <2> QED BY <1>0, <1>1, <2>1, StoredKeeps
<1>4. ASSUME transfer # NoTransfer
      PROVE  Passed(dest[transfer.offer].data, toHost', sender')
  <2>1. Passed(dest[transfer.offer].data, toHost, sender)
    BY <1>4 DEF StoredInv, Arriving
  <2> QED BY <1>0, <1>1, <1>4, <2>1, StoredKeeps
<1> QED BY <1>2, <1>3, <1>4 DEF FlowKept

(* Every step keeps the chunks in order.                                    *)
LEMMA StreamNext ==
  ASSUME FileTyped, SinkInv, Named, StreamInv, StoredInv, [FileNext]_transferVars
  PROVE  StreamInv'
<1> USE DEF StreamInv
<1>0. /\ stopper # "none" => stop
      /\ ctl.pc = "write" => ctl.chunk \in Chunks
  BY CtlIs DEF SinkInv, FileTyped, TaskTyped
<1>00. /\ InOrder(toHost', sender', size')
       /\ \A x \in Chunks : Fits(x, sender, size) => Fits(x, sender', size')
       /\ ctl.pc = "write" => Ahead(ctl.chunk, toHost', sender')
  BY FlowNext DEF FlowKept
<1>1. ASSUME NEW n \in 1 .. MaxSize, Offer(n) PROVE StreamInv'
  BY <1>1, OfferDoes, <1>0, <1>00
<1>2. CASE SenderGivesUp
  BY <1>2, SenderGivesUpDoes, <1>0, <1>00
<1>3. CASE SenderHears
  BY <1>3, SenderHearsDoes, <1>0, <1>00
<1>4. CASE SendChunk
  BY <1>4, SendChunkDoes, <1>0, <1>00
<1>5. CASE SendComplete
  BY <1>5, SendCompleteDoes, <1>0, <1>00
<1>6. CASE ReceiveOffer
  <2>1. ctl'.pc # "write"
    BY <1>6, ReceiveOfferDoes
  <2> QED BY <1>6, <2>1, <1>00
<1>7. ASSUME NEW yes \in BOOLEAN, UserAnswers(yes) PROVE StreamInv'
  BY <1>7, UserAnswersDoes, <1>0, <1>00
<1>8. CASE ConsentResolved
  BY <1>8, ConsentResolvedDoes, <1>0, <1>00
<1>9. CASE OpenSink
  BY <1>9, OpenSinkDoes, <1>0, <1>00
<1>10. CASE ArmTransfer
  BY <1>10, ArmTransferDoes, <1>0, <1>00
<1>11. CASE SendReply
  BY <1>11, SendReplyDoes, <1>0, <1>00
<1>12. CASE ReadChunk
  <2>1. toHost \in Seq(Messages) /\ toHost' \in Seq(Messages)
    BY <1>12, ReadChunkDoes DEF FileTyped, SenderTyped
  <2>2. Ahead(toHost[1], toHost', sender) /\ Fits(toHost[1], sender, size)
    BY <1>12, <2>1, ReadChunkDoes, FirstIsBehind
  <2> QED BY <1>12, <2>2, <1>00, ReadChunkDoes
<1>13. CASE WriteChunk
  BY <1>13, WriteChunkDoes, <1>0, <1>00
<1>14. CASE DiscardFile
  BY <1>14, DiscardFileDoes, <1>0, <1>00
<1>15. CASE ReadComplete
  <2>1. ctl'.pc # "write"
    BY <1>15, ReadCompleteDoes
  <2> QED BY <1>15, <2>1, <1>00
<1>16. CASE TakeTransfer
  BY <1>16, TakeTransferDoes, <1>0, <1>00
<1>17. CASE FinishFile
  BY <1>17, FinishFileDoes, <1>0, <1>00
<1>18. CASE FinalAbort
  BY <1>18, FinalAbortDoes, <1>0, <1>00
<1>19. CASE TransportLost
  BY <1>19, TransportLostDoes, <1>0, <1>00
<1>20. CASE LoopEnds
  BY <1>20, LoopEndsDoes, <1>0, <1>00
<1>21. CASE StopCalled \/ StopJoins
  BY <1>21, StoppingDoes, <1>0, <1>00
<1>22. CASE TaskAborted
  BY <1>22, TaskAbortedDoes, <1>0, <1>00
<1>23. CASE StopAbortsTransfer
  BY <1>23, StopAbortsTransferDoes, <1>0, <1>00
<1>99. CASE UNCHANGED transferVars
  BY <1>99 DEF transferVars, senderVars, hostVars, fileVars
<1> QED
  BY <1>1, <1>2, <1>3, <1>4, <1>5, <1>6, <1>7, <1>8, <1>9, <1>10, <1>11, <1>12, <1>13,
     <1>14, <1>15, <1>16, <1>17, <1>18, <1>19, <1>20, <1>21, <1>22, <1>23, <1>99
  DEF FileNext, HostSteps

(* What a step does to the files, to the transfer and to the task.          *)
FilesStep ==
  \A o \in Offers :
    \/ dest'[o] = dest[o]
    \/ dest'[o].kind = "absent"
    \/ dest'[o].kind = "partial" /\ dest'[o].data = <<>>
    \/ /\ o = writer /\ ctl.pc = "write" /\ transfer # NoTransfer
       /\ dest'[o].kind = dest[o].kind /\ dest'[o].data = Append(dest[o].data, ctl.chunk)
    \/ /\ o = writer /\ ctl.pc = "finish"
       /\ dest'[o].data = dest[o].data /\ dest'[o].kind \in {"kept", "unsynced"}
TransferStep ==
  transfer' # NoTransfer =>
    \/ transfer' = transfer /\ dest'[transfer.offer] = dest[transfer.offer]
    \/ /\ ctl.pc = "arm" /\ transfer'.offer = ctl.offer /\ transfer'.received = 0
       /\ dest' = dest
    \/ /\ ctl.pc = "write" /\ transfer # NoTransfer /\ transfer'.offer = transfer.offer
       /\ transfer'.received = transfer.received + 1
       /\ dest'[transfer.offer].data = Append(dest[transfer.offer].data, ctl.chunk)
TaskStep ==
  /\ ctl'.pc = "write" /\ transfer' # NoTransfer =>
       /\ transfer' = transfer /\ dest'[transfer.offer] = dest[transfer.offer]
       /\ \/ ctl' = ctl
          \/ 1 \in 1 .. Len(toHost) /\ toHost[1].kind = "chunk" /\ ctl'.chunk = toHost[1]
  /\ ctl'.pc = "arm" => \/ ctl' = ctl /\ dest' = dest
                        \/ dest'[ctl'.offer].data = <<>>
  /\ ctl'.pc = "finish" =>
       /\ writer' = writer /\ dest' = dest
       /\ \/ ctl' = ctl
          \/ transfer # NoTransfer /\ transfer.received = size'[transfer.offer]

(* What a step does to the files, to the transfer and to the task.          *)
LEMMA StepHolds ==
  ASSUME FileTyped, SinkInv, [FileNext]_transferVars
  PROVE  FilesStep /\ TransferStep /\ TaskStep /\ allowed \subseteq allowed'
<1> USE DEF FilesStep, TransferStep, TaskStep
<1>0. /\ stopper # "none" => stop
      /\ None \notin Offers /\ writer \in Offers \cup {None}
      /\ transfer # NoTransfer => transfer.offer \in Offers /\ writer = transfer.offer
      /\ ctl.pc \in {"open", "arm", "discard", "finish"} => transfer = NoTransfer
  BY TransferFacts DEF SinkInv, FileTyped, TaskTyped, SinkTyped, Offers, None
<1>1. ASSUME NEW n \in 1 .. MaxSize, Offer(n)
      PROVE  FilesStep /\ TransferStep /\ TaskStep /\ allowed \subseteq allowed'
  BY <1>1, OfferDoes, <1>0
<1>2. CASE SenderGivesUp
  BY <1>2, SenderGivesUpDoes, <1>0
<1>3. CASE SenderHears
  BY <1>3, SenderHearsDoes, <1>0
<1>4. CASE SendChunk
  BY <1>4, SendChunkDoes, <1>0
<1>5. CASE SendComplete
  BY <1>5, SendCompleteDoes, <1>0
<1>6. CASE ReceiveOffer
  BY <1>6, ReceiveOfferDoes, <1>0
<1>7. ASSUME NEW yes \in BOOLEAN, UserAnswers(yes)
      PROVE  FilesStep /\ TransferStep /\ TaskStep /\ allowed \subseteq allowed'
  BY <1>7, UserAnswersDoes, <1>0
<1>8. CASE ConsentResolved
  BY <1>8, ConsentResolvedDoes, <1>0
<1>9. CASE OpenSink
  BY <1>9, OpenSinkDoes, <1>0
<1>10. CASE ArmTransfer
  BY <1>10, ArmTransferDoes, <1>0
<1>11. CASE SendReply
  BY <1>11, SendReplyDoes, <1>0
<1>12. CASE ReadChunk
  BY <1>12, ReadChunkDoes, <1>0
<1>13. CASE WriteChunk
  BY <1>13, WriteChunkDoes, <1>0
<1>14. CASE DiscardFile
  BY <1>14, DiscardFileDoes, <1>0
<1>15. CASE ReadComplete
  BY <1>15, ReadCompleteDoes, <1>0
<1>16. CASE TakeTransfer
  BY <1>16, TakeTransferDoes, <1>0
<1>17. CASE FinishFile
  BY <1>17, FinishFileDoes, <1>0
<1>18. CASE FinalAbort
  BY <1>18, FinalAbortDoes, <1>0
<1>19. CASE TransportLost
  BY <1>19, TransportLostDoes, <1>0
<1>20. CASE LoopEnds
  BY <1>20, LoopEndsDoes, <1>0
<1>21. CASE StopCalled \/ StopJoins
  BY <1>21, StoppingDoes, <1>0
<1>22. CASE TaskAborted
  BY <1>22, TaskAbortedDoes, <1>0
<1>23. CASE StopAbortsTransfer
  BY <1>23, StopAbortsTransferDoes, <1>0
<1>99. CASE UNCHANGED transferVars
  BY <1>99, <1>0 DEF transferVars, senderVars, hostVars, fileVars
<1> QED
  BY <1>1, <1>2, <1>3, <1>4, <1>5, <1>6, <1>7, <1>8, <1>9, <1>10, <1>11, <1>12, <1>13,
     <1>14, <1>15, <1>16, <1>17, <1>18, <1>19, <1>20, <1>21, <1>22, <1>23, <1>99
  DEF FileNext, HostSteps

(* Every step keeps what is stored in order, and the file that is finished  *)
(* whole.                                                                   *)
LEMMA FileStoredNext ==
  ASSUME FileTyped, SinkInv, Named, StreamInv, StoredInv, [FileNext]_transferVars,
         FileTyped', SinkInv'
  PROVE  StoredInv'
<1>0. /\ None \notin Offers /\ writer \in Offers \cup {None}
      /\ transfer # NoTransfer => transfer.offer \in Offers /\ writer = transfer.offer
      /\ transfer' # NoTransfer => transfer'.offer \in Offers
      /\ ctl.pc \in {"open", "arm"} => ctl.offer \in Offers
      /\ ctl.pc \in {"arm", "finish"} => transfer = NoTransfer
      /\ \A o \in Offers : /\ dest[o].kind = "partial" <=> writer = o
                           /\ dest[o].data \in Seq(Chunks)
  BY CtlIs, TransferFacts, StoredFacts DEF SinkInv, FileTyped, TaskTyped, SinkTyped, Offers, None
<1>00. writer # None => /\ writer \in Offers /\ dest[writer].kind = "partial"
                        /\ dest[writer].kind # "absent" /\ dest[writer].data \in Seq(Chunks)
  BY <1>0
<1>1. /\ \A x \in Chunks : Fits(x, sender, size) => Fits(x, sender', size')
      /\ ctl.pc = "write" => Ahead(ctl.chunk, toHost', sender')
      /\ \A o \in Offers : dest[o].kind # "absent" =>
           Ordered(dest[o].data, sender', size') /\ size'[o] = size[o]
      /\ transfer # NoTransfer => Passed(dest[transfer.offer].data, toHost', sender')
  BY FlowNext DEF FlowKept
<1>2. FilesStep /\ TransferStep /\ TaskStep /\ allowed \subseteq allowed'
  BY StepHolds
<1>3. /\ \A o \in Offers : dest[o].kind # "absent" => Ordered(dest[o].data, sender, size)
      /\ transfer # NoTransfer =>
           /\ Len(dest[transfer.offer].data) = transfer.received
           /\ Passed(dest[transfer.offer].data, toHost, sender)
           /\ ctl.pc = "write" => Precedes(dest[transfer.offer].data, ctl.chunk)
      /\ ctl.pc = "arm" => dest[ctl.offer].data = <<>>
      /\ ctl.pc = "finish" => writer # None /\ Len(dest[writer].data) = size[writer]
      /\ \A o \in Offers : dest[o].kind = "kept" => o \in allowed /\ Len(dest[o].data) = size[o]
  BY DEF StoredInv, Arriving
(* A chunk that is written comes after what was stored.                     *)
<1>4. ASSUME ctl.pc = "write", transfer # NoTransfer
      PROVE  LET d == Append(dest[writer].data, ctl.chunk) IN
             /\ Ordered(d, sender', size') /\ Passed(d, toHost', sender')
             /\ Len(d) = Len(dest[writer].data) + 1
  <2>0. writer \in Offers /\ dest[writer].kind # "absent" /\ ctl.chunk \in Chunks
    BY <1>0, <1>00, <1>4, CtlIs DEF FileTyped, TaskTyped
  <2>1. /\ dest[writer].data \in Seq(Chunks) /\ ctl.chunk \in Chunks
        /\ Fits(ctl.chunk, sender', size') /\ Ahead(ctl.chunk, toHost', sender')
    BY <1>00, <1>0, <1>1, <1>4, <2>0 DEF StreamInv
  <2>2. /\ Ordered(dest[writer].data, sender', size')
        /\ Passed(dest[writer].data, toHost', sender')
        /\ Precedes(dest[writer].data, ctl.chunk)
    BY <1>0, <1>1, <1>3, <1>4, <2>0
  <2> QED BY <2>1, <2>2, WriteOrdered, AppendFacts
<1>5. ASSUME NEW o \in Offers, dest'[o].kind # "absent"
      PROVE  Ordered(dest'[o].data, sender', size')
  <2>1. CASE dest'[o] = dest[o]
    BY <1>1, <1>5, <2>1
  <2>2. CASE dest'[o].data = <<>>
    BY <2>2, EmptyFacts
  <2>3. CASE /\ o = writer /\ ctl.pc = "write" /\ transfer # NoTransfer
             /\ dest'[o].data = Append(dest[o].data, ctl.chunk)
    BY <1>4, <2>3
  <2>4. CASE o = writer /\ dest'[o].data = dest[o].data
    <3>1. dest[o].kind # "absent"
      BY <1>0, <1>00, <2>4
    <3> QED BY <1>1, <2>4, <3>1
  <2> QED BY <1>2, <1>5, <2>1, <2>2, <2>3, <2>4 DEF FilesStep
<1>6. ASSUME transfer' # NoTransfer
      PROVE  /\ Len(dest'[transfer'.offer].data) = transfer'.received
             /\ Passed(dest'[transfer'.offer].data, toHost', sender')
             /\ ctl'.pc = "write" => Precedes(dest'[transfer'.offer].data, ctl'.chunk)
  <2>1. CASE transfer' = transfer /\ dest'[transfer.offer] = dest[transfer.offer]
    <3>2. ctl'.pc = "write" => Precedes(dest[transfer.offer].data, ctl'.chunk)
      <4>1. CASE ctl' = ctl
        BY <1>3, <1>6, <2>1, <4>1
      <4>2. CASE 1 \in 1 .. Len(toHost) /\ toHost[1].kind = "chunk" /\ ctl'.chunk = toHost[1]
        <5>1. transfer # NoTransfer /\ dest[transfer.offer].data \in Seq(Chunks)
          BY <1>0, <1>6, <2>1
        <5>2. Precedes(dest[transfer.offer].data, toHost[1])
          BY <1>3, <4>2, <5>1, PassedPrecedes
        <5> QED BY <4>2, <5>2
      <4> QED BY <1>2, <1>6, <4>1, <4>2 DEF TaskStep
    <3> QED BY <1>1, <1>3, <1>6, <2>1, <3>2
  <2>2. CASE /\ ctl.pc = "arm" /\ transfer'.offer = ctl.offer /\ transfer'.received = 0
             /\ dest' = dest
    <3>1. ctl'.pc # "write" /\ dest'[transfer'.offer].data = <<>>
      BY <1>0, <1>2, <1>3, <1>6, <2>2 DEF TaskStep
    <3> QED BY <2>2, <3>1, EmptyFacts
  <2>3. CASE /\ ctl.pc = "write" /\ transfer # NoTransfer /\ transfer'.offer = transfer.offer
             /\ transfer'.received = transfer.received + 1
             /\ dest'[transfer.offer].data = Append(dest[transfer.offer].data, ctl.chunk)
    <3>2. ctl'.pc # "write"
      <4>1. transfer.received \in Nat
        BY <2>3, TransferFacts DEF FileTyped, SinkTyped
      <4> QED BY <1>2, <1>6, <2>3, <4>1 DEF TaskStep
    <3> QED BY <1>0, <1>3, <1>4, <2>3, <3>2
  <2> QED BY <1>2, <1>6, <2>1, <2>2, <2>3 DEF TransferStep
<1>7. ctl'.pc = "arm" => dest'[ctl'.offer].data = <<>>
  BY <1>2, <1>3 DEF TaskStep
<1>8. ctl'.pc = "finish" => writer' # None /\ Len(dest'[writer'].data) = size'[writer']
  <2>1. CASE ctl' = ctl /\ ctl.pc = "finish" /\ writer' = writer /\ dest' = dest
    <3>1. writer \in Offers /\ dest[writer].kind # "absent"
      BY <1>00, <1>3, <2>1
    <3> QED BY <1>1, <1>3, <2>1, <3>1
  <2>2. CASE /\ writer' = writer /\ dest' = dest
             /\ transfer # NoTransfer /\ transfer.received = size'[transfer.offer]
    BY <1>0, <1>3, <2>2
  <2> QED BY <1>2, <2>1, <2>2 DEF TaskStep
<1>9. ASSUME NEW o \in Offers, dest'[o].kind = "kept"
      PROVE  o \in allowed' /\ Len(dest'[o].data) = size'[o]
  <2>1. CASE dest'[o] = dest[o]
    BY <1>1, <1>3, <1>9, <2>1, <1>2
  <2>2. CASE o = writer /\ ctl.pc = "finish" /\ dest'[o].data = dest[o].data
    <3>1. dest[o].kind # "absent" /\ o \in allowed
      BY <1>0, <1>00, <2>2 DEF Named
    <3> QED BY <1>1, <1>3, <1>9, <2>2, <3>1, <1>2
  <2>3. ~(o = writer /\ dest'[o].kind = dest[o].kind)
    BY <1>0, <1>00, <1>9
  <2> QED BY <1>2, <1>9, <2>1, <2>2, <2>3 DEF FilesStep
<1> QED BY <1>5, <1>6, <1>7, <1>8, <1>9 DEF StoredInv, Arriving

-----------------------------------------------------------------------------
(* Nothing was offered and nothing is under way.                            *)
LEMMA FileInitHolds ==
  ASSUME FileInit PROVE FileInv
<1>1. /\ size = [o \in Offers |-> 0]
      /\ sender = [offer |-> None, phase |-> "idle", next |-> 1]
      /\ toHost = <<>> /\ toSender = <<>>
      /\ stop = FALSE /\ ctl = At("loop") /\ stopper = "none"
      /\ prompt = NoAsk /\ allowed = {}
      /\ transfer = NoTransfer /\ writer = None /\ dest = [o \in Offers |-> Absent]
  BY DEF FileInit, NoAsk
<1>2. /\ sender.offer = None /\ sender.phase = "idle" /\ sender \in Senders
      /\ ctl \in Ctls /\ ctl.pc = "loop" /\ prompt \in Asks /\ prompt.state = "none"
  BY <1>1, CtlFacts, FileAskFacts, TransferAssumption DEF Senders, None, Pcs
<1>3. /\ dest \in [Offers -> StoredAs] /\ \A o \in Offers : dest[o].kind = "absent"
      /\ None \notin Offers
  BY <1>1, StoredFacts DEF Offers, None
<1>4. size \in [Offers -> 0 .. MaxSize]
  BY <1>1, TransferAssumption
<1>5. /\ toHost \in Seq(Messages) /\ Len(toHost) = 0
      /\ toSender \in Seq({"accept", "reject"}) /\ Len(toSender) = 0
  BY <1>1
<1>6. FileTyped
  BY <1>1, <1>2, <1>3, <1>4, <1>5 DEF FileTyped, SenderTyped, TaskTyped, SinkTyped
<1>7. SinkInv
  BY <1>1, <1>2, <1>3 DEF SinkInv
<1>8. Named
  BY <1>1, <1>2, <1>3, <1>5 DEF Named, None
<1>11. StreamInv
  BY <1>2, <1>5 DEF StreamInv, InOrder
<1>12. StoredInv
  BY <1>1, <1>2, <1>3 DEF StoredInv
<1> QED BY <1>6, <1>7, <1>8, <1>11, <1>12 DEF FileInv

(* Every reachable state has the types, knows where the sink's open file    *)
(* is, and keeps chunks in order from the sender to the disk.               *)
THEOREM FileInvariance == FileSpec => []FileInv
<1>1. FileInit => FileInv
  BY FileInitHolds
<1>2. FileInv /\ [FileNext]_transferVars => FileInv'
  <2> SUFFICES ASSUME FileInv, [FileNext]_transferVars PROVE FileInv'
    OBVIOUS
  <2>1. /\ FileTyped /\ SinkInv /\ Named /\ StreamInv /\ StoredInv
        /\ stopper # "none" => stop
    BY DEF FileInv, SinkInv
  <2>2. FileTyped' /\ SinkInv'
    BY <2>1, TypedNext, SinkNext
  <2>3. Named' /\ StreamInv'
    BY <2>1, NamedNext, StreamNext
  <2>4. StoredInv'
    BY <2>1, <2>2, FileStoredNext
  <2> QED BY <2>2, <2>3, <2>4 DEF FileInv
<1> QED BY <1>1, <1>2, PTL DEF FileSpec

(* A file that is kept was allowed by the local user and has the offered    *)
(* size; its chunks are in the order in which the sender read them, and if  *)
(* all are of the file offered, it is whole: for any number of offers, size *)
(* of file and depth of the queues.                                         *)
THEOREM KeptFilesAreWhole == FileSpec => []KeptIsWhole
<1>1. FileInv => KeptIsWhole
  <2> SUFFICES ASSUME FileInv, NEW o \in Offers, dest[o].kind = "kept"
               PROVE  LET data == dest[o].data IN
                      /\ o \in allowed /\ Len(data) = size[o]
                      /\ \A i, j \in DOMAIN data : i < j =>
                           \/ data[i].offer < data[j].offer
                           \/ data[i].offer = data[j].offer /\ data[i].place < data[j].place
                      /\ (\A k \in DOMAIN data : data[k].offer = o) =>
                           \A k \in DOMAIN data : data[k].place = k
    BY DEF KeptIsWhole
  <2> DEFINE d == dest[o].data
  <2>1. /\ size \in [Offers -> 0 .. MaxSize] /\ dest[o].data \in Seq(Chunks)
        /\ Ordered(dest[o].data, sender, size) /\ o \in allowed /\ Len(dest[o].data) = size[o]
    BY StoredFacts DEF FileInv, FileTyped, SenderTyped, SinkTyped, StoredInv
  <2>2. /\ \A i, j \in DOMAIN d : i < j =>
             \/ d[i].offer < d[j].offer
             \/ d[i].offer = d[j].offer /\ d[i].place < d[j].place
        /\ (\A k \in DOMAIN d : d[k].offer = o) => \A k \in DOMAIN d : d[k].place = k
    <3> HIDE DEF d
    <3>1. d \in Seq(Chunks) /\ Ordered(d, sender, size) /\ Len(d) = size[o]
      BY <2>1 DEF d
    <3> QED BY <2>1, <3>1, WholeFacts
  <2> QED BY <2>1, <2>2
<1> QED BY <1>1, FileInvariance, PTL

(* An unfinished file is the one the sink has open, and a control task that *)
(* came to its own end leaves none.                                         *)
THEOREM NothingIsLeftBehind == FileSpec => []NothingLeftBehind
<1>1. FileInv => NothingLeftBehind
  <2> SUFFICES ASSUME FileInv PROVE NothingLeftBehind
    OBVIOUS
  <2>1. \A o \in Offers : dest[o].kind = "partial" <=> writer = o
    BY DEF FileInv, SinkInv
  <2>2. ctl.pc = "gone" => writer = None
    BY DEF FileInv, SinkInv
  <2>3. None \notin Offers
    BY DEF None, Offers
  <2> QED BY <2>1, <2>2, <2>3 DEF NothingLeftBehind, NoOrphan, CleanEnd
<1> QED BY <1>1, FileInvariance, PTL
==============================================================================
