---------------------------- MODULE ContactBook ----------------------------
(***************************************************************************)
(* The contacts a machine keeps, the snapshot file behind them             *)
(* (ras-identity), and the presence tasks the app runs for them (main.rs). *)
(* The commands of the app run one at a time and to their end; what a task *)
(* does after an await comes in between them in any order.                 *)
(***************************************************************************)
EXTENDS Naturals

CONSTANTS Peers,
          Tasks,       \* Presence tasks alive at the same time.
          MaxBadWrites  \* Writes of the snapshot that fail.

ASSUME ContactAssumption ==
  MaxBadWrites \in Nat /\ {"none", "reserved"} \cap Tasks = {} /\ "nobody" \notin Peers

Standing == {"absent", "active", "blocked"}
Untaken == "none"       \* presence_handles has no entry: a new task may start.
Reserved == "reserved"  \* It has the placeholder of a task that subscribes.

VARIABLES book,      \* FileContactBook::inner.
          disk,      \* The file a restart loads.
          entry,     \* presence_handles: the task whose handle it holds.
          task,      \* The spawned tasks: whose, how far, and whether aborted.
          seen,      \* PresenceTracker: a beacon is fresh.
          shown,     \* The last state presence_poll_loop told the page.
          revoked,   \* Removed or blocked with success, and not taken back since.
          badWrites

contactVars == <<book, disk, entry, task, seen, shown, revoked, badWrites>>

Gone == [of |-> "nobody", at |-> "gone", aborted |-> FALSE]
TaskAt == {"subscribing", "listening", "verified"}

Each(v) == [p \in Peers |-> v]

ContactInit ==
  /\ book = Each("absent") /\ disk = Each("absent")
  /\ entry = Each(Untaken) /\ task = [t \in Tasks |-> Gone]
  /\ seen = Each(FALSE) /\ shown = Each(FALSE) /\ revoked = Each(FALSE)
  /\ badWrites = 0

(* FileContactBook::mutate: the whole book is written under the lock, and  *)
(* a write that fails leaves the file as it was. A command that revokes    *)
(* writes twice: written says whether any of them reached the file, saved  *)
(* whether the last did, which is the one that is reported.                *)
Writes(written, saved, after) ==
  /\ saved => written
  /\ badWrites' = badWrites + IF saved THEN 0 ELSE 1
  /\ badWrites' <= MaxBadWrites
  /\ disk' = IF written THEN after ELSE disk

(* The handle an entry holds is dropped, which aborts its task.            *)
Aborts(tasks, p) ==
  [t \in Tasks |-> IF entry[p] = t /\ task[t] # Gone 
    THEN [tasks[t] EXCEPT !.aborted = TRUE] ELSE tasks[t]]

SpawnPresenceFor(p) ==
  IF entry[p] # Untaken
  THEN UNCHANGED <<entry, task>>
  ELSE /\ entry' = [entry EXCEPT ![p] = Reserved]
       /\ \E t \in Tasks : task[t] = Gone /\ (\A q \in Peers : entry[q] # t)
            /\ task' = [task EXCEPT ![t] = [of |-> p, at |-> "subscribing", aborted |-> FALSE]]

StopPresenceFor(p) ==
  /\ entry' = [entry EXCEPT ![p] = Untaken]
  /\ task' = Aborts(task, p)
  /\ seen' = [seen EXCEPT ![p] = FALSE]

(* add_contact: an upsert keeps a block.                                   *)
AddContact(p, wrote) ==
  /\ book' = [book EXCEPT ![p] = IF @ = "absent" THEN "active" ELSE @]
  /\ Writes(wrote, wrote, book')
  /\ SpawnPresenceFor(p)
  /\ revoked' = [revoked EXCEPT ![p] = FALSE]
  /\ UNCHANGED <<seen, shown>>

(* remove_contact: when the save fails the command ends before the         *)
(* presence is stopped.                                                    *)
RemoveContact(p, written, saved) ==
  /\ book' = [book EXCEPT ![p] = "absent"]
  /\ Writes(written, saved, book')
  /\ IF saved THEN StopPresenceFor(p) ELSE UNCHANGED <<entry, task, seen>>
  /\ revoked' = [revoked EXCEPT ![p] = saved]
  /\ UNCHANGED shown

(* set_contact_blocked, both ways.                                         *)
Block(p, written, saved) ==
  /\ book' = [book EXCEPT ![p] = IF @ = "absent" THEN @ ELSE "blocked"]
  /\ StopPresenceFor(p)
  /\ Writes(written, saved, book')
  /\ revoked' = [revoked EXCEPT ![p] = saved]
  /\ UNCHANGED shown

Unblock(p, written, saved) ==
  /\ book' = [book EXCEPT ![p] = IF @ = "absent" THEN @ ELSE "active"]
  /\ SpawnPresenceFor(p)
  /\ Writes(written, saved, book')
  /\ revoked' = [revoked EXCEPT ![p] = FALSE]
  /\ UNCHANGED <<seen, shown>>


(* The subscription of a task is answered. It fills a reservation that is  *)
(* still there, its own or a later one's (an older handle is dropped); with *)
(* none there, the new handle is dropped on the spot.                      *)
Subscribed(t) ==
  LET p == task[t].of
      listening == [task EXCEPT ![t].at = "listening"]
  IN
  /\ task[t].at = "subscribing"
  /\ IF entry[p] = Untaken
     THEN task' = [listening EXCEPT ![t].aborted = TRUE] /\ UNCHANGED entry
     ELSE task' = Aborts(listening, p) /\ entry' = [entry EXCEPT ![p] = t]
  /\ UNCHANGED <<book, disk, seen, shown, revoked, badWrites>>

(* It fails: the entry of the contact goes, whosever it is by now.         *)
SubscribeFails(t) ==
  LET p == task[t].of
  IN
  /\ task[t].at = "subscribing"
  /\ task' = [Aborts(task, p) EXCEPT ![t] = Gone]
  /\ entry' = [entry EXCEPT ![p] = Untaken]
  /\ UNCHANGED <<book, disk, seen, shown, revoked, badWrites>>

(* A beacon arrives and is verified against the book ...                   *)
BeaconVerified(t) ==
  /\ task[t].at = "listening" /\ ~task[t].aborted
  /\ book[task[t].of] = "active"
  /\ task' = [task EXCEPT ![t].at = "verified"]
  /\ UNCHANGED <<book, disk, entry, seen, shown, revoked, badWrites>>

(* ... and then recorded; there is no await in between for an abort to     *)
(* take effect at.                                                         *)
BeaconObserved(t) ==
  /\ task[t].at = "verified"
  /\ task' = [task EXCEPT ![t].at = "listening"]
  /\ seen' = [seen EXCEPT ![task[t].of] = TRUE]
  /\ UNCHANGED <<book, disk, entry, shown, revoked, badWrites>>

(* An aborted task ends at its next await; a task whose topic closes ends  *)
(* too and leaves its entry behind.                                        *)
TaskEnds(t) ==
  /\ task[t].at = "listening"
  /\ task' = [task EXCEPT ![t] = Gone]
  /\ UNCHANGED <<book, disk, entry, seen, shown, revoked, badWrites>>

(* No beacon came for the freshness window.                                *)
GoesStale(p) ==
  /\ seen[p] /\ seen' = [seen EXCEPT ![p] = FALSE]
  /\ UNCHANGED <<book, disk, entry, task, shown, revoked, badWrites>>

PollPresence ==
  /\ shown # seen /\ shown' = seen
  /\ UNCHANGED <<book, disk, entry, task, seen, revoked, badWrites>>

(* The app ends, at any point, and starts again from the file: presence    *)
(* for every contact that is not blocked.                                  *)
Restart ==
  /\ book' = disk
  /\ entry' = [p \in Peers |-> IF disk[p] = "active" THEN Reserved ELSE Untaken]
  /\ \E own \in [Peers -> Tasks] :
       /\ \A p, q \in Peers : p # q => own[p] # own[q]
       /\ task' = [t \in Tasks |->
            IF \E p \in Peers : own[p] = t /\ disk[p] = "active"
            THEN [of |-> CHOOSE p \in Peers : own[p] = t, at |-> "subscribing", aborted |-> FALSE]
            ELSE Gone]
  /\ seen' = Each(FALSE) /\ shown' = Each(FALSE)
  /\ UNCHANGED <<disk, revoked, badWrites>>

ContactNext ==
  \/ \E p \in Peers, written, saved \in BOOLEAN :
       \/ RemoveContact(p, written, saved)
       \/ Block(p, written, saved)
       \/ Unblock(p, written, saved)
  \/ \E p \in Peers, wrote \in BOOLEAN : AddContact(p, wrote)
  \/ \E t \in Tasks : Subscribed(t) \/ SubscribeFails(t) \/ BeaconVerified(t) \/ BeaconObserved(t)
                      \/ TaskEnds(t)
  \/ \E p \in Peers : GoesStale(p)
  \/ PollPresence
  \/ Restart

ContactSpec == ContactInit /\ [][ContactNext]_contactVars

(* Every entry with a handle names a task of its contact or one that ended. *)
ContactTypeOK ==
  /\ book \in [Peers -> Standing] /\ disk \in [Peers -> Standing]
  /\ \A t \in Tasks : task[t] = Gone \/ (task[t].of \in Peers /\ task[t].at \in TaskAt)
  /\ \A p \in Peers : entry[p] \in Tasks => task[entry[p]] = Gone \/ task[entry[p]].of \in Peers
  /\ badWrites \in 0 .. MaxBadWrites

(* A removal or a block that was reported as done holds: the contact is    *)
(* active neither in memory nor in the file a restart reads, no entry      *)
(* stands for it, and every task of it is aborted or will be when its      *)
(* subscription is answered (main.rs:709-715, 729-743).                    *)
RevokeHolds ==
  \A p \in Peers : revoked[p] =>
    /\ book[p] # "active" /\ disk[p] # "active" /\ entry[p] = Untaken
    /\ \A t \in Tasks : task[t].of = p => task[t].aborted \/ task[t].at = "subscribing"

(* No running task without the entry that can stop it.                     *)
EveryTaskCanBeStopped ==
  \A t \in Tasks : task[t].at \in {"listening", "verified"} =>
    task[t].aborted \/ entry[task[t].of] = t

(* Its dot goes dark (main.rs:712). A beacon that was verified before the  *)
(* removal is recorded after it.                                           *)
RevokedIsDark == \A p \in Peers : revoked[p] => ~seen[p]

(* Blocked means no beacons (main.rs:730). Adding a blocked contact again  *)
(* starts its presence.                                                    *)
BlockedIsQuiet ==
  \A p \in Peers : book[p] = "blocked" => \A t \in Tasks : task[t].of = p => task[t].aborted
                                                            \/ task[t].at = "subscribing"

(* An entry stands for a task that runs or is about to: presence can start *)
(* again once it ended. A topic that closes leaves the entry.              *)
EntryIsAlive == \A p \in Peers : entry[p] \in Tasks => task[entry[p]].of = p
=============================================================================
