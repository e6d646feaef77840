------------------------------ MODULE StoredFiles ------------------------------
(***************************************************************************)
(* The two files a machine is known by: its identity key, made by the first *)
(* call of identity_seed and read by every later one (each command that     *)
(* needs the key calls it anew), and the snapshot of its contacts, which    *)
(* every change of the book rewrites whole (ras-identity, FileContactBook). *)
(* An instance of the app, and a call with it, can end at any point, and    *)
(* nothing keeps a second instance from being started beside the first.     *)
(*                                                                          *)
(* A snapshot is a sequence of records, one per contact in the order of     *)
(* their ids, and a mark if a write was cut in the middle of it.            *)
(***************************************************************************)
EXTENDS Integers, Sequences, SequencesExt

CONSTANTS
  Callers,       \* calls of identity_seed under way at a time, in any instance
  Exclusive,     \* create_new is used: on unix
  MaxCalls,      \* bound: calls
  Apps,          \* instances of the app that may run side by side
  Writers,       \* those whose user changes the contacts
  ContactIds     \* contact ids: 1 .. n

ASSUME StoredAssumption ==
  /\ Writers \subseteq Apps /\ ContactIds \subseteq Nat
  /\ Exclusive \in BOOLEAN /\ MaxCalls \in Nat \ {0}

VARIABLES
  key,        \* identity.key: the call that made it, NoKey or Part of one
  call,       \* each call under way, and the key it would write
  calls,
  used,       \* history: the identities that calls have returned
  snapshot,   \* contacts.rcb, NoFile if there is none
  tmp,        \* contacts.tmp
  app,        \* each instance and the book it holds in memory
  kept        \* history: the contacts of the last snapshot put in place

keyVars == <<key, call, calls, used>>
snapshotVars == <<snapshot, tmp, app, kept>>
storedVars == <<keyVars, snapshotVars>>

NoKey == 0
Part == -1
Keys == 1 .. MaxCalls

NoFile == [records |-> <<>>, cut |-> TRUE, there |-> FALSE]
CutFile == [NoFile EXCEPT !.there = TRUE]
NoContacts == [c \in ContactIds |-> "absent"]
Books == [ContactIds -> {"absent", "active", "blocked"}]

(* encode_book: the contacts of b in the order of their ids.                *)
Saved(b) ==
  LET ids == SetToSortSeq({c \in ContactIds : b[c] # "absent"}, <)
  IN [records |-> [i \in DOMAIN ids |-> [id |-> ids[i], is |-> b[ids[i]]]],
      cut |-> FALSE, there |-> TRUE]

(* decode_book: a file that is cut is an error, a missing one an empty book.*)
Readable(f) == f.there => ~f.cut
Loaded(f) ==
  [c \in ContactIds |->
     IF \E r \in ToSet(f.records) : r.id = c
     THEN (CHOOSE r \in ToSet(f.records) : r.id = c).is ELSE "absent"]

Idle == [pc |-> "idle", own |-> 0]
Off == [pc |-> "off", book |-> NoContacts]

StoredInit ==
  /\ key = NoKey /\ call = [k \in Callers |-> Idle] /\ calls = 0 /\ used = {}
  /\ snapshot = NoFile /\ tmp = NoFile
  /\ app = [a \in Apps |-> Off] /\ kept = NoContacts
-------------------------------------------------------------------------------
(* identity_seed *)

CallAt(k, pc) == call[k].pc = pc
Moves(k, pc) == call' = [call EXCEPT ![k].pc = pc]


(* load_or_create: a whole key is loaded, a missing one made, and any other *)
(* file is an error that ends the call without an identity.                 *)
Loads(k) ==
  /\ CallAt(k, "idle") /\ calls < MaxCalls /\ calls' = calls + 1
  /\ IF key = Part THEN UNCHANGED call
     ELSE call' = [call EXCEPT ![k] = [pc |-> IF key = NoKey THEN "creating" ELSE "readback",
                                       own |-> calls + 1]]
  /\ UNCHANGED <<key, used, snapshotVars>>

(* write_secret: the file is made, if it may be ...                         *)
Creates(k) ==
  /\ CallAt(k, "creating")
  /\ IF Exclusive /\ key # NoKey
     THEN call' = [call EXCEPT ![k] = Idle] /\ UNCHANGED key
     ELSE Moves(k, "filling") /\ key' = Part
  /\ UNCHANGED <<calls, used, snapshotVars>>

(* ... and then filled.                                                     *)
Fills(k) ==
  /\ CallAt(k, "filling") /\ Moves(k, "readback")
  /\ key' = call[k].own
  /\ UNCHANGED <<calls, used, snapshotVars>>

(* identity_seed drops what it loaded or made and reads the file itself.    *)
ReadsBack(k) ==
  /\ CallAt(k, "readback") /\ call' = [call EXCEPT ![k] = Idle]
  /\ used' = IF key \in Keys THEN used \cup {key} ELSE used
  /\ UNCHANGED <<key, calls, snapshotVars>>

(* A step of the call fails, or its instance ends: no identity.             *)
GivesUp(k) ==
  /\ ~CallAt(k, "idle") /\ call' = [call EXCEPT ![k] = Idle]
  /\ UNCHANGED <<key, calls, used, snapshotVars>>
-------------------------------------------------------------------------------
(* FileContactBook *)

AppAt(a, pc) == app[a].pc = pc
Becomes(a, r) == app' = [app EXCEPT ![a] = r]

(* open: a file it cannot read leaves the app without contacts for the run. *)
Opens(a) ==
  /\ AppAt(a, "off")
  /\ Becomes(a, IF Readable(snapshot) THEN [pc |-> "up", book |-> Loaded(snapshot)]
                ELSE [Off EXCEPT !.pc = "closed"])
  /\ UNCHANGED <<snapshot, tmp, kept, keyVars>>

(* upsert, block, unblock and remove, by what they make of a contact; save  *)
(* changes nothing.                                                         *)
Changed(is, op) ==
  CASE op = "upsert" -> IF is = "absent" THEN "active" ELSE is
    [] op = "block" -> IF is = "absent" THEN is ELSE "blocked"
    [] op = "unblock" -> IF is = "absent" THEN is ELSE "active"
    [] op = "remove" -> "absent"
    [] OTHER -> is
Ops == {"upsert", "block", "unblock", "remove", "save"}

(* mutate, save: the lock on the book is held until persist returns.        *)
Mutates(a, c, op) ==
  /\ AppAt(a, "up") /\ a \in Writers
  /\ Becomes(a, [app[a] EXCEPT !.pc = "saving", !.book[c] = Changed(@, op)])
  /\ UNCHANGED <<snapshot, tmp, kept, keyVars>>


(* persist: fs::write makes or cuts the temporary file ...                  *)
CutsTmp(a) ==
  /\ AppAt(a, "saving") /\ Becomes(a, [app[a] EXCEPT !.pc = "writing"])
  /\ tmp' = CutFile
  /\ UNCHANGED <<snapshot, kept, keyVars>>

(* ... and fills it.                                                        *)
WritesTmp(a) ==
  /\ AppAt(a, "writing") /\ Becomes(a, [app[a] EXCEPT !.pc = "renaming"])
  /\ tmp' = Saved(app[a].book)
  /\ UNCHANGED <<snapshot, kept, keyVars>>

Renames(a) ==
  /\ AppAt(a, "renaming") /\ tmp.there
  /\ Becomes(a, [app[a] EXCEPT !.pc = "up"])
  /\ snapshot' = tmp /\ tmp' = NoFile /\ kept' = app[a].book
  /\ UNCHANGED keyVars

(* A step of persist fails: the book in memory stays changed.               *)
WriteFails(a) ==
  /\ app[a].pc \in {"saving", "writing", "renaming"}
  /\ Becomes(a, [app[a] EXCEPT !.pc = "up"])
  /\ UNCHANGED <<snapshot, tmp, kept, keyVars>>

Quits(a) ==
  /\ ~AppAt(a, "off") /\ Becomes(a, Off)
  /\ UNCHANGED <<snapshot, tmp, kept, keyVars>>
-------------------------------------------------------------------------------
KeyNext ==
  \E k \in Callers : Loads(k) \/ Creates(k) \/ Fills(k) \/ ReadsBack(k) \/ GivesUp(k)
BookNext ==
  \/ \E a \in Apps : Opens(a) \/ CutsTmp(a) \/ WritesTmp(a) \/ Renames(a) \/ WriteFails(a)
                     \/ Quits(a)
  \/ \E a \in Apps, c \in ContactIds, op \in Ops : Mutates(a, c, op)

StoredNext == KeyNext \/ BookNext

StoredSpec == StoredInit /\ [][StoredNext]_storedVars

StoredTypeOK ==
  /\ key \in {NoKey, Part} \cup Keys /\ calls \in 0 .. MaxCalls /\ used \subseteq Keys
  /\ call \in [Callers -> [pc : {"idle", "creating", "filling", "readback"}, own : 0 .. MaxCalls]]
  /\ app \in [Apps -> [pc : {"off", "closed", "up", "saving", "writing", "renaming"}, book : Books]]
  /\ kept \in Books
-------------------------------------------------------------------------------
(* "A stable seed, a stable EndpointId": every identity a call has returned *)
(* is the one that is stored, whichever instance made it.                   *)
IdentityIsStored == used \subseteq {key}

(* "A crash mid-write leaves the previous good snapshot intact, never a     *)
(* torn file": what a start reads is the last book that was put in place.   *)
SnapshotIsWhole == Readable(snapshot) /\ Loaded(snapshot) = kept
-------------------------------------------------------------------------------
(* What does not hold.                                                      *)

(* A call that is cut while it makes the key leaves a file that no later    *)
(* call can use or replace: the machine has no lasting identity any more.   *)
KeyIsFinished == key = Part => \E k \in Callers : CallAt(k, "filling")

(* The file holds what an instance holds in memory (a failed write is made  *)
(* up for by the next change only, and of two instances the last to write   *)
(* takes back what the other saved).                                        *)
MemoryIsKept == \A a \in Apps : AppAt(a, "up") => app[a].book = kept
===============================================================================
