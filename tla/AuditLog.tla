------------------------------ MODULE AuditLog ------------------------------
(***************************************************************************)
(* The audit journal of a session (ras-audit): the hash chain in memory,   *)
(* the append-only file behind it and the signed checkpoint over its head. *)
(* A hash is the list of what was hashed, so that equal hashes mean equal  *)
(* contents; a signature is the host's. The file is a sequence of records, *)
(* the last bytes of which a failed or interrupted write may have left out. *)
(***************************************************************************)
EXTENDS Naturals, Sequences, SequencesExt

CONSTANTS Events, MaxEntries,
          MaxTorn,    \* Appends that stop halfway.
          MaxDamage   \* Records altered, swapped or lost at rest.

ASSUME AuditAssumption == MaxEntries \in Nat /\ MaxTorn \in Nat /\ MaxDamage \in Nat

VARIABLES journal,   \* AuditJournal::entries.
          file,      \* The records of the file, whole or torn.
          written,   \* How many appends returned Ok.
          signed,    \* The entry count and head of the last checkpoint.
          torn,
          damaged

auditVars == <<journal, file, written, signed, torn, damaged>>

Genesis == <<>>  \* genesis_hash, of the one session.

(* hash_entry: over the number, the hash before and the event.             *)
HashEntry(seq, prev, event) == Append(prev, [seq |-> seq, event |-> event])

HeadHash(entries) == IF entries = <<>> THEN Genesis ELSE entries[Len(entries)].hash

Entry(event) ==
  LET seq == Len(journal)
      prev == HeadHash(journal)
  IN [seq |-> seq, prev |-> prev, event |-> event, hash |-> HashEntry(seq, prev, event)]

Whole(e) == [entry |-> e, whole |-> TRUE]
Torn(e) == [entry |-> e, whole |-> FALSE]

VerifyChain_TrustsHashes(entries) ==
  \A i \in 1 .. Len(entries) :
    entries[i].seq = i - 1 /\ entries[i].prev = HeadHash(SubSeq(entries, 1, i - 1))

(* verify_chain: each entry has its number, the head so far as the hash    *)
(* before it, and the hash of what it holds.                               *)
VerifyChain(entries) ==
  \A i \in 1 .. Len(entries) :
    LET e == entries[i]
    IN /\ e.seq = i - 1
       /\ e.prev = HeadHash(SubSeq(entries, 1, i - 1))
       /\ e.hash = HashEntry(e.seq, e.prev, e.event)

(* AuditLog::load: the records up to the first that is not whole. What     *)
(* follows a torn record is out of step and does not decode.               *)
Load ==
  LET cut == SelectInSeq(file, LAMBDA rec : ~rec.whole)
      upto == IF cut = 0 THEN Len(file) ELSE cut - 1
  IN [i \in 1 .. upto |-> file[i].entry]

AuditInit ==
  /\ journal = <<>> /\ file = <<>> /\ written = 0
  /\ signed = [count |-> 0, head |-> Genesis]
  /\ torn = 0 /\ damaged = 0

(* AuditJournal::append, then AuditLog::append: the length and the record  *)
(* reach the file ...                                                      *)
Appends(event) ==
  /\ Len(journal) < MaxEntries
  /\ journal' = Append(journal, Entry(event))
  /\ file' = Append(file, Whole(Entry(event)))
  /\ written' = written + 1
  /\ UNCHANGED <<signed, torn, damaged>>

(* ... or part of them does, when the process ends there or a write fails. *)
AppendTorn(event) ==
  /\ Len(journal) < MaxEntries /\ torn < MaxTorn
  /\ journal' = Append(journal, Entry(event))
  /\ file' = Append(file, Torn(Entry(event)))
  /\ torn' = torn + 1
  /\ UNCHANGED <<written, signed, damaged>>

(* AuditJournal::checkpoint.                                               *)
SignsCheckpoint ==
  /\ signed' = [count |-> Len(journal), head |-> HeadHash(journal)]
  /\ UNCHANGED <<journal, file, written, torn, damaged>>

(* A record at rest changes: its event, with or without a hash that fits   *)
(* it again, its place, or its presence.                                   *)
Altered(i, event, rehashed) ==
  LET e == file[i].entry
      hash == IF rehashed THEN HashEntry(e.seq, e.prev, event) ELSE e.hash
  IN [file EXCEPT ![i].entry = [e EXCEPT !.event = event, !.hash = hash]]

Damage ==
  /\ damaged < MaxDamage /\ damaged' = damaged + 1
  /\ \E i \in DOMAIN file :
       \/ \E event \in Events, rehashed \in BOOLEAN : file' = Altered(i, event, rehashed)
       \/ \E j \in DOMAIN file : file' = [file EXCEPT ![i] = file[j], ![j] = file[i]]
       \/ file' = RemoveAt(file, i)
  /\ UNCHANGED <<journal, written, signed, torn>>

AuditNext ==
  \/ \E event \in Events : Appends(event) \/ AppendTorn(event)
  \/ SignsCheckpoint \/ Damage

AuditSpec == AuditInit /\ [][AuditNext]_auditVars

(* AuditJournal::verify never fails on the journal itself.                 *)
AuditTypeOK == VerifyChain(journal) /\ written <= Len(journal)

(* What passes both checks is what happened: a loaded file whose chain     *)
(* verifies and whose head is the one the host signed is the journal up to *)
(* that checkpoint, whatever became of the file (ras-audit lib.rs:12-16).  *)
AcceptedIsWhatHappened ==
  (VerifyChain(Load) /\ HeadHash(Load) = signed.head) => Load = SubSeq(journal, 1, signed.count)

(* The chain alone finds a change that is not made to the end of the file  *)
(* and does not compute the hashes anew.                                   *)
UndamagedLoads == damaged = 0 => VerifyChain(Load) /\ IsPrefix(Load, journal)

(* An append that returned is in what a reload finds (ras-audit lib.rs:    *)
(* 500-503). One that follows a torn record is not.                        *)
WrittenIsLoaded == damaged = 0 => Len(Load) >= written
=============================================================================
