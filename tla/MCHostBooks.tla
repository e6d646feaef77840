---------------------------- MODULE MCHostBooks ----------------------------
(***************************************************************************)
(* What the host keeps account of, side by side: the control lease, the    *)
(* contact book, the audit journal, the file being received, the messages  *)
(* of a stream, what its user is asked on the screen, the panel of the     *)
(* page that sends a file, the key it is known by, and the snapshot of its *)
(* contacts.  They do not act on one another here, so a behaviour is a     *)
(* behaviour of one of them, chosen at the start, while the others stay in *)
(* an initial state.  Of the lease the grant lacks keyboard.text and       *)
(* expires before the clock stops, and generations wrap after three bumps. *)
(***************************************************************************)
EXTENDS LeaseManager, ContactBook, AuditLog, FileTransfer, WireCodec, HostScreen, FilePanel, StoredFiles

MCGrantCaps == { "screen.view", "control.request", "pointer.move", "keyboard.key" }
MCRequests == { {"pointer.move", "keyboard.key", "keyboard.text", "no.such.cap"} }
MCConsents == { {}, {"pointer.move", "keyboard.key", "keyboard.text"} }
MCTimes == 0 .. 4
MCTtls == {0, 2}
MCSeqs == 1 .. 2
MCLayouts == {0, 1}

VARIABLE part
Parts == {"lease", "contacts", "audit", "file", "wire", "screen", "panel", "key", "snapshot"}

bookVars == <<part, vars, contactVars, auditVars, transferVars, wireVars, promptingVars, panelVars, storedVars>>

BooksInit ==
  /\ part \in Parts
  /\ Init /\ ContactInit /\ AuditInit /\ FileInit /\ WireInit /\ ScreenInit /\ PanelInit /\ StoredInit
  /\ part # "lease" => now = 0
  /\ part # "wire" => peer = "host"
  /\ part # "screen" => page = "main"
  /\ part # "panel" => panel = "main"

LeaseManaged == part = "lease" /\ Next
                /\ UNCHANGED <<part, contactVars, auditVars, transferVars, wireVars, promptingVars, panelVars, storedVars>>
Contacts == part = "contacts" /\ ContactNext
            /\ UNCHANGED <<part, vars, auditVars, transferVars, wireVars, promptingVars, panelVars, storedVars>>
Audit == part = "audit" /\ AuditNext
         /\ UNCHANGED <<part, vars, contactVars, transferVars, wireVars, promptingVars, panelVars, storedVars>>
Files == part = "file" /\ FileNext
         /\ UNCHANGED <<part, vars, contactVars, auditVars, wireVars, promptingVars, panelVars, storedVars>>
Wire == part = "wire" /\ WireNext
        /\ UNCHANGED <<part, vars, contactVars, auditVars, transferVars, promptingVars, panelVars, storedVars>>
Screen == part = "screen" /\ ScreenNext
          /\ UNCHANGED <<part, vars, contactVars, auditVars, transferVars, wireVars, panelVars, storedVars>>
Panel == part = "panel" /\ PanelNext
         /\ UNCHANGED <<part, vars, contactVars, auditVars, transferVars, wireVars, promptingVars, storedVars>>
Stored == ((part = "key" /\ KeyNext) \/ (part = "snapshot" /\ BookNext))
          /\ UNCHANGED <<part, vars, contactVars, auditVars, transferVars, wireVars, promptingVars, panelVars>>

BooksSpec ==
  BooksInit /\ [][LeaseManaged \/ Contacts \/ Audit \/ Files \/ Wire \/ Screen \/ Panel \/ Stored]_bookVars

(* What the user decided holds: what is removed or blocked has no presence  *)
(* task left running, and no task runs that nothing could stop; a request   *)
(* that waits hears the answer, and one that a stop found open is refused.  *)
DecidedHolds == /\ RevokeHolds /\ EveryTaskCanBeStopped
                /\ WaitingIsPending /\ NotPreempted /\ CutIsDenied

(* The screen shows its user the truth: no prompt stays up that nobody      *)
(* waits for, a session that is served is marked, and a panel that refuses  *)
(* another file has a send under way that something will end, in a first    *)
(* session the only one.                                                    *)
ScreenIsTrue == NothingLeftUp /\ SessionIsMarked /\ NeverStuck /\ OneInASession

(* What is read back is what was written: a journal file, if it was not     *)
(* damaged, and whatever befell it if it passes the checks; the messages of *)
(* a stream, of which only a clipboard text is ever refused; the identity   *)
(* and the contacts the machine started with before.                        *)
ReadIsWritten == /\ IdentityIsStored /\ SnapshotIsWhole
                 /\ AcceptedIsWhatHappened /\ UndamagedLoads
                 /\ ReceivedIsSent /\ OnlyClipboardRefused /\ AcceptedIsCanonical
=============================================================================
