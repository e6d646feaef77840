------------------------------ MODULE InputSink ------------------------------
(***************************************************************************)
(* The host's synchronous input back ends: XTEST, uinput, SendInput and    *)
(* CGEvent.  Each turns an authorized action into edges at the operating   *)
(* system and remembers what it holds down, under one lock per call.  An   *)
(* edge can fail; the call then stops there.  The first three realize the  *)
(* modifiers of a key event by edges of their own, CGEvent by flags.       *)
(***************************************************************************)
EXTENDS Naturals, FiniteSets

CONSTANTS Backends,     \* back ends of the run
          Plain,        \* usages that are no modifier
          NMods,        \* modifiers, in the order of MODS
          PointerButtons,
          MaxFailures,  \* edges that fail
          MaxToggles    \* times the local user presses Caps Lock

Mods == 1 .. NMods

ASSUME SinkAssumption ==
  /\ Backends \subseteq {"x11", "uinput", "windows", "mac"}
  /\ NMods \in Nat /\ MaxFailures \in Nat /\ MaxToggles \in Nat
  /\ Plain \cap Mods = {}

VARIABLES
  backend,   \* the back end of this host
  os,        \* the operating system: codes down, Caps Lock
  sink,      \* pressed_keys, pressed_buttons, held_mods, lock_caps
  failures,  \* edges that failed
  toggles,   \* Caps Lock presses of the local user
  lost,      \* history: codes a swallowed failure of release_all left down
  tapped     \* history: codes the second edge of a tap left down

sinkVars == <<backend, os, sink, failures, toggles, lost, tapped>>

(* The four tables, from a usage to the code of the system.  The left       *)
(* modifier of a usage and the modifier bit share a key, except on Windows, *)
(* whose bit is the generic VK_SHIFT and whose usage VK_LSHIFT, and on      *)
(* macOS, whose bit is a flag.                                              *)
X11Keycode(u) == IF u \in Mods THEN <<"mod", u>> ELSE <<"key", u>>
EvdevKey(u) == IF u \in Mods THEN <<"mod", u>> ELSE <<"key", u>>
VirtualKey(u) == <<"key", u>>
MacKeycode(u) == <<"key", u>>

Code(u) == CASE backend = "x11" -> X11Keycode(u)
             [] backend = "uinput" -> EvdevKey(u)
             [] backend = "windows" -> VirtualKey(u)
             [] backend = "mac" -> MacKeycode(u)
Modifier(i) == <<"mod", i>>
Button(b) == <<"button", b>>
CapsKey == <<"caps", 0>>
WheelKey == <<"wheel", 0>>
NullKey == <<"key", 0>>   \* virtual key 0 of a text event

Codes == { Code(u) : u \in Plain \cup Mods } \cup { Modifier(i) : i \in Mods }
         \cup { Button(b) : b \in PointerButtons } \cup {CapsKey, WheelKey, NullKey}

Tracked == sink.keys \cup sink.buttons \cup { Modifier(i) : i \in sink.mods }

SinkInit ==
  /\ backend \in Backends
  /\ os = [down |-> {}, caps |-> FALSE]
  /\ sink = [keys |-> {}, buttons |-> {}, mods |-> {}, caps |-> FALSE]
  /\ failures = 0 /\ toggles = 0 /\ lost = {} /\ tapped = {}

Edge(set, code, down) == IF down THEN set \cup {code} ELSE set \ {code}

Fails(n) == failures + n <= MaxFailures /\ failures' = failures + n   \* bound

-------------------------------------------------------------------------------
(* reconcile_mods then the key edge.  The wanted modifiers are compared bit *)
(* by bit with held_mods; every differing bit is an edge.  cut is the edge  *)
(* that fails: a modifier, the key (NMods + 1) or none (NMods + 2).         *)
Differing(want) == { i \in Mods : (i \in want) # (i \in sink.mods) }
Cuts(want) == Differing(want) \cup {NMods + 1, NMods + 2}

Reconciled(set, want, cut) ==
  { i \in Mods : IF i < cut THEN i \in want ELSE i \in set }

KeyByEdges(u, down, want) ==
  \E cut \in Cuts(want) :
    LET done == { i \in Differing(want) : i < cut }
        withMods == (os.down \ { Modifier(i) : i \in done \ want })
                    \cup { Modifier(i) : i \in done \cap want }
        whole == cut = NMods + 2
    IN /\ os' = [os EXCEPT !.down = IF whole THEN Edge(withMods, Code(u), down) ELSE withMods]
       /\ sink' = [sink EXCEPT !.mods = Reconciled(@, want, cut),
                               !.keys = IF whole THEN Edge(@, Code(u), down) ELSE @]
       /\ Fails(IF whole THEN 0 ELSE 1)
       /\ UNCHANGED <<backend, toggles, lost, tapped>>

X11Key(u, down, want) == backend = "x11" /\ KeyByEdges(u, down, want)
UInputKey(u, down, want) == backend = "uinput" /\ KeyByEdges(u, down, want)
WindowsKey(u, down, want) == backend = "windows" /\ KeyByEdges(u, down, want)

(* CGEvent carries the modifiers as flags of the event.                     *)
MacKey(u, down, want) ==
  /\ backend = "mac"
  /\ \/ /\ os' = [os EXCEPT !.down = Edge(@, Code(u), down)]
        /\ sink' = [sink EXCEPT !.keys = Edge(@, Code(u), down)]
        /\ UNCHANGED failures
     \/ Fails(1) /\ UNCHANGED <<os, sink>>
  /\ UNCHANGED <<backend, toggles, lost, tapped>>

SinkKey(u, down, want) ==
  X11Key(u, down, want) \/ UInputKey(u, down, want)
  \/ WindowsKey(u, down, want) \/ MacKey(u, down, want)

(* The pointer is moved, then the button edge sent; either can fail.        *)
ButtonEdge(b, down) ==
  /\ \/ /\ os' = [os EXCEPT !.down = Edge(@, Button(b), down)]
        /\ sink' = [sink EXCEPT !.buttons = Edge(@, Button(b), down)]
        /\ UNCHANGED failures
     \/ Fails(1) /\ UNCHANGED <<os, sink>>
  /\ UNCHANGED <<backend, toggles, lost, tapped>>

X11Button(b, down) == backend = "x11" /\ ButtonEdge(b, down)
UInputButton(b, down) == backend = "uinput" /\ ButtonEdge(b, down)
WindowsButton(b, down) == backend = "windows" /\ ButtonEdge(b, down)
MacButton(b, down) == backend = "mac" /\ ButtonEdge(b, down)

SinkButton(b, down) ==
  X11Button(b, down) \/ UInputButton(b, down) \/ WindowsButton(b, down) \/ MacButton(b, down)

-------------------------------------------------------------------------------
(* A press and a release of one key in one call.  When the second fails the *)
(* key stays down and no set remembers it.                                  *)
Tap(code, after) ==
  \/ /\ os' = [after EXCEPT !.down = @ \ {code}]
     /\ UNCHANGED <<failures, tapped>>
  \/ /\ Fails(1)
     /\ \/ UNCHANGED <<os, tapped>>
        \/ os' = [after EXCEPT !.down = @ \cup {code}] /\ tapped' = tapped \cup {code}

(* XTEST scrolls by clicking a button; the others send one relative event.  *)
X11Wheel ==
  /\ backend = "x11"
  /\ Tap(WheelKey, os)
  /\ UNCHANGED <<backend, sink, toggles, lost>>

(* CGEvent and SendInput type text as a press and a release of key 0.       *)
TypeText ==
  /\ backend \in {"mac", "windows"}
  /\ Tap(NullKey, os)
  /\ UNCHANGED <<backend, sink, toggles, lost>>

(* set_lock_state taps the lock key when the state it knows differs: the    *)
(* system's own where it can be read, under uinput what it last set.        *)
SystemCaps == os.caps
KnownCaps == IF backend = "uinput" THEN sink.caps ELSE SystemCaps

SinkSetLock(want) ==
  /\ IF KnownCaps = want
       THEN UNCHANGED <<os, sink, failures, tapped>>
       ELSE /\ Tap(CapsKey, [os EXCEPT !.caps = ~@])
            /\ sink' = [sink EXCEPT !.caps = IF backend = "uinput" /\ failures' = failures
                                               THEN want ELSE @]
  /\ UNCHANGED <<backend, toggles, lost>>

LocalCaps ==
  /\ toggles < MaxToggles
  /\ toggles' = toggles + 1
  /\ os' = [os EXCEPT !.caps = ~@]
  /\ UNCHANGED <<backend, sink, failures, lost, tapped>>

-------------------------------------------------------------------------------
(* release_all drains the sets and sends a release for each; a failing one  *)
(* is skipped.  The uinput and libei sinks also call it when dropped.       *)
ReleaseAll(kept) ==
  /\ kept \subseteq Tracked
  /\ os' = [os EXCEPT !.down = (@ \ Tracked) \cup (kept \cap @)]
  /\ sink' = [sink EXCEPT !.keys = {}, !.buttons = {}, !.mods = {}]
  /\ lost' = lost \cup (kept \cap os.down)
  /\ Fails(Cardinality(kept))
  /\ UNCHANGED <<backend, toggles, tapped>>

X11ReleaseAll(kept) == backend = "x11" /\ ReleaseAll(kept)
WindowsReleaseAll(kept) == backend = "windows" /\ ReleaseAll(kept)
MacReleaseAll(kept) == backend = "mac" /\ ReleaseAll(kept)
UInputReleaseAll(kept) == backend = "uinput" /\ ReleaseAll(kept)

SinkReleaseAll(kept) ==
  X11ReleaseAll(kept) \/ WindowsReleaseAll(kept) \/ MacReleaseAll(kept) \/ UInputReleaseAll(kept)

SinkNext ==
  \/ \E u \in Plain \cup Mods, down \in BOOLEAN, want \in SUBSET Mods : SinkKey(u, down, want)
  \/ \E b \in PointerButtons, down \in BOOLEAN : SinkButton(b, down)
  \/ X11Wheel \/ TypeText \/ LocalCaps
  \/ \E want \in BOOLEAN : SinkSetLock(want)
  \/ \E kept \in SUBSET Tracked : SinkReleaseAll(kept)

SinkSpec == SinkInit /\ [][SinkNext]_sinkVars

-------------------------------------------------------------------------------
SinkTypeOK ==
  /\ backend \in Backends
  /\ os \in [down : SUBSET Codes, caps : BOOLEAN]
  /\ sink \in [keys : SUBSET Codes, buttons : SUBSET Codes, mods : SUBSET Mods, caps : BOOLEAN]
  /\ failures \in 0 .. MaxFailures /\ toggles \in 0 .. MaxToggles
  /\ lost \subseteq Codes /\ tapped \subseteq Codes

(* Whatever fails, wherever in a call: a key, button or modifier that is    *)
(* down at the system is one the sink will release, unless a release of     *)
(* release_all itself failed or the second half of a tap did.  This is what *)
(* the order edge-then-set in key, pointer_button and reconcile_mods is for.*)
SafeToRelease == os.down \ (lost \cup tapped) \subseteq Tracked
=============================================================================
