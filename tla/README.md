# Casual RAS: models, checks and proofs

TLA+ models of the parts of Casual RAS whose correctness depends on the order in
which things happen: who may inject input, what is left when a session ends, what
reaches the decoder, which file is written, when a microphone runs, what the user is
told. Each module is translated from the Rust or JavaScript source it names;
`PROJECT.json` gives, for every definition, the lines it stands for.

To check a run: `tlc -workers 2 -config MCHostBooks.cfg MCHostBooks` (module and
`.cfg` of each run are in `PROJECT.json`). To check the proofs:
`tlapm HostControlProofs.tla`, and so for each of the `*Proofs` modules.

## The system

Casual RAS is peer-to-peer remote assistance. A *host* shares its screen, a
*controller* watches and, with the consent of the host's local user, controls. Both
are sessions of `ras-core` over a QUIC connection (iroh); a desktop app wraps them and
adds contacts, chat signals and 1:1 calls.

| Part | State it keeps | Operations | Talks to |
|---|---|---|---|
| Policy (`ras-policy`) | none | `grantable`, required capability | lease manager, file push |
| Control lease (`ras-control`) | one active lease, generation, last seq, layout version | `issue`, `transfer`, `renew`, `revoke_all`, `revoke_if_expired`, `authorize_input` | host input path, under one mutex |
| Host input path (`session.rs`) | stop flag, lease manager, keys held at the OS, pending prompt | control task, stats sweep, consent, `stop`, `emergency_stop` | lease manager, input sink, local user |
| Input back ends (`ras-input-*`) | keys, modifiers and buttons held down; for libei a portal session on a thread | `inject`, `release_all`, drop | the operating system |
| Viewer input (`control.js`) | control state, keys and buttons held, the lease it knows | key, button, blur, poll, the end of a lease | commands of the app, host input path |
| Session lifecycle (`session.rs`, `lib.rs`) | state machine, stop flag and task of each side, grant on the connection | `start`, `connect`, serve, re-serve, re-dial, `stop`, `disconnect` | the control stream, the validator, its readers |
| Event stream (`event.rs`) | a bounded channel | `emit`, and three readers (viewer window, share loop, headless host) | windows |
| File push (`session.rs`, `ras-files`, `main.js`, `shell.js`) | active transfer, pending prompt, write sink; in the page the flags and the timer of a send | offer, consent, chunk, complete, abort, cancel | control stream, disk |
| Video path (`session.rs`, `ras-transport-iroh`) | encoder, sink slot, per-frame streams, reassembly buffer, gate, renderer slot | pump, `recv`, gate, `attach_renderer`, key-frame requests | both loops, redial |
| Encoders (`ras-media-vpx`, `-openh264`, `-macos`) | dimensions, rate, layer position, key-frame flag, frame ids | encode, reconfigure, set bitrate, set ceiling | media pump |
| Bitrate (`abr.rs`, `host_stats_loop`) | bitrate, loss streaks, atomics for the pump | `on_tick` | media pump |
| Screen capture (`ras-media-scap`, `-macos`) | a picture slot, failed and stop flags, a thread | start, `next_frame`, loss, replacement, stop | media pump |
| Sound (`ras-audio-*`, `audio_pump`, `audio.js`) | capture thread, ring, encoder, datagram queue, decoder | start, read, stop, re-attach, play | transport, page |
| Camera and microphone of calls (`ras-camera`, `ras-mic`, app `call.rs`) | device thread, slot, shared stop flag | on, off, pump | call supervisor |
| Cursor shapes (`session.rs`, `ras-cursor-*`) | a FIFO of shape ids on each side, the throttle | observe, send shape or id, insert, evict | control stream |
| Calls (`ras-call`, `ras-core/call.rs`, app `call.rs`) | call state, media, one slot per app, control loop, supervisor, microphone | place, accept, decline, hang up, invite, dial | signal plane, call connection |
| Bootstrap (`ras-bootstrap`) | issued tickets, nonces seen | issue, consume, check and insert | share loop |
| Grants (`ras-grant`) | none (signed records) | validate request, issue, validate grant | share loop, session start |
| Audit (`ras-audit`) | hash chain, append-only file | append, load, verify, checkpoint | session events |
| Identity and contacts (`ras-identity`) | key file, contact book and its snapshot | load or create, add, block, remove | app, presence |
| Signals and presence (`ras-signal`) | replay guard, presence tasks, last beacons | send, verify, acknowledge, admit, subscribe | calls, contact list |
| Share loop (app `main.rs`) | the running share, its session handle, the held bootstrap connection | start, bootstrap, prompt, serve one, re-accept, stop sharing | sessions, grants, viewers |
| Host's screen (app `main.rs`, `main.js`, `shell.js`, `overlay.js`) | pending prompts, the open dialogs, window and badge | ask, answer, time out, stop | share loop, sessions |
| Viewer window (`viewer.js`, `shell.js`, `main.js`) | the session, the decoder and its retries, the key-frame timer | connect, configure, feed, fail, end | session, event stream |
| Wire (`ras-protocol`, framing of `ras-transport-iroh`) | a reassembly buffer | encode, decode, frame, read | every stream |
| Transport (`ras-transport-iroh`) | connection, streams | framing, datagrams, health | all of the above |

What is hard in it is concurrency. A host runs a control task, a media pump, a stats
task, an audio pump and consent prompts, and any thread may call `stop`; they share
locks that are taken one at a time. A connection can go away between any two steps and
be dialled again under the same session. Video frames travel on one stream each and
overtake each other. Devices open and close on threads of their own. A page runs one
callback at a time, but uses after an `await` what it read before. Two users press
buttons while the messages about the last button are under way. The lines where this
bites are the `hazards` of `PROJECT.json`.

What makes each part correct:

- *Lease*: one controller at a time; nothing outside the grant or past its expiry;
  nobody's input twice or out of order, whatever the wire repeats or delays.
- *Host input and its back ends*: once a stop or the end of a lease has flushed, no key
  is down but of the one input that had passed its check before; every lease has an
  Allow of its own; a key is typed with what was held.
- *Lifecycle and events*: each side ends when the other does; an end that is reported
  is reported once, with the right reason; nothing is served on an earlier connection's authorization; what
  the window shows is what it was last told; every reader comes to its end.
- *File push*: a file kept was allowed, has the size offered, and is whole if it is all
  of one file; nothing partial is left behind; a page that refuses another file has a
  send under way that something will end.
- *Video*: no frame is decoded on the wrong reference; a picture frozen by a loss has
  its key frame on the way; a viewer who is connected sees the stream or is told why not.
- *Devices*: what was told to stop stops, and is off unless the system did not answer in
  time; a reader gets nothing of an earlier start; what was lost is opened again or
  reported; what is down at the bound input device is known to the sink.
- *Calls*: nobody is captured before answering; a call that a hang-up has ended stops
  capturing; the hang-up of the caller is heard (the callee's can be lost: `call_hangup`
  ends the loop that would send it, `call.rs:609-615`).
- *Cursor and sound*: an id the controller is sent names a shape it has; a packet
  reaches a decoder of its format.
- *Bootstrap and grants*: a ticket is used once, a request is answered once within its
  life, a grant is never wider than what was consented to.
- *Audit, identity, contacts*: what is read after a crash is what was written; a
  blocked contact has no presence task that nothing could stop.
- *Signals*: however clocks differ and reads linger, one is shown a bounded number of
  times.
- *Share loop and screen*: only the allowed are served; Stop reaches whatever share is
  running, and it ends unless its viewer stays silent; no dialog is left up that nobody waits for.

## Modules

| Module | Models | State and actions |
|---|---|---|
| `Policy` | the capability functions of `ras-policy` | operators only |
| `SingleController` | the promise of the lease: tenures in order, a growing sequence within one | abstract specification |
| `LeaseManager` | `LeaseManager` of `ras-control` | its fields; one action per public method, atomic because the host holds a mutex |
| `HostControl` | `host_control_loop`, `host_finish_control_request`, `host_handle_input`, `sweep_expired_lease`, `stop`, `emergency_stop` | extends `LeaseManager`; a step is one critical section; `ctl`, `stats`, `stopper` are where each thread is |
| `Admission` | `TicketAuthority`, `NonceCache`, `validate_access_request`, `issue`, `validate_grant` | everything signed so far, deliverable at any time, to anyone, again; the cache; the request the user is asked about; the grants; tickets by generation |
| `SessionLifecycle` | the session state machine of `ras-core/lib.rs` (`Apply`, `Invalid`); host and controller from `start` and `connect` to their end | `hPc`, `cPc`: where each control task is; `stopper`, `leaver`: the threads that end it; two queues for the control stream |
| `EventFeed` | the lifecycle stream, who emits into it and its three readers | `stream`; `session`: its state, its task, and the event each of task and stopper has yet to emit; what the reader shows |
| `FileTransfer` | the host's file handlers and the write sink, with the sender reduced to its messages | control stream, prompt, transfer, files on disk |
| `FilePanel` | `sendFile` and its wait, timer and flags in `main.js` and `shell.js` | where each send is in its awaits; what the host is asked and armed for |
| `VideoSource` | `VideoSource::recv`: reassembly, grace deadline, `FrameDropped` | operators on a record |
| `VideoPath` | the pump, the streams, the video loop, `attach_renderer`, the redial | extends `VideoSource`; locks are taken one at a time, so their reads and writes interleave |
| `Encoders` | what each call makes of an encoder, behind the app's `PlatformEncoder`, which forwards no ceiling | operators on a record |
| `MediaPump` | one tick of the bitrate (`abr.rs`), `media_pump` and `host_stats_loop` with their atomics | one action per turn and per tick |
| `ScreenCapture` | scap and ScreenCaptureKit, the rebuild in the pump | thread, slot and flags of each share |
| `CaptureDevice` | sound capture of three systems, microphone, camera | `start`, `read`, `stop`, the device thread between them |
| `AudioPath` | `audio_pump`, Opus framing, `AudioSink` and its writer, the microphone framer | the pump's place, the ring, the packets on the way |
| `AudioPlayer` | `audio.js` | promises and decoder callbacks as actions of their own |
| `CameraEgress` | camera commands of the call supervisor and its pumps | one shared flag, each transport's sink that is taken once, a place for each pump |
| `InputSink` | XTEST, uinput, SendInput, CGEvent | edges that fail, held sets, `release_all` |
| `LibeiSink` | libei: the sink, its thread and the portal | a command channel, the ready flag, the device as the compositor has it |
| `RemoteInput` | a key from `control.js` to the host's keyboard | page, commands, stream; `ctl` and `sweep`: where the control task and the sweep are between gate and dispatch, revoke and flush; extends `InputSink` |
| `CursorCache` | the observers, `cursor_pump`, the viewer's cache | two FIFOs and the stream between them |
| `Call` | the call state machine, `CallManager`, `CallRuntime` | operators on a record |
| `CallApp` | two apps with their slots, invites, connections, control loops, supervisors | extends `Call`; `call_accept` is four steps, `end_call` three, any other command one |
| `Signal` | signed signals: sent, verified, acknowledged, shown | clocks of both sides, the guard, recorded copies |
| `ContactBook` | the book and the presence tasks around it | a command is one step; a task's awaits are between two |
| `StoredFiles` | `identity_seed` with `load_or_create` and `write_secret`, `FileContactBook` | `key`, `call`: the identity file and each call that reads or makes it; `snapshot`, `tmp`, `app`: the book's file and the instances that read and write it; each cut off anywhere |
| `AuditLog` | the chain, the file, the checkpoint | appends with torn writes, damage, reload |
| `WireCodec` | every message with the checks of its fields, framing and reads | a field is a map of its boundary values at the sender and at the reader |
| `ShareLoop` | `start_sharing`, `run_share`, `handle_bootstrap`, `serve_one`, `trigger_stop_sharing` and the viewers that dial in | `slot`, `starter`, `stopping`: the user's side; `running`, `pc`, `peer`, `held`: the task under `run_lock`; `inbox`: connections not accepted yet; `link`: each viewer's bootstrap connection |
| `HostScreen` | `LocalConsent`, the dialogs, the badge, the window | prompts by id, what the page has in hand, what is up |
| `ViewerPage` | `viewer.js`, the shipped `shell.js`, the older `main.js` | attempts to connect, the decoder and the promises that build it, the key-frame timer |
| `MC*` | instances for TLC | constants, symmetry, sums |
| `*Proofs` | theorems about the module they extend | |

A definition named `X_Something` just before `X` is `X` with a plausible bug in it; each
property has one that it catches.

### How messages and losses are treated

In `LeaseManager` envelopes are not stored: any step may present any envelope, which
contains every duplicate, delay, reordering and forgery. In the other modules the
control stream is a queue (QUIC streams are reliable and ordered while the connection
lives), a loss empties it, and each video frame is a stream of its own, so frames form
a set. A command queue that is full drops the command, as `try_send` does.

### External parts

Ed25519 and PASETO, iroh's connection handling, operating-system input, capture, portal,
browser decoders and disk are modelled by what the code relies on: a connection is up or
lost, the sink holds a set of keys, a file is absent, partial, kept or unsynced, a
promise is answered some time later. In `CallApp` a connection closes when one side
holds no handle on it any more (`Holds`).

### Sums

Components that do not act on one another are checked side by side in one instance
(`MCHostBooks`, `MCSessions`, `MCDevices`, `MCKeepers`): a variable `part` names the
component that runs, chosen at the start; the others stay in an initial state. The
states are the sum, not the product, of those of the parts, and every property of a
part is checked on exactly its own behaviours. To look at one part only, use its own
specification (`FeedSpec`, `StoredSpec`, ...) with the constants of the sum's `.cfg`,
or add `part = "x"` to the initial predicate.

## What is checked

Passing runs, with the bounds that make the interesting cases happen:

| Run | Bounds | What it shows |
|---|---|---|
| `host_control` | 2 leases, 2 inputs, 2 keys, 2 stopping threads | `KeysReleasedAtEnd`, `ResidualBounded`, `OneLeasePerConsent`, and `KeysReleased` (liveness). Two leases give a replacement, two stoppers the race for the flag |
| `admission` | 2 requests, a cache of 1, 2 endpoints, 2 tickets, 4 clock readings, requests up to one too long and dated up to the skew ahead | `AcceptedOnce`, `TicketUsedOnce`, `SessionsConsented`. Request, cache and clock ranges meet at every boundary of `Fresh` and `Sweep`; two tickets give a rotation between two uses |
| `video` | 4 frames, 2 sizes (symmetric), 2 streams in flight, 2 connections, 1 attach | `GateChain`, `LossRepaired`. Four frames give a frame before a gap, the gap, one behind it and a repair |
| `call` | one call, one caller, the other side answers or not, each lock of its Accept a step | `NothingBeforeTheAnswer`, `EndedCallStopsCapturing`, `HangUpIsHeard` |
| `sessions` | a session over 2 connections; 2 viewers, 2 shares, 1 connection of another kind, 1 loss; a stream of 5 events with 4 to put in beside those of the start and the end | `EndIsShown` (no end is reported twice or with the wrong reason, and no controller's silently; a window shows what it was last told), `AuthorityIsCurrent`, `AllowIsServed`, `SlotIsTheShare`; `EndsReachAll` (liveness: whoever ends something ends all of it, unless a viewer stays connected and silent, and every reader of events stops reading). The second connection is the re-serve and re-dial and may be lost again; two viewers compete for the held connection; the second share queues behind one that was told to stop; the stream can be full when the session ends |
| `books` | lease: 3 leases, 3 inputs, generations modulo 3; contacts: 1 peer, 3 tasks; audit: 3 entries, 1 torn write, 2 damaged bytes; file: 2 offers, 2 chunks, a queue of 3; wire: every field at its boundaries, reads of at most 5; screen: 2 prompts on either page; panel: 3 sends over 2 sessions on either page; key: 2 callers, 3 calls; snapshot: 2 instances, 2 contacts | `TenuresDisjoint`, `WithinGrant`, and that the manager implements `SingleController`; `DecidedHolds` (a removed or blocked contact keeps no task that nothing could stop; an answer reaches who waits, a stop refuses what is open); `ScreenIsTrue` (no prompt is left up, a served session is marked, a panel that refuses another file has a send that something will end); `ReadIsWritten` (journal, messages, identity, contacts); `KeptIsWhole` (a kept file was allowed, has the size offered and its chunks in order, and is whole if they are all of one offer; with three offers it holds as well), `NothingLeftBehind`; `PromptsStayUp` (no dialog that is up is slid away with the window). Three leases bring the generation back to its start, which is where a stale envelope could match again |
| `devices` | libei: 2 devices (one of them without a pointer), 2 commands, 4 offers; capture: 5 back ends, 3 starts, a slot of 3; audio: 2 device formats, chunks of up to 3 for a frame of 2, 2 connections, 1 restart; camera: 2 connections, 4 commands; stats: 3 bandwidths, 2 losses; screen: 2 displays, 2 shares, 1 loss; page: 2 connects, 1 trouble of the decoder, 2 sizes | `NothingLeftOn`, `ReadsAreCurrent`, `BoundIsTracked` (what is down at the bound device the sink still tracks or has the release of queued); `ToldToEndEnds` and `Recovers` (liveness) |
| `keepers` | sink: 4 back ends, 3 modifiers, 1 failing edge; remote: 1 plain key that is swapped, 1 button, 2 requests; player: 2 sessions, 2 formats; cursor: 3 shapes, a cache of 2; pump: 3 codecs, 2 sizes; signal: 2 signals, 2 connections, a guard of 1, 1 restart, clocks 1 apart, reads of up to 1 | `InputIsReleased`, `TypedAsHeld`, `ViewerFollows`, `ShowingsBounded`, `StreamStaysGood` (the first frame of another size is a key frame and announced, the codec runs at the rate applied last, a frame is of the layer it is taken for) |

Most modules with a state define a type invariant that can be added to a `.cfg`; the
proofs show those of the modules they are about. Deadlock is not an error: sessions, transfers and calls do end.

### Fairness

- `host_control`: the control task and a stopping thread that has won the flag go on.
  Nobody has to call `stop`, and neither the peer nor the user has to act.
- `sessions`: tasks and stopping threads go on, every window and prompt ends (the
  code has a timeout on each), a reader goes on reading what is in its stream. Nothing
  is assumed of cuts, grants or reconnects. The code puts no timeout on a bootstrap
  message or on `HostSession::start`, and no viewer is assumed to send either: the share
  loop is fair in its `OwnSteps` only, and `EndsReachAll` promises the end of a stopped
  share unless it waits for a viewer for good. Nobody has to answer a prompt, stop, share
  or dial.
- `call`: tokio goes on scheduling the tasks that can run, and a dial ends within its
  45 seconds. A call is finite, so one condition for all of the program's steps is
  enough. Users and the network need never do anything.
- `devices`: threads that run go on; a device's open returns, well or badly, but for the
  calls into macOS, which have a timeout in the code and need never answer; a page runs
  its timers, and the browser answers what it was asked. Nobody has to start, stop or
  give access. The compositor has to answer a handshake only when it was told to stop.
- `books`, `keepers`: none.

### Disagreements between the code and what it says

Each is a run that TLC finds violated, with the sentence quoted in `PROJECT.json`.

| Run | What happens |
|---|---|
| `lease_resurrected` | `stop` revokes between the stop check of a consent and its `issue`: a lease is live on a stopped host |
| `call_never_connects` | only the answering side calls `media_connected`: the caller stays Connecting and never sends audio |
| `clipboard_ends_stream` | the controller sends a clipboard text of any length; the host refuses the frame and takes the stream for lost |
| `request_not_shown` | the shipped page listens for file offers only: a request for access or control is denied by its timeout, while a notification says to open the window and allow it |

More that does not hold. Each property stands at the end of its module with the
sentence it takes from the code. To see it violated, check the module by itself with its
own specification (`INIT` and `NEXT` where it names none; the fair one for a property
with `<>` or `~>`), the constants of the run in the second column (those the module declares) and the property as INVARIANT or PROPERTY; what has to be different is said.

| Property | Module, constants of | What happens |
|---|---|---|
| `NoKeyCrossesLease` | `HostControl`, `host_control` | a key-down that was authorised before the sweep is posted after the sweep's flush; the next lease begins with that key down (`session.rs:2077` calls this race-free) |
| `HostEndReported` | `SessionLifecycle`, `sessions` | a failed send ends the host's control task without a re-serve, a state change or an event |
| `ControllerInert` | `SessionLifecycle`, `sessions` | a second `SessionEnded`, or a `Suspended`, after the first |
| `StopReachesController` | `SessionLifecycle`, `sessions` | `stop` during `start`: the start goes on and no Bye is sent |
| `LostEndIsNoticed`, `TellsWhatIsAlways` | `EventFeed`, `sessions` | an event that finds the stream full is dropped: the reader never hears of the end |
| `MarkerFollows` | `EventFeed`, `sessions` | a lease that runs out emits nothing and the marker of remote control stays; a refused request emits an end and takes the marker down while the lease lives (`event.rs:207` says the event is emitted when the host revokes or refuses) |
| `KeptIsAllowed` | `FileTransfer`, `books` | the accept of an abandoned offer is taken for that of the next: the second file is written under the first one's name and consent; a sender that gives up while chunks are under way can so leave the parts of two files in one |
| `NothingKeptAfterStop` | `FileTransfer`, `books` | a completion in flight persists its file after the stop |
| `NothingPartialAfterStop` | `FileTransfer`, `books` | a consent in flight opens its file after the stop's abort |
| `UndurableDiscarded` | `FileTransfer`, `books` | a failed sync leaves the file in place |
| `FailureReachesSender` | `FileTransfer`, `books` | a failing write is not reported to the sender |
| `OneInFlight`, `FedIsAllowed` | `FilePanel`, `books` | a cancelled send still waits when the next one starts; the answer to one is taken by the other, and what the host writes is another file |
| `ArmedIsFed` | `FilePanel`, `books` | cancelled while the host is asked: the host allows, waits for good, and refuses every later offer of the session |
| `OwnTimer` | `FilePanel`, `books` | the timer of an earlier wait ends a later one |
| `SentIsSent` | `FilePanel`, `books` | the session is lost under a send of the shipped page: the chunks are dropped without an error, and the page says "Sent" (`shell.js:482`; the comment on the commands has an error if no viewer session is live) |
| `FirstFrameIsIdr` | `VideoPath`, `video` | an attached renderer is fed a dependent frame first |
| `DimsMatch` | `VideoPath`, `video` | a renderer is configured from a stream config that has just changed |
| `GapWatched` | `VideoPath`, `video` | the grace deadline is one for the whole source; a frame that fills one gap cancels the watch for another, and the last picture stays in the buffer |
| `ResumeRepaired` | `VideoPath`, `video` | after a redial the key frame is dropped as stale and none is asked for |
| `NothingNewIsStale` | `VideoPath`, `video` with `RestartsIds = TRUE` | VideoToolbox counts its frames from 0 again after a change of size: all of them are older than the watermark |
| `LayersAreShed` | `MediaPump`, `keepers` | the pump asks for a ceiling on the layers (`session.rs:1133-1134`), which the application's encoder does not forward to the one it wraps: every frame is forwarded, whatever the path |
| `PublishedIsCurrent` | `MediaPump`, `keepers` | dimensions are published before the encoder has taken them, and it can fail to: they differ from those of the frame that is forwarded |
| `Newest`, `LossAlwaysAnswered`, `ToldIsCaptured` | `ScreenCapture`, `devices` | scap puts an old picture back over a newer one; its loop ends without a word; the rebuild may land on another display than the one the input back end was told of |
| `NothingAfterStop` | `AudioPath`, `devices` | a packet leaves after the stop |
| `NoBacklog` | `AudioPath`, `devices` | a chunk is all that was buffered, and one frame of it is encoded per turn: the rest piles up |
| `StopMeansOff` | `CaptureDevice`, `devices` | a macOS stream whose stop or start timed out is given up and stays open ("Stop capture and release resources", `ras-media/src/lib.rs`) |
| `EncoderMatchesDevice` | `AudioPath`, `devices` with `SameFormat = FALSE` | a device that comes back in another format feeds the old encoder |
| `OwnAnswer` | `AudioPlayer`, `keepers` | the engine's answer to an earlier session gives up the sound of this one |
| `OnReopens`, `OverMeansOff` | `CameraEgress`, `devices` | the video sink of a transport can be taken once: the camera that was turned off is not turned on again; a call that ends as its camera starts leaves it on |
| `ModifiersFollow` | `LibeiSink`, `devices` | a modifier that was dropped while no device emulated is thought down; its key is typed without it |
| `EndedSessionIsClosed` | `LibeiSink`, `devices` | a portal session that reached its loop is never closed |
| `DownIsTracked` | `LibeiSink`, `devices` | the device that is added second takes the place of the one whose keys are down (`libei.rs:702-735`); their releases go to the wrong one |
| `ReadyMeansUsable`, `ReadyMeansEmulating` | `LibeiSink`, `devices` | the device that was added last is bound whatever its interfaces; the one that left first clears the flag |
| `ControllingHasLease` | `RemoteInput`, `keepers` | the answer of the poll is used without looking at the state again: control is shown that is gone |
| `QuietMeansUp` | `RemoteInput`, `keepers` with `Inside = FALSE` | a button let go outside of the picture stays down while the lease lives |
| `DownIsFlushable` | `RemoteInput`, `keepers` with `InOrder = FALSE` | two commands of the page that overtake each other leave a key down that the page does not know of |
| `DrawsAfterBreaks` | `CursorCache`, `keepers` | a shape lost with the connection is later sent by its id |
| `DrawsTheCursor` | `CursorCache`, `keepers` with two hot spots | the id is a hash of the pixels: another hot spot is not sent |
| `RestingPlaceLands` | `CursorCache`, `keepers` with two places | the last move falls to the throttle |
| `FailedDialEndsCall` | `CallApp`, `call` | a failed dial leaves the call Dialing; no ring timeout exists |
| `RingStaysAnswerable` | `CallApp`, `call` | Accept before the connection has arrived uses up the receiver; the ring can no longer be answered |
| `TornDownCallStopsCapturing` | `CallApp`, `call` | decline pressed as the accepted call starts its microphone: it stays on, owned by no call |
| `EndsAgreeOnMedia` | `CallApp`, `call` with 2 offers and 2 placed | the ring of one call is answered over the connection of the next, with other media |
| `DeliveredIsShown`, `NotDeliveredIsUnseen` | `Signal`, `keepers` | the acknowledgement goes out before the guard is asked, or is lost: the sender is told the opposite of what happened |
| `SurfacedOnce` | `Signal`, `keepers` | a sender whose clock is ahead, or a slow read: the tag is forgotten while the bytes are fresh |
| `SurfacedOnceEver` | `Signal`, `keepers` | a restart forgets the tags |
| `RevokedIsDark`, `BlockedIsQuiet`, `EntryIsAlive` | `ContactBook`, `books` | a beacon verified before a removal is recorded after it; adding a blocked contact again starts its presence; a topic that closed leaves its entry, and presence never starts again |
| `WrittenIsLoaded` | `AuditLog`, `books` | what is appended behind a torn record is lost on reload |
| `KeyIsFinished` | `StoredFiles`, `books` | the app ends between the making of `identity.key` and its filling: no later call can use or replace the file, and each goes by a key of its own |
| `MemoryIsKept`; `SnapshotIsWhole` | `StoredFiles`, `books`; with `Writers = Apps` | a failed write is not looked at; two instances write the same temporary file, and one renames what the other has just cut |
| `IdentityIsStored` | `StoredFiles`, `books` with `Exclusive = FALSE` | without `create_new` (not on unix) two first calls make two keys |
| `EndIsShownInShell`, `LiveIsShown` | `ViewerPage`, `devices` | in the shipped page a session that the host ended stays live; a session that starts behind the picker cannot be seen |
| `SkipIsBridged`, `ResizeIsAtomic` | `ViewerPage`, `devices` | deltas dropped for the backlog are not bridged within 400 ms; a new decoder is given a delta first |
| `KicksEnd` | `ViewerPage`, `devices` | a key-frame timer goes on with nothing to ask for |
| `OneStream`, `PictureComes`, `EndIsShown` | `ViewerPage`, `devices` with `Mishaps` of `{"second start"}`, `{"late"}`, `{"early"}` | a second start before the first has answered, an engine's answer that comes late, an end before the session is stored |
| `ClickAnswersWhatWasShown`, `DeniedBySomeone`, `ControlIsMarked`, `MarkedIsControl`, `ShownIsVisible` | `HostScreen`, `books` with `Pages = {"main"}`, `MaxEvents = 2` | a click lands on the dialog that has just replaced another; a second prompt denies the first; the badge is behind, both ways; a dialog opens in a minimized window |
| `StopOverridesGrants` | `ShareLoop`, `sessions` | a grant from before a Stop is served by the next share without a prompt: nothing reads its generation |
| `StopEndsForGood` | `ShareLoop`, `sessions` | a viewer that dials and says nothing holds a stopped share: the receives at `main.rs:2854`, `2867` and `session.rs:593` have no timeout and do not look at the flag (`main.rs:1974-1977` says it ends within the 250 ms budget) |
| `NoPromptAfterStop` | `ShareLoop`, `sessions` | a bootstrap under way opens its prompt after the stop has cancelled the pending ones (`main.rs:1983-1985`) |
| `ServedInOwnCodec` | `ShareLoop`, `sessions` | any session dial takes the held connection, and is served in the codec of the viewer it was held for (`main.rs:2622`) |
| `ShareAgainRuns` | `ShareLoop`, `sessions` | a share refused for a missing permission leaves the slot filled; "then Share again" (`main.rs:2427`) does nothing until a Stop |
| `RunningIsStoppable` | `ShareLoop`, `sessions` with two `Starters`, `MaxShares = 3` | two `start_sharing` calls pass the slot check together; the first share runs with its stop sender gone |

`AcceptedOnce` has a limit of its own: with `ClockJumps` in place of `ClockTicks` (and `MaxEntries = 2`) the
host's wall clock is set back, and a nonce swept at the later time is fresh again at
the earlier.

## What is proved

For every value of the constants (the named `ASSUME`s of the modules are all that is
assumed of them; a further hypothesis stands in the theorem), by TLAPS:

| Theorem | Statement | Module |
|---|---|---|
| `TypeCorrect`, `TenuresNeverInterleave`, `NoEscalation` | `Spec => []TypeOK`, `[]TenuresDisjoint`, `[]WithinGrant` | `HostControlProofs` |
| `LeaseRefinesController` | `Spec => Controller!Spec` | `HostControlProofs` |
| `HostTypeCorrect`, `StopReleasesKeys`, `ResidualIsOneKey`, `EveryLeaseConsented` | `HostSpec => []HostTypeOK`, `[]KeysReleasedAtEnd`, `[]ResidualBounded`, `[]OneLeasePerConsent` | `HostControlProofs` |
| `AdmissionTypeCorrect`, `RequestAcceptedOnce`, `TicketConsumedOnce`, `SessionsWithinConsent` | `Spec => []AdmissionTypeOK`, `[]AcceptedOnce`, `[]TicketUsedOnce`, `[]SessionsConsented` | `AdmissionProofs` |
| `EndsAreShown`, `AuthorityIsNeverOld`, `OnlyAllowedIsServed` | `Spec => []EndIsShown`, `[]AuthorityIsCurrent`, `[]AllowIsServed`, of the composition the run `sessions` checks | `SessionsProofs` |
| `WindowTellsTheTruth`, `FeedTypeCorrect` | of the event stream by itself | `SessionsProofs` |
| `LifecycleTypeCorrect` and the parts of `EndIsShown` and `AuthorityIsCurrent` | of the session by itself | `SessionsProofs` |
| `AllowLeadsToService`, `HandleStaysServed` | `ShareSpec => []AllowIsServed`, `[]HandleIsServed` | `SessionsProofs` |
| `ShowingsAreBounded` | `SignalSpec => []ShowingsBounded` | `KeepersProofs` |
| `WhatIsLeftDown`, `KeysAreTypedAsHeld` | `Spec => [](SafeToRelease /\ LeaselessIsUp)` of the run `keepers`, if `NMods >= 3`; `[]TypedAsHeld`, if also `InOrder` and `Right` is in `Plain` | `KeepersProofs` |
| `StreamIsGood` | `Spec => StreamStaysGood` of the run `keepers` | `KeepersProofs` |
| `NoBrokenReference` | `Spec => GateChain`, an action property | `VideoPathProofs` |
| `GapsAreRepaired` | `Spec => []LossRepaired`, if not `RestartsIds` | `VideoPathProofs` |
| `ViewerIsCurrent` | `Spec => []ViewerFollows` of the run `keepers` | `KeepersProofs` |
| `NothingIsLeftOn`, `ReadersAreCurrent`, `HeldIsTracked` | `Spec => []NothingLeftOn`, `[]ReadsAreCurrent`, `[]BoundIsTracked` of the run `devices` | `DevicesProofs` |
| `NeverAutoAnswered` | `Spec => []NothingBeforeTheAnswer` | `CallProofs` |
| `WhatIsDecidedHolds`, `WhatIsShownIsTrue` | `BooksSpec => []DecidedHolds`, `[]ScreenIsTrue` | `HostBooksProofs` |
| `DialogsAreNotSlidAway` | `BooksSpec => PromptsStayUp`, an action property | `HostBooksProofs` |
| `KeptFilesAreWhole`, `NothingIsLeftBehind` | `FileSpec => []KeptIsWhole`, `[]NothingLeftBehind` | `HostBooksProofs` |

**Lease.** `TenuresDisjoint` is not inductive: it says nothing of the lease that is
live. `IInv` adds that the live lease is the last one issued, within the grant and its
expiry (`LeaseCurrent`), and that no input accepted so far has a younger lease than that
or, under the live one, a sequence number greater than `lastSeq` (`HistoryOld`).
With that the generation, which wraps, is not needed to tell two leases apart: the
lease id does. The refinement reuses the invariant: a step of the manager is a begin, an
input or an end of a tenure, or it stutters. `NoEscalation` follows from
`LeaseCurrent`, which rests on the bounds of `Grantable` and `ExpiryOf`.

**Host input.** `HostControl` inherits the lease results because every host step is a
lease step or leaves the lease alone (`HostStepIsLeaseStep`). `KeysReleasedAtEnd` becomes
inductive with `StopOK`: whoever is past the claim of the stop flag has it set, and the
flag is read under the same lock as the OS call, so no key goes down after the flush.
`ResidualInv` adds where the one envelope in flight can be. `ConsentInv` counts an
answered prompt and a consent being finished as the Allow they came from.

**Admission.** `OnceInv` says that an accepted request is in the cache until at least
its own expiry, or is no longer fresh; a sweep drops only nonces older than now, which
is why its comparison must be the inclusive one. It needs the host's clock to be
monotonic, and nothing of the controller's. `TicketInv` says a used ticket is marked or
of a past generation, so clearing the marks with a new generation is safe. `GrantInv`
ties each grant to its Allow, through the bounds of `Grantable`.

**Session.** What the two control tasks may rely on is in `LifecycleInv`. `ConnInv`
keeps an authorization with the connection it was validated on: a new connection drops
it, so a loop that serves on it serves its own. `HostEndInv` says which of the host's
task and its stopping thread has the end in hand, so that one of them reports it and
the other finds the state terminal; `apply` never leaves a terminal state
(`ApplyFacts`). `CtlInv` ties the controller's state to where its task is.

**Event stream.** With an empty stream the window shows what was last told: `FeedInv`
extends that to a stream that is not empty and to the event a task has yet to emit
(`ReaderSound`: what is shown once all of it is read), and to the state the session
itself is in (`SessionSound`). `start` emits up to five events before anybody reads, so
`EventFeed` assumes `Depth >= 5` (32 in the code).

**Share loop.** `ShareInv` says where each viewer's grant can be: queued only with an
Allow of its own (`Queued`, `InboxInv`), allowed only by an answer to a prompt that was
open for it (`AskInv`, `AllowedInv`), the handle in the slot only that of who is served
(`HandleIsServed`). All of it holds for any number of windows. The slot itself follows the
running share only while one window starts shares (`RunningIsStoppable` in the table of
disagreements), so `SlotIsTheShare` is left to TLC.

**Composition.** A behaviour of a sum is a behaviour of the part it chose:
`EachPartSteps` shows that a step of `MCSessions` is a step of one part and leaves the
others alone, and `EachPartRuns` lifts the invariants of the parts to the sum.

**Signals.** The age of a signal is checked by the sender's date at the opening of a
connection, the guard's entry dated by the receiver's clock when the signal is shown, so
an entry can run out while a copy is still fresh (`SurfacedOnce` in the table of
disagreements). `Remembered` dates the last showing (`LastShown`): it is within the time a
copy can be shown at all, so late that the showings before it, each `MaxAge` after the
one before, fit in, and remembered since. `Timely` bounds what a connection under way may
still show. The bound of `ShowingsBounded` follows, whatever `Skew` and `SlowRead` are.

**File push.** `KeptIsWhole` speaks of the file that is kept, and all that decides it
happened before. `SinkInv` says where the open file is, and `Named` that whatever is
written was allowed. A sender that gives up leaves its chunks under way, so the chunks of
two offers can meet in one file; `StreamInv` keeps all of them in the order in which they
were read, by offer and place within it (`Before`). `StoredInv` says the same of what is
stored (`Ordered`) and is the argument for the size check of `finish`: within one offer
the index of a stored chunk runs ahead of its place in the file by as many chunks as were
lost and cannot pass the end of the file, so a file of one offer and of the right length
has lost none.

**Cursor.** That a shape arrives as its id is safe because the two caches evict in step,
which is a statement about everything between them. `CachesInStep` says that the messages
on the stream and in the queue lead from what the sink holds to what the host recorded:
there is a chain of cache states, one after each message, in which every id that is sent
alone is known when it arrives. A message sent extends the chain at its end, one that is
read takes its first state away. `OwnIds` keeps an id with its shape.

**Keys of the viewer.** The gate, the dispatch, the revoke and the flush are steps of
their own. `Phases` says what each can find: between gate and dispatch a lease can only
end, and it is replaced only once it has. Once its end has flushed, nothing is down
(`Down`), but for the action that had passed the gate before and is dispatched after it;
that one is remembered as `late`; `unseen` says that something once was down which the
page did not see going down, or which the host let go of or took without its lease. The first
of the two theorems needs no more, and nothing of the order of the commands.
For `TypedAsHeld` a new lease has to find nothing down that the page does not know of, and
no envelope of its own on the way (`NewLeaseIsClean`), and behind an envelope of the live
lease there are only more of it (`Stamps`). That is not enough, because a key is typed by several envelopes, its own and
those of the modifiers before it: `Typed` says that, once the envelopes on the way are all
the live lease's, there is a chain of typed key sets (`TypedChain`), one after each
envelope, from what is down at the host to what the page holds. The hypotheses of this
one are that no command of the page overtakes another (with `InOrder = FALSE` TLC leaves a
key down, `DownIsFlushable` in the table of disagreements), that Shift, Ctrl and Cmd exist
(`NMods >= 3`; the swap and the right Shift name them), and that the right Shift is a
plain usage, as the page sends it. The instance of `keepers` meets all three.

**Devices.** `NewestOnly`: of all screen sessions only the newest can be untold, and only
while a share has it. `OneOwner`: only the thread of the last start can own the device,
and outside of `start` only if the caller has its handle; `OwnSamples`: a slot that each
start makes anew holds what that start captured, the one that all share what the last
did. Both except the macOS streams that `LeftBehind` names, because the code gives up a
stop or a start after five seconds and goes on; what they break is `StopMeansOff` in the
table of disagreements. `DownAtResumed`: what is down is down at a device that the
compositor lets emulate and that can take its release. `ReleasesFollow`: behind every
press on its way, and for all that is down at the bound device, there is a release on its
way or the sink tracks it. Of a device that another has replaced it says nothing
(`DownIsTracked` in the table).

**Video.** What may pass the gate is a statement about what the source may hand out next:
`GateInv` says that while the gate is open this is the frame after the last that passed,
and nothing is stashed behind a gap. It needs nothing of how frames are numbered, so
`GateChain` holds for every encoder. The other needs that a number says when its frame
was encoded (`Numbered`): a number is one less than the place in the stream, and only the
last key frame has the number of the last key frame. `RepairInv` follows the request from
the loop through the queue, the stream and the pump's flag to the frame that answers it,
which is not older than the frame stashed behind the gap, or it would be dropped as stale
when that one is handed out. It is about encoders whose numbers go on (`~RestartsIds`,
VP8, VP9 and OpenH264); VideoToolbox begins them again, and what becomes of its frames is
`NothingNewIsStale` in the table of disagreements. That the lowest frame of a set exists (`LowestExists`) rests on the
library's theorem that numbers are well-founded.

**Media pump.** `InStep`: the place in the group that the wrapper of libvpx counts is the
one libvpx counts, over every key frame that is forced and every codec that is built
again, so that a frame is of the layer the wrapper takes it for. `StartsAfresh`: as long
as the encoder's size is not that of the last frame forwarded, the next frame it makes is
a key frame. `RunsAt` says of the bitrate applied last that the codec has it now and that
one built from its configuration would, after the clamps of either; a configure that
fails excepts both this and the announced size until the next that does not (`misset`).

**Calls.** The answer is one bit of a context, and the invariant follows all that it sets
off: the command in the media queue, the supervisor that starts, the microphone (`Local`);
the accept in the queue of messages, on the connection, and in the state of the caller
that read it (`Heard`). Two facts carry it: the receiver of a context is taken once, so
that its control loop keeps the connection it was given, whatever happens between the
locks of an accept (`Bound`, `Stays`), and only a ring has a card to accept. `Counted` says that there is a connection for every context.

**Contacts.** `RevokeHolds` and `EveryTaskCanBeStopped` are inductive together: a
command aborts the task of the entry it takes, and a task that nobody can reach any more
is aborted or has not passed the check of the book it still has to make. It needs that a
task is not one of the two values an entry has without a handle, nor a contact the owner
of a task that is gone (`ContactAssumption`).

**Prompts.** `SlotsWait` says that a slot holds a prompt of its kind that waits, and
`OneAtATime` that of two open prompts of a kind one belongs to a viewer that is gone;
so a sender that is dropped never belongs to the viewer that asks. What the page shows is
behind by the events on their way. `CountInv` therefore says that they lead from the
page's counts to the prompts that are up, one state of the counts after each event
(`Links`), and that no event closes what is not counted; so `open`, which the page counts
down to zero and not below, is exact. `MarkInv` says the same of the badge, whose last
state is that of the session. It needs that a control prompt somebody still waits for is
of the viewer being served (`Served`), or an answer could light the badge after the share.

**Panel.** In a page's first session a flag that is down means that no call is in flight,
once the page has heard that the session lives, and before that none is (`FirstSession`);
so none starts beside another. In a later session a call of an earlier one may still be
under way, and what remains is `StuckNever` and `WaitIsOpen`: while the flag is up a call
goes on by itself, or the one that waits has its timer.

Every strengthening was checked by TLC as an invariant of the instance of its run before
it was proved, but for `CachesInStep`, `CountInv` and `MarkInv`, whose chains TLC cannot
enumerate.

Only model-checked:

- the liveness properties (`KeysReleased`, `EndsReachAll`, `ToldToEndEnds`, `Recovers`,
  `EndedCallStopsCapturing` and `HangUpIsHeard`): fairness and `ENABLED` are out of the
  prover's reach;
- `SlotIsTheShare` (`sessions`), and `DownIsFlushable` as a part of `InputIsReleased`
  (`keepers`): the first holds with one starter only, the second with one back end and
  commands in order only;
- `ReadIsWritten` (`books`), which is of journal, messages, identity and contacts at
  once: the first two are about what a recursion over data computes (the chain of
  `AuditLog`, the reassembly of `WireCodec`). The library's induction theorems take an
  operator as a parameter, which no backend can instantiate; its least-element theorem
  takes a set, and `LowestExists` is all that was needed of that. The other two
  (`StoredFiles`) were not attempted.

## What is not modelled

`PROJECT.json` lists the parts with the reason for each. Inside the modelled parts these
are left out: clipboard and chat beyond their place in the streams; pairing codes and
their registry; loss of power (nothing is synced in `StoredFiles`, so a crash is the end
of a process, with what it has written kept); Ed25519 and PASETO; resampling and pixel
conversion; file-name rules; mute and the cancel signal of calls (no ring timeout is ever
started, so no cancel is ever sent); codec preferences and the unattended decision of
`ras-grant`, which the application never calls; the saturation of the ticket generation
at 2^32; in the share loop the stop at exit, the closing of the endpoint, the display,
clipboard and audio choices and the limit on signals in flight; the probes and the site.
`AcceptedOnce` is about one share: the application makes a new nonce cache for each. A
request in the first layout (v1) still decodes, but its signature is checked over a v2
body and so never verifies; `AccessRequest` therefore stands for v2 only. The codec tag of
a video frame is not one of the fields of `WireCodec`: `VideoFrameHeader::encode` writes
every codec but H264AnnexB as 0xFF, which `decode` refuses
(`ras-transport/src/lib.rs:735-738`, `779-782`). `Encoders` leaves out the layer ceiling
that `VpxEncoder` has of its own, because nothing of the application reaches it.

## Plan

What is left: the two parts of `ReadIsWritten` that are about files (`StoredFiles`) as
theorems, and `DownIsFlushable` for every value of the constants.
