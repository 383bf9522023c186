# ZaoP2P: TLA+ models, checks and proofs

ZaoP2P is a peer-to-peer chat and file-transfer program: a Rust core
(`core/src`), a Kotlin application for Android and a Tauri application for
Windows. Two devices find each other (mDNS, UDP broadcast, a signalling server,
BLE, Wi-Fi Direct), run a Noise XX handshake over a QUIC connection or over a
relay, and then exchange JSON messages and file chunks in Noise frames.

This directory holds TLA+ modules translated from that source, the TLC runs that
check them and the TLAPS proofs about them. `PROJECT.json` maps every definition
to the lines it models. Paths below are relative to the root of the repository;
"CM" is `core/src/connection_manager.rs`.

## 1. Inventory

| Part | State it keeps | Operations | What makes it correct | Module |
|---|---|---|---|---|
| Peer session wire layer (CM 79-260, 769-890, 1730-1849; `noise_session.rs`) | one Noise transport state shared by all streams, control writer, `transfer_senders`, reader tasks | `send_message`, `transfer_stream_sender`, writer and reader tasks, `decrypt_and_dispatch` | the peer dispatches a prefix of what was encrypted, in that order | `Wire`, `OrderedPrefix` |
| File transfer engine (CM 892-1230, 1361-1700; `transfer.rs`; tables `file_transfers`, `chunk_manifest`) | `outgoing_transfers`, `incoming_transfers`, `TransferHandle`s, chunk workers, rows | `send_file`, `accept_file`, `reject_file`, `run_outgoing_transfer`, `handle_incoming_chunk`, pause, resume, cancel, `auto_resume_transfers_to_peer` | completion is never claimed early; a cancel stops a run; counters are exact; runs end and accepted files arrive | `Transfer` |
| Session registry (CM 343-387, 731-890) | `sessions`: device id to session | `connect_to_peer`, `spawn_accept_loop`, `register_session`, removal when a control reader ends | no dead session in the map; the two ends agree; the UI is told the truth | `Sessions` |
| Identity and handshake (`identity.rs`, `noise_session.rs`, `storage.rs` 121-166) | Ed25519 and X25519 keys, `self_identity` | key generation and storage, XX handshake, id of a peer from its static key | one identity per device, for good; a session is filed under the id its handshake proved | `Sessions`, `Relay`, `Lan` |
| Internet mode (CM 394-721; `signaling.rs`, `signaling_client.rs`) | `signaling`, session tracker, handshake waiters | candidate exchange, relay request, relay handshake, `RelayData` routing | sessions are authentic; each direction is an ordered prefix; a needed relay is granted; a handshake ends; `signaling` is the live client | `Relay` |
| Folder transfer (CM 992-1017, 1237-1351, 1649-1668; `ffi.rs` 727-850) | `pending_folder_offers` | `send_folder`, batch accept and reject, an offer per file | nothing without consent; results are exact; an answer is heard; every call returns | `Folder` |
| Chat and message store (`ffi.rs` 452-565, `storage.rs`) | `devices`, `conversations`, `messages`, `QueueSink`, the chat page | send text, poll, mark read, history | a text is stored before it leaves, comes once, and receipts are true | `Chat` |
| LAN discovery (`discovery.rs`) | peer table with last-seen times | mDNS and UDP updates, pruning in `known_peers` | who runs is found where it listens; who went away is forgotten | `Lan` |
| FFI session (`ffi.rs` 121-385) | `SESSION`, event queue | `init_app`, `start_networking`, `poll_events` | whatever runs, runs under the stored identity | `Lan`, `Chat` |
| BLE mesh, STUN client, Wi-Fi Direct, QUIC set-up, rest of the applications | seen cache, sockets, Android callbacks, UI | I/O and wrappers | see section 7 | - |

**Interaction.** A UI calls the FFI, which calls `ConnectionManager` and
`Storage`. `ConnectionManager` gets connections from QUIC, peers from discovery
and signalling, turns every incoming frame into a call of `dispatch_incoming`,
and reports through `EventSink` into a queue the UI polls. All maps are behind
asynchronous locks that are released between steps, and every connection,
stream, run, handshake and chunk worker is a task of its own: the order of their
steps is up to the runtime.

**What is hard.** One implicit nonce counter over several independent streams;
maps checked under one lock acquisition and updated under another; connections
to one peer that overwrite and remove each other's entry; a waiter that is in
its map only for part of the time its messages arrive; early returns (`?`) that
skip the clean-up after them; rows, handles and channels that record the same
progress at different moments; a crash between any two of these; an answer that
races a 120 s timeout, a cancel or a reconnection. `PROJECT.json` lists these
hazards at their lines.

**How the modules build on each other.**

```
  OrderedPrefix  <- refined by -  Wire (QUIC)  and  Relay (relay)
       ^                            what a session promises to its users
       | assumed by
  Transfer, Chat, Folder         over sessions whose life is shown in
  Sessions                       between devices that come up and meet in
  Lan
```

## 2. Modules and how they correspond to the code

**`OrderedPrefix`** - the abstract channel: messages are put in a log, and the
peer takes them in exactly that order, one at a time per stream, possibly
stopping for ever.

**`Wire`** - one direction of a QUIC-backed `PeerSession`. `log` is the order in
which `NoiseSession::encrypt` was called (its length is the sender's nonce),
`net[s]` the frames on QUIC stream `s`, `txq[t]` the mpsc channel of transfer
`t`'s writer task, `reader[s]` the peer's reader task, `decN` the nonce the peer
expects. Control frames are encrypted by the caller, who holds the `sessions`
lock until they are in the control channel; chunk messages are encrypted by the
writer task of their stream. A frame decrypts only with the expected nonce; a
failure leaves the counter alone, ends that reader and, on the control stream,
removes the session. Failures: a message too large for the cipher, a write after
its nonce was spent, loss of the connection.

**`Transfer`** - one file sent by device S to device R, on top of what
`OrderedPrefix` promises: `chan[e][d]` is the sequence of messages under way to
device `d` on connection `e` in encryption order, and a direction may fall silent
for good (`Silenced`, the effect a lost or overtaken frame has in `Wire`).

| State | Code |
|---|---|
| `state`, `manifest` | S's row of `file_transfers` and rows of `chunk_manifest` |
| `outgoing`, `acceptTx`, `answer` | S's entry in `outgoing_transfers` and the oneshot of `send_file` |
| `pc[j]`, `on[j]`, `todo[j]`, `work[j]` | job `j`: a run of `run_outgoing_transfer`, its session, the rest of its loop, its chunk workers. Job 1 is the task of `send_file`, job `e > 1` the auto-resume that registering connection `e` spawns |
| `acked`, `bytes`, `paused`, `cancelled` | the job's `TransferHandle` |
| `writer`, `txq` | the transfer stream's writer task and its channel |
| `sessions`, `readers` | the registry and the control readers of both devices |
| `incoming`, `rAcked`, `rBytes`, `rCancelled`, `disk`, `handler` | R's `incoming_transfers`, its handles, the destination file, `handle_incoming_chunk` in progress |
| `sEvents`, `rComplete`, `sentEver`, `late`, `ioFailed` | events and history (`ioFailed`: some read or write has failed), used by the properties only |

Each action is one stretch of code between two points where other tasks can
intervene (an await, or a lock released). The handler of an incoming chunk has
three steps after its arrival (write, mark and acknowledge, check for completion);
a worker reads and enqueues, then marks its handle, then the manifest; auto-resume
lists, tests `contains_key`, loads the manifest and inserts in four steps; accepting
truncates the file in one step and registers in another.

Abstractions worth knowing:

- Chunk contents are reduced to the index; a checksum over an authenticated frame
  cannot fail, so `handle_incoming_chunk`'s mismatch branch is left out.
- Sizes are scaled (a file of 3 bytes in chunks of 2: two chunks, the last one
  short), except in `claim_production`, which uses the real ones. `Fits` keeps
  the Noise limit and the width of JSON.
- R keeps no manifest: `accept_file` inserts a row whose `message_id` has no row
  in R's `messages`, which violates the foreign key (`foreign_keys = ON`); the
  error is logged, and the inserts in `chunk_manifest` fail with it.
- R handles a control message in the step that takes it from the channel. The
  two lock acquisitions of `handle_file_reject` are one step, and so are the insertion
  in the set and the addition to the byte counter of `TransferHandle::mark_chunk_acked`,
  between which only a progress report can be made.
- The control stream of an overwritten session is not finished here, as it is in
  `Sessions`; a reader ends once its direction is dead or silent.
- Both ends register a new connection in the same step, and sessions are
  registered under the id the peer is known by. `Sessions` has the two ends apart.
- `MaxAnswers = 1` in the runs: both UIs drop an offer once it is answered. The
  second accept is modelled and `CompleteMeansFileWhole` is stated for one answer
  because a second one truncates the file.
- Left out: the speed samples of a handle, the unused `run_sender_workers`, the
  wording of errors, logging.

**`Sessions`** - the registry. A connection `c` has a dialer and a callee side;
`stage[c][side]` is where the task of that side stands, from the handshake over
the insertion in `sessions`, the `PeerConnected` event, the control reader, the
removal, to the `PeerDisconnected` event. `sessions[d]` is the map, `up` what QUIC
holds open, `fin` the control streams whose writer has ended because its session
is in the map no more, `shown[d]` the peers the UI of `d` was last told are
connected. A dial names the device that answers at the address and, separately,
the id the caller expects: a table entry may be out of date. An id is the key it
is the hash of, so the ids of a device's two keys differ, as they do in the code.

**`Relay`** - Internet mode. `out[d]` and `inbox[d]` are the two directions of a
WebSocket, whose reader and writer tasks keep the order; the event loop handles
one event at a time, `hs[d][i]` is the handshake task of session `i`, `waiters[d]`
and `chan[d][i]` are `relay_handshake_waiters` and its channels, `enc`, `dec` the
nonces, `held` the frames a forwarder has encrypted and not yet sent. The server
is external: it forwards in order, grants a relay on one request or on two
(`BothMustRequest`), and may close one. STUN is taken to answer and hole punching
to fail. `agree` says whether the id a handshake reveals is the advertised one:
in this code it never is (section 4), and the mismatch branch of the handshake is
then the only one; `agree = TRUE` checks what the rest would do. A new WebSocket may
come up while the loop of the last one still has events to handle; they are taken
first. A second client beside a live one, which both user interfaces can also
bring about, would need the server's treatment of a device registered twice and is
not modelled. A send that is refused because the writer task has ended would end a
handshake task and leave its waiter: for the safety properties that is a task that
takes no further step, and the liveness properties are stated for runs without a
fault. Crossing offers (several session ids) are left to the theorems.

**`Lan`** - coming up and being found. Calls of `init_app` and `start_networking`
run concurrently, step by step (test of `SESSION`, load, save, bind and start,
set), and the process may die between any two; the other device's peer table is
updated by mDNS and by UDP broadcast and pruned when it is polled. A call's number
stands for the identity it would generate and the port it would bind.

**`Chat`** - texts between two devices: the rows of `devices`, `conversations` and
`messages` with their foreign keys, `send_text_message` step by step, connections
that replace each other, the control readers, `QueueSink`, and the chat page with
its polling, its bubbles, `mark_message_read` and the history it loads.

**`Folder`** - `send_folder` of both layers, step by step, with
`pending_folder_offers`, the oneshot channel, the timeout, the answers of R's user,
the offers of the files and the rows written at the end. `offered` and `skipped` are
history: the files whose offer was enqueued, and those whose `send_file` failed. Taking
the sender out of an entry and removing the entry on a rejection are one step.

Abstractions in the last five modules: bodies, names, sizes and times are left
out; a connection registers both ends in separate steps (`Sessions`, `Chat`) or in
one (`Folder`); `Chat` and `Folder` take a peer to be known by one id. `Chat` has one
peer besides the device itself: any other chat is "not open". Typing and presence
messages and `DeliveryAck` (which no code sends) are left out.

The `MC` modules instantiate these for TLC; the `.cfg` files give the constants.
**`WireProofs`, `TransferProofs`, `SessionsProofs`, `LanProofs`, `FolderProofs`,
`ChatProofs`, `RelayProofs`** hold the theorems. The operators whose names contain `Mutant` are faulty variants of the operator that follows them, kept to
confirm that each property notices the fault; no specification uses them.

## 3. Runs

| Run | Checks | Bounds |
|---|---|---|
| `wire` | `TypeOK`; per stream, frames are in nonce order (`FramesInOrder`); a lost frame is never delivered nor passed (`LossIsFinal`); `Wire` implements `OrderedPrefix` (`Refines`); while no transfer stream was opened every control message is dispatched if the connection stays up (`ControlDelivered`) | 2 transfer streams beside the control stream, 4 frames, 2 messages ahead per writer; 721 thousand states |
| `transfer` | `TypeOK`; after a cancel, also of a paused run, at most one more worker starts (`CancelStopsSpawning`); every run ends unless left paused (`RunsEnd`); every offer is decided (`OfferDecided`); an accepted file arrives whole and R is told, unless a cancel, the loss of the connection or a read or write that did fail disturbed it (`AcceptedFileArrives`) | 1 connection, 2 workers, every fault, pause, 1 cancel; 311 thousand states |
| `transfer_recovery` | a row says completed only when every chunk was put on a stream (`CompletedMeansAllSent`); R reports only whole files (`CompleteMeansFileWhole`); byte counters are exact at R and less than a chunk ahead at S (`ProgressIsAccurate`); the map follows the jobs of all connections, and an undecided offer keeps its `accept_tx` (`EntryTracksJob`) | 2 connections, 1 crash of either device, connection loss, 1 worker; 3.5 million states |
| `sessions` | `TypeOK`; a session in the map has a running reader and is filed under the id its own handshake proved (`SessionIsRead`); at rest the two devices have a session over the same connection or neither has one (`SettledAgrees`), and the UI shows no peer without a session (`SettledShown`); a session only one end has does not last (`HalfOpenEnds`) | 2 devices, 2 connections dialled by either side under any id, 1 fault (loss, failed decryption, crash); 162 thousand states |
| `relay` | `TypeOK`; no handshake task meets another message than the one it waits for (`HandshakeInStep`); a relay session is with a peer that took part in its handshake and proved the expected id (`RelaySessionAuthentic`); each direction implements `OrderedPrefix` (`RelayRefines`); a handshake both tasks wait in ends (`HandshakeEnds`) | 2 devices, 1 session id, 2 frames per direction, 1 fault, a server that grants a relay on one request (with one that waits for both nothing behind the grant happens, see section 4); 64 thousand states |
| `lan` | `TypeOK`; whatever runs and whatever another device knows is the stored identity (`OneIdentity`), which never changes (`IdentityStays`); who went away leaves the table (`GoneIsForgotten`); the only stack that runs is found at its address (`RunningIsFound`) | 4 calls, entries expire after 2 ticks, any number of crashes; 19 thousand states |
| `chat` | `TypeOK`, which holds the foreign keys; a text that left is in its author's tables (`SentIsStored`); it comes once (`TextComesOnce`); a receipt names a text that was rendered (`ReceiptIsTrue`); a text sent over a connection that stays up is polled (`SentIsPolled`) | 1 text, 2 connections, 2 faults; 117 thousand states. Two texts without faults pass too |
| `folder` | `TypeOK`; no file is offered, and S's user told nothing, that R's user did not decide (`FilesOnlyAfterAccept`); every file the loop has passed is among the results, in order, or had an offer of its own that failed, R is shown no file that is not returned, and the rows are those of the results (`ResultsExact`); a waiting call's entry is armed (`AnswerIsHeard`); every call returns (`FolderReturns`) | 2 calls at once, folders of 0 to 2 files, 1 fault; 115 thousand states |
| `wire_streams` | violation of `StreamsStayDecryptable` | 1 transfer stream, 3 frames |
| `claim_refused` | violation of `RefusedIsNotStreamed` | 2 connections |
| `claim_production` | violation of `AcceptedFileArrives` | the real sizes: 9 000 000 bytes, 8 MiB chunks, 65535-byte frames |
| `claim_identity` | violation of `AdvertisedPeerConnects` | no faults |

**Why the bounds are enough to be interesting.** Two streams besides the control
stream give three tasks that can overtake each other; four frames suffice for one
to be lost, one behind it on the same stream and one on another. Two chunks with a
short last one are the least for which order, partial progress and the byte count
of the last chunk matter; two connections the least for a stale reader, a session
that is overwritten, a second job and a duplicate chunk; one crash can fall between
any two steps. Four calls give a first launch, two racing calls of
`start_networking` and one after a crash. Two folder calls can mix up each other's
answers; folders of two files the least of which one offer fails. The theorems of
section 5 do not depend on these bounds.

No run checks for deadlock: the system may stop (nobody sends, the bounds are
used up), and what must not stop is stated as liveness.

**Fairness.** Weak fairness on the steps of tasks: the tokio runtime polls every
ready task, QUIC delivers what a live direction carries and reports the loss of a
connection to its reader, timers fire, the signalling server passes on what it
receives, a running stack announces itself every 5 s, the UI polls. No fairness on
users (dial, offer, answer, pause, cancel, open a chat), faults, crashes,
reconnections, or on a reader that would have to notice a silenced direction.
`FolderReturns` needs only the call itself and its timer. `RunsEnd` and
`AcceptedFileArrives` assume that the user does not leave the transfer paused for
ever; `RunningIsFound` that an mDNS registration is answered again and again,
which is what corrects the address of a restarted device (a broadcast alone only
refreshes an entry that came from mDNS).

## 4. What the runs found

Each is a finding in `PROJECT.json`, with the line quoted and a run whose trace
shows it.

- `wire_streams`: frames of two streams can overtake each other, and the reader
  then meets an unexpected nonce and gives up for good, although nothing failed.
- `claim_production`: with the real chunk size no full chunk fits in a Noise
  frame; the writer task ends and the sender records the transfer as completed.
- `claim_refused`: a refused, timed-out or cancelled offer leaves its row
  `queued`, and the next connection streams the file.
- `claim_identity`: the id a handshake reveals is the hash of the X25519 key, the
  advertised id the hash of the Ed25519 key. `connect_to_peer` refuses every peer
  dialled under its advertised id, after message 3 has let the other end register
  the session. The modules other than `Sessions` take a
  peer to have one id, so that what lies behind this point can be checked at all.

Seven more claims of comments are stated as properties and refuted by TLC with a
configuration of their own, `tlc -config <configuration> <MC module>`; they are no runs of
`PROJECT.json`.

- `PassedOverIsRunning` (`MCTransfer_f_resume.cfg`: 2 connections, a loss). An early
  return of `run_outgoing_transfer` leaves its entry in `outgoing_transfers`, and the
  auto-resume of the next connection takes the interrupted transfer for a running one and
  passes it over. CM 810-812: "check whether any outgoing transfer to this peer was left in
  a non-terminal state (app restarted mid-send, connection dropped, etc) and, if so, resume it".
- `ResumeSkipsReceived` (`MCTransfer_f_acked.cfg`: 2 connections, 1 crash). A chunk is marked
  once it is enqueued locally; if the process dies or the connection is lost before it
  arrives, the resumed run leaves it out, and nothing sends it again. `transfer.rs` 160-161:
  "Mark a chunk as successfully sent/received and acked by the peer".
- `CancelStopsReceiving` (`MCTransfer_f_cancel.cfg`: no faults). R takes up and writes chunks
  of a transfer its user has cancelled. CM 1671: "workers/writers check this flag
  cooperatively".
- `RelayGranted` (`MCRelay_f_both.cfg`: no faults). Only the device that offered candidates
  requests a relay (CM 449); a server that waits for both never grants one. CM 467-468:
  "Called when the signaling server confirms both sides of a session_id have requested a
  relay"; the repository's README says so of the server (206-207, 412-413). The run `relay`
  assumes a server that takes one request, because nothing behind the grant happens otherwise.
- `HandshakeCompletes` (`MCRelay_f_handshake.cfg`: no faults). Message 1 that the event loop
  handles before the responder's spawned task has inserted its waiter is dropped, and both
  tasks wait for ever. CM 308-309: "Routes RelayData frames to an in-progress relay handshake
  [...] before a PeerSession exists for that peer".
- `SignalingStaysSet` (`MCRelay_f_signaling.cfg`: 1 dropped WebSocket). The `Disconnected` of
  an earlier WebSocket clears `signaling`, although a later call of
  `connect_signaling_server` has put a new client there. CM 303-304: "set once
  connect_signaling_server is called. None until then".
- `OneStack` (`MCLan_f_twice.cfg`: 3 calls). Two racing calls of `start_networking` start two
  stacks; the second keeps accepting and announcing under the same identity. `ffi.rs` 329-330:
  "Idempotent: calling twice is a no-op". `RunningIsFound` is stated for a single stack.

Seen while modelling and confirmed with the models by runs not kept here:

- *Transfer.* The timeout of an offer emits no event, although CM 1117-1119 speaks of a
  "rejection-equivalent event". Accepting an offer again truncates the file.
- *Sessions.* When both devices dial each other, the overwritten session of one
  connection finishes its control stream, and the reader at the other end then
  removes the session of the newer connection: two devices can lose each other
  without any fault. `SettledAgrees` says they at least agree on it. A late
  `PeerDisconnected` can leave the UI showing a peer offline that has a session.
- *Relay.* Frames that arrive between message 3 and the removal of the waiter are
  swallowed, after which every later frame fails to decrypt. `RelayClosed` and
  `Disconnected` leave the session in the map, where it looks alive and is useless.
- *Chat.* Received texts are never stored, so the history holds only a device's
  own texts, although the repository's README (526-527) says history persists and
  reloads; texts polled while another chat is open are lost (`missed`); a text's
  row stays `pending` for ever, for nothing sends a `DeliveryAck` and a receipt
  only changes the bubble; a receipt polled before the page has rendered its own
  text has no effect.
- *Folder.* The files of a folder get no `file_transfers` row (their message id
  has no row), so CM 1229's "per-file resumability" does not hold; an offer that
  cannot be sent leaves its entry in `pending_folder_offers`; the Windows page has
  no case for a folder offer.

## 5. Proofs

All theorems hold for every value of the constants that the named `ASSUME`s of the
modules allow, and nothing else is assumed. These are: sizes and bounds are naturals,
chunk size and parallelism positive, the control stream is not a transfer (`Wire`,
`Transfer`); a folder is a sequence of distinct files (`Folder`: a directory walk yields
a path once); there are exactly two devices (`Chat`, whose rows and pages are those of
one peer); device ids are ordered (`Relay`, whose tie-break compares them: integers
there, strings in the code) and the value for "no session" is neither a device nor a
session. The devices, connections, session ids and calls themselves are arbitrary sets.
Each inductive invariant was checked by TLC on the bounds of section 3 before it was
proved.

`WireProofs`
- `InductiveInvariant`, whence `TypeCorrect` and `FramesStayInOrder`: the
  inductive invariant is `TypeOK`, `decN <= Len(log)` and `FramesInOrder`. The
  middle part is needed because a new frame gets nonce `Len(log)`, which must not
  lie behind `decN`; the rest of `FramesInOrder` is inductive with it.
- `LossStaysFinal`: a frame is put on a stream only as it is encrypted, so one
  that is on no stream cannot come back, and `decN` moves only by taking the frame
  it points at.
- `WireRefinesOrderedPrefix`: `taken <- decN`; `Encrypt` maps to `Put`, `Decrypt`
  to `Take` (by `FramesInOrder` the frame with nonce `decN` on stream `s` is
  `log[decN + 1] = s`), `DispatchDone` to `Done`, everything else to a stutter.
  This is what lets `Transfer` replace the streams by one ordered channel.

`TransferProofs`
- `TypeCorrect`: one lemma per group of actions.
- `CompletedIsSent` (`CompletedMeansAllSent`). Invariant `Accounting`: whatever is
  marked, in a handle, in the manifest or by a worker that is through, was sent; a
  running job's chunks are marked, in work or still to come; a job joins its
  workers only at the end of its loop or after a cancel; a job about to report
  completion has everything sent. The row alone says nothing of how it came to be:
  a resumed job trusts the manifest that an earlier process wrote.
- `CancelStopsRun` (`CancelStopsSpawning`). Invariant `LateBound`: a cancelled
  run that has spawned its late worker is past the loop, or on its way to the test
  that ends it.
- `CompleteIsWhole` (`CompleteMeansFileWhole`). Invariant `FileInv`: until R has
  accepted there is no handle, handler or report; afterwards, with a single answer,
  a chunk marked or about to be marked is on disk.
- `EntryFollowsJob` (`EntryTracksJob`), with `LateBound` (a job that is not
  registered has not run) and the emptiness of the oneshot before the offer is out.
- `ProgressStaysAccurate` (`ProgressIsAccurate`) is inductive with `TypeOK` alone; the
  work is in the sizes. Every chunk but the last has the full size and the last one
  ends the file (`LastChunkFact`), so that a chunk new to a set adds its own length to
  the bytes of the set (`BytesOfAdd`), and `min(n * CHUNK_SIZE, FILE_SIZE)`, from which a
  resumed handle starts, exceeds the bytes of the manifest by less than a chunk
  (`ResumedBytesFact`). A chunk that comes twice is not counted twice because the
  handle tests its set in the same step.

`SessionsProofs`. Its inductive invariant is `TypeOK` with four parts. `DialInv`: a
connection that has tasks was dialled and joins two different devices. `OrderInv`:
the callee starts before the dialer is through, and a connection with a failed task
is down. `ReadInv`: an entry of the map is one whose own side is at `notify` or
`live`. `ShownInv`: a shown peer has an entry, or some connection to it is at a stage
that still has a `PeerDisconnected` to send.
- `SessionsAreRead` is `ReadInv`. It is inductive because a reader that ends removes
  the peer's entry whichever connection it is of: the removal that costs two devices
  a good session (section 4) is also what leaves no dead one behind.
- `SettledDevicesAgree`. At rest, the side of an entry is `live`, its connection is up
  and the other side's stream is not finished. By `OrderInv` that other side has
  started and has not failed, so it is `live` or `over`; its writer has not ended, so
  its entry is this connection.
- `SettledIsShown`. At rest nobody is at `leave`, and by `ShownInv` a shown peer
  without an entry would have a `live` connection, whose writer has then ended, so
  the reader at the other end is `over`. That end's writer has not ended (this reader
  is still `live`), so its entry is this connection, which `ReadInv` rules out.

`LanProofs`. Its inductive invariant is `TypeOK` with `Alone` (nothing else is under
way while `init_app` is), `NoRowYet` (an identity is generated only while there is no
row, and `start_networking` never generates one) and `LoadedIsRow` (what a call, a
stack, `SESSION` or a peer table holds is the row).
- `OneIdentityHolds` and `IdentityIsKept` follow. `Alone` is where the proof depends on
  the applications, which call `init_app` first, from the thread of their UI.

`FolderProofs`. The inductive invariant adds four parts to `TypeOK` and the properties.
`WireInv`: what is under way to S are decisions R's user has taken, to R only offers.
`AskInv`: a batch is offered once and R's user asked about it at most once. `AnswerInv`:
what the channel of a call holds, and the stages behind the answer, follow the decision.
`ResultInv`: the results come from the part of the manifest the loop has passed.
- `OfferedIsAccepted`, `ResultsAreExact`, `AnswersAreHeard`, `TypeCorrect`. `AskInv` is
  what keeps the answers of two calls, and an answer before and after a crash of R,
  apart: a decision is never revised, so an answer that is late is still the decision.
  The order of the results, and that no file is both returned and skipped, use that the
  files of a folder are distinct: the file the loop stands at is the one of its position
  only, so by `EveryFileAccounted` it is neither returned nor skipped yet, and its offer
  makes it one of the two. R is shown a file only by an offer under way, which went out
  with its result.

`ChatProofs`. The inductive invariant is `TypeOK` with `CallInv` (a call past the
insertion has its row), `WireInv` and `EventInv` (a text is at one place: on the
connection it was sent over, once, or in the queue of its recipient, and then on no
connection), `PolledInv` (what was polled was sent) and `ReceiptInv` (only rendered
texts are marked and confirmed).
- `SentTextsAreStored`, `TextsComeOnce`, `ReceiptsAreTrue`, `TypeCorrect`. The heart is
  that a text moves from connection to queue to page and is copied nowhere, over any
  number of connections that replace each other; `via` ties it to one of them. A crash
  empties the queue and the connections and keeps the rows.

`RelayProofs`. The invariant has three layers, each proved with the ones before it.
- `PlaceInv` (`PlacesHold`, `TypeCorrect`): a session has no party or two, nobody else
  has a stage, a nonce or a message in it, and a frame under way was encrypted.
- `RelayRefinesOrderedPrefix` (`RelayRefines`) needs this layer only: encrypting maps to
  `Put`, taking a frame with the expected nonce to `Take`, the end of its dispatch to
  `Done`; a session without parties stutters.
- `OnceInv` (`AnnouncedOnce`): the offer, the incoming candidates, their result and the
  request for a relay are one token that moves between the queues of the two devices and
  is gone once the relay is requested; so `RelayReady` comes to a device once, before its
  handshake, also when it was cut off and has a new WebSocket in between.
- `HandshakeInv` (`HandshakesFit`): the way to a device is one pipeline (the other
  device's queue to the server, its own inbox, the channel of its handshake). `StageInv`
  says which stages of the two tasks go together, with roles given by the tie-break;
  `ShakeInv` which handshake messages may be in the pipeline at which stages, each once,
  and that message 3 is ahead of every frame; `ThirdInv` that message 3 is still in it
  when the responder waits for it, unless the session is cut off or closed. The last is
  what excludes that a frame of an initiator that is through is taken for message 3.
- `HandshakeStaysInStep` (`HandshakeInStep`): whatever is at the head of the channel of
  a task that waits is by `ShakeInv` the message it waits for, or a frame; and a frame is
  excluded by `ThirdInv` and the order.
- `RelaySessionsAuthentic` (`RelaySessionAuthentic`): a session is entered at "done",
  which by `StageInv` needs `agree`, and puts the peer's task at "wait3" or behind it.

Only model-checked: the liveness properties (`ControlDelivered`, `RunsEnd`,
`OfferDecided`, `AcceptedFileArrives`, `HalfOpenEnds`,
`HandshakeEnds`, `GoneIsForgotten`, `RunningIsFound`, `SentIsPolled`,
`FolderReturns`), which are out of the prover's reach. Every safety invariant, action
property and refinement that a passing run checks is also proved.

## 6. Plan

Done: all modules of section 2 with their runs, and proofs of every safety property
these runs check. Left, if the model is taken further:

1. `Transfer`: a property for the second answer to an offer, the one hazard of the
   transfer engine without one.
2. `Relay`: two clients at once on one device, with the server's treatment of them.
3. Several transfers at once over one session, which share its control stream.

## 7. Not modelled

- The cryptography (assumed: a frame decrypts exactly with its own nonce, hashes
  are injective), pairing codes and signatures.
- QUIC itself (assumed: streams are FIFO and independent until the connection is
  lost), mDNS and multicast, the signalling server, which is not in the repository
  and is an external part of `Relay`.
- `BleMeshManager.kt`: nothing in the application originates a message
  (`broadcastMessage` has no caller outside the class), and its own relaying call
  returns at once because the id was entered in the seen cache just before.
- `stun_client.rs`: one request, one response and the parsing of a datagram.
- Wi-Fi Direct: Android callbacks and a port exchange, which end in
  `connect_to_peer`.
- JNI, C and Tauri wrappers, which convert arguments; the configuration in
  `transport.rs`; the user interfaces apart from the chat page in `Chat`.
- Of the transfer engine: several transfers at once, the speed samples, the unused
  `run_sender_workers`.
