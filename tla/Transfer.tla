------------------------------ MODULE Transfer ------------------------------
(***************************************************************************)
(* One file transfer between a sending device S and a receiving device R:  *)
(* offer, answer, the parallel chunk workers, the receiver's chunk handler, *)
(* pause, cancel, connection loss, process crashes, reconnection and the    *)
(* auto-resume that follows it.                                             *)
(*                                                                          *)
(* Each connection e has one channel per direction, in ENCRYPTION order:    *)
(* that, and that a direction may at any time fall silent for good, is what *)
(* OrderedPrefix promises and Wire implements.                              *)
(*                                                                          *)
(* The transfer engine of S runs JOBS: job 1 is the task that send_file     *)
(* spawns, job e > 1 the auto_resume_transfers_to_peer task that the        *)
(* registration of connection e spawns.  A job owns one TransferHandle.     *)
(***************************************************************************)
EXTENDS Integers, Sequences, FiniteSets

CONSTANTS
    FILE_SIZE,            \* bytes of the file
    CHUNK_SIZE,           \* 8 MiB in the program
    DEFAULT_PARALLELISM,  \* permits of the chunk workers' semaphore, 6 in the program
    NOISE_MAX,            \* largest ciphertext the Noise state makes, 65535
    JSON_WIDTH,           \* bytes of JSON per payload byte ("7," to "255,")
    FdSource,             \* the source is a file descriptor, not a path
    Faults,               \* faults the environment may inject, see FaultKinds
    Pausable,             \* the sending user may pause and resume
    MaxConns,             \* bound: connections, hence jobs
    MaxAnswers,           \* bound: answers of the receiving user (1 in both UIs)
    MaxCancels,           \* bound: cancel requests
    MaxCrashes            \* bound: process crashes

ASSUME SizeAssumption ==
    /\ FILE_SIZE \in Nat
    /\ CHUNK_SIZE \in Nat \ {0}
    /\ DEFAULT_PARALLELISM \in Nat \ {0}
    /\ NOISE_MAX \in Nat
    /\ JSON_WIDTH \in Nat \ {0}

\* "lost": connections break; "silent": a direction falls silent;
\* "io": reads of the source and writes of the destination may fail.
FaultKinds == {"lost", "silent", "io"}

ASSUME FlagAssumption == /\ FdSource \in BOOLEAN
                         /\ Pausable \in BOOLEAN
                         /\ Faults \subseteq FaultKinds
ASSUME BoundAssumption ==
    /\ MaxConns \in Nat \ {0}
    /\ MaxAnswers \in Nat
    /\ MaxCancels \in Nat
    /\ MaxCrashes \in Nat

-----------------------------------------------------------------------------
(* Sizes *)

\* TransferHandle::new: total_bytes.div_ceil(CHUNK_SIZE)
TotalChunks == (FILE_SIZE + CHUNK_SIZE - 1) \div CHUNK_SIZE
Chunks == 0..(TotalChunks - 1)

\* read_chunk_from_source: remaining.min(CHUNK_SIZE)
ChunkLen(c) ==
    IF FILE_SIZE - c * CHUNK_SIZE < CHUNK_SIZE THEN FILE_SIZE - c * CHUNK_SIZE ELSE CHUNK_SIZE

\* A chunk message is JSON whose payload is an array of numbers; encrypt adds
\* a 16-byte tag and refuses what exceeds the Noise limit.
Fits(c) == JSON_WIDTH * ChunkLen(c) + 16 <= NOISE_MAX

Conns == 1..MaxConns
Jobs == Conns
Handles == 1..MaxAnswers
Devices == {"S", "R"}

-----------------------------------------------------------------------------
VARIABLES
    (* database of S *)
    state,          \* file_transfers.state, "none" before the row exists
    manifest,       \* chunk_manifest
    (* memory of S *)
    outgoing,       \* the job whose handle is in outgoing_transfers, 0 if none
    acceptTx,       \* that entry still holds accept_tx
    answer,         \* what the oneshot carries to send_file's waiter
    pc,             \* pc[j]: where job j is
    on,             \* on[j]: the session (connection) the run of job j uses, 0 if none
    todo,           \* todo[j]: chunks the loop has not reached
    work,           \* work[j][c]: the worker of chunk c
    acked,          \* acked[j]: acked_chunks of the handle
    bytes,          \* bytes[j]: bytes_transferred of the handle
    paused,         \* paused[j], cancelled[j]: flags of the handle
    cancelled,
    writer,         \* writer[e]: the transfer stream's writer task on connection e
    txq,            \* txq[e]: its mpsc channel
    (* connections *)
    conns,          \* how many there have been
    up,             \* up[e]
    live,           \* live[e]: directions of e that still deliver
    chan,           \* chan[e][d]: messages under way to device d
    sessions,       \* sessions[d]: the connection in d's sessions map, 0 if none
    readers,        \* readers[d]: connections whose control reader runs at d
    (* R *)
    offered,        \* the UI of R has seen the offer
    answers,        \* answers given so far
    accepting,      \* accept_file has preallocated and not yet registered
    incoming,       \* handle in incoming_transfers, 0 if none
    rAcked,         \* rAcked[h], rBytes[h], rCancelled[h]: that handle
    rBytes,
    rCancelled,
    disk,           \* chunks whose bytes are in the destination file
    handler,        \* handler[e]: handle_incoming_chunk on connection e
    (* events and bounds *)
    sEvents,        \* kinds of events S's UI has been sent
    rComplete,      \* R's UI was told that the transfer is complete
    sentEver,       \* history: chunks ever put on a transfer stream's channel
    late,           \* history: late[j] workers job j spawned after its cancel
    ioFailed,       \* history: a read of the source or a write at R has failed
    cancels,
    crashes

db == <<state, manifest>>
entry == <<outgoing, acceptTx, answer>>
run == <<pc, on, todo, work, late>>
handle == <<acked, bytes, paused, cancelled>>
stream == <<writer, txq, sentEver>>
net == <<conns, up, live, sessions, readers>>
recvH == <<rAcked, rBytes, rCancelled>>
recv == <<offered, answers, accepting, incoming, recvH, disk, handler, rComplete>>
bounds == <<cancels, crashes, ioFailed>>
sender == <<db, entry, run, handle, stream>>
vars == <<sender, net, chan, recv, sEvents, bounds>>

Kinds == {"offer", "accept", "reject", "cancel", "ack", "complete"}
Control(k) == [kind |-> k, chunk |-> 0]
FileChunk(c) == [kind |-> "chunk", chunk |-> c]
Messages == {Control(k) : k \in Kinds} \cup {FileChunk(c) : c \in Chunks}

Idle == [step |-> "idle", chunk |-> 0, h |-> 0]

Init ==
    /\ state = "none" /\ manifest = {}
    /\ outgoing = 0 /\ acceptTx = FALSE /\ answer = "none"
    /\ pc = [j \in Jobs |-> "off"]
    /\ on = [j \in Jobs |-> 0]
    /\ todo = [j \in Jobs |-> {}]
    /\ work = [j \in Jobs |-> [c \in Chunks |-> "none"]]
    /\ late = [j \in Jobs |-> 0]
    /\ acked = [j \in Jobs |-> {}]
    /\ bytes = [j \in Jobs |-> 0]
    /\ paused = [j \in Jobs |-> FALSE]
    /\ cancelled = [j \in Jobs |-> FALSE]
    /\ writer = [e \in Conns |-> "none"]
    /\ txq = [e \in Conns |-> <<>>]
    /\ sentEver = {}
    /\ conns = 1
    /\ up = [e \in Conns |-> e = 1]
    /\ live = [e \in Conns |-> IF e = 1 THEN Devices ELSE {}]
    /\ chan = [e \in Conns |-> [d \in Devices |-> <<>>]]
    /\ sessions = [d \in Devices |-> 1]
    /\ readers = [d \in Devices |-> {1}]
    /\ offered = FALSE /\ answers = 0 /\ accepting = FALSE
    /\ incoming = 0
    /\ rAcked = [h \in Handles |-> {}]
    /\ rBytes = [h \in Handles |-> 0]
    /\ rCancelled = [h \in Handles |-> FALSE]
    /\ disk = {}
    /\ handler = [e \in Conns |-> Idle]
    /\ sEvents = {} /\ rComplete = FALSE
    /\ cancels = 0 /\ crashes = 0 /\ ioFailed = FALSE

-----------------------------------------------------------------------------
(* Sending *)

Other(d) == IF d = "S" THEN "R" ELSE "S"

\* live[e] holds the devices that connection e still delivers to.
Post(ch, e, d, m) == IF d \in live[e] THEN [ch EXCEPT ![e][d] = Append(@, m)] ELSE ch

\* ConnectionManager::send_to(device d, message k): what becomes of the
\* channels.  With a session whose direction is silent the frame is lost.
SendTo(d, k) ==
    chan' = IF sessions[Other(d)] = 0 THEN chan
            ELSE Post(chan, sessions[Other(d)], d, Control(k))

\* The outcomes send_to can report: an error without a session, success on a
\* live one, either when the direction has fallen silent (the control writer
\* may or may not have noticed).
SendToOutcomes(d) ==
    LET e == sessions[Other(d)]
    IN  IF e = 0 THEN {"err"} ELSE IF d \in live[e] THEN {"ok"} ELSE {"ok", "err"}

\* Fault: the entry is left in the map.
DropEntryMutantKeeps == UNCHANGED entry

\* The entry leaves the map; an unused accept_tx is dropped, which wakes the
\* waiter with an error.
DropEntry ==
    /\ outgoing' = 0
    /\ acceptTx' = FALSE
    /\ answer' = IF acceptTx THEN "closed" ELSE answer

-----------------------------------------------------------------------------
(* S: send_file *)

\* send_file, first part: create_transfer.  (The message row is already there.)
SendFile ==
    /\ pc[1] = "off"
    /\ pc' = [pc EXCEPT ![1] = "offer"]
    /\ state' = "queued"
    /\ UNCHANGED <<manifest, entry, on, todo, work, late, handle, stream, net, chan,
                   recv, sEvents, bounds>>

\* Second part: enter the map, send the offer, spawn the waiter.  When the
\* offer cannot be sent the `?` returns and the entry stays behind.
SendOffer ==
    /\ pc[1] = "offer"
    /\ outgoing' = 1
    /\ acceptTx' = TRUE
    /\ SendTo("R", "offer")
    /\ \E r \in SendToOutcomes("R") :
          pc' = [pc EXCEPT ![1] = IF r = "ok" THEN "wait" ELSE "failed"]
    /\ UNCHANGED <<db, answer, on, todo, work, late, handle, stream, net, recv,
                   sEvents, bounds>>

\* The waiter: the peer accepted.
WaiterAccepted ==
    /\ pc[1] = "wait"
    /\ answer = "yes"
    /\ pc' = [pc EXCEPT ![1] = "start"]
    /\ UNCHANGED <<db, entry, on, todo, work, late, handle, stream, net, chan, recv,
                   sEvents, bounds>>

\* Fault: the waiter has no timeout.
WaiterMutantNoTimeout ==
    /\ pc[1] = "wait"
    /\ answer \notin {"none", "yes"}
    /\ DropEntry
    /\ pc' = [pc EXCEPT ![1] = IF answer = "none" THEN "timedout" ELSE "refused"]
    /\ UNCHANGED <<db, on, todo, work, late, handle, stream, net, chan, recv,
                   sEvents, bounds>>

\* The waiter: rejected, accept_tx dropped, or WAIT_FOR_ACCEPT_SECS over.
WaiterGivesUp ==
    /\ pc[1] = "wait"
    /\ answer # "yes"
    /\ DropEntry
    /\ pc' = [pc EXCEPT ![1] = IF answer = "none" THEN "timedout" ELSE "refused"]
    /\ UNCHANGED <<db, on, todo, work, late, handle, stream, net, chan, recv,
                   sEvents, bounds>>

-----------------------------------------------------------------------------
(* S: auto_resume_transfers_to_peer, spawned by register_session *)

\* list_resumable_transfers_with_peer
AutoResumeList(j) ==
    /\ pc[j] = "list"
    /\ pc' = [pc EXCEPT ![j] = IF state = "queued" THEN "check" ELSE "nothing"]
    /\ UNCHANGED <<db, entry, on, todo, work, late, handle, stream, net, chan, recv,
                   sEvents, bounds>>

\* outgoing_transfers.contains_key, and fd-sourced transfers are not resumed.
AutoResumeCheck(j) ==
    /\ pc[j] = "check"
    /\ pc' = [pc EXCEPT ![j] = CASE outgoing # 0 -> "skipped"
                                 [] outgoing = 0 /\ FdSource -> "nothing"
                                 [] OTHER -> "resume"]
    /\ UNCHANGED <<db, entry, on, todo, work, late, handle, stream, net, chan, recv,
                   sEvents, bounds>>

\* TransferHandle::resume_from_manifest
ResumedBytes(n) == IF n * CHUNK_SIZE < FILE_SIZE THEN n * CHUNK_SIZE ELSE FILE_SIZE

\* load_acked_chunks, and the handle made of them.
AutoResumeLoad(j) ==
    /\ pc[j] = "resume"
    /\ acked' = [acked EXCEPT ![j] = manifest]
    /\ bytes' = [bytes EXCEPT ![j] = ResumedBytes(Cardinality(manifest))]
    /\ pc' = [pc EXCEPT ![j] = "loaded"]
    /\ UNCHANGED <<db, entry, on, todo, work, late, paused, cancelled, stream, net, chan,
                   recv, sEvents, bounds>>

\* The handle enters the map, over whatever has got there since the check.
AutoResumeInsert(j) ==
    /\ pc[j] = "loaded"
    /\ outgoing' = j
    /\ acceptTx' = FALSE
    /\ answer' = IF acceptTx THEN "closed" ELSE answer
    /\ pc' = [pc EXCEPT ![j] = "start"]
    /\ UNCHANGED <<db, on, todo, work, late, handle, stream, net, chan, recv, sEvents,
                   bounds>>

-----------------------------------------------------------------------------
(* S: run_outgoing_transfer *)

\* Look the session up; without one the run fails and the entry stays.
RunStart(j) ==
    /\ pc[j] = "start"
    /\ on' = [on EXCEPT ![j] = sessions["S"]]
    /\ todo' = [todo EXCEPT ![j] = Chunks \ acked[j]]
    /\ pc' = [pc EXCEPT ![j] = IF sessions["S"] = 0 THEN "failed" ELSE "head"]
    /\ UNCHANGED <<db, entry, work, late, handle, stream, net, chan, recv, sEvents,
                   bounds>>

\* Fault: the loop does not look at the cancel flag.
LoopHeadMutantIgnoresCancel(j) ==
    /\ pc[j] = "head"
    /\ pc' = [pc EXCEPT ![j] = CASE todo[j] = {} -> "join"
                                 [] todo[j] # {} /\ paused[j] -> "pause"
                                 [] OTHER -> "spawn"]
    /\ UNCHANGED <<db, entry, on, todo, work, late, handle, stream, net, chan, recv,
                   sEvents, bounds>>

\* Head of the for loop: leave it when nothing is left or the handle is
\* cancelled, wait while it is paused.
LoopHead(j) ==
    /\ pc[j] = "head"
    /\ pc' = [pc EXCEPT ![j] = CASE todo[j] = {} \/ cancelled[j] -> "join"
                                 [] todo[j] # {} /\ ~cancelled[j] /\ paused[j] -> "pause"
                                 [] OTHER -> "spawn"]
    /\ UNCHANGED <<db, entry, on, todo, work, late, handle, stream, net, chan, recv,
                   sEvents, bounds>>

\* The pause loop ends; a cancel breaks out of this inner loop only.
PauseEnds(j) ==
    /\ pc[j] = "pause"
    /\ ~paused[j] \/ cancelled[j]
    /\ pc' = [pc EXCEPT ![j] = "spawn"]
    /\ UNCHANGED <<db, entry, on, todo, work, late, handle, stream, net, chan, recv,
                   sEvents, bounds>>

Running(j) == {c \in Chunks : work[j][c] \in {"reading", "sent", "marked"}}

\* Fault: the manifest is written before the chunk is sent.
SpawnWorkerMutantMarksEarly(j) ==
    /\ pc[j] = "spawn"
    /\ Cardinality(Running(j)) < DEFAULT_PARALLELISM
    /\ writer[on[j]] # "none" \/ up[on[j]]
    /\ writer' = [writer EXCEPT ![on[j]] = IF @ = "none" THEN "open" ELSE @]
    /\ \E c \in todo[j] :
          /\ \A d \in todo[j] : c <= d
          /\ work' = [work EXCEPT ![j][c] = "reading"]
          /\ todo' = [todo EXCEPT ![j] = @ \ {c}]
          /\ manifest' = manifest \cup {c}
    /\ late' = [late EXCEPT ![j] = IF cancelled[j] THEN @ + 1 ELSE @]
    /\ pc' = [pc EXCEPT ![j] = "head"]
    /\ UNCHANGED <<state, entry, on, handle, txq, sentEver, net, chan, recv, sEvents,
                   bounds>>

\* Acquire a permit, get the transfer stream (opening it on first use) and
\* spawn the worker of the next chunk.
SpawnWorker(j) ==
    /\ pc[j] = "spawn"
    /\ Cardinality(Running(j)) < DEFAULT_PARALLELISM
    /\ writer[on[j]] # "none" \/ up[on[j]]
    /\ writer' = [writer EXCEPT ![on[j]] = IF @ = "none" THEN "open" ELSE @]
    /\ \E c \in todo[j] :
          /\ \A d \in todo[j] : c <= d
          /\ work' = [work EXCEPT ![j][c] = "reading"]
          /\ todo' = [todo EXCEPT ![j] = @ \ {c}]
    /\ late' = [late EXCEPT ![j] = IF cancelled[j] THEN @ + 1 ELSE @]
    /\ pc' = [pc EXCEPT ![j] = "head"]
    /\ UNCHANGED <<db, entry, on, handle, txq, sentEver, net, chan, recv, sEvents,
                   bounds>>

\* Fault: open_stream is tried again for ever.
OpenStreamMutantRetries(j) ==
    /\ pc[j] = "spawn"
    /\ Cardinality(Running(j)) < DEFAULT_PARALLELISM
    /\ writer[on[j]] = "none" /\ ~up[on[j]]
    /\ UNCHANGED pc
    /\ UNCHANGED <<db, entry, on, todo, work, late, handle, stream, net, chan, recv,
                   sEvents, bounds>>

\* open_stream fails on a lost connection: the `?` returns, spawned workers
\* go on detached and the entry stays in the map.
OpenStreamFails(j) ==
    /\ pc[j] = "spawn"
    /\ Cardinality(Running(j)) < DEFAULT_PARALLELISM
    /\ writer[on[j]] = "none" /\ ~up[on[j]]
    /\ pc' = [pc EXCEPT ![j] = "failed"]
    /\ UNCHANGED <<db, entry, on, todo, work, late, handle, stream, net, chan, recv,
                   sEvents, bounds>>

\* Fault: try_send instead of send: a full channel drops the chunk, and the
\* worker takes it for sent.
WorkerSendsMutantTrySend(j, c) ==
    /\ work[j][c] = "reading"
    /\ IF writer[on[j]] = "open"
       THEN /\ txq' = [txq EXCEPT ![on[j]] = IF @ = <<>> THEN Append(@, c) ELSE @]
            /\ sentEver' = sentEver \cup {c}
            /\ work' = [work EXCEPT ![j][c] = "sent"]
       ELSE /\ work' = [work EXCEPT ![j][c] = "err"]
            /\ UNCHANGED <<txq, sentEver>>
    /\ UNCHANGED <<db, entry, pc, on, todo, late, handle, writer, net, chan, recv,
                   sEvents, bounds>>

\* A worker reads its chunk and enqueues it on the transfer stream's channel,
\* which fails once the writer task has ended.
WorkerSends(j, c) ==
    /\ work[j][c] = "reading"
    /\ IF writer[on[j]] = "open"
       THEN /\ txq' = [txq EXCEPT ![on[j]] = Append(@, c)]
            /\ sentEver' = sentEver \cup {c}
            /\ work' = [work EXCEPT ![j][c] = "sent"]
       ELSE /\ work' = [work EXCEPT ![j][c] = "err"]
            /\ UNCHANGED <<txq, sentEver>>
    /\ UNCHANGED <<db, entry, pc, on, todo, late, handle, writer, net, chan, recv,
                   sEvents, bounds>>

\* read_chunk_from_source fails.
WorkerReadFails(j, c) ==
    /\ "io" \in Faults
    /\ work[j][c] = "reading"
    /\ work' = [work EXCEPT ![j][c] = "err"]
    /\ ioFailed' = TRUE
    /\ UNCHANGED <<db, entry, pc, on, todo, late, handle, stream, net, chan, recv,
                   sEvents, cancels, crashes>>

\* Fault: the chunk is marked under its one-based number.
WorkerMarksMutantOneBased(j, c) ==
    /\ work[j][c] = "sent"
    /\ work' = [work EXCEPT ![j][c] = "marked"]
    /\ acked' = [acked EXCEPT ![j] = @ \cup {c + 1}]
    /\ bytes' = [bytes EXCEPT ![j] = IF c \in acked[j] THEN @ ELSE @ + ChunkLen(c)]
    /\ UNCHANGED <<db, entry, pc, on, todo, late, paused, cancelled, stream, net, chan,
                   recv, sEvents, bounds>>

\* TransferHandle::mark_chunk_acked: right after the channel took the chunk.
WorkerMarks(j, c) ==
    /\ work[j][c] = "sent"
    /\ work' = [work EXCEPT ![j][c] = "marked"]
    /\ acked' = [acked EXCEPT ![j] = @ \cup {c}]
    /\ bytes' = [bytes EXCEPT ![j] = IF c \in acked[j] THEN @ ELSE @ + ChunkLen(c)]
    /\ UNCHANGED <<db, entry, pc, on, todo, late, paused, cancelled, stream, net, chan,
                   recv, sEvents, bounds>>

\* Storage::mark_chunk_acked: the same in the manifest.
WorkerRecords(j, c) ==
    /\ work[j][c] = "marked"
    /\ work' = [work EXCEPT ![j][c] = "ok"]
    /\ manifest' = manifest \cup {c}
    /\ UNCHANGED <<state, entry, pc, on, todo, late, handle, stream, net, chan, recv,
                   sEvents, bounds>>

\* The tasks are awaited in the order of their spawning; the first error
\* returns, with the entry still in the map.
JoinFails(j) ==
    /\ pc[j] = "join"
    /\ \E c \in Chunks : /\ work[j][c] = "err"
                         /\ \A d \in Chunks : d < c => work[j][d] \in {"none", "ok"}
    /\ pc' = [pc EXCEPT ![j] = "failed"]
    /\ UNCHANGED <<db, entry, on, todo, work, late, handle, stream, net, chan, recv,
                   sEvents, bounds>>

\* All workers are done: leave the map, and tell the peer of a cancel.
JoinSucceeds(j) ==
    /\ pc[j] = "join"
    /\ \A c \in Chunks : work[j][c] \in {"none", "ok"}
    /\ DropEntry
    /\ IF cancelled[j]
       THEN SendTo("R", "cancel") /\ pc' = [pc EXCEPT ![j] = "cancelling"]
       ELSE UNCHANGED chan /\ pc' = [pc EXCEPT ![j] = "completing"]
    /\ UNCHANGED <<db, on, todo, work, late, handle, stream, net, recv, sEvents,
                   bounds>>

\* update_transfer_state
RunFinishes(j) ==
    /\ pc[j] \in {"cancelling", "completing"}
    /\ state' = IF pc[j] = "cancelling" THEN "cancelled" ELSE "completed"
    /\ pc' = [pc EXCEPT ![j] = "done"]
    /\ UNCHANGED <<manifest, entry, on, todo, work, late, handle, stream, net, chan,
                   recv, sEvents, bounds>>

-----------------------------------------------------------------------------
(* S: the writer task of the transfer stream *)

\* Take a chunk, encrypt it, write the frame.
WriterWrites(e) ==
    /\ writer[e] = "open"
    /\ txq[e] # <<>>
    /\ Fits(Head(txq[e]))
    /\ up[e]
    /\ chan' = Post(chan, e, "R", FileChunk(Head(txq[e])))
    /\ txq' = [txq EXCEPT ![e] = Tail(@)]
    /\ UNCHANGED <<db, entry, run, handle, writer, sentEver, net, recv, sEvents,
                   bounds>>

\* Encryption refuses the chunk, or the write fails (lost connection, or the
\* peer's reader of the stream is gone): the task ends, its channel closes.
WriterEnds(e) ==
    /\ writer[e] = "open"
    /\ txq[e] # <<>>
    /\ ~Fits(Head(txq[e])) \/ ~up[e] \/ "R" \notin live[e]
    /\ writer' = [writer EXCEPT ![e] = "dead"]
    /\ txq' = [txq EXCEPT ![e] = <<>>]
    /\ UNCHANGED <<db, entry, run, handle, sentEver, net, chan, recv, sEvents, bounds>>

-----------------------------------------------------------------------------
(* S: dispatch_incoming *)

\* The control reader of connection e at device d gets message m.
Delivers(e, d, m) ==
    /\ d \in live[e]
    /\ e \in readers[d]
    /\ chan[e][d] # <<>>
    /\ Head(chan[e][d]) = m

Consume(e, d) == [chan EXCEPT ![e][d] = Tail(@)]

\* handle_file_accept
HandleFileAccept(e) ==
    /\ Delivers(e, "S", Control("accept"))
    /\ chan' = Consume(e, "S")
    /\ answer' = IF acceptTx THEN "yes" ELSE answer
    /\ acceptTx' = FALSE
    /\ sEvents' = sEvents \cup {"accept"}
    /\ UNCHANGED <<db, outgoing, run, handle, stream, net, recv, bounds>>

\* handle_file_reject: answer the waiter, and drop whatever entry there is.
HandleFileReject(e) ==
    /\ Delivers(e, "S", Control("reject"))
    /\ chan' = Consume(e, "S")
    /\ answer' = IF acceptTx THEN "no" ELSE answer
    /\ acceptTx' = FALSE
    /\ outgoing' = 0
    /\ sEvents' = sEvents \cup {"reject"}
    /\ UNCHANGED <<db, run, handle, stream, net, recv, bounds>>

\* FileTransferCancelled reaches S: the handle in the map is cancelled.
CancelOutgoing ==
    cancelled' = IF outgoing = 0 THEN cancelled ELSE [cancelled EXCEPT ![outgoing] = TRUE]

HandleCancelledAtS(e) ==
    /\ Delivers(e, "S", Control("cancel"))
    /\ chan' = Consume(e, "S")
    /\ CancelOutgoing
    /\ sEvents' = sEvents \cup {"cancel"}
    /\ UNCHANGED <<db, entry, run, acked, bytes, paused, stream, net, recv, bounds>>

\* FileChunkAck is ignored; FileTransferComplete only raises an event at S.
HandleAckOrComplete(e) ==
    \E m \in {"ack", "complete"} :
        /\ Delivers(e, "S", Control(m))
        /\ chan' = Consume(e, "S")
        /\ sEvents' = IF m = "complete" THEN sEvents \cup {m} ELSE sEvents
        /\ UNCHANGED <<sender, net, recv, bounds>>

-----------------------------------------------------------------------------
(* R: dispatch_incoming *)

HandleFileOffer(e) ==
    /\ Delivers(e, "R", Control("offer"))
    /\ chan' = Consume(e, "R")
    /\ offered' = TRUE
    /\ UNCHANGED <<sender, net, answers, accepting, incoming, recvH, disk, handler,
                   rComplete, sEvents, bounds>>

CancelIncoming ==
    rCancelled' = IF incoming = 0 THEN rCancelled ELSE [rCancelled EXCEPT ![incoming] = TRUE]

HandleCancelledAtR(e) ==
    /\ Delivers(e, "R", Control("cancel"))
    /\ chan' = Consume(e, "R")
    /\ CancelIncoming
    /\ UNCHANGED <<sender, net, offered, answers, accepting, incoming, rAcked, rBytes,
                   disk, handler, rComplete, sEvents, bounds>>

\* handle_incoming_chunk on the transfer stream of e: find the transfer.  A
\* chunk of an unknown transfer is dropped.
ChunkArrives(e) ==
    /\ handler[e].step = "idle"
    /\ \E c \in Chunks :
          /\ Delivers(e, "R", FileChunk(c))
          /\ chan' = Consume(e, "R")
          /\ handler' = IF incoming = 0 THEN handler
                        ELSE [handler EXCEPT ![e] = [step |-> "write", chunk |-> c, h |-> incoming]]
    /\ UNCHANGED <<sender, net, offered, answers, accepting, incoming, recvH, disk,
                   rComplete, sEvents, bounds>>

\* write_chunk_to_file
ChunkWritten(e) ==
    /\ handler[e].step = "write"
    /\ disk' = disk \cup {handler[e].chunk}
    /\ handler' = [handler EXCEPT ![e].step = "mark"]
    /\ UNCHANGED <<sender, net, chan, offered, answers, accepting, incoming, recvH,
                   rComplete, sEvents, bounds>>

\* The write fails: the handler returns, the chunk is gone.
ChunkWriteFails(e) ==
    /\ "io" \in Faults
    /\ handler[e].step = "write"
    /\ handler' = [handler EXCEPT ![e] = Idle]
    /\ ioFailed' = TRUE
    /\ UNCHANGED <<sender, net, chan, offered, answers, accepting, incoming, recvH, disk,
                   rComplete, sEvents, cancels, crashes>>

\* Fault: a chunk that comes twice is counted twice.
ChunkMarkedMutantCountsTwice(e) ==
    /\ handler[e].step = "mark"
    /\ LET c == handler[e].chunk
           h == handler[e].h
       IN  /\ rAcked' = [rAcked EXCEPT ![h] = @ \cup {c}]
           /\ rBytes' = [rBytes EXCEPT ![h] = @ + ChunkLen(c)]
    /\ SendTo("S", "ack")
    /\ handler' = [handler EXCEPT ![e].step = "check"]
    /\ UNCHANGED <<sender, net, offered, answers, accepting, incoming, rCancelled, disk,
                   rComplete, sEvents, bounds>>

\* mark_chunk_acked on the handle, then the ack.  R has no file_transfers row
\* (see AcceptFileRegister), so that the manifest insert fails its foreign key
\* and is only logged.
ChunkMarked(e) ==
    /\ handler[e].step = "mark"
    /\ LET c == handler[e].chunk
           h == handler[e].h
       IN  /\ rAcked' = [rAcked EXCEPT ![h] = @ \cup {c}]
           /\ rBytes' = [rBytes EXCEPT ![h] = IF c \in rAcked[h] THEN @ ELSE @ + ChunkLen(c)]
    /\ SendTo("S", "ack")
    /\ handler' = [handler EXCEPT ![e].step = "check"]
    /\ UNCHANGED <<sender, net, offered, answers, accepting, incoming, rCancelled, disk,
                   rComplete, sEvents, bounds>>

\* Fault: the last chunk of the file is taken for the last to come.
ChunkCheckedMutantLastChunk(e) ==
    /\ handler[e].step = "check"
    /\ IF handler[e].chunk = TotalChunks - 1
       THEN /\ incoming' = 0
            /\ rComplete' = TRUE
            /\ SendTo("S", "complete")
       ELSE UNCHANGED <<incoming, rComplete, chan>>
    /\ handler' = [handler EXCEPT ![e] = Idle]
    /\ UNCHANGED <<sender, net, offered, answers, accepting, recvH, disk, sEvents, bounds>>

\* pending_chunk_indices().is_empty(): the transfer is complete.
ChunkChecked(e) ==
    /\ handler[e].step = "check"
    /\ IF rAcked[handler[e].h] = Chunks
       THEN /\ incoming' = 0
            /\ rComplete' = TRUE
            /\ SendTo("S", "complete")
       ELSE UNCHANGED <<incoming, rComplete, chan>>
    /\ handler' = [handler EXCEPT ![e] = Idle]
    /\ UNCHANGED <<sender, net, offered, answers, accepting, recvH, disk, sEvents, bounds>>

-----------------------------------------------------------------------------
(* R: the user's answer *)

\* accept_file, first part: preallocate_file creates (truncates) the file.
AcceptFilePrepare ==
    /\ offered
    /\ ~accepting
    /\ answers < MaxAnswers
    /\ answers' = answers + 1
    /\ accepting' = TRUE
    /\ disk' = {}
    /\ UNCHANGED <<sender, net, chan, offered, incoming, recvH, handler, rComplete,
                   sEvents, bounds>>

\* Second part: a fresh handle (the manifest of R is empty), create_transfer
\* (which fails its foreign key on messages: R stores no row for the sender's
\* message), register, send the accept.
AcceptFileRegister ==
    /\ accepting
    /\ accepting' = FALSE
    /\ incoming' = answers
    /\ SendTo("S", "accept")
    /\ UNCHANGED <<sender, net, offered, answers, recvH, disk, handler, rComplete,
                   sEvents, bounds>>

\* reject_file
RejectFile ==
    /\ offered
    /\ ~accepting
    /\ answers < MaxAnswers
    /\ answers' = answers + 1
    /\ SendTo("S", "reject")
    /\ UNCHANGED <<sender, net, offered, accepting, incoming, recvH, disk, handler,
                   rComplete, sEvents, bounds>>

-----------------------------------------------------------------------------
(* Users: pause, resume, cancel *)

\* pause_outgoing_transfer and resume_outgoing_transfer
PauseResume ==
    /\ Pausable
    /\ outgoing # 0
    /\ paused' = [paused EXCEPT ![outgoing] = ~@]
    /\ UNCHANGED <<db, entry, run, acked, bytes, cancelled, stream, net, chan, recv,
                   sEvents, bounds>>

\* cancel_transfer at S, by a UI that knows the transfer id
CancelAtS ==
    /\ pc[1] \notin {"off", "offer"}
    /\ cancels < MaxCancels
    /\ cancels' = cancels + 1
    /\ CancelOutgoing
    /\ SendTo("R", "cancel")
    /\ UNCHANGED <<db, entry, run, acked, bytes, paused, stream, net, recv, sEvents,
                   crashes, ioFailed>>

\* cancel_transfer at R
CancelAtR ==
    /\ offered
    /\ cancels < MaxCancels
    /\ cancels' = cancels + 1
    /\ CancelIncoming
    /\ SendTo("S", "cancel")
    /\ UNCHANGED <<sender, net, offered, answers, accepting, incoming, rAcked, rBytes,
                   disk, handler, rComplete, sEvents, crashes, ioFailed>>

-----------------------------------------------------------------------------
(* Connections and processes *)

\* A connection is lost: nothing more is delivered on it.
ConnectionLost(e) ==
    /\ "lost" \in Faults
    /\ up[e]
    /\ up' = [up EXCEPT ![e] = FALSE]
    /\ live' = [live EXCEPT ![e] = {}]
    /\ chan' = [chan EXCEPT ![e] = [d \in Devices |-> <<>>]]
    /\ UNCHANGED <<sender, conns, sessions, readers, recv, sEvents, bounds>>

\* The nonces of one direction get out of step (see Wire): it falls silent.
Silenced(e, d) ==
    /\ "silent" \in Faults
    /\ d \in live[e]
    /\ live' = [live EXCEPT ![e] = @ \ {d}]
    /\ chan' = [chan EXCEPT ![e][d] = <<>>]
    /\ UNCHANGED <<sender, conns, up, sessions, readers, recv, sEvents, bounds>>

\* The control reader of e at d ends: it removes the peer's session, whichever
\* connection that is by now.
ReaderEnds(e, d) ==
    /\ e \in readers[d]
    /\ d \notin live[e]
    /\ readers' = [readers EXCEPT ![d] = @ \ {e}]
    /\ sessions' = [sessions EXCEPT ![d] = 0]
    /\ UNCHANGED <<sender, conns, up, live, chan, recv, sEvents, bounds>>

\* A new connection is registered at both ends; at S that spawns the
\* auto-resume task.
RegisterSession ==
    /\ conns < MaxConns
    /\ LET e == conns + 1
       IN  /\ conns' = e
           /\ up' = [up EXCEPT ![e] = TRUE]
           /\ live' = [live EXCEPT ![e] = Devices]
           /\ sessions' = [d \in Devices |-> e]
           /\ readers' = [d \in Devices |-> readers[d] \cup {e}]
           /\ pc' = [pc EXCEPT ![e] = "list"]
    /\ UNCHANGED <<db, entry, on, todo, work, late, handle, stream, chan, recv, sEvents,
                   bounds>>

Hangup == /\ up' = [e \in Conns |-> FALSE]
          /\ live' = [e \in Conns |-> {}]
          /\ chan' = [e \in Conns |-> [d \in Devices |-> <<>>]]

Ended == {"off", "timedout", "refused", "nothing", "skipped", "failed", "done", "killed"}

\* The process of S dies and is started again: only the database is left.
CrashS ==
    /\ crashes < MaxCrashes
    /\ crashes' = crashes + 1
    /\ Hangup
    /\ sessions' = [sessions EXCEPT !["S"] = 0]
    /\ readers' = [readers EXCEPT !["S"] = {}]
    /\ outgoing' = 0 /\ acceptTx' = FALSE /\ answer' = "none"
    /\ pc' = [j \in Jobs |-> IF pc[j] \notin Ended THEN "killed" ELSE pc[j]]
    /\ todo' = [j \in Jobs |-> {}]
    /\ work' = [j \in Jobs |-> [c \in Chunks |-> "none"]]
    /\ writer' = [e \in Conns |-> IF writer[e] = "none" THEN "none" ELSE "dead"]
    /\ txq' = [e \in Conns |-> <<>>]
    /\ UNCHANGED <<db, on, late, handle, sentEver, conns, recv, sEvents, cancels,
                   ioFailed>>

\* The process of R dies and is started again: the file is left.
CrashR ==
    /\ crashes < MaxCrashes
    /\ crashes' = crashes + 1
    /\ Hangup
    /\ sessions' = [sessions EXCEPT !["R"] = 0]
    /\ readers' = [readers EXCEPT !["R"] = {}]
    /\ accepting' = FALSE
    /\ incoming' = 0
    /\ handler' = [e \in Conns |-> Idle]
    /\ UNCHANGED <<sender, conns, offered, answers, recvH, disk, rComplete, sEvents,
                   cancels, ioFailed>>

-----------------------------------------------------------------------------

JobStep(j) ==
    \/ AutoResumeList(j)
    \/ AutoResumeCheck(j)
    \/ AutoResumeLoad(j)
    \/ AutoResumeInsert(j)
    \/ RunStart(j)
    \/ LoopHead(j)
    \/ PauseEnds(j)
    \/ SpawnWorker(j)
    \/ OpenStreamFails(j)
    \/ JoinFails(j)
    \/ JoinSucceeds(j)
    \/ RunFinishes(j)

WorkerStep(j, c) ==
    WorkerSends(j, c) \/ WorkerReadFails(j, c) \/ WorkerMarks(j, c) \/ WorkerRecords(j, c)

WriterStep(e) == WriterWrites(e) \/ WriterEnds(e)

DispatchAtS(e) ==
    HandleFileAccept(e) \/ HandleFileReject(e) \/ HandleCancelledAtS(e) \/ HandleAckOrComplete(e)

DispatchAtR(e) == HandleFileOffer(e) \/ HandleCancelledAtR(e) \/ ChunkArrives(e)

HandlerStep(e) == ChunkWritten(e) \/ ChunkWriteFails(e) \/ ChunkMarked(e) \/ ChunkChecked(e)

SendFileStep == SendFile \/ SendOffer \/ WaiterAccepted \/ WaiterGivesUp

UserStep ==
    \/ AcceptFilePrepare
    \/ AcceptFileRegister
    \/ RejectFile
    \/ PauseResume
    \/ CancelAtS
    \/ CancelAtR

Next ==
    \/ SendFileStep
    \/ UserStep
    \/ RegisterSession
    \/ CrashS
    \/ CrashR
    \/ \E j \in Jobs : JobStep(j)
    \/ \E j \in Jobs, c \in Chunks : WorkerStep(j, c)
    \/ \E e \in Conns : WriterStep(e) \/ DispatchAtS(e) \/ DispatchAtR(e) \/ HandlerStep(e)
    \/ \E e \in Conns : ConnectionLost(e)
    \/ \E e \in Conns, d \in Devices : Silenced(e, d) \/ ReaderEnds(e, d)

Spec == Init /\ [][Next]_vars

\* The runtime schedules every task, QUIC delivers what a live direction
\* carries and reports a lost connection, and timers fire.  Users need not
\* act, connections need not break, reconnect or be silenced (and the reader of
\* a silenced one need not notice), and processes need not crash.
Fairness ==
    /\ WF_vars(SendOffer)
    /\ WF_vars(WaiterAccepted)
    /\ WF_vars(WaiterGivesUp)
    /\ WF_vars(AcceptFileRegister)
    /\ \A j \in Jobs : WF_vars(JobStep(j))
    /\ \A j \in Jobs, c \in Chunks : WF_vars(WorkerStep(j, c))
    /\ \A e \in Conns : /\ WF_vars(WriterStep(e))
                        /\ WF_vars(DispatchAtS(e))
                        /\ WF_vars(DispatchAtR(e))
                        /\ WF_vars(HandlerStep(e))
    /\ \A e \in Conns, d \in Devices : WF_vars(~up[e] /\ ReaderEnds(e, d))

FairSpec == Spec /\ Fairness

-----------------------------------------------------------------------------
(* What is checked *)

JobPCs == {"off", "offer", "wait", "timedout", "refused", "list", "check", "nothing",
           "skipped", "resume", "loaded", "start", "head", "pause", "spawn", "join", "cancelling",
           "completing", "done", "failed", "killed"}

HandlerStates == {Idle} \cup [step : {"write", "mark", "check"}, chunk : Chunks, h : Handles]

TypeSender ==
    /\ state \in {"none", "queued", "cancelled", "completed"}
    /\ manifest \subseteq Chunks
    /\ outgoing \in 0..MaxConns
    /\ acceptTx \in BOOLEAN
    /\ answer \in {"none", "yes", "no", "closed"}
    /\ writer \in [Conns -> {"none", "open", "dead"}]
    /\ txq \in [Conns -> Seq(Chunks)]
    /\ sentEver \subseteq Chunks

TypeRun ==
    /\ pc \in [Jobs -> JobPCs]
    /\ on \in [Jobs -> 0..MaxConns]
    /\ todo \in [Jobs -> SUBSET Chunks]
    /\ work \in [Jobs -> [Chunks -> {"none", "reading", "sent", "marked", "ok", "err"}]]
    /\ late \in [Jobs -> Nat]

TypeHandle ==
    /\ acked \in [Jobs -> SUBSET Chunks]
    /\ bytes \in [Jobs -> Nat]
    /\ paused \in [Jobs -> BOOLEAN]
    /\ cancelled \in [Jobs -> BOOLEAN]

TypeNet ==
    /\ conns \in Conns
    /\ up \in [Conns -> BOOLEAN]
    /\ live \in [Conns -> SUBSET Devices]
    /\ sessions \in [Devices -> 0..MaxConns]
    /\ readers \in [Devices -> SUBSET Conns]

TypeChan == chan \in [Conns -> [Devices -> Seq(Messages)]]

TypeReceiver ==
    /\ offered \in BOOLEAN
    /\ answers \in 0..MaxAnswers
    /\ accepting \in BOOLEAN
    /\ incoming \in 0..MaxAnswers
    /\ rAcked \in [Handles -> SUBSET Chunks]
    /\ rBytes \in [Handles -> Nat]
    /\ rCancelled \in [Handles -> BOOLEAN]
    /\ disk \subseteq Chunks
    /\ handler \in [Conns -> HandlerStates]
    /\ rComplete \in BOOLEAN

TypeBounds ==
    /\ sEvents \subseteq {"accept", "reject", "cancel", "complete"}
    /\ cancels \in 0..MaxCancels
    /\ crashes \in 0..MaxCrashes
    /\ ioFailed \in BOOLEAN

TypeOK ==
    /\ TypeSender
    /\ TypeRun
    /\ TypeHandle
    /\ TypeNet
    /\ TypeChan
    /\ TypeReceiver
    /\ TypeBounds

\* A row that says "completed" means that every chunk was put on a transfer
\* stream, by this run of the process or by an earlier one, whatever was
\* paused, cancelled, crashed or resumed on the way.
CompletedMeansAllSent == state = "completed" => sentEver = Chunks

\* When R's user is told that a file offered and answered once is complete,
\* every chunk is in the file, whichever connections brought the chunks and
\* however often.
CompleteMeansFileWhole == (rComplete /\ answers <= 1) => disk = Chunks

\* After a cancel a run spawns at most one more worker (the one whose turn it
\* was when the flag was set).
CancelStopsSpawning == \A j \in Jobs : late[j] <= 1

\* The bytes of a set of chunks.
BytesOf(A) ==
    Cardinality(A) * CHUNK_SIZE
      - (IF TotalChunks - 1 \in A THEN CHUNK_SIZE - ChunkLen(TotalChunks - 1) ELSE 0)

\* bytes_transferred is exact at R, duplicates included; at S it is never
\* behind, and ahead by less than one chunk (resume_from_manifest counts the
\* short last chunk as a whole one).
ProgressIsAccurate ==
    /\ \A h \in Handles : rBytes[h] = BytesOf(rAcked[h])
    /\ \A j \in Jobs : /\ BytesOf(acked[j]) <= bytes[j]
                       /\ bytes[j] < BytesOf(acked[j]) + CHUNK_SIZE

\* The entry in outgoing_transfers is that of a job that still runs, or of
\* one that failed and left it behind; a job that waits for its answer is not
\* forgotten before the answer is decided.
EntryTracksJob ==
    /\ outgoing # 0 => pc[outgoing] \in
          {"wait", "start", "head", "pause", "spawn", "join", "failed"}
    /\ acceptTx => outgoing = 1 /\ answer = "none"
    /\ (pc[1] = "wait" /\ answer = "none") => acceptTx

\* Every run ends, if its user does not leave it paused for ever.
RunsEnd ==
    (<>[](\A j \in Jobs : ~paused[j])) =>
        \A j \in Jobs : pc[j] = "start" ~> pc[j] \in Ended

\* An offer is always decided: by an answer, by the loss of the waiter's
\* channel or by the timeout.
OfferDecided == pc[1] \in {"offer", "wait"} ~> pc[1] \notin {"offer", "wait"}

\* What may stop an accepted file: a user, a connection that broke or fell
\* silent, a read or a write that failed.
Disturbed ==
    \/ cancels > 0
    \/ \E e \in 1..conns : live[e] # Devices
    \/ ioFailed

\* The chunks of an accepted file all reach the disk of R, who is told so,
\* unless one of those things really happened: no task on the way (worker,
\* writer, reader, chunk handler) loses one by itself.
AcceptedFileArrives ==
    (<>[](\A j \in Jobs : ~paused[j])) => (pc[1] = "start" ~> rComplete \/ Disturbed)

-----------------------------------------------------------------------------
(* What comments of the code claim, and the code does not do *)

\* send_file: "Offer a file to a connected peer and, if accepted, stream it".
RefusedIsNotStreamed == ("reject" \in sEvents /\ "accept" \notin sEvents) => sentEver = {}

\* register_session: "check whether any outgoing transfer to this peer was left
\* in a non-terminal state (app restarted mid-send, connection dropped, etc)
\* and, if so, resume it": auto-resume passes over a transfer some of whose
\* chunks have been sent only while another job is at it.
PassedOverIsRunning ==
    [][\A j \in Jobs : (pc[j] = "check" /\ pc'[j] = "skipped" /\ sentEver # {}) =>
          \E k \in Jobs \ {j} : pc[k] \notin Ended]_vars

\* mark_chunk_acked: "Mark a chunk as successfully sent/received and acked by
\* the peer. Call this after each chunk's transfer + integrity check
\* succeeds": what a run leaves out that takes up one that has ended, R has.
ResumeSkipsReceived ==
    \A j \in Jobs : (pc[j] = "loaded" /\ \A k \in Jobs \ {j} : pc[k] \in Ended) =>
        acked[j] \subseteq disk

\* cancel_transfer: "Marks the local TransferHandle cancelled (workers/writers
\* check this flag cooperatively)": no chunk that arrives after the cancel is
\* written.
CancelStopsReceiving ==
    [][\A e \in Conns : (handler[e].step = "idle" /\ handler'[e].step = "write") =>
          ~rCancelled[handler'[e].h]]_vars
=============================================================================
