------------------------------- MODULE Wire -------------------------------
(***************************************************************************)
(* One direction of one QUIC-backed PeerSession: the sending device's       *)
(* Noise transport state, its control stream and its per-transfer streams,  *)
(* and the peer's reader task on each of them.                              *)
(*                                                                          *)
(* All frames of the session are encrypted by ONE shared Noise state, whose *)
(* nonce counts up implicitly (it is not on the wire), but they travel on   *)
(* SEVERAL QUIC streams: each stream is FIFO, the streams are delivered     *)
(* independently.  A frame decrypts only when its nonce is the one the      *)
(* receiver expects next; a failed decryption leaves the receiver's counter *)
(* alone and ends the reader that met it.                                   *)
(*                                                                          *)
(* A message is abstracted to the stream it was sent on, a frame to its     *)
(* nonce; log[n + 1] is the message that frame n carries.                   *)
(***************************************************************************)
EXTENDS Naturals, Sequences

CONSTANTS
    Control,            \* the control stream, opened by the handshake
    Transfers,          \* transfer ids; each may open a stream of its own
    MaxFrames,          \* bound: messages handed to the session
    MaxReadAhead        \* bound: chunk messages waiting for one writer task

Streams == {Control} \cup Transfers

ASSUME ControlAssumption == Control \notin Transfers
ASSUME BoundAssumption == MaxFrames \in Nat /\ MaxReadAhead \in Nat

VARIABLES
    log,                \* encryption order; Len(log) is the sender's nonce
    txq,                \* txq[t]: plaintext chunk messages in t's mpsc channel
    writer,             \* writer[s]: the task that writes stream s
    net,                \* net[s]: frames encrypted for s and not yet read
    reader,             \* reader[s]: the peer's reader task of stream s
    decN,               \* the nonce the peer's Noise state expects next
    hand,               \* hand[s]: position its reader is dispatching, 0 if none
    session,            \* the peer's `sessions` map still has this session
    up                  \* the QUIC connection is up

vars == <<log, txq, writer, net, reader, decN, hand, session, up>>

Init ==
    /\ log = <<>>
    /\ txq = [t \in Transfers |-> 0]
    /\ writer = [s \in Streams |-> IF s = Control THEN "open" ELSE "none"]
    /\ net = [s \in Streams |-> <<>>]
    /\ reader = [s \in Streams |-> "open"]
    /\ decN = 0
    /\ hand = [s \in Streams |-> 0]
    /\ session = TRUE
    /\ up = TRUE

-----------------------------------------------------------------------------
(* The sending device *)

\* Fault: the nonce of a frame is that of the frame before.
EncryptMutantReusesNonce(s, delivered) ==
    /\ Len(log) < MaxFrames
    /\ log' = Append(log, s)
    /\ net' = [net EXCEPT ![s] =
                 IF delivered THEN Append(@, IF Len(log) = 0 THEN 0 ELSE Len(log) - 1) ELSE @]

\* The Noise state turns the next message, of stream s, into the next frame,
\* which goes on its way or is dropped by the failure that follows.
Encrypt(s, delivered) ==
    /\ Len(log) < MaxFrames
    /\ log' = Append(log, s)
    /\ net' = [net EXCEPT ![s] = IF delivered THEN Append(@, Len(log)) ELSE @]

\* PeerSession::send_message: encrypt, then enqueue on the control channel.
\* Every caller holds the `sessions` lock, so that no other control frame can
\* come between the two.  When the control writer is gone the enqueueing
\* fails, but the nonce has been used.
SendMessage ==
    /\ Encrypt(Control, writer[Control] = "open")
    /\ UNCHANGED <<txq, writer, reader, decN, hand, session, up>>

\* PeerSession::transfer_stream_sender: open the transfer's stream on first
\* use and keep it in transfer_senders.  open_stream needs a live connection.
TransferStreamSender(t) ==
    /\ writer[t] = "none"
    /\ up
    /\ writer' = [writer EXCEPT ![t] = "open"]
    /\ UNCHANGED <<log, txq, net, reader, decN, hand, session, up>>

\* TransferStreamSender::send: a chunk worker enqueues a plaintext message.
EnqueueChunk(t) ==
    /\ writer[t] = "open"
    /\ txq[t] < MaxReadAhead
    /\ txq' = [txq EXCEPT ![t] = @ + 1]
    /\ UNCHANGED <<log, writer, net, reader, decN, hand, session, up>>

\* Fault: the writer task does not wait for a message.
WriteChunkMutantUnguarded(t) ==
    /\ writer[t] = "open"
    /\ Encrypt(t, TRUE)
    /\ txq' = [txq EXCEPT ![t] = @ - 1]
    /\ UNCHANGED <<writer, reader, decN, hand, session, up>>

\* The writer task of t takes one message, encrypts it and writes the frame.
WriteChunk(t) ==
    /\ writer[t] = "open"
    /\ txq[t] > 0
    /\ Encrypt(t, TRUE)
    /\ txq' = [txq EXCEPT ![t] = @ - 1]
    /\ UNCHANGED <<writer, reader, decN, hand, session, up>>

\* encrypt() refuses a message that does not fit in a Noise frame: the writer
\* task ends, the messages behind it are dropped, the nonce stays.
ChunkTooLarge(t) ==
    /\ writer[t] = "open"
    /\ txq[t] > 0
    /\ writer' = [writer EXCEPT ![t] = "dead"]
    /\ txq' = [txq EXCEPT ![t] = 0]
    /\ UNCHANGED <<log, net, reader, decN, hand, session, up>>

\* write_framed fails, because the connection is gone or the peer's reader
\* dropped the stream.
Unwritable(s) == ~up \/ reader[s] = "dead"

\* The writer task of t fails to write the frame it has just encrypted: it
\* ends, and the messages behind that frame are dropped with its channel.
ChunkWriteFails(t) ==
    /\ writer[t] = "open"
    /\ txq[t] > 0
    /\ Unwritable(t)
    /\ Encrypt(t, FALSE)
    /\ writer' = [writer EXCEPT ![t] = "dead"]
    /\ txq' = [txq EXCEPT ![t] = 0]
    /\ UNCHANGED <<reader, decN, hand, session, up>>

\* The control writer task fails to write and ends.
ControlWriteFails ==
    /\ writer[Control] = "open"
    /\ Unwritable(Control)
    /\ writer' = [writer EXCEPT ![Control] = "dead"]
    /\ UNCHANGED <<log, txq, net, reader, decN, hand, session, up>>

-----------------------------------------------------------------------------
(* The peer *)

\* How the loop of a reader task ends: nothing more is read from s, and the
\* end of the CONTROL reader also removes the session.
EndReader(s) ==
    /\ reader' = [reader EXCEPT ![s] = "dead"]
    /\ net' = [net EXCEPT ![s] = <<>>]
    /\ session' = (session /\ s # Control)

\* Fault: a frame ahead of the expected nonce is taken.
DecryptMutantSkipsAhead(s) ==
    /\ reader[s] = "open"
    /\ hand[s] = 0
    /\ net[s] # <<>>
    /\ Head(net[s]) >= decN
    /\ decN' = Head(net[s]) + 1
    /\ hand' = [hand EXCEPT ![s] = Head(net[s]) + 1]
    /\ net' = [net EXCEPT ![s] = Tail(@)]
    /\ UNCHANGED <<log, txq, writer, reader, session, up>>

\* decrypt_and_dispatch, first half, under the noise lock: the frame has the
\* expected nonce, the message is handed to dispatch_incoming.
Decrypt(s) ==
    /\ reader[s] = "open"
    /\ hand[s] = 0
    /\ net[s] # <<>>
    /\ Head(net[s]) = decN
    /\ decN' = decN + 1
    /\ hand' = [hand EXCEPT ![s] = decN + 1]
    /\ net' = [net EXCEPT ![s] = Tail(@)]
    /\ UNCHANGED <<log, txq, writer, reader, session, up>>

\* Fault: a failed decryption uses up a nonce.
DecryptFailsMutantAdvancesNonce(s) ==
    /\ reader[s] = "open"
    /\ hand[s] = 0
    /\ net[s] # <<>>
    /\ Head(net[s]) # decN
    /\ EndReader(s)
    /\ decN' = decN + 1
    /\ UNCHANGED <<log, txq, writer, hand, up>>

\* The frame has another nonce: decryption fails and the reader ends.
DecryptFails(s) ==
    /\ reader[s] = "open"
    /\ hand[s] = 0
    /\ net[s] # <<>>
    /\ Head(net[s]) # decN
    /\ EndReader(s)
    /\ UNCHANGED <<log, txq, writer, decN, hand, up>>

\* decrypt_and_dispatch, second half: dispatch_incoming returns.  The noise
\* lock is free meanwhile, so that other streams go on.
DispatchDone(s) ==
    /\ hand[s] # 0
    /\ hand' = [hand EXCEPT ![s] = 0]
    /\ UNCHANGED <<log, txq, writer, net, reader, decN, session, up>>

\* read_framed meets the end of the stream after the connection is lost.
ReadFails(s) ==
    /\ ~up
    /\ reader[s] = "open"
    /\ hand[s] = 0
    /\ EndReader(s)
    /\ UNCHANGED <<log, txq, writer, decN, hand, up>>

\* External: the QUIC connection is closed or times out.
ConnectionLost ==
    /\ up
    /\ up' = FALSE
    /\ UNCHANGED <<log, txq, writer, net, reader, decN, hand, session>>

TransferStep(t) ==
    \/ TransferStreamSender(t)
    \/ EnqueueChunk(t)
    \/ WriteChunk(t)
    \/ ChunkTooLarge(t)
    \/ ChunkWriteFails(t)

StreamStep(s) ==
    Decrypt(s) \/ DecryptFails(s) \/ DispatchDone(s) \/ ReadFails(s)

Next ==
    \/ SendMessage
    \/ ControlWriteFails
    \/ ConnectionLost
    \/ \E t \in Transfers : TransferStep(t)
    \/ \E s \in Streams : StreamStep(s)

Spec == Init /\ [][Next]_vars

\* The runtime keeps scheduling the reader tasks and QUIC keeps delivering
\* what was written; nothing forces anyone to send, nor the connection to die.
Fairness ==
    \A s \in Streams : /\ WF_vars(Decrypt(s) \/ DecryptFails(s))
                       /\ WF_vars(DispatchDone(s))
                       /\ WF_vars(ReadFails(s))

FairSpec == Spec /\ Fairness

-----------------------------------------------------------------------------
(* What is checked *)

TypeOK ==
    /\ log \in Seq(Streams)
    /\ txq \in [Transfers -> Nat]
    /\ writer \in [Streams -> {"none", "open", "dead"}]
    /\ net \in [Streams -> Seq(Nat)]
    /\ reader \in [Streams -> {"open", "dead"}]
    /\ decN \in Nat
    /\ hand \in [Streams -> Nat]
    /\ session \in BOOLEAN
    /\ up \in BOOLEAN

\* The frames on a stream are messages of that stream, none has been taken
\* already, and QUIC delivers them in the order of their nonces.
FramesInOrder ==
    \A s \in Streams :
        /\ \A i \in 1..Len(net[s]) : /\ net[s][i] >= decN
                                     /\ net[s][i] < Len(log)
                                     /\ log[net[s][i] + 1] = s
        /\ \A i, j \in 1..Len(net[s]) : i < j => net[s][i] < net[s][j]

\* Frames that will never be decrypted: encrypted, not taken, and on no
\* stream that somebody still reads.
OnStream(n) ==
    \E s \in Streams : reader[s] = "open" /\ \E i \in 1..Len(net[s]) : net[s][i] = n
Lost == {n \in decN..(Len(log) - 1) : ~OnStream(n)}

\* A lost frame stays lost, and the receiver's nonce never passes it: one
\* frame dropped anywhere silences every stream of the session for good.
LossIsFinal == [][Lost \subseteq Lost']_vars

\* The session implements the ordered-prefix channel.
Abstract == INSTANCE OrderedPrefix WITH taken <- decN
Refines == Abstract!Spec

\* As long as no transfer has opened a stream of its own, whatever is enqueued
\* is dispatched, or the connection is lost (SendMessage to the peer's handler).
ControlDelivered ==
    \A n \in 1..MaxFrames :
        (Len(log) >= n) ~> \/ decN >= n /\ hand[Control] # n
                           \/ ~up
                           \/ \E t \in Transfers : writer[t] # "none"

\* The claim of the comment on transfer_stream_sender: the frames of all
\* streams "stay decryptable in order on the receiving end, regardless of
\* which stream or transport carries" them.  While the connection is up and
\* no message was refused by the cipher, no reader gives up.
StreamsStayDecryptable ==
    (up /\ \A s \in Streams : writer[s] # "dead") => \A s \in Streams : reader[s] = "open"
=============================================================================
