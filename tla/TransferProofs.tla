-------------------------- MODULE TransferProofs --------------------------
(***************************************************************************)
(* Proofs about Transfer, for every file size, chunk size, number of       *)
(* connections, crashes, cancels and answers.                              *)
(***************************************************************************)
EXTENDS Transfer, FiniteSetTheorems, TLAPS

-----------------------------------------------------------------------------
(* Sizes *)

LEMMA TotalChunksFact == TotalChunks \in Nat /\ TotalChunks * CHUNK_SIZE < FILE_SIZE + CHUNK_SIZE
<1> DEFINE n == FILE_SIZE + CHUNK_SIZE - 1
<1>1. n \in Nat /\ CHUNK_SIZE \in Nat \ {0} /\ FILE_SIZE \in Nat
  BY SizeAssumption
<1>2. n \div CHUNK_SIZE \in Nat /\ (n \div CHUNK_SIZE) * CHUNK_SIZE <= n
  BY <1>1, Z3
<1> QED
  BY <1>1, <1>2 DEF TotalChunks

\* A chunk lies inside the file: its length is positive and at most CHUNK_SIZE.
LEMMA ChunkLenFact ==
  ASSUME NEW c \in Chunks
  PROVE  ChunkLen(c) \in Nat /\ ChunkLen(c) <= CHUNK_SIZE /\ ChunkLen(c) > 0
<1>1. /\ CHUNK_SIZE \in Nat \ {0} /\ FILE_SIZE \in Nat /\ TotalChunks \in Nat
      /\ c \in Nat /\ c + 1 <= TotalChunks
  BY SizeAssumption, TotalChunksFact DEF Chunks
<1>2. (c + 1) * CHUNK_SIZE <= TotalChunks * CHUNK_SIZE
  BY <1>1, Z3
<1>3. (c + 1) * CHUNK_SIZE = c * CHUNK_SIZE + CHUNK_SIZE /\ c * CHUNK_SIZE \in Nat
  BY <1>1, Z3
<1>4. c * CHUNK_SIZE < FILE_SIZE
  BY <1>1, <1>2, <1>3, TotalChunksFact
<1> QED
  BY <1>1, <1>3, <1>4 DEF ChunkLen

LEMMA ChunksFinite ==
  /\ IsFiniteSet(Chunks)
  /\ \A A \in SUBSET Chunks : IsFiniteSet(A) /\ Cardinality(A) \in Nat
<1>1. IsFiniteSet(Chunks)
  BY TotalChunksFact, FS_Interval DEF Chunks
<1> QED
  BY <1>1, FS_Subset, FS_CardinalityType

LEMMA ConstantsFact ==
  /\ MaxConns \in Nat \ {0} /\ MaxAnswers \in Nat /\ MaxCancels \in Nat /\ MaxCrashes \in Nat
  /\ 1 \in Conns /\ Jobs = Conns /\ Devices = {"S", "R"}
  BY BoundAssumption DEF Conns, Jobs, Devices

LEMMA MessageFact ==
  /\ \A k \in Kinds : Control(k) \in Messages
  /\ \A c \in Chunks : FileChunk(c) \in Messages
  BY DEF Messages

LEMMA InitType == Init => TypeOK
<1> SUFFICES ASSUME Init PROVE TypeOK
  OBVIOUS
<1> USE ConstantsFact
<1>1. TypeSender
  <2>1. acceptTx \in BOOLEAN
    BY Zenon DEF Init
  <2>2. txq \in [Conns -> Seq(Chunks)] /\ writer \in [Conns -> {"none", "open", "dead"}]
    BY DEF Init
  <2> QED
    BY <2>1, <2>2 DEF Init, TypeSender
<1>2. TypeRun
  BY DEF Init, TypeRun, JobPCs
<1>3. TypeHandle
  BY DEF Init, TypeHandle
<1>4. TypeNet
  BY DEF Init, TypeNet
<1>5. TypeChan
  BY DEF Init, TypeChan
<1>6. TypeReceiver
  <2>1. offered \in BOOLEAN /\ accepting \in BOOLEAN /\ rComplete \in BOOLEAN
    BY Zenon DEF Init
  <2>2. handler \in [Conns -> HandlerStates]
    BY DEF Init, HandlerStates, Idle
  <2>3. rAcked \in [Handles -> SUBSET Chunks] /\ rBytes \in [Handles -> Nat]
        /\ rCancelled \in [Handles -> BOOLEAN]
    BY DEF Init
  <2> QED
    BY <2>1, <2>2, <2>3 DEF Init, TypeReceiver
<1>7. TypeBounds
  <2>1. ioFailed \in BOOLEAN
    BY Zenon DEF Init
  <2> QED
    BY <2>1 DEF Init, TypeBounds
<1> QED
  BY <1>1, <1>2, <1>3, <1>4, <1>5, <1>6, <1>7 DEF TypeOK

-----------------------------------------------------------------------------
(* Type correctness *)

LEMMA KeepSender == ASSUME TypeSender, UNCHANGED <<db, entry, stream>> PROVE TypeSender'
  BY DEF TypeSender, db, entry, stream
LEMMA KeepRun == ASSUME TypeRun, UNCHANGED run PROVE TypeRun'
  BY DEF TypeRun, run
LEMMA KeepHandle == ASSUME TypeHandle, UNCHANGED handle PROVE TypeHandle'
  BY DEF TypeHandle, handle
LEMMA KeepNet == ASSUME TypeNet, UNCHANGED net PROVE TypeNet'
  BY DEF TypeNet, net
LEMMA KeepReceiver == ASSUME TypeReceiver, UNCHANGED recv PROVE TypeReceiver'
  BY DEF TypeReceiver, recv, recvH
LEMMA KeepBounds == ASSUME TypeBounds, UNCHANGED <<sEvents, bounds>> PROVE TypeBounds'
  BY DEF TypeBounds, bounds

\* A read or a write fails.
LEMMA IOFailsType ==
  ASSUME TypeBounds, ioFailed' = TRUE, UNCHANGED <<sEvents, cancels, crashes>>
  PROVE  TypeBounds'
<1>1. ioFailed' \in BOOLEAN
  BY Zenon
<1> QED
  BY <1>1 DEF TypeBounds

\* Channels keep their type when a message is posted, consumed or dropped.
LEMMA PostType ==
  ASSUME TypeChan, NEW e \in Conns, NEW d \in Devices, NEW m \in Messages
  PROVE  Post(chan, e, d, m) \in [Conns -> [Devices -> Seq(Messages)]]
<1>1. chan[e][d] \in Seq(Messages) /\ Append(chan[e][d], m) \in Seq(Messages)
  BY DEF TypeChan
<1> QED
  BY <1>1 DEF TypeChan, Post

LEMMA SendToType ==
  ASSUME TypeChan, TypeNet, NEW d \in Devices, NEW k \in Kinds, SendTo(d, k)
  PROVE  TypeChan'
<1>1. Other(d) \in Devices
  BY ConstantsFact DEF Other
<1>2. CASE sessions[Other(d)] = 0
  BY <1>2 DEF TypeChan, SendTo
<1>3. CASE sessions[Other(d)] # 0
  <2>1. sessions[Other(d)] \in Conns
    BY <1>1, <1>3, ConstantsFact DEF TypeNet, Conns
  <2> QED
    BY <1>3, <2>1, PostType, MessageFact DEF SendTo, TypeChan
<1> QED
  BY <1>2, <1>3

LEMMA ConsumeType ==
  ASSUME TypeChan, NEW e \in Conns, NEW d \in Devices, chan[e][d] # <<>>, chan' = Consume(e, d)
  PROVE  TypeChan'
<1>1. chan[e][d] \in Seq(Messages) /\ Tail(chan[e][d]) \in Seq(Messages)
  BY DEF TypeChan
<1> QED
  BY <1>1 DEF TypeChan, Consume

LEMMA DropEntryType == ASSUME TypeSender, DropEntry, UNCHANGED <<db, stream>> PROVE TypeSender'
<1>1. acceptTx' \in BOOLEAN
  BY Zenon DEF DropEntry
<1>2. outgoing' \in 0..MaxConns /\ answer' \in {"none", "yes", "no", "closed"}
  BY ConstantsFact DEF DropEntry, TypeSender
<1> QED
  BY <1>1, <1>2 DEF TypeSender, db, stream

LEMMA CancelOutgoingType ==
  ASSUME TypeHandle, CancelOutgoing, UNCHANGED <<acked, bytes, paused>>
  PROVE  TypeHandle'
<1>1. cancelled' \in [Jobs -> BOOLEAN]
  BY DEF TypeHandle, CancelOutgoing
<1> QED
  BY <1>1 DEF TypeHandle

LEMMA CancelIncomingType ==
  ASSUME TypeReceiver, CancelIncoming,
         UNCHANGED <<offered, answers, accepting, incoming, rAcked, rBytes, disk, handler, rComplete>>
  PROVE  TypeReceiver'
<1>1. rCancelled' \in [Handles -> BOOLEAN]
  BY DEF TypeReceiver, CancelIncoming
<1> QED
  BY <1>1 DEF TypeReceiver

\* A chunk handler at work has a chunk of the file and a handle.
LEMMA HandlerFact ==
  ASSUME TypeReceiver, NEW e \in Conns, handler[e].step # "idle"
  PROVE  /\ handler[e] \in [step : {"write", "mark", "check"}, chunk : Chunks, h : Handles]
         /\ handler[e].chunk \in Chunks /\ handler[e].h \in Handles
  BY DEF TypeReceiver, HandlerStates, Idle

\* The steps of send_file and of its waiter keep the types.
LEMMA SendFileType ==
  ASSUME TypeOK, SendFileStep
  PROVE  TypeOK'
<1> USE ConstantsFact, KeepSender, KeepRun, KeepHandle, KeepNet, KeepReceiver, KeepBounds
<1> USE DEF db, entry, run, handle, stream, sender, net, recv, recvH, bounds
<1>1. CASE SendFile
  <2>1. TypeSender'
    BY <1>1 DEF TypeOK, TypeSender, SendFile
  <2>2. TypeRun'
    BY <1>1 DEF TypeOK, TypeRun, SendFile, JobPCs
  <2>3. TypeChan'
    BY <1>1 DEF TypeOK, TypeChan, SendFile
  <2> QED
    BY <1>1, <2>1, <2>2, <2>3 DEF TypeOK, SendFile
<1>2. CASE SendOffer
  <2>1. TypeSender'
    BY <1>2 DEF TypeOK, TypeSender, SendOffer
  <2>2. TypeRun'
    BY <1>2 DEF TypeOK, TypeRun, SendOffer, JobPCs
  <2>3. TypeChan'
    BY <1>2, SendToType DEF TypeOK, Kinds, SendOffer
  <2> QED
    BY <1>2, <2>1, <2>2, <2>3 DEF TypeOK, SendOffer
<1>3. CASE WaiterAccepted
  <2>1. TypeRun'
    BY <1>3 DEF TypeOK, TypeRun, WaiterAccepted, JobPCs
  <2>2. TypeChan'
    BY <1>3 DEF TypeOK, TypeChan, WaiterAccepted
  <2> QED
    BY <1>3, <2>1, <2>2 DEF TypeOK, WaiterAccepted
<1>4. CASE WaiterGivesUp
  <2>1. TypeSender'
    BY <1>4, DropEntryType DEF TypeOK, WaiterGivesUp
  <2>2. TypeRun'
    BY <1>4 DEF TypeOK, TypeRun, WaiterGivesUp, JobPCs
  <2>3. TypeChan'
    BY <1>4 DEF TypeOK, TypeChan, WaiterGivesUp
  <2> QED
    BY <1>4, <2>1, <2>2, <2>3 DEF TypeOK, WaiterGivesUp
<1> QED
  BY <1>1, <1>2, <1>3, <1>4 DEF SendFileStep

\* So do the requests of the users.
LEMMA UserType ==
  ASSUME TypeOK, UserStep
  PROVE  TypeOK'
<1> USE ConstantsFact, KeepSender, KeepRun, KeepHandle, KeepNet, KeepReceiver, KeepBounds
<1> USE DEF db, entry, run, handle, stream, sender, net, recv, recvH, bounds
<1>1. CASE AcceptFilePrepare
  <2>1. TypeReceiver'
    BY <1>1 DEF TypeOK, TypeReceiver, AcceptFilePrepare
  <2>2. TypeChan'
    BY <1>1 DEF TypeOK, TypeChan, AcceptFilePrepare
  <2> QED
    BY <1>1, <2>1, <2>2 DEF TypeOK, AcceptFilePrepare
<1>2. CASE AcceptFileRegister
  <2>1. TypeReceiver'
    BY <1>2 DEF TypeOK, TypeReceiver, AcceptFileRegister
  <2>2. TypeChan'
    BY <1>2, SendToType DEF TypeOK, Kinds, AcceptFileRegister
  <2> QED
    BY <1>2, <2>1, <2>2 DEF TypeOK, AcceptFileRegister
<1>3. CASE RejectFile
  <2>1. TypeReceiver'
    BY <1>3 DEF TypeOK, TypeReceiver, RejectFile
  <2>2. TypeChan'
    BY <1>3, SendToType DEF TypeOK, Kinds, RejectFile
  <2> QED
    BY <1>3, <2>1, <2>2 DEF TypeOK, RejectFile
<1>4. CASE PauseResume
  <2>1. TypeHandle'
    BY <1>4 DEF TypeOK, TypeHandle, PauseResume
  <2>2. TypeChan'
    BY <1>4 DEF TypeOK, TypeChan, PauseResume
  <2> QED
    BY <1>4, <2>1, <2>2 DEF TypeOK, PauseResume
<1>5. CASE CancelAtS
  <2>1. TypeHandle'
    BY <1>5, CancelOutgoingType DEF TypeOK, CancelAtS
  <2>2. TypeChan'
    BY <1>5, SendToType DEF TypeOK, Kinds, CancelAtS
  <2>3. TypeBounds'
    BY <1>5 DEF TypeOK, TypeBounds, CancelAtS
  <2> QED
    BY <1>5, <2>1, <2>2, <2>3 DEF TypeOK, CancelAtS
<1>6. CASE CancelAtR
  <2>1. TypeReceiver'
    BY <1>6, CancelIncomingType DEF TypeOK, CancelAtR
  <2>2. TypeChan'
    BY <1>6, SendToType DEF TypeOK, Kinds, CancelAtR
  <2>3. TypeBounds'
    BY <1>6 DEF TypeOK, TypeBounds, CancelAtR
  <2> QED
    BY <1>6, <2>1, <2>2, <2>3 DEF TypeOK, CancelAtR
<1> QED
  BY <1>1, <1>2, <1>3, <1>4, <1>5, <1>6 DEF UserStep

\* The steps of auto-resume and of run_outgoing_transfer.
LEMMA JobType ==
  ASSUME TypeOK, NEW j \in Jobs, JobStep(j)
  PROVE  TypeOK'
<1> USE ConstantsFact, KeepSender, KeepRun, KeepHandle, KeepNet, KeepReceiver, KeepBounds
<1> USE DEF db, entry, run, handle, stream, sender, net, recv, recvH, bounds
<1>1. CASE AutoResumeList(j)
  <2>1. TypeRun'
    BY <1>1 DEF TypeOK, TypeRun, AutoResumeList, JobPCs
  <2>2. TypeChan'
    BY <1>1 DEF TypeOK, TypeChan, AutoResumeList
  <2> QED
    BY <1>1, <2>1, <2>2 DEF TypeOK, AutoResumeList
<1>2. CASE AutoResumeCheck(j)
  <2>1. TypeRun'
    BY <1>2 DEF TypeOK, TypeRun, AutoResumeCheck, JobPCs
  <2>2. TypeChan'
    BY <1>2 DEF TypeOK, TypeChan, AutoResumeCheck
  <2> QED
    BY <1>2, <2>1, <2>2 DEF TypeOK, AutoResumeCheck
<1>3. CASE AutoResumeInsert(j)
  <2>1. TypeSender'
    <3>1. acceptTx' \in BOOLEAN
      BY <1>3, Zenon DEF AutoResumeInsert
    <3>2. outgoing' \in 0..MaxConns /\ answer' \in {"none", "yes", "no", "closed"}
      BY <1>3 DEF TypeOK, TypeSender, AutoResumeInsert, Conns
    <3> QED
      BY <1>3, <3>1, <3>2 DEF TypeOK, TypeSender, AutoResumeInsert
  <2>2. TypeRun'
    BY <1>3 DEF TypeOK, TypeRun, AutoResumeInsert, JobPCs
  <2>3. TypeChan'
    BY <1>3 DEF TypeOK, TypeChan, AutoResumeInsert
  <2> QED
    BY <1>3, <2>1, <2>2, <2>3 DEF TypeOK, AutoResumeInsert
<1>12. CASE AutoResumeLoad(j)
  <2>1. TypeRun'
    BY <1>12 DEF TypeOK, TypeRun, AutoResumeLoad, JobPCs
  <2>2. TypeHandle'
    <3>1. manifest \subseteq Chunks /\ Cardinality(manifest) \in Nat
      BY ChunksFinite DEF TypeOK, TypeSender
    <3>2. ResumedBytes(Cardinality(manifest)) \in Nat
      BY <3>1, SizeAssumption DEF ResumedBytes
    <3> QED
      BY <1>12, <3>1, <3>2 DEF TypeOK, TypeHandle, AutoResumeLoad
  <2>3. TypeChan'
    BY <1>12 DEF TypeOK, TypeChan, AutoResumeLoad
  <2> QED
    BY <1>12, <2>1, <2>2, <2>3 DEF TypeOK, AutoResumeLoad
<1>4. CASE RunStart(j)
  <2>1. TypeRun'
    <3>1. sessions["S"] \in 0..MaxConns
      BY DEF TypeOK, TypeNet
    <3>2. on' \in [Jobs -> 0..MaxConns] /\ todo' \in [Jobs -> SUBSET Chunks]
      BY <1>4, <3>1 DEF TypeOK, TypeRun, RunStart
    <3>3. pc' \in [Jobs -> JobPCs]
      BY <1>4 DEF TypeOK, TypeRun, RunStart, JobPCs
    <3> QED
      BY <1>4, <3>2, <3>3 DEF TypeOK, TypeRun, RunStart
  <2>2. TypeChan'
    BY <1>4 DEF TypeOK, TypeChan, RunStart
  <2> QED
    BY <1>4, <2>1, <2>2 DEF TypeOK, RunStart
<1>5. CASE LoopHead(j)
  <2>1. TypeRun'
    BY <1>5 DEF TypeOK, TypeRun, LoopHead, JobPCs
  <2>2. TypeChan'
    BY <1>5 DEF TypeOK, TypeChan, LoopHead
  <2> QED
    BY <1>5, <2>1, <2>2 DEF TypeOK, LoopHead
<1>6. CASE PauseEnds(j)
  <2>1. TypeRun'
    BY <1>6 DEF TypeOK, TypeRun, PauseEnds, JobPCs
  <2>2. TypeChan'
    BY <1>6 DEF TypeOK, TypeChan, PauseEnds
  <2> QED
    BY <1>6, <2>1, <2>2 DEF TypeOK, PauseEnds
<1>7. CASE SpawnWorker(j)
  <2>1. TypeSender'
    BY <1>7 DEF TypeOK, TypeSender, SpawnWorker
  <2>2. TypeRun'
    BY <1>7 DEF TypeOK, TypeRun, SpawnWorker, JobPCs
  <2>3. TypeChan'
    BY <1>7 DEF TypeOK, TypeChan, SpawnWorker
  <2> QED
    BY <1>7, <2>1, <2>2, <2>3 DEF TypeOK, SpawnWorker
<1>8. CASE OpenStreamFails(j)
  <2>1. TypeRun'
    BY <1>8 DEF TypeOK, TypeRun, OpenStreamFails, JobPCs
  <2>2. TypeChan'
    BY <1>8 DEF TypeOK, TypeChan, OpenStreamFails
  <2> QED
    BY <1>8, <2>1, <2>2 DEF TypeOK, OpenStreamFails
<1>9. CASE JoinFails(j)
  <2>1. TypeRun'
    BY <1>9 DEF TypeOK, TypeRun, JoinFails, JobPCs
  <2>2. TypeChan'
    BY <1>9 DEF TypeOK, TypeChan, JoinFails
  <2> QED
    BY <1>9, <2>1, <2>2 DEF TypeOK, JoinFails
<1>10. CASE JoinSucceeds(j)
  <2>1. TypeSender'
    BY <1>10, DropEntryType DEF TypeOK, JoinSucceeds
  <2>2. TypeRun'
    <3>1. pc' \in [Jobs -> JobPCs]
      <4>1. CASE cancelled[j]
        BY <1>10, <4>1 DEF TypeOK, TypeRun, JoinSucceeds, JobPCs
      <4>2. CASE ~cancelled[j]
        BY <1>10, <4>2 DEF TypeOK, TypeRun, JoinSucceeds, JobPCs
      <4> QED
        BY <4>1, <4>2
    <3> QED
      BY <1>10, <3>1 DEF TypeOK, TypeRun, JoinSucceeds
  <2>3. TypeChan'
    <3>1. CASE cancelled[j]
      BY <1>10, <3>1, SendToType DEF TypeOK, Kinds, JoinSucceeds
    <3>2. CASE ~cancelled[j]
      BY <1>10, <3>2 DEF TypeOK, TypeChan, JoinSucceeds
    <3> QED
      BY <3>1, <3>2
  <2> QED
    BY <1>10, <2>1, <2>2, <2>3 DEF TypeOK, JoinSucceeds
<1>11. CASE RunFinishes(j)
  <2>1. TypeSender'
    BY <1>11 DEF TypeOK, TypeSender, RunFinishes
  <2>2. TypeRun'
    BY <1>11 DEF TypeOK, TypeRun, RunFinishes, JobPCs
  <2>3. TypeChan'
    BY <1>11 DEF TypeOK, TypeChan, RunFinishes
  <2> QED
    BY <1>11, <2>1, <2>2, <2>3 DEF TypeOK, RunFinishes
<1> QED
  BY <1>1, <1>2, <1>3, <1>4, <1>5, <1>6, <1>7, <1>8, <1>9, <1>10, <1>11, <1>12 DEF JobStep

\* The steps of a chunk worker.
LEMMA WorkerType ==
  ASSUME TypeOK, NEW j \in Jobs, NEW c \in Chunks, WorkerStep(j, c)
  PROVE  TypeOK'
<1> USE ConstantsFact, KeepSender, KeepRun, KeepHandle, KeepNet, KeepReceiver, KeepBounds
<1> USE DEF db, entry, run, handle, stream, sender, net, recv, recvH, bounds
<1>1. CASE WorkerSends(j, c)
  <2>1. TypeSender'
    <3>1. CASE writer[on[j]] = "open"
      <4>1. txq' \in [Conns -> Seq(Chunks)]
        <5>1. txq' = [txq EXCEPT ![on[j]] = Append(@, c)]
          BY <1>1, <3>1 DEF WorkerSends
        <5>2. \A e \in Conns : Append(txq[e], c) \in Seq(Chunks)
          BY DEF TypeOK, TypeSender
        <5> QED
          BY <5>1, <5>2 DEF TypeOK, TypeSender
      <4> QED
        BY <1>1, <3>1, <4>1 DEF TypeOK, TypeSender, WorkerSends
    <3>2. CASE writer[on[j]] # "open"
      BY <1>1, <3>2 DEF TypeOK, TypeSender, WorkerSends
    <3> QED
      BY <3>1, <3>2
  <2>2. TypeRun'
    <3>1. \E w \in {"sent", "err"} : work' = [work EXCEPT ![j][c] = w]
      BY <1>1 DEF WorkerSends
    <3>2. work' \in [Jobs -> [Chunks -> {"none", "reading", "sent", "marked", "ok", "err"}]]
      BY <3>1 DEF TypeOK, TypeRun
    <3> QED
      BY <1>1, <3>2 DEF TypeOK, TypeRun, WorkerSends
  <2>3. TypeChan'
    BY <1>1 DEF TypeOK, TypeChan, WorkerSends
  <2> QED
    BY <1>1, <2>1, <2>2, <2>3 DEF TypeOK, WorkerSends
<1>2. CASE WorkerReadFails(j, c)
  <2>1. TypeRun'
    BY <1>2 DEF TypeOK, TypeRun, WorkerReadFails, JobPCs
  <2>2. TypeChan'
    BY <1>2 DEF TypeOK, TypeChan, WorkerReadFails
  <2>3. TypeBounds'
    BY <1>2, IOFailsType DEF TypeOK, WorkerReadFails
  <2> QED
    BY <1>2, <2>1, <2>2, <2>3 DEF TypeOK, WorkerReadFails
<1>3. CASE WorkerMarks(j, c)
  <2>1. TypeRun'
    BY <1>3 DEF TypeOK, TypeRun, WorkerMarks, JobPCs
  <2>2. TypeHandle'
    <3>1. acked' \in [Jobs -> SUBSET Chunks]
      BY <1>3 DEF TypeOK, TypeHandle, WorkerMarks
    <3>2. bytes[j] \in Nat /\ bytes[j] + ChunkLen(c) \in Nat
      BY ChunkLenFact DEF TypeOK, TypeHandle
    <3>3. bytes' \in [Jobs -> Nat]
      BY <1>3, <3>2 DEF TypeOK, TypeHandle, WorkerMarks
    <3> QED
      BY <1>3, <3>1, <3>3 DEF TypeOK, TypeHandle, WorkerMarks
  <2>3. TypeChan'
    BY <1>3 DEF TypeOK, TypeChan, WorkerMarks
  <2> QED
    BY <1>3, <2>1, <2>2, <2>3 DEF TypeOK, WorkerMarks
<1>4. CASE WorkerRecords(j, c)
  <2>1. TypeSender'
    BY <1>4 DEF TypeOK, TypeSender, WorkerRecords
  <2>2. TypeRun'
    BY <1>4 DEF TypeOK, TypeRun, WorkerRecords, JobPCs
  <2>3. TypeChan'
    BY <1>4 DEF TypeOK, TypeChan, WorkerRecords
  <2> QED
    BY <1>4, <2>1, <2>2, <2>3 DEF TypeOK, WorkerRecords
<1> QED
  BY <1>1, <1>2, <1>3, <1>4 DEF WorkerStep

\* The steps of a writer task.
LEMMA WriterType ==
  ASSUME TypeOK, NEW e \in Conns, WriterStep(e)
  PROVE  TypeOK'
<1> USE ConstantsFact, KeepSender, KeepRun, KeepHandle, KeepNet, KeepReceiver, KeepBounds
<1> USE DEF db, entry, run, handle, stream, sender, net, recv, recvH, bounds
<1>1. CASE WriterWrites(e)
  <2>1. TypeSender'
    BY <1>1 DEF TypeOK, TypeSender, WriterWrites
  <2>2. TypeChan'
    <3>1. Head(txq[e]) \in Chunks
      BY <1>1 DEF TypeOK, TypeSender, WriterWrites
    <3> QED
      BY <1>1, <3>1, PostType, MessageFact DEF TypeOK, TypeChan, WriterWrites
  <2> QED
    BY <1>1, <2>1, <2>2 DEF TypeOK, WriterWrites
<1>2. CASE WriterEnds(e)
  <2>1. TypeSender'
    BY <1>2 DEF TypeOK, TypeSender, WriterEnds
  <2>2. TypeChan'
    BY <1>2 DEF TypeOK, TypeChan, WriterEnds
  <2> QED
    BY <1>2, <2>1, <2>2 DEF TypeOK, WriterEnds
<1> QED
  BY <1>1, <1>2 DEF WriterStep

\* What S does with a message.
LEMMA DispatchAtSType ==
  ASSUME TypeOK, NEW e \in Conns, DispatchAtS(e)
  PROVE  TypeOK'
<1> USE ConstantsFact, KeepSender, KeepRun, KeepHandle, KeepNet, KeepReceiver, KeepBounds
<1> USE DEF db, entry, run, handle, stream, sender, net, recv, recvH, bounds
<1>1. CASE HandleFileAccept(e)
  <2>1. TypeSender'
    BY <1>1 DEF TypeOK, TypeSender, HandleFileAccept
  <2>2. TypeChan'
    BY <1>1, ConsumeType DEF TypeOK, HandleFileAccept, Delivers
  <2>3. TypeBounds'
    BY <1>1 DEF TypeOK, TypeBounds, HandleFileAccept
  <2> QED
    BY <1>1, <2>1, <2>2, <2>3 DEF TypeOK, HandleFileAccept
<1>2. CASE HandleFileReject(e)
  <2>1. TypeSender'
    <3>1. acceptTx' \in BOOLEAN
      BY <1>2, Zenon DEF HandleFileReject
    <3>2. outgoing' \in 0..MaxConns /\ answer' \in {"none", "yes", "no", "closed"}
      BY <1>2 DEF TypeOK, TypeSender, HandleFileReject
    <3> QED
      BY <1>2, <3>1, <3>2 DEF TypeOK, TypeSender, HandleFileReject
  <2>2. TypeChan'
    BY <1>2, ConsumeType DEF TypeOK, HandleFileReject, Delivers
  <2>3. TypeBounds'
    BY <1>2 DEF TypeOK, TypeBounds, HandleFileReject
  <2> QED
    BY <1>2, <2>1, <2>2, <2>3 DEF TypeOK, HandleFileReject
<1>3. CASE HandleCancelledAtS(e)
  <2>1. TypeHandle'
    BY <1>3, CancelOutgoingType DEF TypeOK, HandleCancelledAtS
  <2>2. TypeChan'
    BY <1>3, ConsumeType DEF TypeOK, HandleCancelledAtS, Delivers
  <2>3. TypeBounds'
    BY <1>3 DEF TypeOK, TypeBounds, HandleCancelledAtS
  <2> QED
    BY <1>3, <2>1, <2>2, <2>3 DEF TypeOK, HandleCancelledAtS
<1>4. CASE HandleAckOrComplete(e)
  <2>1. TypeChan'
    BY <1>4, ConsumeType DEF TypeOK, HandleAckOrComplete, Delivers
  <2>2. TypeBounds'
    BY <1>4 DEF TypeOK, TypeBounds, HandleAckOrComplete
  <2> QED
    BY <1>4, <2>1, <2>2 DEF TypeOK, HandleAckOrComplete
<1> QED
  BY <1>1, <1>2, <1>3, <1>4 DEF DispatchAtS

\* What R does with a message.
LEMMA DispatchAtRType ==
  ASSUME TypeOK, NEW e \in Conns, DispatchAtR(e)
  PROVE  TypeOK'
<1> USE ConstantsFact, KeepSender, KeepRun, KeepHandle, KeepNet, KeepReceiver, KeepBounds
<1> USE DEF db, entry, run, handle, stream, sender, net, recv, recvH, bounds
<1>1. CASE HandleFileOffer(e)
  <2>1. TypeReceiver'
    BY <1>1 DEF TypeOK, TypeReceiver, HandleFileOffer
  <2>2. TypeChan'
    BY <1>1, ConsumeType DEF TypeOK, HandleFileOffer, Delivers
  <2> QED
    BY <1>1, <2>1, <2>2 DEF TypeOK, HandleFileOffer
<1>2. CASE HandleCancelledAtR(e)
  <2>1. TypeReceiver'
    BY <1>2, CancelIncomingType DEF TypeOK, HandleCancelledAtR
  <2>2. TypeChan'
    BY <1>2, ConsumeType DEF TypeOK, HandleCancelledAtR, Delivers
  <2> QED
    BY <1>2, <2>1, <2>2 DEF TypeOK, HandleCancelledAtR
<1>3. CASE ChunkArrives(e)
  <2>1. TypeReceiver'
    <3>1. handler' \in [Conns -> HandlerStates]
      <4>1. CASE incoming = 0
        BY <1>3, <4>1 DEF TypeOK, TypeReceiver, ChunkArrives
      <4>2. CASE incoming # 0
        <5>1. incoming \in Handles
          BY <4>2 DEF TypeOK, TypeReceiver, Handles
        <5>2. PICK c \in Chunks :
                handler' = [handler EXCEPT ![e] = [step |-> "write", chunk |-> c, h |-> incoming]]
          BY <1>3, <4>2 DEF ChunkArrives
        <5>3. [step |-> "write", chunk |-> c, h |-> incoming] \in HandlerStates
          BY <5>1 DEF HandlerStates
        <5> QED
          BY <5>2, <5>3 DEF TypeOK, TypeReceiver
      <4> QED
        BY <4>1, <4>2
    <3> QED
      BY <1>3, <3>1 DEF TypeOK, TypeReceiver, ChunkArrives
  <2>2. TypeChan'
    BY <1>3, ConsumeType DEF TypeOK, ChunkArrives, Delivers
  <2> QED
    BY <1>3, <2>1, <2>2 DEF TypeOK, ChunkArrives
<1> QED
  BY <1>1, <1>2, <1>3 DEF DispatchAtR

\* The steps of handle_incoming_chunk.
LEMMA HandlerType ==
  ASSUME TypeOK, NEW e \in Conns, HandlerStep(e)
  PROVE  TypeOK'
<1> USE ConstantsFact, KeepSender, KeepRun, KeepHandle, KeepNet, KeepReceiver, KeepBounds
<1> USE DEF db, entry, run, handle, stream, sender, net, recv, recvH, bounds
<1>1. CASE ChunkWritten(e)
  <2>1. TypeReceiver'
    <3>1. handler[e] \in [step : {"write", "mark", "check"}, chunk : Chunks, h : Handles]
          /\ handler[e].chunk \in Chunks
      BY <1>1, HandlerFact DEF TypeOK, ChunkWritten
    <3>2. [handler[e] EXCEPT !.step = "mark"] \in HandlerStates
      BY <3>1 DEF HandlerStates
    <3>3. handler' = [handler EXCEPT ![e] = [handler[e] EXCEPT !.step = "mark"]]
      BY <1>1 DEF ChunkWritten
    <3>4. handler' \in [Conns -> HandlerStates]
      BY <3>2, <3>3 DEF TypeOK, TypeReceiver
    <3> QED
      BY <1>1, <3>1, <3>4 DEF TypeOK, TypeReceiver, ChunkWritten
  <2>2. TypeChan'
    BY <1>1 DEF TypeOK, TypeChan, ChunkWritten
  <2> QED
    BY <1>1, <2>1, <2>2 DEF TypeOK, ChunkWritten
<1>2. CASE ChunkWriteFails(e)
  <2>1. TypeReceiver'
    <3>1. handler' \in [Conns -> HandlerStates]
      BY <1>2 DEF TypeOK, TypeReceiver, ChunkWriteFails, HandlerStates
    <3> QED
      BY <1>2, <3>1 DEF TypeOK, TypeReceiver, ChunkWriteFails
  <2>2. TypeChan'
    BY <1>2 DEF TypeOK, TypeChan, ChunkWriteFails
  <2>3. TypeBounds'
    BY <1>2, IOFailsType DEF TypeOK, ChunkWriteFails
  <2> QED
    BY <1>2, <2>1, <2>2, <2>3 DEF TypeOK, ChunkWriteFails
<1>3. CASE ChunkMarked(e)
  <2>1. TypeReceiver'
    <3>1. /\ handler[e] \in [step : {"write", "mark", "check"}, chunk : Chunks, h : Handles]
          /\ handler[e].chunk \in Chunks /\ handler[e].h \in Handles
      BY <1>3, HandlerFact DEF TypeOK, ChunkMarked
    <3>2. [handler[e] EXCEPT !.step = "check"] \in HandlerStates
      BY <3>1 DEF HandlerStates
    <3>3. handler' = [handler EXCEPT ![e] = [handler[e] EXCEPT !.step = "check"]]
      BY <1>3 DEF ChunkMarked
    <3>4. handler' \in [Conns -> HandlerStates]
      BY <3>2, <3>3 DEF TypeOK, TypeReceiver
    <3>5. rAcked' \in [Handles -> SUBSET Chunks]
      BY <1>3, <3>1 DEF TypeOK, TypeReceiver, ChunkMarked
    <3>6. ChunkLen(handler[e].chunk) \in Nat
      BY <3>1, ChunkLenFact
    <3>7. rBytes' \in [Handles -> Nat]
      BY <1>3, <3>1, <3>6 DEF TypeOK, TypeReceiver, ChunkMarked
    <3> QED
      BY <1>3, <3>4, <3>5, <3>7 DEF TypeOK, TypeReceiver, ChunkMarked
  <2>2. TypeChan'
    BY <1>3, SendToType DEF TypeOK, Kinds, ChunkMarked
  <2> QED
    BY <1>3, <2>1, <2>2 DEF TypeOK, ChunkMarked
<1>4. CASE ChunkChecked(e)
  <2>1. TypeReceiver'
    <3>1. handler' \in [Conns -> HandlerStates]
      BY <1>4 DEF TypeOK, TypeReceiver, ChunkChecked, HandlerStates
    <3>2. incoming' \in 0..MaxAnswers
      BY <1>4 DEF TypeOK, TypeReceiver, ChunkChecked
    <3>3. rComplete' \in BOOLEAN
      BY <1>4, Zenon DEF TypeOK, TypeReceiver, ChunkChecked
    <3> QED
      BY <1>4, <3>1, <3>2, <3>3 DEF TypeOK, TypeReceiver, ChunkChecked
  <2>2. TypeChan'
    <3>1. SendTo("S", "complete") \/ UNCHANGED chan
      BY <1>4 DEF ChunkChecked
    <3>2. CASE SendTo("S", "complete")
      BY <3>2, SendToType DEF TypeOK, Kinds
    <3>3. CASE UNCHANGED chan
      BY <3>3 DEF TypeOK, TypeChan
    <3> QED
      BY <3>1, <3>2, <3>3
  <2> QED
    BY <1>4, <2>1, <2>2 DEF TypeOK, ChunkChecked
<1> QED
  BY <1>1, <1>2, <1>3, <1>4 DEF HandlerStep

\* Connections come, break, fall silent and are torn down; processes crash.
LEMMA NetType ==
  ASSUME TypeOK,
         \/ RegisterSession \/ CrashS \/ CrashR
         \/ \E e \in Conns : ConnectionLost(e)
         \/ \E e \in Conns, d \in Devices : Silenced(e, d) \/ ReaderEnds(e, d)
  PROVE  TypeOK'
<1> USE ConstantsFact, KeepSender, KeepRun, KeepHandle, KeepNet, KeepReceiver, KeepBounds
<1> USE DEF db, entry, run, handle, stream, sender, net, recv, recvH, bounds
<1>1. CASE RegisterSession
  <2>1. TypeRun'
    BY <1>1 DEF TypeOK, TypeRun, RegisterSession, JobPCs
  <2>2. TypeNet'
    <3>1. conns + 1 \in Conns
      BY <1>1 DEF TypeOK, TypeNet, RegisterSession, Conns
    <3> QED
      BY <1>1, <3>1 DEF TypeOK, TypeNet, RegisterSession, Conns
  <2>3. TypeChan'
    BY <1>1 DEF TypeOK, TypeChan, RegisterSession
  <2> QED
    BY <1>1, <2>1, <2>2, <2>3 DEF TypeOK, RegisterSession
<1>2. CASE CrashS
  <2>1. TypeSender'
    <3>1. acceptTx' \in BOOLEAN
      BY <1>2, Zenon DEF CrashS
    <3>2. writer' \in [Conns -> {"none", "open", "dead"}] /\ txq' \in [Conns -> Seq(Chunks)]
      BY <1>2 DEF TypeOK, TypeSender, CrashS
    <3> QED
      BY <1>2, <3>1, <3>2 DEF TypeOK, TypeSender, CrashS
  <2>2. TypeRun'
    BY <1>2 DEF TypeOK, TypeRun, CrashS, JobPCs
  <2>3. TypeNet'
    BY <1>2 DEF TypeOK, TypeNet, CrashS, Hangup
  <2>4. TypeChan'
    BY <1>2 DEF TypeChan, CrashS, Hangup
  <2>5. TypeBounds'
    BY <1>2 DEF TypeOK, TypeBounds, CrashS
  <2> QED
    BY <1>2, <2>1, <2>2, <2>3, <2>4, <2>5 DEF TypeOK, CrashS
<1>3. CASE CrashR
  <2>1. TypeReceiver'
    <3>1. accepting' \in BOOLEAN
      BY <1>3, Zenon DEF CrashR
    <3>2. handler' \in [Conns -> HandlerStates]
      BY <1>3 DEF CrashR, HandlerStates
    <3> QED
      BY <1>3, <3>1, <3>2 DEF TypeOK, TypeReceiver, CrashR
  <2>2. TypeNet'
    BY <1>3 DEF TypeOK, TypeNet, CrashR, Hangup
  <2>3. TypeChan'
    BY <1>3 DEF TypeChan, CrashR, Hangup
  <2>4. TypeBounds'
    BY <1>3 DEF TypeOK, TypeBounds, CrashR
  <2> QED
    BY <1>3, <2>1, <2>2, <2>3, <2>4 DEF TypeOK, CrashR
<1>4. ASSUME NEW e \in Conns, ConnectionLost(e) PROVE TypeOK'
  <2>1. TypeNet'
    BY <1>4 DEF TypeOK, TypeNet, ConnectionLost
  <2>2. TypeChan'
    BY <1>4 DEF TypeOK, TypeChan, ConnectionLost
  <2> QED
    BY <1>4, <2>1, <2>2 DEF TypeOK, ConnectionLost
<1>5. ASSUME NEW e \in Conns, NEW d \in Devices, Silenced(e, d) PROVE TypeOK'
  <2>1. TypeNet'
    BY <1>5 DEF TypeOK, TypeNet, Silenced
  <2>2. TypeChan'
    BY <1>5 DEF TypeOK, TypeChan, Silenced
  <2> QED
    BY <1>5, <2>1, <2>2 DEF TypeOK, Silenced
<1>6. ASSUME NEW e \in Conns, NEW d \in Devices, ReaderEnds(e, d) PROVE TypeOK'
  <2>1. TypeNet'
    BY <1>6 DEF TypeOK, TypeNet, ReaderEnds
  <2>2. TypeChan'
    BY <1>6 DEF TypeOK, TypeChan, ReaderEnds
  <2> QED
    BY <1>6, <2>1, <2>2 DEF TypeOK, ReaderEnds
<1> QED
  BY <1>1, <1>2, <1>3, <1>4, <1>5, <1>6

LEMMA TypeStep == TypeOK /\ [Next]_vars => TypeOK'
<1> SUFFICES ASSUME TypeOK, [Next]_vars PROVE TypeOK'
  OBVIOUS
<1>1. CASE UNCHANGED vars
  BY <1>1, KeepSender, KeepRun, KeepHandle, KeepNet, KeepReceiver, KeepBounds
  DEF TypeOK, TypeChan, vars, sender
<1>2. CASE Next
  <2>1. CASE SendFileStep
    BY <2>1, SendFileType
  <2>2. CASE UserStep
    BY <2>2, UserType
  <2>3. CASE \E j \in Jobs : JobStep(j)
    BY <2>3, JobType
  <2>4. CASE \E j \in Jobs, c \in Chunks : WorkerStep(j, c)
    BY <2>4, WorkerType
  <2>5. CASE \E e \in Conns : WriterStep(e) \/ DispatchAtS(e) \/ DispatchAtR(e) \/ HandlerStep(e)
    BY <2>5, WriterType, DispatchAtSType, DispatchAtRType, HandlerType
  <2> QED
    BY <1>2, <2>1, <2>2, <2>3, <2>4, <2>5, NetType DEF Next
<1> QED
  BY <1>1, <1>2

\* The transfer engine keeps its types whatever the file, the chunk size and
\* the number of connections, answers, cancels and crashes.
THEOREM TypeCorrect == Spec => []TypeOK
<1>1. Init => TypeOK
  BY InitType
<1>2. TypeOK /\ [Next]_vars => TypeOK'
  BY TypeStep
<1> QED
  BY <1>1, <1>2, PTL DEF Spec

-----------------------------------------------------------------------------
(* Nothing is reported as sent that was not *)

\* Chunks marked anywhere were put on a stream.
MarksAreSent ==
    /\ manifest \subseteq sentEver
    /\ \A j \in Jobs : acked[j] \subseteq sentEver
    /\ \A j \in Jobs, c \in Chunks : work[j][c] \in {"sent", "marked", "ok"} => c \in sentEver

\* A run has every chunk in hand: still to do, with a worker, or marked before.
RunCoversFile ==
    \A j \in Jobs : pc[j] \in {"head", "pause", "spawn", "join"} =>
        \A c \in Chunks : c \in todo[j] \/ work[j][c] # "none" \/ c \in acked[j]

\* The loop is left when it is through, or because of a cancel.
JoinMeansThrough == \A j \in Jobs : pc[j] = "join" => todo[j] = {} \/ cancelled[j]

\* So is what is about to be reported, and what has been.
ReportsAreTrue ==
    /\ \A j \in Jobs : pc[j] = "completing" => sentEver = Chunks
    /\ state = "completed" => sentEver = Chunks

Accounting == MarksAreSent /\ RunCoversFile /\ JoinMeansThrough /\ ReportsAreTrue

LEMMA InitAccounting == Init => Accounting
  BY DEF Init, Accounting, MarksAreSent, RunCoversFile, JoinMeansThrough, ReportsAreTrue

\* A step that only moves jobs where they do not run, or cancels, keeps it.
LEMMA KeepAccounting ==
  ASSUME Accounting, TypeOK, UNCHANGED <<manifest, todo, work, acked, sentEver>>,
         \A j \in Jobs : pc'[j] = pc[j] \/ pc'[j] \notin {"head", "pause", "spawn", "join", "completing"},
         \A j \in Jobs : cancelled[j] => cancelled'[j],
         state' = "completed" => state = "completed"
  PROVE  Accounting'
<1> USE DEF Accounting
<1>1. MarksAreSent'
  BY DEF MarksAreSent
<1>2. RunCoversFile'
  BY DEF RunCoversFile
<1>3. JoinMeansThrough'
  BY DEF JoinMeansThrough
<1>4. ReportsAreTrue'
  BY DEF ReportsAreTrue
<1> QED
  BY <1>1, <1>2, <1>3, <1>4

LEMMA CancelIsKept ==
  ASSUME TypeOK, CancelOutgoing, NEW j \in Jobs, cancelled[j]
  PROVE  cancelled'[j]
  BY DEF TypeOK, TypeHandle, CancelOutgoing

LEMMA JobAccounting ==
  ASSUME TypeOK, Accounting, NEW j \in Jobs, JobStep(j)
  PROVE  Accounting'
<1> USE DEF db, run, handle, stream, entry
<1>1. CASE AutoResumeList(j)
  BY <1>1, KeepAccounting DEF AutoResumeList, TypeOK, TypeRun
<1>2. CASE AutoResumeCheck(j)
  BY <1>2, KeepAccounting DEF AutoResumeCheck, TypeOK, TypeRun
<1>12. CASE AutoResumeInsert(j)
  BY <1>12, KeepAccounting DEF AutoResumeInsert, TypeOK, TypeRun
<1>3. CASE AutoResumeLoad(j)
  <2>1. pc' = [pc EXCEPT ![j] = "loaded"] /\ acked' = [acked EXCEPT ![j] = manifest]
        /\ UNCHANGED <<state, manifest, todo, work, cancelled, sentEver>>
    BY <1>3 DEF AutoResumeLoad
  <2>2. MarksAreSent'
    BY <2>1 DEF Accounting, MarksAreSent, TypeOK, TypeHandle
  <2>3. RunCoversFile'
    BY <2>1 DEF Accounting, RunCoversFile, TypeOK, TypeRun, TypeHandle
  <2>4. JoinMeansThrough' /\ ReportsAreTrue'
    BY <2>1 DEF Accounting, JoinMeansThrough, ReportsAreTrue, TypeOK, TypeRun
  <2> QED
    BY <2>2, <2>3, <2>4 DEF Accounting
<1>4. CASE RunStart(j)
  <2>1. /\ \E p \in {"failed", "head"} : pc' = [pc EXCEPT ![j] = p]
        /\ todo' = [todo EXCEPT ![j] = Chunks \ acked[j]]
        /\ UNCHANGED <<state, manifest, work, acked, cancelled, sentEver>>
    BY <1>4 DEF RunStart
  <2>2. MarksAreSent'
    BY <2>1 DEF Accounting, MarksAreSent
  <2>3. RunCoversFile'
    BY <2>1 DEF Accounting, RunCoversFile, TypeOK, TypeRun
  <2>4. JoinMeansThrough' /\ ReportsAreTrue'
    BY <2>1 DEF Accounting, JoinMeansThrough, ReportsAreTrue, TypeOK, TypeRun
  <2> QED
    BY <2>2, <2>3, <2>4 DEF Accounting
<1>5. CASE LoopHead(j)
  <2>1. /\ pc[j] = "head"
        /\ \E p \in {"join", "pause", "spawn"} :
              pc' = [pc EXCEPT ![j] = p] /\ (p = "join" => todo[j] = {} \/ cancelled[j])
        /\ UNCHANGED <<state, manifest, todo, work, acked, cancelled, sentEver>>
    BY <1>5 DEF LoopHead
  <2>2. MarksAreSent'
    BY <2>1 DEF Accounting, MarksAreSent
  <2>3. RunCoversFile'
    BY <2>1 DEF Accounting, RunCoversFile, TypeOK, TypeRun
  <2>4. JoinMeansThrough' /\ ReportsAreTrue'
    BY <2>1 DEF Accounting, JoinMeansThrough, ReportsAreTrue, TypeOK, TypeRun
  <2> QED
    BY <2>2, <2>3, <2>4 DEF Accounting
<1>6. CASE PauseEnds(j)
  <2>1. /\ pc[j] = "pause" /\ pc' = [pc EXCEPT ![j] = "spawn"]
        /\ UNCHANGED <<state, manifest, todo, work, acked, cancelled, sentEver>>
    BY <1>6 DEF PauseEnds
  <2>2. MarksAreSent'
    BY <2>1 DEF Accounting, MarksAreSent
  <2>3. RunCoversFile'
    BY <2>1 DEF Accounting, RunCoversFile, TypeOK, TypeRun
  <2>4. JoinMeansThrough' /\ ReportsAreTrue'
    BY <2>1 DEF Accounting, JoinMeansThrough, ReportsAreTrue, TypeOK, TypeRun
  <2> QED
    BY <2>2, <2>3, <2>4 DEF Accounting
<1>7. CASE SpawnWorker(j)
  <2>1. PICK c \in todo[j] : /\ work' = [work EXCEPT ![j][c] = "reading"]
                             /\ todo' = [todo EXCEPT ![j] = @ \ {c}]
    BY <1>7 DEF SpawnWorker
  <2>2. pc[j] = "spawn" /\ pc' = [pc EXCEPT ![j] = "head"]
        /\ UNCHANGED <<state, manifest, acked, cancelled, sentEver>>
    BY <1>7 DEF SpawnWorker
  <2>3. c \in Chunks
    BY <2>1 DEF TypeOK, TypeRun
  <2>4. MarksAreSent'
    BY <2>1, <2>2, <2>3 DEF Accounting, MarksAreSent, TypeOK, TypeRun
  <2>5. RunCoversFile'
    BY <2>1, <2>2, <2>3 DEF Accounting, RunCoversFile, TypeOK, TypeRun
  <2>6. JoinMeansThrough' /\ ReportsAreTrue'
    BY <2>1, <2>2 DEF Accounting, JoinMeansThrough, ReportsAreTrue, TypeOK, TypeRun
  <2> QED
    BY <2>4, <2>5, <2>6 DEF Accounting
<1>8. CASE OpenStreamFails(j)
  BY <1>8, KeepAccounting DEF OpenStreamFails, TypeOK, TypeRun
<1>9. CASE JoinFails(j)
  BY <1>9, KeepAccounting DEF JoinFails, TypeOK, TypeRun
<1>10. CASE JoinSucceeds(j)
  <2>1. pc[j] = "join" /\ UNCHANGED <<state, manifest, todo, work, acked, cancelled, sentEver>>
    BY <1>10 DEF JoinSucceeds
  <2>2. CASE cancelled[j]
    <3>1. pc' = [pc EXCEPT ![j] = "cancelling"]
      BY <1>10, <2>2 DEF JoinSucceeds
    <3> QED
      BY <2>1, <3>1, KeepAccounting DEF TypeOK, TypeRun
  <2>3. CASE ~cancelled[j]
    <3>1. pc' = [pc EXCEPT ![j] = "completing"] /\ \A c \in Chunks : work[j][c] \in {"none", "ok"}
      BY <1>10, <2>3 DEF JoinSucceeds
    <3>2. todo[j] = {}
      BY <2>1, <2>3 DEF Accounting, JoinMeansThrough
    <3>3. \A c \in Chunks : c \in sentEver
      BY <2>1, <3>1, <3>2 DEF Accounting, RunCoversFile, MarksAreSent
    <3>4. sentEver = Chunks
      BY <3>3 DEF TypeOK, TypeSender
    <3>5. MarksAreSent'
      BY <2>1 DEF Accounting, MarksAreSent
    <3>6. RunCoversFile'
      BY <2>1, <3>1 DEF Accounting, RunCoversFile, TypeOK, TypeRun
    <3>7. JoinMeansThrough' /\ ReportsAreTrue'
      BY <2>1, <3>1, <3>4 DEF Accounting, JoinMeansThrough, ReportsAreTrue, TypeOK, TypeRun
    <3> QED
      BY <3>5, <3>6, <3>7 DEF Accounting
  <2> QED
    BY <2>2, <2>3
<1>11. CASE RunFinishes(j)
  <2>1. /\ pc' = [pc EXCEPT ![j] = "done"]
        /\ state' = "completed" => pc[j] = "completing"
        /\ UNCHANGED <<manifest, todo, work, acked, cancelled, sentEver>>
    BY <1>11 DEF RunFinishes
  <2>2. MarksAreSent'
    BY <2>1 DEF Accounting, MarksAreSent
  <2>3. RunCoversFile'
    BY <2>1 DEF Accounting, RunCoversFile, TypeOK, TypeRun
  <2>4. JoinMeansThrough' /\ ReportsAreTrue'
    BY <2>1 DEF Accounting, JoinMeansThrough, ReportsAreTrue, TypeOK, TypeRun
  <2> QED
    BY <2>2, <2>3, <2>4 DEF Accounting
<1> QED
  BY <1>1, <1>2, <1>3, <1>4, <1>5, <1>6, <1>7, <1>8, <1>9, <1>10, <1>11, <1>12 DEF JobStep

LEMMA WorkerAccounting ==
  ASSUME TypeOK, Accounting, NEW j \in Jobs, NEW c \in Chunks, WorkerStep(j, c)
  PROVE  Accounting'
<1> USE DEF db, run, handle, stream
<1>1. CASE WorkerSends(j, c) \/ WorkerReadFails(j, c)
  <2>1. /\ \E w \in {"sent", "err"} : /\ work' = [work EXCEPT ![j][c] = w]
                                      /\ w = "sent" => c \in sentEver'
        /\ sentEver \subseteq sentEver' /\ sentEver' \subseteq Chunks
        /\ UNCHANGED <<state, manifest, pc, todo, acked, cancelled>>
    BY <1>1 DEF WorkerSends, WorkerReadFails, TypeOK, TypeSender
  <2>2. MarksAreSent'
    BY <2>1 DEF Accounting, MarksAreSent, TypeOK, TypeRun
  <2>3. RunCoversFile'
    BY <2>1 DEF Accounting, RunCoversFile, TypeOK, TypeRun
  <2>4. JoinMeansThrough' /\ ReportsAreTrue'
    BY <2>1 DEF Accounting, JoinMeansThrough, ReportsAreTrue
  <2> QED
    BY <2>2, <2>3, <2>4 DEF Accounting
<1>2. CASE WorkerMarks(j, c)
  <2>1. /\ work[j][c] = "sent" /\ work' = [work EXCEPT ![j][c] = "marked"]
        /\ acked' = [acked EXCEPT ![j] = @ \cup {c}]
        /\ UNCHANGED <<state, manifest, pc, todo, cancelled, sentEver>>
    BY <1>2 DEF WorkerMarks
  <2>2. MarksAreSent'
    BY <2>1 DEF Accounting, MarksAreSent, TypeOK, TypeRun, TypeHandle
  <2>3. RunCoversFile'
    BY <2>1 DEF Accounting, RunCoversFile, TypeOK, TypeRun, TypeHandle
  <2>4. JoinMeansThrough' /\ ReportsAreTrue'
    BY <2>1 DEF Accounting, JoinMeansThrough, ReportsAreTrue
  <2> QED
    BY <2>2, <2>3, <2>4 DEF Accounting
<1>3. CASE WorkerRecords(j, c)
  <2>1. /\ work[j][c] = "marked" /\ work' = [work EXCEPT ![j][c] = "ok"]
        /\ manifest' = manifest \cup {c}
        /\ UNCHANGED <<state, pc, todo, acked, cancelled, sentEver>>
    BY <1>3 DEF WorkerRecords
  <2>2. MarksAreSent'
    BY <2>1 DEF Accounting, MarksAreSent, TypeOK, TypeRun
  <2>3. RunCoversFile'
    BY <2>1 DEF Accounting, RunCoversFile, TypeOK, TypeRun
  <2>4. JoinMeansThrough' /\ ReportsAreTrue'
    BY <2>1 DEF Accounting, JoinMeansThrough, ReportsAreTrue
  <2> QED
    BY <2>2, <2>3, <2>4 DEF Accounting
<1> QED
  BY <1>1, <1>2, <1>3 DEF WorkerStep

LEMMA AccountingStep == TypeOK /\ Accounting /\ [Next]_vars => Accounting'
<1> SUFFICES ASSUME TypeOK, Accounting, [Next]_vars PROVE Accounting'
  OBVIOUS
<1> USE DEF db, entry, run, handle, stream, sender, bounds
<1>1. CASE UNCHANGED vars
  BY <1>1, KeepAccounting DEF vars
<1>2. CASE SendFileStep
  BY <1>2, KeepAccounting, ConstantsFact
  DEF SendFileStep, SendFile, SendOffer, WaiterAccepted, WaiterGivesUp, TypeOK, TypeRun
<1>3. CASE UserStep
  <2>1. CASE PauseResume \/ AcceptFilePrepare \/ AcceptFileRegister \/ RejectFile \/ CancelAtR
    BY <2>1, KeepAccounting DEF PauseResume, AcceptFilePrepare, AcceptFileRegister, RejectFile, CancelAtR
  <2>2. CASE CancelAtS
    BY <2>2, KeepAccounting, CancelIsKept DEF CancelAtS
  <2> QED
    BY <1>3, <2>1, <2>2 DEF UserStep
<1>4. CASE RegisterSession
  BY <1>4, KeepAccounting DEF RegisterSession, TypeOK, TypeRun
<1>5. CASE CrashS
  <2>1. /\ \A j \in Jobs : pc'[j] \in Ended
        /\ work' = [j \in Jobs |-> [c \in Chunks |-> "none"]]
        /\ UNCHANGED <<state, manifest, acked, cancelled, sentEver>>
    BY <1>5 DEF CrashS, Ended, TypeOK, TypeRun
  <2> QED
    BY <2>1 DEF Accounting, MarksAreSent, RunCoversFile, JoinMeansThrough, ReportsAreTrue, Ended
<1>6. CASE CrashR
  BY <1>6, KeepAccounting DEF CrashR
<1>7. ASSUME NEW e \in Conns, WriterStep(e) \/ DispatchAtR(e) \/ HandlerStep(e) \/ ConnectionLost(e)
      PROVE  Accounting'
  BY <1>7, KeepAccounting
  DEF WriterStep, WriterWrites, WriterEnds, DispatchAtR, HandleFileOffer, HandleCancelledAtR,
      ChunkArrives, HandlerStep, ChunkWritten, ChunkWriteFails, ChunkMarked, ChunkChecked,
      ConnectionLost
<1>8. ASSUME NEW e \in Conns, DispatchAtS(e)
      PROVE  Accounting'
  <2>1. CASE HandleCancelledAtS(e)
    BY <2>1, KeepAccounting, CancelIsKept DEF HandleCancelledAtS
  <2>2. CASE HandleFileAccept(e) \/ HandleFileReject(e) \/ HandleAckOrComplete(e)
    BY <2>2, KeepAccounting DEF HandleFileAccept, HandleFileReject, HandleAckOrComplete
  <2> QED
    BY <1>8, <2>1, <2>2 DEF DispatchAtS
<1>9. ASSUME NEW e \in Conns, NEW d \in Devices, Silenced(e, d) \/ ReaderEnds(e, d)
      PROVE  Accounting'
  BY <1>9, KeepAccounting DEF Silenced, ReaderEnds
<1> QED
  BY <1>1, <1>2, <1>3, <1>4, <1>5, <1>6, <1>7, <1>8, <1>9, JobAccounting, WorkerAccounting DEF Next

\* A transfer row says "completed" only when every chunk of the file was put on
\* a transfer stream by some run, however often the engine was paused,
\* cancelled, cut off, crashed or resumed.
THEOREM CompletedIsSent == Spec => []CompletedMeansAllSent
<1>1. Init => Accounting
  BY InitAccounting
<1>2. TypeOK /\ Accounting /\ [Next]_vars => Accounting'
  BY AccountingStep
<1>3. Accounting => CompletedMeansAllSent
  BY DEF Accounting, ReportsAreTrue, CompletedMeansAllSent
<1> QED
  BY <1>1, <1>2, <1>3, TypeCorrect, PTL DEF Spec


-----------------------------------------------------------------------------
(* A cancelled run stops *)

\* Where the loop has not yet been told, no worker is late; and only the
\* registration of its connection starts an auto-resume job.
LateBound ==
    /\ \A j \in Jobs : late[j] <= 1
    /\ \A j \in Jobs : late[j] # 0 => cancelled[j]
    /\ \A j \in Jobs : pc[j] \in {"off", "offer", "wait", "list", "check", "resume", "loaded", "start",
                                  "pause", "spawn"} => late[j] = 0
    /\ \A j \in Jobs : j > conns => pc[j] = "off"

LEMMA KeepLateBound ==
  ASSUME TypeOK, LateBound, late' = late, conns' >= conns, conns' \in Nat,
         \A j \in Jobs : cancelled[j] => cancelled'[j],
         \A j \in Jobs : pc'[j] = pc[j] \/ (j <= conns' /\ late[j] = 0) \/ pc'[j] \in Ended \ {"off"}
                            \/ pc'[j] \in {"head", "join", "cancelling", "completing"},
         \A j \in Jobs : j > conns' => pc'[j] = pc[j]
  PROVE  LateBound'
<1>1. \A j \in Jobs : late'[j] <= 1 /\ (late'[j] # 0 => cancelled'[j])
  BY DEF LateBound
<1>2. ASSUME NEW j \in Jobs,
             pc'[j] \in {"off", "offer", "wait", "list", "check", "resume", "loaded", "start", "pause", "spawn"}
      PROVE  late'[j] = 0
  BY <1>2 DEF LateBound, Ended
<1>3. ASSUME NEW j \in Jobs, j > conns' PROVE pc'[j] = "off"
  BY <1>3 DEF LateBound, TypeOK, TypeNet, Jobs, Conns
<1> QED
  BY <1>1, <1>2, <1>3 DEF LateBound

\* A job that is not "off" has had its connection registered.
LEMMA JobsAreRegistered ==
  ASSUME TypeOK, LateBound, NEW j \in Jobs, pc[j] # "off"
  PROVE  j <= conns
  BY DEF LateBound, TypeOK, TypeNet, Jobs, Conns

LEMMA JobLateBound ==
  ASSUME TypeOK, LateBound, NEW j \in Jobs, JobStep(j)
  PROVE  LateBound'
<1> USE DEF db, run, handle, stream, entry, net
<1>0. conns \in Nat /\ conns >= conns
  BY ConstantsFact DEF TypeOK, TypeNet, Conns
<1>1. CASE \/ AutoResumeList(j) \/ AutoResumeCheck(j) \/ AutoResumeLoad(j) \/ AutoResumeInsert(j)
           \/ RunStart(j) \/ PauseEnds(j)
  <2>1. pc[j] \in {"list", "check", "resume", "loaded", "start", "pause"}
        /\ \E p \in JobPCs : pc' = [pc EXCEPT ![j] = p]
        /\ UNCHANGED <<late, cancelled, conns>>
    BY <1>1 DEF AutoResumeList, AutoResumeCheck, AutoResumeLoad, AutoResumeInsert, RunStart, PauseEnds, JobPCs
  <2>2. late[j] = 0 /\ j <= conns
    BY <2>1, JobsAreRegistered DEF LateBound
  <2>3. \A i \in Jobs : i # j => pc'[i] = pc[i]
    BY <2>1 DEF TypeOK, TypeRun
  <2>4. \A i \in Jobs : i > conns' => i # j
    BY <1>0, <2>1, <2>2 DEF Jobs, Conns
  <2> QED
    BY <1>0, <2>1, <2>2, <2>3, <2>4, KeepLateBound
<1>2. CASE LoopHead(j)
  <2>1. /\ pc[j] = "head"
        /\ \E p \in {"join", "pause", "spawn"} :
              pc' = [pc EXCEPT ![j] = p] /\ (cancelled[j] => p = "join")
        /\ UNCHANGED <<late, cancelled, conns>>
    BY <1>2 DEF LoopHead
  <2>2. j <= conns /\ (~cancelled[j] => late[j] = 0)
    BY <2>1, JobsAreRegistered DEF LateBound
  <2>3. \A i \in Jobs : i # j => pc'[i] = pc[i]
    BY <2>1 DEF TypeOK, TypeRun
  <2>4. \A i \in Jobs : i > conns' => i # j
    BY <1>0, <2>1, <2>2 DEF Jobs, Conns
  <2>5. late[j] = 0 \/ pc'[j] = "join"
    BY <2>1, <2>2 DEF TypeOK, TypeRun
  <2> QED
    BY <1>0, <2>1, <2>2, <2>3, <2>4, <2>5, KeepLateBound
<1>3. CASE SpawnWorker(j)
  <2>1. /\ pc[j] = "spawn" /\ pc' = [pc EXCEPT ![j] = "head"]
        /\ late' = [late EXCEPT ![j] = IF cancelled[j] THEN @ + 1 ELSE @]
        /\ UNCHANGED <<cancelled, conns>>
    BY <1>3 DEF SpawnWorker
  <2>2. late[j] = 0 /\ j <= conns
    BY <2>1, JobsAreRegistered DEF LateBound
  <2>3. \A i \in Jobs : i # j => late'[i] = late[i] /\ pc'[i] = pc[i]
    BY <2>1 DEF TypeOK, TypeRun
  <2>4. pc'[j] = "head" /\ late'[j] <= 1 /\ (late'[j] # 0 => cancelled[j])
    BY <2>1, <2>2 DEF TypeOK, TypeRun
  <2>5. \A i \in Jobs : late'[i] <= 1
    BY <2>3, <2>4 DEF LateBound
  <2>6. \A i \in Jobs : late'[i] # 0 => cancelled'[i]
    BY <2>1, <2>3, <2>4 DEF LateBound
  <2>7. ASSUME NEW i \in Jobs, pc'[i] \in {"off", "offer", "wait", "list", "check", "resume", "loaded", "start",
                                           "pause", "spawn"}
        PROVE  late'[i] = 0
    BY <2>3, <2>4, <2>7 DEF LateBound
  <2>8. \A i \in Jobs : i > conns' => pc'[i] = "off"
    BY <1>0, <2>1, <2>2, <2>3 DEF LateBound
  <2> QED
    BY <2>5, <2>6, <2>7, <2>8 DEF LateBound
<1>4. CASE OpenStreamFails(j) \/ JoinFails(j) \/ JoinSucceeds(j) \/ RunFinishes(j)
  <2>1. /\ pc[j] # "off"
        /\ \E p \in {"failed", "done", "cancelling", "completing"} : pc' = [pc EXCEPT ![j] = p]
        /\ UNCHANGED <<late, cancelled, conns>>
    BY <1>4 DEF OpenStreamFails, JoinFails, JoinSucceeds, RunFinishes
  <2>2. j <= conns
    BY <2>1, JobsAreRegistered
  <2>3. \A i \in Jobs : i # j => pc'[i] = pc[i]
    BY <2>1 DEF TypeOK, TypeRun
  <2>4. \A i \in Jobs : i > conns' => i # j
    BY <1>0, <2>1, <2>2 DEF Jobs, Conns
  <2>5. pc'[j] \in {"failed", "done", "cancelling", "completing"}
    BY <2>1 DEF TypeOK, TypeRun
  <2> QED
    BY <1>0, <2>1, <2>2, <2>3, <2>4, <2>5, KeepLateBound DEF Ended
<1> QED
  BY <1>1, <1>2, <1>3, <1>4 DEF JobStep

LEMMA LateBoundStep == TypeOK /\ LateBound /\ [Next]_vars => LateBound'
<1> SUFFICES ASSUME TypeOK, LateBound, [Next]_vars PROVE LateBound'
  OBVIOUS
<1> USE DEF db, entry, run, handle, stream, sender, net, bounds
<1>0. conns \in Nat /\ conns >= 1
  BY ConstantsFact DEF TypeOK, TypeNet, Conns
<1>1. CASE UNCHANGED vars
  BY <1>0, <1>1, KeepLateBound DEF vars
<1>2. CASE SendFileStep
  <2>1. /\ pc[1] \in {"off", "offer", "wait"}
        /\ \E p \in JobPCs : pc' = [pc EXCEPT ![1] = p]
        /\ UNCHANGED <<late, cancelled, conns>>
    BY <1>2 DEF SendFileStep, SendFile, SendOffer, WaiterAccepted, WaiterGivesUp, JobPCs
  <2>2. late[1] = 0 /\ 1 \in Jobs
    BY <2>1, ConstantsFact DEF LateBound
  <2> QED
    BY <1>0, <2>1, <2>2, KeepLateBound DEF TypeOK, TypeRun, Jobs, Conns
<1>3. CASE UserStep
  <2>1. CASE PauseResume \/ AcceptFilePrepare \/ AcceptFileRegister \/ RejectFile \/ CancelAtR
    BY <1>0, <2>1, KeepLateBound
    DEF PauseResume, AcceptFilePrepare, AcceptFileRegister, RejectFile, CancelAtR
  <2>2. CASE CancelAtS
    BY <1>0, <2>2, KeepLateBound, CancelIsKept DEF CancelAtS
  <2> QED
    BY <1>3, <2>1, <2>2 DEF UserStep
<1>4. CASE RegisterSession
  <2>1. /\ conns' = conns + 1 /\ conns + 1 \in Jobs
        /\ pc' = [pc EXCEPT ![conns + 1] = "list"]
        /\ UNCHANGED <<late, cancelled>>
    BY <1>0, <1>4, ConstantsFact DEF RegisterSession, Jobs, Conns
  <2>2. late[conns + 1] = 0
    BY <1>0, <2>1 DEF LateBound
  <2> QED
    BY <1>0, <2>1, <2>2, KeepLateBound DEF TypeOK, TypeRun, Jobs, Conns
<1>5. CASE CrashS
  <2>1. /\ \A j \in Jobs : pc'[j] = pc[j] \/ (pc'[j] = "killed" /\ pc[j] # "off")
        /\ UNCHANGED <<late, cancelled, conns>>
    BY <1>5 DEF CrashS, Ended
  <2>2. \A j \in Jobs : j > conns => pc'[j] = pc[j]
    BY <2>1 DEF LateBound
  <2> QED
    BY <1>0, <2>1, <2>2, KeepLateBound DEF Ended
<1>6. CASE CrashR
  BY <1>0, <1>6, KeepLateBound DEF CrashR
<1>7. ASSUME NEW e \in Conns, WriterStep(e) \/ DispatchAtR(e) \/ HandlerStep(e) \/ ConnectionLost(e)
      PROVE  LateBound'
  BY <1>0, <1>7, KeepLateBound
  DEF WriterStep, WriterWrites, WriterEnds, DispatchAtR, HandleFileOffer, HandleCancelledAtR,
      ChunkArrives, HandlerStep, ChunkWritten, ChunkWriteFails, ChunkMarked, ChunkChecked,
      ConnectionLost
<1>8. ASSUME NEW e \in Conns, DispatchAtS(e)
      PROVE  LateBound'
  <2>1. CASE HandleCancelledAtS(e)
    BY <1>0, <2>1, KeepLateBound, CancelIsKept DEF HandleCancelledAtS
  <2>2. CASE HandleFileAccept(e) \/ HandleFileReject(e) \/ HandleAckOrComplete(e)
    BY <1>0, <2>2, KeepLateBound DEF HandleFileAccept, HandleFileReject, HandleAckOrComplete
  <2> QED
    BY <1>8, <2>1, <2>2 DEF DispatchAtS
<1>9. ASSUME NEW e \in Conns, NEW d \in Devices, Silenced(e, d) \/ ReaderEnds(e, d)
      PROVE  LateBound'
  BY <1>0, <1>9, KeepLateBound DEF Silenced, ReaderEnds
<1>10. ASSUME NEW j \in Jobs, NEW c \in Chunks, WorkerStep(j, c)
       PROVE  LateBound'
  BY <1>0, <1>10, KeepLateBound DEF WorkerStep, WorkerSends, WorkerReadFails, WorkerMarks, WorkerRecords
<1> QED
  BY <1>1, <1>2, <1>3, <1>4, <1>5, <1>6, <1>7, <1>8, <1>9, <1>10, JobLateBound DEF Next

\* A cancel lets a run spawn at most one more worker, on whichever side of the
\* pause loop it finds it.
THEOREM CancelStopsRun == Spec => []CancelStopsSpawning
<1>1. Init => LateBound
  BY ConstantsFact DEF Init, LateBound
<1>2. TypeOK /\ LateBound /\ [Next]_vars => LateBound'
  BY LateBoundStep
<1>3. LateBound => CancelStopsSpawning
  BY DEF LateBound, CancelStopsSpawning
<1> QED
  BY <1>1, <1>2, <1>3, TypeCorrect, PTL DEF Spec


-----------------------------------------------------------------------------
(* What R reports as complete is on its disk *)

\* Before the first answer nothing is registered, handled or marked.
NothingYet ==
    answers = 0 => /\ ~accepting /\ ~rComplete /\ incoming = 0
                   /\ \A h \in Handles : rAcked[h] = {}
                   /\ \A e \in Conns : handler[e].step = "idle"

\* Until the file is truncated by a second accept, what a handle or a handler
\* has marked is in the file.
MarkedIsWritten ==
    answers <= 1 => /\ \A h \in Handles : rAcked[h] \subseteq disk
                    /\ \A e \in Conns : handler[e].step \in {"mark", "check"} => handler[e].chunk \in disk
                    /\ rComplete => disk = Chunks

FileInv == NothingYet /\ MarkedIsWritten

LEMMA InitFileInv == Init => FileInv
<1> SUFFICES ASSUME Init PROVE FileInv
  OBVIOUS
<1>1. ~accepting /\ ~rComplete
  BY Zenon DEF Init
<1> QED
  BY <1>1 DEF Init, FileInv, NothingYet, MarkedIsWritten, Idle

LEMMA KeepFileInv ==
  ASSUME FileInv, UNCHANGED <<answers, accepting, incoming, rAcked, disk, handler, rComplete>>
  PROVE  FileInv'
  BY DEF FileInv, NothingYet, MarkedIsWritten

LEMMA UserFileInv ==
  ASSUME TypeOK, FileInv, UserStep
  PROVE  FileInv'
<1> USE DEF sender, recv, recvH, bounds
<1>0. answers \in Nat
  BY ConstantsFact DEF TypeOK, TypeReceiver
<1>1. CASE AcceptFilePrepare
  <2>1. /\ answers' = answers + 1 /\ disk' = {}
        /\ UNCHANGED <<incoming, rAcked, handler, rComplete>>
    BY <1>1 DEF AcceptFilePrepare
  <2>2. NothingYet'
    BY <1>0, <2>1 DEF NothingYet
  <2>3. ASSUME answers = 0 PROVE MarkedIsWritten'
    <3>1. ~rComplete' /\ \A h \in Handles : rAcked'[h] = {}
      BY <2>1, <2>3 DEF FileInv, NothingYet
    <3>2. \A e \in Conns : handler'[e].step = "idle"
      BY <2>1, <2>3 DEF FileInv, NothingYet
    <3> QED
      BY <3>1, <3>2 DEF MarkedIsWritten
  <2>4. ASSUME answers # 0 PROVE MarkedIsWritten'
    BY <1>0, <2>1, <2>4 DEF MarkedIsWritten
  <2> QED
    BY <2>2, <2>3, <2>4 DEF FileInv
<1>2. CASE AcceptFileRegister
  <2>1. accepting /\ UNCHANGED <<answers, rAcked, disk, handler, rComplete>>
    BY <1>2 DEF AcceptFileRegister
  <2>2. answers # 0
    BY <2>1 DEF FileInv, NothingYet
  <2> QED
    BY <2>1, <2>2 DEF FileInv, NothingYet, MarkedIsWritten
<1>3. CASE RejectFile
  <2>1. answers' = answers + 1 /\ UNCHANGED <<rAcked, disk, handler, rComplete>>
    BY <1>3 DEF RejectFile
  <2>2. answers' # 0 /\ (answers' <= 1 => answers <= 1)
    BY <1>0, <2>1
  <2> QED
    BY <2>1, <2>2 DEF FileInv, NothingYet, MarkedIsWritten
<1>4. CASE PauseResume \/ CancelAtS \/ CancelAtR
  BY <1>4, KeepFileInv DEF PauseResume, CancelAtS, CancelAtR
<1> QED
  BY <1>1, <1>2, <1>3, <1>4 DEF UserStep

LEMMA ReceiveFileInv ==
  ASSUME TypeOK, FileInv, NEW e \in Conns, DispatchAtR(e) \/ HandlerStep(e)
  PROVE  FileInv'
<1> USE DEF sender, recv, recvH, bounds
<1>1. CASE HandleFileOffer(e) \/ HandleCancelledAtR(e)
  BY <1>1, KeepFileInv DEF HandleFileOffer, HandleCancelledAtR
<1>2. CASE ChunkArrives(e)
  <2>1. UNCHANGED <<answers, accepting, incoming, rAcked, disk, rComplete>>
    BY <1>2 DEF ChunkArrives
  <2>2. CASE incoming = 0
    <3>1. handler' = handler
      BY <1>2, <2>2 DEF ChunkArrives
    <3> QED
      BY <2>1, <3>1, KeepFileInv
  <2>3. CASE incoming # 0
    <3>1. PICK c \in Chunks :
             handler' = [handler EXCEPT ![e] = [step |-> "write", chunk |-> c, h |-> incoming]]
      BY <1>2, <2>3 DEF ChunkArrives
    <3>2. \A i \in Conns : handler'[i] = handler[i] \/ handler'[i].step = "write"
      BY <3>1 DEF TypeOK, TypeReceiver
    <3>3. answers # 0
      BY <2>3 DEF FileInv, NothingYet
    <3>4. NothingYet'
      BY <2>1, <3>3 DEF NothingYet
    <3>5. MarkedIsWritten'
      BY <2>1, <3>2 DEF FileInv, MarkedIsWritten
    <3> QED
      BY <3>4, <3>5 DEF FileInv
  <2> QED
    BY <2>2, <2>3
<1>3. CASE HandlerStep(e)
  <2>1. handler[e].step # "idle"
    BY <1>3 DEF HandlerStep, ChunkWritten, ChunkWriteFails, ChunkMarked, ChunkChecked
  <2>2. /\ handler[e].chunk \in Chunks /\ handler[e].h \in Handles
        /\ handler[e] \in [step : {"write", "mark", "check"}, chunk : Chunks, h : Handles]
    BY <2>1, HandlerFact DEF TypeOK
  <2>3. answers # 0
    BY <2>1 DEF FileInv, NothingYet
  <2>4. NothingYet'
    <3>1. answers' = answers
      BY <1>3 DEF HandlerStep, ChunkWritten, ChunkWriteFails, ChunkMarked, ChunkChecked
    <3> QED
      BY <2>3, <3>1 DEF NothingYet
  <2>5. CASE ChunkWritten(e)
    <3>1. /\ UNCHANGED <<answers, rAcked, rComplete>>
          /\ disk' = disk \cup {handler[e].chunk}
          /\ handler' = [handler EXCEPT ![e].step = "mark"]
      BY <2>5 DEF ChunkWritten
    <3>2. disk' \subseteq Chunks
      BY <2>2, <3>1 DEF TypeOK, TypeReceiver
    <3>3. /\ handler'[e].chunk = handler[e].chunk
          /\ \A i \in Conns : i # e => handler'[i] = handler[i]
      BY <2>2, <3>1 DEF TypeOK, TypeReceiver
    <3>4. MarkedIsWritten'
      BY <3>1, <3>2, <3>3 DEF FileInv, MarkedIsWritten
    <3> QED
      BY <2>4, <3>4 DEF FileInv
  <2>6. CASE ChunkWriteFails(e)
    <3>1. UNCHANGED <<answers, rAcked, disk, rComplete>> /\ handler' = [handler EXCEPT ![e] = Idle]
      BY <2>6 DEF ChunkWriteFails
    <3>2. \A i \in Conns : handler'[i] = handler[i] \/ handler'[i].step = "idle"
      BY <3>1 DEF TypeOK, TypeReceiver, Idle
    <3>3. MarkedIsWritten'
      BY <3>1, <3>2 DEF FileInv, MarkedIsWritten
    <3> QED
      BY <2>4, <3>3 DEF FileInv
  <2>7. CASE ChunkMarked(e)
    <3>1. /\ UNCHANGED <<answers, disk, rComplete>>
          /\ handler[e].step = "mark"
          /\ rAcked' = [rAcked EXCEPT ![handler[e].h] = @ \cup {handler[e].chunk}]
          /\ handler' = [handler EXCEPT ![e].step = "check"]
      BY <2>7 DEF ChunkMarked
    <3>2. /\ handler'[e].chunk = handler[e].chunk
          /\ \A i \in Conns : i # e => handler'[i] = handler[i]
      BY <2>2, <3>1 DEF TypeOK, TypeReceiver
    <3>3. answers <= 1 => handler[e].chunk \in disk
      BY <3>1 DEF FileInv, MarkedIsWritten
    <3>4. ASSUME answers <= 1, NEW h \in Handles PROVE rAcked'[h] \subseteq disk
      BY <3>1, <3>3, <3>4 DEF FileInv, MarkedIsWritten, TypeOK, TypeReceiver
    <3>5. MarkedIsWritten'
      BY <3>1, <3>2, <3>3, <3>4 DEF FileInv, MarkedIsWritten
    <3> QED
      BY <2>4, <3>5 DEF FileInv
  <2>8. CASE ChunkChecked(e)
    <3>1. UNCHANGED <<answers, rAcked, disk>> /\ handler' = [handler EXCEPT ![e] = Idle]
      BY <2>8 DEF ChunkChecked
    <3>2. \A i \in Conns : handler'[i] = handler[i] \/ handler'[i].step = "idle"
      BY <3>1 DEF TypeOK, TypeReceiver, Idle
    <3>3. rComplete' => rComplete \/ rAcked[handler[e].h] = Chunks
      BY <2>8 DEF ChunkChecked
    <3>4. ASSUME answers <= 1, rComplete' PROVE disk = Chunks
      BY <2>2, <3>3, <3>4 DEF FileInv, MarkedIsWritten, TypeOK, TypeReceiver
    <3>5. MarkedIsWritten'
      BY <3>1, <3>2, <3>4 DEF FileInv, MarkedIsWritten
    <3> QED
      BY <2>4, <3>5 DEF FileInv
  <2> QED
    BY <1>3, <2>5, <2>6, <2>7, <2>8 DEF HandlerStep
<1> QED
  BY <1>1, <1>2, <1>3 DEF DispatchAtR

LEMMA FileInvStep == TypeOK /\ FileInv /\ [Next]_vars => FileInv'
<1> SUFFICES ASSUME TypeOK, FileInv, [Next]_vars PROVE FileInv'
  OBVIOUS
<1> USE DEF db, entry, run, handle, stream, sender, net, recv, recvH, bounds
<1>1. CASE UNCHANGED vars
  BY <1>1, KeepFileInv DEF vars
<1>2. CASE SendFileStep
  BY <1>2, KeepFileInv DEF SendFileStep, SendFile, SendOffer, WaiterAccepted, WaiterGivesUp
<1>3. ASSUME NEW j \in Jobs, JobStep(j) PROVE FileInv'
  BY <1>3, KeepFileInv
  DEF JobStep, AutoResumeList, AutoResumeCheck, AutoResumeLoad, AutoResumeInsert, RunStart, LoopHead, PauseEnds,
      SpawnWorker, OpenStreamFails, JoinFails, JoinSucceeds, RunFinishes
<1>4. ASSUME NEW j \in Jobs, NEW c \in Chunks, WorkerStep(j, c) PROVE FileInv'
  BY <1>4, KeepFileInv DEF WorkerStep, WorkerSends, WorkerReadFails, WorkerMarks, WorkerRecords
<1>5. CASE RegisterSession \/ CrashS
  BY <1>5, KeepFileInv DEF RegisterSession, CrashS
<1>6. CASE CrashR
  <2>1. /\ UNCHANGED <<answers, rAcked, disk, rComplete>> /\ accepting' = FALSE /\ incoming' = 0
        /\ handler' = [e \in Conns |-> Idle]
    BY <1>6 DEF CrashR
  <2>2. ~accepting'
    BY <2>1, Zenon
  <2> QED
    BY <2>1, <2>2 DEF FileInv, NothingYet, MarkedIsWritten, Idle
<1>7. ASSUME NEW e \in Conns, WriterStep(e) \/ DispatchAtS(e) \/ ConnectionLost(e)
      PROVE  FileInv'
  BY <1>7, KeepFileInv
  DEF WriterStep, WriterWrites, WriterEnds, DispatchAtS, HandleFileAccept, HandleFileReject,
      HandleCancelledAtS, HandleAckOrComplete, ConnectionLost
<1>8. ASSUME NEW e \in Conns, NEW d \in Devices, Silenced(e, d) \/ ReaderEnds(e, d)
      PROVE  FileInv'
  BY <1>8, KeepFileInv DEF Silenced, ReaderEnds
<1> QED
  BY <1>1, <1>2, <1>3, <1>4, <1>5, <1>6, <1>7, <1>8, UserFileInv, ReceiveFileInv DEF Next

\* When the receiving user is told that the file is complete, the file is
\* whole, whatever connections, duplicates, reconnections and crashes the
\* chunks went through.
THEOREM CompleteIsWhole == Spec => []CompleteMeansFileWhole
<1>1. Init => FileInv
  BY InitFileInv
<1>2. TypeOK /\ FileInv /\ [Next]_vars => FileInv'
  BY FileInvStep
<1>3. FileInv => CompleteMeansFileWhole
  BY DEF FileInv, MarkedIsWritten, CompleteMeansFileWhole
<1> QED
  BY <1>1, <1>2, <1>3, TypeCorrect, PTL DEF Spec


-----------------------------------------------------------------------------
(* The map of outgoing transfers follows the jobs *)

\* No answer is known before the offer is out.
EntryInv == EntryTracksJob /\ (pc[1] \in {"off", "offer"} => answer = "none")

Holders == {"wait", "start", "head", "pause", "spawn", "join", "failed"}

\* A job that moves among the places where it may hold the entry, or that does
\* not hold it, disturbs nothing.
LEMMA KeepEntryInv ==
  ASSUME TypeOK, EntryInv, UNCHANGED <<outgoing, acceptTx, answer>>,
         outgoing # 0 => pc'[outgoing] = pc[outgoing] \/ pc'[outgoing] \in Holders,
         pc'[1] = pc[1] \/ pc'[1] \notin {"off", "offer", "wait"}
  PROVE  EntryInv'
  BY ConstantsFact DEF EntryInv, EntryTracksJob, Holders

\* The entry is dropped: a waiter that has no answer is told so.
LEMMA DropEntryInv ==
  ASSUME TypeOK, EntryInv, DropEntry,
         pc'[1] = pc[1] \/ pc'[1] \notin {"off", "offer", "wait"}
  PROVE  EntryInv'
<1>1. ~acceptTx' /\ outgoing' = 0
  BY Zenon DEF DropEntry
<1>2. CASE acceptTx
  <2>1. answer' = "closed" /\ outgoing = 1
    BY <1>2 DEF DropEntry, EntryInv, EntryTracksJob
  <2>2. pc[1] \notin {"off", "offer"}
    BY <2>1 DEF EntryInv, EntryTracksJob
  <2> QED
    BY <1>1, <2>1, <2>2 DEF EntryInv, EntryTracksJob
<1>3. CASE ~acceptTx
  <2>1. answer' = answer
    BY <1>3 DEF DropEntry
  <2> QED
    BY <1>1, <1>3, <2>1 DEF EntryInv, EntryTracksJob
<1> QED
  BY <1>2, <1>3

LEMMA SendFileEntryInv ==
  ASSUME TypeOK, EntryInv, SendFileStep
  PROVE  EntryInv'
<1> USE ConstantsFact
<1>0. pc \in [Jobs -> JobPCs] /\ 1 \in Jobs
  BY DEF TypeOK, TypeRun
<1>1. CASE SendFile
  <2>1. pc[1] = "off" /\ pc' = [pc EXCEPT ![1] = "offer"] /\ UNCHANGED <<outgoing, acceptTx, answer>>
    BY <1>1 DEF SendFile, entry
  <2>2. outgoing # 1 /\ answer = "none" /\ ~acceptTx
    BY <2>1 DEF EntryInv, EntryTracksJob
  <2>3. outgoing # 0 => pc'[outgoing] = pc[outgoing]
    BY <1>0, <2>1, <2>2
  <2>4. pc'[1] = "offer"
    BY <1>0, <2>1
  <2> QED
    BY <2>1, <2>2, <2>3, <2>4 DEF EntryInv, EntryTracksJob
<1>2. CASE SendOffer
  <2>1. /\ pc[1] = "offer" /\ outgoing' = 1 /\ answer' = answer
        /\ \E p \in {"wait", "failed"} : pc' = [pc EXCEPT ![1] = p]
    BY <1>2 DEF SendOffer
  <2>2. acceptTx'
    BY <1>2, Zenon DEF SendOffer
  <2>3. answer = "none"
    BY <2>1 DEF EntryInv
  <2>4. pc'[1] \in {"wait", "failed"}
    BY <1>0, <2>1
  <2> QED
    BY <2>1, <2>2, <2>3, <2>4 DEF EntryInv, EntryTracksJob
<1>3. CASE WaiterAccepted
  <2>1. pc' = [pc EXCEPT ![1] = "start"] /\ UNCHANGED <<outgoing, acceptTx, answer>>
    BY <1>3 DEF WaiterAccepted, entry
  <2>2. pc'[1] = "start" /\ (outgoing # 0 => pc'[outgoing] = pc[outgoing] \/ pc'[outgoing] \in Holders)
    BY <1>0, <2>1 DEF Holders
  <2> QED
    BY <2>1, <2>2, KeepEntryInv
<1>4. CASE WaiterGivesUp
  <2>1. DropEntry /\ \E p \in {"timedout", "refused"} : pc' = [pc EXCEPT ![1] = p]
    BY <1>4 DEF WaiterGivesUp
  <2>2. pc'[1] \in {"timedout", "refused"}
    BY <1>0, <2>1
  <2> QED
    BY <2>1, <2>2, DropEntryInv
<1> QED
  BY <1>1, <1>2, <1>3, <1>4 DEF SendFileStep

LEMMA JobEntryInv ==
  ASSUME TypeOK, EntryInv, NEW j \in Jobs, JobStep(j)
  PROVE  EntryInv'
<1> USE ConstantsFact
<1>0. pc \in [Jobs -> JobPCs] /\ 1 \in Jobs
  BY DEF TypeOK, TypeRun
<1>1. CASE AutoResumeList(j) \/ AutoResumeCheck(j) \/ AutoResumeLoad(j) \/ RunFinishes(j)
  <2>1. /\ pc[j] \in {"list", "check", "resume", "cancelling", "completing"}
        /\ \E p \in {"check", "nothing", "skipped", "resume", "loaded", "done"} : pc' = [pc EXCEPT ![j] = p]
        /\ UNCHANGED <<outgoing, acceptTx, answer>>
    BY <1>1 DEF AutoResumeList, AutoResumeCheck, AutoResumeLoad, RunFinishes, entry
  <2>2. outgoing # 0 => outgoing # j
    BY <2>1 DEF EntryInv, EntryTracksJob
  <2>3. (outgoing # 0 => pc'[outgoing] = pc[outgoing])
        /\ (pc'[1] = pc[1] \/ pc'[1] \notin {"off", "offer", "wait"})
    BY <1>0, <2>1, <2>2
  <2> QED
    BY <2>1, <2>3, KeepEntryInv
<1>2. CASE AutoResumeInsert(j)
  <2>1. /\ pc[j] = "loaded" /\ pc' = [pc EXCEPT ![j] = "start"] /\ outgoing' = j
        /\ answer' = IF acceptTx THEN "closed" ELSE answer
    BY <1>2 DEF AutoResumeInsert
  <2>2. ~acceptTx'
    BY <1>2, Zenon DEF AutoResumeInsert
  <2>3. pc'[j] = "start" /\ (pc'[1] = pc[1] \/ pc'[1] = "start")
    BY <1>0, <2>1
  <2>4. acceptTx => pc[1] \notin {"off", "offer"}
    BY DEF EntryInv, EntryTracksJob
  <2> QED
    BY <2>1, <2>2, <2>3, <2>4 DEF EntryInv, EntryTracksJob
<1>3. CASE RunStart(j) \/ LoopHead(j) \/ PauseEnds(j) \/ SpawnWorker(j) \/ OpenStreamFails(j) \/ JoinFails(j)
  <2>1. /\ \E p \in {"failed", "head", "join", "pause", "spawn"} : pc' = [pc EXCEPT ![j] = p]
        /\ UNCHANGED <<outgoing, acceptTx, answer>>
    BY <1>3 DEF RunStart, LoopHead, PauseEnds, SpawnWorker, OpenStreamFails, JoinFails, entry
  <2>2. (outgoing # 0 => pc'[outgoing] = pc[outgoing] \/ pc'[outgoing] \in Holders)
        /\ (pc'[1] = pc[1] \/ pc'[1] \notin {"off", "offer", "wait"})
    BY <1>0, <2>1 DEF Holders, TypeOK, TypeSender, Conns
  <2> QED
    BY <2>1, <2>2, KeepEntryInv
<1>4. CASE JoinSucceeds(j)
  <2>1. DropEntry /\ \E p \in {"cancelling", "completing"} : pc' = [pc EXCEPT ![j] = p]
    BY <1>4 DEF JoinSucceeds
  <2>2. pc'[1] = pc[1] \/ pc'[1] \notin {"off", "offer", "wait"}
    BY <1>0, <2>1
  <2> QED
    BY <2>1, <2>2, DropEntryInv
<1> QED
  BY <1>1, <1>2, <1>3, <1>4 DEF JobStep

LEMMA EntryInvStep == TypeOK /\ LateBound /\ EntryInv /\ [Next]_vars => EntryInv'
<1> SUFFICES ASSUME TypeOK, LateBound, EntryInv, [Next]_vars PROVE EntryInv'
  OBVIOUS
<1> USE DEF db, entry, run, handle, stream, sender, net, recv, recvH, bounds
<1>0. pc \in [Jobs -> JobPCs] /\ 1 \in Jobs
  BY ConstantsFact DEF TypeOK, TypeRun
<1>1. CASE UNCHANGED vars
  BY <1>1, KeepEntryInv DEF vars
<1>2. ASSUME NEW j \in Jobs, NEW c \in Chunks, WorkerStep(j, c) PROVE EntryInv'
  BY <1>2, KeepEntryInv DEF WorkerStep, WorkerSends, WorkerReadFails, WorkerMarks, WorkerRecords
<1>3. CASE UserStep \/ CrashR
  BY <1>3, KeepEntryInv
  DEF UserStep, AcceptFilePrepare, AcceptFileRegister, RejectFile, PauseResume, CancelAtS, CancelAtR, CrashR
<1>4. CASE RegisterSession
  <2>1. /\ pc' = [pc EXCEPT ![conns + 1] = "list"] /\ UNCHANGED <<outgoing, acceptTx, answer>>
        /\ conns + 1 \in Jobs /\ conns + 1 > conns /\ conns + 1 # 1
    BY <1>4, ConstantsFact DEF RegisterSession, TypeOK, TypeNet, Jobs, Conns
  <2>2. pc[conns + 1] = "off"
    BY <2>1 DEF LateBound
  <2>3. outgoing # 0 => outgoing # conns + 1
    BY <2>2 DEF EntryInv, EntryTracksJob
  <2>4. (outgoing # 0 => pc'[outgoing] = pc[outgoing]) /\ pc'[1] = pc[1]
    BY <1>0, <2>1, <2>3
  <2> QED
    BY <2>1, <2>4, KeepEntryInv
<1>5. CASE CrashS
  <2>1. outgoing' = 0 /\ answer' = "none" /\ pc'[1] \in Ended
    BY <1>0, <1>5 DEF CrashS, Ended
  <2>2. ~acceptTx'
    BY <1>5, Zenon DEF CrashS
  <2> QED
    BY <2>1, <2>2 DEF EntryInv, EntryTracksJob, Ended
<1>6. ASSUME NEW e \in Conns, WriterStep(e) \/ DispatchAtR(e) \/ HandlerStep(e) \/ ConnectionLost(e)
      PROVE  EntryInv'
  BY <1>6, KeepEntryInv
  DEF WriterStep, WriterWrites, WriterEnds, DispatchAtR, HandleFileOffer, HandleCancelledAtR,
      ChunkArrives, HandlerStep, ChunkWritten, ChunkWriteFails, ChunkMarked, ChunkChecked,
      ConnectionLost
<1>7. ASSUME NEW e \in Conns, DispatchAtS(e) PROVE EntryInv'
  <2>1. CASE HandleFileAccept(e) \/ HandleFileReject(e)
    <3>1. /\ outgoing' \in {0, outgoing} /\ UNCHANGED pc
          /\ answer' = answer \/ (acceptTx /\ answer' \in {"yes", "no"})
          /\ acceptTx => answer' \in {"yes", "no"}
      BY <2>1 DEF HandleFileAccept, HandleFileReject
    <3>2. ~acceptTx'
      BY <2>1, Zenon DEF HandleFileAccept, HandleFileReject
    <3>3. acceptTx => pc[1] \notin {"off", "offer"}
      BY DEF EntryInv, EntryTracksJob
    <3> QED
      BY <3>1, <3>2, <3>3 DEF EntryInv, EntryTracksJob
  <2>2. CASE HandleCancelledAtS(e) \/ HandleAckOrComplete(e)
    BY <2>2, KeepEntryInv DEF HandleCancelledAtS, HandleAckOrComplete
  <2> QED
    BY <1>7, <2>1, <2>2 DEF DispatchAtS
<1>8. ASSUME NEW e \in Conns, NEW d \in Devices, Silenced(e, d) \/ ReaderEnds(e, d) PROVE EntryInv'
  BY <1>8, KeepEntryInv DEF Silenced, ReaderEnds
<1> QED
  BY <1>1, <1>2, <1>3, <1>4, <1>5, <1>6, <1>7, <1>8, SendFileEntryInv, JobEntryInv DEF Next

\* outgoing_transfers never holds a handle of a run that has finished, and the
\* waiter of an undecided offer always has a live accept_tx in it.
THEOREM EntryFollowsJob == Spec => []EntryTracksJob
<1>1. Init => EntryInv
  <2>1. ASSUME Init PROVE ~acceptTx
    BY <2>1, Zenon DEF Init
  <2> QED
    BY <2>1, ConstantsFact DEF Init, EntryInv, EntryTracksJob
<1>2. Init => LateBound
  BY ConstantsFact DEF Init, LateBound
<1>3. TypeOK /\ LateBound /\ EntryInv /\ [Next]_vars => EntryInv'
  BY EntryInvStep
<1>4. EntryInv => EntryTracksJob
  BY DEF EntryInv
<1> QED
  BY <1>1, <1>2, <1>3, <1>4, LateBoundStep, TypeCorrect, PTL DEF Spec

-----------------------------------------------------------------------------
(* The byte counters *)

\* Every chunk but the last has the full size; the last one ends the file.
LEMMA LastChunkFact ==
  /\ \A c \in Chunks : c # TotalChunks - 1 => ChunkLen(c) = CHUNK_SIZE
  /\ Chunks # {} => /\ TotalChunks - 1 \in Chunks
                    /\ TotalChunks * CHUNK_SIZE - CHUNK_SIZE + ChunkLen(TotalChunks - 1) = FILE_SIZE
                    /\ TotalChunks * CHUNK_SIZE - CHUNK_SIZE < FILE_SIZE
  /\ FILE_SIZE <= TotalChunks * CHUNK_SIZE
<1>1. CHUNK_SIZE \in Nat \ {0} /\ FILE_SIZE \in Nat /\ TotalChunks \in Nat
  BY SizeAssumption, TotalChunksFact
<1>2. TotalChunks * CHUNK_SIZE \in Nat /\ TotalChunks * CHUNK_SIZE < FILE_SIZE + CHUNK_SIZE
  BY <1>1, TotalChunksFact, Z3
<1>3. FILE_SIZE <= TotalChunks * CHUNK_SIZE
  <2> DEFINE n == FILE_SIZE + CHUNK_SIZE - 1
  <2>1. n \in Nat
    BY <1>1
  <2>2. n < (n \div CHUNK_SIZE) * CHUNK_SIZE + CHUNK_SIZE
    BY <1>1, <2>1, Z3
  <2> QED
    BY <1>1, <1>2, <2>2 DEF TotalChunks
<1>4. ASSUME NEW c \in Chunks, c # TotalChunks - 1
      PROVE  ChunkLen(c) = CHUNK_SIZE
  <2>1. c \in Nat /\ c + 2 <= TotalChunks
    BY <1>1, <1>4 DEF Chunks
  <2>2. (c + 2) * CHUNK_SIZE <= TotalChunks * CHUNK_SIZE
    BY <1>1, <2>1, Z3
  <2>3. (c + 2) * CHUNK_SIZE = c * CHUNK_SIZE + CHUNK_SIZE + CHUNK_SIZE /\ c * CHUNK_SIZE \in Nat
    BY <1>1, <2>1, Z3
  <2> QED
    BY <1>1, <1>2, <2>2, <2>3 DEF ChunkLen
<1>5. ASSUME Chunks # {}
      PROVE  /\ TotalChunks - 1 \in Chunks
             /\ TotalChunks * CHUNK_SIZE - CHUNK_SIZE + ChunkLen(TotalChunks - 1) = FILE_SIZE
             /\ TotalChunks * CHUNK_SIZE - CHUNK_SIZE < FILE_SIZE
  <2>1. TotalChunks - 1 \in Chunks
    BY <1>1, <1>5 DEF Chunks
  <2>2. (TotalChunks - 1) * CHUNK_SIZE = TotalChunks * CHUNK_SIZE - CHUNK_SIZE
    BY <1>1, Z3
  <2> QED
    BY <1>1, <1>2, <1>3, <2>1, <2>2 DEF ChunkLen
<1> QED
  BY <1>3, <1>4, <1>5

LEMMA BytesOfType ==
  ASSUME NEW A \in SUBSET Chunks
  PROVE  /\ Cardinality(A) \in Nat /\ Cardinality(A) * CHUNK_SIZE \in Nat
         /\ BytesOf(A) \in Int
<1>1. Cardinality(A) \in Nat /\ CHUNK_SIZE \in Nat
  BY ChunksFinite, SizeAssumption
<1>2. Cardinality(A) * CHUNK_SIZE \in Nat
  BY <1>1, Z3
<1>3. TotalChunks - 1 \in A => ChunkLen(TotalChunks - 1) \in Nat
  BY ChunkLenFact
<1> QED
  BY <1>1, <1>2, <1>3 DEF BytesOf

\* A chunk that is new to a set adds its own length.
LEMMA BytesOfAdd ==
  ASSUME NEW A \in SUBSET Chunks, NEW c \in Chunks
  PROVE  BytesOf(A \cup {c}) = IF c \in A THEN BytesOf(A) ELSE BytesOf(A) + ChunkLen(c)
<1>1. CASE c \in A
  <2>1. A \cup {c} = A
    BY <1>1
  <2> QED
    BY <1>1, <2>1
<1>2. CASE c \notin A
  <2> DEFINE n == Cardinality(A)
             last == TotalChunks - 1
  <2>1. /\ n \in Nat /\ n * CHUNK_SIZE \in Nat /\ CHUNK_SIZE \in Nat
        /\ ChunkLen(c) \in Nat
    BY BytesOfType, SizeAssumption, ChunkLenFact
  <2>2. Cardinality(A \cup {c}) = n + 1
    BY <1>2, ChunksFinite, FS_AddElement
  <2>3. (n + 1) * CHUNK_SIZE = n * CHUNK_SIZE + CHUNK_SIZE
    BY <2>1, Z3
  <2>4. CASE c = last
    <3>1. last \notin A /\ last \in A \cup {c}
      BY <1>2, <2>4
    <3> QED
      BY <1>2, <2>1, <2>2, <2>3, <2>4, <3>1 DEF BytesOf
  <2>5. CASE c # last
    <3>1. (last \in A \cup {c}) <=> (last \in A)
      BY <2>5
    <3>2. ChunkLen(c) = CHUNK_SIZE
      BY <2>5, LastChunkFact
    <3>3. last \in A => ChunkLen(last) \in Nat
      BY ChunkLenFact
    <3> QED
      BY <1>2, <2>1, <2>2, <2>3, <3>1, <3>2, <3>3 DEF BytesOf
  <2> QED
    BY <2>4, <2>5
<1> QED
  BY <1>1, <1>2

\* What bytes_transferred is when a handle is made from a manifest: not less
\* than the bytes of its chunks, and ahead by less than a chunk.
LEMMA ResumedBytesFact ==
  ASSUME NEW A \in SUBSET Chunks
  PROVE  /\ BytesOf(A) <= ResumedBytes(Cardinality(A))
         /\ ResumedBytes(Cardinality(A)) < BytesOf(A) + CHUNK_SIZE
<1> DEFINE n == Cardinality(A)
           last == TotalChunks - 1
<1>1. n \in Nat /\ n * CHUNK_SIZE \in Nat /\ CHUNK_SIZE \in Nat \ {0} /\ FILE_SIZE \in Nat /\ TotalChunks \in Nat
  BY BytesOfType, SizeAssumption, TotalChunksFact
<1>2. CASE n * CHUNK_SIZE < FILE_SIZE
  <2>1. CASE last \in A
    <3>1. ChunkLen(last) \in Nat /\ ChunkLen(last) <= CHUNK_SIZE /\ ChunkLen(last) > 0
      BY <2>1, ChunkLenFact
    <3> QED
      BY <1>1, <1>2, <2>1, <3>1 DEF BytesOf, ResumedBytes
  <2>2. CASE last \notin A
    BY <1>1, <1>2, <2>2 DEF BytesOf, ResumedBytes
  <2> QED
    BY <2>1, <2>2
<1>3. CASE ~(n * CHUNK_SIZE < FILE_SIZE)
  <2>1. Cardinality(Chunks) = TotalChunks
    <3>1. Cardinality(0..last) = IF 0 > last THEN 0 ELSE last - 0 + 1
      BY <1>1, FS_Interval
    <3> QED
      BY <1>1, <3>1 DEF Chunks
  <2>2. n <= TotalChunks
    BY <2>1, ChunksFinite, FS_Subset
  <2>3. CASE n = TotalChunks
    <3>1. A = Chunks
      BY <2>1, <2>3, ChunksFinite, FS_Subset
    <3>2. CASE Chunks = {}
      <4>1. TotalChunks = 0
        BY <2>1, <3>2, FS_EmptySet
      <4>2. n * CHUNK_SIZE = 0 /\ TotalChunks * CHUNK_SIZE = 0
        BY <1>1, <2>3, <4>1, Z3
      <4>3. last \notin A
        BY <3>1, <3>2
      <4> QED
        BY <1>1, <1>3, <4>2, <4>3, LastChunkFact DEF BytesOf, ResumedBytes
    <3>3. CASE Chunks # {}
      <4>1. last \in A
        BY <3>1, <3>3, LastChunkFact
      <4>2. ChunkLen(last) \in Nat
        BY <4>1, ChunkLenFact
      <4>3. n * CHUNK_SIZE - CHUNK_SIZE + ChunkLen(last) = FILE_SIZE
        BY <2>3, <3>3, LastChunkFact
      <4> QED
        BY <1>1, <1>3, <4>1, <4>2, <4>3 DEF BytesOf, ResumedBytes
    <3> QED
      BY <3>2, <3>3
  <2>4. CASE n # TotalChunks
    <3>1. n + 1 <= TotalChunks
      BY <1>1, <2>2, <2>4
    <3>2. Chunks # {}
      BY <1>1, <3>1 DEF Chunks
    <3>3. (n + 1) * CHUNK_SIZE <= TotalChunks * CHUNK_SIZE /\ (n + 1) * CHUNK_SIZE = n * CHUNK_SIZE + CHUNK_SIZE
      BY <1>1, <3>1, Z3
    <3>4. TotalChunks * CHUNK_SIZE \in Nat
      BY <1>1, Z3
    <3> QED
      BY <1>1, <1>3, <3>2, <3>3, <3>4, LastChunkFact
  <2> QED
    BY <2>3, <2>4
<1> QED
  BY <1>2, <1>3

LEMMA KeepProgress ==
  ASSUME ProgressIsAccurate, UNCHANGED <<acked, bytes, rAcked, rBytes>>
  PROVE  ProgressIsAccurate'
  BY DEF ProgressIsAccurate, BytesOf

\* A chunk is counted when it is new to the handle, as it is marked.
LEMMA WorkerProgress ==
  ASSUME TypeOK, ProgressIsAccurate, NEW j \in Jobs, NEW c \in Chunks, WorkerMarks(j, c)
  PROVE  ProgressIsAccurate'
<1>1. /\ acked \in [Jobs -> SUBSET Chunks] /\ bytes \in [Jobs -> Nat]
      /\ acked' = [acked EXCEPT ![j] = acked[j] \cup {c}]
      /\ bytes' = [bytes EXCEPT ![j] = IF c \in acked[j] THEN bytes[j] ELSE bytes[j] + ChunkLen(c)]
      /\ UNCHANGED <<rAcked, rBytes>>
  BY DEF WorkerMarks, TypeOK, TypeHandle, recv, recvH
<1>2. ASSUME NEW k \in Jobs
      PROVE  BytesOf(acked'[k]) <= bytes'[k] /\ bytes'[k] < BytesOf(acked'[k]) + CHUNK_SIZE
  <2>1. BytesOf(acked[k]) <= bytes[k] /\ bytes[k] < BytesOf(acked[k]) + CHUNK_SIZE
    BY DEF ProgressIsAccurate
  <2>2. CASE k # j
    BY <1>1, <2>1, <2>2
  <2>3. CASE k = j
    <3>1. acked'[k] = acked[k] \cup {c}
      BY <1>1, <2>3
    <3>2. bytes'[k] = IF c \in acked[k] THEN bytes[k] ELSE bytes[k] + ChunkLen(c)
      BY <1>1, <2>3
    <3>3. BytesOf(acked'[k]) = IF c \in acked[k] THEN BytesOf(acked[k]) ELSE BytesOf(acked[k]) + ChunkLen(c)
      BY <1>1, <3>1, BytesOfAdd
    <3>4. BytesOf(acked[k]) \in Int /\ bytes[k] \in Nat /\ ChunkLen(c) \in Nat /\ CHUNK_SIZE \in Nat
      BY <1>1, BytesOfType, ChunkLenFact, SizeAssumption
    <3> QED
      BY <2>1, <3>2, <3>3, <3>4
  <2> QED
    BY <2>2, <2>3
<1>3. ASSUME NEW h \in Handles PROVE rBytes'[h] = BytesOf(rAcked'[h])
  BY <1>1 DEF ProgressIsAccurate
<1> QED
  BY <1>2, <1>3 DEF ProgressIsAccurate, BytesOf

LEMMA ReceiverProgress ==
  ASSUME TypeOK, ProgressIsAccurate, NEW e \in Conns, ChunkMarked(e)
  PROVE  ProgressIsAccurate'
<1>1. PICK c, h : c = handler[e].chunk /\ h = handler[e].h
  OBVIOUS
<1>2. c \in Chunks /\ h \in Handles
  <2>1. handler[e] \in HandlerStates /\ handler[e].step = "mark"
    BY DEF ChunkMarked, TypeOK, TypeReceiver
  <2> QED
    BY <1>1, <2>1 DEF HandlerStates, Idle
<1>3. /\ rAcked \in [Handles -> SUBSET Chunks] /\ rBytes \in [Handles -> Nat]
      /\ rAcked' = [rAcked EXCEPT ![h] = rAcked[h] \cup {c}]
      /\ rBytes' = [rBytes EXCEPT ![h] = IF c \in rAcked[h] THEN rBytes[h] ELSE rBytes[h] + ChunkLen(c)]
      /\ UNCHANGED <<acked, bytes>>
  BY <1>1 DEF ChunkMarked, TypeOK, TypeReceiver, sender, handle
<1>4. ASSUME NEW k \in Handles PROVE rBytes'[k] = BytesOf(rAcked'[k])
  <2>1. rBytes[k] = BytesOf(rAcked[k])
    BY DEF ProgressIsAccurate
  <2>2. CASE k # h
    BY <1>3, <2>1, <2>2
  <2>3. CASE k = h
    <3>1. rAcked'[k] = rAcked[k] \cup {c}
      BY <1>2, <1>3, <2>3
    <3>2. rBytes'[k] = IF c \in rAcked[k] THEN rBytes[k] ELSE rBytes[k] + ChunkLen(c)
      BY <1>2, <1>3, <2>3
    <3>3. BytesOf(rAcked'[k]) = IF c \in rAcked[k] THEN BytesOf(rAcked[k]) ELSE BytesOf(rAcked[k]) + ChunkLen(c)
      BY <1>2, <1>3, <3>1, BytesOfAdd
    <3> QED
      BY <2>1, <3>2, <3>3
  <2> QED
    BY <2>2, <2>3
<1>5. ASSUME NEW j \in Jobs
      PROVE  BytesOf(acked'[j]) <= bytes'[j] /\ bytes'[j] < BytesOf(acked'[j]) + CHUNK_SIZE
  BY <1>3 DEF ProgressIsAccurate
<1> QED
  BY <1>4, <1>5 DEF ProgressIsAccurate, BytesOf

LEMMA ResumeProgress ==
  ASSUME TypeOK, ProgressIsAccurate, NEW j \in Jobs, AutoResumeLoad(j)
  PROVE  ProgressIsAccurate'
<1>1. /\ acked \in [Jobs -> SUBSET Chunks] /\ bytes \in [Jobs -> Nat] /\ manifest \in SUBSET Chunks
      /\ acked' = [acked EXCEPT ![j] = manifest]
      /\ bytes' = [bytes EXCEPT ![j] = ResumedBytes(Cardinality(manifest))]
      /\ UNCHANGED <<rAcked, rBytes>>
  BY DEF AutoResumeLoad, TypeOK, TypeHandle, TypeSender, recv, recvH
<1>2. ASSUME NEW k \in Jobs
      PROVE  BytesOf(acked'[k]) <= bytes'[k] /\ bytes'[k] < BytesOf(acked'[k]) + CHUNK_SIZE
  <2>1. CASE k # j
    BY <1>1, <2>1 DEF ProgressIsAccurate
  <2>2. CASE k = j
    <3>1. acked'[k] = manifest /\ bytes'[k] = ResumedBytes(Cardinality(manifest))
      BY <1>1, <2>2
    <3> QED
      BY <1>1, <3>1, ResumedBytesFact
  <2> QED
    BY <2>1, <2>2
<1>3. ASSUME NEW h \in Handles PROVE rBytes'[h] = BytesOf(rAcked'[h])
  BY <1>1 DEF ProgressIsAccurate
<1> QED
  BY <1>2, <1>3 DEF ProgressIsAccurate, BytesOf

LEMMA ProgressStep == TypeOK /\ ProgressIsAccurate /\ [Next]_vars => ProgressIsAccurate'
<1> SUFFICES ASSUME TypeOK, ProgressIsAccurate, [Next]_vars PROVE ProgressIsAccurate'
  OBVIOUS
<1> USE DEF handle, sender, recv, recvH
<1>1. CASE UNCHANGED vars
  BY <1>1, KeepProgress DEF vars
<1>2. CASE SendFileStep
  BY <1>2, KeepProgress DEF SendFileStep, SendFile, SendOffer, WaiterAccepted, WaiterGivesUp
<1>3. CASE UserStep
  BY <1>3, KeepProgress
  DEF UserStep, PauseResume, AcceptFilePrepare, AcceptFileRegister, RejectFile, CancelAtS, CancelAtR
<1>4. ASSUME NEW j \in Jobs, JobStep(j) PROVE ProgressIsAccurate'
  <2>1. CASE AutoResumeLoad(j)
    BY <2>1, ResumeProgress
  <2>2. CASE ~AutoResumeLoad(j)
    BY <1>4, <2>2, KeepProgress
    DEF JobStep, AutoResumeList, AutoResumeCheck, AutoResumeInsert, RunStart, LoopHead, PauseEnds,
        SpawnWorker, OpenStreamFails, JoinFails, JoinSucceeds, RunFinishes
  <2> QED
    BY <2>1, <2>2
<1>5. ASSUME NEW j \in Jobs, NEW c \in Chunks, WorkerStep(j, c) PROVE ProgressIsAccurate'
  <2>1. CASE WorkerMarks(j, c)
    BY <2>1, WorkerProgress
  <2>2. CASE WorkerSends(j, c) \/ WorkerReadFails(j, c) \/ WorkerRecords(j, c)
    BY <2>2, KeepProgress DEF WorkerSends, WorkerReadFails, WorkerRecords
  <2> QED
    BY <1>5, <2>1, <2>2 DEF WorkerStep
<1>6. CASE RegisterSession \/ CrashS \/ CrashR
  BY <1>6, KeepProgress DEF RegisterSession, CrashS, CrashR
<1>7. ASSUME NEW e \in Conns, WriterStep(e) \/ DispatchAtS(e) \/ DispatchAtR(e) \/ ConnectionLost(e)
      PROVE  ProgressIsAccurate'
  BY <1>7, KeepProgress
  DEF WriterStep, WriterWrites, WriterEnds, DispatchAtS, HandleFileAccept, HandleFileReject,
      HandleCancelledAtS, HandleAckOrComplete, DispatchAtR, HandleFileOffer, HandleCancelledAtR,
      ChunkArrives, ConnectionLost
<1>8. ASSUME NEW e \in Conns, HandlerStep(e) PROVE ProgressIsAccurate'
  <2>1. CASE ChunkMarked(e)
    BY <2>1, ReceiverProgress
  <2>2. CASE ChunkWritten(e) \/ ChunkWriteFails(e) \/ ChunkChecked(e)
    BY <2>2, KeepProgress DEF ChunkWritten, ChunkWriteFails, ChunkChecked
  <2> QED
    BY <1>8, <2>1, <2>2 DEF HandlerStep
<1>9. ASSUME NEW e \in Conns, NEW d \in Devices, Silenced(e, d) \/ ReaderEnds(e, d)
      PROVE  ProgressIsAccurate'
  BY <1>9, KeepProgress DEF Silenced, ReaderEnds
<1> QED
  BY <1>1, <1>2, <1>3, <1>4, <1>5, <1>6, <1>7, <1>8, <1>9 DEF Next

\* The bytes a handle has counted are those of the chunks it has marked: exactly
\* at R, whichever chunks come again over a new connection; at S never behind, and
\* ahead by less than a chunk after a resume counted the short last chunk as a
\* whole one.
THEOREM ProgressStaysAccurate == Spec => []ProgressIsAccurate
<1>1. Init => ProgressIsAccurate
  <2>1. BytesOf({}) = 0
    <3>1. Cardinality({}) = 0 /\ CHUNK_SIZE \in Nat
      BY FS_EmptySet, SizeAssumption
    <3>2. 0 * CHUNK_SIZE = 0
      BY <3>1, Z3
    <3> QED
      BY <3>1, <3>2 DEF BytesOf
  <2> QED
    BY <2>1, SizeAssumption DEF Init, ProgressIsAccurate
<1>2. TypeOK /\ ProgressIsAccurate /\ [Next]_vars => ProgressIsAccurate'
  BY ProgressStep
<1> QED
  BY <1>1, <1>2, TypeCorrect, PTL DEF Spec
=============================================================================
