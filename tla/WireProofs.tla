---------------------------- MODULE WireProofs ----------------------------
(***************************************************************************)
(* Proofs about Wire, for every set of transfers and every bound.          *)
(*                                                                         *)
(* The inductive invariant is FramesInOrder together with the types and    *)
(* decN <= Len(log): the frames under way on a stream are messages of that *)
(* stream with increasing nonces, none of which the peer has used.  It is  *)
(* what makes a successful decryption the abstract Take, and what keeps a  *)
(* lost nonce from ever coming back.                                       *)
(***************************************************************************)
EXTENDS Wire, TLAPS

CounterOK == decN <= Len(log)

IInv == TypeOK /\ CounterOK /\ FramesInOrder

LEMMA StreamsFact == Control \in Streams /\ \A t \in Transfers : t \in Streams
  BY DEF Streams

\* What Append, Head and Tail do to sequences of nonces.
LEMMA AppendFact ==
  ASSUME NEW S, NEW q \in Seq(S), NEW x \in S
  PROVE  /\ Append(q, x) \in Seq(S)
         /\ Len(Append(q, x)) = Len(q) + 1
         /\ \A i \in 1..Len(q) : Append(q, x)[i] = q[i]
         /\ Append(q, x)[Len(q) + 1] = x
  OBVIOUS

LEMMA TailFact ==
  ASSUME NEW S, NEW q \in Seq(S), q # <<>>
  PROVE  /\ Tail(q) \in Seq(S)
         /\ Len(q) \in Nat \ {0}
         /\ Len(Tail(q)) = Len(q) - 1
         /\ Head(q) = q[1]
         /\ \A i \in 1..Len(Tail(q)) : Tail(q)[i] = q[i + 1]
  OBVIOUS

LEMMA InitIInv == Init => IInv
  BY StreamsFact DEF Init, IInv, TypeOK, CounterOK, FramesInOrder

\* Encrypting keeps the frames in order: the new nonce is above all others.
LEMMA EncryptKeepsOrder ==
  ASSUME IInv, NEW s \in Streams, NEW d \in BOOLEAN, Encrypt(s, d), decN' = decN
  PROVE  /\ log' \in Seq(Streams)
         /\ net' \in [Streams -> Seq(Nat)]
         /\ CounterOK'
         /\ FramesInOrder'
<1> DEFINE n == Len(log)
<1>1. /\ log \in Seq(Streams) /\ net \in [Streams -> Seq(Nat)] /\ decN \in Nat
      /\ n \in Nat /\ decN <= n
  BY DEF IInv, TypeOK, CounterOK
<1>2. /\ log' \in Seq(Streams) /\ Len(log') = n + 1
      /\ \A i \in 1..n : log'[i] = log[i]
      /\ log'[n + 1] = s
  BY <1>1, AppendFact DEF Encrypt
<1>3. /\ net' \in [Streams -> Seq(Nat)]
      /\ \A u \in Streams : net'[u] = net[u] \/ (u = s /\ net'[u] = Append(net[u], n))
  BY <1>1 DEF Encrypt
<1>4. CounterOK'
  BY <1>1, <1>2 DEF CounterOK
<1>5. ASSUME NEW u \in Streams
      PROVE  /\ \A i \in 1..Len(net'[u]) : /\ net'[u][i] >= decN
                                           /\ net'[u][i] < Len(log')
                                           /\ log'[net'[u][i] + 1] = u
             /\ \A i, j \in 1..Len(net'[u]) : i < j => net'[u][i] < net'[u][j]
  <2>1. /\ \A i \in 1..Len(net[u]) : /\ net[u][i] \in Nat
                                     /\ net[u][i] >= decN
                                     /\ net[u][i] < n
                                     /\ log[net[u][i] + 1] = u
        /\ \A i, j \in 1..Len(net[u]) : i < j => net[u][i] < net[u][j]
    BY <1>1 DEF IInv, FramesInOrder
  <2>2. \A i \in 1..Len(net[u]) : net[u][i] + 1 \in 1..n
    BY <2>1, <1>1
  <2>0. \A i \in 1..Len(net[u]) : log'[net[u][i] + 1] = u
    BY <1>2, <2>1, <2>2
  <2>3. CASE net'[u] = net[u]
    BY <1>1, <1>2, <2>0, <2>1, <2>3
  <2>4. CASE u = s /\ net'[u] = Append(net[u], n)
    <3>1. /\ Len(net'[u]) = Len(net[u]) + 1
          /\ \A i \in 1..Len(net[u]) : net'[u][i] = net[u][i]
          /\ net'[u][Len(net[u]) + 1] = n
          /\ Len(net[u]) \in Nat
      BY <1>1, <2>4, AppendFact
    <3>2. \A i \in 1..Len(net'[u]) : i \in 1..Len(net[u]) \/ i = Len(net[u]) + 1
      BY <3>1
    <3>3. \A i \in 1..Len(net'[u]) : /\ net'[u][i] >= decN
                                     /\ net'[u][i] < Len(log')
                                     /\ log'[net'[u][i] + 1] = u
      BY <1>1, <1>2, <2>0, <2>1, <2>4, <3>1, <3>2
    <3>4. ASSUME NEW i \in 1..Len(net'[u]), NEW j \in 1..Len(net'[u]), i < j
          PROVE  net'[u][i] < net'[u][j]
      <4>0. i \in 1..Len(net[u])
        <5>1. i \in Nat /\ j \in Nat /\ 1 <= i /\ i < j /\ j <= Len(net[u]) + 1
          BY <3>1, <3>4
        <5> QED
          BY <3>1, <5>1
      <4>1. net'[u][i] = net[u][i] /\ net[u][i] < n
        BY <2>1, <3>1, <4>0
      <4>2. CASE j \in 1..Len(net[u])
        BY <2>1, <3>1, <3>4, <4>0, <4>1, <4>2
      <4>3. CASE j = Len(net[u]) + 1
        BY <3>1, <4>1, <4>3
      <4> QED
        BY <3>2, <4>2, <4>3
    <3> QED
      BY <3>3, <3>4
  <2> QED
    BY <1>3, <2>3, <2>4
<1> QED
  BY <1>2, <1>3, <1>4, <1>5 DEF FramesInOrder

\* A step that only empties streams, and leaves the log and the receiver's
\* nonce alone, keeps the frames in order.
LEMMA DroppingKeepsOrder ==
  ASSUME IInv, log' = log, decN' = decN,
         \A u \in Streams : net'[u] = net[u] \/ net'[u] = <<>>
  PROVE  CounterOK' /\ FramesInOrder'
<1> SUFFICES ASSUME NEW u \in Streams
             PROVE  /\ \A i \in 1..Len(net'[u]) : /\ net'[u][i] >= decN
                                                  /\ net'[u][i] < Len(log)
                                                  /\ log[net'[u][i] + 1] = u
                    /\ \A i, j \in 1..Len(net'[u]) : i < j => net'[u][i] < net'[u][j]
  BY DEF IInv, CounterOK, FramesInOrder
<1>1. CASE net'[u] = net[u]
  BY <1>1 DEF IInv, FramesInOrder
<1>2. CASE net'[u] = <<>>
  BY <1>2
<1> QED
  BY <1>1, <1>2

\* A successful decryption uses the lowest nonce under way.
LEMMA DecryptKeepsOrder ==
  ASSUME IInv, NEW s \in Streams, Decrypt(s)
  PROVE  IInv' /\ decN < Len(log) /\ log[decN + 1] = s
<1>1. /\ log \in Seq(Streams) /\ net \in [Streams -> Seq(Nat)] /\ decN \in Nat
      /\ net[s] \in Seq(Nat) /\ net[s] # <<>> /\ net[s][1] = decN
      /\ Len(net[s]) \in Nat \ {0}
  BY TailFact DEF IInv, TypeOK, Decrypt
<1>2. decN < Len(log) /\ log[decN + 1] = s
  BY <1>1 DEF IInv, FramesInOrder
<1>3. TypeOK'
  <2>1. net' \in [Streams -> Seq(Nat)]
    BY <1>1, TailFact DEF Decrypt
  <2>2. decN' \in Nat /\ hand' \in [Streams -> Nat]
    BY <1>1 DEF IInv, TypeOK, Decrypt
  <2> QED
    BY <2>1, <2>2 DEF IInv, TypeOK, Decrypt
<1>4. CounterOK'
  BY <1>1, <1>2 DEF CounterOK, Decrypt
<1>5. ASSUME NEW u \in Streams
      PROVE  /\ \A i \in 1..Len(net'[u]) : /\ net'[u][i] >= decN + 1
                                           /\ net'[u][i] < Len(log)
                                           /\ log[net'[u][i] + 1] = u
             /\ \A i, j \in 1..Len(net'[u]) : i < j => net'[u][i] < net'[u][j]
  <2>1. /\ \A i \in 1..Len(net[u]) : /\ net[u][i] \in Nat
                                     /\ net[u][i] >= decN
                                     /\ net[u][i] < Len(log)
                                     /\ log[net[u][i] + 1] = u
        /\ \A i, j \in 1..Len(net[u]) : i < j => net[u][i] < net[u][j]
    BY <1>1 DEF IInv, FramesInOrder
  <2>2. CASE u = s
    <3>1. net'[u] = Tail(net[u])
      BY <1>1, <2>2 DEF Decrypt
    <3>2. /\ Len(net'[u]) = Len(net[u]) - 1
          /\ \A i \in 1..Len(net'[u]) : /\ net'[u][i] = net[u][i + 1]
                                        /\ i + 1 \in 1..Len(net[u])
                                        /\ 1 < i + 1
      BY <1>1, <2>2, <3>1, TailFact
    <3>3. ASSUME NEW i \in 1..Len(net'[u])
          PROVE  /\ net'[u][i] >= decN + 1
                 /\ net'[u][i] < Len(log)
                 /\ log[net'[u][i] + 1] = u
      <4>1. i + 1 \in 1..Len(net[u]) /\ 1 < i + 1 /\ net'[u][i] = net[u][i + 1]
        BY <3>2
      <4>2. 1 \in 1..Len(net[u]) /\ net[u][1] = decN
        BY <1>1, <2>2
      <4>3. net[u][1] < net[u][i + 1]
        BY <2>1, <4>1, <4>2
      <4> QED
        BY <1>1, <2>1, <4>1, <4>2, <4>3
    <3>4. ASSUME NEW i \in 1..Len(net'[u]), NEW j \in 1..Len(net'[u]), i < j
          PROVE  net'[u][i] < net'[u][j]
      <4>1. /\ i + 1 \in 1..Len(net[u]) /\ net'[u][i] = net[u][i + 1]
            /\ j + 1 \in 1..Len(net[u]) /\ net'[u][j] = net[u][j + 1]
            /\ i + 1 < j + 1
        BY <3>2, <3>4
      <4> QED
        BY <2>1, <4>1
    <3> QED
      BY <3>3, <3>4
  <2>3. CASE u # s
    <3>1. net'[u] = net[u]
      BY <1>1, <2>3 DEF Decrypt
    <3>2. \A i \in 1..Len(net[u]) : net[u][i] # decN
      BY <1>2, <2>1, <2>3
    <3> QED
      BY <1>1, <2>1, <3>1, <3>2
  <2> QED
    BY <2>2, <2>3
<1>6. FramesInOrder'
  BY <1>5 DEF FramesInOrder, Decrypt
<1> QED
  BY <1>2, <1>3, <1>4, <1>6 DEF IInv

THEOREM InductiveInvariant == Spec => []IInv
<1>1. IInv /\ [Next]_vars => IInv'
  <2> SUFFICES ASSUME IInv, [Next]_vars
               PROVE  IInv'
    OBVIOUS
  <2> USE StreamsFact
  <2>1. CASE SendMessage
    <3>1. (writer[Control] = "open") \in BOOLEAN
      OBVIOUS
    <3> QED
      BY <2>1, <3>1, EncryptKeepsOrder DEF SendMessage, IInv, TypeOK
  <2>2. CASE ControlWriteFails
    <3>1. TypeOK'
      BY <2>2 DEF ControlWriteFails, IInv, TypeOK
    <3> QED
      BY <2>2, <3>1, DroppingKeepsOrder DEF ControlWriteFails, IInv
  <2>3. CASE ConnectionLost
    <3>1. TypeOK'
      BY <2>3 DEF ConnectionLost, IInv, TypeOK
    <3> QED
      BY <2>3, <3>1, DroppingKeepsOrder DEF ConnectionLost, IInv
  <2>4. ASSUME NEW t \in Transfers, TransferStreamSender(t) \/ EnqueueChunk(t) \/ ChunkTooLarge(t)
        PROVE  IInv'
    <3>1. TypeOK'
      <4>1. CASE TransferStreamSender(t)
        BY <4>1 DEF TransferStreamSender, IInv, TypeOK
      <4>2. CASE EnqueueChunk(t)
        BY <4>2 DEF EnqueueChunk, IInv, TypeOK
      <4>3. CASE ChunkTooLarge(t)
        BY <4>3 DEF ChunkTooLarge, IInv, TypeOK
      <4> QED
        BY <2>4, <4>1, <4>2, <4>3
    <3> QED
      BY <2>4, <3>1, DroppingKeepsOrder
      DEF TransferStreamSender, EnqueueChunk, ChunkTooLarge, IInv
  <2>5. ASSUME NEW t \in Transfers, WriteChunk(t) \/ ChunkWriteFails(t)
        PROVE  IInv'
    <3>0. txq \in [Transfers -> Nat] /\ writer \in [Streams -> {"none", "open", "dead"}]
      BY DEF IInv, TypeOK
    <3>1. txq' \in [Transfers -> Nat] /\ writer' \in [Streams -> {"none", "open", "dead"}]
      <4>1. CASE WriteChunk(t)
        BY <3>0, <4>1 DEF WriteChunk
      <4>2. CASE ChunkWriteFails(t)
        BY <3>0, <4>2 DEF ChunkWriteFails
      <4> QED
        BY <2>5, <4>1, <4>2
    <3>2. \E d \in BOOLEAN : Encrypt(t, d)
      BY <2>5 DEF WriteChunk, ChunkWriteFails
    <3> QED
      BY <2>5, <3>1, <3>2, EncryptKeepsOrder DEF WriteChunk, ChunkWriteFails, IInv, TypeOK
  <2>6. ASSUME NEW s \in Streams, Decrypt(s)
        PROVE  IInv'
    BY <2>6, DecryptKeepsOrder
  <2>7. ASSUME NEW s \in Streams, DecryptFails(s) \/ ReadFails(s)
        PROVE  IInv'
    <3>0. EndReader(s) /\ UNCHANGED <<log, txq, writer, decN, hand, up>>
      BY <2>7 DEF DecryptFails, ReadFails
    <3>1. TypeOK'
      <4>1. session' \in BOOLEAN
        BY <3>0, Zenon DEF EndReader
      <4>2. /\ reader' \in [Streams -> {"open", "dead"}]
            /\ net' \in [Streams -> Seq(Nat)]
        BY <3>0 DEF EndReader, IInv, TypeOK
      <4> QED
        BY <3>0, <4>1, <4>2 DEF IInv, TypeOK
    <3>2. \A u \in Streams : net'[u] = net[u] \/ net'[u] = <<>>
      BY <2>7 DEF DecryptFails, ReadFails, EndReader, IInv, TypeOK
    <3> QED
      BY <2>7, <3>1, <3>2, DroppingKeepsOrder DEF DecryptFails, ReadFails, IInv
  <2>8. ASSUME NEW s \in Streams, DispatchDone(s)
        PROVE  IInv'
    <3>1. TypeOK'
      BY <2>8 DEF DispatchDone, IInv, TypeOK
    <3> QED
      BY <2>8, <3>1, DroppingKeepsOrder DEF DispatchDone, IInv
  <2>9. CASE UNCHANGED vars
    <3>1. TypeOK'
      BY <2>9 DEF vars, IInv, TypeOK
    <3> QED
      BY <2>9, <3>1, DroppingKeepsOrder DEF vars, IInv
  <2> QED
    BY <2>1, <2>2, <2>3, <2>4, <2>5, <2>6, <2>7, <2>8, <2>9
    DEF Next, TransferStep, StreamStep
<1> QED
  BY <1>1, InitIInv, PTL DEF Spec

\* Every variable of the session keeps its type, whatever the bounds.
THEOREM TypeCorrect == Spec => []TypeOK
  BY InductiveInvariant, PTL DEF IInv

\* Frames under way on a stream belong to it, are not yet used and arrive in
\* the order of their nonces.
THEOREM FramesStayInOrder == Spec => []FramesInOrder
  BY InductiveInvariant, PTL DEF IInv

\* No step puts an old nonce back on a stream: what is under way afterwards
\* was under way before or has just been encrypted.
LEMMA NoFrameReappears ==
  ASSUME IInv, [Next]_vars, NEW n \in Nat, n < Len(log), OnStream(n)'
  PROVE  OnStream(n)
<1> USE StreamsFact
<1>0. log \in Seq(Streams) /\ net \in [Streams -> Seq(Nat)] /\ reader \in [Streams -> {"open", "dead"}]
  BY DEF IInv, TypeOK
<1>1. PICK u \in Streams : reader'[u] = "open" /\ \E i \in 1..Len(net'[u]) : net'[u][i] = n
  BY DEF OnStream
<1>2. PICK i \in 1..Len(net'[u]) : net'[u][i] = n
  BY <1>1
<1>3. SUFFICES reader[u] = "open" /\ \E k \in 1..Len(net[u]) : net[u][k] = n
  BY DEF OnStream
<1>4. ASSUME NEW s \in Streams, NEW d \in BOOLEAN, Encrypt(s, d), reader' = reader
      PROVE  reader[u] = "open" /\ \E k \in 1..Len(net[u]) : net[u][k] = n
  <2>1. net'[u] = net[u] \/ net'[u] = Append(net[u], Len(log))
    BY <1>0, <1>4 DEF Encrypt
  <2>2. CASE net'[u] = net[u]
    BY <1>1, <1>4, <2>2
  <2>3. CASE net'[u] = Append(net[u], Len(log))
    <3>1. net[u] \in Seq(Nat) /\ Len(log) \in Nat
      BY <1>0
    <3>2. i \in 1..(Len(net[u]) + 1) /\ net'[u][Len(net[u]) + 1] = Len(log)
      BY <2>3, <3>1, AppendFact
    <3>3. i \in 1..Len(net[u])
      BY <1>2, <3>1, <3>2
    <3> QED
      BY <1>1, <1>2, <1>4, <2>3, <3>1, <3>3, AppendFact
  <2> QED
    BY <2>1, <2>2, <2>3
<1>5. CASE SendMessage
  <2>1. (writer[Control] = "open") \in BOOLEAN
    OBVIOUS
  <2> QED
    BY <1>4, <1>5, <2>1 DEF SendMessage
<1>6. ASSUME NEW t \in Transfers, WriteChunk(t) \/ ChunkWriteFails(t)
      PROVE  reader[u] = "open" /\ \E k \in 1..Len(net[u]) : net[u][k] = n
  <2>1. reader' = reader /\ \E d \in BOOLEAN : Encrypt(t, d)
    BY <1>6 DEF WriteChunk, ChunkWriteFails
  <2> QED
    BY <1>4, <2>1
<1>7. ASSUME NEW s \in Streams, Decrypt(s)
      PROVE  reader[u] = "open" /\ \E k \in 1..Len(net[u]) : net[u][k] = n
  <2>1. CASE u = s
    <3>1. net[u] \in Seq(Nat) /\ net[u] # <<>> /\ net'[u] = Tail(net[u]) /\ reader' = reader
      BY <1>0, <1>7, <2>1 DEF Decrypt
    <3>2. i + 1 \in 1..Len(net[u]) /\ net[u][i + 1] = n
      BY <1>2, <3>1, TailFact
    <3> QED
      BY <1>1, <3>1, <3>2
  <2>2. CASE u # s
    BY <1>0, <1>1, <1>7, <2>2 DEF Decrypt
  <2> QED
    BY <2>1, <2>2
<1>8. ASSUME NEW s \in Streams, DecryptFails(s) \/ ReadFails(s)
      PROVE  reader[u] = "open" /\ \E k \in 1..Len(net[u]) : net[u][k] = n
  <2>1. EndReader(s)
    BY <1>8 DEF DecryptFails, ReadFails
  <2>2. u # s /\ reader'[u] = reader[u] /\ net'[u] = net[u]
    BY <1>0, <1>1, <2>1 DEF EndReader
  <2> QED
    BY <1>1, <2>2
<1>9. CASE reader' = reader /\ net' = net
  BY <1>1, <1>9
<1> QED
  BY <1>5, <1>6, <1>7, <1>8, <1>9
  DEF Next, TransferStep, StreamStep, vars, ControlWriteFails, ConnectionLost,
      TransferStreamSender, EnqueueChunk, ChunkTooLarge, DispatchDone

\* Only a frame that is under way can be the next one decrypted, and the log
\* only grows.
LEMMA CountersMove ==
  ASSUME IInv, [Next]_vars
  PROVE  /\ Len(log') \in Nat /\ Len(log) <= Len(log')
         /\ decN' \in Nat
         /\ decN' = decN \/ (decN' = decN + 1 /\ OnStream(decN))
<1> USE StreamsFact
<1>0. log \in Seq(Streams) /\ net \in [Streams -> Seq(Nat)] /\ decN \in Nat /\ Len(log) \in Nat
  BY DEF IInv, TypeOK
<1>1. ASSUME NEW s \in Streams, NEW d \in BOOLEAN, Encrypt(s, d)
      PROVE  Len(log') \in Nat /\ Len(log) <= Len(log')
  BY <1>0, <1>1, AppendFact DEF Encrypt
<1>2. CASE SendMessage
  <2>1. (writer[Control] = "open") \in BOOLEAN
    OBVIOUS
  <2> QED
    BY <1>0, <1>1, <1>2, <2>1 DEF SendMessage
<1>3. ASSUME NEW t \in Transfers, WriteChunk(t) \/ ChunkWriteFails(t)
      PROVE  Len(log') \in Nat /\ Len(log) <= Len(log') /\ decN' = decN
  <2>1. decN' = decN /\ \E d \in BOOLEAN : Encrypt(t, d)
    BY <1>3 DEF WriteChunk, ChunkWriteFails
  <2> QED
    BY <1>1, <2>1
<1>4. ASSUME NEW s \in Streams, Decrypt(s)
      PROVE  log' = log /\ decN' = decN + 1 /\ OnStream(decN)
  <2>1. net[s] \in Seq(Nat) /\ net[s] # <<>> /\ Head(net[s]) = decN /\ reader[s] = "open"
    BY <1>0, <1>4 DEF Decrypt
  <2>2. 1 \in 1..Len(net[s]) /\ net[s][1] = decN
    BY <2>1, TailFact
  <2> QED
    BY <1>4, <2>1, <2>2 DEF Decrypt, OnStream
<1>5. CASE log' = log /\ decN' = decN
  BY <1>0, <1>5
<1> QED
  BY <1>0, <1>2, <1>3, <1>4, <1>5
  DEF Next, TransferStep, StreamStep, vars, ControlWriteFails, ConnectionLost,
      TransferStreamSender, EnqueueChunk, ChunkTooLarge, DispatchDone,
      DecryptFails, ReadFails

\* A lost frame stays lost and holds back every later frame of the session.
THEOREM LossStaysFinal == Spec => LossIsFinal
<1>1. IInv /\ [Next]_vars => [Lost \subseteq Lost']_vars
  <2> SUFFICES ASSUME IInv, [Next]_vars, NEW n \in Lost
               PROVE  n \in Lost'
    OBVIOUS
  <2>1. n \in Nat /\ n >= decN /\ n < Len(log) /\ ~OnStream(n) /\ Len(log) \in Nat /\ decN \in Nat
    BY DEF Lost, IInv, TypeOK
  <2>2. ~OnStream(n)'
    BY <2>1, NoFrameReappears
  <2>3. n >= decN' /\ n < Len(log') /\ Len(log') \in Nat /\ decN' \in Nat
    BY <2>1, CountersMove
  <2> QED
    BY <2>1, <2>2, <2>3 DEF Lost
<1> QED
  BY <1>1, InductiveInvariant, PTL DEF Spec, LossIsFinal

\* The session implements the ordered-prefix channel: each step of Wire is a
\* Put, a Take or a Done of OrderedPrefix, or leaves it alone.
THEOREM WireRefinesOrderedPrefix == Spec => Refines
<1> USE StreamsFact
<1>1. Init => Abstract!Init
  BY DEF Init, Abstract!Init
<1>2. IInv /\ [Next]_vars => [Abstract!Next]_(Abstract!vars)
  <2> SUFFICES ASSUME IInv, [Next]_vars
               PROVE  Abstract!Next \/ UNCHANGED Abstract!vars
    BY DEF Abstract!vars
  <2>1. CASE SendMessage
    BY <2>1 DEF SendMessage, Encrypt, Abstract!Next, Abstract!Put
  <2>2. ASSUME NEW t \in Transfers, WriteChunk(t) \/ ChunkWriteFails(t)
        PROVE  Abstract!Next
    BY <2>2 DEF WriteChunk, ChunkWriteFails, Encrypt, Abstract!Next, Abstract!Put
  <2>3. ASSUME NEW s \in Streams, Decrypt(s)
        PROVE  Abstract!Next
    <3>1. decN < Len(log) /\ log[decN + 1] = s
      BY <2>3, DecryptKeepsOrder
    <3> QED
      BY <2>3, <3>1 DEF Decrypt, Abstract!Next, Abstract!Take
  <2>4. ASSUME NEW s \in Streams, DispatchDone(s)
        PROVE  Abstract!Next
    BY <2>4 DEF DispatchDone, Abstract!Next, Abstract!Done
  <2>5. CASE log' = log /\ decN' = decN /\ hand' = hand
    BY <2>5 DEF Abstract!vars
  <2> QED
    BY <2>1, <2>2, <2>3, <2>4, <2>5
    DEF Next, TransferStep, StreamStep, vars, ControlWriteFails, ConnectionLost,
        TransferStreamSender, EnqueueChunk, ChunkTooLarge, DecryptFails, ReadFails
<1> QED
  BY <1>1, <1>2, InductiveInvariant, PTL DEF Spec, Refines, Abstract!Spec
=============================================================================
