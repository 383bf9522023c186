----------------------------- MODULE ChatProofs -----------------------------
(***************************************************************************)
(* Theorems about Chat: type correctness with the foreign keys, that a     *)
(* text that left is stored, that it comes once and that receipts are      *)
(* true, for every number of texts, connections and faults.                *)
(***************************************************************************)
EXTENDS Chat, TLAPS

(* What makes the three safety properties inductive.                       *)

\* Packet p is the i-th of those d sent over c, or of those queued at d.
InWire(c, d, i, p) == i \in 1 .. Len(wire[c][d]) /\ wire[c][d][i] = p
InEvents(d, i, p) == i \in 1 .. Len(events[d]) /\ events[d][i] = p

\* A call that is past the insertion has its row, and a row at the author's
\* device is never marked as read.
CallInv ==
    \A m \in Msgs :
        /\ call[m] \in {"stored", "sent", "done"} => rows[Author[m]][m] # "none"
        /\ rows[Author[m]][m] # "read"

\* The call for m has tried to transmit it, which it does not do again.
Launched(m) ==
    call[m] \in {"sent", "done", "failed"} /\ rows[Author[m]][m] # "none"

\* A text in flight is on the connection it was sent over, once.
WireInv ==
    \A m \in Msgs, c \in Conns, d \in Devices, i \in Nat :
        InWire(c, d, i, Text(m)) =>
            /\ d = Author[m] /\ c = via[m]
            /\ Launched(m)
            /\ m \notin seen \cup missed
            /\ \A j \in Nat : InWire(c, d, j, Text(m)) => j = i

\* A text in a queue is at its recipient, and in flight no more.
EventInv ==
    \A m \in Msgs, d \in Devices, i \in Nat :
        InEvents(d, i, Text(m)) =>
            /\ d = Recipient(m)
            /\ Launched(m)
            /\ m \notin seen \cup missed
            /\ \A c \in Conns, e \in Devices, j \in Nat : ~ InWire(c, e, j, Text(m))

PolledInv == \A m \in Msgs : m \in seen \cup missed => Launched(m)

\* Only texts rendered at their recipient are marked and confirmed.
ReceiptInv ==
    \A m \in Msgs :
        /\ \A d \in Devices : m \in unread[d] => m \in seen /\ d = Recipient(m)
        /\ \A c \in Conns, d \in Devices, i \in Nat :
              InWire(c, d, i, ReadReceipt(m)) => m \in seen
        /\ \A d \in Devices, i \in Nat : InEvents(d, i, ReadReceipt(m)) => m \in seen
        /\ bubble[Author[m]][m] = "read" => m \in seen

IInv == TypeOK /\ CallInv /\ WireInv /\ EventInv /\ PolledInv /\ ReceiptInv

-----------------------------------------------------------------------------
(* Devices, packets and where packets are                                  *)

LEMMA TwoDevices ==
    \A d \in Devices : Peer(d) \in Devices /\ Peer(d) # d /\ Peer(Peer(d)) = d
<1>1. PICK a \in Devices, b \in Devices : a # b /\ Devices = {a, b}
  BY ChatAssumption
<1>2. Peer(a) = b /\ Peer(b) = a
  BY <1>1 DEF Peer
<1> QED BY <1>1, <1>2

LEMMA Authors == \A m \in Msgs : /\ Author[m] \in Devices /\ Recipient(m) \in Devices
                                 /\ Recipient(m) # Author[m]
BY ChatAssumption, TwoDevices DEF Recipient

LEMMA PacketFacts ==
    /\ \A m \in Msgs : Text(m) \in Packets /\ ReadReceipt(m) \in Packets
    /\ \A m, n \in Msgs : /\ Text(m) = Text(n) => m = n
                          /\ ReadReceipt(m) = ReadReceipt(n) => m = n
                          /\ Text(m) # ReadReceipt(n)
    /\ \A p \in Packets : \E m \in Msgs : p = Text(m) \/ p = ReadReceipt(m)
<1>1. \A m \in Msgs : Text(m) \in Packets /\ ReadReceipt(m) \in Packets
  BY DEF Text, ReadReceipt, Packets
<1>2. \A m, n \in Msgs : /\ Text(m) = Text(n) => m = n
                         /\ ReadReceipt(m) = ReadReceipt(n) => m = n
                         /\ Text(m) # ReadReceipt(n)
  BY DEF Text, ReadReceipt
<1>3. \A p \in Packets : \E m \in Msgs : p = Text(m) \/ p = ReadReceipt(m)
  BY DEF Text, ReadReceipt, Packets
<1> QED BY <1>1, <1>2, <1>3

LEMMA WhereOnTheWay ==
    ASSUME TypeOK, NEW p \in OnTheWay
    PROVE  \/ \E c \in Conns, d \in Devices, i \in Nat : InWire(c, d, i, p)
           \/ \E d \in Devices, i \in Nat : InEvents(d, i, p)
<1>1. CASE \E c \in Conns, d \in Devices : p \in ToSet(wire[c][d])
  <2>1. PICK c \in Conns, d \in Devices : p \in ToSet(wire[c][d])
    BY <1>1
  <2>2. wire[c][d] \in Seq(Packets)
    BY DEF TypeOK
  <2>3. PICK i \in DOMAIN wire[c][d] : p = wire[c][d][i]
    BY <2>1 DEF ToSet
  <2> QED BY <2>2, <2>3 DEF InWire
<1>2. CASE \E d \in Devices : p \in ToSet(events[d])
  <2>1. PICK d \in Devices : p \in ToSet(events[d])
    BY <1>2
  <2>2. events[d] \in Seq(Packets)
    BY DEF TypeOK
  <2>3. PICK i \in DOMAIN events[d] : p = events[d][i]
    BY <2>1 DEF ToSet
  <2> QED BY <2>2, <2>3 DEF InEvents
<1> QED BY <1>1, <1>2 DEF OnTheWay

LEMMA InitHolds == Init => IInv
<1> SUFFICES ASSUME Init PROVE IInv
  OBVIOUS
<1>1. TypeOK
  <2>1. /\ wire \in [Conns -> [Devices -> Seq(Packets)]]
        /\ events \in [Devices -> Seq(Packets)]
    BY DEF Init
  <2>2. rows \in [Devices -> [Msgs -> Statuses]] /\ bubble \in [Devices -> [Msgs -> Statuses]]
    BY DEF Init, NoBubbles, Statuses
  <2> QED BY <2>1, <2>2, ChatAssumption DEF Init, TypeOK, Stages
<1>2. \A m \in Msgs : rows[Author[m]][m] = "none" /\ bubble[Author[m]][m] = "none"
  BY Authors DEF Init, NoBubbles
<1>3. /\ \A c \in Conns, d \in Devices, i \in Nat, p \in Packets : ~ InWire(c, d, i, p)
      /\ \A d \in Devices, i \in Nat, p \in Packets : ~ InEvents(d, i, p)
  BY DEF Init, InWire, InEvents
<1>4. CallInv
  BY <1>2 DEF Init, CallInv
<1>5. WireInv /\ EventInv /\ PolledInv
  BY <1>3, PacketFacts DEF Init, WireInv, EventInv, PolledInv
<1>6. ReceiptInv
  BY <1>2, <1>3, PacketFacts DEF Init, ReceiptInv
<1> QED BY <1>1, <1>4, <1>5, <1>6 DEF IInv

-----------------------------------------------------------------------------
(* Steps that send, dispatch and poll nothing                              *)

\* Such a step keeps the invariant if it adds no packet, keeps what was
\* launched, marks nothing as unread, and turns no bubble to read but from a row.
LEMMA QuietKeeps ==
    ASSUME IInv, TypeOK', CallInv', UNCHANGED <<via, seen, missed>>,
           \A c \in Conns, d \in Devices, i \in Nat, p \in Packets :
               InWire(c, d, i, p)' => InWire(c, d, i, p),
           \A d \in Devices, i \in Nat, p \in Packets :
               InEvents(d, i, p)' => InEvents(d, i, p),
           \A m \in Msgs : Launched(m) => Launched(m)',
           \A d \in Devices : unread'[d] \subseteq unread[d],
           \A m \in Msgs : bubble'[Author[m]][m] = "read" =>
               bubble[Author[m]][m] = "read" \/ rows[Author[m]][m] = "read"
    PROVE  IInv'
<1>1. WireInv'
  BY PacketFacts DEF IInv, WireInv
<1>2. EventInv'
  BY PacketFacts DEF IInv, EventInv
<1>3. PolledInv'
  BY DEF IInv, PolledInv
<1>4. ReceiptInv'
  BY PacketFacts DEF IInv, CallInv, ReceiptInv
<1> QED BY <1>1, <1>2, <1>3, <1>4 DEF IInv

LEMMA ConnectionKeeps ==
    ASSUME IInv, NEW c \in Conns,
           \/ Connect(c) \/ Lose(c)
           \/ \E d \in Devices : register_session(c, d) \/ ReaderEnds(c, d)
    PROVE  IInv'
<1>1. UNCHANGED <<convs, rows, call, via, events, ui>>
  BY DEF Connect, Lose, register_session, ReaderEnds, store
<1>2. TypeOK'
  <2>1. CASE Connect(c)
    BY <2>1 DEF Connect, store, ui, IInv, TypeOK
  <2>2. CASE Lose(c)
    <3>1. wire' \in [Conns -> [Devices -> Seq(Packets)]]
      BY <2>2 DEF Lose, IInv, TypeOK
    <3>2. faults' \in 0 .. MaxFaults
      BY <2>2, ChatAssumption DEF Lose, IInv, TypeOK
    <3> QED BY <2>2, <3>1, <3>2 DEF Lose, store, ui, IInv, TypeOK
  <2>3. ASSUME NEW d \in Devices, register_session(c, d)
        PROVE  TypeOK'
    BY <2>3 DEF register_session, upsert_known_device, ui, IInv, TypeOK
  <2>4. ASSUME NEW d \in Devices, ReaderEnds(c, d)
        PROVE  TypeOK'
    BY <2>4 DEF ReaderEnds, store, ui, IInv, TypeOK
  <2> QED BY <2>1, <2>2, <2>3, <2>4
<1>3. \A b \in Conns, d \in Devices, i \in Nat, p \in Packets :
          InWire(b, d, i, p)' => InWire(b, d, i, p)
  <2>1. CASE Lose(c)
    <3>1. \A b \in Conns, d \in Devices : wire'[b][d] \in {wire[b][d], << >>}
      BY <2>1 DEF Lose, IInv, TypeOK
    <3>2. ASSUME NEW b \in Conns, NEW d \in Devices, NEW i \in Nat, NEW p \in Packets,
                 InWire(b, d, i, p)'
          PROVE  InWire(b, d, i, p)
      <4>1. wire'[b][d] # << >>
        BY <3>2 DEF InWire
      <4> QED BY <3>1, <3>2, <4>1 DEF InWire
    <3> QED BY <3>2
  <2>2. CASE UNCHANGED wire
    BY <2>2 DEF InWire
  <2> QED BY <2>1, <2>2 DEF Connect, register_session, ReaderEnds
<1>4. CallInv'
  BY <1>1 DEF IInv, CallInv
<1>5. UNCHANGED <<unread, bubble, seen, missed>>
  BY <1>1 DEF ui
<1>6. \A d \in Devices, i \in Nat, p \in Packets : InEvents(d, i, p)' => InEvents(d, i, p)
  BY <1>1 DEF InEvents
<1>7. \A m \in Msgs : Launched(m) => Launched(m)'
  BY <1>1 DEF Launched
<1> QED BY <1>1, <1>2, <1>3, <1>4, <1>5, <1>6, <1>7, QuietKeeps

LEMMA CrashKeeps == ASSUME IInv, NEW d \in Devices, Crash(d) PROVE IInv'
<1>1. /\ UNCHANGED <<known, convs, rows, via, made, seen, missed>>
      /\ wire' = [c \in Conns |-> [e \in Devices |-> << >>]]
      /\ events' = [events EXCEPT ![d] = << >>]
      /\ bubble' = [bubble EXCEPT ![d] = NoBubbles]
      /\ unread' = [unread EXCEPT ![d] = {}]
  BY DEF Crash, store
<1>2. \A m \in Msgs : call'[m] = call[m] \/ call'[m] = "failed"
  BY DEF Crash
<1>3. TypeOK'
  <2>1. wire' \in [Conns -> [Devices -> Seq(Packets)]]
    BY <1>1
  <2>2. events' \in [Devices -> Seq(Packets)]
    BY <1>1 DEF IInv, TypeOK
  <2>3. bubble' \in [Devices -> [Msgs -> Statuses]] /\ unread' \in [Devices -> SUBSET Msgs]
    BY <1>1 DEF IInv, TypeOK, NoBubbles, Statuses
  <2>4. call' \in [Msgs -> Stages]
    BY DEF Crash, IInv, TypeOK, Stages
  <2>5. faults' \in 0 .. MaxFaults
    BY ChatAssumption DEF Crash, IInv, TypeOK
  <2>6. /\ up' \subseteq made' /\ joined' \subseteq made' \X Devices
        /\ reading' \subseteq joined' /\ open' \subseteq Devices
        /\ sess' \in [Devices -> Conns \cup {None}]
    BY <1>1 DEF Crash, IInv, TypeOK
  <2> QED BY <1>1, <2>1, <2>2, <2>3, <2>4, <2>5, <2>6 DEF IInv, TypeOK
<1>4. \A c \in Conns, e \in Devices, i \in Nat, p \in Packets : ~ InWire(c, e, i, p)'
  BY <1>1 DEF InWire
<1>5. ASSUME NEW e \in Devices, NEW i \in Nat, NEW p \in Packets, InEvents(e, i, p)'
      PROVE  InEvents(e, i, p)
  <2>1. events'[e] # << >>
    BY <1>5 DEF InEvents
  <2>2. events'[e] = events[e]
    BY <1>1, <2>1 DEF IInv, TypeOK
  <2> QED BY <1>5, <2>2 DEF InEvents
<1>6. CallInv' /\ \A m \in Msgs : Launched(m) => Launched(m)'
  BY <1>1, <1>2 DEF IInv, CallInv, Launched
<1>7. \A e \in Devices : unread'[e] \subseteq unread[e]
  BY <1>1 DEF IInv, TypeOK
<1>8. \A m \in Msgs : bubble'[Author[m]][m] = "read" => bubble[Author[m]][m] = "read"
  BY <1>1, Authors DEF IInv, TypeOK, NoBubbles
<1> QED BY <1>1, <1>3, <1>4, <1>5, <1>6, <1>7, <1>8, QuietKeeps

\* The steps of a call other than the transmission.
LEMMA CallKeeps ==
    ASSUME IInv, NEW m \in Msgs,
           get_or_create_conversation(m) \/ insert_message(m) \/ RenderOwn(m)
    PROVE  IInv'
<1>1. UNCHANGED <<known, via, net, wire, events, open, unread, seen, missed, faults>>
  BY DEF get_or_create_conversation, insert_message, RenderOwn, ui, store
<1>2. PICK to \in Stages : call' = [call EXCEPT ![m] = to]
  BY DEF get_or_create_conversation, insert_message, RenderOwn, Stages
<1>3. Author[m] \in Devices
  BY Authors
<1>4. TypeOK'
  <2>1. call' \in [Msgs -> Stages]
    BY <1>2 DEF IInv, TypeOK
  <2>2. convs' \subseteq known
    BY DEF get_or_create_conversation, insert_message, RenderOwn, store, IInv, TypeOK
  <2>3. rows' \in [Devices -> [Msgs -> Statuses]]
    <3>1. rows' \in {rows, [rows EXCEPT ![Author[m]][m] = "pending"]}
      BY DEF get_or_create_conversation, insert_message, RenderOwn, store
    <3>2. rows \in [Devices -> [Msgs -> Statuses]] /\ "pending" \in Statuses
      BY DEF IInv, TypeOK, Statuses
    <3>3. CASE rows' = rows
      BY <3>2, <3>3
    <3>4. CASE rows' = [rows EXCEPT ![Author[m]][m] = "pending"]
      BY <1>3, <3>2, <3>4
    <3> QED BY <3>1, <3>3, <3>4
  <2>4. bubble' \in [Devices -> [Msgs -> Statuses]]
    <3>1. bubble' \in {bubble, [bubble EXCEPT ![Author[m]][m] = "pending"]}
      BY DEF get_or_create_conversation, insert_message, RenderOwn, ui
    <3>2. bubble \in [Devices -> [Msgs -> Statuses]] /\ "pending" \in Statuses
      BY DEF IInv, TypeOK, Statuses
    <3>3. CASE bubble' = bubble
      BY <3>2, <3>3
    <3>4. CASE bubble' = [bubble EXCEPT ![Author[m]][m] = "pending"]
      BY <1>3, <3>2, <3>4
    <3> QED BY <3>1, <3>3, <3>4
  <2> QED BY <1>1, <2>1, <2>2, <2>3, <2>4 DEF net, IInv, TypeOK
<1>5. /\ \A n \in Msgs : n # m => /\ call'[n] = call[n]
                                  /\ rows'[Author[n]][n] = rows[Author[n]][n]
                                  /\ bubble'[Author[n]][n] = bubble[Author[n]][n]
      /\ rows'[Author[m]][m] \in {rows[Author[m]][m], "pending"}
      /\ bubble'[Author[m]][m] \in {bubble[Author[m]][m], "pending"}
  <2>1. \A n \in Msgs : n # m => call'[n] = call[n]
    BY <1>2 DEF IInv, TypeOK
  <2>2. rows' \in {rows, [rows EXCEPT ![Author[m]][m] = "pending"]}
    BY DEF get_or_create_conversation, insert_message, RenderOwn, store
  <2>3. bubble' \in {bubble, [bubble EXCEPT ![Author[m]][m] = "pending"]}
    BY DEF get_or_create_conversation, insert_message, RenderOwn, ui
  <2>4. /\ \A n \in Msgs : n # m => rows'[Author[n]][n] = rows[Author[n]][n]
        /\ rows'[Author[m]][m] \in {rows[Author[m]][m], "pending"}
    <3>1. rows \in [Devices -> [Msgs -> Statuses]]
      BY DEF IInv, TypeOK
    <3>2. CASE rows' = rows
      BY <3>2
    <3>3. CASE rows' = [rows EXCEPT ![Author[m]][m] = "pending"]
      BY <1>3, <3>1, <3>3, Authors
    <3> QED BY <2>2, <3>2, <3>3
  <2>5. /\ \A n \in Msgs : n # m => bubble'[Author[n]][n] = bubble[Author[n]][n]
        /\ bubble'[Author[m]][m] \in {bubble[Author[m]][m], "pending"}
    <3>1. bubble \in [Devices -> [Msgs -> Statuses]]
      BY DEF IInv, TypeOK
    <3>2. CASE bubble' = bubble
      BY <3>2
    <3>3. CASE bubble' = [bubble EXCEPT ![Author[m]][m] = "pending"]
      BY <1>3, <3>1, <3>3, Authors
    <3> QED BY <2>3, <3>2, <3>3
  <2> QED BY <2>1, <2>4, <2>5
<1>6. call[m] \in {"idle", "begun", "sent"} /\ (call[m] = "sent" => call'[m] = "done")
  BY DEF get_or_create_conversation, insert_message, RenderOwn, IInv, TypeOK
<1>7. call'[m] \in {"stored", "sent", "done"} => rows'[Author[m]][m] # "none"
  <2>1. CASE get_or_create_conversation(m)
    BY <2>1 DEF get_or_create_conversation, IInv, TypeOK
  <2>2. CASE insert_message(m)
    BY <2>2, <1>3 DEF insert_message, IInv, TypeOK
  <2>3. CASE RenderOwn(m)
    BY <2>3 DEF RenderOwn, store, IInv, TypeOK, CallInv
  <2> QED BY <2>1, <2>2, <2>3
<1>8. CallInv'
  BY <1>5, <1>7 DEF IInv, CallInv
<1>9. \A n \in Msgs : Launched(n) => Launched(n)'
  BY <1>5, <1>6 DEF Launched
<1>10. /\ \A c \in Conns, d \in Devices, i \in Nat, p \in Packets :
             InWire(c, d, i, p)' => InWire(c, d, i, p)
       /\ \A d \in Devices, i \in Nat, p \in Packets : InEvents(d, i, p)' => InEvents(d, i, p)
  BY <1>1 DEF InWire, InEvents
<1>11. \A n \in Msgs : bubble'[Author[n]][n] = "read" => bubble[Author[n]][n] = "read"
  BY <1>5
<1> QED BY <1>1, <1>4, <1>8, <1>9, <1>10, <1>11, QuietKeeps

\* The page shows the chat or another one.
LEMMA PageKeeps ==
    ASSUME IInv, NEW d \in Devices, SelectPeer(d) \/ Leave(d)
    PROVE  IInv'
<1>1. UNCHANGED <<store, call, via, net, wire, events, unread, seen, missed, faults>>
  BY DEF SelectPeer, Leave
<1>2. PICK b \in {rows[d], NoBubbles} : bubble' = [bubble EXCEPT ![d] = b]
  BY DEF SelectPeer, Leave, get_conversation_history
<1>3. TypeOK'
  <2>1. b \in [Msgs -> Statuses]
    BY <1>2 DEF IInv, TypeOK, NoBubbles, Statuses
  <2>2. bubble' \in [Devices -> [Msgs -> Statuses]]
    BY <1>2, <2>1 DEF IInv, TypeOK
  <2>3. open' \subseteq Devices
    BY DEF SelectPeer, Leave, IInv, TypeOK
  <2> QED BY <1>1, <2>2, <2>3 DEF store, net, IInv, TypeOK
<1>4. \A m \in Msgs : bubble'[Author[m]][m] = "read" =>
          bubble[Author[m]][m] = "read" \/ rows[Author[m]][m] = "read"
  BY <1>2, Authors DEF IInv, TypeOK, NoBubbles
<1>5. CallInv' /\ \A m \in Msgs : Launched(m) => Launched(m)'
  BY <1>1 DEF store, IInv, CallInv, Launched
<1>6. /\ \A c \in Conns, e \in Devices, i \in Nat, p \in Packets :
            InWire(c, e, i, p)' => InWire(c, e, i, p)
      /\ \A e \in Devices, i \in Nat, p \in Packets : InEvents(e, i, p)' => InEvents(e, i, p)
  BY <1>1 DEF InWire, InEvents
<1> QED BY <1>1, <1>3, <1>4, <1>5, <1>6, QuietKeeps

-----------------------------------------------------------------------------
(* Steps that send                                                         *)

\* A packet that is sent is the last one in flight on the entry's connection.
LEMMA Sends ==
    ASSUME TypeOK, NEW d \in Devices, NEW p \in Packets, send_to(d, p)
    PROVE  /\ wire' \in [Conns -> [Devices -> Seq(Packets)]]
           /\ sess[d] \in Conns
           /\ \A c \in Conns, e \in Devices, i \in Nat, q \in Packets :
                 InWire(c, e, i, q)' =>
                    \/ InWire(c, e, i, q)
                    \/ c = sess[d] /\ e = d /\ q = p /\ i = Len(wire[c][e]) + 1
<1>1. sess[d] \in Conns
  BY DEF send_to, TypeOK
<1>2. CASE UNCHANGED wire
  BY <1>1, <1>2 DEF TypeOK, InWire
<1>3. CASE wire' = [wire EXCEPT ![sess[d]][d] = Append(@, p)]
  <2>1. /\ wire[sess[d]][d] \in Seq(Packets)
        /\ Append(wire[sess[d]][d], p) \in Seq(Packets)
    BY <1>1 DEF TypeOK
  <2>2. wire' \in [Conns -> [Devices -> Seq(Packets)]]
    BY <1>1, <1>3, <2>1 DEF TypeOK
  <2>3. ASSUME NEW c \in Conns, NEW e \in Devices, NEW i \in Nat, NEW q \in Packets,
               InWire(c, e, i, q)'
        PROVE  \/ InWire(c, e, i, q)
               \/ c = sess[d] /\ e = d /\ q = p /\ i = Len(wire[c][e]) + 1
    <3>1. CASE c = sess[d] /\ e = d
      <4>1. wire'[c][e] = Append(wire[c][e], p)
        BY <1>1, <1>3, <3>1 DEF TypeOK
      <4>2. wire'[c][e][i] = q /\ i \in 1 .. Len(wire'[c][e])
        BY <2>3 DEF InWire
      <4> QED BY <2>1, <3>1, <4>1, <4>2 DEF InWire
    <3>2. CASE ~ (c = sess[d] /\ e = d)
      <4>1. wire'[c][e] = wire[c][e]
        BY <1>1, <1>3, <3>2 DEF TypeOK
      <4> QED BY <2>3, <4>1 DEF InWire
    <3> QED BY <3>1, <3>2
  <2> QED BY <1>1, <2>2, <2>3
<1> QED BY <1>2, <1>3 DEF send_to

LEMMA TransmitKeeps == ASSUME IInv, NEW m \in Msgs, Transmit(m) PROVE IInv'
<1>1. /\ UNCHANGED <<store, net, events, ui, faults>>
      /\ call[m] = "stored"
  BY DEF Transmit
<1>2. UNCHANGED <<rows, events, open, bubble, unread, seen, missed>>
  BY <1>1 DEF store, ui
<1>3. PICK to \in {"sent", "failed"} : call' = [call EXCEPT ![m] = to]
  BY DEF Transmit
<1>4. \A n \in Msgs : call'[n] = IF n = m THEN to ELSE call[n]
  BY <1>3 DEF IInv, TypeOK
<1>5. rows[Author[m]][m] # "none" /\ ~ Launched(m)
  BY <1>1 DEF IInv, CallInv, Launched
<1>6. CallInv' /\ Launched(m)' /\ \A n \in Msgs : Launched(n) => Launched(n)'
  BY <1>2, <1>4, <1>5 DEF IInv, CallInv, Launched
<1>7. call' \in [Msgs -> Stages]
  BY <1>3 DEF IInv, TypeOK, Stages
<1>8. CASE UNCHANGED <<wire, via>>
  <2>1. TypeOK'
    BY <1>1, <1>7, <1>8 DEF store, net, ui, IInv, TypeOK
  <2>2. /\ \A c \in Conns, d \in Devices, i \in Nat, p \in Packets :
              InWire(c, d, i, p)' => InWire(c, d, i, p)
        /\ \A d \in Devices, i \in Nat, p \in Packets : InEvents(d, i, p)' => InEvents(d, i, p)
    BY <1>2, <1>8 DEF InWire, InEvents
  <2> QED BY <1>2, <1>6, <1>8, <2>1, <2>2, QuietKeeps
<1>9. CASE send_to(Author[m], Text(m)) /\ via' = [via EXCEPT ![m] = sess[Author[m]]]
  <2>1. /\ wire' \in [Conns -> [Devices -> Seq(Packets)]]
        /\ sess[Author[m]] \in Conns
        /\ \A c \in Conns, e \in Devices, i \in Nat, q \in Packets :
              InWire(c, e, i, q)' =>
                 \/ InWire(c, e, i, q)
                 \/ /\ c = sess[Author[m]] /\ e = Author[m] /\ q = Text(m)
                    /\ i = Len(wire[c][e]) + 1
    BY <1>9, Authors, PacketFacts, Sends DEF IInv
  <2>2. via'[m] = sess[Author[m]] /\ \A n \in Msgs : n # m => via'[n] = via[n]
    BY <1>9 DEF IInv, TypeOK
  <2>3. TypeOK'
    <3>1. via' \in [Msgs -> Conns \cup {None}]
      BY <1>9, <2>1 DEF IInv, TypeOK
    <3> QED BY <1>1, <1>7, <2>1, <3>1 DEF store, net, ui, IInv, TypeOK
  <2>4. /\ \A c \in Conns, d \in Devices, i \in Nat : ~ InWire(c, d, i, Text(m))
        /\ \A d \in Devices, i \in Nat : ~ InEvents(d, i, Text(m))
        /\ m \notin seen \cup missed
    BY <1>5 DEF IInv, WireInv, EventInv, PolledInv
  <2>5. WireInv'
    <3> SUFFICES ASSUME NEW n \in Msgs, NEW c \in Conns, NEW d \in Devices, NEW i \in Nat,
                        InWire(c, d, i, Text(n))'
                 PROVE  /\ d = Author[n] /\ c = via'[n]
                        /\ Launched(n)'
                        /\ n \notin seen' \cup missed'
                        /\ \A j \in Nat : InWire(c, d, j, Text(n))' => j = i
      BY DEF WireInv
    <3>1. CASE n = m
      <4>1. \A j \in Nat : InWire(c, d, j, Text(m))' =>
               c = sess[Author[m]] /\ d = Author[m] /\ j = Len(wire[c][d]) + 1
        <5>1. Text(m) \in Packets
          BY PacketFacts
        <5>2. \A j \in Nat : ~ InWire(c, d, j, Text(m))
          BY <2>4
        <5> QED BY <2>1, <5>1, <5>2
      <4> QED BY <1>2, <1>6, <2>2, <2>4, <3>1, <4>1
    <3>2. CASE n # m
      <4>1. Text(n) # Text(m) /\ Text(n) \in Packets
        BY <3>2, PacketFacts
      <4>2. \A j \in Nat : InWire(c, d, j, Text(n))' => InWire(c, d, j, Text(n))
        BY <2>1, <4>1
      <4> QED BY <1>2, <1>6, <2>2, <3>2, <4>2 DEF IInv, WireInv
    <3> QED BY <3>1, <3>2
  <2>6. EventInv'
    <3> SUFFICES ASSUME NEW n \in Msgs, NEW d \in Devices, NEW i \in Nat,
                        InEvents(d, i, Text(n))'
                 PROVE  /\ d = Recipient(n)
                        /\ Launched(n)'
                        /\ n \notin seen' \cup missed'
                        /\ \A c \in Conns, e \in Devices, j \in Nat :
                              ~ InWire(c, e, j, Text(n))'
      BY DEF EventInv
    <3>1. InEvents(d, i, Text(n))
      BY <1>2 DEF InEvents
    <3>2. n # m /\ Text(n) # Text(m) /\ Text(n) \in Packets
      BY <2>4, <3>1, PacketFacts
    <3> QED BY <1>2, <1>6, <2>1, <3>1, <3>2 DEF IInv, EventInv
  <2>7. PolledInv'
    BY <1>2, <1>6 DEF IInv, PolledInv
  <2>8. ReceiptInv'
    <3>1. \A n \in Msgs, c \in Conns, d \in Devices, i \in Nat :
             InWire(c, d, i, ReadReceipt(n))' => InWire(c, d, i, ReadReceipt(n))
      BY <2>1, PacketFacts
    <3>2. \A n \in Msgs, d \in Devices, i \in Nat :
             InEvents(d, i, ReadReceipt(n))' => InEvents(d, i, ReadReceipt(n))
      BY <1>2 DEF InEvents
    <3> QED BY <1>2, <3>1, <3>2 DEF IInv, ReceiptInv
  <2> QED BY <1>6, <2>3, <2>5, <2>6, <2>7, <2>8 DEF IInv
<1> QED BY <1>8, <1>9 DEF Transmit

LEMMA MarkReadKeeps ==
    ASSUME IInv, NEW d \in Devices, NEW m \in Msgs, MarkRead(d, m)
    PROVE  IInv'
<1>1. /\ UNCHANGED <<known, convs, call, via, net, events, open, bubble, seen, missed, faults>>
      /\ m \in unread[d]
      /\ unread' = [unread EXCEPT ![d] = @ \ {m}]
      /\ rows' = rows \/ rows' = [rows EXCEPT ![d][m] = "read"]
      /\ send_to(d, ReadReceipt(m)) \/ UNCHANGED wire
  BY DEF MarkRead
<1>2. m \in seen /\ d = Recipient(m) /\ d # Author[m]
  BY <1>1, Authors DEF IInv, ReceiptInv
<1>3. ReadReceipt(m) \in Packets
  BY PacketFacts
<1>4. \A n \in Msgs : rows'[Author[n]][n] = rows[Author[n]][n]
  <2>1. rows \in [Devices -> [Msgs -> Statuses]]
    BY DEF IInv, TypeOK
  <2> QED BY <1>1, <1>2, <2>1, Authors
<1>5. CallInv' /\ \A n \in Msgs : Launched(n) <=> Launched(n)'
  BY <1>1, <1>4 DEF IInv, CallInv, Launched
<1>6. /\ wire' \in [Conns -> [Devices -> Seq(Packets)]]
      /\ \A c \in Conns, e \in Devices, i \in Nat, q \in Packets :
            InWire(c, e, i, q)' => InWire(c, e, i, q) \/ q = ReadReceipt(m)
  <2>1. CASE send_to(d, ReadReceipt(m))
    BY <1>3, <2>1, Sends DEF IInv
  <2>2. CASE UNCHANGED wire
    BY <2>2 DEF IInv, TypeOK, InWire
  <2> QED BY <1>1, <2>1, <2>2
<1>7. TypeOK'
  <2>1. rows' \in [Devices -> [Msgs -> Statuses]]
    <3>1. rows \in [Devices -> [Msgs -> Statuses]] /\ "read" \in Statuses
      BY DEF IInv, TypeOK, Statuses
    <3>2. CASE rows' = [rows EXCEPT ![d][m] = "read"]
      BY <3>1, <3>2
    <3> QED BY <1>1, <3>1, <3>2
  <2>2. unread' \in [Devices -> SUBSET Msgs]
    BY <1>1 DEF IInv, TypeOK
  <2> QED BY <1>1, <1>6, <2>1, <2>2 DEF net, IInv, TypeOK
<1>8. \A n \in Msgs, c \in Conns, e \in Devices, i \in Nat :
          InWire(c, e, i, Text(n))' => InWire(c, e, i, Text(n))
  BY <1>6, PacketFacts
<1>9. \A e \in Devices, i \in Nat : \A p : InEvents(e, i, p)' <=> InEvents(e, i, p)
  BY <1>1 DEF InEvents
<1>10. WireInv' /\ EventInv' /\ PolledInv'
  BY <1>1, <1>5, <1>8, <1>9 DEF IInv, WireInv, EventInv, PolledInv
<1>11. ReceiptInv'
  <2>1. \A n \in Msgs, c \in Conns, e \in Devices, i \in Nat :
           InWire(c, e, i, ReadReceipt(n))' => InWire(c, e, i, ReadReceipt(n)) \/ n = m
    BY <1>6, PacketFacts
  <2>2. \A e \in Devices : unread'[e] \subseteq unread[e]
    BY <1>1 DEF IInv, TypeOK
  <2> QED BY <1>1, <1>2, <1>9, <2>1, <2>2 DEF IInv, ReceiptInv
<1> QED BY <1>5, <1>7, <1>10, <1>11 DEF IInv

-----------------------------------------------------------------------------
(* Dispatching and polling                                                 *)

LEMMA DispatchKeeps ==
    ASSUME IInv, NEW c \in Conns, NEW d \in Devices, Dispatch(c, d)
    PROVE  IInv'
<1>1. PICK e \in Devices : e = Peer(d)
  BY TwoDevices
<1>2. PICK p : p = Head(wire[c][e])
  OBVIOUS
<1>3. /\ UNCHANGED <<store, call, via, net, ui, faults>>
      /\ wire[c][e] # << >>
      /\ events' = [events EXCEPT ![d] = Append(@, p)]
      /\ wire' = [wire EXCEPT ![c][e] = Tail(@)]
  BY <1>1, <1>2 DEF Dispatch
<1>4. UNCHANGED <<rows, call, via, bubble, unread, seen, missed>>
  BY <1>3 DEF store, ui
<1>5. /\ wire[c][e] \in Seq(Packets) /\ Tail(wire[c][e]) \in Seq(Packets)
      /\ p \in Packets /\ InWire(c, e, 1, p)
      /\ events[d] \in Seq(Packets) /\ Append(events[d], p) \in Seq(Packets)
  BY <1>2, <1>3 DEF IInv, TypeOK, InWire
<1>6. TypeOK'
  <2>1. wire' \in [Conns -> [Devices -> Seq(Packets)]] /\ events' \in [Devices -> Seq(Packets)]
    BY <1>3, <1>5 DEF IInv, TypeOK
  <2> QED BY <1>3, <2>1 DEF store, net, ui, IInv, TypeOK
<1>7. ASSUME NEW b \in Conns, NEW f \in Devices, NEW i \in Nat, NEW q, InWire(b, f, i, q)'
      PROVE  \/ b = c /\ f = e /\ InWire(b, f, i + 1, q)
             \/ ~ (b = c /\ f = e) /\ InWire(b, f, i, q)
  <2>1. CASE b = c /\ f = e
    <3>1. wire'[b][f] = Tail(wire[b][f])
      BY <1>3, <2>1 DEF IInv, TypeOK
    <3>2. wire'[b][f][i] = q /\ i \in 1 .. Len(wire'[b][f])
      BY <1>7 DEF InWire
    <3>3. /\ Len(Tail(wire[c][e])) = Len(wire[c][e]) - 1 /\ Len(wire[c][e]) \in Nat
          /\ \A k \in 1 .. Len(Tail(wire[c][e])) : Tail(wire[c][e])[k] = wire[c][e][k + 1]
      BY <1>3, <1>5
    <3>4. i + 1 \in 1 .. Len(wire[c][e]) /\ wire[c][e][i + 1] = q
      BY <2>1, <3>1, <3>2, <3>3
    <3> QED BY <2>1, <3>4 DEF InWire
  <2>2. CASE ~ (b = c /\ f = e)
    <3>1. wire'[b][f] = wire[b][f]
      BY <1>3, <2>2 DEF IInv, TypeOK
    <3> QED BY <1>7, <2>2, <3>1 DEF InWire
  <2> QED BY <2>1, <2>2
<1>8. ASSUME NEW f \in Devices, NEW i \in Nat, NEW q, InEvents(f, i, q)'
      PROVE  InEvents(f, i, q) \/ (f = d /\ q = p)
  <2>1. CASE f = d
    <3>1. events'[f] = Append(events[f], p)
      BY <1>3, <2>1 DEF IInv, TypeOK
    <3>2. events'[f][i] = q /\ i \in 1 .. Len(events'[f])
      BY <1>8 DEF InEvents
    <3> QED BY <1>5, <2>1, <3>1, <3>2 DEF InEvents
  <2>2. CASE f # d
    <3>1. events'[f] = events[f]
      BY <1>3, <2>2 DEF IInv, TypeOK
    <3> QED BY <1>8, <3>1 DEF InEvents
  <2> QED BY <2>1, <2>2
<1>9. CallInv' /\ PolledInv' /\ \A n \in Msgs : Launched(n) <=> Launched(n)'
  BY <1>4 DEF IInv, CallInv, PolledInv, Launched
<1>10. WireInv'
  <2> SUFFICES ASSUME NEW n \in Msgs, NEW b \in Conns, NEW f \in Devices, NEW i \in Nat,
                      InWire(b, f, i, Text(n))'
               PROVE  /\ f = Author[n] /\ b = via'[n]
                      /\ Launched(n)'
                      /\ n \notin seen' \cup missed'
                      /\ \A j \in Nat : InWire(b, f, j, Text(n))' => j = i
    BY DEF WireInv
  <2>1. CASE b = c /\ f = e
    <3>1. \A j \in Nat : InWire(b, f, j, Text(n))' => InWire(b, f, j + 1, Text(n))
      BY <1>7, <2>1
    <3>2. i + 1 \in Nat /\ InWire(b, f, i + 1, Text(n))
      BY <3>1
    <3>3. \A j \in Nat : InWire(b, f, j + 1, Text(n)) => j + 1 = i + 1
      BY <3>2 DEF IInv, WireInv
    <3> QED BY <1>4, <1>9, <3>1, <3>2, <3>3 DEF IInv, WireInv
  <2>2. CASE ~ (b = c /\ f = e)
    <3>1. \A j \in Nat : InWire(b, f, j, Text(n))' => InWire(b, f, j, Text(n))
      BY <1>7, <2>2
    <3> QED BY <1>4, <1>9, <3>1 DEF IInv, WireInv
  <2> QED BY <2>1, <2>2
<1>11. EventInv'
  <2> SUFFICES ASSUME NEW n \in Msgs, NEW f \in Devices, NEW i \in Nat,
                      InEvents(f, i, Text(n))'
               PROVE  /\ f = Recipient(n)
                      /\ Launched(n)'
                      /\ n \notin seen' \cup missed'
                      /\ \A b \in Conns, g \in Devices, j \in Nat :
                            ~ InWire(b, g, j, Text(n))'
    BY DEF EventInv
  <2>1. CASE InEvents(f, i, Text(n))
    <3>1. \A b \in Conns, g \in Devices, j \in Nat : ~ InWire(b, g, j, Text(n))
      BY <2>1 DEF IInv, EventInv
    <3>2. \A b \in Conns, g \in Devices, j \in Nat : ~ InWire(b, g, j, Text(n))'
      BY <1>7, <3>1
    <3> QED BY <1>4, <1>9, <2>1, <3>2 DEF IInv, EventInv
  <2>2. CASE f = d /\ Text(n) = p
    <3>1. /\ e = Author[n] /\ c = via[n] /\ Launched(n) /\ n \notin seen \cup missed
          /\ \A j \in Nat : InWire(c, e, j, Text(n)) => j = 1
      BY <1>5, <2>2 DEF IInv, WireInv
    <3>2. d = Recipient(n)
      BY <1>1, <3>1, TwoDevices DEF Recipient
    <3>3. ASSUME NEW b \in Conns, NEW g \in Devices, NEW j \in Nat, InWire(b, g, j, Text(n))'
          PROVE  FALSE
      <4>1. CASE b = c /\ g = e
        <5>1. InWire(c, e, j + 1, Text(n)) /\ j + 1 \in Nat
          BY <1>7, <3>3, <4>1
        <5>2. j >= 1
          BY <3>3 DEF InWire
        <5>3. j + 1 = 1
          BY <3>1, <5>1
        <5> QED BY <5>2, <5>3
      <4>2. CASE ~ (b = c /\ g = e)
        <5>1. InWire(b, g, j, Text(n))
          BY <1>7, <3>3, <4>2
        <5>2. g = Author[n] /\ b = via[n]
          BY <5>1 DEF IInv, WireInv
        <5> QED BY <3>1, <4>2, <5>2
      <4> QED BY <4>1, <4>2
    <3> QED BY <1>4, <1>9, <2>2, <3>1, <3>2, <3>3
  <2> QED BY <1>8, <2>1, <2>2
<1>12. ReceiptInv'
  <2>1. \A n \in Msgs, b \in Conns, f \in Devices, i \in Nat :
           InWire(b, f, i, ReadReceipt(n))' => n \in seen
    BY <1>7 DEF IInv, ReceiptInv
  <2>2. \A n \in Msgs, f \in Devices, i \in Nat :
           InEvents(f, i, ReadReceipt(n))' => n \in seen
    BY <1>5, <1>8 DEF IInv, ReceiptInv
  <2> QED BY <1>4, <2>1, <2>2 DEF IInv, ReceiptInv
<1> QED BY <1>6, <1>9, <1>10, <1>11, <1>12 DEF IInv

\* What the page takes from a queue are the packets in it.
LEMMA Queued ==
    ASSUME TypeOK, NEW d \in Devices
    PROVE  /\ \A m \in TextsOf(events[d]) :
                 m \in Msgs /\ \E i \in Nat : InEvents(d, i, Text(m))
           /\ \A m \in ReceiptsOf(events[d]) :
                 m \in Msgs /\ \E i \in Nat : InEvents(d, i, ReadReceipt(m))
<1>1. events[d] \in Seq(Packets) /\ DOMAIN events[d] = 1 .. Len(events[d])
  BY DEF TypeOK
<1>2. ASSUME NEW m \in TextsOf(events[d])
      PROVE  m \in Msgs /\ \E i \in Nat : InEvents(d, i, Text(m))
  <2>1. PICK i \in 1 .. Len(events[d]) : events[d][i].kind = "Text" /\ m = events[d][i].m
    BY <1>1, <1>2 DEF TextsOf
  <2>2. events[d][i] \in Packets
    BY <1>1
  <2>3. m \in Msgs /\ events[d][i] = Text(m)
    BY <2>1, <2>2 DEF Packets, Text
  <2> QED BY <1>1, <2>3 DEF InEvents
<1>3. ASSUME NEW m \in ReceiptsOf(events[d])
      PROVE  m \in Msgs /\ \E i \in Nat : InEvents(d, i, ReadReceipt(m))
  <2>1. PICK i \in 1 .. Len(events[d]) :
           events[d][i].kind = "ReadReceipt" /\ m = events[d][i].m
    BY <1>1, <1>3 DEF ReceiptsOf
  <2>2. events[d][i] \in Packets
    BY <1>1
  <2>3. m \in Msgs /\ events[d][i] = ReadReceipt(m)
    BY <2>1, <2>2 DEF Packets, ReadReceipt
  <2> QED BY <1>1, <2>3 DEF InEvents
<1> QED BY <1>2, <1>3

LEMMA PollKeeps == ASSUME IInv, NEW d \in Devices, poll_events(d) PROVE IInv'
<1> DEFINE texts == TextsOf(events[d])
           new == IF d \in open THEN texts ELSE {}
<1>1. /\ UNCHANGED <<store, call, via, net, wire, open, faults>>
      /\ events' = [events EXCEPT ![d] = << >>]
      /\ bubble' = [bubble EXCEPT ![d] =
             [m \in Msgs |-> IF m \in new THEN "delivered"
                             ELSE IF m \in ReceiptsOf(events[d]) /\ bubble[d][m] # "none"
                             THEN "read" ELSE bubble[d][m]]]
      /\ unread' = [unread EXCEPT ![d] = @ \cup new]
      /\ seen' = seen \cup new
      /\ missed' = missed \cup (texts \ new)
  BY DEF poll_events
<1>2. UNCHANGED <<rows, call, via, wire>>
  BY <1>1 DEF store
<1>3. \A m \in texts :
          /\ m \in Msgs /\ d = Recipient(m) /\ Launched(m)
          /\ \A c \in Conns, e \in Devices, i \in Nat : ~ InWire(c, e, i, Text(m))
  BY Queued DEF IInv, EventInv
<1>4. \A m \in ReceiptsOf(events[d]) : m \in seen
  BY Queued DEF IInv, ReceiptInv
<1>5. new \subseteq texts
  OBVIOUS
<1> HIDE DEF texts, new
<1>6. TypeOK'
  <2>1. events' \in [Devices -> Seq(Packets)]
    BY <1>1 DEF IInv, TypeOK
  <2>2. bubble' \in [Devices -> [Msgs -> Statuses]]
    BY <1>1 DEF IInv, TypeOK, Statuses
  <2>3. /\ unread' \in [Devices -> SUBSET Msgs]
        /\ seen' \subseteq Msgs /\ missed' \subseteq Msgs
    BY <1>1, <1>3, <1>5 DEF IInv, TypeOK
  <2> QED BY <1>1, <2>1, <2>2, <2>3 DEF store, net, IInv, TypeOK
<1>7. /\ \A c \in Conns, e \in Devices, i \in Nat : \A p : InWire(c, e, i, p)' <=> InWire(c, e, i, p)
      /\ CallInv' /\ \A m \in Msgs : Launched(m) <=> Launched(m)'
  BY <1>2 DEF InWire, IInv, CallInv, Launched
<1>8. ASSUME NEW e \in Devices, NEW i \in Nat, NEW p, InEvents(e, i, p)'
      PROVE  e # d /\ InEvents(e, i, p)
  <2>1. events'[e] # << >>
    BY <1>8 DEF InEvents
  <2>2. e # d /\ events'[e] = events[e]
    BY <1>1, <2>1 DEF IInv, TypeOK
  <2> QED BY <1>8, <2>2 DEF InEvents
<1>9. seen' \cup missed' = seen \cup missed \cup texts
  BY <1>1, <1>5
<1>10. WireInv'
  <2>1. \A m \in Msgs, c \in Conns, e \in Devices, i \in Nat :
           InWire(c, e, i, Text(m)) => m \notin texts
    BY <1>3
  <2> QED BY <1>2, <1>7, <1>9, <2>1 DEF IInv, WireInv
<1>11. EventInv'
  <2>1. \A m \in Msgs, e \in Devices, i \in Nat : InEvents(e, i, Text(m))' => m \notin texts
    BY <1>3, <1>8 DEF IInv, EventInv
  <2> QED BY <1>7, <1>8, <1>9, <2>1 DEF IInv, EventInv
<1>12. PolledInv'
  BY <1>3, <1>7, <1>9 DEF IInv, PolledInv
<1>13. ReceiptInv'
  <2>1. \A m \in Msgs, e \in Devices : m \in unread'[e] => m \in seen' /\ e = Recipient(m)
    BY <1>1, <1>3, <1>5 DEF IInv, TypeOK, ReceiptInv
  <2>2. \A m \in Msgs : bubble'[Author[m]][m] = "read" => m \in seen'
    <3> TAKE m \in Msgs
    <3>1. CASE Author[m] = d
      BY <1>1, <1>4, <3>1 DEF IInv, TypeOK, ReceiptInv
    <3>2. CASE Author[m] # d
      BY <1>1, <3>2, Authors DEF IInv, TypeOK, ReceiptInv
    <3> QED BY <3>1, <3>2
  <2>3. \A m \in Msgs, c \in Conns, e \in Devices, i \in Nat :
           InWire(c, e, i, ReadReceipt(m))' => m \in seen'
    BY <1>1, <1>7 DEF IInv, ReceiptInv
  <2>4. \A m \in Msgs, e \in Devices, i \in Nat : InEvents(e, i, ReadReceipt(m))' => m \in seen'
    BY <1>1, <1>8 DEF IInv, ReceiptInv
  <2> QED BY <2>1, <2>2, <2>3, <2>4 DEF ReceiptInv
<1> QED BY <1>6, <1>7, <1>10, <1>11, <1>12, <1>13 DEF IInv

-----------------------------------------------------------------------------
LEMMA NextKeeps == ASSUME IInv, [Next]_vars PROVE IInv'
<1>1. CASE Next
  BY <1>1, ConnectionKeeps, CrashKeeps, CallKeeps, PageKeeps, TransmitKeeps, MarkReadKeeps,
     DispatchKeeps, PollKeeps DEF Next
<1>2. CASE UNCHANGED vars
  <2>1. UNCHANGED <<rows, call, via, wire, events, bubble, unread, seen, missed>>
    BY <1>2 DEF vars, store, ui
  <2>2. TypeOK' /\ CallInv' /\ \A m \in Msgs : Launched(m) => Launched(m)'
    BY <1>2 DEF vars, store, net, ui, IInv, TypeOK, CallInv, Launched
  <2>3. /\ \A c \in Conns, d \in Devices, i \in Nat, p \in Packets :
              InWire(c, d, i, p)' => InWire(c, d, i, p)
        /\ \A d \in Devices, i \in Nat, p \in Packets : InEvents(d, i, p)' => InEvents(d, i, p)
    BY <2>1 DEF InWire, InEvents
  <2> QED BY <2>1, <2>2, <2>3, QuietKeeps
<1> QED BY <1>1, <1>2

\* IInv holds in every state of every behaviour.
THEOREM InductiveInvariant == Spec => []IInv
BY InitHolds, NextKeeps, PTL DEF Spec

\* The tables, connections, queues and pages keep their types, and a row of
\* `conversations` refers to one of `devices` (storage.rs), for every number of
\* texts, connections and faults.
THEOREM TypeCorrect == Spec => []TypeOK
<1>1. IInv => TypeOK
  BY DEF IInv
<1> QED BY <1>1, InductiveInvariant, PTL

\* A text that has left its author is in the author's tables
\* (send_text_message).
THEOREM SentTextsAreStored == Spec => []SentIsStored
<1>1. ASSUME IInv, NEW m \in Msgs, Text(m) \in OnTheWay \/ m \in seen \cup missed
      PROVE  rows[Author[m]][m] # "none"
  <2>1. CASE Text(m) \in OnTheWay
    BY <1>1, <2>1, WhereOnTheWay DEF IInv, WireInv, EventInv, Launched
  <2>2. CASE m \in seen \cup missed
    BY <1>1, <2>2 DEF IInv, PolledInv, Launched
  <2> QED BY <1>1, <2>1, <2>2
<1>2. IInv => SentIsStored
  BY <1>1 DEF SentIsStored
<1> QED BY <1>2, InductiveInvariant, PTL

\* A text that was polled is not on its way again (dispatch_incoming,
\* poll_events).
THEOREM TextsComeOnce == Spec => []TextComesOnce
<1>1. ASSUME IInv, NEW m \in Msgs, m \in seen \cup missed, Text(m) \in OnTheWay
      PROVE  FALSE
  BY <1>1, WhereOnTheWay DEF IInv, WireInv, EventInv
<1>2. IInv => TextComesOnce
  BY <1>1 DEF TextComesOnce
<1> QED BY <1>2, InductiveInvariant, PTL

\* A receipt names a text that was rendered at the peer and is in the author's
\* tables (mark_message_read).
THEOREM ReceiptsAreTrue == Spec => []ReceiptIsTrue
<1>1. ASSUME IInv, NEW m \in Msgs,
             ReadReceipt(m) \in OnTheWay \/ bubble[Author[m]][m] = "read"
      PROVE  m \in seen /\ rows[Author[m]][m] # "none"
  <2>1. m \in seen
    <3>1. CASE ReadReceipt(m) \in OnTheWay
      BY <1>1, <3>1, WhereOnTheWay DEF IInv, ReceiptInv
    <3>2. CASE bubble[Author[m]][m] = "read"
      BY <1>1, <3>2 DEF IInv, ReceiptInv
    <3> QED BY <1>1, <3>1, <3>2
  <2> QED BY <1>1, <2>1 DEF IInv, PolledInv, Launched
<1>2. IInv => ReceiptIsTrue
  BY <1>1 DEF ReceiptIsTrue
<1> QED BY <1>2, InductiveInvariant, PTL

=============================================================================
