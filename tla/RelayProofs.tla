---------------------------- MODULE RelayProofs ----------------------------
(***************************************************************************)
(* Theorems about Relay: type correctness, that the handshakes through the *)
(* relay stay in step, that relay sessions are authentic and that each     *)
(* direction implements OrderedPrefix, for every number of devices,        *)
(* sessions, frames and faults.                                            *)
(*                                                                         *)
(* The invariant comes in three layers, each of them proved with the help  *)
(* of those before it: who may have what in which queue (PlaceInv), that a *)
(* relay is requested and announced at most once (OnceInv), and how the    *)
(* stages of two tasks fit each other and what is under way between them   *)
(* (HandshakeInv).                                                         *)
(***************************************************************************)
EXTENDS Relay, TLAPS

\* Message or event e is the k-th in the queue of d to the server, or from it;
\* m is the k-th payload in the channel of d's handshake i.
OutAt(d, k, e) == k \in 1 .. Len(out[d]) /\ out[d][k] = e
InAt(d, k, e) == k \in 1 .. Len(inbox[d]) /\ inbox[d][k] = e
ChanAt(d, i, k, m) == k \in 1 .. Len(chan[d][i]) /\ chan[d][i][k] = m

(* First layer *)

\* What a device sends is about its own sessions, ...
OutOK(d, e) ==
    /\ e.type \in {"OfferCandidates", "CandidateResult", "RequestRelay", "RelayData"}
    /\ e.sid \in Sids /\ d \in party[e.sid]
    /\ e.type = "RelayData" => e.arg \in Payloads
    /\ \A n \in Nat : e.type = "RelayData" /\ e.arg = Frame(n) => n < enc[d][e.sid]

OutInv ==
    \A d \in Devices, k \in Nat, e \in Events : OutAt(d, k, e) => OutOK(d, e)

\* ... and so is what it receives.
InOK(d, e) ==
    /\ e.type \in {"IncomingCandidates", "CandidateResult", "RelayReady", "RelayData",
                   "RelayClosed", "Disconnected"}
    /\ e.type # "Disconnected" => e.sid \in Sids /\ d \in party[e.sid]
    /\ e.type = "IncomingCandidates" => \E p \in Devices : e.arg = Named(p)
    /\ e.type = "RelayReady" => e.arg = None
    /\ e.type = "RelayData" => e.arg \in Payloads
    /\ \A n \in Nat : e.type = "RelayData" /\ e.arg = Frame(n) =>
          n < enc[Peer(d, e.sid)][e.sid]

InInv ==
    \A d \in Devices, k \in Nat, e \in Events : InAt(d, k, e) => InOK(d, e)

\* A session has two parties, and nobody else has a part in it.
PartyInv ==
    /\ \A i \in Sids : \/ party[i] = {}
                       \/ \E a, b \in Devices : a # b /\ party[i] = {a, b}
    /\ \A i \in Sids : asked[i] \subseteq party[i]
    /\ \A d \in Devices, i \in Sids : d \notin party[i] =>
          /\ hs[d][i] = "none" /\ chan[d][i] = <<>>
          /\ enc[d][i] = 0 /\ dec[d][i] = 0 /\ hand[d] # i
    /\ \A d, p \in Devices : sessions[d][p] # None => d \in party[sessions[d][p]]
    /\ \A d \in Devices, i \in Sids, n \in Nat : <<i, n>> \in held[d] =>
          d \in party[i] /\ n < enc[d][i]
    /\ \A d \in Devices, i \in Sids : hand[d] = i => dec[d][i] > 0

PlaceInv == TypeOK /\ OutInv /\ InInv /\ PartyInv

(* Second layer *)

\* The messages that lead to a relay, of which a session has one at a time.
IsToken(e, i) ==
    /\ e.type \in {"OfferCandidates", "IncomingCandidates", "CandidateResult", "RequestRelay"}
    /\ e.sid = i

\* One is at place q, position k of device d: in its inbox or its queue to the
\* server.
TokenAt(i, q, d, k) ==
    \E e \in Events : /\ IsToken(e, i)
                      /\ (q = 1 /\ InAt(d, k, e)) \/ (q = 2 /\ OutAt(d, k, e))

TokenOK(i) ==
    \A q \in 1 .. 2, d \in Devices, k \in Nat : TokenAt(i, q, d, k) =>
        /\ asked[i] = {}
        /\ \A r \in 1 .. 2, f \in Devices, l \in Nat :
              TokenAt(i, r, f, l) => q = r /\ d = f /\ k = l

TokenInv == \A i \in Sids : TokenOK(i)

\* Without a request there is no relay and no handshake.
AskedInv ==
    \A i \in Sids : asked[i] = {} =>
        i \notin relayed /\ \A d \in Devices : hs[d][i] = "none"

\* A relay is announced to a device once, before its handshake.
ReadyInv ==
    \A d \in Devices, i \in Sids, k \in Nat :
        InAt(d, k, Event("RelayReady", i, None)) =>
            /\ asked[i] # {} /\ hs[d][i] = "none"
            /\ d \in linked \/ <<d, i>> \in cut
            /\ \A l \in Nat : InAt(d, l, Event("RelayReady", i, None)) => l = k

OnceInv == TokenInv /\ AskedInv /\ ReadyInv

(* Third layer *)

Started == {"wait1", "wait2", "wait3", "check", "verified", "done", "failed"}
Proved == {"check", "verified", "done", "failed"}

\* Payload m of session i is on its way to d at place q, position k: in the
\* channel, in the inbox, or in the other device's queue to the server.
Item(d, i, q, k, m) ==
    \/ q = 1 /\ ChanAt(d, i, k, m)
    \/ q = 2 /\ InAt(d, k, Event("RelayData", i, m))
    \/ q = 3 /\ OutAt(Peer(d, i), k, Event("RelayData", i, m))

Before(q, k, r, l) == q < r \/ (q = r /\ k < l)

UnderWay(d, i, m) == \E q \in 1 .. 3, k \in Nat : Item(d, i, q, k, m)

OnlyOne(d, i, m) ==
    \A q, r \in 1 .. 3, k, l \in Nat :
        Item(d, i, q, k, m) /\ Item(d, i, r, l, m) => q = r /\ k = l

Nonces == 0 .. MaxFrames - 1

\* Message 3 is ahead of every frame.
Ordered(d, i) ==
    \A q, r \in 1 .. 3, k, l \in Nat, n \in Nonces :
        Item(d, i, q, k, Shake(3)) /\ Item(d, i, r, l, Frame(n)) => Before(q, k, r, l)

\* The stages of the task of d, and how they fit those of its peer.
StageOK(d, i, p) ==
    /\ is_initiator(d, p) => hs[d][i] \notin {"wait1", "wait3"}
    /\ is_initiator(p, d) => hs[d][i] # "wait2"
    /\ is_initiator(d, p) /\ hs[d][i] \in Proved => hs[p][i] \in Proved \cup {"wait3"}
    /\ is_initiator(p, d) /\ hs[d][i] = "wait3" => hs[p][i] \in Proved \cup {"wait2"}
    /\ is_initiator(p, d) /\ hs[d][i] \in Proved => hs[p][i] \in Proved
    /\ hs[d][i] \in {"verified", "done"} => agree
    /\ hs[d][i] = "failed" => ~ agree
    /\ hs[d][i] \in Started /\ i \notin waiters[d] => hs[d][i] \in {"verified", "done"}
    /\ hs[d][i] # "none" => d \in linked \/ <<d, i>> \in cut

StageInv == \A i \in Sids, d \in Devices : d \in party[i] => StageOK(d, i, Peer(d, i))

\* Who has a session with whom, and what that takes.
SessionInv ==
    /\ \A d, p \in Devices : sessions[d][p] # None =>
          /\ party[sessions[d][p]] = {d, p}
          /\ hs[d][sessions[d][p]] = "done"
    /\ \A d \in Devices, i \in Sids, n \in Nat : <<i, n>> \in held[d] => hs[d][i] = "done"

\* Which payloads are on their way to d at which stages: each handshake message
\* once, and message 3 ahead of the frames.
ShakeOK(d, i, p) ==
    /\ UnderWay(d, i, Shake(1)) =>
          /\ is_initiator(p, d) /\ hs[p][i] = "wait2"
          /\ hs[d][i] \in {"none", "spawned", "wait1"}
    /\ UnderWay(d, i, Shake(2)) =>
          is_initiator(d, p) /\ hs[p][i] = "wait3" /\ hs[d][i] = "wait2"
    /\ UnderWay(d, i, Shake(3)) =>
          is_initiator(p, d) /\ hs[p][i] \in Proved /\ hs[d][i] = "wait3"
    /\ \A n \in Nonces : UnderWay(d, i, Frame(n)) => hs[p][i] = "done"
    /\ OnlyOne(d, i, Shake(1)) /\ OnlyOne(d, i, Shake(2)) /\ OnlyOne(d, i, Shake(3))
    /\ Ordered(d, i)

ShakeInv == \A i \in Sids, d \in Devices : d \in party[i] => ShakeOK(d, i, Peer(d, i))

\* Nothing more gets through to either device of session i.
Blocked(i) == i \notin relayed \/ \E d \in party[i] : <<d, i>> \in cut

\* A frame has reached the device of d ahead of the server's next step.
FrameArrived(d, i) ==
    \E q \in 1 .. 2, k \in Nat, n \in Nonces : Item(d, i, q, k, Frame(n))

\* Message 3 is not lost before its session is cut off, and no frame arrives
\* in its place.
ThirdOK(d, i, p) ==
    hs[d][i] = "wait3" /\ hs[p][i] \in Proved /\ (~ Blocked(i) \/ FrameArrived(d, i)) =>
        UnderWay(d, i, Shake(3))

ThirdInv == \A i \in Sids, d \in Devices : d \in party[i] => ThirdOK(d, i, Peer(d, i))

HandshakeInv == StageInv /\ SessionInv /\ ShakeInv /\ ThirdInv

-----------------------------------------------------------------------------
(* Proofs: messages, events and parties *)

\* The payloads differ from one another.
LEMMA PayloadFacts ==
    /\ \A k \in 1 .. 3 : Shake(k) \in Payloads
    /\ \A n \in Nat : n < MaxFrames => Frame(n) \in Payloads
    /\ \A n \in Int : Frame(n) \in Payloads => n \in Nat /\ n < MaxFrames
    /\ \A k, n : Shake(k) # Frame(n)
    /\ \A k, n : Shake(k) = Shake(n) => k = n
    /\ \A k, n : Frame(k) = Frame(n) => k = n
    /\ \A m \in Payloads : \/ m \in {Shake(1), Shake(2), Shake(3)}
                           \/ \E n \in Nat : m = Frame(n)
<1>1. \A k, n : Shake(k) # Frame(n) /\ (Shake(k) = Shake(n) => k = n)
                 /\ (Frame(k) = Frame(n) => k = n)
  BY DEF Shake, Frame
<1>2. MaxFrames \in Nat
  BY RelayAssumption
<1>3. \A n \in Int : Frame(n) \in Payloads => n \in Nat /\ n < MaxFrames
  BY <1>1, <1>2 DEF Payloads
<1> QED
  BY <1>1, <1>2, <1>3 DEF Payloads

\* An event is what its three parts say.
LEMMA EventFacts ==
    ASSUME NEW t, NEW i, NEW a
    PROVE  /\ Event(t, i, a).type = t
           /\ Event(t, i, a).sid = i
           /\ Event(t, i, a).arg = a
  BY DEF Event

LEMMA EventParts ==
    ASSUME NEW e \in Events
    PROVE  e = Event(e.type, e.sid, e.arg)
  BY DEF Event, Events

\* The events that devices and server send are events.
LEMMA EventTypes ==
    /\ \A i \in Sids, p \in Devices :
          /\ Event("OfferCandidates", i, Named(p)) \in Events
          /\ Event("IncomingCandidates", i, Named(p)) \in Events
    /\ \A i \in Sids, yes \in BOOLEAN : Event("CandidateResult", i, Likely(yes)) \in Events
    /\ \A i \in Sids : /\ Event("RequestRelay", i, None) \in Events
                       /\ Event("RelayReady", i, None) \in Events
                       /\ Event("RelayClosed", i, None) \in Events
    /\ \A i \in Sids, m \in Payloads : Event("RelayData", i, m) \in Events
    /\ Event("Disconnected", None, None) \in Events
  BY DEF Event, Events

\* The two parties of a session are each other's peer.
LEMMA PeerFacts ==
    ASSUME PartyInv, NEW i \in Sids, NEW d \in Devices, d \in party[i]
    PROVE  /\ Peer(d, i) \in Devices /\ Peer(d, i) \in party[i] /\ Peer(d, i) # d
           /\ party[i] = {d, Peer(d, i)}
           /\ Peer(Peer(d, i), i) = d
           /\ \A f \in party[i] : f # d => f = Peer(d, i)
<1>1. PICK p \in Devices : p # d /\ party[i] = {d, p}
  BY DEF PartyInv
<1>2. Peer(d, i) = p /\ Peer(p, i) = d
  BY <1>1 DEF Peer
<1> QED
  BY <1>1, <1>2

-----------------------------------------------------------------------------
(* Proofs: how the queues move *)

\* A message is put at the end of the queue to the server, or lost.
LEMMA OutSent ==
    ASSUME TypeOK, NEW d \in Devices, NEW e \in Events, out' = Sent(d, e)
    PROVE  /\ out' \in [Devices -> Seq(Events)]
           /\ \A f \in Devices, k \in Nat, g \in Events :
                 OutAt(f, k, g)' <=>
                    \/ OutAt(f, k, g)
                    \/ f = d /\ k = Len(out[d]) + 1 /\ g = e /\ d \in linked
<1>1. out \in [Devices -> Seq(Events)]
  BY DEF TypeOK
<1>2. CASE d \notin linked
  BY <1>1, <1>2 DEF Sent, OutAt
<1>3. CASE d \in linked
  <2>1. out' = [out EXCEPT ![d] = Append(@, e)]
    BY <1>3 DEF Sent
  <2>2. out'[d] = Append(out[d], e) /\ \A f \in Devices : f # d => out'[f] = out[f]
    BY <1>1, <2>1
  <2>3. /\ out'[d] \in Seq(Events) /\ Len(out'[d]) = Len(out[d]) + 1
        /\ Len(out[d]) \in Nat
        /\ out'[d][Len(out[d]) + 1] = e
        /\ \A k \in 1 .. Len(out[d]) : out'[d][k] = out[d][k]
    BY <1>1, <2>2
  <2>4. out' \in [Devices -> Seq(Events)]
    BY <1>1, <2>1, <2>3
  <2>5. ASSUME NEW f \in Devices, NEW k \in Nat, NEW g \in Events
        PROVE  OutAt(f, k, g)' <=>
                    \/ OutAt(f, k, g)
                    \/ f = d /\ k = Len(out[d]) + 1 /\ g = e /\ d \in linked
    <3>1. CASE f # d
      BY <2>2, <3>1 DEF OutAt
    <3>2. CASE f = d
      BY <1>3, <2>3, <3>2 DEF OutAt
    <3> QED
      BY <3>1, <3>2
  <2> QED
    BY <2>4, <2>5
<1> QED
  BY <1>2, <1>3

\* The server takes the first message of a queue.
LEMMA OutTail ==
    ASSUME TypeOK, NEW d \in Devices, out[d] # <<>>,
           out' = [out EXCEPT ![d] = Tail(@)]
    PROVE  /\ out' \in [Devices -> Seq(Events)]
           /\ Head(out[d]) \in Events /\ OutAt(d, 1, Head(out[d]))
           /\ \A f \in Devices, k \in Nat, g \in Events :
                 OutAt(f, k, g)' <=> IF f = d THEN k > 0 /\ OutAt(d, k + 1, g)
                                     ELSE OutAt(f, k, g)
<1>1. out[d] \in Seq(Events) /\ out \in [Devices -> Seq(Events)]
  BY DEF TypeOK
<1>2. out'[d] = Tail(out[d]) /\ \A f \in Devices : f # d => out'[f] = out[f]
  BY <1>1
<1>3. /\ Tail(out[d]) \in Seq(Events) /\ Len(Tail(out[d])) = Len(out[d]) - 1
      /\ \A k \in 1 .. Len(out[d]) - 1 : Tail(out[d])[k] = out[d][k + 1]
      /\ Len(out[d]) \in Nat /\ Len(out[d]) > 0
      /\ Head(out[d]) = out[d][1] /\ Head(out[d]) \in Events
  BY <1>1
<1>4. out' \in [Devices -> Seq(Events)]
  BY <1>1, <1>3
<1>5. ASSUME NEW f \in Devices, NEW k \in Nat, NEW g \in Events
      PROVE  OutAt(f, k, g)' <=> IF f = d THEN k > 0 /\ OutAt(d, k + 1, g)
                                 ELSE OutAt(f, k, g)
  <2>1. CASE f # d
    BY <1>2, <2>1 DEF OutAt
  <2>2. CASE f = d
    <3>1. k \in 1 .. Len(out[d]) - 1 <=> k > 0 /\ k + 1 \in 1 .. Len(out[d])
      BY <1>3
    <3> QED
      BY <1>2, <1>3, <2>2, <3>1 DEF OutAt
  <2> QED
    BY <2>1, <2>2
<1>6. OutAt(d, 1, Head(out[d]))
  BY <1>3 DEF OutAt
<1> QED
  BY <1>3, <1>4, <1>5, <1>6

\* The event loop takes the first event of its inbox.
LEMMA InTaken ==
    ASSUME TypeOK, NEW d \in Devices, NEW t, Takes(d, t)
    PROVE  /\ inbox' \in [Devices -> Seq(Events)]
           /\ Head(inbox[d]) \in Events /\ InAt(d, 1, Head(inbox[d]))
           /\ Head(inbox[d]).type = t
           /\ \A f \in Devices, k \in Nat, g \in Events :
                 InAt(f, k, g)' <=> IF f = d THEN k > 0 /\ InAt(d, k + 1, g)
                                    ELSE InAt(f, k, g)
<1>1. /\ inbox[d] \in Seq(Events) /\ inbox \in [Devices -> Seq(Events)]
      /\ inbox[d] # <<>> /\ Head(inbox[d]).type = t
      /\ inbox' = [inbox EXCEPT ![d] = Tail(@)]
  BY DEF TypeOK, Takes
<1>2. inbox'[d] = Tail(inbox[d]) /\ \A f \in Devices : f # d => inbox'[f] = inbox[f]
  BY <1>1
<1>3. /\ Tail(inbox[d]) \in Seq(Events) /\ Len(Tail(inbox[d])) = Len(inbox[d]) - 1
      /\ \A k \in 1 .. Len(inbox[d]) - 1 : Tail(inbox[d])[k] = inbox[d][k + 1]
      /\ Len(inbox[d]) \in Nat /\ Len(inbox[d]) > 0
      /\ Head(inbox[d]) = inbox[d][1] /\ Head(inbox[d]) \in Events
  BY <1>1
<1>4. inbox' \in [Devices -> Seq(Events)]
  BY <1>1, <1>3
<1>5. ASSUME NEW f \in Devices, NEW k \in Nat, NEW g \in Events
      PROVE  InAt(f, k, g)' <=> IF f = d THEN k > 0 /\ InAt(d, k + 1, g)
                                ELSE InAt(f, k, g)
  <2>1. CASE f # d
    BY <1>2, <2>1 DEF InAt
  <2>2. CASE f = d
    <3>1. k \in 1 .. Len(inbox[d]) - 1 <=> k > 0 /\ k + 1 \in 1 .. Len(inbox[d])
      BY <1>3
    <3> QED
      BY <1>2, <1>3, <2>2, <3>1 DEF InAt
  <2> QED
    BY <2>1, <2>2
<1>6. InAt(d, 1, Head(inbox[d]))
  BY <1>3 DEF InAt
<1> QED
  BY <1>1, <1>3, <1>4, <1>5, <1>6

\* The server puts an event at the end of the inboxes of some devices.
LEMMA InAdded ==
    ASSUME TypeOK, NEW ds, NEW e \in Events, inbox' = ToAll(ds, e)
    PROVE  /\ inbox' \in [Devices -> Seq(Events)]
           /\ \A f \in Devices, k \in Nat, g \in Events :
                 InAt(f, k, g)' <=> \/ InAt(f, k, g)
                                    \/ f \in ds /\ k = Len(inbox[f]) + 1 /\ g = e
<1>1. inbox \in [Devices -> Seq(Events)]
  BY DEF TypeOK
<1>2. \A f \in Devices : inbox'[f] = IF f \in ds THEN Append(inbox[f], e) ELSE inbox[f]
  BY DEF ToAll
<1>3. ASSUME NEW f \in Devices
      PROVE  /\ Append(inbox[f], e) \in Seq(Events)
             /\ Len(Append(inbox[f], e)) = Len(inbox[f]) + 1 /\ Len(inbox[f]) \in Nat
             /\ Append(inbox[f], e)[Len(inbox[f]) + 1] = e
             /\ \A k \in 1 .. Len(inbox[f]) : Append(inbox[f], e)[k] = inbox[f][k]
  BY <1>1
<1>4. inbox' \in [Devices -> Seq(Events)]
  BY <1>1, <1>3 DEF ToAll
<1>5. ASSUME NEW f \in Devices, NEW k \in Nat, NEW g \in Events
      PROVE  InAt(f, k, g)' <=> \/ InAt(f, k, g)
                                \/ f \in ds /\ k = Len(inbox[f]) + 1 /\ g = e
  <2>1. CASE f \notin ds
    BY <1>2, <2>1 DEF InAt
  <2>2. CASE f \in ds
    <3>1. inbox'[f] = Append(inbox[f], e)
      BY <1>2, <2>2
    <3>2. k \in 1 .. Len(inbox[f]) + 1 <=> k \in 1 .. Len(inbox[f]) \/ k = Len(inbox[f]) + 1
      BY <1>3
    <3> QED
      BY <1>3, <2>2, <3>1, <3>2 DEF InAt
  <2> QED
    BY <2>1, <2>2
<1> QED
  BY <1>4, <1>5

\* The loop puts a payload at the end of a channel.
LEMMA ChanAdded ==
    ASSUME TypeOK, NEW d \in Devices, NEW i \in Sids, NEW m \in Payloads,
           chan' = [chan EXCEPT ![d][i] = Append(@, m)]
    PROVE  /\ chan' \in [Devices -> [Sids -> Seq(Payloads)]]
           /\ \A f \in Devices, j \in Sids : f # d \/ j # i => chan'[f][j] = chan[f][j]
           /\ \A f \in Devices, j \in Sids, k \in Nat, x \in Payloads :
                 ChanAt(f, j, k, x)' <=>
                    \/ ChanAt(f, j, k, x)
                    \/ f = d /\ j = i /\ k = Len(chan[d][i]) + 1 /\ x = m
<1>1. chan \in [Devices -> [Sids -> Seq(Payloads)]] /\ chan[d][i] \in Seq(Payloads)
  BY DEF TypeOK
<1>2. /\ chan'[d][i] = Append(chan[d][i], m)
      /\ \A f \in Devices, j \in Sids : f # d \/ j # i => chan'[f][j] = chan[f][j]
  BY <1>1
<1>3. /\ Append(chan[d][i], m) \in Seq(Payloads)
      /\ Len(Append(chan[d][i], m)) = Len(chan[d][i]) + 1 /\ Len(chan[d][i]) \in Nat
      /\ Append(chan[d][i], m)[Len(chan[d][i]) + 1] = m
      /\ \A k \in 1 .. Len(chan[d][i]) : Append(chan[d][i], m)[k] = chan[d][i][k]
  BY <1>1
<1>4. chan' \in [Devices -> [Sids -> Seq(Payloads)]]
  <2>1. [chan[d] EXCEPT ![i] = Append(chan[d][i], m)] \in [Sids -> Seq(Payloads)]
    BY <1>1, <1>3
  <2> QED
    BY <1>1, <2>1
<1>5. ASSUME NEW f \in Devices, NEW j \in Sids, NEW k \in Nat, NEW x \in Payloads
      PROVE  ChanAt(f, j, k, x)' <=>
                    \/ ChanAt(f, j, k, x)
                    \/ f = d /\ j = i /\ k = Len(chan[d][i]) + 1 /\ x = m
  <2>1. CASE f # d \/ j # i
    BY <1>2, <2>1 DEF ChanAt
  <2>2. CASE f = d /\ j = i
    BY <1>2, <1>3, <2>2 DEF ChanAt
  <2> QED
    BY <2>1, <2>2
<1> QED
  BY <1>2, <1>4, <1>5

\* A handshake task takes the first payload of its channel.
LEMMA ChanTaken ==
    ASSUME TypeOK, NEW d \in Devices, NEW i \in Sids, NEW s, NEW m,
           Receives(d, i, s, m)
    PROVE  /\ chan' \in [Devices -> [Sids -> Seq(Payloads)]]
           /\ m \in Payloads /\ ChanAt(d, i, 1, m)
           /\ \A f \in Devices, j \in Sids : f # d \/ j # i => chan'[f][j] = chan[f][j]
           /\ \A f \in Devices, j \in Sids, k \in Nat, x \in Payloads :
                 ChanAt(f, j, k, x)' <=>
                    IF f = d /\ j = i THEN k > 0 /\ ChanAt(d, i, k + 1, x)
                    ELSE ChanAt(f, j, k, x)
<1>1. /\ chan \in [Devices -> [Sids -> Seq(Payloads)]] /\ chan[d][i] \in Seq(Payloads)
      /\ chan[d][i] # <<>> /\ Head(chan[d][i]) = m
      /\ chan' = [chan EXCEPT ![d][i] = Tail(@)]
  BY DEF TypeOK, Receives
<1>2. /\ chan'[d][i] = Tail(chan[d][i])
      /\ \A f \in Devices, j \in Sids : f # d \/ j # i => chan'[f][j] = chan[f][j]
  BY <1>1
<1>3. /\ Tail(chan[d][i]) \in Seq(Payloads) /\ Len(Tail(chan[d][i])) = Len(chan[d][i]) - 1
      /\ \A k \in 1 .. Len(chan[d][i]) - 1 : Tail(chan[d][i])[k] = chan[d][i][k + 1]
      /\ Len(chan[d][i]) \in Nat /\ Len(chan[d][i]) > 0
      /\ m = chan[d][i][1] /\ m \in Payloads
  BY <1>1
<1>4. chan' \in [Devices -> [Sids -> Seq(Payloads)]]
  <2>1. [chan[d] EXCEPT ![i] = Tail(chan[d][i])] \in [Sids -> Seq(Payloads)]
    BY <1>1, <1>3
  <2> QED
    BY <1>1, <2>1
<1>5. ASSUME NEW f \in Devices, NEW j \in Sids, NEW k \in Nat, NEW x \in Payloads
      PROVE  ChanAt(f, j, k, x)' <=>
                    IF f = d /\ j = i THEN k > 0 /\ ChanAt(d, i, k + 1, x)
                    ELSE ChanAt(f, j, k, x)
  <2>1. CASE f # d \/ j # i
    BY <1>2, <2>1 DEF ChanAt
  <2>2. CASE f = d /\ j = i
    <3>1. k \in 1 .. Len(chan[d][i]) - 1 <=> k > 0 /\ k + 1 \in 1 .. Len(chan[d][i])
      BY <1>3
    <3> QED
      BY <1>2, <1>3, <2>2, <3>1 DEF ChanAt
  <2> QED
    BY <2>1, <2>2
<1>6. ChanAt(d, i, 1, m)
  BY <1>3 DEF ChanAt
<1> QED
  BY <1>2, <1>3, <1>4, <1>5, <1>6

-----------------------------------------------------------------------------
(* Proofs: the first layer *)

\* Whom the server passes a message of d about session i on to.
Others(d, i) == IF d \in Reached(i) THEN Reached(i) \ {d} ELSE {}

\* What the server does with the first message of d: it puts one event, of the
\* same session, in the inboxes of some devices.
LEMMA Forwarding ==
    ASSUME PlaceInv, NEW d \in Devices, ServerForwards(d)
    PROVE  \E m \in Events, e \in Events, ds \in SUBSET Devices :
              /\ m = Head(out[d]) /\ OutAt(d, 1, m) /\ OutOK(d, m)
              /\ e.sid = m.sid
              /\ inbox' = ToAll(ds, e)
              /\ \/ /\ m.type = "OfferCandidates" /\ ds = Others(d, m.sid)
                    /\ e = Event("IncomingCandidates", m.sid, Named(d))
                    /\ UNCHANGED <<asked, relayed>>
                 \/ /\ m.type = "CandidateResult" /\ ds = Others(d, m.sid) /\ e = m
                    /\ UNCHANGED <<asked, relayed>>
                 \/ /\ m.type = "RequestRelay"
                    /\ e = Event("RelayReady", m.sid, None)
                    /\ asked' = [asked EXCEPT ![m.sid] = @ \cup {d}]
                    /\ \/ /\ relayed' = relayed \cup {m.sid}
                          /\ ds = Reached(m.sid) /\ d \in Reached(m.sid)
                       \/ ds = {} /\ UNCHANGED relayed
                 \/ /\ m.type = "RelayData" /\ e = m
                    /\ ds = IF m.sid \in relayed THEN Others(d, m.sid) ELSE {}
                    /\ UNCHANGED <<asked, relayed>>
<1>1. out[d] # <<>> /\ out' = [out EXCEPT ![d] = Tail(@)]
  BY DEF ServerForwards
<1>2. PICK m \in Events : m = Head(out[d]) /\ OutAt(d, 1, m)
  BY <1>1, OutTail DEF PlaceInv
<1>3. OutOK(d, m)
  BY <1>2 DEF PlaceInv, OutInv
<1>4. m.sid \in Sids
  BY <1>3 DEF OutOK
<1>5. Reached(m.sid) \in SUBSET Devices /\ Others(d, m.sid) \in SUBSET Devices
  BY <1>4 DEF Reached, Others, PlaceInv, TypeOK
<1>6. \A e : ToAll({}, e) = inbox
  BY DEF ToAll, PlaceInv, TypeOK
<1>7. CASE /\ m.type = "OfferCandidates"
           /\ inbox' = ToAll(Others(d, m.sid), Event("IncomingCandidates", m.sid, Named(d)))
           /\ UNCHANGED <<asked, relayed>>
  <2>1. /\ Event("IncomingCandidates", m.sid, Named(d)) \in Events
        /\ Event("IncomingCandidates", m.sid, Named(d)).sid = m.sid
    BY <1>4, EventTypes, EventFacts
  <2> QED
    BY <1>2, <1>3, <1>5, <1>7, <2>1
<1>8. CASE /\ m.type = "CandidateResult"
           /\ inbox' = ToAll(Others(d, m.sid), m)
           /\ UNCHANGED <<asked, relayed>>
  BY <1>2, <1>3, <1>5, <1>8
<1>9. CASE /\ m.type = "RequestRelay"
           /\ asked' = [asked EXCEPT ![m.sid] = @ \cup {d}]
           /\ \/ /\ d \in Reached(m.sid)
                 /\ relayed' = relayed \cup {m.sid}
                 /\ inbox' = ToAll(Reached(m.sid), Event("RelayReady", m.sid, None))
              \/ UNCHANGED <<relayed, inbox>>
  <2>1. /\ Event("RelayReady", m.sid, None) \in Events
        /\ Event("RelayReady", m.sid, None).sid = m.sid
    BY <1>4, EventTypes, EventFacts
  <2>2. CASE UNCHANGED <<relayed, inbox>>
    <3>1. inbox' = ToAll({}, Event("RelayReady", m.sid, None))
      BY <1>6, <2>2
    <3>2. {} \in SUBSET Devices
      OBVIOUS
    <3> QED
      BY <1>2, <1>3, <1>9, <2>1, <2>2, <3>1, <3>2
  <2>3. CASE ~ UNCHANGED <<relayed, inbox>>
    BY <1>2, <1>3, <1>5, <1>9, <2>1, <2>3
  <2> QED
    BY <2>2, <2>3
<1>10. CASE /\ m.type = "RelayData"
            /\ inbox' = IF m.sid \in relayed THEN ToAll(Others(d, m.sid), m) ELSE inbox
            /\ UNCHANGED <<asked, relayed>>
  <2>1. inbox' = ToAll(IF m.sid \in relayed THEN Others(d, m.sid) ELSE {}, m)
    BY <1>6, <1>10
  <2>2. (IF m.sid \in relayed THEN Others(d, m.sid) ELSE {}) \in SUBSET Devices
    BY <1>5
  <2> QED
    BY <1>2, <1>3, <1>10, <2>1, <2>2
<1> QED
  BY <1>2, <1>7, <1>8, <1>9, <1>10 DEF ServerForwards, Others

\* The event the loop takes is about a session of its device.
LEMMA TakenEvent ==
    ASSUME PlaceInv, NEW d \in Devices, NEW t, Takes(d, t)
    PROVE  InOK(d, Head(inbox[d])) /\ Head(inbox[d]) \in Events
  BY InTaken DEF PlaceInv, InInv

\* A session of sessions is a session of the device.
LEMMA SessionOfDevice ==
    ASSUME PlaceInv, NEW d \in Devices, NEW i \in Sids,
           i \in {sessions[d][p] : p \in Devices}
    PROVE  d \in party[i]
<1>1. PICK p \in Devices : sessions[d][p] = i
  OBVIOUS
<1>2. sessions[d][p] # None
  BY <1>1, RelayAssumption
<1> QED
  BY <1>1, <1>2 DEF PlaceInv, PartyInv

LEMMA TypeStep ==
    ASSUME PlaceInv, [Next]_vars
    PROVE  TypeOK'
<1> USE DEF PlaceInv, net, noise
<1>0. /\ MaxFrames \in Nat /\ MaxFaults \in Nat /\ None \notin Devices /\ None \notin Sids
  BY RelayAssumption
<1>1. ASSUME NEW d \in Devices, ConnectSignalingServer(d) PROVE TypeOK'
  BY <1>1 DEF ConnectSignalingServer, TypeOK
<1>2. ASSUME NEW d \in Devices, WebSocketDrops(d) PROVE TypeOK'
  <2>1. inbox' \in [Devices -> Seq(Events)] /\ out' \in [Devices -> Seq(Events)]
    BY <1>2, EventTypes DEF WebSocketDrops, TypeOK
  <2>2. cut' \subseteq Devices \X Sids /\ linked' \subseteq Devices
    BY <1>2 DEF WebSocketDrops, TypeOK
  <2>3. faults' \in 0 .. MaxFaults
    BY <1>0, <1>2 DEF WebSocketDrops, TypeOK
  <2> QED
    BY <1>2, <2>1, <2>2, <2>3 DEF WebSocketDrops, TypeOK
<1>3. ASSUME NEW d \in Devices, ServerForwards(d) PROVE TypeOK'
  <2>1. out' \in [Devices -> Seq(Events)]
    BY <1>3, OutTail DEF ServerForwards
  <2>2. PICK m \in Events, e \in Events, ds \in SUBSET Devices :
           /\ OutOK(d, m)
           /\ inbox' = ToAll(ds, e)
           /\ asked' = [asked EXCEPT ![m.sid] = @ \cup {d}] \/ asked' = asked
           /\ relayed' = relayed \cup {m.sid} \/ relayed' = relayed
    BY <1>3, Forwarding
  <2>3. inbox' \in [Devices -> Seq(Events)]
    BY <2>2, InAdded
  <2>4. m.sid \in Sids
    BY <2>2 DEF OutOK
  <2>5. asked' \in [Sids -> SUBSET Devices] /\ relayed' \subseteq Sids
    <3>1. [asked EXCEPT ![m.sid] = @ \cup {d}] \in [Sids -> SUBSET Devices]
      BY <2>4 DEF TypeOK
    <3> QED
      BY <2>2, <2>4, <3>1 DEF TypeOK
  <2> QED
    BY <1>3, <2>1, <2>3, <2>5 DEF ServerForwards, TypeOK
<1>4. ASSUME NEW d \in Devices, OnIncomingCandidates(d) PROVE TypeOK'
  <2>1. inbox' \in [Devices -> Seq(Events)]
    BY <1>4, InTaken DEF OnIncomingCandidates
  <2>2. PICK i \in Sids, p \in Devices :
           i = Head(inbox[d]).sid /\ Head(inbox[d]).arg = Named(p)
    BY <1>4, TakenEvent DEF OnIncomingCandidates, Takes, InOK
  <2>3. /\ tracker' = [tracker EXCEPT ![d][i] = p]
        /\ out' = Sent(d, Event("CandidateResult", i, Likely(sessions[d][p] # None)))
    <3>1. Head(inbox[d]).arg[2] = p
      BY <2>2 DEF Named
    <3> QED
      BY <1>4, <2>2, <3>1, Zenon DEF OnIncomingCandidates
  <2>4. out' \in [Devices -> Seq(Events)]
    <3>1. (sessions[d][p] # None) \in BOOLEAN
      OBVIOUS
    <3>2. Event("CandidateResult", i, Likely(sessions[d][p] # None)) \in Events
      BY <3>1, EventTypes
    <3> QED
      BY <2>3, <3>2, OutSent
  <2>5. tracker' \in [Devices -> [Sids -> Devices \cup {None}]]
    BY <2>3 DEF TypeOK
  <2> QED
    BY <1>4, <2>1, <2>4, <2>5 DEF OnIncomingCandidates, TypeOK
<1>5. ASSUME NEW d \in Devices, OnCandidateResult(d) PROVE TypeOK'
  <2>1. inbox' \in [Devices -> Seq(Events)]
    BY <1>5, InTaken DEF OnCandidateResult
  <2>2. Head(inbox[d]).sid \in Sids
    BY <1>5, TakenEvent DEF OnCandidateResult, Takes, InOK
  <2>3. out' = out \/ out' = Sent(d, Event("RequestRelay", Head(inbox[d]).sid, None))
    BY <1>5 DEF OnCandidateResult
  <2>4. out' \in [Devices -> Seq(Events)]
    BY <2>2, <2>3, OutSent, EventTypes DEF TypeOK
  <2> QED
    BY <1>5, <2>1, <2>4 DEF OnCandidateResult, TypeOK
<1>6. ASSUME NEW d \in Devices, OnRelayReady(d) PROVE TypeOK'
  <2>1. inbox' \in [Devices -> Seq(Events)]
    BY <1>6, InTaken DEF OnRelayReady
  <2>2. Head(inbox[d]).sid \in Sids
    BY <1>6, TakenEvent DEF OnRelayReady, Takes, InOK
  <2>3. hs' = hs \/ hs' = [hs EXCEPT ![d][Head(inbox[d]).sid] = "spawned"]
    BY <1>6 DEF OnRelayReady
  <2>4. hs' \in [Devices -> [Sids -> Stages]]
    <3>1. [hs EXCEPT ![d][Head(inbox[d]).sid] = "spawned"] \in [Devices -> [Sids -> Stages]]
      BY <2>2 DEF TypeOK, Stages
    <3> QED
      BY <2>3, <3>1 DEF TypeOK
  <2> QED
    BY <1>6, <2>1, <2>4 DEF OnRelayReady, TypeOK
<1>7. ASSUME NEW d \in Devices, OnRelayData(d) PROVE TypeOK'
  <2>1. inbox' \in [Devices -> Seq(Events)]
    BY <1>7, InTaken DEF OnRelayData
  <2>2. PICK i \in Sids, m \in Payloads :
           /\ i = Head(inbox[d]).sid /\ m = Head(inbox[d]).arg
    BY <1>7, TakenEvent DEF OnRelayData, Takes, InOK
  <2>3. \/ /\ chan' = [chan EXCEPT ![d][i] = Append(@, m)]
           /\ UNCHANGED <<dec, hand>>
        \/ /\ m = Frame(dec[d][i])
           /\ dec' = [dec EXCEPT ![d][i] = m[2] + 1]
           /\ hand' = [hand EXCEPT ![d] = i]
           /\ UNCHANGED chan
        \/ UNCHANGED <<chan, dec, hand>>
    BY <1>7, <2>2 DEF OnRelayData, TakesFrame
  <2>4. chan' \in [Devices -> [Sids -> Seq(Payloads)]]
    BY <2>3, ChanAdded DEF TypeOK
  <2>5. hand' \in [Devices -> Sids \cup {None}]
    BY <2>3 DEF TypeOK
  <2>6. dec' \in [Devices -> [Sids -> 0 .. MaxFrames]]
    <3>1. CASE m = Frame(dec[d][i]) /\ dec' = [dec EXCEPT ![d][i] = m[2] + 1]
      <4>1. dec[d][i] \in Nat /\ dec[d][i] \in Int /\ m[2] = dec[d][i]
        BY <1>0, <3>1 DEF TypeOK, Frame
      <4>2. dec[d][i] < MaxFrames
        BY <3>1, <4>1, PayloadFacts
      <4>3. m[2] + 1 \in 0 .. MaxFrames
        BY <1>0, <4>1, <4>2
      <4> QED
        BY <3>1, <4>3 DEF TypeOK
    <3> QED
      BY <2>3, <3>1 DEF TypeOK
  <2> QED
    BY <1>7, <2>1, <2>4, <2>5, <2>6 DEF OnRelayData, TypeOK
<1>8. ASSUME NEW d \in Devices, DispatchDone(d) PROVE TypeOK'
  BY <1>8 DEF DispatchDone, TypeOK
<1>9. ASSUME NEW d \in Devices, OnRelayClosed(d) PROVE TypeOK'
  <2>1. inbox' \in [Devices -> Seq(Events)]
    BY <1>9, InTaken DEF OnRelayClosed
  <2>2. Head(inbox[d]).sid \in Sids
    BY <1>9, TakenEvent DEF OnRelayClosed, Takes, InOK
  <2>3. tracker' \in [Devices -> [Sids -> Devices \cup {None}]]
    BY <1>9, <2>2 DEF OnRelayClosed, TypeOK
  <2> QED
    BY <1>9, <2>1, <2>3 DEF OnRelayClosed, TypeOK
<1>10. ASSUME NEW d \in Devices, OnDisconnected(d) PROVE TypeOK'
  <2>1. inbox' \in [Devices -> Seq(Events)]
    BY <1>10, InTaken DEF OnDisconnected
  <2> QED
    BY <1>10, <2>1 DEF OnDisconnected, TypeOK
<1>11. ASSUME NEW d \in Devices, ForwarderSends(d) PROVE TypeOK'
  <2>1. PICK f \in held[d] : /\ held' = [held EXCEPT ![d] = @ \ {f}]
                             /\ out' = Sent(d, Event("RelayData", f[1], Frame(f[2])))
    BY <1>11 DEF ForwarderSends
  <2>2. f[1] \in Sids /\ f[2] \in Nat /\ <<f[1], f[2]>> \in held[d]
    <3>1. held[d] \subseteq Sids \X Nat
      BY DEF TypeOK
    <3> QED
      BY <3>1
  <2>3. f[2] < enc[d][f[1]] /\ enc[d][f[1]] \in 0 .. MaxFrames
    BY <2>2 DEF PartyInv, TypeOK
  <2>4. Frame(f[2]) \in Payloads
    BY <1>0, <2>2, <2>3, PayloadFacts
  <2>5. out' \in [Devices -> Seq(Events)]
    BY <2>1, <2>2, <2>4, OutSent, EventTypes
  <2>6. held' \in [Devices -> SUBSET (Sids \X Nat)]
    BY <2>1 DEF TypeOK
  <2> QED
    BY <1>11, <2>5, <2>6 DEF ForwarderSends, TypeOK
<1>12. ASSUME NEW d \in Devices, NEW p \in Devices, NEW i \in Sids,
              ConnectToPeerViaInternet(d, p, i)
       PROVE  TypeOK'
  <2>1. out' \in [Devices -> Seq(Events)]
    BY <1>12, OutSent, EventTypes DEF ConnectToPeerViaInternet
  <2>2. /\ party' \in [Sids -> SUBSET Devices]
        /\ tracker' \in [Devices -> [Sids -> Devices \cup {None}]]
    BY <1>12 DEF ConnectToPeerViaInternet, TypeOK
  <2> QED
    BY <1>12, <2>1, <2>2 DEF ConnectToPeerViaInternet, TypeOK
<1>13. ASSUME NEW d \in Devices, NEW i \in Sids, HandshakeStarts(d, i) PROVE TypeOK'
  <2>1. out' \in [Devices -> Seq(Events)]
    <3>1. out' = out \/ out' = Sent(d, Event("RelayData", i, Shake(1)))
      BY <1>13 DEF HandshakeStarts
    <3> QED
      <4>1. Event("RelayData", i, Shake(1)) \in Events
        BY EventTypes, PayloadFacts
      <4> QED
        BY <3>1, <4>1, OutSent DEF TypeOK
  <2>2. hs' \in [Devices -> [Sids -> Stages]]
    <3>1. /\ [hs EXCEPT ![d][i] = "wait1"] \in [Devices -> [Sids -> Stages]]
          /\ [hs EXCEPT ![d][i] = "wait2"] \in [Devices -> [Sids -> Stages]]
      BY DEF TypeOK, Stages
    <3> QED
      BY <1>13, <3>1 DEF HandshakeStarts, Goto
  <2>3. waiters' \in [Devices -> SUBSET Sids]
    BY <1>13 DEF HandshakeStarts, TypeOK
  <2> QED
    BY <1>13, <2>1, <2>2, <2>3 DEF HandshakeStarts, TypeOK
<1>14. ASSUME NEW d \in Devices, NEW i \in Sids, ReadsMsg1(d, i) PROVE TypeOK'
  <2>1. out' \in [Devices -> Seq(Events)] /\ chan' \in [Devices -> [Sids -> Seq(Payloads)]]
    BY <1>14, OutSent, ChanTaken, EventTypes, PayloadFacts DEF ReadsMsg1
  <2>2. hs' \in [Devices -> [Sids -> Stages]]
    BY <1>14 DEF ReadsMsg1, Goto, TypeOK, Stages
  <2> QED
    BY <1>14, <2>1, <2>2 DEF ReadsMsg1, TypeOK
<1>15. ASSUME NEW d \in Devices, NEW i \in Sids, ReadsMsg2(d, i) PROVE TypeOK'
  <2>1. out' \in [Devices -> Seq(Events)] /\ chan' \in [Devices -> [Sids -> Seq(Payloads)]]
    BY <1>15, OutSent, ChanTaken, EventTypes, PayloadFacts DEF ReadsMsg2
  <2>2. hs' \in [Devices -> [Sids -> Stages]]
    BY <1>15 DEF ReadsMsg2, Goto, TypeOK, Stages
  <2> QED
    BY <1>15, <2>1, <2>2 DEF ReadsMsg2, TypeOK
<1>16. ASSUME NEW d \in Devices, NEW i \in Sids, ReadsMsg3(d, i) PROVE TypeOK'
  <2>1. chan' \in [Devices -> [Sids -> Seq(Payloads)]]
    BY <1>16, ChanTaken DEF ReadsMsg3
  <2>2. hs' \in [Devices -> [Sids -> Stages]]
    BY <1>16 DEF ReadsMsg3, Goto, TypeOK, Stages
  <2> QED
    BY <1>16, <2>1, <2>2 DEF ReadsMsg3, TypeOK
<1>17. ASSUME NEW d \in Devices, NEW i \in Sids, Verifies(d, i) PROVE TypeOK'
  <2>1. hs' \in [Devices -> [Sids -> Stages]]
    <3>1. /\ [hs EXCEPT ![d][i] = "verified"] \in [Devices -> [Sids -> Stages]]
          /\ [hs EXCEPT ![d][i] = "failed"] \in [Devices -> [Sids -> Stages]]
      BY DEF TypeOK, Stages
    <3> QED
      BY <1>17, <3>1 DEF Verifies, Goto
  <2>2. waiters' \in [Devices -> SUBSET Sids]
    <3>1. [waiters EXCEPT ![d] = @ \ {i}] \in [Devices -> SUBSET Sids]
      BY DEF TypeOK
    <3> QED
      BY <1>17, <3>1 DEF Verifies, TypeOK
  <2> QED
    BY <1>17, <2>1, <2>2 DEF Verifies, TypeOK
<1>18. ASSUME NEW d \in Devices, NEW i \in Sids, Registers(d, i) PROVE TypeOK'
  <2>1. hs' \in [Devices -> [Sids -> Stages]]
    BY <1>18 DEF Registers, Goto, TypeOK, Stages
  <2>2. d \in party[i]
    BY <1>18 DEF Registers, PartyInv
  <2>3. sessions' \in [Devices -> [Devices -> Sids \cup {None}]]
    BY <1>18, <2>2, PeerFacts DEF Registers, TypeOK
  <2> QED
    BY <1>18, <2>1, <2>3 DEF Registers, TypeOK
<1>19. ASSUME NEW d \in Devices, NEW i \in Sids, enc[d][i] < MaxFrames,
              enc' = [enc EXCEPT ![d][i] = @ + 1]
       PROVE  enc' \in [Devices -> [Sids -> 0 .. MaxFrames]] /\ Frame(enc[d][i]) \in Payloads
  <2>1. enc[d][i] \in Nat /\ enc[d][i] + 1 \in 0 .. MaxFrames
    BY <1>0, <1>19 DEF TypeOK
  <2> QED
    BY <1>19, <2>1, PayloadFacts DEF TypeOK
<1>20. ASSUME NEW d \in Devices, NEW i \in Sids, SendMessage(d, i) PROVE TypeOK'
  <2>1. enc' \in [Devices -> [Sids -> 0 .. MaxFrames]] /\ Frame(enc[d][i]) \in Payloads
    BY <1>19, <1>20 DEF SendMessage
  <2>2. out' \in [Devices -> Seq(Events)]
    BY <1>20, <2>1, OutSent, EventTypes DEF SendMessage
  <2> QED
    BY <1>20, <2>1, <2>2 DEF SendMessage, TypeOK
<1>21. ASSUME NEW d \in Devices, NEW i \in Sids, ForwarderEncrypts(d, i) PROVE TypeOK'
  <2>1. enc' \in [Devices -> [Sids -> 0 .. MaxFrames]]
    BY <1>19, <1>21 DEF ForwarderEncrypts
  <2>2. enc[d][i] \in Nat
    BY <1>0 DEF TypeOK
  <2>3. held' \in [Devices -> SUBSET (Sids \X Nat)]
    BY <1>21, <2>2 DEF ForwarderEncrypts, TypeOK
  <2> QED
    BY <1>21, <2>1, <2>3 DEF ForwarderEncrypts, TypeOK
<1>22. ASSUME NEW i \in Sids, ServerCloses(i) PROVE TypeOK'
  <2>1. inbox' \in [Devices -> Seq(Events)]
    BY <1>22, InAdded, EventTypes DEF ServerCloses
  <2>2. faults' \in 0 .. MaxFaults
    BY <1>0, <1>22 DEF ServerCloses, TypeOK
  <2> QED
    BY <1>22, <2>1, <2>2 DEF ServerCloses, TypeOK
<1>23. ASSUME UNCHANGED vars PROVE TypeOK'
  BY <1>23 DEF vars, TypeOK
<1> QED
  BY <1>1, <1>2, <1>3, <1>4, <1>5, <1>6, <1>7, <1>8, <1>9, <1>10, <1>11, <1>12, <1>13,
     <1>14, <1>15, <1>16, <1>17, <1>18, <1>20, <1>21, <1>22, <1>23
     DEF Next, LoopStep, HandshakeStep

\* Parties do not change once they are known, and nonces only grow.
Grows ==
    /\ \A i \in Sids : party[i] # {} => party'[i] = party[i]
    /\ \A d \in Devices, i \in Sids : d \in party[i] =>
          d \in party'[i] /\ Peer(d, i)' = Peer(d, i)
    /\ \A d \in Devices, i \in Sids : enc'[d][i] >= enc[d][i]
    /\ cut \subseteq cut'

LEMMA EveryStepGrows ==
    ASSUME PlaceInv, [Next]_vars
    PROVE  Grows
<1> USE DEF net, noise
<1>1. CASE /\ UNCHANGED <<party, enc, cut>>
  BY <1>1, RelayAssumption DEF Grows, Peer, PlaceInv, TypeOK
<1>2. ASSUME NEW d \in Devices, NEW p \in Devices, NEW i \in Sids,
             ConnectToPeerViaInternet(d, p, i)
      PROVE  /\ \A j \in Sids : party[j] # {} => party'[j] = party[j]
             /\ enc' = enc /\ cut' = cut
  BY <1>2 DEF ConnectToPeerViaInternet, PlaceInv, TypeOK
<1>3. ASSUME NEW d \in Devices, WebSocketDrops(d)
      PROVE  UNCHANGED <<party, enc>> /\ cut \subseteq cut'
  BY <1>3 DEF WebSocketDrops
<1>4. ASSUME NEW d \in Devices, NEW i \in Sids, SendMessage(d, i) \/ ForwarderEncrypts(d, i)
      PROVE  UNCHANGED <<party, cut>> /\ enc' = [enc EXCEPT ![d][i] = @ + 1]
  BY <1>4 DEF SendMessage, ForwarderEncrypts
<1>5. \A d \in Devices, i \in Sids : enc[d][i] \in Nat
  BY RelayAssumption DEF PlaceInv, TypeOK
<1>6. ASSUME NEW d \in Devices, NEW i \in Sids, enc' = [enc EXCEPT ![d][i] = @ + 1]
      PROVE  \A f \in Devices, j \in Sids : enc'[f][j] >= enc[f][j]
  <2> SUFFICES ASSUME NEW f \in Devices, NEW j \in Sids PROVE enc'[f][j] >= enc[f][j]
    OBVIOUS
  <2>1. enc'[f][j] = IF f = d /\ j = i THEN enc[f][j] + 1 ELSE enc[f][j]
    BY <1>6 DEF PlaceInv, TypeOK
  <2> QED
    BY <1>5, <2>1
<1>7. ASSUME \A j \in Sids : party[j] # {} => party'[j] = party[j],
             NEW d \in Devices, NEW i \in Sids, d \in party[i]
      PROVE  d \in party'[i] /\ Peer(d, i)' = Peer(d, i)
  BY <1>7 DEF Peer
<1>8. \A d \in Devices, i \in Sids : enc'= enc => enc'[d][i] >= enc[d][i]
  BY <1>5
<1>9. ASSUME NEW d \in Devices, NEW p \in Devices, NEW i \in Sids,
             ConnectToPeerViaInternet(d, p, i)
      PROVE  Grows
  BY <1>2, <1>7, <1>8, <1>9 DEF Grows
<1>10. ASSUME NEW d \in Devices, WebSocketDrops(d) PROVE Grows
  BY <1>3, <1>7, <1>8, <1>10 DEF Grows
<1>11. ASSUME NEW d \in Devices, NEW i \in Sids, SendMessage(d, i) \/ ForwarderEncrypts(d, i)
       PROVE  Grows
  BY <1>4, <1>6, <1>7, <1>11 DEF Grows
<1>12. ASSUME NEW d \in Devices,
              \/ ConnectSignalingServer(d) \/ ServerForwards(d) \/ ForwarderSends(d)
              \/ LoopStep(d) \/ \E i \in Sids : HandshakeStep(d, i)
       PROVE  UNCHANGED <<party, enc, cut>>
  <2>1. CASE LoopStep(d)
    BY <2>1 DEF LoopStep, OnIncomingCandidates, OnCandidateResult, OnRelayReady,
                OnRelayData, DispatchDone, OnRelayClosed, OnDisconnected
  <2>2. ASSUME NEW i \in Sids, HandshakeStep(d, i) PROVE UNCHANGED <<party, enc, cut>>
    BY <2>2 DEF HandshakeStep, HandshakeStarts, ReadsMsg1, ReadsMsg2, ReadsMsg3, Verifies,
                Registers
  <2>3. CASE ConnectSignalingServer(d) \/ ServerForwards(d) \/ ForwarderSends(d)
    BY <2>3 DEF ConnectSignalingServer, ServerForwards, ForwarderSends
  <2> QED
    BY <1>12, <2>1, <2>2, <2>3
<1>13. ASSUME NEW i \in Sids, ServerCloses(i) PROVE UNCHANGED <<party, enc, cut>>
  BY <1>13 DEF ServerCloses
<1>14. ASSUME UNCHANGED vars PROVE UNCHANGED <<party, enc, cut>>
  BY <1>14 DEF vars
<1> QED
  BY <1>1, <1>9, <1>10, <1>11, <1>12, <1>13, <1>14 DEF Next

LEMMA Monotone ==
    ASSUME PlaceInv, [Next]_vars
    PROVE  /\ \A i \in Sids : party[i] # {} => party'[i] = party[i]
           /\ \A d \in Devices, i \in Sids : d \in party[i] =>
                 d \in party'[i] /\ Peer(d, i)' = Peer(d, i)
           /\ \A d \in Devices, i \in Sids : enc'[d][i] >= enc[d][i]
           /\ cut \subseteq cut'
  BY EveryStepGrows DEF Grows

\* So what may be in a queue may stay there.
LEMMA StaysOK ==
    ASSUME PlaceInv, [Next]_vars, TypeOK', NEW d \in Devices, NEW e \in Events
    PROVE  /\ OutOK(d, e) => OutOK(d, e)'
           /\ InOK(d, e) => InOK(d, e)'
<1>0. \A f \in Devices, i \in Sids : /\ enc[f][i] \in Nat /\ enc'[f][i] \in Nat
                                     /\ enc'[f][i] >= enc[f][i]
  <2>1. \A f \in Devices, i \in Sids : enc[f][i] \in Nat /\ enc'[f][i] \in Nat
    BY RelayAssumption DEF PlaceInv, TypeOK
  <2> QED
    BY <2>1, Monotone
<1>1. ASSUME OutOK(d, e) PROVE OutOK(d, e)'
  <2>1. e.sid \in Sids /\ d \in party'[e.sid]
    BY <1>1, Monotone DEF OutOK
  <2>2. \A n \in Nat : n < enc[d][e.sid] => n < enc'[d][e.sid]
    BY <1>0, <2>1
  <2> QED
    BY <1>1, <2>1, <2>2 DEF OutOK
<1>2. ASSUME InOK(d, e) PROVE InOK(d, e)'
  <2>1. CASE e.type # "RelayData"
    BY <1>2, <2>1, Monotone DEF InOK
  <2>2. CASE e.type = "RelayData"
    <3>1. e.sid \in Sids /\ d \in party[e.sid] /\ d \in party'[e.sid]
      BY <1>2, <2>2, Monotone DEF InOK
    <3>2. Peer(d, e.sid)' = Peer(d, e.sid) /\ Peer(d, e.sid) \in Devices
      BY <3>1, Monotone, PeerFacts DEF PlaceInv
    <3>3. \A n \in Nat : n < enc[Peer(d, e.sid)][e.sid] => n < enc'[Peer(d, e.sid)][e.sid]
      BY <1>0, <3>1, <3>2
    <3> QED
      BY <1>2, <2>2, <3>1, <3>2, <3>3 DEF InOK
  <2> QED
    BY <2>1, <2>2
<1> QED
  BY <1>1, <1>2

\* A message that a device sends is in order if it is about one of its sessions.
LEMMA SendsOK ==
    ASSUME PlaceInv, [Next]_vars, TypeOK', NEW d \in Devices, NEW e \in Events,
           out' = Sent(d, e), OutOK(d, e)'
    PROVE  OutInv'
<1> SUFFICES ASSUME NEW f \in Devices, NEW k \in Nat, NEW g \in Events, OutAt(f, k, g)'
             PROVE  OutOK(f, g)'
  BY DEF OutInv
<1>1. OutAt(f, k, g) \/ (f = d /\ g = e)
  BY OutSent DEF PlaceInv
<1> QED
  BY <1>1, StaysOK DEF PlaceInv, OutInv

LEMMA SameOut ==
    ASSUME PlaceInv, [Next]_vars, TypeOK', out' = out
    PROVE  OutInv'
  BY StaysOK DEF PlaceInv, OutInv, OutAt

LEMMA OutStep ==
    ASSUME PlaceInv, [Next]_vars, TypeOK'
    PROVE  OutInv'
<1> USE DEF net, noise
<1>1. ASSUME NEW d \in Devices, WebSocketDrops(d) PROVE OutInv'
  <2>1. /\ out'[d] = <<>>
        /\ \A f \in Devices : f # d => out'[f] = out[f]
    BY <1>1 DEF WebSocketDrops, PlaceInv, TypeOK
  <2>2. \A f \in Devices, k \in Nat, g \in Events : OutAt(f, k, g)' => OutAt(f, k, g)
    <3>1. Len(<<>>) = 0
      OBVIOUS
    <3> QED
      BY <2>1, <3>1 DEF OutAt
  <2> QED
    BY <2>2, StaysOK DEF PlaceInv, OutInv
<1>2. ASSUME NEW d \in Devices, ServerForwards(d) PROVE OutInv'
  <2> SUFFICES ASSUME NEW f \in Devices, NEW k \in Nat, NEW g \in Events, OutAt(f, k, g)'
               PROVE  OutOK(f, g)'
    BY DEF OutInv
  <2>1. OutAt(f, k, g) \/ OutAt(f, k + 1, g)
    BY <1>2, OutTail DEF PlaceInv, ServerForwards
  <2> QED
    BY <2>1, StaysOK DEF PlaceInv, OutInv
<1>3. ASSUME NEW d \in Devices, OnIncomingCandidates(d) PROVE OutInv'
  <2>1. PICK i \in Sids : i = Head(inbox[d]).sid /\ d \in party[i]
    BY <1>3, TakenEvent DEF OnIncomingCandidates, Takes, InOK
  <2>2. PICK yes \in BOOLEAN : out' = Sent(d, Event("CandidateResult", i, Likely(yes)))
    <3>1. out' = Sent(d, Event("CandidateResult", i,
                               Likely(sessions[d][Head(inbox[d]).arg[2]] # None)))
      BY <1>3, <2>1, Zenon DEF OnIncomingCandidates
    <3> QED
      BY <3>1, Zenon
  <2>3. Event("CandidateResult", i, Likely(yes)) \in Events
    BY EventTypes
  <2>4. OutOK(d, Event("CandidateResult", i, Likely(yes)))'
    BY <2>1, EventFacts, Monotone DEF OutOK
  <2> QED
    BY <2>2, <2>3, <2>4, SendsOK
<1>4. ASSUME NEW d \in Devices, OnCandidateResult(d) PROVE OutInv'
  <2>1. PICK i \in Sids : i = Head(inbox[d]).sid /\ d \in party[i]
    BY <1>4, TakenEvent DEF OnCandidateResult, Takes, InOK
  <2>2. out' = out \/ out' = Sent(d, Event("RequestRelay", i, None))
    BY <1>4, <2>1 DEF OnCandidateResult
  <2>3. Event("RequestRelay", i, None) \in Events
    BY EventTypes
  <2>4. OutOK(d, Event("RequestRelay", i, None))'
    BY <2>1, EventFacts, Monotone DEF OutOK
  <2> QED
    BY <2>2, <2>3, <2>4, SendsOK, SameOut
<1>5. ASSUME NEW d \in Devices, NEW p \in Devices, NEW i \in Sids,
             ConnectToPeerViaInternet(d, p, i)
      PROVE  OutInv'
  <2>1. Event("OfferCandidates", i, Named(p)) \in Events
    BY EventTypes
  <2>2. d \in party'[i]
    BY <1>5 DEF ConnectToPeerViaInternet, PlaceInv, TypeOK
  <2>3. OutOK(d, Event("OfferCandidates", i, Named(p)))'
    BY <2>2, EventFacts DEF OutOK
  <2> QED
    BY <1>5, <2>1, <2>3, SendsOK DEF ConnectToPeerViaInternet
<1>6. ASSUME NEW d \in Devices, NEW i \in Sids, NEW k \in 1 .. 3, d \in party[i],
             out' = Sent(d, Event("RelayData", i, Shake(k)))
      PROVE  OutInv'
  <2>1. Event("RelayData", i, Shake(k)) \in Events
    BY EventTypes, PayloadFacts
  <2>2. OutOK(d, Event("RelayData", i, Shake(k)))'
    BY <1>6, EventFacts, PayloadFacts, Monotone DEF OutOK
  <2> QED
    BY <1>6, <2>1, <2>2, SendsOK
<1>7. ASSUME NEW d \in Devices, NEW i \in Sids, NEW n \in Nat, d \in party[i],
             n < enc'[d][i], out' = Sent(d, Event("RelayData", i, Frame(n)))
      PROVE  OutInv'
  <2>0. n < MaxFrames
    <3>1. enc'[d][i] \in 0 .. MaxFrames
      BY DEF TypeOK
    <3> QED
      BY <1>7, <3>1, RelayAssumption
  <2>1. Event("RelayData", i, Frame(n)) \in Events
    BY <2>0, EventTypes, PayloadFacts
  <2>2. OutOK(d, Event("RelayData", i, Frame(n)))'
    BY <1>7, <2>0, EventFacts, PayloadFacts, Monotone DEF OutOK
  <2> QED
    BY <1>7, <2>1, <2>2, SendsOK
<1>8. ASSUME NEW d \in Devices, NEW i \in Sids, HandshakeStarts(d, i) PROVE OutInv'
  <2>1. d \in party[i]
    BY <1>8 DEF HandshakeStarts, PlaceInv, PartyInv
  <2>2. out' = out \/ out' = Sent(d, Event("RelayData", i, Shake(1)))
    BY <1>8 DEF HandshakeStarts
  <2> QED
    BY <1>6, <2>1, <2>2, SameOut
<1>9. ASSUME NEW d \in Devices, NEW i \in Sids, ReadsMsg1(d, i) PROVE OutInv'
  <2>1. d \in party[i]
    BY <1>9 DEF ReadsMsg1, Receives, PlaceInv, PartyInv
  <2> QED
    BY <1>6, <1>9, <2>1 DEF ReadsMsg1
<1>10. ASSUME NEW d \in Devices, NEW i \in Sids, ReadsMsg2(d, i) PROVE OutInv'
  <2>1. d \in party[i]
    BY <1>10 DEF ReadsMsg2, Receives, PlaceInv, PartyInv
  <2> QED
    BY <1>6, <1>10, <2>1 DEF ReadsMsg2
<1>11. ASSUME NEW d \in Devices, NEW i \in Sids, SendMessage(d, i) PROVE OutInv'
  <2>1. enc[d][i] \in Nat /\ enc'[d][i] = enc[d][i] + 1
    BY <1>11, RelayAssumption DEF SendMessage, PlaceInv, TypeOK
  <2>2. d \in party[i]
    BY <1>11, SessionOfDevice DEF SendMessage
  <2> QED
    BY <1>7, <1>11, <2>1, <2>2 DEF SendMessage
<1>12. ASSUME NEW d \in Devices, ForwarderSends(d) PROVE OutInv'
  <2>1. PICK f \in held[d] : out' = Sent(d, Event("RelayData", f[1], Frame(f[2])))
    BY <1>12 DEF ForwarderSends
  <2>2. f[1] \in Sids /\ f[2] \in Nat /\ <<f[1], f[2]>> \in held[d]
    <3>1. held[d] \subseteq Sids \X Nat
      BY DEF PlaceInv, TypeOK
    <3> QED
      BY <3>1
  <2>3. d \in party[f[1]] /\ f[2] < enc[d][f[1]] /\ enc'[d][f[1]] = enc[d][f[1]]
    BY <1>12, <2>2 DEF PlaceInv, PartyInv, ForwarderSends
  <2> QED
    BY <1>7, <2>1, <2>2, <2>3
<1>13. CASE out' = out
  BY <1>13, SameOut
<1> QED
  BY <1>1, <1>2, <1>3, <1>4, <1>5, <1>8, <1>9, <1>10, <1>11, <1>12, <1>13
     DEF Next, LoopStep, HandshakeStep, ConnectSignalingServer, OnRelayReady, OnRelayData,
         DispatchDone, OnRelayClosed, OnDisconnected, ReadsMsg3, Verifies, Registers,
         ForwarderEncrypts, ServerCloses, vars

\* An event in the inboxes of some devices is in order if it is about a session of
\* each of them.
LEMMA ReceivesOK ==
    ASSUME PlaceInv, [Next]_vars, TypeOK', NEW ds, NEW e \in Events,
           inbox' = ToAll(ds, e), \A f \in Devices : f \in ds => InOK(f, e)'
    PROVE  InInv'
<1> SUFFICES ASSUME NEW f \in Devices, NEW k \in Nat, NEW g \in Events, InAt(f, k, g)'
             PROVE  InOK(f, g)'
  BY DEF InInv
<1>1. InAt(f, k, g) \/ (f \in ds /\ g = e)
  BY InAdded DEF PlaceInv
<1> QED
  BY <1>1, StaysOK DEF PlaceInv, InInv

LEMMA TakesOK ==
    ASSUME PlaceInv, [Next]_vars, TypeOK', NEW d \in Devices, NEW t, Takes(d, t)
    PROVE  InInv'
<1> SUFFICES ASSUME NEW f \in Devices, NEW k \in Nat, NEW g \in Events, InAt(f, k, g)'
             PROVE  InOK(f, g)'
  BY DEF InInv
<1>1. InAt(f, k, g) \/ InAt(f, k + 1, g)
  BY InTaken DEF PlaceInv
<1> QED
  BY <1>1, StaysOK DEF PlaceInv, InInv

\* A dropped WebSocket is reported to its own device.
LEMMA Dropped ==
    ASSUME PlaceInv, NEW d \in Devices, WebSocketDrops(d)
    PROVE  inbox' = ToAll({d}, Event("Disconnected", None, None))
<1>1. inbox' = [inbox EXCEPT ![d] = Append(@, Event("Disconnected", None, None))]
  BY DEF WebSocketDrops
<1>2. inbox \in [Devices -> Seq(Events)]
  BY DEF PlaceInv, TypeOK
<1> QED
  BY <1>1, <1>2 DEF ToAll

LEMMA InStep ==
    ASSUME PlaceInv, [Next]_vars, TypeOK'
    PROVE  InInv'
<1> USE DEF net, noise
<1>1. ASSUME NEW d \in Devices, WebSocketDrops(d) PROVE InInv'
  <2>1. \A f \in Devices : InOK(f, Event("Disconnected", None, None))'
    BY EventFacts DEF InOK
  <2> QED
    BY <1>1, <2>1, Dropped, EventTypes, ReceivesOK
<1>2. ASSUME NEW d \in Devices, ServerForwards(d) PROVE InInv'
  <2>1. PICK m \in Events, e \in Events, ds \in SUBSET Devices :
           /\ OutOK(d, m) /\ e.sid = m.sid /\ inbox' = ToAll(ds, e)
           /\ \/ ds = Others(d, m.sid) /\ e = Event("IncomingCandidates", m.sid, Named(d))
              \/ m.type = "CandidateResult" /\ ds = Others(d, m.sid) /\ e = m
              \/ ds \subseteq Reached(m.sid) /\ e = Event("RelayReady", m.sid, None)
              \/ m.type = "RelayData" /\ ds \subseteq Others(d, m.sid) /\ e = m
    <3>1. PICK m \in Events, e \in Events, ds \in SUBSET Devices :
              /\ OutOK(d, m)
              /\ e.sid = m.sid
              /\ inbox' = ToAll(ds, e)
              /\ \/ ds = Others(d, m.sid) /\ e = Event("IncomingCandidates", m.sid, Named(d))
                 \/ m.type = "CandidateResult" /\ ds = Others(d, m.sid) /\ e = m
                 \/ /\ ds = Reached(m.sid) \/ ds = {}
                    /\ e = Event("RelayReady", m.sid, None)
                 \/ /\ m.type = "RelayData" /\ e = m
                    /\ ds = IF m.sid \in relayed THEN Others(d, m.sid) ELSE {}
      BY <1>2, Forwarding
    <3>2. ds = Reached(m.sid) \/ ds = {} => ds \subseteq Reached(m.sid)
      OBVIOUS
    <3>3. ds = (IF m.sid \in relayed THEN Others(d, m.sid) ELSE {}) =>
             ds \subseteq Others(d, m.sid)
      OBVIOUS
    <3> QED
      BY <3>1, <3>2, <3>3
  <2>2. m.sid \in Sids /\ d \in party[m.sid]
    BY <2>1 DEF OutOK
  <2>3. Reached(m.sid) \subseteq party[m.sid] /\ Others(d, m.sid) \subseteq party[m.sid] \ {d}
    BY DEF Reached, Others
  <2>4. ds \subseteq party[m.sid]
    BY <2>1, <2>3
  <2>5. ASSUME NEW f \in Devices, f \in ds PROVE InOK(f, e)
    <3>1. CASE e = Event("IncomingCandidates", m.sid, Named(d))
      BY <2>2, <2>4, <2>5, <3>1, EventFacts DEF InOK
    <3>2. CASE m.type = "CandidateResult" /\ e = m
      BY <2>2, <2>4, <2>5, <3>2 DEF InOK
    <3>3. CASE e = Event("RelayReady", m.sid, None)
      BY <2>2, <2>4, <2>5, <3>3, EventFacts DEF InOK
    <3>4. CASE m.type = "RelayData" /\ ds \subseteq Others(d, m.sid) /\ e = m
      <4>1. Peer(f, m.sid) = d
        BY <2>2, <2>3, <2>5, <3>4, PeerFacts DEF PlaceInv
      <4> QED
        BY <2>1, <2>2, <2>4, <2>5, <3>4, <4>1 DEF InOK, OutOK
    <3> QED
      BY <2>1, <3>1, <3>2, <3>3, <3>4
  <2> QED
    BY <2>1, <2>5, StaysOK, ReceivesOK
<1>3. ASSUME NEW i \in Sids, ServerCloses(i) PROVE InInv'
  <2>1. \A f \in Devices : f \in Reached(i) => f \in party[i]
    BY DEF Reached
  <2>2. \A f \in Devices : f \in Reached(i) => InOK(f, Event("RelayClosed", i, None))
    BY <2>1, EventFacts DEF InOK
  <2>3. Event("RelayClosed", i, None) \in Events
    BY EventTypes
  <2> QED
    BY <1>3, <2>2, <2>3, StaysOK, ReceivesOK DEF ServerCloses
<1>4. ASSUME NEW d \in Devices, NEW t, Takes(d, t) PROVE InInv'
  BY <1>4, TakesOK
<1>5. ASSUME inbox' = inbox PROVE InInv'
  BY <1>5, StaysOK DEF PlaceInv, InInv, InAt
<1>6. ASSUME NEW d \in Devices, LoopStep(d) PROVE InInv'
  BY <1>4, <1>5, <1>6
     DEF LoopStep, OnIncomingCandidates, OnCandidateResult, OnRelayReady, OnRelayData,
         DispatchDone, OnRelayClosed, OnDisconnected
<1>7. ASSUME NEW d \in Devices, NEW i \in Sids, HandshakeStep(d, i) PROVE InInv'
  BY <1>5, <1>7
     DEF HandshakeStep, HandshakeStarts, ReadsMsg1, ReadsMsg2, ReadsMsg3, Verifies, Registers
<1> QED
  BY <1>1, <1>2, <1>3, <1>5, <1>6, <1>7
     DEF Next, ConnectSignalingServer, ConnectToPeerViaInternet, SendMessage,
         ForwarderEncrypts, ForwarderSends, vars

\* A step that leaves the parties alone and changes what a device has of a session
\* only where it is a party.
LEMMA PartyKept ==
    ASSUME PlaceInv, TypeOK', party' = party, NEW d \in Devices, NEW i \in Sids, d \in party[i],
           asked' = asked, UNCHANGED <<held, sessions, dec, hand>>,
           \A f \in Devices, j \in Sids : f # d \/ j # i =>
              hs'[f][j] = hs[f][j] /\ chan'[f][j] = chan[f][j] /\ enc'[f][j] = enc[f][j],
           enc'[d][i] >= enc[d][i]
    PROVE  PartyInv'
<1>1. \A f \in Devices, j \in Sids : enc[f][j] \in Nat /\ enc'[f][j] \in Nat
  BY RelayAssumption DEF PlaceInv, TypeOK
<1>2. \A f \in Devices, j \in Sids, n \in Nat : n < enc[f][j] => n < enc'[f][j]
  <2> SUFFICES ASSUME NEW f \in Devices, NEW j \in Sids, NEW n \in Nat, n < enc[f][j]
               PROVE  n < enc'[f][j]
    OBVIOUS
  <2>1. CASE f # d \/ j # i
    BY <2>1
  <2>2. CASE f = d /\ j = i
    BY <1>1, <2>2
  <2> QED
    BY <2>1, <2>2
<1> QED
  BY <1>2 DEF PlaceInv, PartyInv

LEMMA PartySame ==
    ASSUME PlaceInv, UNCHANGED <<party, asked, hs, chan, enc, dec, hand, sessions, held>>
    PROVE  PartyInv'
  BY DEF PlaceInv, PartyInv

LEMMA PartyStep ==
    ASSUME PlaceInv, [Next]_vars, TypeOK'
    PROVE  PartyInv'
<1> USE DEF net, noise
<1>0. None \notin Sids /\ \A f \in Devices, j \in Sids : enc[f][j] \in Nat /\ dec[f][j] \in Nat
  BY RelayAssumption DEF PlaceInv, TypeOK
<1>1. ASSUME NEW d \in Devices,
             \/ ConnectSignalingServer(d) \/ WebSocketDrops(d) \/ OnIncomingCandidates(d)
             \/ OnCandidateResult(d) \/ OnRelayClosed(d) \/ OnDisconnected(d)
      PROVE  PartyInv'
  BY <1>1, PartySame DEF ConnectSignalingServer, WebSocketDrops, OnIncomingCandidates,
                         OnCandidateResult, OnRelayClosed, OnDisconnected
<1>2. ASSUME NEW d \in Devices, ServerForwards(d) PROVE PartyInv'
  <2>1. PICK m \in Events : /\ OutOK(d, m)
                            /\ \/ asked' = [asked EXCEPT ![m.sid] = @ \cup {d}]
                               \/ asked' = asked
    BY <1>2, Forwarding
  <2>2. m.sid \in Sids /\ d \in party[m.sid]
    BY <2>1 DEF OutOK
  <2>3. \A i \in Sids : asked'[i] \subseteq party[i]
    <3>1. CASE asked' = [asked EXCEPT ![m.sid] = @ \cup {d}]
      BY <2>2, <3>1 DEF PlaceInv, PartyInv, TypeOK
    <3>2. CASE asked' = asked
      BY <3>2 DEF PlaceInv, PartyInv
    <3> QED
      BY <2>1, <3>1, <3>2
  <2> QED
    BY <1>2, <2>3 DEF ServerForwards, PlaceInv, PartyInv
<1>3. ASSUME NEW d \in Devices, OnRelayReady(d) PROVE PartyInv'
  <2>1. PICK i \in Sids : i = Head(inbox[d]).sid /\ d \in party[i]
    BY <1>3, TakenEvent DEF OnRelayReady, Takes, InOK
  <2>2. hs' = hs \/ hs' = [hs EXCEPT ![d][i] = "spawned"]
    BY <1>3, <2>1 DEF OnRelayReady
  <2>3. \A f \in Devices, j \in Sids : f # d \/ j # i => hs'[f][j] = hs[f][j]
    <3>1. CASE hs' = [hs EXCEPT ![d][i] = "spawned"]
      BY <3>1 DEF PlaceInv, TypeOK
    <3> QED
      BY <2>2, <3>1
  <2> QED
    BY <1>0, <1>3, <2>1, <2>3, PartyKept DEF OnRelayReady
<1>4. ASSUME NEW d \in Devices, OnRelayData(d) PROVE PartyInv'
  <2>1. PICK i \in Sids, m \in Payloads :
           i = Head(inbox[d]).sid /\ m = Head(inbox[d]).arg /\ d \in party[i]
    BY <1>4, TakenEvent DEF OnRelayData, Takes, InOK
  <2>2. CASE chan' = [chan EXCEPT ![d][i] = Append(@, m)] /\ UNCHANGED <<dec, hand>>
    <3>1. \A f \in Devices, j \in Sids : f # d \/ j # i => chan'[f][j] = chan[f][j]
      BY <2>2, ChanAdded DEF PlaceInv
    <3>2. UNCHANGED <<party, asked, hs, enc, held, sessions, dec, hand>>
      BY <1>4, <2>2 DEF OnRelayData
    <3>3. enc'[d][i] >= enc[d][i]
      BY <1>0, <3>2
    <3> QED
      BY <2>1, <3>1, <3>2, <3>3, PartyKept
  <2>3. CASE /\ m = Frame(dec[d][i])
             /\ dec' = [dec EXCEPT ![d][i] = m[2] + 1]
             /\ hand' = [hand EXCEPT ![d] = i]
             /\ UNCHANGED chan
    <3>1. m[2] = dec[d][i]
      BY <2>3 DEF Frame
    <3>2. /\ dec'[d][i] = dec[d][i] + 1 /\ dec'[d][i] > 0
          /\ \A f \in Devices, j \in Sids : f # d \/ j # i => dec'[f][j] = dec[f][j]
      BY <1>0, <2>3, <3>1 DEF PlaceInv, TypeOK
    <3>3. hand'[d] = i /\ \A f \in Devices : f # d => hand'[f] = hand[f]
      BY <2>3 DEF PlaceInv, TypeOK
    <3>4. UNCHANGED <<party, asked, hs, chan, enc, sessions, held>>
      BY <1>4, <2>3 DEF OnRelayData
    <3> QED
      BY <2>1, <3>2, <3>3, <3>4 DEF PlaceInv, PartyInv
  <2>4. CASE UNCHANGED <<chan, dec, hand>>
    BY <1>4, <2>4, PartySame DEF OnRelayData
  <2> QED
    BY <1>4, <2>1, <2>2, <2>3, <2>4 DEF OnRelayData, TakesFrame
<1>5. ASSUME NEW d \in Devices, DispatchDone(d) PROVE PartyInv'
  <2>1. /\ hand'[d] = None /\ \A f \in Devices : f # d => hand'[f] = hand[f]
        /\ UNCHANGED <<party, asked, hs, chan, enc, dec, sessions, held>>
    BY <1>5 DEF DispatchDone, PlaceInv, TypeOK
  <2> QED
    BY <1>0, <2>1 DEF PlaceInv, PartyInv
<1>6. ASSUME NEW d \in Devices, ForwarderSends(d) PROVE PartyInv'
  <2>1. /\ \A f \in Devices : held'[f] \subseteq held[f]
        /\ UNCHANGED <<party, asked, hs, chan, enc, dec, hand, sessions>>
    BY <1>6 DEF ForwarderSends, PlaceInv, TypeOK
  <2> QED
    BY <2>1 DEF PlaceInv, PartyInv
<1>7. ASSUME NEW d \in Devices, NEW p \in Devices, NEW i \in Sids,
             ConnectToPeerViaInternet(d, p, i)
      PROVE  PartyInv'
  <2>1. /\ party[i] = {} /\ party'[i] = {d, p} /\ p # d
        /\ \A j \in Sids : j # i => party'[j] = party[j]
        /\ UNCHANGED <<asked, hs, chan, enc, dec, hand, sessions, held>>
    BY <1>7 DEF ConnectToPeerViaInternet, PlaceInv, TypeOK
  <2>2. \A j \in Sids : party[j] \subseteq party'[j]
    BY <2>1
  <2>3. /\ \A j \in Sids : \/ party'[j] = {}
                           \/ \E a, b \in Devices : a # b /\ party'[j] = {a, b}
        /\ \A j \in Sids : asked'[j] \subseteq party'[j]
    BY <2>1, <2>2 DEF PlaceInv, PartyInv
  <2>4. /\ \A f \in Devices, j \in Sids : f \notin party'[j] =>
              /\ hs'[f][j] = "none" /\ chan'[f][j] = <<>>
              /\ enc'[f][j] = 0 /\ dec'[f][j] = 0 /\ hand'[f] # j
        /\ \A f \in Devices, j \in Sids : hand'[f] = j => dec'[f][j] > 0
    BY <2>1, <2>2 DEF PlaceInv, PartyInv
  <2>5. \A f, g \in Devices : sessions'[f][g] # None => f \in party'[sessions'[f][g]]
    <3>1. \A f, g \in Devices : sessions[f][g] # None =>
             sessions[f][g] \in Sids /\ f \in party[sessions[f][g]]
      BY DEF PlaceInv, PartyInv, TypeOK
    <3> QED
      BY <2>1, <2>2, <3>1
  <2>6. \A f \in Devices, j \in Sids, n \in Nat : <<j, n>> \in held'[f] =>
           f \in party'[j] /\ n < enc'[f][j]
    BY <2>1, <2>2 DEF PlaceInv, PartyInv
  <2> QED
    BY <2>3, <2>4, <2>5, <2>6 DEF PartyInv
<1>8. ASSUME NEW d \in Devices, NEW i \in Sids,
             HandshakeStarts(d, i) \/ ReadsMsg1(d, i) \/ ReadsMsg2(d, i)
             \/ ReadsMsg3(d, i) \/ Verifies(d, i)
      PROVE  PartyInv'
  <2>1. hs[d][i] # "none"
    BY <1>8 DEF HandshakeStarts, ReadsMsg1, ReadsMsg2, ReadsMsg3, Verifies, Receives
  <2>2. d \in party[i]
    BY <2>1 DEF PlaceInv, PartyInv
  <2>3. \E to : hs' = [hs EXCEPT ![d][i] = to]
    BY <1>8 DEF HandshakeStarts, ReadsMsg1, ReadsMsg2, ReadsMsg3, Verifies, Goto
  <2>4. \A f \in Devices, j \in Sids : f # d \/ j # i => hs'[f][j] = hs[f][j]
    BY <2>3 DEF PlaceInv, TypeOK
  <2>5. \A f \in Devices, j \in Sids : f # d \/ j # i => chan'[f][j] = chan[f][j]
    <3>1. chan' = chan \/ \E s, m : Receives(d, i, s, m)
      BY <1>8 DEF HandshakeStarts, ReadsMsg1, ReadsMsg2, ReadsMsg3, Verifies
    <3> QED
      BY <3>1, ChanTaken DEF PlaceInv
  <2>6. UNCHANGED <<party, asked, held, sessions, enc, dec, hand>>
    BY <1>8 DEF HandshakeStarts, ReadsMsg1, ReadsMsg2, ReadsMsg3, Verifies
  <2> QED
    BY <1>0, <2>2, <2>4, <2>5, <2>6, PartyKept
<1>9. ASSUME NEW d \in Devices, NEW i \in Sids, Registers(d, i) PROVE PartyInv'
  <2>1. d \in party[i]
    BY <1>9 DEF Registers, PlaceInv, PartyInv
  <2>2. /\ UNCHANGED <<party, asked, chan, enc, dec, hand, held>>
        /\ \A f \in Devices, j \in Sids : f # d \/ j # i => hs'[f][j] = hs[f][j]
    BY <1>9 DEF Registers, Goto, PlaceInv, TypeOK
  <2>3. \A f, g \in Devices : sessions'[f][g] = sessions[f][g] \/ (f = d /\ sessions'[f][g] = i)
    BY <1>9 DEF Registers, PlaceInv, TypeOK
  <2>4. \A f, g \in Devices : sessions'[f][g] # None => f \in party'[sessions'[f][g]]
    BY <2>1, <2>2, <2>3 DEF PlaceInv, PartyInv
  <2> QED
    BY <2>1, <2>2, <2>4 DEF PlaceInv, PartyInv
<1>10. ASSUME NEW d \in Devices, NEW i \in Sids, SendMessage(d, i) PROVE PartyInv'
  <2>1. d \in party[i]
    BY <1>10, SessionOfDevice DEF SendMessage
  <2>2. /\ enc'[d][i] = enc[d][i] + 1
        /\ \A f \in Devices, j \in Sids : f # d \/ j # i => enc'[f][j] = enc[f][j]
    BY <1>10 DEF SendMessage, PlaceInv, TypeOK
  <2>3. enc'[d][i] >= enc[d][i]
    BY <1>0, <2>2
  <2> QED
    BY <1>10, <2>1, <2>2, <2>3, PartyKept DEF SendMessage
<1>11. ASSUME NEW d \in Devices, NEW i \in Sids, ForwarderEncrypts(d, i) PROVE PartyInv'
  <2>1. d \in party[i]
    BY <1>11, SessionOfDevice DEF ForwarderEncrypts
  <2>2. /\ enc'[d][i] = enc[d][i] + 1
        /\ \A f \in Devices, j \in Sids : f # d \/ j # i => enc'[f][j] = enc[f][j]
        /\ UNCHANGED <<party, asked, hs, chan, dec, hand, sessions>>
    <3>1. enc' = [enc EXCEPT ![d][i] = @ + 1]
      BY <1>11 DEF ForwarderEncrypts
    <3> QED
      BY <1>11, <3>1 DEF ForwarderEncrypts, PlaceInv, TypeOK
  <2>3. \A f \in Devices : \A x : x \in held'[f] =>
           x \in held[f] \/ (f = d /\ x = <<i, enc[d][i]>>)
    BY <1>11 DEF ForwarderEncrypts, PlaceInv, TypeOK
  <2>4. ASSUME NEW f \in Devices, NEW j \in Sids, NEW n \in Nat, <<j, n>> \in held'[f]
        PROVE  f \in party'[j] /\ n < enc'[f][j]
    <3>1. CASE <<j, n>> \in held[f]
      <4>1. f \in party[j] /\ n < enc[f][j]
        BY <3>1 DEF PlaceInv, PartyInv
      <4>2. CASE f # d \/ j # i
        BY <2>2, <4>1, <4>2
      <4>3. CASE f = d /\ j = i
        BY <1>0, <2>2, <4>1, <4>3
      <4> QED
        BY <4>2, <4>3
    <3>2. CASE f = d /\ <<j, n>> = <<i, enc[d][i]>>
      BY <1>0, <2>1, <2>2, <3>2
    <3> QED
      BY <2>3, <2>4, <3>1, <3>2
  <2> QED
    BY <2>1, <2>2, <2>4 DEF PlaceInv, PartyInv
<1>12. ASSUME NEW i \in Sids, ServerCloses(i) PROVE PartyInv'
  BY <1>12, PartySame DEF ServerCloses
<1>13. ASSUME UNCHANGED vars PROVE PartyInv'
  BY <1>13, PartySame DEF vars
<1> QED
  BY <1>1, <1>2, <1>3, <1>4, <1>5, <1>6, <1>7, <1>8, <1>9, <1>10, <1>11, <1>12, <1>13
     DEF Next, LoopStep, HandshakeStep

LEMMA PlaceInit ==
    Init => PlaceInv
<1> SUFFICES ASSUME Init PROVE PlaceInv
  OBVIOUS
<1>1. TypeOK
  BY RelayAssumption DEF Init, TypeOK, Stages
<1>2. \A d \in Devices : Len(out[d]) = 0 /\ Len(inbox[d]) = 0
  BY DEF Init
<1>3. OutInv /\ InInv
  BY <1>2 DEF OutInv, InInv, OutAt, InAt
<1>4. PartyInv
  BY RelayAssumption DEF Init, PartyInv
<1> QED
  BY <1>1, <1>3, <1>4 DEF PlaceInv

THEOREM PlacesHold ==
    Spec => []PlaceInv
<1>1. PlaceInv /\ [Next]_vars => PlaceInv'
  BY TypeStep, OutStep, InStep, PartyStep DEF PlaceInv
<1> QED
  BY <1>1, PlaceInit, PTL DEF Spec

\* Every variable of the relay layer keeps its type: queues hold events, nonces stay
\* within their bound and every session id in use was drawn.
THEOREM TypeCorrect ==
    Spec => []TypeOK
  BY PlacesHold, PTL DEF PlaceInv

-----------------------------------------------------------------------------
(* Proofs: each direction implements OrderedPrefix *)

\* Who takes the frames of f in session j: the other party.
LEMMA PeerOfFacts ==
    ASSUME PlaceInv, NEW f \in Devices, NEW j \in Sids
    PROVE  /\ PeerOf(f, j) \in Devices
           /\ f \in party[j] => PeerOf(f, j) = Peer(f, j) /\ PeerOf(f, j) \in party[j]
           /\ f \notin party[j] => /\ PeerOf(f, j) = f /\ enc[f][j] = 0
                                   /\ dec[f][j] = 0 /\ hand[f] # j
  BY PeerFacts DEF PeerOf, PlaceInv, PartyInv

\* A step that moves neither nonce nor the dispatched frame of a direction.
LEMMA ChannelStutters ==
    ASSUME NEW f \in Devices, NEW j \in Sids, enc'[f][j] = enc[f][j],
           dec'[PeerOf(f, j)'][j] = dec[PeerOf(f, j)][j],
           hand'[PeerOf(f, j)'] = j <=> hand[PeerOf(f, j)] = j
    PROVE  [Channel(f, j)!Next]_(Channel(f, j)!vars)
<1>1. UNCHANGED Channel(f, j)!vars
  BY DEF Channel!vars
<1> QED
  BY <1>1

\* A frame is encrypted.
LEMMA ChannelPuts ==
    ASSUME PlaceInv, NEW d \in Devices, NEW i \in Sids,
           enc' = [enc EXCEPT ![d][i] = @ + 1], UNCHANGED <<party, dec, hand>>,
           NEW f \in Devices, NEW j \in Sids
    PROVE  [Channel(f, j)!Next]_(Channel(f, j)!vars)
<1>1. PeerOf(f, j)' = PeerOf(f, j)
  BY DEF PeerOf, Peer
<1>2. CASE f # d \/ j # i
  <2>1. enc'[f][j] = enc[f][j]
    BY <1>2 DEF PlaceInv, TypeOK
  <2> QED
    BY <1>1, <2>1, ChannelStutters
<1>3. CASE f = d /\ j = i
  <2>1. enc[f][j] \in Nat /\ enc'[f][j] = enc[f][j] + 1
    BY <1>3, RelayAssumption DEF PlaceInv, TypeOK
  <2>2. [n \in 1 .. enc'[f][j] |-> "relay"] = Append([n \in 1 .. enc[f][j] |-> "relay"], "relay")
    BY <2>1
  <2>3. Channel(f, j)!Put("relay")
    BY <1>1, <2>2 DEF Channel!Put
  <2> QED
    BY <2>3 DEF Channel!Next
<1> QED
  BY <1>2, <1>3

\* The frame that the session of a device takes is the next one that its peer
\* encrypted.
LEMMA ChannelTakes ==
    ASSUME PlaceInv, NEW d \in Devices, NEW i \in Sids, d \in party[i],
           dec[d][i] < enc[Peer(d, i)][i], hand[d] = None,
           dec' = [dec EXCEPT ![d][i] = dec[d][i] + 1], hand' = [hand EXCEPT ![d] = i],
           UNCHANGED <<party, enc>>,
           NEW f \in Devices, NEW j \in Sids
    PROVE  [Channel(f, j)!Next]_(Channel(f, j)!vars)
<1>0. None \notin Sids
  BY RelayAssumption
<1>1. PeerOf(f, j)' = PeerOf(f, j) /\ PeerOf(f, j) \in Devices
  <2>1. PeerOf(f, j) \in Devices
    BY PeerOfFacts
  <2>2. PeerOf(f, j)' = PeerOf(f, j)
    BY DEF PeerOf, Peer
  <2> QED
    BY <2>1, <2>2
<1>2. /\ dec'[d][i] = dec[d][i] + 1 /\ hand'[d] = i
      /\ \A g \in Devices, h \in Sids : g # d \/ h # i => dec'[g][h] = dec[g][h]
      /\ \A g \in Devices : g # d => hand'[g] = hand[g]
  BY DEF PlaceInv, TypeOK
<1>3. CASE PeerOf(f, j) # d \/ j # i
  BY <1>0, <1>1, <1>2, <1>3, ChannelStutters
<1>4. CASE PeerOf(f, j) = d /\ j = i
  <2>1. f \in party[i] /\ Peer(d, i) = f
    BY <1>4, PeerOfFacts, PeerFacts DEF PlaceInv
  <2>2. enc[f][j] \in Nat /\ dec[d][j] \in Nat /\ dec[d][j] < enc[f][j]
    BY <1>4, <2>1, RelayAssumption DEF PlaceInv, TypeOK
  <2>3. Len([n \in 1 .. enc[f][j] |-> "relay"]) = enc[f][j]
    BY <2>2
  <2>4. [n \in 1 .. enc[f][j] |-> "relay"][dec[d][j] + 1] = "relay"
    BY <2>2
  <2>5. [s \in {"relay"} |-> IF hand'[d] = j THEN dec'[d][j] ELSE 0] =
        [[s \in {"relay"} |-> IF hand[d] = j THEN dec[d][j] ELSE 0]
            EXCEPT !["relay"] = dec[d][j] + 1]
    BY <1>2, <1>4
  <2>6. Channel(f, j)!Take("relay")
    BY <1>0, <1>1, <1>2, <1>4, <2>2, <2>3, <2>4, <2>5 DEF Channel!Take
  <2> QED
    BY <2>6 DEF Channel!Next
<1> QED
  BY <1>3, <1>4

\* The frame is dispatched.
LEMMA ChannelDone ==
    ASSUME PlaceInv, NEW d \in Devices, hand[d] # None,
           hand' = [hand EXCEPT ![d] = None], UNCHANGED <<party, enc, dec>>,
           NEW f \in Devices, NEW j \in Sids
    PROVE  [Channel(f, j)!Next]_(Channel(f, j)!vars)
<1>0. None \notin Sids
  BY RelayAssumption
<1>1. PeerOf(f, j)' = PeerOf(f, j) /\ PeerOf(f, j) \in Devices
  <2>1. PeerOf(f, j) \in Devices
    BY PeerOfFacts
  <2>2. PeerOf(f, j)' = PeerOf(f, j)
    BY DEF PeerOf, Peer
  <2> QED
    BY <2>1, <2>2
<1>2. hand'[d] = None /\ \A g \in Devices : g # d => hand'[g] = hand[g]
  BY DEF PlaceInv, TypeOK
<1>3. CASE PeerOf(f, j) # d \/ hand[d] # j
  BY <1>0, <1>1, <1>2, <1>3, ChannelStutters
<1>4. CASE PeerOf(f, j) = d /\ hand[d] = j
  <2>1. dec[d][j] # 0
    BY <1>4, RelayAssumption DEF PlaceInv, PartyInv, TypeOK
  <2>2. [s \in {"relay"} |-> IF hand'[d] = j THEN dec'[d][j] ELSE 0] =
        [[s \in {"relay"} |-> IF hand[d] = j THEN dec[d][j] ELSE 0] EXCEPT !["relay"] = 0]
    BY <1>0, <1>2
  <2>3. Channel(f, j)!Done("relay")
    BY <1>1, <1>4, <2>1, <2>2 DEF Channel!Done
  <2> QED
    BY <2>3 DEF Channel!Next
<1> QED
  BY <1>3, <1>4

LEMMA ChannelStep ==
    ASSUME PlaceInv, [Next]_vars, NEW f \in Devices, NEW j \in Sids
    PROVE  [Channel(f, j)!Next]_(Channel(f, j)!vars)
<1> USE DEF net, noise
<1>0. MaxFrames \in Nat /\ None \notin Sids
  BY RelayAssumption
<1>1. CASE UNCHANGED <<party, enc, dec, hand>>
  <2>1. PeerOf(f, j)' = PeerOf(f, j)
    BY <1>1 DEF PeerOf, Peer
  <2> QED
    BY <1>1, <2>1, ChannelStutters
<1>2. ASSUME NEW d \in Devices, NEW p \in Devices, NEW i \in Sids,
             ConnectToPeerViaInternet(d, p, i)
      PROVE  [Channel(f, j)!Next]_(Channel(f, j)!vars)
  <2>1. /\ party[i] = {} /\ party'[i] = {d, p} /\ p # d
        /\ \A h \in Sids : h # i => party'[h] = party[h]
        /\ UNCHANGED <<enc, dec, hand>>
    BY <1>2 DEF ConnectToPeerViaInternet, PlaceInv, TypeOK
  <2>2. CASE f \notin party'[j] \/ j # i
    <3>1. PeerOf(f, j)' = PeerOf(f, j)
      <4>1. CASE j # i
        <5>1. party'[j] = party[j]
          BY <2>1, <4>1
        <5> QED
          BY <5>1 DEF PeerOf, Peer
      <4>2. CASE f \notin party'[j] /\ j = i
        BY <2>1, <4>2 DEF PeerOf
      <4> QED
        BY <2>2, <4>1, <4>2
    <3> QED
      BY <2>1, <3>1, ChannelStutters
  <2>3. CASE f \in party'[j] /\ j = i
    <3>1. PeerOf(f, j) = f /\ enc[f][j] = 0 /\ dec[f][j] = 0 /\ hand[f] # j
      BY <2>1, <2>3, PeerOfFacts
    <3>2. PICK g \in Devices : PeerOf(f, j)' = g /\ g \in {d, p}
      BY <2>1, <2>3 DEF PeerOf, Peer
    <3>3. dec[g][j] = 0 /\ hand[g] # j
      BY <2>1, <2>3, <3>2 DEF PlaceInv, PartyInv
    <3> QED
      BY <2>1, <3>1, <3>2, <3>3, ChannelStutters
  <2> QED
    BY <2>2, <2>3
<1>3. ASSUME NEW d \in Devices, NEW i \in Sids, SendMessage(d, i) \/ ForwarderEncrypts(d, i)
      PROVE  [Channel(f, j)!Next]_(Channel(f, j)!vars)
  BY <1>3, ChannelPuts DEF SendMessage, ForwarderEncrypts
<1>4. ASSUME NEW d \in Devices, DispatchDone(d)
      PROVE  [Channel(f, j)!Next]_(Channel(f, j)!vars)
  BY <1>4, ChannelDone DEF DispatchDone
<1>5. ASSUME NEW d \in Devices, OnRelayData(d)
      PROVE  [Channel(f, j)!Next]_(Channel(f, j)!vars)
  <2>1. Head(inbox[d]).type = "RelayData" /\ hand[d] = None
    BY <1>5 DEF OnRelayData, Takes
  <2>2. PICK i \in Sids, m \in Payloads :
           /\ i = Head(inbox[d]).sid /\ m = Head(inbox[d]).arg /\ d \in party[i]
           /\ \A n \in Nat : m = Frame(n) => n < enc[Peer(d, i)][i]
    BY <1>5, <2>1, TakenEvent DEF OnRelayData, InOK
  <2>3. UNCHANGED <<party, enc>>
    BY <1>5 DEF OnRelayData
  <2>4. CASE UNCHANGED <<dec, hand>>
    BY <1>1, <2>3, <2>4
  <2>5. CASE /\ m = Frame(dec[d][i])
             /\ dec' = [dec EXCEPT ![d][i] = m[2] + 1]
             /\ hand' = [hand EXCEPT ![d] = i]
    <3>1. m[2] = dec[d][i]
      BY <2>5 DEF Frame
    <3>2. dec[d][i] \in Nat
      BY <1>0 DEF PlaceInv, TypeOK
    <3>3. dec[d][i] < enc[Peer(d, i)][i]
      BY <2>2, <2>5, <3>2
    <3>4. dec' = [dec EXCEPT ![d][i] = dec[d][i] + 1]
      BY <2>5, <3>1
    <3> QED
      BY <2>1, <2>2, <2>3, <2>5, <3>3, <3>4, ChannelTakes
  <2> QED
    BY <1>5, <2>2, <2>4, <2>5 DEF OnRelayData, TakesFrame
<1>6. ASSUME NEW d \in Devices, LoopStep(d), ~ OnRelayData(d), ~ DispatchDone(d)
      PROVE  UNCHANGED <<party, enc, dec, hand>>
  BY <1>6 DEF LoopStep, OnIncomingCandidates, OnCandidateResult, OnRelayReady, OnRelayClosed,
              OnDisconnected
<1>7. ASSUME NEW d \in Devices, NEW i \in Sids, HandshakeStep(d, i)
      PROVE  UNCHANGED <<party, enc, dec, hand>>
  BY <1>7 DEF HandshakeStep, HandshakeStarts, ReadsMsg1, ReadsMsg2, ReadsMsg3, Verifies,
              Registers
<1>8. ASSUME NEW d \in Devices, \/ ConnectSignalingServer(d) \/ WebSocketDrops(d)
                                \/ ServerForwards(d) \/ ForwarderSends(d)
      PROVE  UNCHANGED <<party, enc, dec, hand>>
  BY <1>8 DEF ConnectSignalingServer, WebSocketDrops, ServerForwards, ForwarderSends
<1>9. ASSUME NEW i \in Sids, ServerCloses(i) PROVE UNCHANGED <<party, enc, dec, hand>>
  BY <1>9 DEF ServerCloses
<1>10. ASSUME UNCHANGED vars PROVE UNCHANGED <<party, enc, dec, hand>>
  BY <1>10 DEF vars
<1> QED
  BY <1>1, <1>2, <1>3, <1>4, <1>5, <1>6, <1>7, <1>8, <1>9, <1>10 DEF Next

\* Each direction of each relay session implements the ordered-prefix channel,
\* however forwarders and the server mix, lose or delay its frames: a device takes
\* the frames of its peer in the order of their encryption (handle_relay_data).
THEOREM RelayRefinesOrderedPrefix ==
    Spec => RelayRefines
<1>1. Init => \A d \in Devices, i \in Sids : Channel(d, i)!Init
  <2> SUFFICES ASSUME Init, NEW d \in Devices, NEW i \in Sids PROVE Channel(d, i)!Init
    OBVIOUS
  <2>1. PeerOf(d, i) = d /\ enc[d][i] = 0 /\ dec[d][i] = 0 /\ hand[d] # i
    BY RelayAssumption DEF Init, PeerOf
  <2> QED
    BY <2>1 DEF Channel!Init
<1>2. PlaceInv /\ [Next]_vars =>
         [\A d \in Devices, i \in Sids : [Channel(d, i)!Next]_(Channel(d, i)!vars)]_vars
  BY ChannelStep
<1> QED
  BY <1>1, <1>2, PlacesHold, PTL DEF Spec, RelayRefines

-----------------------------------------------------------------------------
(* Proofs: the second layer *)

\* Tokens that only move up in one queue stay the only ones.
LEMMA TokensShift ==
    ASSUME NEW i \in Sids, TokenOK(i), asked'[i] = asked[i], NEW q0, NEW d0,
           \A q \in 1 .. 2, f \in Devices, k \in Nat : TokenAt(i, q, f, k)' =>
              TokenAt(i, q, f, IF q = q0 /\ f = d0 THEN k + 1 ELSE k)
    PROVE  TokenOK(i)'
<1> SUFFICES ASSUME NEW q \in 1 .. 2, NEW f \in Devices, NEW k \in Nat, TokenAt(i, q, f, k)'
             PROVE  /\ asked'[i] = {}
                    /\ \A r \in 1 .. 2, g \in Devices, l \in Nat :
                          TokenAt(i, r, g, l)' => q = r /\ f = g /\ k = l
  BY DEF TokenOK
<1>1. PICK x \in Nat : /\ TokenAt(i, q, f, x)
                       /\ x = IF q = q0 /\ f = d0 THEN k + 1 ELSE k
  OBVIOUS
<1>2. asked'[i] = {}
  BY <1>1 DEF TokenOK
<1>3. ASSUME NEW r \in 1 .. 2, NEW g \in Devices, NEW l \in Nat, TokenAt(i, r, g, l)'
      PROVE  q = r /\ f = g /\ k = l
  <2>1. PICK y \in Nat : /\ TokenAt(i, r, g, y)
                         /\ y = IF r = q0 /\ g = d0 THEN l + 1 ELSE l
    BY <1>3
  <2>2. q = r /\ f = g /\ x = y
    BY <1>1, <2>1 DEF TokenOK
  <2> QED
    BY <1>1, <2>1, <2>2
<1> QED
  BY <1>2, <1>3

\* A token that is the only one.
LEMMA TokenAlone ==
    ASSUME NEW i \in Sids, asked'[i] = {}, NEW q0 \in 1 .. 2, NEW d0 \in Devices, NEW k0 \in Nat,
           \A q \in 1 .. 2, f \in Devices, k \in Nat : TokenAt(i, q, f, k)' =>
              q = q0 /\ f = d0 /\ k = k0
    PROVE  TokenOK(i)'
  BY DEF TokenOK

\* The queues move under tokens as they do under events.
LEMMA TokensTaken ==
    ASSUME TypeOK, NEW d \in Devices, NEW t, Takes(d, t), NEW i \in Sids,
           NEW f \in Devices, NEW k \in Nat, TokenAt(i, 1, f, k)'
    PROVE  k > 0 /\ TokenAt(i, 1, f, IF f = d THEN k + 1 ELSE k)
<1>1. PICK e \in Events : IsToken(e, i) /\ InAt(f, k, e)'
  BY DEF TokenAt, IsToken
<1>2. k > 0
  BY <1>1 DEF InAt
<1>3. InAt(f, IF f = d THEN k + 1 ELSE k, e)
  BY <1>1, InTaken
<1> QED
  BY <1>1, <1>2, <1>3 DEF TokenAt

LEMMA TokensSent ==
    ASSUME TypeOK, NEW d \in Devices, NEW e \in Events, out' = Sent(d, e), NEW i \in Sids,
           NEW f \in Devices, NEW k \in Nat, TokenAt(i, 2, f, k)'
    PROVE  \/ TokenAt(i, 2, f, k)
           \/ f = d /\ k = Len(out[d]) + 1 /\ IsToken(e, i)
<1>1. PICK g \in Events : IsToken(g, i) /\ OutAt(f, k, g)'
  BY DEF TokenAt, IsToken
<1>2. OutAt(f, k, g) \/ (f = d /\ k = Len(out[d]) + 1 /\ g = e)
  BY <1>1, OutSent
<1> QED
  BY <1>1, <1>2 DEF TokenAt

LEMMA TokensAdded ==
    ASSUME TypeOK, NEW ds, NEW e \in Events, inbox' = ToAll(ds, e), NEW i \in Sids,
           NEW f \in Devices, NEW k \in Nat, TokenAt(i, 1, f, k)'
    PROVE  \/ TokenAt(i, 1, f, k)
           \/ f \in ds /\ k = Len(inbox[f]) + 1 /\ IsToken(e, i)
<1>1. PICK g \in Events : IsToken(g, i) /\ InAt(f, k, g)'
  BY DEF TokenAt, IsToken
<1>2. InAt(f, k, g) \/ (f \in ds /\ k = Len(inbox[f]) + 1 /\ g = e)
  BY <1>1, InAdded
<1> QED
  BY <1>1, <1>2 DEF TokenAt

LEMMA TokensForwarded ==
    ASSUME TypeOK, NEW d \in Devices, out[d] # <<>>, out' = [out EXCEPT ![d] = Tail(@)],
           NEW i \in Sids, NEW f \in Devices, NEW k \in Nat, TokenAt(i, 2, f, k)'
    PROVE  k > 0 /\ TokenAt(i, 2, f, IF f = d THEN k + 1 ELSE k)
<1>1. PICK e \in Events : IsToken(e, i) /\ OutAt(f, k, e)'
  BY DEF TokenAt, IsToken
<1>2. k > 0
  BY <1>1 DEF OutAt
<1>3. OutAt(f, IF f = d THEN k + 1 ELSE k, e)
  BY <1>1, OutTail
<1> QED
  BY <1>1, <1>2, <1>3 DEF TokenAt

LEMMA SameTokens ==
    ASSUME NEW i \in Sids, NEW f \in Devices, NEW k \in Nat
    PROVE  /\ inbox' = inbox /\ TokenAt(i, 1, f, k)' => TokenAt(i, 1, f, k)
           /\ out' = out /\ TokenAt(i, 2, f, k)' => TokenAt(i, 2, f, k)
  BY DEF TokenAt, InAt, OutAt, IsToken

\* A step that sends nothing but relay data, if anything.
LEMMA TokensRest ==
    ASSUME PlaceInv, TokenInv, asked' = asked, inbox' = inbox, NEW d \in Devices,
           out' = out \/ \E i \in Sids, m \in Payloads : out' = Sent(d, Event("RelayData", i, m))
    PROVE  TokenInv'
<1> SUFFICES ASSUME NEW i \in Sids PROVE TokenOK(i)'
  BY DEF TokenInv
<1>1. ASSUME NEW j \in Sids, NEW m \in Payloads, out' = Sent(d, Event("RelayData", j, m)),
             NEW f \in Devices, NEW k \in Nat, TokenAt(i, 2, f, k)'
      PROVE  TokenAt(i, 2, f, k)
  <2>1. Event("RelayData", j, m) \in Events /\ ~ IsToken(Event("RelayData", j, m), i)
    BY EventTypes, EventFacts DEF IsToken
  <2> QED
    BY <1>1, <2>1, TokensSent DEF PlaceInv
<1>2. \A q \in 1 .. 2, f \in Devices, k \in Nat : TokenAt(i, q, f, k)' => TokenAt(i, q, f, k)
  BY <1>1, SameTokens
<1> QED
  BY <1>2, TokensShift DEF TokenInv

\* A step that takes an event and sends nothing.
LEMMA TokensSpent ==
    ASSUME PlaceInv, TokenInv, asked' = asked, NEW d \in Devices, NEW t, Takes(d, t), out' = out
    PROVE  TokenInv'
<1> SUFFICES ASSUME NEW i \in Sids PROVE TokenOK(i)'
  BY DEF TokenInv
<1>1. \A q \in 1 .. 2, f \in Devices, k \in Nat : TokenAt(i, q, f, k)' =>
         TokenAt(i, q, f, IF q = 1 /\ f = d THEN k + 1 ELSE k)
  <2> SUFFICES ASSUME NEW q \in 1 .. 2, NEW f \in Devices, NEW k \in Nat, TokenAt(i, q, f, k)'
               PROVE  TokenAt(i, q, f, IF q = 1 /\ f = d THEN k + 1 ELSE k)
    OBVIOUS
  <2>1. CASE q = 1
    BY <2>1, TokensTaken DEF PlaceInv
  <2>2. CASE q = 2
    BY <2>2, SameTokens
  <2> QED
    BY <2>1, <2>2
<1> QED
  BY <1>1, TokensShift DEF TokenInv

\* A step that takes a token and sends the next one of the same session.
LEMMA TokenPassedOn ==
    ASSUME PlaceInv, TokenInv, asked' = asked, NEW d \in Devices, NEW t, Takes(d, t),
           NEW j \in Sids, IsToken(Head(inbox[d]), j),
           NEW e \in Events, e.sid = j, out' = Sent(d, e)
    PROVE  TokenInv'
<1> SUFFICES ASSUME NEW i \in Sids PROVE TokenOK(i)'
  BY DEF TokenInv
<1>1. TokenAt(j, 1, d, 1)
  BY InTaken DEF TokenAt, PlaceInv
<1>2. CASE i = j
  <2>1. asked'[i] = {}
    BY <1>1, <1>2 DEF TokenInv, TokenOK
  <2>2. PICK n \in Nat : n = Len(out[d]) + 1
    BY DEF PlaceInv, TypeOK
  <2>3. ASSUME NEW q \in 1 .. 2, NEW f \in Devices, NEW k \in Nat, TokenAt(i, q, f, k)'
        PROVE  q = 2 /\ f = d /\ k = n
    <3>1. CASE q = 1
      <4>1. k > 0 /\ TokenAt(i, 1, f, IF f = d THEN k + 1 ELSE k)
        BY <2>3, <3>1, TokensTaken DEF PlaceInv
      <4>2. f = d /\ (IF f = d THEN k + 1 ELSE k) = 1
        BY <1>1, <1>2, <4>1 DEF TokenInv, TokenOK
      <4> QED
        BY <4>1, <4>2
    <3>2. CASE q = 2
      <4>1. ~ TokenAt(i, 2, f, k)
        BY <1>1, <1>2 DEF TokenInv, TokenOK
      <4> QED
        BY <2>2, <2>3, <3>2, <4>1, TokensSent DEF PlaceInv
    <3> QED
      BY <3>1, <3>2
  <2> QED
    <3>1. 2 \in 1 .. 2
      OBVIOUS
    <3> QED
      BY <2>1, <2>3, <3>1, TokenAlone
<1>3. CASE i # j
  <2>1. ~ IsToken(e, i)
    BY <1>3 DEF IsToken
  <2>2. \A q \in 1 .. 2, f \in Devices, k \in Nat : TokenAt(i, q, f, k)' =>
           TokenAt(i, q, f, IF q = 1 /\ f = d THEN k + 1 ELSE k)
    <3> SUFFICES ASSUME NEW q \in 1 .. 2, NEW f \in Devices, NEW k \in Nat,
                        TokenAt(i, q, f, k)'
                 PROVE  TokenAt(i, q, f, IF q = 1 /\ f = d THEN k + 1 ELSE k)
      OBVIOUS
    <3>1. CASE q = 1
      BY <3>1, TokensTaken DEF PlaceInv
    <3>2. CASE q = 2
      BY <2>1, <3>2, TokensSent DEF PlaceInv
    <3> QED
      BY <3>1, <3>2
  <2> QED
    BY <2>2, TokensShift DEF TokenInv
<1> QED
  BY <1>2, <1>3

\* The server passes a token on to one device at most, and a request is the last.
LEMMA TokensServed ==
    ASSUME PlaceInv, TokenInv, NEW d \in Devices, ServerForwards(d)
    PROVE  TokenInv'
<1> SUFFICES ASSUME NEW i \in Sids PROVE TokenOK(i)'
  BY DEF TokenInv
<1>1. PICK m \in Events, e \in Events, ds \in SUBSET Devices :
              /\ OutAt(d, 1, m) /\ OutOK(d, m)
              /\ e.sid = m.sid
              /\ inbox' = ToAll(ds, e)
              /\ \/ /\ m.type \in {"OfferCandidates", "CandidateResult"}
                    /\ ds = Others(d, m.sid) /\ asked' = asked
                 \/ /\ m.type = "RequestRelay"
                    /\ e = Event("RelayReady", m.sid, None)
                    /\ asked' = [asked EXCEPT ![m.sid] = @ \cup {d}]
                 \/ m.type = "RelayData" /\ e = m /\ asked' = asked
  BY Forwarding
<1>2. out[d] # <<>> /\ out' = [out EXCEPT ![d] = Tail(@)] /\ TypeOK
  BY DEF ServerForwards, PlaceInv
<1>3. m.sid \in Sids /\ d \in party[m.sid]
  BY <1>1 DEF OutOK
<1>4. ASSUME ~ IsToken(e, i), asked'[i] = asked[i]
      PROVE  TokenOK(i)'
  <2>1. \A q \in 1 .. 2, f \in Devices, k \in Nat : TokenAt(i, q, f, k)' =>
           TokenAt(i, q, f, IF q = 2 /\ f = d THEN k + 1 ELSE k)
    <3> SUFFICES ASSUME NEW q \in 1 .. 2, NEW f \in Devices, NEW k \in Nat,
                        TokenAt(i, q, f, k)'
                 PROVE  TokenAt(i, q, f, IF q = 2 /\ f = d THEN k + 1 ELSE k)
      OBVIOUS
    <3>1. CASE q = 1
      BY <1>1, <1>2, <1>4, <3>1, TokensAdded
    <3>2. CASE q = 2
      BY <1>2, <3>2, TokensForwarded
    <3> QED
      BY <3>1, <3>2
  <2> QED
    BY <1>4, <2>1, TokensShift DEF TokenInv
<1>5. CASE i # m.sid
  <2>1. asked'[i] = asked[i] /\ ~ IsToken(e, i)
    BY <1>1, <1>3, <1>5 DEF PlaceInv, TypeOK, IsToken
  <2> QED
    BY <1>4, <2>1
<1>6. CASE m.type = "RelayData" /\ e = m /\ asked' = asked
  BY <1>4, <1>6 DEF IsToken
<1>7. ASSUME i = m.sid, IsToken(m, i), NEW f \in Devices, NEW k \in Nat
      PROVE  /\ ~ TokenAt(i, 2, f, k)'
             /\ ~ TokenAt(i, 1, f, k)
             /\ asked[i] = {}
  <2>1. TokenAt(i, 2, d, 1)
    BY <1>1, <1>7 DEF TokenAt
  <2>2. asked[i] = {} /\ ~ TokenAt(i, 1, f, k)
    BY <2>1 DEF TokenInv, TokenOK
  <2>3. ASSUME TokenAt(i, 2, f, k)' PROVE FALSE
    <3>1. k > 0 /\ TokenAt(i, 2, f, IF f = d THEN k + 1 ELSE k)
      BY <1>2, <2>3, TokensForwarded
    <3>2. f = d /\ (IF f = d THEN k + 1 ELSE k) = 1
      BY <2>1, <3>1 DEF TokenInv, TokenOK
    <3> QED
      BY <3>1, <3>2
  <2> QED
    BY <2>2, <2>3
<1>8. CASE i = m.sid /\ m.type \in {"OfferCandidates", "CandidateResult"}
           /\ ds = Others(d, m.sid) /\ asked' = asked
  <2>1. IsToken(m, i)
    BY <1>8 DEF IsToken
  <2>2. PICK p \in Devices : ds \subseteq {p}
    <3>1. Others(d, m.sid) \subseteq {Peer(d, m.sid)} /\ Peer(d, m.sid) \in Devices
      BY <1>3, PeerFacts DEF Others, Reached, PlaceInv
    <3> QED
      BY <1>8, <3>1
  <2>3. PICK n \in Nat : n = Len(inbox[p]) + 1
    BY <1>2 DEF TypeOK
  <2>4. ASSUME NEW q \in 1 .. 2, NEW f \in Devices, NEW k \in Nat, TokenAt(i, q, f, k)'
        PROVE  q = 1 /\ f = p /\ k = n
    <3>1. q = 1 /\ ~ TokenAt(i, 1, f, k)
      BY <1>7, <1>8, <2>1, <2>4
    <3> QED
      BY <1>1, <1>2, <2>2, <2>3, <2>4, <3>1, TokensAdded
  <2>5. asked'[i] = {} /\ 1 \in 1 .. 2
    BY <1>7, <1>8, <2>1
  <2> QED
    BY <2>4, <2>5, TokenAlone
<1>9. CASE i = m.sid /\ m.type = "RequestRelay" /\ e = Event("RelayReady", m.sid, None)
  <2>1. IsToken(m, i) /\ ~ IsToken(e, i)
    BY <1>9, EventFacts DEF IsToken
  <2>2. ASSUME NEW q \in 1 .. 2, NEW f \in Devices, NEW k \in Nat, TokenAt(i, q, f, k)'
        PROVE  FALSE
    <3>1. q = 1 /\ ~ TokenAt(i, 1, f, k)
      BY <1>7, <1>9, <2>1, <2>2
    <3> QED
      BY <1>1, <1>2, <2>1, <2>2, <3>1, TokensAdded
  <2> QED
    BY <2>2 DEF TokenOK
<1> QED
  BY <1>1, <1>5, <1>6, <1>8, <1>9

LEMMA TokenStep ==
    ASSUME PlaceInv, TokenInv, [Next]_vars
    PROVE  TokenInv'
<1> USE DEF net, noise
<1>1. ASSUME NEW d \in Devices, WebSocketDrops(d) PROVE TokenInv'
  <2> SUFFICES ASSUME NEW i \in Sids PROVE TokenOK(i)'
    BY DEF TokenInv
  <2>1. asked' = asked /\ inbox' = ToAll({d}, Event("Disconnected", None, None))
    BY <1>1, Dropped DEF WebSocketDrops
  <2>2. \A f \in Devices, k \in Nat : TokenAt(i, 1, f, k)' => TokenAt(i, 1, f, k)
    <3>1. /\ Event("Disconnected", None, None) \in Events
          /\ ~ IsToken(Event("Disconnected", None, None), i)
      BY EventTypes, EventFacts DEF IsToken
    <3> QED
      BY <2>1, <3>1, TokensAdded DEF PlaceInv
  <2>3. \A f \in Devices, k \in Nat : TokenAt(i, 2, f, k)' => TokenAt(i, 2, f, k)
    <3>1. out'[d] = <<>> /\ Len(<<>>) = 0 /\ \A f \in Devices : f # d => out'[f] = out[f]
      BY <1>1 DEF WebSocketDrops, PlaceInv, TypeOK
    <3> QED
      BY <3>1 DEF TokenAt, OutAt, IsToken
  <2>4. \A q \in 1 .. 2, f \in Devices, k \in Nat : TokenAt(i, q, f, k)' => TokenAt(i, q, f, k)
    BY <2>2, <2>3
  <2> QED
    BY <2>1, <2>4, TokensShift DEF TokenInv
<1>2. ASSUME NEW d \in Devices, ServerForwards(d) PROVE TokenInv'
  BY <1>2, TokensServed
<1>3. ASSUME NEW d \in Devices, OnIncomingCandidates(d) PROVE TokenInv'
  <2>1. PICK i \in Sids : i = Head(inbox[d]).sid
    BY <1>3, TakenEvent DEF OnIncomingCandidates, Takes, InOK
  <2>2. PICK yes \in BOOLEAN : out' = Sent(d, Event("CandidateResult", i, Likely(yes)))
    <3>1. out' = Sent(d, Event("CandidateResult", i,
                               Likely(sessions[d][Head(inbox[d]).arg[2]] # None)))
      BY <1>3, <2>1, Zenon DEF OnIncomingCandidates
    <3> QED
      BY <3>1, Zenon
  <2>3. /\ Event("CandidateResult", i, Likely(yes)) \in Events
        /\ Event("CandidateResult", i, Likely(yes)).sid = i
    BY EventTypes, EventFacts
  <2>4. /\ Takes(d, "IncomingCandidates") /\ asked' = asked
        /\ IsToken(Head(inbox[d]), i)
    BY <1>3, <2>1 DEF OnIncomingCandidates, Takes, IsToken
  <2> QED
    BY <2>2, <2>3, <2>4, TokenPassedOn
<1>4. ASSUME NEW d \in Devices, OnCandidateResult(d) PROVE TokenInv'
  <2>1. PICK i \in Sids : i = Head(inbox[d]).sid
    BY <1>4, TakenEvent DEF OnCandidateResult, Takes, InOK
  <2>2. out' = out \/ out' = Sent(d, Event("RequestRelay", i, None))
    BY <1>4, <2>1 DEF OnCandidateResult
  <2>3. Event("RequestRelay", i, None) \in Events /\ Event("RequestRelay", i, None).sid = i
    BY EventTypes, EventFacts
  <2>4. /\ Takes(d, "CandidateResult") /\ asked' = asked
        /\ IsToken(Head(inbox[d]), i)
    BY <1>4, <2>1 DEF OnCandidateResult, Takes, IsToken
  <2> QED
    BY <2>2, <2>3, <2>4, TokenPassedOn, TokensSpent
<1>5. ASSUME NEW d \in Devices, OnRelayReady(d) \/ OnRelayData(d) \/ OnRelayClosed(d)
                                \/ OnDisconnected(d)
      PROVE  TokenInv'
  BY <1>5, TokensSpent DEF OnRelayReady, OnRelayData, OnRelayClosed, OnDisconnected
<1>6. ASSUME NEW d \in Devices, NEW p \in Devices, NEW j \in Sids,
             ConnectToPeerViaInternet(d, p, j)
      PROVE  TokenInv'
  <2> SUFFICES ASSUME NEW i \in Sids PROVE TokenOK(i)'
    BY DEF TokenInv
  <2>1. /\ party[j] = {} /\ asked' = asked /\ inbox' = inbox
        /\ out' = Sent(d, Event("OfferCandidates", j, Named(p)))
    BY <1>6 DEF ConnectToPeerViaInternet
  <2>2. /\ Event("OfferCandidates", j, Named(p)) \in Events
        /\ Event("OfferCandidates", j, Named(p)).sid = j
    BY EventTypes, EventFacts
  <2>3. CASE i # j
    <3>1. ~ IsToken(Event("OfferCandidates", j, Named(p)), i)
      BY <2>2, <2>3 DEF IsToken
    <3>2. \A q \in 1 .. 2, f \in Devices, k \in Nat :
             TokenAt(i, q, f, k)' => TokenAt(i, q, f, k)
      BY <2>1, <2>2, <3>1, TokensSent, SameTokens DEF PlaceInv
    <3> QED
      BY <2>1, <3>2, TokensShift DEF TokenInv
  <2>4. CASE i = j
    <3>1. \A q \in 1 .. 2, f \in Devices, k \in Nat : ~ TokenAt(i, q, f, k)
      <4>1. \A f \in Devices, g \in Events :
               IsToken(g, i) => ~ OutOK(f, g) /\ ~ InOK(f, g)
        BY <2>1, <2>4 DEF IsToken, OutOK, InOK
      <4> QED
        BY <4>1 DEF TokenAt, PlaceInv, OutInv, InInv
    <3>2. asked'[i] = {}
      BY <2>1, <2>4 DEF PlaceInv, PartyInv
    <3>3. PICK n \in Nat : n = Len(out[d]) + 1
      BY DEF PlaceInv, TypeOK
    <3>4. ASSUME NEW q \in 1 .. 2, NEW f \in Devices, NEW k \in Nat, TokenAt(i, q, f, k)'
          PROVE  q = 2 /\ f = d /\ k = n
      <4>1. CASE q = 1
        BY <2>1, <3>1, <3>4, <4>1, SameTokens
      <4>2. CASE q = 2
        BY <2>1, <2>2, <3>1, <3>3, <3>4, <4>2, TokensSent DEF PlaceInv
      <4> QED
        BY <4>1, <4>2
    <3>5. 2 \in 1 .. 2
      OBVIOUS
    <3> QED
      BY <3>2, <3>4, <3>5, TokenAlone
  <2> QED
    BY <2>3, <2>4
<1>7. ASSUME NEW d \in Devices, NEW i \in Sids,
             HandshakeStarts(d, i) \/ ReadsMsg1(d, i) \/ ReadsMsg2(d, i)
      PROVE  TokenInv'
  <2>1. /\ asked' = asked /\ inbox' = inbox
        /\ \/ out' = out
           \/ \E m \in {Shake(1), Shake(2), Shake(3)} : out' = Sent(d, Event("RelayData", i, m))
    BY <1>7 DEF HandshakeStarts, ReadsMsg1, ReadsMsg2
  <2>2. {Shake(1), Shake(2), Shake(3)} \subseteq Payloads
    BY PayloadFacts
  <2> QED
    BY <2>1, <2>2, TokensRest
<1>8. ASSUME NEW d \in Devices, NEW i \in Sids, SendMessage(d, i) PROVE TokenInv'
  <2>1. Frame(enc[d][i]) \in Payloads
    <3>1. enc[d][i] \in Nat /\ enc[d][i] < MaxFrames
      BY <1>8, RelayAssumption DEF SendMessage, PlaceInv, TypeOK
    <3> QED
      BY <3>1, PayloadFacts
  <2> QED
    BY <1>8, <2>1, TokensRest DEF SendMessage
<1>9. ASSUME NEW d \in Devices, ForwarderSends(d) PROVE TokenInv'
  <2>1. PICK f \in held[d] : out' = Sent(d, Event("RelayData", f[1], Frame(f[2])))
    BY <1>9 DEF ForwarderSends
  <2>2. f[1] \in Sids /\ f[2] \in Nat /\ <<f[1], f[2]>> \in held[d]
    <3>1. held[d] \subseteq Sids \X Nat
      BY DEF PlaceInv, TypeOK
    <3> QED
      BY <3>1
  <2>3. f[2] < enc[d][f[1]] /\ enc[d][f[1]] \in 0 .. MaxFrames
    BY <2>2 DEF PlaceInv, PartyInv, TypeOK
  <2>4. Frame(f[2]) \in Payloads
    BY <2>2, <2>3, PayloadFacts, RelayAssumption
  <2> QED
    BY <1>9, <2>1, <2>2, <2>4, TokensRest DEF ForwarderSends
<1>10. ASSUME NEW j \in Sids, ServerCloses(j) PROVE TokenInv'
  <2> SUFFICES ASSUME NEW i \in Sids PROVE TokenOK(i)'
    BY DEF TokenInv
  <2>1. asked' = asked /\ out' = out /\ inbox' = ToAll(Reached(j), Event("RelayClosed", j, None))
    BY <1>10 DEF ServerCloses
  <2>2. /\ Event("RelayClosed", j, None) \in Events
        /\ ~ IsToken(Event("RelayClosed", j, None), i)
    BY EventTypes, EventFacts DEF IsToken
  <2>3. \A q \in 1 .. 2, f \in Devices, k \in Nat : TokenAt(i, q, f, k)' => TokenAt(i, q, f, k)
    BY <2>1, <2>2, TokensAdded, SameTokens DEF PlaceInv
  <2> QED
    BY <2>1, <2>3, TokensShift DEF TokenInv
<1>11. ASSUME inbox' = inbox, out' = out, asked' = asked PROVE TokenInv'
  BY <1>11 DEF TokenInv, TokenOK, TokenAt, IsToken, InAt, OutAt
<1>12. ASSUME NEW d \in Devices, ConnectSignalingServer(d) \/ DispatchDone(d)
       PROVE  TokenInv'
  BY <1>11, <1>12 DEF ConnectSignalingServer, DispatchDone
<1>13. ASSUME NEW d \in Devices, NEW i \in Sids,
              ReadsMsg3(d, i) \/ Verifies(d, i) \/ Registers(d, i) \/ ForwarderEncrypts(d, i)
       PROVE  TokenInv'
  BY <1>11, <1>13 DEF ReadsMsg3, Verifies, Registers, ForwarderEncrypts
<1>14. ASSUME UNCHANGED vars PROVE TokenInv'
  BY <1>11, <1>14 DEF vars
<1> QED
  BY <1>1, <1>2, <1>3, <1>4, <1>5, <1>6, <1>7, <1>8, <1>9, <1>10, <1>12, <1>13, <1>14
     DEF Next, LoopStep, HandshakeStep

\* What ReadyInv says of one device and session; and that each announcement to f
\* was there before, one place further back if f is the device d0 whose loop
\* takes an event.
ReadyOK(f, i) ==
    \A k \in Nat : InAt(f, k, Event("RelayReady", i, None)) =>
        /\ asked[i] # {} /\ hs[f][i] = "none"
        /\ f \in linked \/ <<f, i>> \in cut
        /\ \A l \in Nat : InAt(f, l, Event("RelayReady", i, None)) => l = k

ReadyFollows(d0, f, i) ==
    \A k \in Nat : InAt(f, k, Event("RelayReady", i, None))' =>
        InAt(f, IF f = d0 THEN k + 1 ELSE k, Event("RelayReady", i, None))

\* The announcements in the inboxes only move up, or the server has just put the
\* first one in.
LEMMA ReadyKept ==
    ASSUME ReadyInv, NEW d0, NEW f \in Devices, NEW i \in Sids, ReadyFollows(d0, f, i),
           asked'[i] = asked[i], hs[f][i] = "none" => hs'[f][i] = "none",
           f \in linked => f \in linked', cut \subseteq cut'
    PROVE  ReadyOK(f, i)'
<1> SUFFICES ASSUME NEW k \in Nat, InAt(f, k, Event("RelayReady", i, None))'
             PROVE  /\ asked'[i] # {} /\ hs'[f][i] = "none"
                    /\ f \in linked' \/ <<f, i>> \in cut'
                    /\ \A l \in Nat : InAt(f, l, Event("RelayReady", i, None))' => l = k
  BY DEF ReadyOK
<1>1. PICK x \in Nat : /\ InAt(f, x, Event("RelayReady", i, None))
                       /\ x = IF f = d0 THEN k + 1 ELSE k
  BY DEF ReadyFollows
<1>2. \A l \in Nat : InAt(f, l, Event("RelayReady", i, None)) => l = x
  BY <1>1 DEF ReadyInv
<1>3. ASSUME NEW l \in Nat, InAt(f, l, Event("RelayReady", i, None))' PROVE l = k
  <2>1. PICK y \in Nat : /\ InAt(f, y, Event("RelayReady", i, None))
                         /\ y = IF f = d0 THEN l + 1 ELSE l
    BY <1>3 DEF ReadyFollows
  <2> QED
    BY <1>1, <1>2, <2>1
<1> QED
  BY <1>1, <1>3 DEF ReadyInv

LEMMA ReadyStep ==
    ASSUME PlaceInv, OnceInv, [Next]_vars
    PROVE  ReadyInv'
<1> USE DEF net, noise
<1>a. cut \subseteq cut' /\ TypeOK /\ ReadyInv
  BY Monotone DEF PlaceInv, OnceInv
<1>b. \A i \in Sids : Event("RelayReady", i, None) \in Events
  BY EventTypes
<1>c. (\A f \in Devices, i \in Sids : ReadyOK(f, i)') => ReadyInv'
  BY DEF ReadyInv, ReadyOK
<1>1. ASSUME inbox' = inbox, asked' = asked, linked \subseteq linked',
             \A f \in Devices, i \in Sids : hs[f][i] = "none" => hs'[f][i] = "none"
      PROVE  ReadyInv'
  BY <1>1, <1>a DEF ReadyInv, InAt
<1>2. ASSUME NEW d \in Devices, NEW t, Takes(d, t), asked' = asked, linked' = linked, hs' = hs
      PROVE  ReadyInv'
  <2>1. \A f \in Devices, i \in Sids, k \in Nat :
           InAt(f, k, Event("RelayReady", i, None))' =>
              InAt(f, IF f = d THEN k + 1 ELSE k, Event("RelayReady", i, None))
    BY <1>2, <1>a, <1>b, InTaken
  <2>2. \A f \in Devices, i \in Sids : ReadyFollows(d, f, i)
    BY <2>1 DEF ReadyFollows
  <2> QED
    BY <1>2, <1>a, <1>c, <2>2, ReadyKept
<1>3. ASSUME NEW d \in Devices, OnRelayReady(d) PROVE ReadyInv'
  <2>1. PICK j \in Sids : j = Head(inbox[d]).sid /\ Head(inbox[d]).arg = None
    BY <1>3, TakenEvent DEF OnRelayReady, Takes, InOK
  <2>2. Takes(d, "RelayReady") /\ asked' = asked /\ linked' = linked
    BY <1>3 DEF OnRelayReady
  <2>3. InAt(d, 1, Event("RelayReady", j, None))
    BY <1>a, <2>1, <2>2, InTaken, EventParts
  <2>4. \A f \in Devices, i \in Sids, k \in Nat :
           InAt(f, k, Event("RelayReady", i, None))' =>
              /\ InAt(f, IF f = d THEN k + 1 ELSE k, Event("RelayReady", i, None))
              /\ k > 0
    <3>1. \A f \in Devices, k \in Nat, g \in Events : InAt(f, k, g)' => k > 0
      BY DEF InAt
    <3> QED
      BY <1>a, <1>b, <2>2, <3>1, InTaken
  <2>5. \A f \in Devices, i \in Sids : f # d \/ i # j => hs'[f][i] = hs[f][i]
    <3>1. hs' = hs \/ hs' = [hs EXCEPT ![d][j] = "spawned"]
      BY <1>3, <2>1 DEF OnRelayReady
    <3>2. CASE hs' = [hs EXCEPT ![d][j] = "spawned"]
      BY <1>a, <3>2 DEF TypeOK
    <3> QED
      BY <3>1, <3>2
  <2>6. \A k \in Nat : ~ InAt(d, k, Event("RelayReady", j, None))'
    <3> SUFFICES ASSUME NEW k \in Nat, InAt(d, k, Event("RelayReady", j, None))'
                 PROVE  FALSE
      OBVIOUS
    <3>1. k > 0 /\ InAt(d, k + 1, Event("RelayReady", j, None))
      BY <2>4
    <3>2. PICK n \in Nat : n = k + 1 /\ InAt(d, n, Event("RelayReady", j, None))
      BY <3>1
    <3>3. n = 1
      BY <1>a, <2>3, <3>2 DEF ReadyInv
    <3> QED
      BY <3>1, <3>2, <3>3
  <2>7. ASSUME NEW f \in Devices, NEW i \in Sids
        PROVE  ReadyOK(f, i)'
    <3>1. CASE f = d /\ i = j
      BY <2>6, <3>1 DEF ReadyOK
    <3>2. CASE f # d \/ i # j
      <4>1. ReadyFollows(d, f, i)
        BY <2>4 DEF ReadyFollows
      <4>2. asked'[i] = asked[i]
        BY <2>2
      <4>3. hs[f][i] = "none" => hs'[f][i] = "none"
        BY <2>5, <3>2
      <4>4. f \in linked => f \in linked'
        BY <2>2
      <4>5. ReadyInv /\ cut \subseteq cut'
        BY <1>a
      <4> QED
        BY <4>1, <4>2, <4>3, <4>4, <4>5, ReadyKept
    <3> QED
      BY <3>1, <3>2
  <2> QED
    BY <1>c, <2>7
<1>4. ASSUME NEW d \in Devices, WebSocketDrops(d) PROVE ReadyInv'
  <2>1. /\ asked' = asked /\ hs' = hs /\ linked' = linked \ {d}
        /\ inbox' = ToAll({d}, Event("Disconnected", None, None))
    BY <1>4, Dropped DEF WebSocketDrops
  <2>2. \A f \in Devices, i \in Sids, k \in Nat :
           InAt(f, k, Event("RelayReady", i, None))' => InAt(f, k, Event("RelayReady", i, None))
    <3>1. \A i \in Sids : Event("RelayReady", i, None) # Event("Disconnected", None, None)
      BY EventFacts
    <3> QED
      BY <1>a, <1>b, <2>1, <3>1, InAdded, EventTypes
  <2>3. \A i \in Sids : d \in party[i] => <<d, i>> \in cut'
    BY <1>4 DEF WebSocketDrops
  <2>4. \A i \in Sids, k \in Nat : InAt(d, k, Event("RelayReady", i, None)) => d \in party[i]
    BY <1>b, EventFacts DEF PlaceInv, InInv, InOK
  <2> QED
    BY <1>a, <2>1, <2>2, <2>3, <2>4 DEF ReadyInv
<1>5. ASSUME NEW j \in Sids, ServerCloses(j) PROVE ReadyInv'
  <2>1. /\ asked' = asked /\ hs' = hs /\ linked' = linked
        /\ inbox' = ToAll(Reached(j), Event("RelayClosed", j, None))
    BY <1>5 DEF ServerCloses
  <2>2. \A f \in Devices, i \in Sids, k \in Nat :
           InAt(f, k, Event("RelayReady", i, None))' => InAt(f, k, Event("RelayReady", i, None))
    <3>1. \A i \in Sids : Event("RelayReady", i, None) # Event("RelayClosed", j, None)
      BY EventFacts
    <3> QED
      BY <1>a, <1>b, <2>1, <3>1, InAdded, EventTypes
  <2> QED
    BY <1>a, <2>1, <2>2 DEF ReadyInv
<1>6. ASSUME NEW d \in Devices, ServerForwards(d) PROVE ReadyInv'
  <2>1. PICK m \in Events, e \in Events, ds \in SUBSET Devices :
              /\ OutAt(d, 1, m) /\ OutOK(d, m)
              /\ inbox' = ToAll(ds, e)
              /\ \/ e.type # "RelayReady" /\ asked' = asked
                 \/ /\ m.type = "RequestRelay"
                    /\ e = Event("RelayReady", m.sid, None)
                    /\ asked' = [asked EXCEPT ![m.sid] = @ \cup {d}]
                    /\ ds \subseteq Reached(m.sid)
    <3>1. PICK m \in Events, e \in Events, ds \in SUBSET Devices :
              /\ OutAt(d, 1, m) /\ OutOK(d, m)
              /\ inbox' = ToAll(ds, e)
              /\ \/ e = Event("IncomingCandidates", m.sid, Named(d)) /\ asked' = asked
                 \/ m.type = "CandidateResult" /\ e = m /\ asked' = asked
                 \/ /\ m.type = "RequestRelay"
                    /\ e = Event("RelayReady", m.sid, None)
                    /\ asked' = [asked EXCEPT ![m.sid] = @ \cup {d}]
                    /\ ds = Reached(m.sid) \/ ds = {}
                 \/ m.type = "RelayData" /\ e = m /\ asked' = asked
      BY <1>6, Forwarding
    <3>2. Event("IncomingCandidates", m.sid, Named(d)).type = "IncomingCandidates"
      BY EventFacts
    <3>3. ds = Reached(m.sid) \/ ds = {} => ds \subseteq Reached(m.sid)
      OBVIOUS
    <3> QED
      BY <3>1, <3>2, <3>3
  <2>2. hs' = hs /\ linked' = linked /\ m.sid \in Sids
    BY <1>6, <2>1 DEF ServerForwards, OutOK
  <2>3. \A f \in Devices, i \in Sids, k \in Nat :
           InAt(f, k, Event("RelayReady", i, None))' =>
              \/ InAt(f, k, Event("RelayReady", i, None))
              \/ /\ f \in ds /\ k = Len(inbox[f]) + 1
                 /\ e = Event("RelayReady", i, None)
    BY <1>a, <1>b, <2>1, InAdded
  <2>4. CASE e.type # "RelayReady" /\ asked' = asked
    <3>1. \A i \in Sids : e # Event("RelayReady", i, None)
      BY <2>4, EventFacts
    <3> QED
      BY <1>a, <2>2, <2>3, <2>4, <3>1 DEF ReadyInv
  <2>5. CASE /\ m.type = "RequestRelay"
             /\ e = Event("RelayReady", m.sid, None)
             /\ asked' = [asked EXCEPT ![m.sid] = @ \cup {d}]
             /\ ds \subseteq Reached(m.sid)
    <3>1. TokenAt(m.sid, 2, d, 1)
      BY <2>1, <2>5 DEF TokenAt, IsToken
    <3>2. asked[m.sid] = {} /\ \A f \in Devices : hs[f][m.sid] = "none"
      BY <2>2, <3>1 DEF OnceInv, TokenInv, TokenOK, AskedInv
    <3>3. \A f \in Devices, k \in Nat : ~ InAt(f, k, Event("RelayReady", m.sid, None))
      BY <1>a, <2>2, <3>2 DEF ReadyInv
    <3>4. /\ asked'[m.sid] # {} /\ \A i \in Sids : i # m.sid => asked'[i] = asked[i]
          /\ \A f \in ds : f \in linked
      BY <1>a, <2>2, <2>5 DEF TypeOK, Reached
    <3>5. \A i \in Sids : e = Event("RelayReady", i, None) => i = m.sid
      BY <2>5, EventFacts
    <3>6. ASSUME NEW f \in Devices, NEW i \in Sids, NEW k \in Nat,
                 InAt(f, k, Event("RelayReady", i, None))'
          PROVE  /\ asked'[i] # {} /\ hs'[f][i] = "none"
                 /\ f \in linked' \/ <<f, i>> \in cut'
                 /\ \A l \in Nat : InAt(f, l, Event("RelayReady", i, None))' => l = k
      <4>1. CASE i = m.sid
        <5>1. \A l \in Nat : InAt(f, l, Event("RelayReady", i, None))' =>
                 f \in ds /\ l = Len(inbox[f]) + 1
          BY <2>3, <3>3, <4>1
        <5> QED
          BY <2>2, <3>2, <3>4, <3>6, <4>1, <5>1
      <4>2. CASE i # m.sid
        <5>1. \A l \in Nat : InAt(f, l, Event("RelayReady", i, None))' =>
                 InAt(f, l, Event("RelayReady", i, None))
          BY <2>3, <3>5, <4>2
        <5> QED
          BY <1>a, <2>2, <3>4, <3>6, <4>2, <5>1 DEF ReadyInv
      <4> QED
        BY <4>1, <4>2
    <3> QED
      BY <3>6 DEF ReadyInv
  <2> QED
    BY <2>1, <2>4, <2>5
<1>7. ASSUME NEW d \in Devices, NEW i \in Sids, HandshakeStep(d, i) PROVE ReadyInv'
  <2>1. /\ inbox' = inbox /\ asked' = asked /\ linked' = linked /\ hs[d][i] # "none"
    BY <1>7 DEF HandshakeStep, HandshakeStarts, ReadsMsg1, ReadsMsg2, ReadsMsg3, Verifies,
                Registers, Receives
  <2>2. \E to : hs' = [hs EXCEPT ![d][i] = to]
    BY <1>7 DEF HandshakeStep, HandshakeStarts, ReadsMsg1, ReadsMsg2, ReadsMsg3, Verifies,
                Registers, Goto
  <2>3. \A f \in Devices, j \in Sids : hs[f][j] = "none" => hs'[f][j] = "none"
    BY <1>a, <2>1, <2>2 DEF TypeOK
  <2> QED
    BY <1>1, <2>1, <2>3
<1>8. ASSUME NEW d \in Devices,
             \/ OnIncomingCandidates(d) \/ OnCandidateResult(d) \/ OnRelayData(d)
             \/ OnRelayClosed(d) \/ OnDisconnected(d)
      PROVE  ReadyInv'
  BY <1>2, <1>8 DEF OnIncomingCandidates, OnCandidateResult, OnRelayData, OnRelayClosed,
                    OnDisconnected
<1>9. ASSUME NEW d \in Devices, ConnectSignalingServer(d) \/ DispatchDone(d) \/ ForwarderSends(d)
      PROVE  ReadyInv'
  BY <1>1, <1>9 DEF ConnectSignalingServer, DispatchDone, ForwarderSends
<1>10. ASSUME NEW d \in Devices, NEW i \in Sids,
              \/ SendMessage(d, i) \/ ForwarderEncrypts(d, i)
              \/ \E p \in Devices : ConnectToPeerViaInternet(d, p, i)
       PROVE  ReadyInv'
  BY <1>1, <1>10 DEF SendMessage, ForwarderEncrypts, ConnectToPeerViaInternet
<1>11. ASSUME UNCHANGED vars PROVE ReadyInv'
  BY <1>1, <1>11 DEF vars
<1> QED
  BY <1>3, <1>4, <1>5, <1>6, <1>7, <1>8, <1>9, <1>10, <1>11 DEF Next, LoopStep

LEMMA AskedStep ==
    ASSUME PlaceInv, OnceInv, [Next]_vars
    PROVE  AskedInv'
<1> USE DEF net, noise
<1>a. TypeOK /\ AskedInv /\ ReadyInv
  BY DEF PlaceInv, OnceInv
<1>1. ASSUME asked' = asked, relayed' \subseteq relayed, hs' = hs PROVE AskedInv'
  BY <1>1, <1>a DEF AskedInv
<1>2. ASSUME NEW d \in Devices, NEW i \in Sids, NEW to, hs' = [hs EXCEPT ![d][i] = to],
             asked[i] # {}, asked' = asked, relayed' = relayed
      PROVE  AskedInv'
  <2>1. \A f \in Devices, j \in Sids : f # d \/ j # i => hs'[f][j] = hs[f][j]
    BY <1>2, <1>a DEF TypeOK
  <2> QED
    BY <1>2, <1>a, <2>1 DEF AskedInv
<1>3. ASSUME NEW d \in Devices, OnRelayReady(d) PROVE AskedInv'
  <2>1. PICK j \in Sids : j = Head(inbox[d]).sid /\ Head(inbox[d]).arg = None
    BY <1>3, TakenEvent DEF OnRelayReady, Takes, InOK
  <2>2. InAt(d, 1, Event("RelayReady", j, None))
    BY <1>3, <1>a, <2>1, InTaken, EventParts DEF OnRelayReady
  <2>3. asked[j] # {} /\ asked' = asked /\ relayed' = relayed
    BY <1>3, <1>a, <2>2 DEF ReadyInv, OnRelayReady
  <2>4. hs' = hs \/ hs' = [hs EXCEPT ![d][j] = "spawned"]
    BY <1>3, <2>1 DEF OnRelayReady
  <2>5. CASE hs' = hs
    BY <1>1, <2>3, <2>5
  <2> QED
    BY <1>2, <2>3, <2>4, <2>5
<1>4. ASSUME NEW d \in Devices, NEW i \in Sids, HandshakeStep(d, i) PROVE AskedInv'
  <2>1. /\ asked' = asked /\ relayed' = relayed /\ hs[d][i] # "none"
    BY <1>4 DEF HandshakeStep, HandshakeStarts, ReadsMsg1, ReadsMsg2, ReadsMsg3, Verifies,
                Registers, Receives
  <2>2. PICK to : hs' = [hs EXCEPT ![d][i] = to]
    BY <1>4 DEF HandshakeStep, HandshakeStarts, ReadsMsg1, ReadsMsg2, ReadsMsg3, Verifies,
                Registers, Goto
  <2>3. asked[i] # {}
    BY <1>a, <2>1 DEF AskedInv
  <2> QED
    BY <1>2, <2>1, <2>2, <2>3
<1>5. ASSUME NEW d \in Devices, ServerForwards(d) PROVE AskedInv'
  <2>1. PICK m \in Events :
              /\ OutOK(d, m)
              /\ \/ UNCHANGED <<asked, relayed>>
                 \/ /\ asked' = [asked EXCEPT ![m.sid] = @ \cup {d}]
                    /\ relayed' = relayed \cup {m.sid} \/ relayed' = relayed
    BY <1>5, Forwarding
  <2>2. hs' = hs /\ m.sid \in Sids
    BY <1>5, <2>1 DEF ServerForwards, OutOK
  <2>3. CASE UNCHANGED <<asked, relayed>>
    BY <1>1, <2>2, <2>3
  <2>4. CASE /\ asked' = [asked EXCEPT ![m.sid] = @ \cup {d}]
             /\ relayed' = relayed \cup {m.sid} \/ relayed' = relayed
    <3>1. asked'[m.sid] # {} /\ \A i \in Sids : i # m.sid => asked'[i] = asked[i]
      BY <1>a, <2>2, <2>4 DEF TypeOK
    <3>2. \A i \in Sids : i # m.sid /\ i \in relayed' => i \in relayed
      BY <2>4
    <3> QED
      BY <1>a, <2>2, <3>1, <3>2 DEF AskedInv
  <2> QED
    BY <2>1, <2>3, <2>4
<1>6. ASSUME NEW i \in Sids, ServerCloses(i) PROVE AskedInv'
  BY <1>1, <1>6 DEF ServerCloses
<1>7. ASSUME NEW d \in Devices,
             \/ OnIncomingCandidates(d) \/ OnCandidateResult(d) \/ OnRelayData(d)
             \/ OnRelayClosed(d) \/ OnDisconnected(d) \/ DispatchDone(d)
      PROVE  AskedInv'
  BY <1>1, <1>7 DEF OnIncomingCandidates, OnCandidateResult, OnRelayData, OnRelayClosed,
                    OnDisconnected, DispatchDone
<1>8. ASSUME NEW d \in Devices,
             ConnectSignalingServer(d) \/ WebSocketDrops(d) \/ ForwarderSends(d)
      PROVE  AskedInv'
  BY <1>1, <1>8 DEF ConnectSignalingServer, WebSocketDrops, ForwarderSends
<1>9. ASSUME NEW d \in Devices, NEW i \in Sids,
             \/ SendMessage(d, i) \/ ForwarderEncrypts(d, i)
             \/ \E p \in Devices : ConnectToPeerViaInternet(d, p, i)
      PROVE  AskedInv'
  BY <1>1, <1>9 DEF SendMessage, ForwarderEncrypts, ConnectToPeerViaInternet
<1>10. ASSUME UNCHANGED vars PROVE AskedInv'
  BY <1>1, <1>10 DEF vars
<1> QED
  BY <1>3, <1>4, <1>5, <1>6, <1>7, <1>8, <1>9, <1>10 DEF Next, LoopStep

\* A session's relay is requested once, by the one device the request has come to,
\* and announced to each device once.
THEOREM AnnouncedOnce ==
    Spec => []OnceInv
<1>1. Init => OnceInv
  <2> SUFFICES ASSUME Init PROVE OnceInv
    OBVIOUS
  <2>1. \A d \in Devices : Len(out[d]) = 0 /\ Len(inbox[d]) = 0
    BY DEF Init
  <2>2. \A d \in Devices, k \in Nat, e \in Events : ~ InAt(d, k, e) /\ ~ OutAt(d, k, e)
    BY <2>1 DEF InAt, OutAt
  <2>3. TokenInv
    BY <2>2 DEF TokenInv, TokenOK, TokenAt
  <2>4. AskedInv
    BY DEF Init, AskedInv
  <2>5. ReadyInv
    BY <2>2, EventTypes DEF ReadyInv
  <2> QED
    BY <2>3, <2>4, <2>5 DEF OnceInv
<1>2. PlaceInv /\ OnceInv /\ [Next]_vars => OnceInv'
  BY TokenStep, ReadyStep, AskedStep DEF OnceInv
<1> QED
  BY <1>1, <1>2, PlacesHold, PTL DEF Spec

-----------------------------------------------------------------------------
(* Proofs: payloads on their way to a device *)

LEMMA PayloadTypes ==
    /\ Shake(1) \in Payloads /\ Shake(2) \in Payloads /\ Shake(3) \in Payloads
    /\ \A n \in Nonces : Frame(n) \in Payloads
    /\ \A n \in Nat : Frame(n) \in Payloads => n \in Nonces
    /\ \A m \in Payloads : \/ m = Shake(1) \/ m = Shake(2) \/ m = Shake(3)
                           \/ \E n \in Nonces : m = Frame(n)
<1>1. \A n \in Int : n \in Nonces <=> n \in Nat /\ n < MaxFrames
  BY RelayAssumption DEF Nonces
<1>2. Nonces \subseteq Nat
  BY DEF Nonces
<1> QED
  BY <1>1, <1>2, PayloadFacts

\* Nothing new is on its way to f in session j: the first payload of place q0 + 1
\* passes to the end of place q0 (position N), or is lost, or nothing moves.
Flows(f, j, q0, N) ==
    /\ \A k \in Nat, m \in Payloads : Item(f, j, q0, k, m) => k < N
    /\ \A q \in 1 .. 3, k \in Nat, m \in Payloads : Item(f, j, q, k, m)' =>
          /\ k > 0
          /\ \/ Item(f, j, q, IF q = q0 + 1 THEN k + 1 ELSE k, m)
             \/ q = q0 /\ k = N /\ Item(f, j, q0 + 1, 1, m)

\* Where a payload comes from.
LEMMA Origin ==
    ASSUME NEW f \in Devices, NEW j \in Sids, NEW q0 \in Nat, NEW N \in Nat,
           Flows(f, j, q0, N),
           NEW q \in 1 .. 3, NEW k \in Nat, NEW m \in Payloads, Item(f, j, q, k, m)'
    PROVE  \E a \in 1 .. 3, s \in Nat :
              /\ Item(f, j, a, s, m)
              /\ k > 0
              /\ \/ a = q /\ s = IF q = q0 + 1 THEN k + 1 ELSE k
                 \/ q = q0 /\ k = N /\ a = q0 + 1 /\ s = 1
              /\ a = q0 => s < N
<1>1. Item(f, j, q0 + 1, 1, m) => q0 + 1 \in 1 .. 3
  BY DEF Item
<1>2. CASE Item(f, j, q, IF q = q0 + 1 THEN k + 1 ELSE k, m)
  BY <1>2 DEF Flows
<1>3. CASE q = q0 /\ k = N /\ Item(f, j, q0 + 1, 1, m)
  BY <1>1, <1>3 DEF Flows
<1> QED
  BY <1>2, <1>3 DEF Flows

\* So what held of the payloads still does.
LEMMA FlowsKeep ==
    ASSUME NEW f \in Devices, NEW j \in Sids, NEW q0 \in Nat, NEW N \in Nat,
           Flows(f, j, q0, N)
    PROVE  /\ \A m \in Payloads : UnderWay(f, j, m)' => UnderWay(f, j, m)
           /\ \A m \in Payloads : OnlyOne(f, j, m) => OnlyOne(f, j, m)'
           /\ Ordered(f, j) => Ordered(f, j)'
<1>1. ASSUME NEW m \in Payloads, UnderWay(f, j, m)' PROVE UnderWay(f, j, m)
  <2>1. PICK q \in 1 .. 3, k \in Nat : Item(f, j, q, k, m)'
    BY <1>1 DEF UnderWay
  <2> QED
    BY <2>1, Origin DEF UnderWay
<1>2. ASSUME NEW m \in Payloads, OnlyOne(f, j, m) PROVE OnlyOne(f, j, m)'
  <2> SUFFICES ASSUME NEW q \in 1 .. 3, NEW r \in 1 .. 3, NEW k \in Nat, NEW l \in Nat,
                      Item(f, j, q, k, m)', Item(f, j, r, l, m)'
               PROVE  q = r /\ k = l
    BY DEF OnlyOne
  <2>1. PICK a \in 1 .. 3, s \in Nat :
           /\ Item(f, j, a, s, m)
           /\ k > 0
           /\ \/ a = q /\ s = IF q = q0 + 1 THEN k + 1 ELSE k
              \/ q = q0 /\ k = N /\ a = q0 + 1 /\ s = 1
    BY Origin
  <2>2. PICK b \in 1 .. 3, t \in Nat :
           /\ Item(f, j, b, t, m)
           /\ l > 0
           /\ \/ b = r /\ t = IF r = q0 + 1 THEN l + 1 ELSE l
              \/ r = q0 /\ l = N /\ b = q0 + 1 /\ t = 1
    BY Origin
  <2>3. a = b /\ s = t
    BY <1>2, <2>1, <2>2 DEF OnlyOne
  <2> QED
    BY <2>1, <2>2, <2>3
<1>3. ASSUME Ordered(f, j) PROVE Ordered(f, j)'
  <2> SUFFICES ASSUME NEW q \in 1 .. 3, NEW r \in 1 .. 3, NEW k \in Nat, NEW l \in Nat,
                      NEW n \in Nonces, Item(f, j, q, k, Shake(3))',
                      Item(f, j, r, l, Frame(n))'
               PROVE  Before(q, k, r, l)
    BY DEF Ordered, Before
  <2>1. Shake(3) \in Payloads /\ Frame(n) \in Payloads
    BY PayloadTypes
  <2>2. PICK a \in 1 .. 3, s \in Nat :
           /\ Item(f, j, a, s, Shake(3))
           /\ k > 0
           /\ \/ a = q /\ s = IF q = q0 + 1 THEN k + 1 ELSE k
              \/ q = q0 /\ k = N /\ a = q0 + 1 /\ s = 1
           /\ a = q0 => s < N
    BY <2>1, Origin
  <2>3. PICK b \in 1 .. 3, t \in Nat :
           /\ Item(f, j, b, t, Frame(n))
           /\ l > 0
           /\ \/ b = r /\ t = IF r = q0 + 1 THEN l + 1 ELSE l
              \/ r = q0 /\ l = N /\ b = q0 + 1 /\ t = 1
    BY <2>1, Origin
  <2>4. Before(a, s, b, t)
    BY <1>3, <2>2, <2>3 DEF Ordered
  <2> QED
    BY <2>2, <2>3, <2>4 DEF Before
<1> QED
  BY <1>1, <1>2, <1>3

\* Relay data of one session in a queue, as events.
LEMMA DataFacts ==
    ASSUME NEW j \in Sids, NEW m \in Payloads
    PROVE  /\ Event("RelayData", j, m) \in Events
           /\ Event("RelayData", j, m).type = "RelayData"
           /\ Event("RelayData", j, m).sid = j
           /\ Event("RelayData", j, m).arg = m
  BY EventTypes, EventFacts

\* Nothing is taken from or put in the queues to f.
LEMMA FlowRests ==
    ASSUME PlaceInv, [Next]_vars, NEW f \in Devices, NEW j \in Sids, f \in party[j],
           chan'[f][j] = chan[f][j],
           \A k \in Nat, m \in Payloads : InAt(f, k, Event("RelayData", j, m))' =>
              InAt(f, k, Event("RelayData", j, m)),
           \A k \in Nat, m \in Payloads : OutAt(Peer(f, j), k, Event("RelayData", j, m))' =>
              OutAt(Peer(f, j), k, Event("RelayData", j, m))
    PROVE  Flows(f, j, 9, 0)
<1>1. Peer(f, j)' = Peer(f, j)
  BY Monotone
<1>2. ASSUME NEW q \in 1 .. 3, NEW k \in Nat, NEW m \in Payloads, Item(f, j, q, k, m)'
      PROVE  k > 0 /\ Item(f, j, q, k, m)
  <2>1. CASE q = 1
    BY <1>2, <2>1 DEF Item, ChanAt
  <2>2. CASE q = 2
    <3>1. InAt(f, k, Event("RelayData", j, m))'
      BY <1>2, <2>2 DEF Item
    <3>2. InAt(f, k, Event("RelayData", j, m))
      BY <3>1
    <3> QED
      BY <2>2, <3>2 DEF Item, InAt
  <2>3. CASE q = 3
    <3>1. OutAt(Peer(f, j), k, Event("RelayData", j, m))'
      BY <1>2, <2>3 DEF Item
    <3>2. OutAt(Peer(f, j), k, Event("RelayData", j, m))
      BY <1>1, <3>1 DEF OutAt
    <3> QED
      BY <2>3, <3>2 DEF Item, OutAt
  <2> QED
    BY <2>1, <2>2, <2>3
<1>3. \A k \in Nat, m \in Payloads : ~ Item(f, j, 9, k, m)
  BY DEF Item
<1> QED
  BY <1>2, <1>3 DEF Flows

\* What is found in a channel that has grown.
LEMMA ChannelGrows ==
    ASSUME TypeOK, NEW f \in Devices, NEW j \in Sids, NEW x \in Payloads,
           chan' = [chan EXCEPT ![f][j] = Append(@, x)],
           NEW k \in Nat, NEW m \in Payloads, ChanAt(f, j, k, m)'
    PROVE  ChanAt(f, j, k, m) \/ (k = Len(chan[f][j]) + 1 /\ m = x)
<1>1. chan \in [Devices -> [Sids -> Seq(Payloads)]] /\ chan[f][j] \in Seq(Payloads)
  BY DEF TypeOK
<1>2. chan'[f][j] = Append(chan[f][j], x)
  BY <1>1
<1> QED
  BY <1>1, <1>2 DEF ChanAt

\* The loop of f takes an event, which may go to the channel.
LEMMA FlowTaken ==
    ASSUME PlaceInv, [Next]_vars, NEW f \in Devices, NEW j \in Sids, f \in party[j],
           NEW t, Takes(f, t),
           \/ chan'[f][j] = chan[f][j]
           \/ \E m \in Payloads : /\ chan' = [chan EXCEPT ![f][j] = Append(@, m)]
                                  /\ Head(inbox[f]) = Event("RelayData", j, m),
           \A k \in Nat, m \in Payloads : OutAt(Peer(f, j), k, Event("RelayData", j, m))' =>
              OutAt(Peer(f, j), k, Event("RelayData", j, m)),
           NEW N \in Nat, N = Len(chan[f][j]) + 1
    PROVE  Flows(f, j, 1, N)
<1>0. TypeOK /\ Peer(f, j)' = Peer(f, j)
  BY Monotone DEF PlaceInv
<1>1. ASSUME NEW q \in 1 .. 3, NEW k \in Nat, NEW m \in Payloads, Item(f, j, q, k, m)'
      PROVE  /\ k > 0
             /\ \/ Item(f, j, q, IF q = 2 THEN k + 1 ELSE k, m)
                \/ q = 1 /\ k = N /\ Item(f, j, 2, 1, m)
  <2>1. CASE q = 1
    <3>1. ChanAt(f, j, k, m)'
      BY <1>1, <2>1 DEF Item
    <3>2. k > 0
      BY <3>1 DEF ChanAt
    <3>3. CASE chan'[f][j] = chan[f][j]
      BY <2>1, <3>1, <3>2, <3>3 DEF Item, ChanAt
    <3>4. ASSUME NEW x \in Payloads, chan' = [chan EXCEPT ![f][j] = Append(@, x)],
                 Head(inbox[f]) = Event("RelayData", j, x)
          PROVE  ChanAt(f, j, k, m) \/ (k = N /\ InAt(f, 1, Event("RelayData", j, m)))
      <4>1. ChanAt(f, j, k, m) \/ (k = N /\ m = x)
        BY <1>0, <3>1, <3>4, ChannelGrows
      <4>2. InAt(f, 1, Event("RelayData", j, x))
        BY <1>0, <3>4, InTaken
      <4> QED
        BY <4>1, <4>2
    <3> QED
      BY <2>1, <3>2, <3>3, <3>4 DEF Item
  <2>2. CASE q = 2
    <3>1. InAt(f, k, Event("RelayData", j, m))'
      BY <1>1, <2>2 DEF Item
    <3>2. k > 0 /\ InAt(f, k + 1, Event("RelayData", j, m))
      BY <1>0, <3>1, InTaken, DataFacts
    <3> QED
      BY <2>2, <3>2 DEF Item
  <2>3. CASE q = 3
    <3>1. OutAt(Peer(f, j), k, Event("RelayData", j, m))'
      BY <1>1, <2>3 DEF Item
    <3>2. OutAt(Peer(f, j), k, Event("RelayData", j, m))
      BY <1>0, <3>1 DEF OutAt
    <3> QED
      BY <2>3, <3>2 DEF Item, OutAt
  <2> QED
    BY <2>1, <2>2, <2>3
<1>2. \A k \in Nat, m \in Payloads : Item(f, j, 1, k, m) => k < N
  BY <1>0 DEF Item, ChanAt, TypeOK
<1> QED
  BY <1>1, <1>2 DEF Flows

\* The server takes the first message of the peer of f, which may go to the inbox.
LEMMA FlowServed ==
    ASSUME PlaceInv, [Next]_vars, NEW f \in Devices, NEW j \in Sids, f \in party[j],
           NEW d \in Devices, d = Peer(f, j), out[d] # <<>>, out' = [out EXCEPT ![d] = Tail(@)],
           chan' = chan, NEW ds, NEW e \in Events, inbox' = ToAll(ds, e),
           e.type = "RelayData" => e = Head(out[d]),
           NEW N \in Nat, N = Len(inbox[f]) + 1
    PROVE  Flows(f, j, 2, N)
<1>0. TypeOK /\ Peer(f, j)' = d
  BY Monotone DEF PlaceInv
<1>1. ASSUME NEW q \in 1 .. 3, NEW k \in Nat, NEW m \in Payloads, Item(f, j, q, k, m)'
      PROVE  /\ k > 0
             /\ \/ Item(f, j, q, IF q = 3 THEN k + 1 ELSE k, m)
                \/ q = 2 /\ k = N /\ Item(f, j, 3, 1, m)
  <2>1. CASE q = 1
    BY <1>1, <2>1 DEF Item, ChanAt
  <2>2. CASE q = 2
    <3>1. InAt(f, k, Event("RelayData", j, m))'
      BY <1>1, <2>2 DEF Item
    <3>2. k > 0
      BY <3>1 DEF InAt
    <3>3. \/ InAt(f, k, Event("RelayData", j, m))
          \/ k = N /\ Event("RelayData", j, m) = e
      BY <1>0, <3>1, InAdded, DataFacts
    <3>4. Event("RelayData", j, m) = e => OutAt(d, 1, Event("RelayData", j, m))
      <4>1. OutAt(d, 1, Head(out[d]))
        BY <1>0, OutTail
      <4>2. Event("RelayData", j, m) = e => e.type = "RelayData"
        BY DataFacts
      <4> QED
        BY <4>1, <4>2
    <3> QED
      BY <2>2, <3>2, <3>3, <3>4 DEF Item
  <2>3. CASE q = 3
    <3>1. OutAt(d, k, Event("RelayData", j, m))'
      BY <1>0, <1>1, <2>3 DEF Item
    <3>2. k > 0 /\ OutAt(d, k + 1, Event("RelayData", j, m))
      BY <1>0, <3>1, OutTail, DataFacts
    <3> QED
      BY <2>3, <3>2 DEF Item
  <2> QED
    BY <2>1, <2>2, <2>3
<1>2. \A k \in Nat, m \in Payloads : Item(f, j, 2, k, m) => k < N
  BY <1>0 DEF Item, InAt, TypeOK
<1>3. ASSUME NEW q \in 1 .. 3, NEW k \in Nat, NEW m \in Payloads, Item(f, j, q, k, m)'
      PROVE  /\ k > 0
             /\ \/ Item(f, j, q, IF q = 2 + 1 THEN k + 1 ELSE k, m)
                \/ q = 2 /\ k = N /\ Item(f, j, 2 + 1, 1, m)
  <2>1. 2 + 1 = 3
    OBVIOUS
  <2> QED
    BY <1>1, <1>3, <2>1
<1> QED
  BY <1>2, <1>3 DEF Flows

\* The task of f takes the first payload of its channel.
LEMMA FlowRead ==
    ASSUME PlaceInv, [Next]_vars, NEW f \in Devices, NEW j \in Sids, f \in party[j],
           NEW s, NEW x, Receives(f, j, s, x), inbox' = inbox, out'[Peer(f, j)] = out[Peer(f, j)]
    PROVE  Flows(f, j, 0, 0)
<1>0. TypeOK /\ Peer(f, j)' = Peer(f, j)
  BY Monotone DEF PlaceInv
<1>1. ASSUME NEW q \in 1 .. 3, NEW k \in Nat, NEW m \in Payloads, Item(f, j, q, k, m)'
      PROVE  k > 0 /\ Item(f, j, q, IF q = 1 THEN k + 1 ELSE k, m)
  <2>1. CASE q = 1
    <3>1. ChanAt(f, j, k, m)'
      BY <1>1, <2>1 DEF Item
    <3>2. k > 0 /\ ChanAt(f, j, k + 1, m)
      BY <1>0, <3>1, ChanTaken
    <3> QED
      BY <2>1, <3>2 DEF Item
  <2>2. CASE q = 2
    BY <1>1, <2>2 DEF Item, InAt
  <2>3. CASE q = 3
    BY <1>0, <1>1, <2>3 DEF Item, OutAt
  <2> QED
    BY <2>1, <2>2, <2>3
<1>2. \A k \in Nat, m \in Payloads : ~ Item(f, j, 0, k, m)
  BY DEF Item
<1> QED
  BY <1>1, <1>2 DEF Flows

\* The peer of f sends a payload of the session: it is the last one.
LEMMA ItemSent ==
    ASSUME PlaceInv, [Next]_vars, NEW f \in Devices, NEW j \in Sids, f \in party[j],
           NEW d \in Devices, d = Peer(f, j), NEW x \in Payloads,
           out' = Sent(d, Event("RelayData", j, x)), inbox' = inbox, chan'[f][j] = chan[f][j],
           NEW N \in Nat, N = Len(out[d]) + 1
    PROVE  /\ \A k \in Nat, m \in Payloads : Item(f, j, 3, k, m) => k < N
           /\ \A q \in 1 .. 3, k \in Nat, m \in Payloads : Item(f, j, q, k, m)' <=>
                 \/ Item(f, j, q, k, m)
                 \/ q = 3 /\ k = N /\ m = x /\ d \in linked
<1>0. TypeOK /\ Peer(f, j)' = d
  BY Monotone DEF PlaceInv
<1>1. \A k \in Nat, m \in Payloads : Item(f, j, 3, k, m) => k < N
  BY <1>0 DEF Item, OutAt, TypeOK
<1>2. ASSUME NEW q \in 1 .. 3, NEW k \in Nat, NEW m \in Payloads
      PROVE  Item(f, j, q, k, m)' <=> \/ Item(f, j, q, k, m)
                                      \/ q = 3 /\ k = N /\ m = x /\ d \in linked
  <2>1. CASE q = 1
    BY <2>1 DEF Item, ChanAt
  <2>2. CASE q = 2
    BY <2>2 DEF Item, InAt
  <2>3. CASE q = 3
    <3>1. /\ Item(f, j, 3, k, m)' <=> OutAt(d, k, Event("RelayData", j, m))'
          /\ Item(f, j, 3, k, m) <=> OutAt(d, k, Event("RelayData", j, m))
      BY <1>0 DEF Item
    <3>2. OutAt(d, k, Event("RelayData", j, m))' <=>
             \/ OutAt(d, k, Event("RelayData", j, m))
             \/ k = N /\ Event("RelayData", j, m) = Event("RelayData", j, x) /\ d \in linked
      BY <1>0, OutSent, DataFacts
    <3>3. Event("RelayData", j, m) = Event("RelayData", j, x) <=> m = x
      BY DataFacts
    <3> QED
      BY <2>3, <3>1, <3>2, <3>3
  <2> QED
    BY <2>1, <2>2, <2>3
<1> QED
  BY <1>1, <1>2

-----------------------------------------------------------------------------
(* Proofs: what a step does to the payloads on their way to a device *)

\* Nothing new is on its way to f, and what is keeps its order.
Keeps(f, j) ==
    /\ \A m \in Payloads : UnderWay(f, j, m)' => UnderWay(f, j, m)
    /\ \A m \in Payloads : OnlyOne(f, j, m) => OnlyOne(f, j, m)'
    /\ Ordered(f, j) => Ordered(f, j)'

\* Moreover, no frame passes the server and message 3 is not lost.
Carries(f, j) ==
    /\ Keeps(f, j)
    /\ FrameArrived(f, j)' => FrameArrived(f, j)
    /\ UnderWay(f, j, Shake(3)) /\ hs[f][j] = "wait3" => UnderWay(f, j, Shake(3))'

LEMMA FlowArrives ==
    ASSUME NEW f \in Devices, NEW j \in Sids, NEW q0 \in Nat, NEW N \in Nat,
           Flows(f, j, q0, N), q0 # 2
    PROVE  FrameArrived(f, j)' => FrameArrived(f, j)
<1> SUFFICES ASSUME FrameArrived(f, j)' PROVE FrameArrived(f, j)
  OBVIOUS
<1>1. PICK q \in 1 .. 2, k \in Nat, n \in Nonces : Item(f, j, q, k, Frame(n))'
  BY DEF FrameArrived
<1>2. q \in 1 .. 3 /\ Frame(n) \in Payloads
  BY PayloadTypes
<1>3. PICK a \in 1 .. 3, s \in Nat :
         /\ Item(f, j, a, s, Frame(n))
         /\ a = q \/ (q = q0 /\ a = q0 + 1)
  BY <1>1, <1>2, Origin
<1>4. a \in 1 .. 2
  BY <1>3
<1> QED
  BY <1>3, <1>4 DEF FrameArrived

\* The relay data of session j in the inbox of f, or in the queue of p.
InRests(f, j) ==
    \A k \in Nat, m \in Payloads :
        InAt(f, k, Event("RelayData", j, m))' <=> InAt(f, k, Event("RelayData", j, m))
OutRests(p, j) ==
    \A k \in Nat, m \in Payloads :
        OutAt(p, k, Event("RelayData", j, m))' <=> OutAt(p, k, Event("RelayData", j, m))

LEMMA InSame ==
    ASSUME NEW f \in Devices, NEW j \in Sids, inbox'[f] = inbox[f]
    PROVE  InRests(f, j)
  BY DEF InRests, InAt

LEMMA OutSame ==
    ASSUME NEW p \in Devices, NEW j \in Sids, out'[p] = out[p]
    PROVE  OutRests(p, j)
  BY DEF OutRests, OutAt

LEMMA OutRestsSent ==
    ASSUME TypeOK, NEW p \in Devices, NEW j \in Sids, NEW d \in Devices, NEW e \in Events,
           out' = Sent(d, e), e.type # "RelayData" \/ e.sid # j \/ d # p
    PROVE  OutRests(p, j)
<1> SUFFICES ASSUME NEW k \in Nat, NEW m \in Payloads
             PROVE  OutAt(p, k, Event("RelayData", j, m))' <=> OutAt(p, k, Event("RelayData", j, m))
  BY DEF OutRests
<1>1. PICK g \in Events : g = Event("RelayData", j, m) /\ g.type = "RelayData" /\ g.sid = j
  BY DataFacts
<1>2. ~ (p = d /\ g = e)
  BY <1>1
<1>3. OutAt(p, k, g)' <=> OutAt(p, k, g) \/ (p = d /\ k = Len(out[d]) + 1 /\ g = e /\ d \in linked)
  BY OutSent
<1>4. OutAt(p, k, g)' <=> OutAt(p, k, g)
  BY <1>2, <1>3
<1> QED
  BY <1>1, <1>4

LEMMA InRestsAdded ==
    ASSUME TypeOK, NEW f \in Devices, NEW j \in Sids, NEW ds, NEW e \in Events,
           inbox' = ToAll(ds, e), e.type # "RelayData" \/ e.sid # j \/ f \notin ds
    PROVE  InRests(f, j)
<1> SUFFICES ASSUME NEW k \in Nat, NEW m \in Payloads
             PROVE  InAt(f, k, Event("RelayData", j, m))' <=> InAt(f, k, Event("RelayData", j, m))
  BY DEF InRests
<1>1. PICK g \in Events : g = Event("RelayData", j, m) /\ g.type = "RelayData" /\ g.sid = j
  BY DataFacts
<1>2. ~ (f \in ds /\ g = e)
  BY <1>1
<1>3. InAt(f, k, g)' <=> InAt(f, k, g) \/ (f \in ds /\ k = Len(inbox[f]) + 1 /\ g = e)
  BY InAdded
<1>4. InAt(f, k, g)' <=> InAt(f, k, g)
  BY <1>2, <1>3
<1> QED
  BY <1>1, <1>4

\* A step that leaves the three places alone carries.
LEMMA RestsCarry ==
    ASSUME PlaceInv, [Next]_vars, NEW f \in Devices, NEW j \in Sids, f \in party[j],
           chan'[f][j] = chan[f][j], InRests(f, j), OutRests(Peer(f, j), j)
    PROVE  Carries(f, j)
<1>1. Flows(f, j, 9, 0)
  BY FlowRests DEF InRests, OutRests
<1>2. 9 \in Nat /\ 0 \in Nat /\ 9 # 2
  OBVIOUS
<1>3. Keeps(f, j)
  BY <1>1, <1>2, FlowsKeep DEF Keeps
<1>4. FrameArrived(f, j)' => FrameArrived(f, j)
  BY <1>1, <1>2, FlowArrives
<1>5. ASSUME UnderWay(f, j, Shake(3)) PROVE UnderWay(f, j, Shake(3))'
  <2>1. PICK q \in 1 .. 3, k \in Nat : Item(f, j, q, k, Shake(3))
    BY <1>5 DEF UnderWay
  <2>2. Peer(f, j)' = Peer(f, j)
    BY Monotone
  <2>3. Item(f, j, q, k, Shake(3))'
    <3>1. CASE q = 1
      BY <2>1, <3>1 DEF Item, ChanAt
    <3>2. CASE q = 2
      <4>1. InAt(f, k, Event("RelayData", j, Shake(3)))
        BY <2>1, <3>2 DEF Item
      <4>2. InAt(f, k, Event("RelayData", j, Shake(3)))'
        BY <4>1, PayloadTypes DEF InRests
      <4> QED
        BY <3>2, <4>2 DEF Item
    <3>3. CASE q = 3
      <4>1. OutAt(Peer(f, j), k, Event("RelayData", j, Shake(3)))
        BY <2>1, <3>3 DEF Item
      <4>2. OutAt(Peer(f, j), k, Event("RelayData", j, Shake(3)))'
        BY <2>2, <4>1, PayloadTypes DEF OutRests, OutAt
      <4> QED
        BY <3>3, <4>2 DEF Item
    <3> QED
      BY <3>1, <3>2, <3>3
  <2> QED
    BY <2>3 DEF UnderWay
<1> QED
  BY <1>3, <1>4, <1>5 DEF Carries

\* So does the loop of f, as long as the task waits for message 3.
LEMMA TakenCarries ==
    ASSUME PlaceInv, [Next]_vars, NEW f \in Devices, NEW j \in Sids, f \in party[j],
           NEW t, Takes(f, t), OutRests(Peer(f, j), j),
           \/ /\ chan'[f][j] = chan[f][j]
              /\ hs[f][j] = "wait3" => \A m \in Payloads : Head(inbox[f]) # Event("RelayData", j, m)
           \/ \E m \in Payloads : /\ chan' = [chan EXCEPT ![f][j] = Append(@, m)]
                                  /\ Head(inbox[f]) = Event("RelayData", j, m)
    PROVE  Carries(f, j)
<1>0. TypeOK /\ Peer(f, j)' = Peer(f, j) /\ chan[f][j] \in Seq(Payloads)
  <2>1. TypeOK /\ Peer(f, j)' = Peer(f, j)
    BY Monotone DEF PlaceInv
  <2> QED
    BY <2>1 DEF TypeOK
<1>1. PICK N \in Nat : N = Len(chan[f][j]) + 1
  BY <1>0
<1>2. Flows(f, j, 1, N)
  <2>1. \/ chan'[f][j] = chan[f][j]
        \/ \E m \in Payloads : /\ chan' = [chan EXCEPT ![f][j] = Append(@, m)]
                               /\ Head(inbox[f]) = Event("RelayData", j, m)
    OBVIOUS
  <2>2. \A k \in Nat, m \in Payloads : OutAt(Peer(f, j), k, Event("RelayData", j, m))' =>
           OutAt(Peer(f, j), k, Event("RelayData", j, m))
    BY DEF OutRests
  <2> QED
    BY <1>1, <2>1, <2>2, FlowTaken
<1>3. 1 \in Nat /\ 1 # 2
  OBVIOUS
<1>4. Keeps(f, j)
  BY <1>1, <1>2, <1>3, FlowsKeep DEF Keeps
<1>5. FrameArrived(f, j)' => FrameArrived(f, j)
  BY <1>1, <1>2, <1>3, FlowArrives
<1>6. ASSUME UnderWay(f, j, Shake(3)), hs[f][j] = "wait3" PROVE UnderWay(f, j, Shake(3))'
  <2>1. PICK q \in 1 .. 3, k \in Nat : Item(f, j, q, k, Shake(3))
    BY <1>6 DEF UnderWay
  <2>2. PICK g \in Events : g = Event("RelayData", j, Shake(3))
    BY DataFacts, PayloadTypes
  <2>3. CASE q = 1
    <3>1. ChanAt(f, j, k, Shake(3))
      BY <2>1, <2>3 DEF Item
    <3>2. ChanAt(f, j, k, Shake(3))'
      <4>1. CASE chan'[f][j] = chan[f][j]
        BY <3>1, <4>1 DEF ChanAt
      <4>2. ASSUME NEW m \in Payloads, chan' = [chan EXCEPT ![f][j] = Append(@, m)]
            PROVE  ChanAt(f, j, k, Shake(3))'
        <5>1. chan'[f][j] = Append(chan[f][j], m)
          BY <1>0, <4>2 DEF TypeOK
        <5> QED
          BY <1>0, <3>1, <5>1 DEF ChanAt
      <4> QED
        BY <4>1, <4>2
    <3> QED
      BY <2>3, <3>2 DEF UnderWay, Item
  <2>4. CASE q = 2 /\ k # 1
    <3>1. InAt(f, k, g)
      BY <2>1, <2>2, <2>4 DEF Item
    <3>2. PICK l \in Nat : k = l + 1 /\ l > 0
      <4>1. k > 0 /\ k # 1
        BY <2>4, <3>1 DEF InAt
      <4>2. k - 1 \in Nat /\ k = (k - 1) + 1 /\ k - 1 > 0
        BY <4>1
      <4> QED
        BY <4>2
    <3>3. InAt(f, l, g)'
      BY <1>0, <3>1, <3>2, InTaken
    <3>4. Item(f, j, 2, l, Shake(3))'
      BY <2>2, <3>3 DEF Item
    <3> QED
      BY <3>4 DEF UnderWay
  <2>5. CASE q = 2 /\ k = 1
    <3>1. inbox[f][1] = g
      BY <2>1, <2>2, <2>5 DEF Item, InAt
    <3>2. Head(inbox[f]) = g
      BY <1>0, <3>1 DEF TypeOK, Takes
    <3>3. PICK m \in Payloads : /\ chan' = [chan EXCEPT ![f][j] = Append(@, m)]
                                /\ Head(inbox[f]) = Event("RelayData", j, m)
      BY <1>6, <2>2, <3>2, PayloadTypes
    <3>4. m = Shake(3)
      BY <2>2, <3>2, <3>3, DataFacts, PayloadTypes
    <3>5. chan'[f][j] = Append(chan[f][j], m)
      BY <1>0, <3>3 DEF TypeOK
    <3>6. ChanAt(f, j, N, Shake(3))'
      BY <1>0, <1>1, <3>4, <3>5 DEF ChanAt
    <3>7. Item(f, j, 1, N, Shake(3))'
      BY <3>6 DEF Item
    <3> QED
      BY <3>7 DEF UnderWay
  <2>6. CASE q = 3
    <3>1. OutAt(Peer(f, j), k, Event("RelayData", j, Shake(3)))
      BY <2>1, <2>6 DEF Item
    <3>2. OutAt(Peer(f, j), k, Event("RelayData", j, Shake(3)))'
      BY <1>0, <3>1, PayloadTypes DEF OutRests, OutAt
    <3> QED
      BY <2>6, <3>2 DEF UnderWay, Item
  <2> QED
    BY <2>3, <2>4, <2>5, <2>6
<1> QED
  BY <1>4, <1>5, <1>6 DEF Carries

\* The loop of a device carries the payloads to every device.
LEMMA LoopCarries ==
    ASSUME PlaceInv, StageInv, [Next]_vars, NEW d \in Devices, LoopStep(d),
           NEW f \in Devices, NEW j \in Sids, f \in party[j]
    PROVE  Carries(f, j)
<1> USE DEF net, noise
<1> DEFINE p == Peer(f, j)
<1>0. TypeOK /\ p \in Devices
  BY PeerFacts DEF PlaceInv
<1>1. CASE DispatchDone(d)
  <2>1. chan' = chan /\ inbox' = inbox /\ out' = out
    BY <1>1 DEF DispatchDone
  <2>2. InRests(f, j)
    BY <2>1, InSame
  <2>3. OutRests(p, j)
    BY <1>0, <2>1, OutSame
  <2>4. chan'[f][j] = chan[f][j]
    BY <2>1
  <2> QED
    BY <2>2, <2>3, <2>4, RestsCarry
<1>2. ASSUME NEW t, Takes(d, t), OutRests(p, j),
             \/ chan' = chan /\ t # "RelayData"
             \/ t = "RelayData" /\ OnRelayData(d)
      PROVE  Carries(f, j)
  <2>1. CASE f # d
    <3>1. inbox'[f] = inbox[f] /\ chan'[f][j] = chan[f][j]
      <4>1. inbox'[f] = inbox[f]
        BY <1>0, <1>2, <2>1 DEF Takes, TypeOK
      <4>2. chan' = chan \/ \E i \in Sids : \E m : chan' = [chan EXCEPT ![d][i] = Append(@, m)]
        <5>1. CASE OnRelayData(d)
          <6>1. Head(inbox[d]).sid \in Sids
            <7>1. Takes(d, "RelayData")
              BY <5>1 DEF OnRelayData
            <7> QED
              BY <1>0, <7>1, TakenEvent, InTaken DEF InOK
          <6> QED
            BY <5>1, <6>1 DEF OnRelayData
        <5> QED
          BY <1>2, <5>1
      <4> QED
        BY <1>0, <2>1, <4>1, <4>2 DEF TypeOK
    <3> QED
      BY <1>2, <3>1, InSame, RestsCarry
  <2>2. CASE f = d
    <3>1. Head(inbox[f]) \in Events /\ Head(inbox[f]).type = t
      BY <1>0, <1>2, <2>2, InTaken
    <3>2. CASE chan' = chan /\ t # "RelayData"
      <4>1. \A m \in Payloads : Head(inbox[f]) # Event("RelayData", j, m)
        BY <3>1, <3>2, DataFacts
      <4> QED
        BY <1>2, <2>2, <3>2, <4>1, TakenCarries
    <3>3. CASE t = "RelayData" /\ OnRelayData(d)
      <4>1. PICK i \in Sids, m \in Payloads : Head(inbox[f]) = Event("RelayData", i, m)
                /\ Head(inbox[f]).sid = i /\ Head(inbox[f]).arg = m
        <5>1. InOK(f, Head(inbox[f]))
          BY <1>2, <2>2, TakenEvent
        <5>2. Head(inbox[f]).sid \in Sids /\ Head(inbox[f]).arg \in Payloads
          BY <3>1, <3>3, <5>1 DEF InOK
        <5> QED
          BY <3>1, <3>3, <5>2, EventParts
      <4>2. CASE i \in waiters[d]
        <5>1. chan' = [chan EXCEPT ![f][i] = Append(@, m)]
          BY <2>2, <3>3, <4>1, <4>2 DEF OnRelayData
        <5>2. CASE i = j
          <6>1. \E x \in Payloads : /\ chan' = [chan EXCEPT ![f][j] = Append(@, x)]
                                    /\ Head(inbox[f]) = Event("RelayData", j, x)
            BY <4>1, <5>1, <5>2
          <6> QED
            BY <1>2, <2>2, <6>1, TakenCarries
        <5>3. CASE i # j
          <6>1. chan'[f][j] = chan[f][j]
            BY <1>0, <5>1, <5>3 DEF TypeOK
          <6>2. \A x \in Payloads : Head(inbox[f]) # Event("RelayData", j, x)
            BY <4>1, <5>3, DataFacts
          <6> QED
            BY <1>2, <2>2, <6>1, <6>2, TakenCarries
        <5> QED
          BY <5>2, <5>3
      <4>3. CASE i \notin waiters[d]
        <5>1. chan' = chan
          BY <2>2, <3>3, <4>1, <4>3 DEF OnRelayData
        <5>2. ASSUME hs[f][j] = "wait3" PROVE \A x \in Payloads : Head(inbox[f]) # Event("RelayData", j, x)
          <6>1. j \in waiters[d]
            BY <2>2, <5>2 DEF StageInv, StageOK, Started
          <6> QED
            BY <4>1, <4>3, <6>1, DataFacts
        <5> QED
          BY <1>2, <2>2, <5>1, <5>2, TakenCarries
      <4> QED
        BY <4>2, <4>3
    <3> QED
      BY <1>2, <3>2, <3>3
  <2> QED
    BY <2>1, <2>2
<1>3. CASE OnIncomingCandidates(d)
  <2>1. Takes(d, "IncomingCandidates") /\ chan' = chan
    BY <1>3 DEF OnIncomingCandidates
  <2>2. Head(inbox[d]).sid \in Sids
    BY <2>1, TakenEvent, <1>0, InTaken DEF InOK
  <2>3. PICK i \in Sids, yes \in BOOLEAN : out' = Sent(d, Event("CandidateResult", i, Likely(yes)))
    <3>1. PICK b : b = (sessions[d][Head(inbox[d]).arg[2]] # None) /\ b \in BOOLEAN
      OBVIOUS
    <3> QED
      BY <1>3, <2>2, <3>1, Zenon DEF OnIncomingCandidates
  <2>4. PICK e \in Events : out' = Sent(d, e) /\ e.type = "CandidateResult"
    BY <2>3, EventTypes, EventFacts
  <2>5. OutRests(p, j)
    BY <1>0, <2>4, OutRestsSent
  <2> QED
    BY <1>2, <2>1, <2>5
<1>4. CASE OnCandidateResult(d)
  <2>1. Takes(d, "CandidateResult") /\ chan' = chan
    BY <1>4 DEF OnCandidateResult
  <2>2. Head(inbox[d]).sid \in Sids
    BY <2>1, TakenEvent, <1>0, InTaken DEF InOK
  <2>3. out' = out \/ out' = Sent(d, Event("RequestRelay", Head(inbox[d]).sid, None))
    BY <1>4 DEF OnCandidateResult
  <2>4. CASE out' # out
    <3>1. PICK e \in Events : out' = Sent(d, e) /\ e.type = "RequestRelay"
      BY <2>2, <2>3, <2>4, EventTypes, EventFacts
    <3>2. OutRests(p, j)
      BY <1>0, <3>1, OutRestsSent
    <3> QED
      BY <1>2, <2>1, <3>2
  <2>5. CASE out' = out
    <3>1. OutRests(p, j)
      BY <1>0, <2>5, OutSame
    <3> QED
      BY <1>2, <2>1, <3>1
  <2> QED
    BY <2>4, <2>5
<1>5. CASE OnRelayReady(d) \/ OnRelayClosed(d) \/ OnDisconnected(d)
  <2>1. PICK t : Takes(d, t) /\ t # "RelayData"
    <3>1. "RelayReady" # "RelayData" /\ "RelayClosed" # "RelayData" /\ "Disconnected" # "RelayData"
      OBVIOUS
    <3>2. \/ Takes(d, "RelayReady") \/ Takes(d, "RelayClosed") \/ Takes(d, "Disconnected")
      BY <1>5 DEF OnRelayReady, OnRelayClosed, OnDisconnected
    <3> QED
      BY <3>1, <3>2
  <2>2. chan' = chan /\ out' = out
    BY <1>5 DEF OnRelayReady, OnRelayClosed, OnDisconnected
  <2>3. OutRests(p, j)
    BY <1>0, <2>2, OutSame
  <2> QED
    BY <1>2, <2>1, <2>2, <2>3
<1>6. CASE OnRelayData(d)
  <2>1. Takes(d, "RelayData") /\ out' = out
    BY <1>6 DEF OnRelayData
  <2>2. OutRests(p, j)
    BY <1>0, <2>1, OutSame
  <2> QED
    BY <1>2, <1>6, <2>1, <2>2
<1> QED
  BY <1>1, <1>3, <1>4, <1>5, <1>6 DEF LoopStep

\* Steps that touch neither queues nor channel.
LEMMA QuietCarries ==
    ASSUME PlaceInv, [Next]_vars, NEW f \in Devices, NEW j \in Sids, f \in party[j],
           chan'[f][j] = chan[f][j], inbox' = inbox, out' = out
    PROVE  Carries(f, j)
<1>1. Peer(f, j) \in Devices
  BY PeerFacts DEF PlaceInv
<1>2. InRests(f, j)
  BY InSame
<1>3. OutRests(Peer(f, j), j)
  BY <1>1, OutSame
<1> QED
  BY <1>2, <1>3, RestsCarry

\* An offer, and the server's closing of a relay.
LEMMA OfferCarries ==
    ASSUME PlaceInv, [Next]_vars, NEW f \in Devices, NEW j \in Sids, f \in party[j],
           \/ \E d, p \in Devices, i \in Sids : ConnectToPeerViaInternet(d, p, i)
           \/ \E i \in Sids : ServerCloses(i)
    PROVE  Carries(f, j)
<1>0. TypeOK /\ Peer(f, j) \in Devices
  BY PeerFacts DEF PlaceInv
<1>1. ASSUME NEW d \in Devices, NEW p \in Devices, NEW i \in Sids, ConnectToPeerViaInternet(d, p, i)
      PROVE  Carries(f, j)
  <2>1. PICK e \in Events : out' = Sent(d, e) /\ e.type = "OfferCandidates"
    BY <1>1, EventTypes, EventFacts DEF ConnectToPeerViaInternet
  <2>2. OutRests(Peer(f, j), j)
    BY <1>0, <2>1, OutRestsSent
  <2>3. inbox' = inbox /\ chan' = chan
    BY <1>1 DEF ConnectToPeerViaInternet
  <2>4. InRests(f, j)
    BY <2>3, InSame
  <2> QED
    BY <2>2, <2>3, <2>4, RestsCarry
<1>2. ASSUME NEW i \in Sids, ServerCloses(i) PROVE Carries(f, j)
  <2>1. inbox' = ToAll(Reached(i), Event("RelayClosed", i, None)) /\ out' = out /\ chan' = chan
    BY <1>2 DEF ServerCloses
  <2>2. PICK e \in Events : inbox' = ToAll(Reached(i), e) /\ e.type = "RelayClosed"
    BY <2>1, EventTypes, EventFacts
  <2>3. InRests(f, j)
    BY <1>0, <2>2, InRestsAdded
  <2>4. OutRests(Peer(f, j), j)
    BY <1>0, <2>1, OutSame
  <2> QED
    BY <2>1, <2>3, <2>4, RestsCarry
<1> QED
  BY <1>1, <1>2

\* A payload sent to another device, or in another session.
LEMMA SentElsewhere ==
    ASSUME PlaceInv, [Next]_vars, NEW f \in Devices, NEW j \in Sids, f \in party[j],
           NEW d \in Devices, NEW i \in Sids, d \in party[i], NEW x \in Payloads,
           out' = Sent(d, Event("RelayData", i, x)), inbox' = inbox,
           chan'[f][j] = chan[f][j], ~ (j = i /\ d = Peer(f, j))
    PROVE  Carries(f, j)
<1>0. TypeOK /\ Peer(f, j) \in Devices
  BY PeerFacts DEF PlaceInv
<1>1. PICK e \in Events : out' = Sent(d, e) /\ e.sid = i
  BY DataFacts
<1>2. OutRests(Peer(f, j), j)
  BY <1>0, <1>1, OutRestsSent
<1>3. InRests(f, j)
  BY InSame
<1> QED
  BY <1>2, <1>3, RestsCarry

\* The server takes a message of a device that is not the peer of f.
LEMMA ServedElsewhere ==
    ASSUME PlaceInv, [Next]_vars, NEW f \in Devices, NEW j \in Sids, f \in party[j],
           NEW d \in Devices, ServerForwards(d), d # Peer(f, j)
    PROVE  Carries(f, j)
<1>0. TypeOK /\ PartyInv /\ Peer(f, j) \in Devices
  BY PeerFacts DEF PlaceInv
<1>1. PICK m \in Events, e \in Events, ds \in SUBSET Devices :
         /\ OutOK(d, m) /\ e.sid = m.sid /\ inbox' = ToAll(ds, e)
         /\ e.type = "RelayData" => e = m /\ ds \subseteq Others(d, m.sid)
  <2>1. PICK m \in Events, e \in Events, ds \in SUBSET Devices :
         /\ OutOK(d, m) /\ e.sid = m.sid /\ inbox' = ToAll(ds, e)
         /\ \/ e = Event("IncomingCandidates", m.sid, Named(d))
            \/ m.type = "CandidateResult" /\ e = m
            \/ e = Event("RelayReady", m.sid, None)
            \/ e = m /\ ds \subseteq Others(d, m.sid)
    <3>1. PICK m \in Events, e \in Events, ds \in SUBSET Devices :
              /\ OutOK(d, m)
              /\ e.sid = m.sid
              /\ inbox' = ToAll(ds, e)
              /\ \/ e = Event("IncomingCandidates", m.sid, Named(d))
                 \/ m.type = "CandidateResult" /\ e = m
                 \/ e = Event("RelayReady", m.sid, None)
                 \/ e = m /\ ds = IF m.sid \in relayed THEN Others(d, m.sid) ELSE {}
      BY Forwarding
    <3>2. (IF m.sid \in relayed THEN Others(d, m.sid) ELSE {}) \subseteq Others(d, m.sid)
      OBVIOUS
    <3> QED
      BY <3>1, <3>2
  <2>2. /\ Event("IncomingCandidates", m.sid, Named(d)).type = "IncomingCandidates"
        /\ Event("RelayReady", m.sid, None).type = "RelayReady"
    BY EventFacts
  <2>3. e.type = "RelayData" => e = m /\ ds \subseteq Others(d, m.sid)
    BY <2>1, <2>2
  <2> QED
    BY <2>1, <2>3
<1>2. e.type = "RelayData" /\ e.sid = j => f \notin ds
  <2> SUFFICES ASSUME e.type = "RelayData", e.sid = j PROVE f \notin ds
    OBVIOUS
  <2>1. d \in party[j]
    BY <1>1 DEF OutOK
  <2>2. d = f
    BY <1>0, <2>1, PeerFacts
  <2> QED
    BY <1>1, <2>2 DEF Others
<1>3. InRests(f, j)
  BY <1>0, <1>1, <1>2, InRestsAdded
<1>4. chan' = chan /\ out' = [out EXCEPT ![d] = Tail(@)]
  BY DEF ServerForwards
<1>5. out'[Peer(f, j)] = out[Peer(f, j)]
  BY <1>0, <1>4 DEF TypeOK
<1>6. OutRests(Peer(f, j), j)
  BY <1>0, <1>5, OutSame
<1> QED
  BY <1>3, <1>4, <1>6, RestsCarry

\* A WebSocket that drops takes what its device has not sent with it.
LEMMA DropMoves ==
    ASSUME PlaceInv, [Next]_vars, NEW f \in Devices, NEW j \in Sids, f \in party[j],
           NEW d \in Devices, WebSocketDrops(d)
    PROVE  /\ Keeps(f, j) /\ (FrameArrived(f, j)' => FrameArrived(f, j))
           /\ d # Peer(f, j) => Carries(f, j)
           /\ \A q \in 1 .. 2, k \in Nat, m \in Payloads :
                 Item(f, j, q, k, m) => Item(f, j, q, k, m)'
<1>0. TypeOK /\ Peer(f, j) \in Devices
  BY PeerFacts DEF PlaceInv
<1>1. /\ chan' = chan /\ out' = [out EXCEPT ![d] = <<>>]
      /\ inbox' = [inbox EXCEPT ![d] = Append(@, Event("Disconnected", None, None))]
  BY DEF WebSocketDrops
<1>2. inbox' = ToAll({d}, Event("Disconnected", None, None))
  BY <1>0, <1>1 DEF ToAll, TypeOK
<1>3. PICK e \in Events : inbox' = ToAll({d}, e) /\ e.type = "Disconnected"
  BY <1>2, EventTypes, EventFacts
<1>4. InRests(f, j)
  BY <1>0, <1>3, InRestsAdded
<1>5. Flows(f, j, 9, 0)
  <2>1. \A k \in Nat, m \in Payloads : InAt(f, k, Event("RelayData", j, m))' =>
           InAt(f, k, Event("RelayData", j, m))
    BY <1>4 DEF InRests
  <2>2. out'[Peer(f, j)] = out[Peer(f, j)] \/ out'[Peer(f, j)] = <<>>
    BY <1>0, <1>1 DEF TypeOK
  <2>3. \A k \in Nat, m \in Payloads : OutAt(Peer(f, j), k, Event("RelayData", j, m))' =>
           OutAt(Peer(f, j), k, Event("RelayData", j, m))
    BY <1>0, <2>2, Monotone DEF OutAt
  <2> QED
    BY <1>1, <2>1, <2>3, FlowRests
<1>6. 9 \in Nat /\ 0 \in Nat /\ 9 # 2
  OBVIOUS
<1>7. Keeps(f, j)
  BY <1>5, <1>6, FlowsKeep DEF Keeps
<1>8. FrameArrived(f, j)' => FrameArrived(f, j)
  BY <1>5, <1>6, FlowArrives
<1>9. ASSUME d # Peer(f, j) PROVE Carries(f, j)
  <2>1. out'[Peer(f, j)] = out[Peer(f, j)]
    BY <1>0, <1>1, <1>9 DEF TypeOK
  <2>2. OutRests(Peer(f, j), j)
    BY <1>0, <2>1, OutSame
  <2> QED
    BY <1>1, <1>4, <2>2, RestsCarry
<1>10. ASSUME NEW q \in 1 .. 2, NEW k \in Nat, NEW m \in Payloads, Item(f, j, q, k, m)
       PROVE  Item(f, j, q, k, m)'
  <2>1. CASE q = 1
    BY <1>1, <1>10, <2>1 DEF Item, ChanAt
  <2>2. CASE q = 2
    <3>1. InAt(f, k, Event("RelayData", j, m))
      BY <1>10, <2>2 DEF Item
    <3>2. InAt(f, k, Event("RelayData", j, m))'
      BY <1>4, <3>1 DEF InRests
    <3> QED
      BY <2>2, <3>2 DEF Item
  <2> QED
    BY <2>1, <2>2
<1> QED
  BY <1>7, <1>8, <1>9, <1>10

\* The server takes a message of the peer of f: relay data goes to the inbox of
\* f, or nothing gets through any more.
LEMMA ServedPeer ==
    ASSUME PlaceInv, [Next]_vars, NEW f \in Devices, NEW j \in Sids, f \in party[j],
           NEW d \in Devices, ServerForwards(d), d = Peer(f, j)
    PROVE  /\ Keeps(f, j)
           /\ FrameArrived(f, j)' => FrameArrived(f, j) \/ ~ Blocked(j)
           /\ /\ UnderWay(f, j, Shake(3))
              /\ f \in linked \/ <<f, j>> \in cut
              /\ d \in linked \/ <<d, j>> \in cut
              =>
                 \/ UnderWay(f, j, Shake(3))'
                 \/ /\ Blocked(j)' /\ Item(f, j, 3, 1, Shake(3))
                    /\ FrameArrived(f, j)' => FrameArrived(f, j)
<1>0. TypeOK /\ PartyInv /\ Peer(f, j) \in Devices /\ party[j] = {f, d} /\ f # d /\ Peer(f, j)' = d
  BY PeerFacts, Monotone DEF PlaceInv
<1>1. /\ chan' = chan /\ out[d] # <<>> /\ out' = [out EXCEPT ![d] = Tail(@)]
      /\ UNCHANGED <<party, cut>>
  BY DEF ServerForwards
<1>2. PICK m \in Events, e \in Events, ds \in SUBSET Devices :
         /\ m = Head(out[d]) /\ inbox' = ToAll(ds, e)
         /\ e.type = "RelayData" \/ m.type = "RelayData" =>
               /\ e = m /\ ds = IF m.sid \in relayed THEN Others(d, m.sid) ELSE {}
               /\ relayed' = relayed
  <2>1. PICK m \in Events, e \in Events, ds \in SUBSET Devices :
           /\ m = Head(out[d]) /\ inbox' = ToAll(ds, e)
           /\ \/ m.type = "OfferCandidates" /\ e = Event("IncomingCandidates", m.sid, Named(d))
              \/ m.type = "CandidateResult" /\ e = m
              \/ m.type = "RequestRelay" /\ e = Event("RelayReady", m.sid, None)
              \/ /\ m.type = "RelayData" /\ e = m
                 /\ ds = IF m.sid \in relayed THEN Others(d, m.sid) ELSE {}
                 /\ relayed' = relayed
    BY Forwarding
  <2>2. /\ Event("IncomingCandidates", m.sid, Named(d)).type = "IncomingCandidates"
        /\ Event("RelayReady", m.sid, None).type = "RelayReady"
    BY EventFacts
  <2>3. e.type = "RelayData" \/ m.type = "RelayData" =>
               /\ e = m /\ ds = IF m.sid \in relayed THEN Others(d, m.sid) ELSE {}
               /\ relayed' = relayed
    BY <2>1, <2>2
  <2> QED
    BY <2>1, <2>3
<1>3. PICK N \in Nat : N = Len(inbox[f]) + 1
  BY <1>0 DEF TypeOK
<1>4. Flows(f, j, 2, N)
  <2>1. e.type = "RelayData" => e = Head(out[d])
    BY <1>2
  <2>2. inbox' = ToAll(ds, e)
    BY <1>2
  <2> QED
    BY <1>1, <1>3, <2>1, <2>2, FlowServed
<1>5. Keeps(f, j)
  <2>1. 2 \in Nat
    OBVIOUS
  <2> QED
    BY <1>3, <1>4, <2>1, FlowsKeep DEF Keeps
<1>6. \A k \in Nat, g \in Events :
         InAt(f, k, g)' <=> InAt(f, k, g) \/ (f \in ds /\ k = N /\ g = e)
  BY <1>0, <1>2, <1>3, InAdded
<1>7. \A k \in Nat, g \in Events : OutAt(d, k, g)' <=> k > 0 /\ OutAt(d, k + 1, g)
  BY <1>0, <1>1, OutTail
<1>8. ASSUME NEW x \in Payloads, e = Event("RelayData", j, x)
      PROVE  m = e /\ e \in Events /\ relayed' = relayed /\ (f \in ds => ~ Blocked(j))
             /\ ((f \in linked \/ <<f, j>> \in cut) /\ (d \in linked \/ <<d, j>> \in cut) =>
                   (f \in ds <=> ~ Blocked(j)))
  <2>1. e.type = "RelayData" /\ e.sid = j
    BY <1>8, DataFacts
  <2>2. m = e /\ ds = (IF j \in relayed THEN Others(d, j) ELSE {}) /\ relayed' = relayed
    BY <1>2, <2>1
  <2>3. f \in ds <=> j \in relayed /\ d \in linked /\ <<d, j>> \notin cut
                     /\ f \in linked /\ <<f, j>> \notin cut
    BY <1>0, <2>2 DEF Others, Reached
  <2>4. Blocked(j) <=> j \notin relayed \/ <<d, j>> \in cut \/ <<f, j>> \in cut
    BY <1>0 DEF Blocked
  <2> QED
    BY <2>2, <2>3, <2>4
<1>9. ASSUME FrameArrived(f, j)', ~ FrameArrived(f, j)
      PROVE  \E n \in Nonces : e = Event("RelayData", j, Frame(n)) /\ f \in ds
  <2>1. PICK q \in 1 .. 2, k \in Nat, n \in Nonces : Item(f, j, q, k, Frame(n))'
    BY <1>9 DEF FrameArrived
  <2>2. ~ Item(f, j, q, k, Frame(n))
    BY <1>9 DEF FrameArrived
  <2>3. CASE q = 1
    BY <1>1, <2>1, <2>2, <2>3 DEF Item, ChanAt
  <2>4. CASE q = 2
    <3>1. InAt(f, k, Event("RelayData", j, Frame(n)))' /\ ~ InAt(f, k, Event("RelayData", j, Frame(n)))
      BY <2>1, <2>2, <2>4 DEF Item
    <3>2. Event("RelayData", j, Frame(n)) \in Events
      BY DataFacts, PayloadTypes
    <3> QED
      BY <1>6, <3>1, <3>2
  <2> QED
    BY <2>3, <2>4
<1>10. FrameArrived(f, j)' => FrameArrived(f, j) \/ ~ Blocked(j)
  BY <1>8, <1>9, PayloadTypes
<1>11. ASSUME UnderWay(f, j, Shake(3)), ~ UnderWay(f, j, Shake(3))',
              f \in linked \/ <<f, j>> \in cut, d \in linked \/ <<d, j>> \in cut
       PROVE  /\ Blocked(j)' /\ Item(f, j, 3, 1, Shake(3))
              /\ FrameArrived(f, j)' => FrameArrived(f, j)
  <2>1. PICK g \in Events : g = Event("RelayData", j, Shake(3))
    BY DataFacts, PayloadTypes
  <2>2. PICK q \in 1 .. 3, k \in Nat : Item(f, j, q, k, Shake(3))
    BY <1>11 DEF UnderWay
  <2>3. q # 1
    <3>1. q = 1 => Item(f, j, 1, k, Shake(3))'
      BY <1>1, <2>2 DEF Item, ChanAt
    <3> QED
      BY <1>11, <3>1 DEF UnderWay
  <2>4. q # 2
    <3>1. ASSUME q = 2 PROVE Item(f, j, 2, k, Shake(3))'
      <4>1. InAt(f, k, g)
        BY <2>1, <2>2, <3>1 DEF Item
      <4>2. InAt(f, k, g)'
        BY <1>6, <4>1
      <4> QED
        BY <2>1, <4>2 DEF Item
    <3> QED
      BY <1>11, <3>1 DEF UnderWay
  <2>5. q = 3 /\ OutAt(d, k, g)
    BY <2>1, <2>2, <2>3, <2>4 DEF Item
  <2>6. k = 1
    <3>1. ASSUME k # 1 PROVE \E l \in Nat : Item(f, j, 3, l, Shake(3))'
      <4>1. k - 1 \in Nat /\ k = (k - 1) + 1 /\ k - 1 > 0
        BY <2>5, <3>1 DEF OutAt
      <4>2. PICK l \in Nat : k = l + 1 /\ l > 0
        BY <4>1
      <4>3. OutAt(d, l, g)'
        BY <1>7, <2>5, <4>2
      <4> QED
        BY <1>0, <2>1, <4>3 DEF Item
    <3> QED
      BY <1>11, <3>1 DEF UnderWay
  <2>7. m = g
    BY <1>0, <1>1, <1>2, <2>5, <2>6 DEF OutAt, TypeOK
  <2>8. e = m
    <3>1. m.type = "RelayData"
      BY <2>1, <2>7, DataFacts, PayloadTypes
    <3> QED
      BY <1>2, <3>1
  <2>9. f \notin ds
    <3>1. ASSUME f \in ds PROVE Item(f, j, 2, N, Shake(3))'
      <4>1. InAt(f, N, g)'
        BY <1>6, <2>7, <2>8, <3>1
      <4> QED
        BY <2>1, <4>1 DEF Item
    <3> QED
      BY <1>11, <3>1 DEF UnderWay
  <2>10. Blocked(j) /\ relayed' = relayed
    BY <1>8, <1>11, <2>1, <2>7, <2>8, <2>9, PayloadTypes
  <2>11. Blocked(j)'
    BY <1>1, <2>10 DEF Blocked
  <2> QED
    BY <1>9, <2>2, <2>5, <2>6, <2>9, <2>11
<1> QED
  BY <1>5, <1>10, <1>11

\* The peer of f sends one more payload, x.
Gains(f, j, x) ==
    /\ \A m \in Payloads : m # x => (UnderWay(f, j, m)' => UnderWay(f, j, m))
    /\ \A m \in Payloads : UnderWay(f, j, m) => UnderWay(f, j, m)'
    /\ \A m \in Payloads : OnlyOne(f, j, m) /\ (m = x => ~ UnderWay(f, j, m)) => OnlyOne(f, j, m)'
    /\ Ordered(f, j) /\ (x = Shake(3) => \A n \in Nonces : ~ UnderWay(f, j, Frame(n))) =>
          Ordered(f, j)'
    /\ FrameArrived(f, j)' => FrameArrived(f, j)

LEMMA SentGains ==
    ASSUME PlaceInv, [Next]_vars, NEW f \in Devices, NEW j \in Sids, f \in party[j],
           NEW d \in Devices, d = Peer(f, j), NEW x \in Payloads,
           out' = Sent(d, Event("RelayData", j, x)), inbox' = inbox, chan'[f][j] = chan[f][j]
    PROVE  Gains(f, j, x) /\ (d \in linked => UnderWay(f, j, x)')
<1>1. PICK N \in Nat : N = Len(out[d]) + 1
  BY DEF PlaceInv, TypeOK
<1>2. \A k \in Nat, m \in Payloads : Item(f, j, 3, k, m) => k < N
  BY <1>1, ItemSent
<1>3. \A q \in 1 .. 3, k \in Nat, m \in Payloads : Item(f, j, q, k, m)' <=>
         \/ Item(f, j, q, k, m)
         \/ q = 3 /\ k = N /\ m = x /\ d \in linked
  BY <1>1, ItemSent
<1>4. ASSUME NEW m \in Payloads, m # x, UnderWay(f, j, m)' PROVE UnderWay(f, j, m)
  <2>1. PICK q \in 1 .. 3, k \in Nat : Item(f, j, q, k, m)'
    BY <1>4 DEF UnderWay
  <2> QED
    BY <1>3, <1>4, <2>1 DEF UnderWay
<1>5. ASSUME NEW m \in Payloads, UnderWay(f, j, m) PROVE UnderWay(f, j, m)'
  <2>1. PICK q \in 1 .. 3, k \in Nat : Item(f, j, q, k, m)
    BY <1>5 DEF UnderWay
  <2>2. Item(f, j, q, k, m)'
    BY <1>3, <2>1
  <2> QED
    BY <2>2 DEF UnderWay
<1>6. ASSUME NEW m \in Payloads, OnlyOne(f, j, m), m = x => ~ UnderWay(f, j, m)
      PROVE  OnlyOne(f, j, m)'
  <2> SUFFICES ASSUME NEW q \in 1 .. 3, NEW r \in 1 .. 3, NEW k \in Nat, NEW l \in Nat,
                      Item(f, j, q, k, m)', Item(f, j, r, l, m)'
               PROVE  q = r /\ k = l
    BY DEF OnlyOne
  <2>1. CASE m # x
    <3>1. Item(f, j, q, k, m) /\ Item(f, j, r, l, m)
      BY <1>3, <2>1
    <3> QED
      BY <1>6, <3>1 DEF OnlyOne
  <2>2. CASE m = x
    <3>1. ~ Item(f, j, q, k, m) /\ ~ Item(f, j, r, l, m)
      BY <1>6, <2>2 DEF UnderWay
    <3>2. q = 3 /\ k = N /\ r = 3 /\ l = N
      BY <1>3, <3>1
    <3> QED
      BY <3>2
  <2> QED
    BY <2>1, <2>2
<1>7. ASSUME Ordered(f, j), x = Shake(3) => \A n \in Nonces : ~ UnderWay(f, j, Frame(n))
      PROVE  Ordered(f, j)'
  <2> SUFFICES ASSUME NEW q \in 1 .. 3, NEW r \in 1 .. 3, NEW k \in Nat, NEW l \in Nat,
                      NEW n \in Nonces, Item(f, j, q, k, Shake(3))',
                      Item(f, j, r, l, Frame(n))'
               PROVE  Before(q, k, r, l)
    BY DEF Ordered, Before
  <2>1. Shake(3) \in Payloads /\ Frame(n) \in Payloads /\ Shake(3) # Frame(n)
    BY PayloadTypes, PayloadFacts
  <2>2. \/ Item(f, j, q, k, Shake(3))
        \/ q = 3 /\ k = N /\ x = Shake(3)
    BY <1>3, <2>1
  <2>3. \/ Item(f, j, r, l, Frame(n))
        \/ r = 3 /\ l = N /\ x = Frame(n)
    BY <1>3, <2>1
  <2>4. CASE x = Shake(3)
    <3>1. Item(f, j, r, l, Frame(n))
      BY <2>1, <2>3, <2>4
    <3> QED
      BY <1>7, <2>4, <3>1 DEF UnderWay
  <2>5. CASE x # Shake(3)
    <3>1. Item(f, j, q, k, Shake(3))
      BY <2>2, <2>5
    <3>2. CASE Item(f, j, r, l, Frame(n))
      BY <1>7, <3>1, <3>2 DEF Ordered
    <3>3. CASE r = 3 /\ l = N
      <4>1. q = 3 => k < N
        BY <1>2, <2>1, <3>1
      <4> QED
        BY <3>3, <4>1 DEF Before
    <3> QED
      BY <2>3, <3>2, <3>3
  <2> QED
    BY <2>4, <2>5
<1>8. ASSUME FrameArrived(f, j)' PROVE FrameArrived(f, j)
  <2>1. PICK q \in 1 .. 2, k \in Nat, n \in Nonces : Item(f, j, q, k, Frame(n))'
    BY <1>8 DEF FrameArrived
  <2>2. q \in 1 .. 3 /\ q # 3 /\ Frame(n) \in Payloads
    BY PayloadTypes
  <2>3. Item(f, j, q, k, Frame(n))
    BY <1>3, <2>1, <2>2
  <2> QED
    BY <2>3 DEF FrameArrived
<1>9. ASSUME d \in linked PROVE UnderWay(f, j, x)'
  <2>1. 3 \in 1 .. 3
    OBVIOUS
  <2>2. Item(f, j, 3, N, x)'
    BY <1>3, <1>9, <2>1
  <2> QED
    BY <2>1, <2>2 DEF UnderWay
<1> QED
  BY <1>4, <1>5, <1>6, <1>7, <1>8, <1>9 DEF Gains

\* A task that takes a payload of which there is one leaves none.
LEMMA ReadMoves ==
    ASSUME PlaceInv, [Next]_vars, NEW f \in Devices, NEW j \in Sids, f \in party[j],
           NEW s, NEW x \in Payloads, Receives(f, j, s, x), inbox' = inbox,
           out'[Peer(f, j)] = out[Peer(f, j)]
    PROVE  /\ Keeps(f, j) /\ UnderWay(f, j, x)
           /\ OnlyOne(f, j, x) => ~ UnderWay(f, j, x)'
<1>1. Flows(f, j, 0, 0)
  BY FlowRead
<1>2. Keeps(f, j)
  <2>1. 0 \in Nat
    OBVIOUS
  <2> QED
    BY <1>1, <2>1, FlowsKeep DEF Keeps
<1>3. Item(f, j, 1, 1, x)
  <2>1. chan[f][j] \in Seq(Payloads) /\ chan[f][j] # <<>> /\ Head(chan[f][j]) = x
    BY DEF Receives, PlaceInv, TypeOK
  <2>2. ChanAt(f, j, 1, x)
    BY <2>1 DEF ChanAt
  <2> QED
    BY <2>2 DEF Item
<1>4. UnderWay(f, j, x)
  BY <1>3 DEF UnderWay
<1>5. ASSUME OnlyOne(f, j, x), UnderWay(f, j, x)' PROVE FALSE
  <2>1. PICK q \in 1 .. 3, k \in Nat : Item(f, j, q, k, x)'
    BY <1>5 DEF UnderWay
  <2>2. PICK a \in 1 .. 3, t \in Nat :
           /\ Item(f, j, a, t, x) /\ k > 0
           /\ \/ a = q /\ t = IF q = 0 + 1 THEN k + 1 ELSE k
              \/ q = 0 /\ a = 0 + 1
    BY <1>1, <2>1, Origin
  <2>3. a = 1 /\ t = 1
    BY <1>3, <1>5, <2>2 DEF OnlyOne
  <2> QED
    BY <2>2, <2>3
<1> QED
  BY <1>2, <1>4, <1>5

-----------------------------------------------------------------------------
(* Proofs: the stages of a handshake and what is under way *)

\* What no step changes, and the link of a device whose task runs.
LEMMA LinkKept ==
    ASSUME PlaceInv, [Next]_vars
    PROVE  /\ agree' = agree
           /\ \A f \in Devices, j \in Sids :
                 f \in party[j] /\ (f \in linked \/ <<f, j>> \in cut) =>
                    f \in linked' \/ <<f, j>> \in cut'
<1> USE DEF net, noise
<1>0. cut \subseteq cut'
  BY Monotone
<1>1. CASE agree' = agree /\ linked \subseteq linked'
  BY <1>0, <1>1
<1>2. ASSUME NEW d \in Devices, WebSocketDrops(d)
      PROVE  /\ agree' = agree
             /\ \A f \in Devices, j \in Sids :
                 f \in party[j] /\ (f \in linked \/ <<f, j>> \in cut) =>
                    f \in linked' \/ <<f, j>> \in cut'
  BY <1>0, <1>2 DEF WebSocketDrops
<1>3. ASSUME NEW d \in Devices, LoopStep(d) PROVE agree' = agree /\ linked \subseteq linked'
  BY <1>3 DEF LoopStep, OnIncomingCandidates, OnCandidateResult, OnRelayReady,
              OnRelayData, DispatchDone, OnRelayClosed, OnDisconnected
<1>4. ASSUME NEW d \in Devices, NEW i \in Sids, HandshakeStep(d, i)
      PROVE  agree' = agree /\ linked \subseteq linked'
  BY <1>4 DEF HandshakeStep, HandshakeStarts, ReadsMsg1, ReadsMsg2, ReadsMsg3, Verifies,
              Registers
<1>5. ASSUME NEW d \in Devices,
             ConnectSignalingServer(d) \/ ServerForwards(d) \/ ForwarderSends(d)
      PROVE  agree' = agree /\ linked \subseteq linked'
  BY <1>5 DEF ConnectSignalingServer, ServerForwards, ForwarderSends
<1>6. ASSUME NEW d \in Devices, NEW i \in Sids,
             \/ \E p \in Devices : ConnectToPeerViaInternet(d, p, i)
             \/ SendMessage(d, i) \/ ForwarderEncrypts(d, i)
      PROVE  agree' = agree /\ linked \subseteq linked'
  BY <1>6 DEF ConnectToPeerViaInternet, SendMessage, ForwarderEncrypts
<1>7. ASSUME NEW i \in Sids, ServerCloses(i) PROVE agree' = agree /\ linked \subseteq linked'
  BY <1>7 DEF ServerCloses
<1>8. ASSUME UNCHANGED vars PROVE agree' = agree /\ linked \subseteq linked'
  BY <1>8 DEF vars
<1> QED
  BY <1>1, <1>2, <1>3, <1>4, <1>5, <1>6, <1>7, <1>8 DEF Next

\* A session with a handshake is not relayed a second time.
LEMMA RelayedOnce ==
    ASSUME PlaceInv, OnceInv, [Next]_vars, NEW f \in Devices, NEW j \in Sids,
           hs[f][j] # "none", j \in relayed'
    PROVE  j \in relayed
<1> USE DEF net, noise
<1>1. ASSUME NEW d \in Devices, ServerForwards(d) PROVE j \in relayed
  <2>1. PICK m \in Events :
           /\ OutAt(d, 1, m)
           /\ \/ relayed' = relayed
              \/ m.type = "RequestRelay" /\ relayed' = relayed \cup {m.sid}
    BY <1>1, Forwarding
  <2>2. CASE m.type = "RequestRelay" /\ m.sid = j
    <3>1. TokenAt(j, 2, d, 1)
      BY <2>1, <2>2 DEF TokenAt, IsToken
    <3>2. asked[j] = {}
      <4>1. TokenOK(j)
        BY DEF OnceInv, TokenInv
      <4>2. 2 \in 1 .. 2 /\ 1 \in Nat
        OBVIOUS
      <4> QED
        BY <3>1, <4>1, <4>2 DEF TokenOK
    <3> QED
      BY <3>2 DEF OnceInv, AskedInv
  <2> QED
    BY <2>1, <2>2
<1>2. ASSUME NEW d \in Devices, LoopStep(d) PROVE relayed' = relayed
  BY <1>2 DEF LoopStep, OnIncomingCandidates, OnCandidateResult, OnRelayReady,
              OnRelayData, DispatchDone, OnRelayClosed, OnDisconnected
<1>3. ASSUME NEW d \in Devices, NEW i \in Sids, HandshakeStep(d, i) PROVE relayed' = relayed
  BY <1>3 DEF HandshakeStep, HandshakeStarts, ReadsMsg1, ReadsMsg2, ReadsMsg3, Verifies,
              Registers
<1>4. ASSUME NEW d \in Devices,
             ConnectSignalingServer(d) \/ WebSocketDrops(d) \/ ForwarderSends(d)
      PROVE  relayed' = relayed
  BY <1>4 DEF ConnectSignalingServer, WebSocketDrops, ForwarderSends
<1>5. ASSUME NEW d \in Devices, NEW i \in Sids,
             \/ \E p \in Devices : ConnectToPeerViaInternet(d, p, i)
             \/ SendMessage(d, i) \/ ForwarderEncrypts(d, i)
      PROVE  relayed' = relayed
  BY <1>5 DEF ConnectToPeerViaInternet, SendMessage, ForwarderEncrypts
<1>6. ASSUME NEW i \in Sids, ServerCloses(i) PROVE relayed' \subseteq relayed
  BY <1>6 DEF ServerCloses
<1>7. ASSUME UNCHANGED vars PROVE relayed' = relayed
  BY <1>7 DEF vars
<1> QED
  BY <1>1, <1>2, <1>3, <1>4, <1>5, <1>6, <1>7 DEF Next

\* So once its handshake has begun, a session that is blocked stays blocked.
LEMMA BlockedStays ==
    ASSUME PlaceInv, OnceInv, [Next]_vars, NEW f \in Devices, NEW j \in Sids, f \in party[j],
           hs[f][j] # "none", Blocked(j)
    PROVE  Blocked(j)'
<1>1. party'[j] = party[j] /\ cut \subseteq cut'
  BY Monotone
<1>2. j \in relayed' => j \in relayed
  BY RelayedOnce
<1> QED
  BY <1>1, <1>2 DEF Blocked

\* The payloads under way still fit the stages.
LEMMA ShakeKeeps ==
    ASSUME NEW f \in Devices, NEW j \in Sids, NEW p \in Devices, ShakeOK(f, j, p), Keeps(f, j),
           /\ UnderWay(f, j, Shake(1))' /\ is_initiator(p, f) /\ hs[p][j] = "wait2"
           /\ hs[f][j] \in {"none", "spawned", "wait1"}
           => hs'[p][j] = "wait2" /\ hs'[f][j] \in {"none", "spawned", "wait1"},
           /\ UnderWay(f, j, Shake(2))' /\ is_initiator(f, p) /\ hs[p][j] = "wait3"
           /\ hs[f][j] = "wait2"
           => hs'[p][j] = "wait3" /\ hs'[f][j] = "wait2",
           /\ UnderWay(f, j, Shake(3))' /\ is_initiator(p, f) /\ hs[p][j] \in Proved
           /\ hs[f][j] = "wait3"
           => hs'[p][j] \in Proved /\ hs'[f][j] = "wait3",
           hs[p][j] = "done" => hs'[p][j] = "done"
    PROVE  ShakeOK(f, j, p)'
<1>1. /\ Shake(1) \in Payloads /\ Shake(2) \in Payloads /\ Shake(3) \in Payloads
      /\ \A n \in Nonces : Frame(n) \in Payloads
  BY PayloadTypes
<1>2. /\ UnderWay(f, j, Shake(1))' =>
          is_initiator(p, f) /\ hs'[p][j] = "wait2" /\ hs'[f][j] \in {"none", "spawned", "wait1"}
      /\ UnderWay(f, j, Shake(2))' =>
          is_initiator(f, p) /\ hs'[p][j] = "wait3" /\ hs'[f][j] = "wait2"
      /\ UnderWay(f, j, Shake(3))' =>
          is_initiator(p, f) /\ hs'[p][j] \in Proved /\ hs'[f][j] = "wait3"
  BY <1>1 DEF ShakeOK, Keeps
<1>3. \A n \in Nonces : UnderWay(f, j, Frame(n))' => hs'[p][j] = "done"
  BY <1>1 DEF ShakeOK, Keeps
<1>4. /\ OnlyOne(f, j, Shake(1))' /\ OnlyOne(f, j, Shake(2))' /\ OnlyOne(f, j, Shake(3))'
      /\ Ordered(f, j)'
  BY <1>1 DEF ShakeOK, Keeps
<1>5. is_initiator(p, f)' = is_initiator(p, f) /\ is_initiator(f, p)' = is_initiator(f, p)
  BY DEF is_initiator
<1> QED
  BY <1>2, <1>3, <1>4, <1>5 DEF ShakeOK

\* Message 3 is still under way.
LEMMA ThirdKeeps ==
    ASSUME PlaceInv, OnceInv, [Next]_vars, NEW f \in Devices, NEW j \in Sids, f \in party[j],
           NEW p \in Devices, ThirdOK(f, j, p), Carries(f, j),
           hs'[f][j] = "wait3" /\ hs'[p][j] \in Proved => hs[f][j] = "wait3" /\ hs[p][j] \in Proved
    PROVE  ThirdOK(f, j, p)'
<1> SUFFICES ASSUME hs'[f][j] = "wait3", hs'[p][j] \in Proved, ~ Blocked(j)' \/ FrameArrived(f, j)'
             PROVE  UnderWay(f, j, Shake(3))'
  BY DEF ThirdOK
<1>1. hs[f][j] = "wait3" /\ hs[p][j] \in Proved
  OBVIOUS
<1>2. ~ Blocked(j) \/ FrameArrived(f, j)
  BY <1>1, BlockedStays DEF Carries
<1>3. UnderWay(f, j, Shake(3))
  BY <1>1, <1>2 DEF ThirdOK
<1> QED
  BY <1>1, <1>3 DEF Carries

\* Everything the third layer says of one device of a session.
Good(f, j, p) == StageOK(f, j, p) /\ ShakeOK(f, j, p) /\ ThirdOK(f, j, p)

LEMMA StageStill ==
    ASSUME PlaceInv, [Next]_vars, NEW f \in Devices, NEW j \in Sids, f \in party[j],
           NEW p \in Devices, StageOK(f, j, p),
           hs'[f][j] = hs[f][j], hs'[p][j] = hs[p][j], j \in waiters'[f] <=> j \in waiters[f]
    PROVE  StageOK(f, j, p)'
  BY LinkKept DEF StageOK, is_initiator

LEMMA GoodStill ==
    ASSUME PlaceInv, OnceInv, [Next]_vars, NEW f \in Devices, NEW j \in Sids, f \in party[j],
           NEW p \in Devices, Good(f, j, p), Carries(f, j),
           hs'[f][j] = hs[f][j], hs'[p][j] = hs[p][j], j \in waiters'[f] <=> j \in waiters[f]
    PROVE  Good(f, j, p)'
<1>1. StageOK(f, j, p)'
  BY StageStill DEF Good
<1>2. ShakeOK(f, j, p)'
  BY ShakeKeeps DEF Good, Carries
<1>3. ThirdOK(f, j, p)'
  BY ThirdKeeps DEF Good
<1> QED
  BY <1>1, <1>2, <1>3 DEF Good

\* The server's step.
LEMMA ServedGood ==
    ASSUME PlaceInv, OnceInv, [Next]_vars, NEW d \in Devices, ServerForwards(d),
           NEW f \in Devices, NEW j \in Sids, f \in party[j], NEW p \in Devices, p = Peer(f, j),
           Good(f, j, p), StageOK(p, j, f)
    PROVE  Good(f, j, p)'
<1>0. hs' = hs /\ waiters' = waiters
  BY DEF ServerForwards
<1>1. CASE d # p
  <2>1. Carries(f, j)
    BY <1>1, ServedElsewhere
  <2> QED
    BY <1>0, <2>1, GoodStill
<1>2. CASE d = p
  <2>1. StageOK(f, j, p)'
    BY <1>0, StageStill DEF Good
  <2>2. Keeps(f, j)
    BY <1>2, ServedPeer
  <2>3. ShakeOK(f, j, p)'
    BY <1>0, <2>2, ShakeKeeps DEF Good
  <2>4. ThirdOK(f, j, p)'
    <3> SUFFICES ASSUME hs'[f][j] = "wait3", hs'[p][j] \in Proved,
                        ~ Blocked(j)' \/ FrameArrived(f, j)'
                 PROVE  UnderWay(f, j, Shake(3))'
      BY DEF ThirdOK
    <3>1. hs[f][j] = "wait3" /\ hs[p][j] \in Proved
      BY <1>0
    <3>2. FrameArrived(f, j)' => FrameArrived(f, j) \/ ~ Blocked(j)
      BY <1>2, ServedPeer
    <3>3. Blocked(j) => Blocked(j)'
      BY <3>1, BlockedStays
    <3>4. UnderWay(f, j, Shake(3))
      BY <3>1, <3>2, <3>3 DEF Good, ThirdOK
    <3>5. (f \in linked \/ <<f, j>> \in cut) /\ (d \in linked \/ <<d, j>> \in cut)
      BY <1>2, <3>1 DEF Good, StageOK, Proved
    <3>6. \/ UnderWay(f, j, Shake(3))'
          \/ /\ Blocked(j)' /\ Item(f, j, 3, 1, Shake(3))
             /\ FrameArrived(f, j)' => FrameArrived(f, j)
      BY <1>2, <3>4, <3>5, ServedPeer
    <3>7. ASSUME Item(f, j, 3, 1, Shake(3)), FrameArrived(f, j) PROVE FALSE
      <4>1. PICK q \in 1 .. 2, k \in Nat, n \in Nonces : Item(f, j, q, k, Frame(n))
        BY <3>7 DEF FrameArrived
      <4>2. q \in 1 .. 3 /\ 3 \in 1 .. 3 /\ 1 \in Nat
        OBVIOUS
      <4>3. Before(3, 1, q, k)
        BY <3>7, <4>1, <4>2 DEF Good, ShakeOK, Ordered
      <4> QED
        BY <4>3 DEF Before
    <3> QED
      BY <3>6, <3>7
  <2> QED
    BY <2>1, <2>3, <2>4 DEF Good
<1> QED
  BY <1>1, <1>2

\* A WebSocket drops.
LEMMA DropGood ==
    ASSUME PlaceInv, OnceInv, [Next]_vars, NEW d \in Devices, WebSocketDrops(d),
           NEW f \in Devices, NEW j \in Sids, f \in party[j], NEW p \in Devices, p = Peer(f, j),
           Good(f, j, p)
    PROVE  Good(f, j, p)'
<1>0. hs' = hs /\ waiters' = waiters
  BY DEF WebSocketDrops
<1>1. CASE d # p
  <2>1. Carries(f, j)
    BY <1>1, DropMoves
  <2> QED
    BY <1>0, <2>1, GoodStill
<1>2. CASE d = p
  <2>1. StageOK(f, j, p)'
    BY <1>0, StageStill DEF Good
  <2>2. Keeps(f, j)
    BY DropMoves
  <2>3. ShakeOK(f, j, p)'
    BY <1>0, <2>2, ShakeKeeps DEF Good
  <2>4. ThirdOK(f, j, p)'
    <3> SUFFICES ASSUME hs'[f][j] = "wait3", hs'[p][j] \in Proved,
                        ~ Blocked(j)' \/ FrameArrived(f, j)'
                 PROVE  UnderWay(f, j, Shake(3))'
      BY DEF ThirdOK
    <3>1. d \in party[j] /\ party' = party
      BY <1>2, PeerFacts DEF PlaceInv, WebSocketDrops
    <3>2. Blocked(j)'
      BY <3>1 DEF Blocked, WebSocketDrops
    <3>3. FrameArrived(f, j)
      BY <3>2, DropMoves
    <3>4. UnderWay(f, j, Shake(3))
      BY <1>0, <3>3 DEF Good, ThirdOK
    <3>5. PICK q \in 1 .. 3, k \in Nat : Item(f, j, q, k, Shake(3))
      BY <3>4 DEF UnderWay
    <3>6. PICK r \in 1 .. 2, l \in Nat, n \in Nonces : Item(f, j, r, l, Frame(n))
      BY <3>3 DEF FrameArrived
    <3>7. r \in 1 .. 3
      OBVIOUS
    <3>8. Before(q, k, r, l)
      BY <3>5, <3>6, <3>7 DEF Good, ShakeOK, Ordered
    <3>9. q \in 1 .. 2
      BY <3>8 DEF Before
    <3>10. Item(f, j, q, k, Shake(3))'
      BY <3>5, <3>9, DropMoves, PayloadTypes
    <3> QED
      BY <3>10 DEF UnderWay
  <2> QED
    BY <2>1, <2>3, <2>4 DEF Good
<1> QED
  BY <1>1, <1>2

\* A frame is sent.
LEMMA FrameGood ==
    ASSUME PlaceInv, OnceInv, [Next]_vars, NEW d \in Devices, NEW i \in Sids, d \in party[i],
           hs[d][i] = "done", NEW n \in Nonces, out' = Sent(d, Event("RelayData", i, Frame(n))),
           inbox' = inbox, chan' = chan, hs' = hs, waiters' = waiters,
           NEW f \in Devices, NEW j \in Sids, f \in party[j], NEW p \in Devices, p = Peer(f, j),
           Good(f, j, p)
    PROVE  Good(f, j, p)'
<1>0. Frame(n) \in Payloads
  BY PayloadTypes
<1>1. CASE ~ (j = i /\ d = p)
  <2>1. Carries(f, j)
    BY <1>0, <1>1, SentElsewhere
  <2> QED
    BY <2>1, GoodStill
<1>2. CASE j = i /\ d = p
  <2>1. StageOK(f, j, p)'
    BY StageStill DEF Good
  <2>2. Gains(f, j, Frame(n))
    BY <1>0, <1>2, SentGains
  <2>3. ShakeOK(f, j, p)'
    <3>1. /\ Shake(1) \in Payloads /\ Shake(2) \in Payloads /\ Shake(3) \in Payloads
          /\ Shake(1) # Frame(n) /\ Shake(2) # Frame(n) /\ Shake(3) # Frame(n)
      BY PayloadTypes, PayloadFacts
    <3>2. /\ UnderWay(f, j, Shake(1))' => UnderWay(f, j, Shake(1))
          /\ UnderWay(f, j, Shake(2))' => UnderWay(f, j, Shake(2))
          /\ UnderWay(f, j, Shake(3))' => UnderWay(f, j, Shake(3))
      BY <2>2, <3>1 DEF Gains
    <3>3. /\ OnlyOne(f, j, Shake(1))' /\ OnlyOne(f, j, Shake(2))' /\ OnlyOne(f, j, Shake(3))'
          /\ Ordered(f, j)'
      BY <2>2, <3>1 DEF Gains, Good, ShakeOK
    <3>4. \A l \in Nonces : UnderWay(f, j, Frame(l))' => hs'[p][j] = "done"
      BY <1>2
    <3> QED
      BY <3>2, <3>3, <3>4 DEF Good, ShakeOK, is_initiator
  <2>4. ThirdOK(f, j, p)'
    <3> SUFFICES ASSUME hs'[f][j] = "wait3", hs'[p][j] \in Proved,
                        ~ Blocked(j)' \/ FrameArrived(f, j)'
                 PROVE  UnderWay(f, j, Shake(3))'
      BY DEF ThirdOK
    <3>1. ~ Blocked(j) \/ FrameArrived(f, j)
      BY <2>2, BlockedStays DEF Gains
    <3>2. UnderWay(f, j, Shake(3))
      BY <3>1 DEF Good, ThirdOK
    <3> QED
      BY <2>2, <3>2, PayloadTypes DEF Gains
  <2> QED
    BY <2>1, <2>3, <2>4 DEF Good
<1> QED
  BY <1>1, <1>2

\* One of two devices leads.
LEMMA Roles ==
    ASSUME NEW d \in Devices, NEW p \in Devices, d # p
    PROVE  is_initiator(d, p) <=> ~ is_initiator(p, d)
  BY RelayAssumption DEF is_initiator

\* At these stages nothing is on its way to f.
LEMMA NothingOnWay ==
    ASSUME NEW f \in Devices, NEW j \in Sids, NEW p \in Devices, ShakeOK(f, j, p),
           ~ (/\ is_initiator(p, f) /\ hs[p][j] = "wait2"
              /\ hs[f][j] \in {"none", "spawned", "wait1"}),
           ~ (is_initiator(f, p) /\ hs[p][j] = "wait3" /\ hs[f][j] = "wait2"),
           ~ (is_initiator(p, f) /\ hs[p][j] \in Proved /\ hs[f][j] = "wait3"),
           hs[p][j] # "done"
    PROVE  \A m \in Payloads : ~ UnderWay(f, j, m)
<1>1. \A n \in Nonces : ~ UnderWay(f, j, Frame(n))
  BY DEF ShakeOK
<1>2. ~ UnderWay(f, j, Shake(1)) /\ ~ UnderWay(f, j, Shake(2)) /\ ~ UnderWay(f, j, Shake(3))
  BY DEF ShakeOK
<1> QED
  BY <1>1, <1>2, PayloadTypes

\* A handshake message is sent when nothing is on its way.
LEMMA FirstOnWay ==
    ASSUME NEW f \in Devices, NEW j \in Sids, NEW p \in Devices, NEW x \in Payloads,
           ShakeOK(f, j, p), Gains(f, j, x), \A m \in Payloads : ~ UnderWay(f, j, m),
           \/ /\ x = Shake(1) /\ is_initiator(p, f) /\ hs'[p][j] = "wait2"
              /\ hs'[f][j] \in {"none", "spawned", "wait1"}
           \/ /\ x = Shake(2) /\ is_initiator(f, p) /\ hs'[p][j] = "wait3"
              /\ hs'[f][j] = "wait2"
           \/ /\ x = Shake(3) /\ is_initiator(p, f) /\ hs'[p][j] \in Proved
              /\ hs'[f][j] = "wait3"
    PROVE  ShakeOK(f, j, p)'
<1>1. /\ Shake(1) \in Payloads /\ Shake(2) \in Payloads /\ Shake(3) \in Payloads
      /\ \A n \in Nonces : Frame(n) \in Payloads
  BY PayloadTypes
<1>2. /\ Shake(1) # Shake(2) /\ Shake(1) # Shake(3) /\ Shake(2) # Shake(3)
      /\ \A n \in Nonces : Shake(1) # Frame(n) /\ Shake(2) # Frame(n) /\ Shake(3) # Frame(n)
  BY DEF Shake, Frame
<1>3. \A m \in Payloads : m # x => ~ UnderWay(f, j, m)'
  BY DEF Gains
<1>4. \A n \in Nonces : ~ UnderWay(f, j, Frame(n))'
  BY <1>1, <1>2, <1>3
<1>5. /\ UnderWay(f, j, Shake(1))' => x = Shake(1)
      /\ UnderWay(f, j, Shake(2))' => x = Shake(2)
      /\ UnderWay(f, j, Shake(3))' => x = Shake(3)
  BY <1>1, <1>3
<1>6. /\ OnlyOne(f, j, Shake(1))' /\ OnlyOne(f, j, Shake(2))' /\ OnlyOne(f, j, Shake(3))'
      /\ Ordered(f, j)'
  BY <1>1 DEF Gains, ShakeOK
<1>7. is_initiator(p, f)' = is_initiator(p, f) /\ is_initiator(f, p)' = is_initiator(f, p)
  BY DEF is_initiator
<1>8. /\ x = Shake(1) => is_initiator(p, f) /\ hs'[p][j] = "wait2"
                         /\ hs'[f][j] \in {"none", "spawned", "wait1"}
      /\ x = Shake(2) => is_initiator(f, p) /\ hs'[p][j] = "wait3" /\ hs'[f][j] = "wait2"
      /\ x = Shake(3) => is_initiator(p, f) /\ hs'[p][j] \in Proved /\ hs'[f][j] = "wait3"
  BY <1>2
<1> QED
  BY <1>4, <1>5, <1>6, <1>7, <1>8 DEF ShakeOK

\* The two parties of a session.
Both(d, i, p) ==
    /\ d \in Devices /\ p \in Devices /\ d # p /\ i \in Sids
    /\ d \in party[i] /\ p \in party[i] /\ p = Peer(d, i) /\ d = Peer(p, i)
    /\ Good(d, i, p) /\ Good(p, i, d)

\* The task starts, and the initiator sends message 1.
LEMMA StartsGood ==
    ASSUME PlaceInv, OnceInv, [Next]_vars, NEW d \in Devices, NEW i \in Sids, NEW p \in Devices,
           Both(d, i, p), HandshakeStarts(d, i)
    PROVE  Good(d, i, p)' /\ Good(p, i, d)'
<1> USE DEF net, noise
<1>0. /\ d # p /\ d \in party[i] /\ p \in party[i] /\ p = Peer(d, i) /\ d = Peer(p, i)
      /\ StageOK(d, i, p) /\ ShakeOK(d, i, p) /\ StageOK(p, i, d) /\ ShakeOK(p, i, d)
  BY DEF Both, Good
<1>1. /\ hs[d][i] = "spawned" /\ hs'[p][i] = hs[p][i]
      /\ i \in waiters'[d] /\ (i \in waiters'[p] <=> i \in waiters[p])
      /\ chan' = chan /\ inbox' = inbox
  BY <1>0 DEF HandshakeStarts, Goto, PlaceInv, TypeOK
<1>2. Shake(1) \in Payloads
  BY PayloadTypes
<1>3. CASE is_initiator(d, p)
  <2>0. ~ is_initiator(p, d)
    BY <1>0, <1>3, Roles
  <2>1. hs'[d][i] = "wait2" /\ out' = Sent(d, Event("RelayData", i, Shake(1)))
    BY <1>0, <1>3 DEF HandshakeStarts, Goto, PlaceInv, TypeOK
  <2>2. StageOK(d, i, p)'
    BY <1>0, <1>1, <1>3, <2>0, <2>1, LinkKept DEF StageOK, is_initiator, Proved, Started
  <2>3. hs[p][i] \in {"none", "spawned", "wait1"}
    BY <1>0, <1>1, <1>3, <2>0 DEF StageOK, Proved, PlaceInv, TypeOK, Stages
  <2>4. StageOK(p, i, d)'
    BY <1>0, <1>1, <2>1, <2>3, LinkKept DEF StageOK, is_initiator, Proved, Started
  <2>5. Carries(d, i)
    BY <1>0, <1>1, <1>2, <2>1, SentElsewhere
  <2>6. ShakeOK(d, i, p)'
    BY <1>0, <1>1, <2>0, <2>5, ShakeKeeps DEF Carries
  <2>7. Gains(p, i, Shake(1))
    BY <1>0, <1>1, <1>2, <2>1, SentGains
  <2>8. \A m \in Payloads : ~ UnderWay(p, i, m)
    BY <1>0, <1>1, <2>0, NothingOnWay DEF Proved
  <2>9. ShakeOK(p, i, d)'
    BY <1>0, <1>1, <1>2, <1>3, <2>1, <2>3, <2>7, <2>8, FirstOnWay
  <2>10. ThirdOK(d, i, p)' /\ ThirdOK(p, i, d)'
    BY <2>1 DEF ThirdOK, Proved
  <2> QED
    BY <2>2, <2>4, <2>6, <2>9, <2>10 DEF Good
<1>4. CASE ~ is_initiator(d, p)
  <2>0. is_initiator(p, d)
    BY <1>0, <1>4, Roles
  <2>1. hs'[d][i] = "wait1" /\ out' = out
    BY <1>0, <1>4 DEF HandshakeStarts, Goto, PlaceInv, TypeOK
  <2>2. StageOK(d, i, p)'
    BY <1>0, <1>1, <1>4, <2>1, LinkKept DEF StageOK, is_initiator, Proved, Started
  <2>3. StageOK(p, i, d)'
    BY <1>0, <1>1, <1>4, <2>0, <2>1, LinkKept DEF StageOK, is_initiator, Proved, Started
  <2>4. Carries(d, i) /\ Carries(p, i)
    BY <1>0, <1>1, <2>1, QuietCarries
  <2>5. ShakeOK(d, i, p)'
    BY <1>0, <1>1, <2>1, <2>4, ShakeKeeps DEF Carries
  <2>6. ShakeOK(p, i, d)'
    BY <1>0, <1>1, <2>1, <2>4, ShakeKeeps DEF Carries, Proved
  <2>7. ThirdOK(d, i, p)' /\ ThirdOK(p, i, d)'
    BY <2>1 DEF ThirdOK, Proved
  <2> QED
    BY <2>2, <2>3, <2>5, <2>6, <2>7 DEF Good
<1> QED
  BY <1>3, <1>4

\* The responder reads message 1 and sends message 2.
LEMMA Msg1Good ==
    ASSUME PlaceInv, OnceInv, [Next]_vars, NEW d \in Devices, NEW i \in Sids, NEW p \in Devices,
           Both(d, i, p), ReadsMsg1(d, i)
    PROVE  Good(d, i, p)' /\ Good(p, i, d)'
<1> USE DEF net, noise
<1>0. /\ d # p /\ d \in party[i] /\ p \in party[i] /\ p = Peer(d, i) /\ d = Peer(p, i)
      /\ StageOK(d, i, p) /\ ShakeOK(d, i, p) /\ StageOK(p, i, d) /\ ShakeOK(p, i, d)
  BY DEF Both, Good
<1>1. /\ hs[d][i] = "wait1" /\ hs'[d][i] = "wait3" /\ hs'[p][i] = hs[p][i]
      /\ waiters' = waiters /\ inbox' = inbox /\ chan'[p][i] = chan[p][i]
      /\ Receives(d, i, "wait1", Shake(1)) /\ out' = Sent(d, Event("RelayData", i, Shake(2)))
  BY <1>0 DEF ReadsMsg1, Receives, Goto, PlaceInv, TypeOK
<1>2. Shake(1) \in Payloads /\ Shake(2) \in Payloads
  BY PayloadTypes
<1>3. out'[p] = out[p]
  BY <1>0, <1>1 DEF Sent, PlaceInv, TypeOK
<1>4. Keeps(d, i) /\ UnderWay(d, i, Shake(1)) /\ (OnlyOne(d, i, Shake(1)) => ~ UnderWay(d, i, Shake(1))')
  BY <1>0, <1>1, <1>2, <1>3, ReadMoves
<1>5. is_initiator(p, d) /\ ~ is_initiator(d, p) /\ hs[p][i] = "wait2"
  BY <1>0, <1>4, Roles DEF ShakeOK
<1>6. StageOK(d, i, p)'
  BY <1>0, <1>1, <1>5, LinkKept DEF StageOK, is_initiator, Proved, Started
<1>7. StageOK(p, i, d)'
  BY <1>0, <1>1, <1>5, LinkKept DEF StageOK, is_initiator, Proved, Started
<1>8. ~ UnderWay(d, i, Shake(1))'
  BY <1>0, <1>4 DEF ShakeOK
<1>9. ShakeOK(d, i, p)'
  BY <1>0, <1>1, <1>4, <1>8, ShakeKeeps
<1>10. Gains(p, i, Shake(2))
  BY <1>0, <1>1, <1>2, SentGains
<1>11. \A m \in Payloads : ~ UnderWay(p, i, m)
  BY <1>0, <1>1, <1>5, NothingOnWay
<1>12. ShakeOK(p, i, d)'
  BY <1>0, <1>1, <1>2, <1>5, <1>10, <1>11, FirstOnWay
<1>13. ThirdOK(d, i, p)' /\ ThirdOK(p, i, d)'
  BY <1>1, <1>5 DEF ThirdOK, Proved
<1> QED
  BY <1>6, <1>7, <1>9, <1>12, <1>13 DEF Good

\* The initiator reads message 2 and sends message 3, unless its link is gone.
LEMMA Msg2Good ==
    ASSUME PlaceInv, OnceInv, [Next]_vars, NEW d \in Devices, NEW i \in Sids, NEW p \in Devices,
           Both(d, i, p), ReadsMsg2(d, i)
    PROVE  Good(d, i, p)' /\ Good(p, i, d)'
<1> USE DEF net, noise
<1>0. /\ d # p /\ d \in party[i] /\ p \in party[i] /\ p = Peer(d, i) /\ d = Peer(p, i)
      /\ StageOK(d, i, p) /\ ShakeOK(d, i, p) /\ StageOK(p, i, d) /\ ShakeOK(p, i, d)
  BY DEF Both, Good
<1>1. /\ hs[d][i] = "wait2" /\ hs'[d][i] = "check" /\ hs'[p][i] = hs[p][i]
      /\ waiters' = waiters /\ inbox' = inbox /\ chan'[p][i] = chan[p][i]
      /\ Receives(d, i, "wait2", Shake(2)) /\ out' = Sent(d, Event("RelayData", i, Shake(3)))
  BY <1>0 DEF ReadsMsg2, Receives, Goto, PlaceInv, TypeOK
<1>2. Shake(2) \in Payloads /\ Shake(3) \in Payloads
  BY PayloadTypes
<1>3. out'[p] = out[p]
  BY <1>0, <1>1 DEF Sent, PlaceInv, TypeOK
<1>4. Keeps(d, i) /\ UnderWay(d, i, Shake(2)) /\ (OnlyOne(d, i, Shake(2)) => ~ UnderWay(d, i, Shake(2))')
  BY <1>0, <1>1, <1>2, <1>3, ReadMoves
<1>5. is_initiator(d, p) /\ ~ is_initiator(p, d) /\ hs[p][i] = "wait3"
  BY <1>0, <1>4, Roles DEF ShakeOK
<1>6. StageOK(d, i, p)'
  BY <1>0, <1>1, <1>5, LinkKept DEF StageOK, is_initiator, Proved, Started
<1>7. StageOK(p, i, d)'
  BY <1>0, <1>1, <1>5, LinkKept DEF StageOK, is_initiator, Proved, Started
<1>8. ~ UnderWay(d, i, Shake(2))'
  BY <1>0, <1>4 DEF ShakeOK
<1>9. ShakeOK(d, i, p)'
  BY <1>0, <1>1, <1>4, <1>5, <1>8, ShakeKeeps
<1>10. Gains(p, i, Shake(3)) /\ (d \in linked => UnderWay(p, i, Shake(3))')
  BY <1>0, <1>1, <1>2, SentGains
<1>11. \A m \in Payloads : ~ UnderWay(p, i, m)
  BY <1>0, <1>1, <1>5, NothingOnWay DEF Proved
<1>12. ShakeOK(p, i, d)'
  <2>1. hs'[d][i] \in Proved /\ hs'[p][i] = "wait3"
    BY <1>1, <1>5 DEF Proved
  <2> QED
    BY <1>0, <1>2, <1>5, <1>10, <1>11, <2>1, FirstOnWay
<1>13. ThirdOK(d, i, p)'
  BY <1>1 DEF ThirdOK
<1>14. ThirdOK(p, i, d)'
  <2>1. CASE d \in linked
    BY <1>10, <2>1 DEF ThirdOK
  <2>2. CASE d \notin linked
    <3>1. <<d, i>> \in cut
      BY <1>0, <1>1, <2>2 DEF StageOK
    <3>2. Blocked(i)
      BY <1>0, <3>1 DEF Blocked
    <3>3. Blocked(i)'
      BY <1>0, <1>1, <3>2, BlockedStays
    <3>4. ~ FrameArrived(p, i)
      <4>1. \A n \in Nonces : ~ UnderWay(p, i, Frame(n))
        BY <1>11, PayloadTypes
      <4>2. \A q \in 1 .. 2 : q \in 1 .. 3
        OBVIOUS
      <4> QED
        BY <4>1, <4>2 DEF FrameArrived, UnderWay
    <3>5. ~ FrameArrived(p, i)'
      BY <1>10, <3>4 DEF Gains
    <3> QED
      BY <3>3, <3>5 DEF ThirdOK
  <2> QED
    BY <2>1, <2>2
<1> QED
  BY <1>6, <1>7, <1>9, <1>12, <1>13, <1>14 DEF Good

\* The responder reads message 3.
LEMMA Msg3Good ==
    ASSUME PlaceInv, OnceInv, [Next]_vars, NEW d \in Devices, NEW i \in Sids, NEW p \in Devices,
           Both(d, i, p), ReadsMsg3(d, i)
    PROVE  Good(d, i, p)' /\ Good(p, i, d)'
<1> USE DEF net, noise
<1>0. /\ d # p /\ d \in party[i] /\ p \in party[i] /\ p = Peer(d, i) /\ d = Peer(p, i)
      /\ StageOK(d, i, p) /\ ShakeOK(d, i, p) /\ StageOK(p, i, d) /\ ShakeOK(p, i, d)
  BY DEF Both, Good
<1>1. /\ hs[d][i] = "wait3" /\ hs'[d][i] = "check" /\ hs'[p][i] = hs[p][i]
      /\ waiters' = waiters /\ inbox' = inbox /\ chan'[p][i] = chan[p][i]
      /\ Receives(d, i, "wait3", Shake(3)) /\ out' = out
  BY <1>0 DEF ReadsMsg3, Receives, Goto, PlaceInv, TypeOK
<1>2. Shake(3) \in Payloads
  BY PayloadTypes
<1>3. out'[p] = out[p]
  BY <1>1
<1>4. Keeps(d, i) /\ UnderWay(d, i, Shake(3)) /\ (OnlyOne(d, i, Shake(3)) => ~ UnderWay(d, i, Shake(3))')
  BY <1>0, <1>1, <1>2, <1>3, ReadMoves
<1>5. is_initiator(p, d) /\ ~ is_initiator(d, p) /\ hs[p][i] \in Proved
  BY <1>0, <1>4, Roles DEF ShakeOK
<1>6. StageOK(d, i, p)'
  BY <1>0, <1>1, <1>5, LinkKept DEF StageOK, is_initiator, Proved, Started
<1>7. StageOK(p, i, d)'
  BY <1>0, <1>1, <1>5, LinkKept DEF StageOK, is_initiator, Proved, Started
<1>8. ~ UnderWay(d, i, Shake(3))'
  BY <1>0, <1>4 DEF ShakeOK
<1>9. ShakeOK(d, i, p)'
  BY <1>0, <1>1, <1>4, <1>8, ShakeKeeps
<1>10. Carries(p, i)
  BY <1>0, <1>1, QuietCarries
<1>11. ShakeOK(p, i, d)'
  BY <1>0, <1>1, <1>5, <1>10, ShakeKeeps DEF Carries, Proved
<1>12. ThirdOK(d, i, p)' /\ ThirdOK(p, i, d)'
  BY <1>1, <1>5 DEF ThirdOK, Proved
<1> QED
  BY <1>6, <1>7, <1>9, <1>11, <1>12 DEF Good

\* The task compares the ids, and enters the session.
LEMMA ProvedGood ==
    ASSUME PlaceInv, OnceInv, [Next]_vars, NEW d \in Devices, NEW i \in Sids, NEW p \in Devices,
           Both(d, i, p), Verifies(d, i) \/ Registers(d, i)
    PROVE  Good(d, i, p)' /\ Good(p, i, d)'
<1> USE DEF net, noise
<1>0. /\ d # p /\ d \in party[i] /\ p \in party[i] /\ p = Peer(d, i) /\ d = Peer(p, i)
      /\ StageOK(d, i, p) /\ ShakeOK(d, i, p) /\ StageOK(p, i, d) /\ ShakeOK(p, i, d)
      /\ ThirdOK(d, i, p) /\ ThirdOK(p, i, d)
  BY DEF Both, Good
<1>1. /\ hs[d][i] \in {"check", "verified"} /\ hs'[p][i] = hs[p][i]
      /\ (i \in waiters'[p] <=> i \in waiters[p])
      /\ chan' = chan /\ inbox' = inbox /\ out' = out
  BY <1>0 DEF Verifies, Registers, Goto, PlaceInv, TypeOK
<1>2. \/ hs'[d][i] = "verified" /\ agree
      \/ hs'[d][i] = "failed" /\ ~ agree /\ (i \in waiters'[d] <=> i \in waiters[d])
                 /\ hs[d][i] = "check"
      \/ hs'[d][i] = "done" /\ hs[d][i] = "verified"
  BY <1>0 DEF Verifies, Registers, Goto, PlaceInv, TypeOK
<1>3. hs[d][i] \in Proved /\ hs'[d][i] \in Proved
  BY <1>1, <1>2 DEF Proved
<1>4. StageOK(d, i, p)'
  BY <1>0, <1>1, <1>2, LinkKept DEF StageOK, is_initiator, Proved, Started
<1>5. StageOK(p, i, d)'
  BY <1>0, <1>1, <1>2, LinkKept DEF StageOK, is_initiator, Proved, Started
<1>6. Carries(d, i) /\ Carries(p, i)
  BY <1>0, <1>1, QuietCarries
<1>7. ShakeOK(d, i, p)'
  BY <1>0, <1>1, <1>6, ShakeKeeps DEF Carries
<1>8. ShakeOK(p, i, d)'
  BY <1>0, <1>1, <1>3, <1>6, ShakeKeeps DEF Carries
<1>9. ThirdOK(d, i, p)'
  BY <1>2 DEF ThirdOK
<1>10. ThirdOK(p, i, d)'
  BY <1>0, <1>1, <1>3, <1>6, ThirdKeeps
<1> QED
  BY <1>4, <1>5, <1>7, <1>8, <1>9, <1>10 DEF Good

\* The loop handles RelayReady of a session that has no handshake.
LEMMA ReadyFacts ==
    ASSUME PlaceInv, OnceInv, NEW d \in Devices, OnRelayReady(d), NEW i,
           i = Head(inbox[d]).sid
    PROVE  i \in Sids /\ d \in party[i] /\ hs[d][i] = "none" /\ (d \in linked \/ <<d, i>> \in cut)
<1>1. Takes(d, "RelayReady") /\ TypeOK
  BY DEF OnRelayReady, PlaceInv
<1>2. /\ Head(inbox[d]) \in Events /\ InAt(d, 1, Head(inbox[d]))
      /\ Head(inbox[d]).type = "RelayReady"
  BY <1>1, InTaken
<1>3. Head(inbox[d]).arg = None /\ i \in Sids /\ d \in party[i]
  BY <1>1, <1>2, TakenEvent DEF InOK
<1>4. Head(inbox[d]) = Event("RelayReady", i, None)
  BY <1>2, <1>3, EventParts
<1>5. InAt(d, 1, Event("RelayReady", i, None)) /\ 1 \in Nat
  BY <1>2, <1>4
<1> QED
  BY <1>3, <1>5 DEF OnceInv, ReadyInv

\* The task is spawned.
LEMMA ReadyGood ==
    ASSUME PlaceInv, OnceInv, StageInv, [Next]_vars, NEW d \in Devices, NEW i \in Sids,
           NEW p \in Devices, Both(d, i, p), OnRelayReady(d), Head(inbox[d]).sid = i
    PROVE  Good(d, i, p)' /\ Good(p, i, d)'
<1> USE DEF net, noise
<1>0. /\ d # p /\ d \in party[i] /\ p \in party[i] /\ p = Peer(d, i) /\ d = Peer(p, i)
      /\ StageOK(d, i, p) /\ ShakeOK(d, i, p) /\ StageOK(p, i, d) /\ ShakeOK(p, i, d)
      /\ ThirdOK(d, i, p) /\ ThirdOK(p, i, d)
  BY DEF Both, Good
<1>1. Carries(d, i) /\ Carries(p, i)
  BY <1>0, LoopCarries DEF LoopStep
<1>2. waiters' = waiters /\ (hs' = hs \/ hs' = [hs EXCEPT ![d][i] = "spawned"])
  BY DEF OnRelayReady
<1>3. CASE hs' = hs
  BY <1>0, <1>1, <1>2, <1>3, GoodStill DEF Both
<1>4. CASE hs' = [hs EXCEPT ![d][i] = "spawned"]
  <2>1. hs'[d][i] = "spawned" /\ hs'[p][i] = hs[p][i]
    BY <1>0, <1>4 DEF PlaceInv, TypeOK
  <2>3. hs[d][i] = "none" /\ (d \in linked \/ <<d, i>> \in cut)
    BY ReadyFacts
  <2>4. StageOK(d, i, p)'
    BY <1>0, <2>1, <2>3, LinkKept DEF StageOK, is_initiator, Proved, Started
  <2>5. StageOK(p, i, d)'
    BY <1>0, <1>2, <2>1, <2>3, LinkKept DEF StageOK, is_initiator, Proved, Started
  <2>6. ShakeOK(d, i, p)'
    BY <1>0, <1>1, <2>1, <2>3, ShakeKeeps DEF Carries
  <2>7. ShakeOK(p, i, d)'
    BY <1>0, <1>1, <2>1, <2>3, ShakeKeeps DEF Carries, Proved
  <2>8. ThirdOK(d, i, p)' /\ ThirdOK(p, i, d)'
    BY <2>1 DEF ThirdOK, Proved
  <2> QED
    BY <2>4, <2>5, <2>6, <2>7, <2>8 DEF Good
<1> QED
  BY <1>2, <1>3, <1>4

-----------------------------------------------------------------------------
(* Proofs: every step keeps the handshakes in step *)

LEMMA BothGood ==
    ASSUME PlaceInv, HandshakeInv, NEW d \in Devices, NEW i \in Sids, d \in party[i]
    PROVE  Both(d, i, Peer(d, i))
<1>1. /\ Peer(d, i) \in Devices /\ Peer(d, i) \in party[i] /\ Peer(d, i) # d
      /\ Peer(Peer(d, i), i) = d
  BY PeerFacts DEF PlaceInv
<1>2. \A f \in Devices : f \in party[i] => Good(f, i, Peer(f, i))
  BY DEF HandshakeInv, StageInv, ShakeInv, ThirdInv, Good
<1> QED
  BY <1>1, <1>2 DEF Both

\* The tasks of handshakes.
LEMMA TaskGood ==
    ASSUME PlaceInv, OnceInv, HandshakeInv, [Next]_vars, NEW d \in Devices, NEW i \in Sids,
           HandshakeStep(d, i), NEW f \in Devices, NEW j \in Sids, f \in party[j],
           NEW p \in Devices, p = Peer(f, j)
    PROVE  Good(f, j, p)'
<1> USE DEF net, noise
<1>1. hs[d][i] # "none"
  BY DEF HandshakeStep, HandshakeStarts, ReadsMsg1, ReadsMsg2, ReadsMsg3, Receives, Verifies,
         Registers
<1>2. d \in party[i]
  BY <1>1 DEF PlaceInv, PartyInv
<1>3. Both(f, j, p)
  BY BothGood
<1>4. CASE j = i
  <2>1. PICK e \in Devices : e = Peer(d, i) /\ Both(d, i, e)
    BY <1>2, BothGood, PeerFacts DEF PlaceInv
  <2>2. Good(d, i, e)' /\ Good(e, i, d)'
    BY <2>1, StartsGood, Msg1Good, Msg2Good, Msg3Good, ProvedGood DEF HandshakeStep
  <2>3. (f = d /\ p = e) \/ (f = e /\ p = d)
    BY <1>2, <1>4, <2>1, PeerFacts DEF PlaceInv
  <2> QED
    BY <1>4, <2>2, <2>3
<1>5. CASE j # i
  <2>1. /\ hs'[f][j] = hs[f][j] /\ hs'[p][j] = hs[p][j]
        /\ (j \in waiters'[f] <=> j \in waiters[f])
        /\ chan'[f][j] = chan[f][j]
    <3>0. /\ hs \in [Devices -> [Sids -> Stages]]
          /\ waiters \in [Devices -> SUBSET Sids]
          /\ chan \in [Devices -> [Sids -> Seq(Payloads)]]
      BY DEF PlaceInv, TypeOK
    <3>1. PICK to : hs' = [hs EXCEPT ![d][i] = to]
      BY DEF HandshakeStep, HandshakeStarts, ReadsMsg1, ReadsMsg2, ReadsMsg3, Verifies, Registers, Goto
    <3>2. \/ waiters' = waiters
          \/ waiters' = [waiters EXCEPT ![d] = @ \cup {i}]
          \/ waiters' = [waiters EXCEPT ![d] = @ \ {i}]
      BY DEF HandshakeStep, HandshakeStarts, ReadsMsg1, ReadsMsg2, ReadsMsg3, Verifies, Registers
    <3>3. chan' = chan \/ chan' = [chan EXCEPT ![d][i] = Tail(@)]
      BY DEF HandshakeStep, HandshakeStarts, ReadsMsg1, ReadsMsg2, ReadsMsg3, Receives, Verifies,
             Registers
    <3>4. hs'[f][j] = hs[f][j] /\ hs'[p][j] = hs[p][j]
      BY <1>5, <3>0, <3>1
    <3>5. j \in waiters'[f] <=> j \in waiters[f]
      <4>1. waiters' = waiters => waiters'[f] = waiters[f]
        OBVIOUS
      <4>2. waiters' = [waiters EXCEPT ![d] = @ \cup {i}] =>
               waiters'[f] = IF f = d THEN waiters[f] \cup {i} ELSE waiters[f]
        BY <3>0
      <4>3. waiters' = [waiters EXCEPT ![d] = @ \ {i}] =>
               waiters'[f] = IF f = d THEN waiters[f] \ {i} ELSE waiters[f]
        BY <3>0
      <4> QED
        BY <1>5, <3>2, <4>1, <4>2, <4>3
    <3>6. chan'[f][j] = chan[f][j]
      <4>1. CASE chan' = chan
        BY <4>1
      <4>2. CASE chan' = [chan EXCEPT ![d][i] = Tail(@)]
        <5>1. PICK s : chan' = [chan EXCEPT ![d][i] = s]
          BY <4>2
        <5> QED
          BY <1>5, <3>0, <5>1
      <4> QED
        BY <3>3, <4>1, <4>2
    <3> QED
      BY <3>4, <3>5, <3>6
  <2>2. /\ inbox' = inbox
        /\ \/ out' = out
           \/ \E k \in 1 .. 3 : out' = Sent(d, Event("RelayData", i, Shake(k)))
    BY DEF HandshakeStep, HandshakeStarts, ReadsMsg1, ReadsMsg2, ReadsMsg3, Verifies, Registers
  <2>3. Carries(f, j)
    <3>1. CASE out' = out
      BY <2>1, <2>2, <3>1, QuietCarries
    <3>2. ASSUME NEW k \in 1 .. 3, out' = Sent(d, Event("RelayData", i, Shake(k)))
          PROVE  Carries(f, j)
      <4>1. Shake(k) \in Payloads
        BY PayloadFacts
      <4> QED
        BY <1>2, <1>5, <2>1, <2>2, <3>2, <4>1, SentElsewhere
    <3> QED
      BY <2>2, <3>1, <3>2
  <2> QED
    BY <1>3, <2>1, <2>3, GoodStill DEF Both
<1> QED
  BY <1>4, <1>5

\* The event loops.
LEMMA LoopGood ==
    ASSUME PlaceInv, OnceInv, HandshakeInv, [Next]_vars, NEW d \in Devices, LoopStep(d),
           NEW f \in Devices, NEW j \in Sids, f \in party[j], NEW p \in Devices, p = Peer(f, j)
    PROVE  Good(f, j, p)'
<1> USE DEF net, noise
<1>1. Both(f, j, p)
  BY BothGood
<1>2. Carries(f, j)
  BY LoopCarries DEF HandshakeInv
<1>3. waiters' = waiters
  BY DEF LoopStep, OnIncomingCandidates, OnCandidateResult, OnRelayReady,
         OnRelayData, DispatchDone, OnRelayClosed, OnDisconnected
<1>4. CASE hs' = hs
  BY <1>1, <1>2, <1>3, <1>4, GoodStill DEF Both
<1>5. CASE hs' # hs
  <2>1. OnRelayReady(d)
    BY <1>5 DEF LoopStep, OnIncomingCandidates, OnCandidateResult,
         OnRelayData, DispatchDone, OnRelayClosed, OnDisconnected
  <2>2. PICK i \in Sids : i = Head(inbox[d]).sid /\ d \in party[i]
    BY <2>1, ReadyFacts
  <2>3. PICK e \in Devices : e = Peer(d, i) /\ Both(d, i, e)
    BY <2>2, BothGood, PeerFacts DEF PlaceInv
  <2>4. CASE j = i
    <3>1. Good(d, i, e)' /\ Good(e, i, d)'
      BY <2>1, <2>2, <2>3, ReadyGood DEF HandshakeInv
    <3>2. (f = d /\ p = e) \/ (f = e /\ p = d)
      BY <2>2, <2>3, <2>4, PeerFacts DEF PlaceInv
    <3> QED
      BY <2>4, <3>1, <3>2
  <2>5. CASE j # i
    <3>1. hs' = [hs EXCEPT ![d][i] = "spawned"]
      BY <1>5, <2>1, <2>2 DEF OnRelayReady
    <3>2. hs'[f][j] = hs[f][j] /\ hs'[p][j] = hs[p][j]
      BY <2>5, <3>1 DEF PlaceInv, TypeOK
    <3> QED
      BY <1>1, <1>2, <1>3, <3>2, GoodStill DEF Both
  <2> QED
    BY <2>4, <2>5
<1> QED
  BY <1>4, <1>5

\* Sending over a session.
LEMMA SendGood ==
    ASSUME PlaceInv, OnceInv, HandshakeInv, [Next]_vars, NEW d \in Devices,
           ForwarderSends(d) \/ \E i \in Sids : SendMessage(d, i) \/ ForwarderEncrypts(d, i),
           NEW f \in Devices, NEW j \in Sids, f \in party[j], NEW p \in Devices, p = Peer(f, j)
    PROVE  Good(f, j, p)'
<1> USE DEF net, noise
<1>1. Both(f, j, p)
  BY BothGood
<1>2. hs' = hs /\ waiters' = waiters /\ chan' = chan /\ inbox' = inbox
  BY DEF ForwarderSends, SendMessage, ForwarderEncrypts
<1>3. ASSUME NEW i \in Sids, ForwarderEncrypts(d, i) PROVE Good(f, j, p)'
  <2>1. out' = out
    BY <1>3 DEF ForwarderEncrypts
  <2>2. Carries(f, j)
    BY <1>2, <2>1, QuietCarries
  <2> QED
    BY <1>1, <1>2, <2>2, GoodStill DEF Both
<1>4. ASSUME NEW i \in Sids, SendMessage(d, i) PROVE Good(f, j, p)'
  <2>1. PICK e \in Devices : sessions[d][e] = i
    BY <1>4 DEF SendMessage
  <2>2. sessions[d][e] # None
    BY <2>1, RelayAssumption
  <2>3. d \in party[i] /\ hs[d][i] = "done"
    BY <2>1, <2>2 DEF HandshakeInv, SessionInv, PlaceInv, PartyInv
  <2>4. PICK n \in Nonces : out' = Sent(d, Event("RelayData", i, Frame(n)))
    <3>1. enc[d][i] \in Nonces
      <4>1. enc[d][i] \in 0 .. MaxFrames /\ MaxFrames \in Nat /\ enc[d][i] < MaxFrames
        BY <1>4, RelayAssumption DEF SendMessage, PlaceInv, TypeOK
      <4> QED
        BY <4>1 DEF Nonces
    <3> QED
      BY <1>4, <3>1 DEF SendMessage
  <2> QED
    BY <1>1, <1>2, <2>3, <2>4, FrameGood DEF Both
<1>5. ASSUME ForwarderSends(d) PROVE Good(f, j, p)'
  <2>1. PICK h \in held[d] : out' = Sent(d, Event("RelayData", h[1], Frame(h[2])))
    BY <1>5 DEF ForwarderSends
  <2>2. h \in Sids \X Nat
    BY <2>1 DEF PlaceInv, TypeOK
  <2>3. PICK i \in Sids, n \in Nat : h = <<i, n>>
    BY <2>2
  <2>4. h[1] = i /\ h[2] = n
    BY <2>3
  <2>5. d \in party[i] /\ n < enc[d][i] /\ hs[d][i] = "done"
    BY <2>1, <2>3 DEF HandshakeInv, SessionInv, PlaceInv, PartyInv
  <2>6. n \in Nonces
    <3>1. enc[d][i] \in 0 .. MaxFrames /\ MaxFrames \in Nat
      BY RelayAssumption DEF PlaceInv, TypeOK
    <3> QED
      BY <2>5, <3>1 DEF Nonces
  <2>7. out' = Sent(d, Event("RelayData", i, Frame(n)))
    BY <2>1, <2>4
  <2> QED
    BY <1>1, <1>2, <2>5, <2>6, <2>7, FrameGood DEF Both
<1> QED
  BY <1>3, <1>4, <1>5

LEMMA GoodStep ==
    ASSUME PlaceInv, OnceInv, HandshakeInv, [Next]_vars, NEW f \in Devices, NEW j \in Sids,
           f \in party[j], NEW p \in Devices, p = Peer(f, j)
    PROVE  Good(f, j, p)'
<1> USE DEF net, noise
<1>1. Good(f, j, p) /\ StageOK(p, j, f)
  BY BothGood DEF Both, Good
<1>2. ASSUME NEW d \in Devices, LoopStep(d) \/ \E i \in Sids : HandshakeStep(d, i)
      PROVE  Good(f, j, p)'
  BY <1>2, LoopGood, TaskGood
<1>3. ASSUME NEW d \in Devices,
             ForwarderSends(d) \/ \E i \in Sids : SendMessage(d, i) \/ ForwarderEncrypts(d, i)
      PROVE  Good(f, j, p)'
  BY <1>3, SendGood
<1>4. ASSUME NEW d \in Devices, ServerForwards(d) PROVE Good(f, j, p)'
  BY <1>1, <1>4, ServedGood
<1>5. ASSUME NEW d \in Devices, WebSocketDrops(d) PROVE Good(f, j, p)'
  BY <1>1, <1>5, DropGood
<1>6. ASSUME NEW d \in Devices, ConnectSignalingServer(d) PROVE Good(f, j, p)'
  <2>1. hs' = hs /\ waiters' = waiters /\ chan' = chan /\ inbox' = inbox /\ out' = out
    BY <1>6 DEF ConnectSignalingServer
  <2> QED
    BY <1>1, <2>1, QuietCarries, GoodStill
<1>7. ASSUME \/ \E d, e \in Devices, i \in Sids : ConnectToPeerViaInternet(d, e, i)
             \/ \E i \in Sids : ServerCloses(i)
      PROVE  Good(f, j, p)'
  <2>1. hs' = hs /\ waiters' = waiters
    BY <1>7 DEF ConnectToPeerViaInternet, ServerCloses
  <2>2. Carries(f, j)
    BY <1>7, OfferCarries
  <2> QED
    BY <1>1, <2>1, <2>2, GoodStill
<1>8. ASSUME UNCHANGED vars PROVE Good(f, j, p)'
  <2>1. hs' = hs /\ waiters' = waiters /\ chan' = chan /\ inbox' = inbox /\ out' = out
    BY <1>8 DEF vars
  <2> QED
    BY <1>1, <2>1, QuietCarries, GoodStill
<1> QED
  BY <1>2, <1>3, <1>4, <1>5, <1>6, <1>7, <1>8 DEF Next

\* A session that has just been offered: nothing is on its way in it.
LEMMA NewGood ==
    ASSUME PlaceInv, NEW d \in Devices, NEW p \in Devices, NEW i \in Sids,
           ConnectToPeerViaInternet(d, p, i), NEW f \in Devices, NEW e \in Devices,
           e = Peer(f, i)'
    PROVE  Good(f, i, e)'
<1> USE DEF net, noise
<1>0. TypeOK /\ PartyInv /\ party[i] = {}
  BY DEF PlaceInv, ConnectToPeerViaInternet
<1>1. hs'[f][i] = "none" /\ hs'[e][i] = "none"
  BY <1>0 DEF PartyInv, ConnectToPeerViaInternet
<1>2. ASSUME NEW k \in Nat, NEW m \in Payloads
      PROVE  /\ ~ ChanAt(f, i, k, m)'
             /\ ~ InAt(f, k, Event("RelayData", i, m))'
             /\ ~ OutAt(e, k, Event("RelayData", i, m))'
  <2>1. PICK x \in Events : x = Event("RelayData", i, m) /\ x.type = "RelayData" /\ x.sid = i
    BY DataFacts
  <2>2. ~ ChanAt(f, i, k, m)'
    <3>1. chan'[f][i] = <<>>
      BY <1>0 DEF PartyInv, ConnectToPeerViaInternet
    <3> QED
      BY <3>1 DEF ChanAt
  <2>3. ~ InAt(f, k, x)'
    <3>1. InAt(f, k, x)' => InAt(f, k, x)
      BY DEF ConnectToPeerViaInternet, InAt
    <3>2. InAt(f, k, x) => f \in party[i]
      BY <2>1 DEF PlaceInv, InInv, InOK
    <3> QED
      BY <1>0, <3>1, <3>2
  <2>4. ~ OutAt(e, k, x)'
    <3>1. PICK y \in Events : out' = Sent(d, y) /\ y.type = "OfferCandidates"
      BY EventTypes, EventFacts DEF ConnectToPeerViaInternet
    <3>2. OutAt(e, k, x)' => OutAt(e, k, x)
      BY <1>0, <2>1, <3>1, OutSent
    <3>3. OutAt(e, k, x) => e \in party[i]
      BY <2>1 DEF PlaceInv, OutInv, OutOK
    <3> QED
      BY <1>0, <3>2, <3>3
  <2> QED
    BY <2>1, <2>2, <2>3, <2>4
<1>3. \A q \in 1 .. 3, k \in Nat, m \in Payloads : ~ Item(f, i, q, k, m)'
  <2> SUFFICES ASSUME NEW q \in 1 .. 3, NEW k \in Nat, NEW m \in Payloads, Item(f, i, q, k, m)'
               PROVE  FALSE
    OBVIOUS
  <2> QED
    BY <1>2 DEF Item
<1>4. /\ Shake(1) \in Payloads /\ Shake(2) \in Payloads /\ Shake(3) \in Payloads
      /\ \A n \in Nonces : Frame(n) \in Payloads
  BY PayloadTypes
<1>5. ShakeOK(f, i, e)'
  <2>1. \A m \in Payloads : ~ UnderWay(f, i, m)' /\ OnlyOne(f, i, m)'
    BY <1>3 DEF UnderWay, OnlyOne
  <2>2. Ordered(f, i)'
    BY <1>3, <1>4 DEF Ordered
  <2> QED
    BY <1>4, <2>1, <2>2 DEF ShakeOK
<1>6. StageOK(f, i, e)' /\ ThirdOK(f, i, e)'
  BY <1>1 DEF StageOK, ThirdOK, Proved, Started
<1> QED
  BY <1>5, <1>6 DEF Good

\* Who has a session with whom.
LEMMA SessionStep ==
    ASSUME PlaceInv, OnceInv, SessionInv, [Next]_vars
    PROVE  SessionInv'
<1> USE DEF net, noise
<1>0. /\ sessions \in [Devices -> [Devices -> Sids \cup {None}]]
      /\ hs \in [Devices -> [Sids -> Stages]]
      /\ held \in [Devices -> SUBSET (Sids \X Nat)]
  BY DEF PlaceInv, TypeOK
<1>1. \A i \in Sids : party[i] # {} => party'[i] = party[i]
  BY Monotone
<1>2. ASSUME \A d \in Devices, i \in Sids : hs[d][i] = "done" => hs'[d][i] = "done",
             sessions' = sessions,
             \A d \in Devices : held'[d] \subseteq held[d]
      PROVE  SessionInv'
  <2>1. ASSUME NEW d \in Devices, NEW p \in Devices, sessions'[d][p] # None
        PROVE  party'[sessions'[d][p]] = {d, p} /\ hs'[d][sessions'[d][p]] = "done"
    <3>1. PICK i \in Sids : sessions[d][p] = i /\ sessions'[d][p] = i /\ sessions[d][p] # None
      BY <1>0, <1>2, <2>1
    <3>2. party[i] = {d, p} /\ hs[d][i] = "done"
      BY <3>1 DEF SessionInv
    <3>3. party'[i] = {d, p} /\ hs'[d][i] = "done"
      BY <1>1, <1>2, <3>2
    <3> QED
      BY <3>1, <3>3
  <2>2. ASSUME NEW d \in Devices, NEW i \in Sids, NEW n \in Nat, <<i, n>> \in held'[d]
        PROVE  hs'[d][i] = "done"
    BY <1>2, <2>2 DEF SessionInv
  <2> QED
    BY <2>1, <2>2 DEF SessionInv
<1>3. ASSUME NEW d \in Devices, NEW i \in Sids, Registers(d, i) PROVE SessionInv'
  <2>1. /\ hs' = [hs EXCEPT ![d][i] = "done"] /\ hs[d][i] = "verified"
        /\ sessions' = [sessions EXCEPT ![d][Peer(d, i)] = i] /\ held' = held /\ party' = party
    BY <1>3 DEF Registers, Goto
  <2>2. PICK p \in Devices : p = Peer(d, i) /\ party[i] = {d, p}
    <3>1. d \in party[i]
      BY <2>1 DEF PlaceInv, PartyInv
    <3> QED
      BY <3>1, PeerFacts DEF PlaceInv
  <2>3. \A e \in Devices, j \in Sids : hs[e][j] = "done" => hs'[e][j] = "done"
    BY <1>0, <2>1
  <2>4. hs'[d][i] = "done"
    BY <1>0, <2>1
  <2>5. ASSUME NEW e \in Devices, NEW g \in Devices, sessions'[e][g] # None
        PROVE  party'[sessions'[e][g]] = {e, g} /\ hs'[e][sessions'[e][g]] = "done"
    <3>1. CASE e = d /\ g = p
      <4>1. sessions'[e][g] = i
        BY <1>0, <2>1, <2>2, <3>1
      <4> QED
        BY <2>1, <2>2, <2>4, <3>1, <4>1
    <3>2. CASE ~ (e = d /\ g = p)
      <4>1. sessions' = [sessions EXCEPT ![d][p] = i]
        BY <2>1, <2>2
      <4>2. sessions'[e][g] = sessions[e][g]
        BY <1>0, <3>2, <4>1
      <4>3. sessions[e][g] \in Sids
        BY <1>0, <2>5, <4>2
      <4> QED
        BY <2>1, <2>3, <2>5, <4>2, <4>3 DEF SessionInv
    <3> QED
      BY <3>1, <3>2
  <2>6. ASSUME NEW e \in Devices, NEW j \in Sids, NEW n \in Nat, <<j, n>> \in held'[e]
        PROVE  hs'[e][j] = "done"
    BY <2>1, <2>3, <2>6 DEF SessionInv
  <2> QED
    BY <2>5, <2>6 DEF SessionInv
<1>4. ASSUME NEW d \in Devices, NEW i \in Sids, ForwarderEncrypts(d, i) PROVE SessionInv'
  <2>1. /\ hs' = hs /\ sessions' = sessions /\ party' = party
        /\ held' = [held EXCEPT ![d] = @ \cup {<<i, enc[d][i]>>}]
    BY <1>4 DEF ForwarderEncrypts
  <2>2. hs[d][i] = "done"
    <3>1. PICK p \in Devices : sessions[d][p] = i
      BY <1>4 DEF ForwarderEncrypts
    <3>2. sessions[d][p] # None
      BY <3>1, RelayAssumption
    <3> QED
      BY <3>1, <3>2 DEF SessionInv
  <2>3. ASSUME NEW e \in Devices, NEW j \in Sids, NEW n \in Nat, <<j, n>> \in held'[e]
        PROVE  hs'[e][j] = "done"
    <3>1. <<j, n>> \in held[e] \/ (e = d /\ <<j, n>> = <<i, enc[d][i]>>)
      BY <1>0, <2>1, <2>3
    <3>2. <<j, n>> = <<i, enc[d][i]>> => j = i
      OBVIOUS
    <3> QED
      BY <2>1, <2>2, <3>1, <3>2 DEF SessionInv
  <2> QED
    BY <2>1, <2>3 DEF SessionInv
<1>5. ASSUME NEW d \in Devices, ForwarderSends(d) PROVE SessionInv'
  <2>1. hs' = hs /\ sessions' = sessions /\ \E h : held' = [held EXCEPT ![d] = @ \ {h}]
    BY <1>5 DEF ForwarderSends
  <2>2. \A e \in Devices : held'[e] \subseteq held[e]
    BY <1>0, <2>1
  <2> QED
    BY <1>2, <2>1, <2>2
<1>6. ASSUME NEW d \in Devices, NEW i \in Sids, NEW to, hs[d][i] # "done",
             hs' = [hs EXCEPT ![d][i] = to], sessions' = sessions, held' = held
      PROVE  SessionInv'
  <2>1. \A e \in Devices, j \in Sids : hs[e][j] = "done" => hs'[e][j] = "done"
    BY <1>0, <1>6
  <2> QED
    BY <1>2, <1>6, <2>1
<1>7. ASSUME NEW d \in Devices, NEW i \in Sids, HandshakeStep(d, i), ~ Registers(d, i)
      PROVE  SessionInv'
  <2>1. PICK to : hs' = [hs EXCEPT ![d][i] = to]
    BY <1>7 DEF HandshakeStep, HandshakeStarts, ReadsMsg1, ReadsMsg2, ReadsMsg3, Verifies, Goto
  <2>2. hs[d][i] # "done" /\ sessions' = sessions /\ held' = held
    BY <1>7 DEF HandshakeStep, HandshakeStarts, ReadsMsg1, ReadsMsg2, ReadsMsg3, Receives,
                Verifies
  <2> QED
    BY <1>6, <2>1, <2>2
<1>8. CASE hs' = hs /\ sessions' = sessions /\ held' = held
  BY <1>2, <1>8
<1>9. ASSUME NEW d \in Devices, LoopStep(d), ~ OnRelayReady(d)
      PROVE  hs' = hs /\ sessions' = sessions /\ held' = held
  BY <1>9 DEF LoopStep, OnIncomingCandidates, OnCandidateResult,
              OnRelayData, DispatchDone, OnRelayClosed, OnDisconnected
<1>10. ASSUME NEW d \in Devices, OnRelayReady(d) PROVE SessionInv'
  <2>1. PICK i \in Sids : i = Head(inbox[d]).sid /\ hs[d][i] = "none"
    BY <1>10, ReadyFacts
  <2>2. /\ sessions' = sessions /\ held' = held
        /\ hs' = hs \/ hs' = [hs EXCEPT ![d][i] = "spawned"]
    BY <1>10, <2>1 DEF OnRelayReady
  <2> QED
    BY <1>6, <1>8, <2>1, <2>2
<1>11. ASSUME NEW d \in Devices,
              ConnectSignalingServer(d) \/ WebSocketDrops(d) \/ ServerForwards(d)
       PROVE  hs' = hs /\ sessions' = sessions /\ held' = held
  BY <1>11 DEF ConnectSignalingServer, WebSocketDrops, ServerForwards
<1>12. ASSUME NEW d \in Devices, NEW i \in Sids,
              SendMessage(d, i) \/ \E p \in Devices : ConnectToPeerViaInternet(d, p, i)
       PROVE  hs' = hs /\ sessions' = sessions /\ held' = held
  BY <1>12 DEF SendMessage, ConnectToPeerViaInternet
<1>13. ASSUME NEW i \in Sids, ServerCloses(i)
       PROVE  hs' = hs /\ sessions' = sessions /\ held' = held
  BY <1>13 DEF ServerCloses
<1>14. ASSUME UNCHANGED vars PROVE hs' = hs /\ sessions' = sessions /\ held' = held
  BY <1>14 DEF vars
<1> QED
  BY <1>3, <1>4, <1>5, <1>7, <1>8, <1>9, <1>10, <1>11, <1>12, <1>13, <1>14 DEF Next

\* Only an offer gives a session its parties.
LEMMA OnlyOffersAdd ==
    ASSUME [Next]_vars, party' # party
    PROVE  \E d, p \in Devices, i \in Sids : ConnectToPeerViaInternet(d, p, i)
<1> USE DEF net, noise
<1>1. ASSUME NEW d \in Devices, LoopStep(d) PROVE party' = party
  BY <1>1 DEF LoopStep, OnIncomingCandidates, OnCandidateResult, OnRelayReady,
              OnRelayData, DispatchDone, OnRelayClosed, OnDisconnected
<1>2. ASSUME NEW d \in Devices, NEW i \in Sids, HandshakeStep(d, i) PROVE party' = party
  BY <1>2 DEF HandshakeStep, HandshakeStarts, ReadsMsg1, ReadsMsg2, ReadsMsg3, Verifies,
              Registers
<1>3. ASSUME NEW d \in Devices, \/ ConnectSignalingServer(d) \/ WebSocketDrops(d)
                                \/ ServerForwards(d) \/ ForwarderSends(d)
      PROVE  party' = party
  BY <1>3 DEF ConnectSignalingServer, WebSocketDrops, ServerForwards, ForwarderSends
<1>4. ASSUME NEW d \in Devices, NEW i \in Sids, SendMessage(d, i) \/ ForwarderEncrypts(d, i)
      PROVE  party' = party
  BY <1>4 DEF SendMessage, ForwarderEncrypts
<1>5. ASSUME NEW i \in Sids, ServerCloses(i) PROVE party' = party
  BY <1>5 DEF ServerCloses
<1>6. ASSUME UNCHANGED vars PROVE party' = party
  BY <1>6 DEF vars
<1> QED
  BY <1>1, <1>2, <1>3, <1>4, <1>5, <1>6 DEF Next

LEMMA HandshakeInvStep ==
    ASSUME PlaceInv, OnceInv, HandshakeInv, [Next]_vars
    PROVE  HandshakeInv'
<1>1. SessionInv'
  BY SessionStep DEF HandshakeInv
<1>2. ASSUME NEW j \in Sids, NEW f \in Devices, f \in party'[j]
      PROVE  \E e : e = Peer(f, j)' /\ Good(f, j, e)'
  <2>1. CASE f \in party[j]
    <3>1. PICK e \in Devices : e = Peer(f, j)
      BY <2>1, PeerFacts DEF PlaceInv
    <3>2. e = Peer(f, j)'
      BY <2>1, <3>1, Monotone
    <3> QED
      BY <2>1, <3>1, <3>2, GoodStep
  <2>2. CASE f \notin party[j]
    <3>1. party' # party
      BY <1>2, <2>2
    <3>2. PICK d \in Devices, p \in Devices, i \in Sids : ConnectToPeerViaInternet(d, p, i)
      BY <3>1, OnlyOffersAdd
    <3>3. j = i /\ party'[j] = {d, p} /\ d # p
      BY <1>2, <2>2, <3>2 DEF ConnectToPeerViaInternet, PlaceInv, TypeOK
    <3>4. PICK e \in Devices : e = Peer(f, j)'
      <4>1. Peer(f, j)' = IF f = d THEN p ELSE d
        BY <1>2, <3>3 DEF Peer
      <4> QED
        BY <4>1
    <3>5. Good(f, j, e)'
      BY <3>2, <3>3, <3>4, NewGood
    <3> QED
      BY <3>4, <3>5
  <2> QED
    BY <2>1, <2>2
<1>3. StageInv'
  BY <1>2 DEF StageInv, Good
<1>4. ShakeInv'
  BY <1>2 DEF ShakeInv, Good
<1>5. ThirdInv'
  BY <1>2 DEF ThirdInv, Good
<1> QED
  BY <1>1, <1>3, <1>4, <1>5 DEF HandshakeInv

\* At every moment the handshake messages under way fit the stages of the two
\* tasks, each of them is under way at most once, and message 3 precedes the
\* frames and is not lost before its session is cut off (run_relay_handshake,
\* handle_relay_data).
THEOREM HandshakesFit ==
    Spec => []HandshakeInv
<1>1. Init => HandshakeInv
  <2> SUFFICES ASSUME Init PROVE HandshakeInv
    OBVIOUS
  <2>1. \A i \in Sids, d \in Devices : d \notin party[i]
    BY DEF Init
  <2>2. \A d, p \in Devices : sessions[d][p] = None
    BY DEF Init
  <2>3. \A d \in Devices : held[d] = {}
    BY DEF Init
  <2>4. SessionInv
    BY <2>2, <2>3 DEF SessionInv
  <2> QED
    BY <2>1, <2>4 DEF HandshakeInv, StageInv, ShakeInv, ThirdInv
<1>2. PlaceInv /\ OnceInv /\ HandshakeInv /\ [Next]_vars => HandshakeInv'
  BY HandshakeInvStep
<1> QED
  BY <1>1, <1>2, PlacesHold, AnnouncedOnce, PTL DEF Spec

\* HandshakeInStep: a handshake task never finds another message in its channel
\* than the one it waits for (run_relay_handshake).
THEOREM HandshakeStaysInStep ==
    Spec => []HandshakeInStep
<1>1. PlaceInv /\ HandshakeInv => HandshakeInStep
  <2> SUFFICES ASSUME PlaceInv, HandshakeInv, NEW d \in Devices, NEW i \in Sids,
                      chan[d][i] # <<>>
               PROVE  /\ hs[d][i] = "wait1" => Head(chan[d][i]) = Shake(1)
                      /\ hs[d][i] = "wait2" => Head(chan[d][i]) = Shake(2)
                      /\ hs[d][i] = "wait3" => Head(chan[d][i]) = Shake(3)
    BY DEF HandshakeInStep
  <2>1. d \in party[i]
    BY DEF PlaceInv, PartyInv
  <2>2. PICK p \in Devices : p = Peer(d, i) /\ Both(d, i, p)
    BY <2>1, BothGood, PeerFacts DEF PlaceInv
  <2>3. /\ StageOK(d, i, p) /\ ShakeOK(d, i, p) /\ ThirdOK(d, i, p) /\ StageOK(p, i, d)
        /\ (is_initiator(d, p) <=> ~ is_initiator(p, d))
    BY <2>2, Roles DEF Both, Good
  <2>4. PICK m \in Payloads : m = Head(chan[d][i]) /\ Item(d, i, 1, 1, m)
    <3>1. chan[d][i] \in Seq(Payloads)
      BY DEF PlaceInv, TypeOK
    <3>2. Head(chan[d][i]) \in Payloads /\ ChanAt(d, i, 1, Head(chan[d][i]))
      BY <3>1 DEF ChanAt
    <3> QED
      BY <3>2 DEF Item
  <2>5. UnderWay(d, i, m)
    BY <2>4 DEF UnderWay
  <2>6. CASE m \in {Shake(1), Shake(2), Shake(3)}
    BY <2>3, <2>4, <2>5, <2>6 DEF ShakeOK, StageOK
  <2>7. ASSUME NEW n \in Nonces, m = Frame(n)
        PROVE  hs[d][i] \notin {"wait1", "wait2", "wait3"}
    <3>1. hs[p][i] = "done"
      BY <2>3, <2>5, <2>7 DEF ShakeOK
    <3>2. hs[d][i] \notin {"wait1", "wait2"}
      BY <2>3, <3>1 DEF StageOK, Proved
    <3>3. ASSUME hs[d][i] = "wait3" PROVE FALSE
      <4>1. 1 \in 1 .. 2 /\ 1 \in 1 .. 3 /\ 1 \in Nat
        OBVIOUS
      <4>2. FrameArrived(d, i)
        BY <2>4, <2>7, <4>1 DEF FrameArrived
      <4>3. UnderWay(d, i, Shake(3))
        BY <2>3, <3>1, <3>3, <4>2 DEF ThirdOK, Proved
      <4>4. PICK q \in 1 .. 3, k \in Nat : Item(d, i, q, k, Shake(3))
        BY <4>3 DEF UnderWay
      <4>5. Before(q, k, 1, 1)
        BY <2>3, <2>4, <2>7, <4>1, <4>4 DEF ShakeOK, Ordered
      <4>6. k > 0
        BY <4>4 DEF Item, ChanAt, InAt, OutAt
      <4> QED
        BY <4>5, <4>6 DEF Before
    <3> QED
      BY <3>2, <3>3
  <2> QED
    BY <2>4, <2>6, <2>7, PayloadTypes
<1> QED
  BY <1>1, PlacesHold, HandshakesFit, PTL

\* RelaySessionAuthentic: a relay-backed session exists only with a peer that
\* took part in the same handshake and revealed the expected id
\* (run_relay_handshake).
THEOREM RelaySessionsAuthentic ==
    Spec => []RelaySessionAuthentic
<1>1. PlaceInv /\ HandshakeInv => RelaySessionAuthentic
  <2> SUFFICES ASSUME PlaceInv, HandshakeInv, NEW d \in Devices, NEW e \in Devices,
                      sessions[d][e] # None
               PROVE  /\ agree
                      /\ party[sessions[d][e]] = {d, e}
                      /\ hs[e][sessions[d][e]] \in {"wait3", "check", "verified", "done"}
    BY DEF RelaySessionAuthentic
  <2>1. PICK i \in Sids : i = sessions[d][e]
    BY DEF PlaceInv, TypeOK
  <2>2. party[i] = {d, e} /\ hs[d][i] = "done"
    BY <2>1 DEF HandshakeInv, SessionInv
  <2>3. PICK p \in Devices : p = Peer(d, i) /\ Both(d, i, p) /\ p = e
    BY <2>2, BothGood, PeerFacts DEF PlaceInv
  <2>4. StageOK(d, i, e) /\ StageOK(e, i, d) /\ (is_initiator(d, e) \/ is_initiator(e, d))
    BY <2>3, Roles DEF Both, Good
  <2>5. agree /\ hs[e][i] \in Proved \cup {"wait3"}
    BY <2>2, <2>4 DEF StageOK, Proved
  <2>6. hs[e][i] # "failed"
    BY <2>4, <2>5 DEF StageOK
  <2> QED
    BY <2>1, <2>2, <2>5, <2>6 DEF Proved
<1> QED
  BY <1>1, PlacesHold, HandshakesFit, PTL

=============================================================================
