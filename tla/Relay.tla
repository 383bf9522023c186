------------------------------- MODULE Relay -------------------------------
(***************************************************************************)
(* Internet mode of connection_manager.rs: candidate offers through the    *)
(* signalling server, the fall-back to a relay, the Noise_XX handshake     *)
(* through the relay and the routing of relayed frames.                    *)
(*                                                                         *)
(* Each device runs one event loop, which handles the events of its        *)
(* WebSocket in order and one at a time, and one task per relay handshake. *)
(* The loop hands the frames of a session to the handshake's channel while *)
(* relay_handshake_waiters has an entry for it, and otherwise to the       *)
(* session that `sessions` has for the peer.  The task inserts that entry  *)
(* some time after the loop spawned it, and removes it some time after the *)
(* last handshake message arrived: what the loop handles outside this      *)
(* window goes astray.                                                     *)
(*                                                                         *)
(* Direct connections are in Sessions: here hole punching fails, so that   *)
(* try_candidates succeeds only for a peer that has a session already.     *)
(*                                                                         *)
(* Sessions shows that the id a handshake reveals is not the one a device  *)
(* advertises.  `agree` FALSE is that case; `agree` TRUE is the agreement  *)
(* the code counts on, which all that follows the comparison depends on.   *)
(***************************************************************************)
EXTENDS Integers, Sequences

CONSTANTS
    Devices,            \* the devices, as numbers: their order is that of the ids
    Sids,               \* the session ids that may ever be drawn (a bound)
    None,
    BothMustRequest,    \* the server grants a relay only if both devices ask
    MaxFrames,          \* bound on the frames one device encrypts per session
    MaxFaults           \* bound on closed relays and dropped WebSockets

ASSUME RelayAssumption ==
    /\ Devices \subseteq Int
    /\ None \notin Devices \cup Sids
    /\ BothMustRequest \in BOOLEAN
    /\ MaxFrames \in Nat
    /\ MaxFaults \in Nat

VARIABLES
    agree,      \* does the id a handshake reveals equal the advertised id?
    signaling,  \* devices whose `signaling` is Some
    linked,     \* devices whose WebSocket is up
    out,        \* device -> messages on their way to the server
    inbox,      \* device -> events on their way to the event loop
    party,      \* session -> the two devices its offer names
    cut,        \* <<device, session>>: the WebSocket it was set up on is gone
    asked,      \* session -> devices that requested its relay (server state)
    relayed,    \* sessions the server relays (server state)
    tracker,    \* device -> session -> peer, or None (SignalingSessionTracker)
    hs,         \* device -> session -> stage of its handshake task
    waiters,    \* device -> sessions in relay_handshake_waiters
    chan,       \* device -> session -> frames in the waiter's channel
    sessions,   \* device -> peer -> session of its relay-backed PeerSession
    enc,        \* device -> session -> frames encrypted (the sending nonce)
    dec,        \* device -> session -> frames decrypted (the receiving nonce)
    held,       \* device -> frames encrypted by a forwarder, not yet sent
    hand,       \* device -> session whose frame the loop is dispatching
    faults      \* faults so far

vars == <<agree, signaling, linked, out, inbox, party, cut, asked, relayed,
          tracker, hs, waiters, chan, sessions, enc, dec, held, hand, faults>>

net == <<signaling, linked, party, cut, asked, relayed, faults>>
noise == <<enc, dec, held>>

Stages == {"none", "spawned", "wait1", "wait2", "wait3", "check", "verified",
           "done", "failed"}

\* What RelayData carries: the k-th handshake message or the n-th frame.  The
\* other events that carry anything name a device or a yes or no.
Shake(k) == <<"handshake", k>>
Frame(n) == <<"frame", n>>
Payloads == {Shake(k) : k \in 1..3} \cup {Frame(n) : n \in 0 .. MaxFrames - 1}

Named(d) == <<"device", d>>
Likely(yes) == <<"direct", IF yes THEN 1 ELSE 0>>

Event(type, sid, arg) == [type |-> type, sid |-> sid, arg |-> arg]

\* SignalingClient::send.  On a WebSocket that is gone the message is queued
\* for a writer that has ended, or refused; it is lost either way.
Sent(d, m) == IF d \in linked THEN [out EXCEPT ![d] = Append(@, m)] ELSE out

\* The tie-break of activate_relay_session.
is_initiatorMutantAlways(d, p) ==   \* Fault: every device leads
    TRUE

is_initiator(d, p) == d < p

-----------------------------------------------------------------------------
Init ==
    /\ agree \in BOOLEAN
    /\ signaling = {}
    /\ linked = {}
    /\ out = [d \in Devices |-> <<>>]
    /\ inbox = [d \in Devices |-> <<>>]
    /\ party = [i \in Sids |-> {}]
    /\ cut = {}
    /\ asked = [i \in Sids |-> {}]
    /\ relayed = {}
    /\ tracker = [d \in Devices |-> [i \in Sids |-> None]]
    /\ hs = [d \in Devices |-> [i \in Sids |-> "none"]]
    /\ waiters = [d \in Devices |-> {}]
    /\ chan = [d \in Devices |-> [i \in Sids |-> <<>>]]
    /\ sessions = [d \in Devices |-> [p \in Devices |-> None]]
    /\ enc = [d \in Devices |-> [i \in Sids |-> 0]]
    /\ dec = [d \in Devices |-> [i \in Sids |-> 0]]
    /\ held = [d \in Devices |-> {}]
    /\ hand = [d \in Devices |-> None]
    /\ faults = 0

\* connect_signaling_server: the WebSocket is up and the event loop runs.  The
\* loop of an earlier client may still have events to handle, its Disconnected
\* among them; here they come before those of the new one.  (A second client
\* beside one whose WebSocket is up is not modelled: what the server then does
\* with the two registrations is its own affair.)
ConnectSignalingServer(d) ==
    /\ d \notin linked
    /\ signaling' = signaling \cup {d}
    /\ linked' = linked \cup {d}
    /\ UNCHANGED <<agree, out, inbox, party, cut, asked, relayed, tracker, hs,
                   waiters, chan, sessions, noise, hand, faults>>

\* connect_to_peer_via_internet, once STUN has answered: a fresh session id
\* is registered and the candidates are offered.
ConnectToPeerViaInternet(d, p, i) ==
    /\ d \in signaling
    /\ p # d
    /\ party[i] = {}
    /\ party' = [party EXCEPT ![i] = {d, p}]
    /\ tracker' = [tracker EXCEPT ![d][i] = p]
    /\ out' = Sent(d, Event("OfferCandidates", i, Named(p)))
    /\ UNCHANGED <<agree, signaling, linked, cut, asked, relayed, faults, inbox, hs,
                   waiters, chan, sessions, noise, hand>>

-----------------------------------------------------------------------------
(* External: the signalling server takes the messages of each client in    *)
(* order and passes them to the other device of the session.               *)

\* The devices of a session the server can still reach.
Reached(i) == {d \in party[i] : d \in linked /\ <<d, i>> \notin cut}

\* The server puts event e in the inboxes of these devices.
ToAll(ds, e) == [d \in Devices |-> IF d \in ds THEN Append(inbox[d], e) ELSE inbox[d]]

Granted(i, requests) ==
    IF BothMustRequest THEN party[i] \subseteq requests ELSE requests # {}

ServerForwards(d) ==
    /\ out[d] # <<>>
    /\ out' = [out EXCEPT ![d] = Tail(@)]
    /\ LET m == Head(out[d])
           others == IF d \in Reached(m.sid) THEN Reached(m.sid) \ {d} ELSE {}
       IN
       \/ /\ m.type = "OfferCandidates"
          /\ inbox' = ToAll(others, Event("IncomingCandidates", m.sid, Named(d)))
          /\ UNCHANGED <<asked, relayed>>
       \/ /\ m.type = "CandidateResult"
          /\ inbox' = ToAll(others, m)
          /\ UNCHANGED <<asked, relayed>>
       \/ /\ m.type = "RequestRelay"
          /\ asked' = [asked EXCEPT ![m.sid] = @ \cup {d}]
          /\ IF Granted(m.sid, asked'[m.sid]) /\ d \in Reached(m.sid)
             THEN /\ relayed' = relayed \cup {m.sid}
                  /\ inbox' = ToAll(Reached(m.sid), Event("RelayReady", m.sid, None))
             ELSE UNCHANGED <<relayed, inbox>>
       \/ /\ m.type = "RelayData"
          /\ inbox' = IF m.sid \in relayed THEN ToAll(others, m) ELSE inbox
          /\ UNCHANGED <<asked, relayed>>
    /\ UNCHANGED <<agree, signaling, linked, party, cut, tracker, hs, waiters, chan,
                   sessions, noise, hand, faults>>

\* Fault: the server closes a relay session and says so.
ServerCloses(i) ==
    /\ faults < MaxFaults
    /\ i \in relayed
    /\ faults' = faults + 1
    /\ relayed' = relayed \ {i}
    /\ inbox' = ToAll(Reached(i), Event("RelayClosed", i, None))
    /\ UNCHANGED <<agree, signaling, linked, out, party, cut, asked, tracker, hs,
                   waiters, chan, sessions, noise, hand>>

\* Fault: the WebSocket of d is gone; its reader task reports Disconnected.
\* Sessions and handshakes keep the old client, also after a new WebSocket is
\* connected.
WebSocketDrops(d) ==
    /\ faults < MaxFaults
    /\ d \in linked
    /\ faults' = faults + 1
    /\ linked' = linked \ {d}
    /\ cut' = cut \cup {<<d, i>> : i \in {j \in Sids : d \in party[j]}}
    /\ out' = [out EXCEPT ![d] = <<>>]
    /\ inbox' = [inbox EXCEPT ![d] = Append(@, Event("Disconnected", None, None))]
    /\ UNCHANGED <<agree, signaling, party, asked, relayed, tracker, hs, waiters,
                   chan, sessions, noise, hand>>

-----------------------------------------------------------------------------
(* handle_signaling_event *)

\* The loop takes the next event, which has this type.
Takes(d, type) ==
    /\ hand[d] = None
    /\ inbox[d] # <<>>
    /\ Head(inbox[d]).type = type
    /\ inbox' = [inbox EXCEPT ![d] = Tail(@)]

\* try_candidates: no candidate is reachable, but connect_to_peer returns Ok
\* at once for a peer that has a session.
OnIncomingCandidatesMutantSwapped(d) ==   \* Fault: registers session as peer
    /\ Takes(d, "IncomingCandidates")
    /\ LET i == Head(inbox[d]).sid
       IN  /\ tracker' = [tracker EXCEPT ![d][i] = i]
           /\ out' = Sent(d, Event("CandidateResult", i, Likely(FALSE)))
    /\ UNCHANGED <<agree, net, hs, waiters, chan, sessions, noise, hand>>

OnIncomingCandidates(d) ==
    /\ Takes(d, "IncomingCandidates")
    /\ LET i == Head(inbox[d]).sid
           p == Head(inbox[d]).arg[2]
       IN  /\ tracker' = [tracker EXCEPT ![d][i] = p]
           /\ out' = Sent(d, Event("CandidateResult", i, Likely(sessions[d][p] # None)))
    /\ UNCHANGED <<agree, net, hs, waiters, chan, sessions, noise, hand>>

OnCandidateResult(d) ==
    /\ Takes(d, "CandidateResult")
    /\ LET e == Head(inbox[d]) IN
       out' = IF e.arg = Likely(TRUE) THEN out ELSE Sent(d, Event("RequestRelay", e.sid, None))
    /\ UNCHANGED <<agree, net, tracker, hs, waiters, chan, sessions, noise, hand>>

\* activate_relay_session: ignored for an unknown session and for a peer that
\* has a session; otherwise run_relay_handshake is spawned.
OnRelayReady(d) ==
    /\ Takes(d, "RelayReady")
    /\ LET i == Head(inbox[d]).sid
           p == tracker[d][i]
       IN  hs' = IF p = None \/ sessions[d][p] # None THEN hs
                 ELSE [hs EXCEPT ![d][i] = "spawned"]
    /\ UNCHANGED <<agree, net, out, tracker, waiters, chan, sessions, noise, hand>>

\* handle_relay_data: to the handshake if there is a waiter (whose task may
\* have ended), else to the session of the peer, whose cipher takes the frame
\* only if it is of the same handshake and has the next nonce.  A frame it
\* does not take is dropped, and the loop goes on.
TakesFrameMutantAnyLater(d, i, data) ==   \* Fault: gaps are accepted
    /\ data[1] = "frame"
    /\ sessions[d][tracker[d][i]] = i
    /\ data[2] >= dec[d][i]

TakesFrame(d, i, data) ==
    /\ data = Frame(dec[d][i])
    /\ sessions[d][tracker[d][i]] = i

OnRelayData(d) ==
    /\ Takes(d, "RelayData")
    /\ LET i == Head(inbox[d]).sid
           data == Head(inbox[d]).arg
       IN  \/ /\ i \in waiters[d]
              /\ chan' = [chan EXCEPT ![d][i] = Append(@, data)]
              /\ UNCHANGED <<dec, hand>>
           \/ /\ i \notin waiters[d]
              /\ tracker[d][i] # None
              /\ TakesFrame(d, i, data)
              /\ dec' = [dec EXCEPT ![d][i] = data[2] + 1]
              /\ hand' = [hand EXCEPT ![d] = i]
              /\ UNCHANGED chan
           \/ /\ i \notin waiters[d]
              /\ tracker[d][i] = None \/ ~ TakesFrame(d, i, data)
              /\ UNCHANGED <<chan, dec, hand>>
    /\ UNCHANGED <<agree, net, out, tracker, hs, waiters, sessions, enc, held>>

\* dispatch_incoming returns, and the loop goes on.
DispatchDone(d) ==
    /\ hand[d] # None
    /\ hand' = [hand EXCEPT ![d] = None]
    /\ UNCHANGED <<agree, net, out, inbox, tracker, hs, waiters, chan, sessions, noise>>

\* RelayClosed only forgets the session id: the PeerSession stays.
OnRelayClosed(d) ==
    /\ Takes(d, "RelayClosed")
    /\ tracker' = [tracker EXCEPT ![d][Head(inbox[d]).sid] = None]
    /\ UNCHANGED <<agree, net, out, hs, waiters, chan, sessions, noise, hand>>

\* Disconnected only clears `signaling`: the PeerSessions stay.
OnDisconnected(d) ==
    /\ Takes(d, "Disconnected")
    /\ signaling' = signaling \ {d}
    /\ UNCHANGED <<agree, linked, out, party, cut, asked, relayed, tracker, hs,
                   waiters, chan, sessions, noise, hand, faults>>

-----------------------------------------------------------------------------
(* run_relay_handshake *)

\* The peer the task was spawned for.
Peer(d, i) == CHOOSE p \in Devices : p \in party[i] /\ p # d

Goto(d, i, to) == hs' = [hs EXCEPT ![d][i] = to]

\* The task starts: it inserts its waiter; the initiator sends message 1.  A
\* send refused because the WebSocket's writer has ended would end the task and
\* leave its waiter: here and below this is a task that takes no further step.
HandshakeStarts(d, i) ==
    /\ hs[d][i] = "spawned"
    /\ waiters' = [waiters EXCEPT ![d] = @ \cup {i}]
    /\ \/ /\ is_initiator(d, Peer(d, i))
          /\ Goto(d, i, "wait2")
          /\ out' = Sent(d, Event("RelayData", i, Shake(1)))
       \/ /\ ~ is_initiator(d, Peer(d, i))
          /\ Goto(d, i, "wait1")
          /\ UNCHANGED out
    /\ UNCHANGED <<agree, net, inbox, tracker, chan, sessions, noise, hand>>

\* The task is waiting for the k-th message of the handshake and finds m in its
\* channel.
Receives(d, i, stage, m) ==
    /\ hs[d][i] = stage
    /\ chan[d][i] # <<>>
    /\ Head(chan[d][i]) = m
    /\ chan' = [chan EXCEPT ![d][i] = Tail(@)]

\* The initiator answers message 2 with message 3, the responder message 1
\* with message 2; then each has the other's static key.
ReadsMsg2MutantUnread(d, i) ==   \* Fault: goes on without message 2
    /\ hs[d][i] = "wait2"
    /\ Goto(d, i, "check")
    /\ out' = Sent(d, Event("RelayData", i, Shake(3)))
    /\ UNCHANGED <<agree, net, inbox, tracker, chan, waiters, sessions, noise, hand>>

ReadsMsg2(d, i) ==
    /\ Receives(d, i, "wait2", Shake(2))
    /\ Goto(d, i, "check")
    /\ out' = Sent(d, Event("RelayData", i, Shake(3)))
    /\ UNCHANGED <<agree, net, inbox, tracker, waiters, sessions, noise, hand>>

ReadsMsg1MutantSilent(d, i) ==   \* Fault: message 2 is not sent
    /\ Receives(d, i, "wait1", Shake(1))
    /\ Goto(d, i, "wait3")
    /\ UNCHANGED <<agree, net, out, inbox, tracker, waiters, sessions, noise, hand>>

ReadsMsg1(d, i) ==
    /\ Receives(d, i, "wait1", Shake(1))
    /\ Goto(d, i, "wait3")
    /\ out' = Sent(d, Event("RelayData", i, Shake(2)))
    /\ UNCHANGED <<agree, net, inbox, tracker, waiters, sessions, noise, hand>>

ReadsMsg3(d, i) ==
    /\ Receives(d, i, "wait3", Shake(3))
    /\ Goto(d, i, "check")
    /\ UNCHANGED <<agree, net, out, inbox, tracker, waiters, sessions, noise, hand>>

\* The revealed id is compared with the tracker's.  On a mismatch the task
\* ends and its waiter stays in the map.
Verifies(d, i) ==
    /\ hs[d][i] = "check"
    /\ \/ /\ agree
          /\ Goto(d, i, "verified")
          /\ waiters' = [waiters EXCEPT ![d] = @ \ {i}]
       \/ /\ ~ agree
          /\ Goto(d, i, "failed")
          /\ UNCHANGED waiters
    /\ UNCHANGED <<agree, net, out, inbox, tracker, chan, sessions, noise, hand>>

\* The session is entered in `sessions`, over any entry the peer has.
Registers(d, i) ==
    /\ hs[d][i] = "verified"
    /\ Goto(d, i, "done")
    /\ sessions' = [sessions EXCEPT ![d][Peer(d, i)] = i]
    /\ UNCHANGED <<agree, net, out, inbox, tracker, waiters, chan, noise, hand>>

-----------------------------------------------------------------------------
(* Sending over a relay-backed PeerSession *)

\* send_message under the lock on `sessions` (send_to): encrypted and sent.
SendMessage(d, i) ==
    /\ i \in {sessions[d][p] : p \in Devices}
    /\ enc[d][i] < MaxFrames
    /\ enc' = [enc EXCEPT ![d][i] = @ + 1]
    /\ out' = Sent(d, Event("RelayData", i, Frame(enc[d][i])))
    /\ UNCHANGED <<agree, net, inbox, tracker, hs, waiters, chan, sessions, dec, held, hand>>

\* The forwarder of a transfer (one for every call of transfer_stream_sender)
\* encrypts a chunk and, the lock released, sends it.
ForwarderEncrypts(d, i) ==
    /\ i \in {sessions[d][p] : p \in Devices}
    /\ enc[d][i] < MaxFrames
    /\ enc' = [enc EXCEPT ![d][i] = @ + 1]
    /\ held' = [held EXCEPT ![d] = @ \cup {<<i, enc[d][i]>>}]
    /\ UNCHANGED <<agree, net, out, inbox, tracker, hs, waiters, chan, sessions, dec, hand>>

ForwarderSends(d) ==
    /\ \E f \in held[d] :
          /\ held' = [held EXCEPT ![d] = @ \ {f}]
          /\ out' = Sent(d, Event("RelayData", f[1], Frame(f[2])))
    /\ UNCHANGED <<agree, net, inbox, tracker, hs, waiters, chan, sessions, enc, dec, hand>>

LoopStep(d) ==
    \/ OnIncomingCandidates(d) \/ OnCandidateResult(d) \/ OnRelayReady(d)
    \/ OnRelayData(d) \/ DispatchDone(d) \/ OnRelayClosed(d) \/ OnDisconnected(d)

HandshakeStep(d, i) ==
    \/ HandshakeStarts(d, i) \/ ReadsMsg1(d, i) \/ ReadsMsg2(d, i)
    \/ ReadsMsg3(d, i) \/ Verifies(d, i) \/ Registers(d, i)

Next ==
    \/ \E d \in Devices :
          \/ ConnectSignalingServer(d) \/ WebSocketDrops(d) \/ ServerForwards(d)
          \/ LoopStep(d) \/ ForwarderSends(d)
          \/ \E i \in Sids :
                \/ \E p \in Devices : ConnectToPeerViaInternet(d, p, i)
                \/ HandshakeStep(d, i)
                \/ SendMessage(d, i) \/ ForwarderEncrypts(d, i)
    \/ \E i \in Sids : ServerCloses(i)

Spec == Init /\ [][Next]_vars

\* The runtime polls every ready task, and the server passes on what it gets.
\* Nobody must offer, send or connect, and nothing must fail.
FairSpec ==
    /\ Spec
    /\ \A d \in Devices :
          /\ WF_vars(ServerForwards(d))
          /\ WF_vars(LoopStep(d))
          /\ WF_vars(ForwarderSends(d))
          /\ \A i \in Sids : WF_vars(HandshakeStep(d, i))

-----------------------------------------------------------------------------
(* Properties *)

Events == [type : {"OfferCandidates", "IncomingCandidates", "CandidateResult",
                   "RequestRelay", "RelayReady", "RelayData", "RelayClosed",
                   "Disconnected"},
           sid : Sids \cup {None},
           arg : {None} \cup Payloads \cup {Named(d) : d \in Devices}
                 \cup {Likely(yes) : yes \in BOOLEAN}]

TypeOK ==
    /\ agree \in BOOLEAN
    /\ signaling \subseteq Devices /\ linked \subseteq Devices
    /\ out \in [Devices -> Seq(Events)] /\ inbox \in [Devices -> Seq(Events)]
    /\ party \in [Sids -> SUBSET Devices]
    /\ cut \subseteq Devices \X Sids
    /\ asked \in [Sids -> SUBSET Devices] /\ relayed \subseteq Sids
    /\ tracker \in [Devices -> [Sids -> Devices \cup {None}]]
    /\ hs \in [Devices -> [Sids -> Stages]]
    /\ waiters \in [Devices -> SUBSET Sids]
    /\ chan \in [Devices -> [Sids -> Seq(Payloads)]]
    /\ sessions \in [Devices -> [Devices -> Sids \cup {None}]]
    /\ enc \in [Devices -> [Sids -> 0 .. MaxFrames]]
    /\ dec \in [Devices -> [Sids -> 0 .. MaxFrames]]
    /\ held \in [Devices -> SUBSET (Sids \X Nat)]
    /\ hand \in [Devices -> Sids \cup {None}]
    /\ faults \in 0 .. MaxFaults

\* A handshake task never finds another message in its channel than the one it
\* waits for, so that the error path of read_handshake_message is not taken:
\* the tie-break of activate_relay_session gives the two devices different
\* roles without a word between them, and the relay keeps the order.
HandshakeInStep ==
    \A d \in Devices, i \in Sids :
        chan[d][i] # <<>> =>
            /\ hs[d][i] = "wait1" => Head(chan[d][i]) = Shake(1)
            /\ hs[d][i] = "wait2" => Head(chan[d][i]) = Shake(2)
            /\ hs[d][i] = "wait3" => Head(chan[d][i]) = Shake(3)

\* A relay-backed session exists only with a peer that took part in the same
\* handshake and whose revealed id was the expected one, however the sessions
\* of two crossing offers interleave (run_relay_handshake).
RelaySessionAuthentic ==
    \A d, p \in Devices :
        sessions[d][p] # None =>
            /\ agree
            /\ party[sessions[d][p]] = {d, p}
            /\ hs[p][sessions[d][p]] \in {"wait3", "check", "verified", "done"}

\* Each direction of a relay session implements the ordered-prefix channel: the
\* peer takes frames in the order of their encryption, although forwarders
\* send them out of order, frames are lost to waiters, and two sessions with
\* the same peer share one entry of `sessions` (handle_relay_data).
PeerOf(d, i) == IF d \in party[i] THEN Peer(d, i) ELSE d
Channel(d, i) ==
    INSTANCE OrderedPrefix WITH
        Streams <- {"relay"},
        log     <- [n \in 1 .. enc[d][i] |-> "relay"],
        taken   <- dec[PeerOf(d, i)][i],
        hand    <- [s \in {"relay"} |->
                      IF hand[PeerOf(d, i)] = i THEN dec[PeerOf(d, i)][i] ELSE 0]
RelayRefines ==
    /\ \A d \in Devices, i \in Sids : Channel(d, i)!Init
    /\ [][\A d \in Devices, i \in Sids : [Channel(d, i)!Next]_(Channel(d, i)!vars)]_vars

\* Message or event e is on its way, to the server or from it.
InFlight(e) ==
    \E d \in Devices : \/ \E k \in DOMAIN out[d] : out[d][k] = e
                      \/ \E k \in DOMAIN inbox[d] : inbox[d][k] = e

\* A handshake whose two tasks wait when message 1 is on its way comes to its
\* end on both sides, unless a fault intervenes.  (Message 1 that the loop of
\* the responder handles before the task has inserted its waiter is lost, and
\* both tasks wait for ever: there is no timeout.)
HandshakeEnds ==
    \A i \in Sids, d, p \in Devices :
        (/\ hs[d][i] = "wait2" /\ hs[p][i] = "wait1"
         /\ InFlight(Event("RelayData", i, Shake(1))))
        ~> (\/ \A q \in {d, p} : hs[q][i] \in {"done", "failed"}
            \/ faults > 0)

-----------------------------------------------------------------------------
(* What comments of the code claim, and the code does not do *)

\* activate_relay_session: "Called when the signaling server confirms both
\* sides of a session_id have requested a relay".  With a server that waits for
\* both, an attempt whose candidates all failed is granted a relay, unless a
\* fault intervenes.
RelayGranted ==
    \A i \in Sids : InFlight(Event("CandidateResult", i, Likely(FALSE)))
                       ~> (i \in relayed \/ faults > 0)

\* relay_handshake_waiters: "Routes RelayData frames to an in-progress relay
\* handshake [...] before a PeerSession exists for that peer".  A handshake comes
\* to its end on both sides once both tasks are spawned, unless a fault
\* intervenes.
HandshakeCompletes ==
    \A i \in Sids, d, p \in Devices :
        d # p /\ hs[d][i] = "spawned" /\ hs[p][i] = "spawned"
        ~> (\/ \A q \in {d, p} : hs[q][i] \in {"done", "failed"}
            \/ faults > 0)

\* signaling: "set once connect_signaling_server is called".  While the WebSocket
\* of the latest call is up, `signaling` is Some, whatever the event loop of an
\* earlier client still has to handle.
SignalingStaysSet == linked \subseteq signaling
=============================================================================
