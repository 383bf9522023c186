------------------------------ MODULE Sessions ------------------------------
(***************************************************************************)
(* The session registry of connection_manager.rs: how devices dial each    *)
(* other over QUIC, run the Noise_XX handshake, compare the identity it    *)
(* reveals with the one they expected, enter the connection in `sessions`  *)
(* and take it out again.                                                  *)
(*                                                                         *)
(* A connection has two sides, each served by tasks of its own.  The tasks *)
(* meet only in the `sessions` map of their device, which is keyed by peer *)
(* id: a second connection to the same peer overwrites the entry of the    *)
(* first, and the control reader of ANY connection to a peer removes       *)
(* whatever entry the peer has.  An entry that is overwritten or removed   *)
(* drops its control_tx; the writer task then ends, and with it the        *)
(* control stream the other side is reading.                               *)
(*                                                                         *)
(* The device row and the auto-resume that register_session triggers are   *)
(* in Chat and Transfer, what flows over a registered session in Wire.     *)
(***************************************************************************)
EXTENDS Naturals

CONSTANTS
    Devices,    \* the devices
    Conns,      \* the QUIC connections that may ever be dialled (a bound)
    None,       \* no connection
    MaxFaults   \* bound on connection losses, failed decryptions and crashes

ASSUME SessionsAssumption ==
    /\ None \notin Conns
    /\ MaxFaults \in Nat

VARIABLES
    dial,       \* c -> who dialled whom, expecting which id
    stage,      \* c -> side -> where the task of that side stands
    msg3,       \* connections whose third handshake message was written
    up,         \* connections QUIC still holds open
    fin,        \* <<c, side>>: that side's control stream is finished
    sessions,   \* device -> peer id -> connection, or None
    shown,      \* device -> peer ids its UI was last told are connected
    faults      \* faults so far

vars == <<dial, stage, msg3, up, fin, sessions, shown, faults>>

-----------------------------------------------------------------------------
(* Identities.  SHA-256 is taken to be injective, so an id is written as   *)
(* the key it is the hash of.  A device has an Ed25519 signing key and an  *)
(* X25519 static key derived from it; they are different keys.             *)

derive_device_id(d) == <<"ed25519", d>>

noise_public(d) == <<"x25519", d>>

device_id_from_public_key(k) == k

\* The id a device advertises, and the id its handshakes reveal.
DeviceId(d) == derive_device_id(d)
NoiseId(d)  == device_id_from_public_key(noise_public(d))

Ids == {DeviceId(d) : d \in Devices} \cup {NoiseId(d) : d \in Devices}

Sides == {"dialer", "callee"}
Other(s) == IF s = "dialer" THEN "callee" ELSE "dialer"

\* The device on a side of a connection, and the id its handshake reveals
\* about the other one.
At(c, s) == IF s = "dialer" THEN dial[c].from ELSE dial[c].to
Peer(c, s) == At(c, Other(s))
PeerId(c, s) == NoiseId(Peer(c, s))

\* idle .. wait* .. insert: the handshake; notify: entered in `sessions`, the
\* event not sent yet; live: the control reader runs; leave: the entry is
\* removed, the event not sent yet; over: the reader has ended; failed: the
\* task ended before it registered, or its process died.
Stages == {"idle", "wait2", "wait3", "insert", "notify", "live", "leave",
           "over", "failed"}

NoDial == [from |-> None, to |-> None, id |-> None]

Goto(c, s, to) == stage' = [stage EXCEPT ![c][s] = to]

-----------------------------------------------------------------------------
Init ==
    /\ dial = [c \in Conns |-> NoDial]
    /\ stage = [c \in Conns |-> [s \in Sides |-> "idle"]]
    /\ msg3 = {}
    /\ up = {}
    /\ fin = {}
    /\ sessions = [d \in Devices |-> [i \in Ids |-> None]]
    /\ shown = [d \in Devices |-> {}]
    /\ faults = 0

\* connect_to_peer(addr, expected): p answers at addr, whatever id the caller
\* expects.  A peer that has a session is not dialled.  Otherwise the dialer
\* connects, opens the control stream, writes message 1 and waits.  The test
\* and the registration are steps of their own: the lock is released between.
Dial(c, d, p, id) ==
    /\ dial[c] = NoDial
    /\ p # d
    /\ sessions[d][id] = None
    /\ dial' = [dial EXCEPT ![c] = [from |-> d, to |-> p, id |-> id]]
    /\ up' = up \cup {c}
    /\ Goto(c, "dialer", "wait2")
    /\ UNCHANGED <<msg3, fin, sessions, shown, faults>>

\* spawn_accept_loop and the first half of handle_inbound_connection: accept,
\* read message 1, write message 2.
AcceptConn(c) ==
    /\ stage[c]["dialer"] = "wait2" /\ stage[c]["callee"] = "idle"
    /\ c \in up
    /\ Goto(c, "callee", "wait3")
    /\ UNCHANGED <<dial, msg3, up, fin, sessions, shown, faults>>

\* The dialer reads message 2, writes message 3 and compares the id it
\* learnt with the one it expected.  A mismatch is an error: the connection
\* is dropped, but message 3 is on its way.
ReadMsg2(c) ==
    /\ stage[c]["dialer"] = "wait2" /\ stage[c]["callee"] = "wait3"
    /\ c \in up
    /\ msg3' = msg3 \cup {c}
    /\ \/ /\ dial[c].id = PeerId(c, "dialer")
          /\ Goto(c, "dialer", "insert")
          /\ UNCHANGED up
       \/ /\ dial[c].id # PeerId(c, "dialer")
          /\ Goto(c, "dialer", "failed")
          /\ up' = up \ {c}
    /\ UNCHANGED <<dial, fin, sessions, shown, faults>>

\* The callee reads message 3, which completes the handshake.  It expects no
\* id in particular.  Message 3 can be read as long as it was written, also
\* when the dialer has closed the connection since.
ReadMsg3(c) ==
    /\ stage[c]["callee"] = "wait3"
    /\ c \in msg3
    /\ Goto(c, "callee", "insert")
    /\ UNCHANGED <<dial, msg3, up, fin, sessions, shown, faults>>

\* A handshake read fails because the connection is gone.
HandshakeFails(c, s) ==
    /\ stage[c][s] \in {"wait2", "wait3"}
    /\ c \notin up
    /\ Goto(c, s, "failed")
    /\ UNCHANGED <<dial, msg3, up, fin, sessions, shown, faults>>

\* register_session, up to the insertion: under the id the handshake
\* revealed, over any entry the peer has.
InsertMutantExpectedId(c, s) ==   \* Fault: filed under the id dialled or advertised
    /\ stage[c][s] = "insert"
    /\ LET id == IF s = "dialer" THEN dial[c].id ELSE DeviceId(Peer(c, s))
       IN  sessions' = [sessions EXCEPT ![At(c, s)][id] = c]
    /\ Goto(c, s, "notify")
    /\ UNCHANGED <<dial, msg3, up, fin, shown, faults>>

Insert(c, s) ==
    /\ stage[c][s] = "insert"
    /\ sessions' = [sessions EXCEPT ![At(c, s)][PeerId(c, s)] = c]
    /\ Goto(c, s, "notify")
    /\ UNCHANGED <<dial, msg3, up, fin, shown, faults>>

\* register_session, the rest: on_peer_connected, then the writer, reader and
\* stream tasks are spawned.
NotifyMutantWrongId(c, s) ==   \* Fault: the event names the connection
    /\ stage[c][s] = "notify"
    /\ shown' = [shown EXCEPT ![At(c, s)] = @ \cup {c}]
    /\ Goto(c, s, "live")
    /\ UNCHANGED <<dial, msg3, up, fin, sessions, faults>>

Notify(c, s) ==
    /\ stage[c][s] = "notify"
    /\ shown' = [shown EXCEPT ![At(c, s)] = @ \cup {PeerId(c, s)}]
    /\ Goto(c, s, "live")
    /\ UNCHANGED <<dial, msg3, up, fin, sessions, faults>>

\* The writer task ends when control_tx is dropped, that is when the session
\* is no longer in the map (a transfer that still holds it delays this); the
\* send half it owns is finished.
WriterEndsMutantNever(c, s) ==   \* Fault: the session stays referenced
    /\ FALSE
    /\ UNCHANGED vars

WriterEnds(c, s) ==
    /\ stage[c][s] \in {"live", "leave", "over"}
    /\ sessions[At(c, s)][PeerId(c, s)] # c
    /\ <<c, s>> \notin fin
    /\ fin' = fin \cup {<<c, s>>}
    /\ UNCHANGED <<dial, stage, msg3, up, sessions, shown, faults>>

\* The control reader ends: it removes the peer's entry, whichever connection
\* it is of.
LeaveMutantKeeps(c, s) ==   \* Fault: the entry is not removed
    /\ UNCHANGED sessions
    /\ Goto(c, s, "leave")

Leave(c, s) ==
    /\ sessions' = [sessions EXCEPT ![At(c, s)][PeerId(c, s)] = None]
    /\ Goto(c, s, "leave")

\* ... because the connection is gone or the peer's stream is finished,
ReaderEnds(c, s) ==
    /\ stage[c][s] = "live"
    /\ c \notin up \/ <<c, Other(s)>> \in fin
    /\ Leave(c, s)
    /\ UNCHANGED <<dial, msg3, up, fin, shown, faults>>

\* ... or because a frame did not decrypt (see Wire for how that happens).
ReaderGivesUp(c, s) ==
    /\ faults < MaxFaults
    /\ stage[c][s] = "live"
    /\ faults' = faults + 1
    /\ Leave(c, s)
    /\ UNCHANGED <<dial, msg3, up, fin, shown>>

\* on_peer_disconnected, sent after the lock on `sessions` is released.
NotifyLeftMutantIfGone(c, s) ==   \* Fault: silent if the entry was another's
    /\ stage[c][s] = "leave"
    /\ shown' = IF c \in up THEN shown
                ELSE [shown EXCEPT ![At(c, s)] = @ \ {PeerId(c, s)}]
    /\ Goto(c, s, "over")
    /\ UNCHANGED <<dial, msg3, up, fin, sessions, faults>>

NotifyLeft(c, s) ==
    /\ stage[c][s] = "leave"
    /\ shown' = [shown EXCEPT ![At(c, s)] = @ \ {PeerId(c, s)}]
    /\ Goto(c, s, "over")
    /\ UNCHANGED <<dial, msg3, up, fin, sessions, faults>>

\* Fault: the connection is lost (both ends learn it by their idle timeout).
Lose(c) ==
    /\ faults < MaxFaults
    /\ c \in up
    /\ up' = up \ {c}
    /\ faults' = faults + 1
    /\ UNCHANGED <<dial, stage, msg3, fin, sessions, shown>>

\* Fault: the process of d dies and starts again with an empty registry.
Crash(d) ==
    /\ faults < MaxFaults
    /\ faults' = faults + 1
    /\ up' = {c \in up : d \notin {dial[c].from, dial[c].to}}
    /\ stage' = [c \in Conns |-> [s \in Sides |->
                    IF dial[c] # NoDial /\ At(c, s) = d /\ stage[c][s] # "idle"
                    THEN "failed" ELSE stage[c][s]]]
    /\ sessions' = [sessions EXCEPT ![d] = [i \in Ids |-> None]]
    /\ shown' = [shown EXCEPT ![d] = {}]
    /\ UNCHANGED <<dial, msg3, fin>>

\* What the tasks of one side do by themselves.
SideStep(c, s) ==
    \/ HandshakeFails(c, s)
    \/ Insert(c, s)
    \/ Notify(c, s)
    \/ WriterEnds(c, s)
    \/ ReaderEnds(c, s)
    \/ NotifyLeft(c, s)

Next ==
    \/ \E c \in Conns :
          \/ \E d, p \in Devices, id \in Ids : Dial(c, d, p, id)
          \/ AcceptConn(c) \/ ReadMsg2(c) \/ ReadMsg3(c) \/ Lose(c)
          \/ \E s \in Sides : SideStep(c, s) \/ ReaderGivesUp(c, s)
    \/ \E d \in Devices : Crash(d)

Spec == Init /\ [][Next]_vars

\* The tasks run on a runtime that polls every ready task; QUIC delivers what
\* was written while the connection is up.  Nobody must dial, nothing must
\* fail.
FairSpec ==
    /\ Spec
    /\ \A c \in Conns :
          /\ WF_vars(AcceptConn(c))
          /\ WF_vars(ReadMsg2(c))
          /\ WF_vars(ReadMsg3(c))
          /\ \A s \in Sides : WF_vars(SideStep(c, s))

-----------------------------------------------------------------------------
(* Properties *)

TypeOK ==
    /\ dial \in [Conns -> [from : Devices \cup {None}, to : Devices \cup {None},
                           id : Ids \cup {None}]]
    /\ stage \in [Conns -> [Sides -> Stages]]
    /\ msg3 \subseteq Conns
    /\ up \subseteq Conns
    /\ fin \subseteq Conns \X Sides
    /\ sessions \in [Devices -> [Ids -> Conns \cup {None}]]
    /\ shown \in [Devices -> SUBSET Ids]
    /\ faults \in 0 .. MaxFaults

\* A session in the map is one whose control reader runs (or is about to), and
\* it is filed under the id that the handshake of its own connection proved:
\* register_session and the removal at the end of a reader leave no dead
\* session for send_to and connect_to_peer to find, although connections to
\* the same peer overwrite and remove each other's entries.
SessionIsRead ==
    \A d \in Devices, id \in Ids :
        sessions[d][id] # None =>
            \E s \in Sides :
                LET c == sessions[d][id] IN
                /\ dial[c] # NoDial
                /\ At(c, s) = d
                /\ PeerId(c, s) = id
                /\ stage[c][s] \in {"notify", "live"}

\* A task of this side has something to do.
Pending(c, s) ==
    \/ stage[c][s] \in {"wait2", "wait3", "insert", "notify", "leave"}
    \/ stage[c][s] = "live" /\ (c \notin up \/ <<c, Other(s)>> \in fin)
    \/ /\ stage[c][s] \in {"live", "over"}
       /\ sessions[At(c, s)][PeerId(c, s)] # c
       /\ <<c, s>> \notin fin

Settled == \A c \in Conns, s \in Sides : ~ Pending(c, s)

\* Once all tasks have come to rest, the two devices agree: each has a session
\* with the other over the same connection, or neither has one.  No order of
\* dials, overwritten entries, stale readers, losses and crashes leaves one
\* device with a session the other does not have (register_session).
SettledAgrees ==
    Settled => \A d, p \in Devices :
                   d # p => sessions[d][NoiseId(p)] = sessions[p][NoiseId(d)]

\* Once all tasks have come to rest, a peer the UI was told is connected has a
\* session, although events are sent after the lock on `sessions` is released
\* (on_peer_connected, on_peer_disconnected).
SettledShown ==
    Settled => \A d \in Devices : \A id \in shown[d] : sessions[d][id] # None

\* A session only one of the two devices has does not last: the other end
\* registers it too, or the device that has it loses it.
HalfOpenEnds ==
    \A c \in Conns, s \in Sides :
        LET Mine   == dial[c] # NoDial /\ sessions[At(c, s)][PeerId(c, s)] = c
            Theirs == sessions[Peer(c, s)][NoiseId(At(c, s))] = c
        IN  (Mine /\ ~ Theirs) ~> (~ Mine \/ Theirs)

\* The comment on device_id_from_public_key: the id a handshake reveals equals
\* the peer's real device id, so that a dial to the device that advertises an
\* id does not fail with an identity mismatch.
AdvertisedPeerConnects ==
    \A c \in msg3 : dial[c].id = DeviceId(dial[c].to) => stage[c]["dialer"] # "failed"
=============================================================================
