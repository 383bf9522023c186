--------------------------- MODULE SessionsProofs ---------------------------
(***************************************************************************)
(* Theorems about Sessions: type correctness, that the map holds no dead   *)
(* session, and that the two devices agree once all tasks are at rest, for *)
(* every number of devices, connections and faults.                        *)
(***************************************************************************)
EXTENDS Sessions, TLAPS

(* What makes SessionIsRead, SettledAgrees and SettledShown inductive.     *)

\* A connection nobody dialled has no tasks; one that was joins two devices.
DialInv ==
    \A c \in Conns :
        /\ dial[c] = NoDial => \A s \in Sides : stage[c][s] = "idle"
        /\ dial[c] # NoDial => /\ dial[c].from \in Devices
                               /\ dial[c].to \in Devices
                               /\ dial[c].from # dial[c].to

\* The callee starts before the dialer is through, and a connection one of
\* whose tasks failed is closed.
OrderInv ==
    \A c \in Conns :
        /\ stage[c]["dialer"] \notin {"idle", "wait2", "failed"}
              => stage[c]["callee"] # "idle"
        /\ stage[c]["callee"] # "idle" => stage[c]["dialer"] # "idle"
        /\ \A s \in Sides : stage[c][s] = "failed" => c \notin up

\* Connection c joins d to the peer with this id, and on d's side it is at one
\* of these stages.
Serves(c, d, id, stages) ==
    \E s \in Sides : /\ dial[c] # NoDial
                     /\ At(c, s) = d
                     /\ PeerId(c, s) = id
                     /\ stage[c][s] \in stages

\* SessionIsRead, connection by connection.
ReadInv ==
    \A d \in Devices, id \in Ids, c \in Conns :
        sessions[d][id] = c => Serves(c, d, id, {"notify", "live"})

\* A peer shown as connected has a session, or a task that will say it left.
ShownInv ==
    \A d \in Devices, id \in Ids :
        id \in shown[d] =>
            \/ sessions[d][id] # None
            \/ \E c \in Conns : Serves(c, d, id, {"live", "leave"})

IInv == TypeOK /\ DialInv /\ OrderInv /\ ReadInv /\ ShownInv

-----------------------------------------------------------------------------
(* Identities and sides *)

LEMMA NoiseIds == \A d \in Devices : NoiseId(d) \in Ids
BY DEF Ids

LEMMA NoiseInjective == \A d, e : NoiseId(d) = NoiseId(e) => d = e
BY DEF NoiseId, device_id_from_public_key, noise_public

LEMMA TwoSides ==
    \A s \in Sides : Other(s) \in Sides /\ Other(s) # s /\ Other(Other(s)) = s
BY DEF Sides, Other

\* The two sides of a connection that was dialled are different devices.
LEMMA Ends ==
    ASSUME DialInv, NEW c \in Conns, NEW s \in Sides, dial[c] # NoDial
    PROVE  /\ At(c, s) \in Devices /\ Peer(c, s) \in Devices
           /\ At(c, s) # At(c, Other(s))
           /\ PeerId(c, s) \in Ids
           /\ PeerId(c, s) = NoiseId(At(c, Other(s)))
           /\ PeerId(c, Other(s)) = NoiseId(At(c, s))
BY NoiseIds DEF DialInv, At, Peer, PeerId, Other, Sides

-----------------------------------------------------------------------------
LEMMA InitHolds == Init => IInv
<1> SUFFICES ASSUME Init PROVE IInv
  OBVIOUS
<1>1. TypeOK
  BY SessionsAssumption DEF Init, TypeOK, NoDial, Stages
<1>2. DialInv /\ OrderInv
  BY DEF Init, DialInv, OrderInv, Sides
<1>3. ReadInv /\ ShownInv
  BY SessionsAssumption DEF Init, ReadInv, ShownInv
<1> QED BY <1>1, <1>2, <1>3 DEF IInv

\* Who is where depends on the dials alone.
LEMMA SameEnds ==
    ASSUME UNCHANGED dial
    PROVE  \A c, s : At(c, s)' = At(c, s) /\ PeerId(c, s)' = PeerId(c, s)
BY DEF At, PeerId, Peer

\* The two invariants about Serves after a step, from what it does to the map,
\* the shown peers and the stages.
LEMMA ServesNext ==
    ASSUME TypeOK, ReadInv, ShownInv, TypeOK',
           \A d \in Devices, id \in Ids, c \in Conns : sessions'[d][id] = c =>
               \/ Serves(c, d, id, {"notify", "live"})'
               \/ /\ sessions[d][id] = c
                  /\ \A s \in Sides : dial[c] # NoDial /\ At(c, s) = d /\ PeerId(c, s) = id
                                        /\ stage[c][s] \in {"notify", "live"} =>
                        dial'[c] = dial[c] /\ stage'[c][s] \in {"notify", "live"},
           \A d \in Devices, id \in Ids : id \in shown'[d] /\ sessions'[d][id] = None =>
               \/ \E c \in Conns : Serves(c, d, id, {"live", "leave"})'
               \/ /\ id \in shown[d] /\ sessions[d][id] = None
                  /\ \A c \in Conns, s \in Sides :
                        dial[c] # NoDial /\ At(c, s) = d /\ PeerId(c, s) = id
                        /\ stage[c][s] \in {"live", "leave"} =>
                        dial'[c] = dial[c] /\ stage'[c][s] \in {"live", "leave"}
    PROVE  ReadInv' /\ ShownInv'
<1>1. ReadInv'
  <2> SUFFICES ASSUME NEW d \in Devices, NEW id \in Ids, NEW c \in Conns,
                      sessions'[d][id] = c
               PROVE  Serves(c, d, id, {"notify", "live"})'
    BY DEF ReadInv
  <2>1. CASE Serves(c, d, id, {"notify", "live"})'
    BY <2>1
  <2>2. CASE ~ Serves(c, d, id, {"notify", "live"})'
    <3>1. Serves(c, d, id, {"notify", "live"})
      BY <2>2 DEF ReadInv
    <3>2. PICK s \in Sides : dial[c] # NoDial /\ At(c, s) = d /\ PeerId(c, s) = id
                             /\ stage[c][s] \in {"notify", "live"}
      BY <3>1 DEF Serves
    <3>3. dial'[c] = dial[c] /\ stage'[c][s] \in {"notify", "live"}
      BY <2>2, <3>2
    <3>4. At(c, s)' = d /\ PeerId(c, s)' = id
      BY <3>2, <3>3 DEF At, PeerId, Peer
    <3>5. (dial[c] # NoDial)'
      BY <3>2, <3>3 DEF NoDial
    <3> QED BY <3>3, <3>4, <3>5 DEF Serves
  <2> QED BY <2>1, <2>2
<1>2. ShownInv'
  <2> SUFFICES ASSUME NEW d \in Devices, NEW id \in Ids, id \in shown'[d],
                      sessions'[d][id] = None
               PROVE  \E c \in Conns : Serves(c, d, id, {"live", "leave"})'
    BY DEF ShownInv
  <2>1. CASE \E c \in Conns : Serves(c, d, id, {"live", "leave"})'
    BY <2>1
  <2>2. CASE ~ \E c \in Conns : Serves(c, d, id, {"live", "leave"})'
    <3>1. PICK c \in Conns : Serves(c, d, id, {"live", "leave"})
      BY <2>2 DEF ShownInv
    <3>2. PICK s \in Sides : dial[c] # NoDial /\ At(c, s) = d /\ PeerId(c, s) = id
                             /\ stage[c][s] \in {"live", "leave"}
      BY <3>1 DEF Serves
    <3>3. dial'[c] = dial[c] /\ stage'[c][s] \in {"live", "leave"}
      BY <2>2, <3>2
    <3>4. At(c, s)' = d /\ PeerId(c, s)' = id
      BY <3>2, <3>3 DEF At, PeerId, Peer
    <3>5. (dial[c] # NoDial)'
      BY <3>2, <3>3 DEF NoDial
    <3> QED BY <3>3, <3>4, <3>5 DEF Serves
  <2> QED BY <2>1, <2>2
<1> QED BY <1>1, <1>2

LEMMA DialKeeps ==
    ASSUME IInv, NEW c \in Conns, NEW d \in Devices, NEW p \in Devices, NEW id \in Ids,
           Dial(c, d, p, id)
    PROVE  IInv'
<1>1. /\ dial[c] = NoDial /\ p # d
      /\ \A s \in Sides : stage[c][s] = "idle"
  BY DEF Dial, IInv, DialInv
<1>2. TypeOK'
  BY DEF Dial, IInv, TypeOK, Goto, Sides, Stages
<1>3. DialInv'
  <2>1. dial' = [dial EXCEPT ![c] = [from |-> d, to |-> p, id |-> id]]
    BY DEF Dial
  <2>2. dial'[c] # NoDial
    BY <1>1, <2>1 DEF IInv, TypeOK, NoDial
  <2> QED BY <1>1, <2>1, <2>2 DEF Dial, IInv, TypeOK, DialInv, Goto, Sides
<1>4. OrderInv'
  BY <1>1 DEF Dial, IInv, TypeOK, OrderInv, Goto, Sides
<1>5. \A e \in Conns, s \in Sides : dial[e] # NoDial =>
          dial'[e] = dial[e] /\ stage'[e][s] = stage[e][s]
  BY <1>1 DEF Dial, IInv, TypeOK, Goto
<1>6. UNCHANGED <<sessions, shown>>
  BY DEF Dial
<1>7. ReadInv' /\ ShownInv'
  BY <1>2, <1>5, <1>6, ServesNext DEF IInv
<1> QED BY <1>2, <1>3, <1>4, <1>7 DEF IInv

\* A step of the handshake on one side, before anything is registered.
LEMMA HandshakeKeeps ==
    ASSUME IInv, NEW c \in Conns,
           \/ AcceptConn(c) \/ ReadMsg2(c) \/ ReadMsg3(c)
           \/ \E s \in Sides : HandshakeFails(c, s)
    PROVE  IInv'
<1>1. UNCHANGED <<dial, fin, sessions, shown, faults>> /\ up' \subseteq up
  BY DEF AcceptConn, ReadMsg2, ReadMsg3, HandshakeFails
<1>2. TypeOK'
  BY DEF AcceptConn, ReadMsg2, ReadMsg3, HandshakeFails, IInv, TypeOK, Goto, Sides, Stages
<1>3. dial[c] # NoDial
  BY DEF AcceptConn, ReadMsg2, ReadMsg3, HandshakeFails, IInv, DialInv, Sides
<1>4. DialInv'
  BY <1>1, <1>3 DEF AcceptConn, ReadMsg2, ReadMsg3, HandshakeFails, IInv, DialInv,
     TypeOK, Goto, Sides
<1>5. OrderInv'
  <2>1. CASE AcceptConn(c)
    BY <2>1 DEF AcceptConn, IInv, OrderInv, TypeOK, Goto, Sides
  <2>2. CASE ReadMsg2(c)
    <3>1. stage[c]["callee"] = "wait3"
      BY <2>2 DEF ReadMsg2
    <3>2. CASE Goto(c, "dialer", "insert") /\ UNCHANGED up
      BY <3>1, <3>2 DEF IInv, OrderInv, TypeOK, Goto, Sides
    <3>3. CASE Goto(c, "dialer", "failed") /\ up' = up \ {c}
      BY <3>1, <3>3 DEF IInv, OrderInv, TypeOK, Goto, Sides
    <3> QED BY <2>2, <3>2, <3>3 DEF ReadMsg2
  <2>3. CASE ReadMsg3(c)
    BY <2>3 DEF ReadMsg3, IInv, OrderInv, TypeOK, Goto, Sides
  <2>4. CASE \E s \in Sides : HandshakeFails(c, s)
    BY <2>4 DEF HandshakeFails, IInv, OrderInv, TypeOK, Goto, Sides
  <2> QED BY <2>1, <2>2, <2>3, <2>4
<1>6. \A e \in Conns, s \in Sides :
          stage[e][s] \in {"notify", "live", "leave"} => stage'[e][s] = stage[e][s]
  <2>1. PICK t \in Sides, to \in Stages : Goto(c, t, to) /\ stage[c][t] \in {"idle", "wait2", "wait3"}
    <3>1. CASE AcceptConn(c)
      BY <3>1 DEF AcceptConn, Sides, Stages
    <3>2. CASE ReadMsg2(c)
      BY <3>2 DEF ReadMsg2, Sides, Stages
    <3>3. CASE ReadMsg3(c)
      BY <3>3 DEF ReadMsg3, Sides, Stages
    <3>4. CASE \E s \in Sides : HandshakeFails(c, s)
      BY <3>4 DEF HandshakeFails, Sides, Stages
    <3> QED BY <3>1, <3>2, <3>3, <3>4
  <2> QED BY <2>1 DEF Goto, IInv, TypeOK
<1>7. ReadInv' /\ ShownInv'
  BY <1>1, <1>2, <1>6, ServesNext DEF IInv
<1> QED BY <1>2, <1>4, <1>5, <1>7 DEF IInv

\* A step of one side from its insertion on.
LEMMA SideKeeps ==
    ASSUME IInv, NEW c \in Conns, NEW s \in Sides,
           \/ Insert(c, s) \/ Notify(c, s) \/ ReaderEnds(c, s) \/ ReaderGivesUp(c, s)
           \/ NotifyLeft(c, s)
    PROVE  IInv'
<1>1. UNCHANGED <<dial, msg3, up, fin>> /\ faults' \in 0 .. MaxFaults
  BY SessionsAssumption DEF Insert, Notify, ReaderEnds, ReaderGivesUp, NotifyLeft, IInv,
     TypeOK, Leave
<1>2. PICK to \in {"notify", "live", "leave", "over"} : Goto(c, s, to)
  BY DEF Insert, Notify, ReaderEnds, ReaderGivesUp, NotifyLeft, Leave
<1>3. stage[c][s] \in {"insert", "notify", "live", "leave"}
  BY DEF Insert, Notify, ReaderEnds, ReaderGivesUp, NotifyLeft
<1>4. dial[c] # NoDial
  BY <1>3 DEF IInv, DialInv
<1>5. At(c, s) \in Devices /\ PeerId(c, s) \in Ids
  BY <1>4, Ends DEF IInv
<1>6. stage' \in [Conns -> [Sides -> Stages]]
  BY <1>2 DEF Goto, IInv, TypeOK, Stages
<1>7. \A e \in Conns, t \in Sides :
          stage'[e][t] = IF e = c /\ t = s THEN to ELSE stage[e][t]
  BY <1>2 DEF Goto, IInv, TypeOK
<1>8. TypeOK'
  <2>1. sessions' \in [Devices -> [Ids -> Conns \cup {None}]]
    BY <1>5 DEF Insert, Notify, ReaderEnds, ReaderGivesUp, NotifyLeft, Leave, IInv, TypeOK
  <2>2. shown' \in [Devices -> SUBSET Ids]
    BY <1>5 DEF Insert, Notify, ReaderEnds, ReaderGivesUp, NotifyLeft, Leave, IInv, TypeOK
  <2> QED BY <1>1, <1>6, <2>1, <2>2 DEF IInv, TypeOK
<1>9. DialInv'
  BY <1>1, <1>4, <1>7 DEF IInv, DialInv
<1>10. OrderInv'
  BY <1>1, <1>3, <1>7 DEF IInv, OrderInv, Sides
<1>11. ASSUME NEW d \in Devices, NEW id \in Ids, NEW e \in Conns, sessions'[d][id] = e
       PROVE  \/ Serves(e, d, id, {"notify", "live"})'
              \/ /\ sessions[d][id] = e
                 /\ \A t \in Sides : dial[e] # NoDial /\ At(e, t) = d /\ PeerId(e, t) = id
                                       /\ stage[e][t] \in {"notify", "live"} =>
                       dial'[e] = dial[e] /\ stage'[e][t] \in {"notify", "live"}
  <2>1. CASE d = At(c, s) /\ id = PeerId(c, s)
    <3>1. CASE Insert(c, s)
      <4>1. e = c
        BY <2>1, <3>1, <1>5, <1>11 DEF Insert, IInv, TypeOK
      <4>2. stage'[c][s] = "notify"
        BY <3>1 DEF Insert, IInv, TypeOK, Goto
      <4> QED BY <2>1, <4>1, <4>2, <1>1, <1>4, SameEnds DEF Serves
    <3>2. CASE Notify(c, s)
      <4>1. sessions[d][id] = e
        BY <3>2, <1>11 DEF Notify
      <4>2. stage'[c][s] = "live"
        BY <3>2 DEF Notify, IInv, TypeOK, Goto
      <4> QED BY <4>1, <4>2, <1>1, <1>7
    <3>3. CASE ReaderEnds(c, s) \/ ReaderGivesUp(c, s)
      BY <2>1, <3>3, <1>5, <1>11, SessionsAssumption DEF ReaderEnds, ReaderGivesUp, Leave,
         IInv, TypeOK
    <3>4. CASE NotifyLeft(c, s)
      <4>1. sessions[d][id] = e
        BY <3>4, <1>11 DEF NotifyLeft
      <4>2. stage[c][s] = "leave"
        BY <3>4 DEF NotifyLeft
      <4> QED BY <4>1, <4>2, <1>1, <1>7
    <3> QED BY <3>1, <3>2, <3>3, <3>4
  <2>2. CASE ~ (d = At(c, s) /\ id = PeerId(c, s))
    <3>1. sessions'[d][id] = sessions[d][id]
      BY <2>2, <1>5 DEF Insert, Notify, ReaderEnds, ReaderGivesUp, NotifyLeft, Leave,
         IInv, TypeOK
    <3> QED BY <2>2, <3>1, <1>1, <1>7, <1>11
  <2> QED BY <2>1, <2>2
<1>12. ASSUME NEW d \in Devices, NEW id \in Ids, id \in shown'[d], sessions'[d][id] = None
       PROVE  \/ \E e \in Conns : Serves(e, d, id, {"live", "leave"})'
              \/ /\ id \in shown[d] /\ sessions[d][id] = None
                 /\ \A e \in Conns, t \in Sides :
                       dial[e] # NoDial /\ At(e, t) = d /\ PeerId(e, t) = id
                       /\ stage[e][t] \in {"live", "leave"} =>
                       dial'[e] = dial[e] /\ stage'[e][t] \in {"live", "leave"}
  <2>1. CASE d = At(c, s) /\ id = PeerId(c, s)
    <3>1. ~ Insert(c, s)
      BY <2>1, <1>5, <1>12, SessionsAssumption DEF Insert, IInv, TypeOK
    <3>2. ~ NotifyLeft(c, s)
      BY <2>1, <1>5, <1>12 DEF NotifyLeft, IInv, TypeOK
    <3>3. stage'[c][s] \in {"live", "leave"}
      BY <3>1, <3>2 DEF Notify, ReaderEnds, ReaderGivesUp, Leave, Goto, IInv, TypeOK
    <3> QED BY <2>1, <3>3, <1>1, <1>4, SameEnds DEF Serves
  <2>2. CASE ~ (d = At(c, s) /\ id = PeerId(c, s))
    <3>1. sessions'[d][id] = sessions[d][id] /\ id \in shown[d]
      BY <2>2, <1>5, <1>12 DEF Insert, Notify, ReaderEnds, ReaderGivesUp, NotifyLeft,
         Leave, IInv, TypeOK
    <3> QED BY <2>2, <3>1, <1>1, <1>7, <1>12
  <2> QED BY <2>1, <2>2
<1>13. ReadInv' /\ ShownInv'
  BY <1>8, <1>11, <1>12, ServesNext DEF IInv
<1> QED BY <1>8, <1>9, <1>10, <1>13 DEF IInv

\* The writer's end and the loss of a connection touch no stage and no entry.
LEMMA QuietKeeps ==
    ASSUME IInv, NEW c \in Conns, Lose(c) \/ \E s \in Sides : WriterEnds(c, s)
    PROVE  IInv'
<1>1. UNCHANGED <<dial, stage, msg3, sessions, shown>> /\ up' \subseteq up
  BY DEF Lose, WriterEnds
<1>2. TypeOK'
  <2>1. CASE Lose(c)
    BY <2>1, SessionsAssumption DEF Lose, IInv, TypeOK
  <2>2. CASE \E s \in Sides : WriterEnds(c, s)
    BY <2>2 DEF WriterEnds, IInv, TypeOK
  <2> QED BY <2>1, <2>2
<1>3. DialInv' /\ OrderInv'
  BY <1>1 DEF IInv, DialInv, OrderInv
<1>4. ReadInv' /\ ShownInv'
  BY <1>1, <1>2, ServesNext DEF IInv
<1> QED BY <1>2, <1>3, <1>4 DEF IInv

LEMMA CrashKeeps == ASSUME IInv, NEW d \in Devices, Crash(d) PROVE IInv'
<1>1. UNCHANGED <<dial, msg3, fin>> /\ up' = {c \in up : d \notin {dial[c].from, dial[c].to}}
  BY DEF Crash
<1>2. TypeOK'
  BY SessionsAssumption DEF Crash, IInv, TypeOK, Stages
<1>3. \A c \in Conns, s \in Sides :
          stage'[c][s] = IF dial[c] # NoDial /\ At(c, s) = d /\ stage[c][s] # "idle"
                         THEN "failed" ELSE stage[c][s]
  BY DEF Crash
<1>4. \A e \in Devices : e # d => sessions'[e] = sessions[e] /\ shown'[e] = shown[e]
  BY DEF Crash, IInv, TypeOK
<1>5. shown'[d] = {} /\ \A id \in Ids : sessions'[d][id] = None
  BY DEF Crash, IInv, TypeOK
<1>6. DialInv'
  BY <1>1, <1>3 DEF IInv, DialInv
<1>7. OrderInv'
  BY <1>1, <1>3 DEF IInv, OrderInv, At, Sides
<1>8. ReadInv' /\ ShownInv'
  BY <1>1, <1>2, <1>3, <1>4, <1>5, ServesNext, SessionsAssumption DEF IInv
<1> QED BY <1>2, <1>6, <1>7, <1>8 DEF IInv

LEMMA NextKeeps == ASSUME IInv, [Next]_vars PROVE IInv'
<1>1. CASE Next
  BY <1>1, DialKeeps, HandshakeKeeps, SideKeeps, QuietKeeps, CrashKeeps DEF Next, SideStep
<1>2. CASE UNCHANGED vars
  <2>1. TypeOK' /\ DialInv' /\ OrderInv'
    BY <1>2 DEF vars, IInv, TypeOK, DialInv, OrderInv
  <2>2. ReadInv' /\ ShownInv'
    BY <1>2, <2>1, ServesNext DEF vars, IInv
  <2> QED BY <2>1, <2>2 DEF IInv
<1> QED BY <1>1, <1>2

\* IInv holds in every state of every behaviour.
THEOREM InductiveInvariant == Spec => []IInv
BY InitHolds, NextKeeps, PTL DEF Spec

\* The registry keeps its types, for every number of devices, connections and
\* faults.
THEOREM TypeCorrect == Spec => []TypeOK
<1>1. IInv => TypeOK
  BY DEF IInv
<1> QED BY <1>1, InductiveInvariant, PTL

\* No order of dials, overwritten entries, stale readers, losses and crashes
\* leaves a session in the map that nobody reads (register_session).
THEOREM SessionsAreRead == Spec => []SessionIsRead
<1>1. IInv => SessionIsRead
  BY DEF IInv, TypeOK, ReadInv, Serves, SessionIsRead
<1> QED BY <1>1, InductiveInvariant, PTL

\* At rest, a live side of an open connection faces a side that is live too or
\* is over without having finished its stream.
LEMMA OtherSide ==
    ASSUME IInv, Settled, NEW c \in Conns, NEW s \in Sides, dial[c] # NoDial,
           stage[c][s] = "live"
    PROVE  /\ c \in up /\ <<c, Other(s)>> \notin fin
           /\ stage[c][Other(s)] \in {"live", "over"}
<1>1. ~ Pending(c, s) /\ ~ Pending(c, Other(s))
  BY TwoSides DEF Settled
<1>2. c \in up /\ <<c, Other(s)>> \notin fin
  BY <1>1 DEF Pending
<1>3. stage[c][Other(s)] \notin {"wait2", "wait3", "insert", "notify", "leave"}
  BY <1>1 DEF Pending
<1>4. stage[c][Other(s)] # "failed"
  BY <1>2, TwoSides DEF IInv, OrderInv
<1>5. stage[c][Other(s)] # "idle"
  BY DEF IInv, OrderInv, Sides, Other
<1>6. stage[c][Other(s)] \in Stages
  BY TwoSides DEF IInv, TypeOK
<1> QED BY <1>2, <1>3, <1>4, <1>5, <1>6 DEF Stages

\* At rest, a session of d with p is a session of p with d.
LEMMA Mutual ==
    ASSUME IInv, Settled, NEW d \in Devices, NEW p \in Devices,
           sessions[d][NoiseId(p)] # None
    PROVE  sessions[p][NoiseId(d)] = sessions[d][NoiseId(p)]
<1> DEFINE c == sessions[d][NoiseId(p)]
<1>1. c \in Conns
  BY NoiseIds DEF IInv, TypeOK
<1>2. PICK s \in Sides : /\ dial[c] # NoDial
                         /\ At(c, s) = d
                         /\ PeerId(c, s) = NoiseId(p)
                         /\ stage[c][s] \in {"notify", "live"}
  BY <1>1, NoiseIds DEF IInv, ReadInv, Serves
<1>3. stage[c][s] = "live"
  BY <1>1, <1>2 DEF Settled, Pending
<1>4. At(c, Other(s)) = p /\ PeerId(c, Other(s)) = NoiseId(d)
  BY <1>1, <1>2, Ends, NoiseInjective DEF IInv
<1>5. /\ <<c, Other(s)>> \notin fin
      /\ stage[c][Other(s)] \in {"live", "over"}
  BY <1>1, <1>2, <1>3, OtherSide
<1>6. ~ Pending(c, Other(s))
  BY <1>1, TwoSides DEF Settled
<1> QED BY <1>4, <1>5, <1>6 DEF Pending

\* Once all tasks are at rest, two devices have a session with each other over
\* the same connection or neither has one.
THEOREM SettledDevicesAgree == Spec => []SettledAgrees
<1>1. IInv => SettledAgrees
  BY Mutual DEF SettledAgrees
<1> QED BY <1>1, InductiveInvariant, PTL

\* Once all tasks are at rest, a peer the UI shows as connected has a session.
THEOREM SettledIsShown == Spec => []SettledShown
<1>1. ASSUME IInv, Settled, NEW d \in Devices, NEW id \in shown[d],
             sessions[d][id] = None
      PROVE  FALSE
  <2>1. id \in Ids
    BY <1>1 DEF IInv, TypeOK
  <2>2. PICK c \in Conns, s \in Sides :
           /\ dial[c] # NoDial
           /\ At(c, s) = d
           /\ PeerId(c, s) = id
           /\ stage[c][s] \in {"live", "leave"}
    BY <1>1, <2>1 DEF IInv, ShownInv, Serves
  <2>3. ~ Pending(c, s) /\ ~ Pending(c, Other(s))
    BY <1>1, TwoSides DEF Settled
  <2>4. stage[c][s] = "live"
    BY <2>2, <2>3 DEF Pending
  <2>5. /\ <<c, Other(s)>> \notin fin
        /\ stage[c][Other(s)] \in {"live", "over"}
    BY <1>1, <2>2, <2>4, OtherSide
  <2>6. <<c, s>> \in fin
    BY <1>1, <2>2, <2>3, <2>4, SessionsAssumption DEF Pending
  <2>7. stage[c][Other(s)] = "over"
    BY <2>3, <2>5, <2>6, TwoSides DEF Pending
  <2>8. sessions[At(c, Other(s))][PeerId(c, Other(s))] = c
    BY <2>3, <2>5, <2>7 DEF Pending
  <2>9. PICK t \in Sides : /\ At(c, t) = At(c, Other(s))
                           /\ stage[c][t] \in {"notify", "live"}
    <3>1. At(c, Other(s)) \in Devices /\ PeerId(c, Other(s)) \in Ids
      BY <1>1, <2>2, Ends, TwoSides DEF IInv
    <3> QED BY <1>1, <2>8, <3>1 DEF IInv, ReadInv, Serves
  <2>10. t = Other(s)
    BY <1>1, <2>2, <2>9, Ends DEF IInv, Sides, Other
  <2> QED BY <2>7, <2>9, <2>10
<1>2. IInv => SettledShown
  BY <1>1 DEF SettledShown
<1> QED BY <1>2, InductiveInvariant, PTL
=============================================================================
