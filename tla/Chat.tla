-------------------------------- MODULE Chat --------------------------------
(***************************************************************************)
(* Text messages between two devices: send_text_message, poll_events,      *)
(* mark_message_read and get_conversation_history of ffi.rs over the       *)
(* message tables of storage.rs, the event queue QueueSink and the chat    *)
(* page of the Windows application that polls it.                          *)
(*                                                                         *)
(* Connections are reduced to what a text can tell apart: who has          *)
(* registered, whose `sessions` entry points where, what is in flight, and *)
(* that a side whose entry is gone finishes its control stream.  Sessions  *)
(* shows how connections come about, Wire that a control stream delivers   *)
(* its frames in order.  The tables survive a crash, the rest does not.    *)
(***************************************************************************)
EXTENDS Naturals, SequencesExt

CONSTANTS
    Devices,    \* the two devices
    Msgs,       \* the texts that may ever be written (a bound)
    Author,     \* text -> the device that writes it
    Conns,      \* the connections that may ever be made (a bound)
    None,       \* no connection
    MaxFaults   \* bound on lost connections and crashes

ASSUME ChatAssumption ==
    /\ \E d, e \in Devices : d # e /\ Devices = {d, e}
    /\ Author \in [Msgs -> Devices]
    /\ None \notin Conns
    /\ MaxFaults \in Nat

VARIABLES
    known,      \* devices whose `devices` table has a row for the peer
    convs,      \* devices whose `conversations` table has one
    rows,       \* device -> text -> its status in `messages`, or "none"
    call,       \* text -> where its send_text_message call stands
    via,        \* text -> connection it was sent on
    up,         \* connections QUIC holds open
    made,       \* connections made so far
    joined,     \* <<c, d>>: d has registered c, or died and never will
    reading,    \* <<c, d>>: d's control reader of c runs
    sess,       \* device -> connection its `sessions` entry points to
    wire,       \* connection -> device -> packets it sent, not yet dispatched
    events,     \* device -> QueueSink
    open,       \* devices whose chat page shows the peer
    bubble,     \* device -> text -> status of its bubble on the page, or "none"
    unread,     \* device -> rendered texts whose mark_message_read is to come
    seen,       \* texts that were ever rendered at their recipient (history)
    missed,     \* texts that were polled while no chat was open (history)
    faults      \* faults so far

store == <<known, convs, rows>>
net   == <<up, made, joined, reading, sess>>
ui    == <<open, bubble, unread, seen, missed>>
vars  == <<store, call, via, net, wire, events, ui, faults>>

-----------------------------------------------------------------------------
Peer(d) == CHOOSE e \in Devices : e # d
Recipient(m) == Peer(Author[m])

Statuses == {"none", "pending", "delivered", "read"}
Stages == {"idle", "begun", "stored", "sent", "done", "failed"}

Text(m) == [kind |-> "Text", m |-> m]
ReadReceipt(m) == [kind |-> "ReadReceipt", m |-> m]
Packets == [kind : {"Text", "ReadReceipt"}, m : Msgs]

NoBubbles == [m \in Msgs |-> "none"]

Init ==
    /\ known = {}
    /\ convs = {}
    /\ rows = [d \in Devices |-> NoBubbles]
    /\ call = [m \in Msgs |-> "idle"]
    /\ via = [m \in Msgs |-> None]
    /\ up = {} /\ made = {} /\ joined = {} /\ reading = {}
    /\ sess = [d \in Devices |-> None]
    /\ wire = [c \in Conns |-> [d \in Devices |-> << >>]]
    /\ events = [d \in Devices |-> << >>]
    /\ open = {}
    /\ bubble = [d \in Devices |-> NoBubbles]
    /\ unread = [d \in Devices |-> {}]
    /\ seen = {} /\ missed = {}
    /\ faults = 0

-----------------------------------------------------------------------------
(* Connections.                                                            *)

Connect(c) ==
    /\ c \notin made
    /\ made' = made \cup {c}
    /\ up' = up \cup {c}
    /\ UNCHANGED <<store, call, via, joined, reading, sess, wire, events, ui, faults>>

\* upsert_known_device gives the peer a row in `devices`.
upsert_known_device(d) == known' = known \cup {d}

\* register_session: the row, the entry, which replaces an older one, and the
\* control reader; also when the connection is lost by then.
register_session(c, d) ==
    /\ c \in made
    /\ <<c, d>> \notin joined
    /\ upsert_known_device(d)
    /\ joined' = joined \cup {<<c, d>>}
    /\ reading' = reading \cup {<<c, d>>}
    /\ sess' = [sess EXCEPT ![d] = c]
    /\ UNCHANGED <<convs, rows, call, via, up, made, wire, events, ui, faults>>

\* d's control stream of c: its writer ends once the entry that holds its
\* sender is gone, after writing what was queued.
Finished(c, d) == <<c, d>> \in joined /\ sess[d] # c

\* The control reader ends with the connection or with the peer's stream, and
\* removes the entry of the peer, whichever connection that points to.
ReaderEndsMutantEarly(c, d) ==   \* Fault: ends before the stream is read out
    /\ <<c, d>> \in reading
    /\ c \notin up \/ Finished(c, Peer(d))
    /\ reading' = reading \ {<<c, d>>}
    /\ sess' = [sess EXCEPT ![d] = None]
    /\ UNCHANGED <<store, call, via, up, made, joined, wire, events, ui, faults>>

ReaderEnds(c, d) ==
    /\ <<c, d>> \in reading
    /\ \/ c \notin up
       \/ Finished(c, Peer(d)) /\ wire[c][Peer(d)] = << >>
    /\ reading' = reading \ {<<c, d>>}
    /\ sess' = [sess EXCEPT ![d] = None]
    /\ UNCHANGED <<store, call, via, up, made, joined, wire, events, ui, faults>>

\* A lost connection takes what is in flight with it.
Lose(c) ==
    /\ c \in up
    /\ faults < MaxFaults
    /\ up' = up \ {c}
    /\ wire' = [wire EXCEPT ![c] = [d \in Devices |-> << >>]]
    /\ faults' = faults + 1
    /\ UNCHANGED <<store, call, via, made, joined, reading, sess, events, ui>>

\* The process of d dies: its tables stay, its calls, queue and page go, and
\* so do all its connections.
Crash(d) ==
    /\ faults < MaxFaults
    /\ call' = [m \in Msgs |-> IF Author[m] = d /\ call[m] \in {"begun", "stored", "sent"}
                                 THEN "failed" ELSE call[m]]
    /\ up' = {}
    /\ joined' = joined \cup {<<c, d>> : c \in made}
    /\ reading' = {r \in reading : r[2] # d}
    /\ sess' = [sess EXCEPT ![d] = None]
    /\ wire' = [c \in Conns |-> [e \in Devices |-> << >>]]
    /\ events' = [events EXCEPT ![d] = << >>]
    /\ open' = open \ {d}
    /\ bubble' = [bubble EXCEPT ![d] = NoBubbles]
    /\ unread' = [unread EXCEPT ![d] = {}]
    /\ faults' = faults + 1
    /\ UNCHANGED <<store, via, made, seen, missed>>

-----------------------------------------------------------------------------
(* send_text_message.  Each lock it takes is a step.                       *)

\* get_or_create_conversation: a conversation refers to a row of `devices`,
\* and the call fails while there is none.
get_or_create_conversationMutantUnchecked(m) ==   \* Fault: foreign keys off
    /\ call[m] = "idle"
    /\ Author[m] \in open
    /\ convs' = convs \cup {Author[m]}
    /\ call' = [call EXCEPT ![m] = "begun"]
    /\ UNCHANGED <<known, rows, via, net, wire, events, ui, faults>>

get_or_create_conversation(m) ==
    LET d == Author[m]
    IN  /\ call[m] = "idle"
        /\ d \in open
        /\ \/ /\ d \in known
              /\ convs' = convs \cup {d}
              /\ call' = [call EXCEPT ![m] = "begun"]
           \/ /\ d \notin known
              /\ call' = [call EXCEPT ![m] = "failed"]
              /\ UNCHANGED convs
        /\ UNCHANGED <<known, rows, via, net, wire, events, ui, faults>>

insert_messageMutantSkipped(m) ==   \* Fault: the row is not written
    /\ call[m] = "begun"
    /\ call' = [call EXCEPT ![m] = "stored"]
    /\ UNCHANGED <<known, convs, rows, via, net, wire, events, ui, faults>>

insert_message(m) ==
    /\ call[m] = "begun"
    /\ rows' = [rows EXCEPT ![Author[m]][m] = "pending"]
    /\ call' = [call EXCEPT ![m] = "stored"]
    /\ UNCHANGED <<known, convs, via, net, wire, events, ui, faults>>

\* send_to: an entry takes the packet, which is lost if its connection is.
\* Without an entry, or once the writer has met the loss, it fails.
send_to(d, p) ==
    LET c == sess[d]
    IN  /\ c # None
        /\ wire' = IF c \in up THEN [wire EXCEPT ![c][d] = Append(@, p)] ELSE wire

send_to_fails(d) == sess[d] = None \/ sess[d] \notin up

Transmit(m) ==
    /\ call[m] = "stored"
    /\ \/ /\ send_to(Author[m], Text(m))
          /\ call' = [call EXCEPT ![m] = "sent"]
          /\ via' = [via EXCEPT ![m] = sess[Author[m]]]
       \/ /\ send_to_fails(Author[m])
          /\ call' = [call EXCEPT ![m] = "failed"]
          /\ UNCHANGED <<wire, via>>
    /\ UNCHANGED <<store, net, events, ui, faults>>

-----------------------------------------------------------------------------
(* The receiving side and the page.                                        *)

\* The control reader takes a packet and dispatch_incoming queues its event.
\* Nothing is written to the tables.
Dispatch(c, d) ==
    LET e == Peer(d)
    IN  /\ <<c, d>> \in reading
        /\ c \in up
        /\ wire[c][e] # << >>
        /\ events' = [events EXCEPT ![d] = Append(@, Head(wire[c][e]))]
        /\ wire' = [wire EXCEPT ![c][e] = Tail(@)]
        /\ UNCHANGED <<store, call, via, net, ui, faults>>

\* What of the drained events the page renders, and which bubbles they mark.
TextsOf(q) == {q[i].m : i \in {j \in DOMAIN q : q[j].kind = "Text"}}
ReceiptsOf(q) == {q[i].m : i \in {j \in DOMAIN q : q[j].kind = "ReadReceipt"}}

\* poll_events drains the queue in one step.  The page then renders the texts
\* of the peer whose chat is open, skips all others, and updates the bubbles
\* that receipts name where there is such a bubble.
poll_eventsMutantKeeps(d) ==   \* Fault: the queue is copied, not taken
    LET new == IF d \in open THEN TextsOf(events[d]) ELSE {}
    IN  /\ events[d] # << >>
        /\ bubble' = [bubble EXCEPT ![d] =
               [m \in Msgs |-> IF m \in new THEN "delivered"
                               ELSE IF m \in ReceiptsOf(events[d]) /\ bubble[d][m] # "none"
                               THEN "read" ELSE bubble[d][m]]]
        /\ unread' = [unread EXCEPT ![d] = @ \cup new]
        /\ seen' = seen \cup new
        /\ missed' = missed \cup (TextsOf(events[d]) \ new)
        /\ UNCHANGED <<store, call, via, net, wire, events, open, faults>>

poll_eventsMutantMarksAll(d) ==   \* Fault: marks texts it does not render
    LET new == IF d \in open THEN TextsOf(events[d]) ELSE {}
    IN  /\ events[d] # << >>
        /\ events' = [events EXCEPT ![d] = << >>]
        /\ unread' = [unread EXCEPT ![d] = @ \cup TextsOf(events[d])]
        /\ seen' = seen \cup new
        /\ missed' = missed \cup (TextsOf(events[d]) \ new)
        /\ UNCHANGED <<store, call, via, net, wire, open, bubble, faults>>

poll_events(d) ==
    LET new == IF d \in open THEN TextsOf(events[d]) ELSE {}
    IN  /\ events[d] # << >>
        /\ events' = [events EXCEPT ![d] = << >>]
        /\ bubble' = [bubble EXCEPT ![d] =
               [m \in Msgs |-> IF m \in new THEN "delivered"
                               ELSE IF m \in ReceiptsOf(events[d]) /\ bubble[d][m] # "none"
                               THEN "read" ELSE bubble[d][m]]]
        /\ unread' = [unread EXCEPT ![d] = @ \cup new]
        /\ seen' = seen \cup new
        /\ missed' = missed \cup (TextsOf(events[d]) \ new)
        /\ UNCHANGED <<store, call, via, net, wire, open, faults>>

\* mark_message_read updates the row of that id, if there is one, and sends a
\* receipt whose failure is ignored.
MarkRead(d, m) ==
    /\ m \in unread[d]
    /\ unread' = [unread EXCEPT ![d] = @ \ {m}]
    /\ rows' = IF rows[d][m] # "none" THEN [rows EXCEPT ![d][m] = "read"] ELSE rows
    /\ \/ send_to(d, ReadReceipt(m))
       \/ send_to_fails(d) /\ UNCHANGED wire
    /\ UNCHANGED <<known, convs, call, via, net, events, open, bubble, seen, missed, faults>>

\* The page renders its own text once the call has returned, whichever chat it
\* shows by then.
RenderOwn(m) ==
    /\ call[m] = "sent"
    /\ call' = [call EXCEPT ![m] = "done"]
    /\ bubble' = [bubble EXCEPT ![Author[m]][m] = "pending"]
    /\ UNCHANGED <<store, via, net, wire, events, open, unread, seen, missed, faults>>

\* get_conversation_history: the rows of the conversation.
get_conversation_history(d) == rows[d]

\* The page is cleared and filled from the history when a peer is selected.
SelectPeer(d) ==
    /\ d \notin open
    /\ open' = open \cup {d}
    /\ bubble' = [bubble EXCEPT ![d] = get_conversation_history(d)]
    /\ UNCHANGED <<store, call, via, net, wire, events, unread, seen, missed, faults>>

\* Another peer is selected: its history replaces what the page showed.
Leave(d) ==
    /\ d \in open
    /\ open' = open \ {d}
    /\ bubble' = [bubble EXCEPT ![d] = NoBubbles]
    /\ UNCHANGED <<store, call, via, net, wire, events, unread, seen, missed, faults>>

-----------------------------------------------------------------------------
Next ==
    \/ \E c \in Conns : Connect(c) \/ Lose(c)
    \/ \E c \in Conns, d \in Devices :
          register_session(c, d) \/ ReaderEnds(c, d) \/ Dispatch(c, d)
    \/ \E d \in Devices : Crash(d) \/ poll_events(d) \/ SelectPeer(d) \/ Leave(d)
    \/ \E m \in Msgs :
          get_or_create_conversation(m) \/ insert_message(m) \/ Transmit(m) \/ RenderOwn(m)
    \/ \E d \in Devices, m \in Msgs : MarkRead(d, m)

Spec == Init /\ [][Next]_vars

\* Fair are the tokio tasks of a connection and the page's polling timer.
Fairness ==
    /\ \A c \in Conns, d \in Devices :
          /\ WF_vars(register_session(c, d))
          /\ WF_vars(ReaderEnds(c, d))
          /\ WF_vars(Dispatch(c, d))
    /\ \A d \in Devices : WF_vars(poll_events(d))

FairSpec == Spec /\ Fairness

-----------------------------------------------------------------------------
TypeOK ==
    /\ known \subseteq Devices
    /\ convs \subseteq known
    /\ rows \in [Devices -> [Msgs -> Statuses]]
    /\ call \in [Msgs -> Stages]
    /\ via \in [Msgs -> Conns \cup {None}]
    /\ made \subseteq Conns
    /\ up \subseteq made
    /\ joined \subseteq made \X Devices
    /\ reading \subseteq joined
    /\ sess \in [Devices -> Conns \cup {None}]
    /\ wire \in [Conns -> [Devices -> Seq(Packets)]]
    /\ events \in [Devices -> Seq(Packets)]
    /\ open \subseteq Devices
    /\ bubble \in [Devices -> [Msgs -> Statuses]]
    /\ unread \in [Devices -> SUBSET Msgs]
    /\ seen \subseteq Msgs
    /\ missed \subseteq Msgs
    /\ faults \in 0 .. MaxFaults

\* The packets that are on their way: in flight or in a queue.
OnTheWay == (UNION {ToSet(wire[c][d]) : c \in Conns, d \in Devices})
            \cup (UNION {ToSet(events[d]) : d \in Devices})

\* A text that has left its author, wherever it is by now and whatever has
\* crashed since, is in the author's tables: send_text_message persists it
\* before it transmits it.
SentIsStored ==
    \A m \in Msgs :
        Text(m) \in OnTheWay \/ m \in seen \cup missed
            => rows[Author[m]][m] # "none"

\* No text reaches a page twice: once polled it is not on its way again, over
\* reconnections and crashes.  Sending never retries, and the reader and the
\* queue hand a packet on in one step each.
TextComesOnce ==
    \A m \in Msgs : m \in seen \cup missed => Text(m) \notin OnTheWay

\* A receipt tells the truth: the text it names was rendered by the peer, and
\* the author has its row to set the receipt against, even after a crash.
ReceiptIsTrue ==
    \A m \in Msgs :
        ReadReceipt(m) \in OnTheWay \/ bubble[Author[m]][m] = "read"
            => m \in seen /\ rows[Author[m]][m] # "none"

\* A text whose send succeeded reaches the page of the recipient unless its
\* connection is lost, however the two devices dial, register and drop
\* entries meanwhile: a replaced entry's stream is read to its end first.
SentIsPolled ==
    \A m \in Msgs :
        (via[m] # None /\ via[m] \in up)
            ~> (m \in seen \cup missed \/ via[m] \notin up)
=============================================================================
