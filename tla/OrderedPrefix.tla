--------------------------- MODULE OrderedPrefix ---------------------------
(***************************************************************************)
(* What one direction of a peer session promises to the code above it,     *)
(* whatever streams carry the frames: the peer takes messages in exactly   *)
(* the order in which they were encrypted, without gap, duplicate or       *)
(* reordering; each stream hands its messages on one at a time.  The       *)
(* promise is a PREFIX: at any moment the peer may stop taking messages    *)
(* for good, and everything not yet taken is then lost.                    *)
(***************************************************************************)
EXTENDS Naturals, Sequences

CONSTANT Streams        \* the lanes on which messages travel

VARIABLES
    log,                \* messages in encryption order, each named by its stream
    taken,              \* how many of them the peer has taken
    hand                \* hand[s]: position being dispatched from s, 0 if none

vars == <<log, taken, hand>>

Init == /\ log = <<>>
        /\ taken = 0
        /\ hand = [s \in Streams |-> 0]

\* A message is encrypted for stream s.
Put(s) == /\ log' = Append(log, s)
          /\ UNCHANGED <<taken, hand>>

\* The peer takes the next message of the order, which must be one of s.
Take(s) == /\ taken < Len(log)
           /\ log[taken + 1] = s
           /\ hand[s] = 0
           /\ taken' = taken + 1
           /\ hand' = [hand EXCEPT ![s] = taken + 1]
           /\ UNCHANGED log

\* The handler of the message taken from s returns.
Done(s) == /\ hand[s] # 0
           /\ hand' = [hand EXCEPT ![s] = 0]
           /\ UNCHANGED <<log, taken>>

Next == \E s \in Streams : Put(s) \/ Take(s) \/ Done(s)

Spec == Init /\ [][Next]_vars
=============================================================================
