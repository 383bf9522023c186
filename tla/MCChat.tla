------------------------------- MODULE MCChat -------------------------------
(* Instances of Chat: device a writes to device b.                         *)
EXTENDS Chat
CONSTANTS a, b
MCAuthor == [m \in Msgs |-> a]
=============================================================================
