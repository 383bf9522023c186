------------------------------ MODULE MCRelay ------------------------------
(* Instance of Relay for TLC; the constants are in the .cfg files. *)
EXTENDS Relay
=============================================================================
