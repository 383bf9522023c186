---------------------------- MODULE MCTransfer ----------------------------
(* Instance of Transfer for TLC; the constants are in the .cfg files. *)
EXTENDS Transfer
=============================================================================
