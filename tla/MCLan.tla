------------------------------- MODULE MCLan -------------------------------
(* Instance of Lan for TLC; the constants are in MCLan.cfg. *)
EXTENDS Lan
=============================================================================
