----------------------------- MODULE MCSessions -----------------------------
(* Instance of Sessions for TLC: every constant is set in the cfg files.   *)
EXTENDS Sessions
=============================================================================
