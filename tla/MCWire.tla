------------------------------ MODULE MCWire ------------------------------
(* Instance of Wire for TLC. *)
EXTENDS Wire, TLC

\* The transfer streams are interchangeable (used in runs of safety only).
TransferSymmetry == Permutations(Transfers)
=============================================================================
