------------------------------ MODULE MCPolls ------------------------------
(* Polls on small sets, for TLC. *)
EXTENDS Polls

MCAllModes == Backends
MCAllFaults == FaultKinds
=============================================================================
