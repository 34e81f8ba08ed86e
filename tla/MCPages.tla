------------------------------ MODULE MCPages ------------------------------
(* Pages on small sets, for TLC. *)
EXTENDS Pages

MCAllModes == Backends
=============================================================================
