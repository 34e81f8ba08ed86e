----------------------------- MODULE MCStartup -----------------------------
(* Startup on small sets, for TLC. *)
EXTENDS Startup, TLC

MCSymmetry == Permutations(Keys)
=============================================================================
