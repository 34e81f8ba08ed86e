------------------------------ MODULE MCVoting ------------------------------
(* Voting on small sets, for TLC. *)
EXTENDS Voting

(* Of two options: below the first, the first, the last, beyond the last. *)
MCChoices == {-1, 0, 1, 2}

(* The first option only: two requests that mean the same vote. *)
MCValid1 == {0}

MCOs == {"os"}
MCAllModes == Backends
=============================================================================
