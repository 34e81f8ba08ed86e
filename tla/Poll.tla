-------------------------------- MODULE Poll --------------------------------
(***************************************************************************)
(* What a poll promises, said without the handler, the database or the     *)
(* process: an account spends its vote in a poll once, a spent vote puts   *)
(* at most one ballot into the poll, and the tally shown on the poll's     *)
(* page is the number of those ballots.                                    *)
(*                                                                         *)
(* A vote that is spent and never counted is allowed: the handler records  *)
(* the vote first and counts it second, and a crash may come between.      *)
(***************************************************************************)
EXTENDS Integers, FiniteSets

CONSTANTS
    Voters,     \* the accounts that may ever vote
    Paths,      \* the polls, named by their path
    Options     \* the options of a poll

VARIABLES
    spent,      \* {<<voter, path>>}: the votes that are used up
    ballots,    \* {<<voter, path, option>>}: the votes that are counted
    tally       \* path -> option -> number of votes shown

vars == <<spent, ballots, tally>>

TypeOK ==
    /\ spent \subseteq Voters \X Paths
    /\ ballots \subseteq Voters \X Paths \X Options
    /\ tally \in [Paths -> [Options -> Nat]]

Init ==
    /\ spent = {}
    /\ ballots = {}
    /\ tally = [p \in Paths |-> [o \in Options |-> 0]]

HasBallot(v, p) == \E o \in Options : <<v, p, o>> \in ballots

(* The account's vote in poll p is used up.                                *)
Spend(v, p) ==
    /\ <<v, p>> \notin spent
    /\ spent' = spent \cup {<<v, p>>}
    /\ UNCHANGED <<ballots, tally>>

(* A spent vote is counted, once.                                          *)
Cast(v, p, o) ==
    /\ <<v, p>> \in spent
    /\ ~HasBallot(v, p)
    /\ ballots' = ballots \cup {<<v, p, o>>}
    /\ tally' = [tally EXCEPT ![p][o] = @ + 1]
    /\ UNCHANGED spent

Next ==
    \E v \in Voters, p \in Paths :
        \/ Spend(v, p)
        \/ \E o \in Options : Cast(v, p, o)

Spec == Init /\ [][Next]_vars
=============================================================================
