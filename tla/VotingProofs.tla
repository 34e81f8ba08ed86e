---------------------------- MODULE VotingProofs ----------------------------
(***************************************************************************)
(* Theorems of module Voting, for every set of requests, names and polls,  *)
(* every number of options, registrations and faults, and every database.  *)
(***************************************************************************)
EXTENDS Voting, TLAPS, FiniteSetTheorems

(* A recorded poll is in the account's VotedPath, and nothing else changes *)
(* (the append of vote.go:315 and the $push of mongodb.go:173).            *)
LEMMA AppendContains ==
    ASSUME NEW s \in Seq(Paths), NEW p \in Paths
    PROVE  /\ Append(s, p) \in Seq(Paths)
           /\ \A q \in Paths : Contains(Append(s, p), q) <=> Contains(s, q) \/ q = p
<1>1. Append(s, p) \in Seq(Paths)
  OBVIOUS
<1>2. /\ Len(Append(s, p)) = Len(s) + 1
      /\ \A i \in 1 .. Len(s) : Append(s, p)[i] = s[i]
      /\ Append(s, p)[Len(s) + 1] = p
      /\ Len(s) \in Nat
  OBVIOUS
<1>3. ASSUME NEW q \in Paths
      PROVE  Contains(Append(s, p), q) <=> Contains(s, q) \/ q = p
  BY <1>2 DEF Contains
<1> QED
  BY <1>1, <1>3

(* Every step of the program keeps every variable in its type.             *)
LEMMA TypeStep == TypeOK /\ [Next]_vars => TypeOK'
<1> SUFFICES ASSUME TypeOK, [Next]_vars PROVE TypeOK'
  OBVIOUS
<1> USE NumOptionsAssumption, MaxGenAssumption, FaultsAssumption
<1>1. ASSUME NEW r \in Requests
      PROVE  /\ Name(r) \in Names /\ Path(r) \in Paths /\ Opt(r) \in Choices
             /\ gen[Name(r)] \in 1 .. MaxGen /\ Row(r) \in Seq(Paths)
             /\ votedPath[Name(r)][acct[r]] \in Seq(Paths)
             /\ seen[r] \in Seq(Paths) /\ Written(r) \in Seq(Paths)
  BY DEF TypeOK, Form, Name, Path, Opt, Row, Written
<1>2. ASSUME NEW r \in Requests, NEW g \in 1 .. MaxGen, NEW s \in Seq(Paths),
             PushVotedPath(r, g, s)
      PROVE  votedPath' \in [Names -> [1 .. MaxGen -> Seq(Paths)]]
  <2>1. Append(s, Path(r)) \in Seq(Paths)
    BY <1>1, AppendContains
  <2> QED
    BY <1>1, <1>2, <2>1 DEF TypeOK, PushVotedPath
<1>3. ASSUME NEW r \in Requests, NEW how \in {"idle"} \cup Running \cup Ended,
             Return(r, how)
      PROVE  /\ pc' \in [Requests -> {"idle"} \cup Running \cup Ended]
             /\ lock' \in [Paths -> SUBSET Requests]
  BY <1>1, <1>3 DEF TypeOK, Return, Goto
<1>4. ASSUME NEW r \in Requests, Opt(r) \in Options, CountVote(r)
      PROVE  /\ option' \in [Paths -> [Options -> Nat]]
             /\ counted' \in [Requests -> Nat]
  <2>1. Base(r) \in [Options -> Nat]
    BY <1>1 DEF TypeOK, Base
  <2>2. [Base(r) EXCEPT ![Opt(r)] = @ + 1] \in [Options -> Nat]
    BY <1>4, <2>1
  <2>3. option \in [Paths -> [Options -> Nat]] /\ counted \in [Requests -> Nat]
    BY DEF TypeOK
  <2> QED
    BY <1>1, <1>4, <2>2, <2>3 DEF CountVote
<1>5. ASSUME NEW r \in Requests, CopyOptions(r)
      PROVE  copy' \in [Requests -> [Options -> Nat]]
  BY <1>1, <1>5 DEF TypeOK, CopyOptions
<1>6. ASSUME NEW kind, Fault(kind) PROVE faults' \in 0 .. MaxFaults
  BY <1>6 DEF TypeOK, Fault
<1>7. ASSUME NEW r \in Requests, HoldAccount(r) \/ HoldHusk(r) \/ HoldNil(r)
      PROVE  /\ acct' \in [Requests -> 1 .. MaxGen]
             /\ seen' \in [Requests -> Seq(Paths)]
             /\ nameless' \in [Requests -> BOOLEAN]
  <2>1. /\ acct \in [Requests -> 1 .. MaxGen] /\ seen \in [Requests -> Seq(Paths)]
        /\ nameless \in [Requests -> BOOLEAN] /\ <<>> \in Seq(Paths)
    BY DEF TypeOK
  <2>2. gen[Name(r)] \in 1 .. MaxGen /\ Row(r) \in Seq(Paths)
    BY <1>1
  <2>3. CASE HoldAccount(r)
    BY <2>1, <2>2, <2>3 DEF HoldAccount
  <2>4. CASE HoldHusk(r)
    BY <2>1, <2>4 DEF HoldHusk
  <2>5. CASE HoldNil(r)
    BY <2>1, <2>5 DEF HoldNil
  <2> QED
    BY <1>7, <2>3, <2>4, <2>5
<1>10. ASSUME NEW r \in Requests, Post(r) PROVE TypeOK'
  BY <1>10, <1>3 DEF TypeOK, Post, store, locals, Running, Ended, Goto
<1>11. ASSUME NEW r \in Requests, PostTurnedAway(r) PROVE TypeOK'
  BY <1>11, <1>3 DEF TypeOK, PostTurnedAway, store, locals, Running, Ended
<1>12. ASSUME NEW r \in Requests, FindUser(r) PROVE TypeOK'
  <2>1. Return(r, "gone") \/ Return(r, "refused") \/ Return(r, "info")
    BY <1>12 DEF FindUser
  <2>2. /\ pc' \in [Requests -> {"idle"} \cup Running \cup Ended]
        /\ lock' \in [Paths -> SUBSET Requests]
    BY <2>1, <1>3 DEF Running, Ended
  <2>3. /\ acct' \in [Requests -> 1 .. MaxGen]
        /\ seen' \in [Requests -> Seq(Paths)]
        /\ nameless' \in [Requests -> BOOLEAN]
    BY <1>12, <1>7 DEF FindUser
  <2> QED
    BY <1>12, <2>2, <2>3 DEF TypeOK, FindUser, store
<1>13. ASSUME NEW r \in Requests, FindInfo(r) PROVE TypeOK'
  BY <1>13, <1>1, <1>5 DEF TypeOK, FindInfo, store, locals, Running, Ended, Goto
<1>14. ASSUME NEW r \in Requests, LockInfo(r) PROVE TypeOK'
  <2>1. CASE Opt(r) >= NumOptions
    BY <1>14, <1>3, <2>1 DEF TypeOK, LockInfo, store, locals, Running, Ended
  <2>2. CASE ~(Opt(r) >= NumOptions)
    <3>1. \/ lock' = [lock EXCEPT ![Path(r)] = @ \cup {r}]
          \/ lock' = lock
      BY <1>14, <2>2 DEF LockInfo
    <3>2. lock \in [Paths -> SUBSET Requests] /\ lock[Path(r)] \cup {r} \in SUBSET Requests
      BY <1>1 DEF TypeOK
    <3>3. lock' \in [Paths -> SUBSET Requests]
      BY <3>1, <3>2
    <3> QED
      BY <1>14, <2>2, <3>3 DEF TypeOK, LockInfo, Goto, store, locals, Running, Ended
  <2> QED
    BY <2>1, <2>2
<1>15. ASSUME NEW r \in Requests, ReadVotedPath(r) PROVE TypeOK'
  BY <1>15, <1>1 DEF TypeOK, ReadVotedPath, store, locals, Running, Ended, Goto
<1>16. ASSUME NEW r \in Requests, WriteVotedPath(r) PROVE TypeOK'
  BY <1>16, <1>1, <1>2 DEF TypeOK, WriteVotedPath, store, locals, Running, Ended, Goto
<1>17. ASSUME NEW r \in Requests, Updata(r) PROVE TypeOK'
  BY <1>17, <1>1, <1>2 DEF TypeOK, Updata, store, locals, Running, Ended, Goto
<1>18. ASSUME NEW r \in Requests, FindUserAgain(r) PROVE TypeOK'
  <2>1. Return(r, "panic") \/ Return(r, "refused") \/ Return(r, "record")
    BY <1>18 DEF FindUserAgain
  <2>2. /\ pc' \in [Requests -> {"idle"} \cup Running \cup Ended]
        /\ lock' \in [Paths -> SUBSET Requests]
    BY <2>1, <1>3 DEF Running, Ended
  <2>3. /\ acct' \in [Requests -> 1 .. MaxGen]
        /\ seen' \in [Requests -> Seq(Paths)]
        /\ nameless' \in [Requests -> BOOLEAN]
    BY <1>18, <1>7 DEF FindUserAgain
  <2> QED
    BY <1>18, <2>2, <2>3 DEF TypeOK, FindUserAgain, store
<1>19. ASSUME NEW r \in Requests, IncOption(r) PROVE TypeOK'
  BY <1>19, <1>1, <1>3, <1>4 DEF TypeOK, IncOption, store, locals, Running, Ended, Goto
<1>20. ASSUME NEW r \in Requests, IndexPanic(r) PROVE TypeOK'
  BY <1>20, <1>3 DEF TypeOK, IndexPanic, store, locals, Running, Ended
<1>21. ASSUME NEW r \in Requests, FindInfoAgain(r) PROVE TypeOK'
  BY <1>21, <1>1, <1>5 DEF TypeOK, FindInfoAgain, store, locals, Running, Ended, Goto
<1>22. ASSUME NEW r \in Requests, UpdataConflict(r) PROVE TypeOK'
  BY <1>22, <1>6 DEF TypeOK, UpdataConflict, store, locals, Running, Ended, Goto
<1>23. ASSUME NEW r \in Requests, UpdataReplyLost(r) PROVE TypeOK'
  BY <1>23, <1>1, <1>2, <1>3, <1>6 DEF TypeOK, UpdataReplyLost, store, locals, Running, Ended
<1>24. ASSUME NEW r \in Requests, IncOptionReplyLost(r) PROVE TypeOK'
  BY <1>24, <1>1, <1>3, <1>4, <1>6 DEF TypeOK, IncOptionReplyLost, store, locals, Running, Ended
<1>25. ASSUME NEW r \in Requests, CallFailed(r) PROVE TypeOK'
  BY <1>25, <1>3, <1>6 DEF TypeOK, CallFailed, store, locals, Running, Ended
<1>26. ASSUME NEW n \in Names, DeleteAccount(n) PROVE TypeOK'
  BY <1>26 DEF TypeOK, DeleteAccount, locals
<1>27. ASSUME NEW n \in Names, NewUser(n) PROVE TypeOK'
  BY <1>27 DEF TypeOK, NewUser, locals
<1>28. ASSUME NEW p \in Paths, CreateVote(p) PROVE TypeOK'
  BY <1>28 DEF TypeOK, CreateVote, locals
<1>29. ASSUME NEW p \in Paths, EndPasses(p) PROVE TypeOK'
  BY <1>29 DEF TypeOK, EndPasses, locals
<1>32. ASSUME NEW n \in Names, IncFieldRevives(n) PROVE TypeOK'
  BY <1>32 DEF TypeOK, IncFieldRevives, locals
<1>33. ASSUME NEW p \in Paths, StoreReplyLost(p) PROVE TypeOK'
  BY <1>33, <1>6 DEF TypeOK, StoreReplyLost, locals
<1>34. ASSUME NEW p \in Paths, StoreAgain(p) PROVE TypeOK'
  <2>1. faults' \in 0 .. MaxFaults /\ storing' \in [Paths -> BOOLEAN]
    BY <1>34, <1>6 DEF TypeOK, StoreAgain
  <2>2. /\ option' \in [Paths -> [Options -> Nat]]
        /\ wiped' \in [Paths -> [Options -> Nat]]
    <3>1. /\ option \in [Paths -> [Options -> Nat]]
          /\ wiped \in [Paths -> [Options -> Nat]]
      BY DEF TypeOK
    <3>2. /\ [o \in Options |-> wiped[p][o] + option[p][o]] \in [Options -> Nat]
          /\ [o \in Options |-> 0] \in [Options -> Nat]
      BY <3>1
    <3> QED
      BY <1>34, <3>1, <3>2 DEF StoreAgain
  <2> QED
    BY <1>34, <2>1, <2>2 DEF TypeOK, StoreAgain, locals
<1>30. CASE Crash
  BY <1>30 DEF TypeOK, Crash, locals, Running, Ended
<1>31. CASE UNCHANGED vars
  BY <1>31 DEF TypeOK, vars
<1> QED
  BY <1>10, <1>11, <1>12, <1>13, <1>14, <1>15, <1>16, <1>17, <1>18, <1>19, <1>20, <1>21, <1>22, <1>23, <1>24, <1>25, <1>26, <1>27, <1>28, <1>29, <1>30, <1>31, <1>32, <1>33, <1>34
     DEF Next, Handle, DatabaseFault

(* The program starts with every variable in its type.                     *)
LEMMA TypeInit == Init => TypeOK
<1> SUFFICES ASSUME Init PROVE TypeOK
  OBVIOUS
<1>1. 1 \in 1 .. MaxGen /\ MaxFaults \in 0 .. MaxFaults
  BY MaxGenAssumption, FaultsAssumption
<1> QED
  BY <1>1 DEF Init, TypeOK, Running, Ended

(* Type correctness: every variable keeps its type in every behaviour.     *)
THEOREM TypeCorrect == Spec => []TypeOK
  BY TypeInit, TypeStep, PTL DEF Spec
-----------------------------------------------------------------------------
(* One request moves at a time: the conjuncts of VoteInv for one request,  *)
(* and what a step of request r leaves alone.                              *)
PcFitsModeAt(r) ==
    /\ pc[r] = "write" => mode = "os"
    /\ pc[r] \in {"refind", "recount"} => mode # "os"

CountsLastAt(r) ==
    /\ counted[r] > 0 => pc[r] \in {"count", "recount"} \cup Ended
    /\ (counted[r] > 0 /\ pc[r] \notin Ended) \/ counted[r] > 1 =>
        mode = "redis" /\ faults < MaxFaults /\ "IncOptionReplyLost" \in Faults
    /\ counted[r] + faults <= MaxFaults + (IF pc[r] \in Ended THEN 1 ELSE 0)

SeenLacksAt(r) ==
    mode \in CasModes /\ pc[r] \in {"info", "lock", "record"} =>
        ~Contains(seen[r], Path(r))

LandedHoldsAt(r) ==
    mode # "os" /\ Landed(r) => Contains(votedPath[Name(r)][acct[r]], Path(r))

OneLandingAt(r) ==
    mode \in CasModes /\ Landed(r) =>
        \A s \in Requests : Landed(s) /\ SameVote(r, s) => r = s

VoteInvAt(r) ==
    PcFitsModeAt(r) /\ CountsLastAt(r) /\ SeenLacksAt(r) /\ LandedHoldsAt(r)
        /\ OneLandingAt(r)

OnlyRequest(r) ==
    /\ mode' = mode /\ form' = form /\ faults' <= faults
    /\ \A q \in Requests \ {r} :
        /\ pc'[q] = pc[q] /\ counted'[q] = counted[q]
        /\ acct'[q] = acct[q] /\ seen'[q] = seen[q]

(* Nothing leaves a VotedPath that a database keeps.                       *)
Grows ==
    mode # "os" =>
        \A n \in Names, g \in 1 .. MaxGen, p \in Paths :
            Contains(votedPath[n][g], p) => Contains(votedPath'[n][g], p)

(* VoteInv is what VoteInvAt says of every request ...                     *)
LEMMA VoteInvByRequest == VoteInv <=> \A r \in Requests : VoteInvAt(r)
  BY DEF VoteInv, VoteInvAt, PcFitsMode, PcFitsModeAt, CountsLast, CountsLastAt,
         SeenLacks, SeenLacksAt, LandedHolds, LandedHoldsAt, OneLanding,
         OneLandingAt

(* ... and so it is after a step.                                          *)
LEMMA VoteInvByRequestNext == VoteInv' <=> \A r \in Requests : VoteInvAt(r)'
  BY DEF VoteInv, VoteInvAt, PcFitsMode, PcFitsModeAt, CountsLast, CountsLastAt,
         SeenLacks, SeenLacksAt, LandedHolds, LandedHoldsAt, OneLanding,
         OneLandingAt

(* The types of what a request works on: its account, its poll, its row.   *)
LEMMA FormTypes ==
    ASSUME TypeOK, NEW r \in Requests
    PROVE  /\ Name(r) \in Names /\ Path(r) \in Paths /\ Opt(r) \in Choices
           /\ gen[Name(r)] \in 1 .. MaxGen /\ Row(r) \in Seq(Paths)
           /\ acct[r] \in 1 .. MaxGen
<1>1. form[r] \in Form /\ acct[r] \in 1 .. MaxGen
  BY DEF TypeOK
<1>2. Name(r) \in Names /\ Path(r) \in Paths /\ Opt(r) \in Choices
  BY <1>1 DEF Form, Name, Path, Opt
<1>3. gen[Name(r)] \in 1 .. MaxGen
  BY <1>2 DEF TypeOK
<1>4. Row(r) \in Seq(Paths)
  <2>1. votedPath[Name(r)] \in [1 .. MaxGen -> Seq(Paths)]
    BY <1>2 DEF TypeOK
  <2> QED
    BY <1>3, <2>1 DEF Row
<1> QED
  BY <1>1, <1>2, <1>3, <1>4

(* Where Updata hits, what it writes is the row with the poll added.       *)
LEMMA WrittenIsRow ==
    ASSUME NEW r \in Requests, UpdataHits(r) PROVE Written(r) = Row(r)
  BY DEF UpdataHits, Written

(* Where IncOption hits, the store's tally is the one it increments.       *)
LEMMA CountVoteIncrements ==
    ASSUME NEW r \in Requests, IncOptionHits(r), CountVote(r)
    PROVE  option' = [option EXCEPT ![Path(r)][Opt(r)] = @ + 1]
  BY DEF IncOptionHits, CountVote, Base

(* A step of request r that keeps r's part of VoteInv keeps all of it.     *)
LEMMA OthersKeep ==
    ASSUME TypeOK, TypeOK', VoteInv, NEW r \in Requests, OnlyRequest(r), Grows,
           VoteInvAt(r)'
    PROVE  VoteInv'
<1> USE FaultsAssumption
<1>1. SUFFICES ASSUME NEW q \in Requests, q # r PROVE VoteInvAt(q)'
  BY VoteInvByRequestNext
<1>2. VoteInvAt(q) /\ VoteInvAt(r)
  BY VoteInvByRequest
<1>3. /\ pc'[q] = pc[q] /\ counted'[q] = counted[q]
      /\ acct'[q] = acct[q] /\ seen'[q] = seen[q]
      /\ mode' = mode /\ form' = form /\ faults' <= faults
  BY <1>1 DEF OnlyRequest
<1>4. faults \in Int /\ faults' \in Int /\ MaxFaults \in Int /\ counted[q] \in Int
  BY DEF TypeOK
<1>5. PcFitsModeAt(q)'
  BY <1>2, <1>3 DEF VoteInvAt, PcFitsModeAt
<1>6. CountsLastAt(q)'
  BY <1>2, <1>3, <1>4 DEF VoteInvAt, CountsLastAt
<1>7. SeenLacksAt(q)'
  BY <1>2, <1>3 DEF VoteInvAt, SeenLacksAt, Path
<1>8. LandedHoldsAt(q)'
  BY <1>2, <1>3, FormTypes DEF VoteInvAt, LandedHoldsAt, Landed, Grows, Name, Path
<1>9. OneLandingAt(q)'
  <2>1. SUFFICES ASSUME mode \in CasModes, Landed(q)', NEW s \in Requests,
                        Landed(s)', SameVote(q, s)'
                 PROVE  q = s
    BY <1>3 DEF OneLandingAt
  <2>2. CASE s = r
    BY <1>1, <1>3, <2>1, <2>2 DEF VoteInvAt, OneLandingAt, SameVote, Name, Path
  <2>3. CASE s # r
    <3>1. /\ pc'[s] = pc[s] /\ counted'[s] = counted[s] /\ acct'[s] = acct[s]
      BY <2>3 DEF OnlyRequest
    <3> QED
      BY <1>2, <1>3, <2>1, <3>1 DEF VoteInvAt, OneLandingAt, SameVote, Landed,
         Name, Path
  <2> QED
    BY <2>2, <2>3
<1> QED
  BY <1>5, <1>6, <1>7, <1>8, <1>9 DEF VoteInvAt

(* A step that neither counts nor records, and ends where nothing has      *)
(* landed or goes on where something has.                                  *)
LEMMA QuietStep ==
    ASSUME TypeOK, TypeOK', VoteInv, NEW r \in Requests, OnlyRequest(r),
           UNCHANGED <<votedPath, counted>>,
           PcFitsModeAt(r)', SeenLacksAt(r)',
           \/ pc'[r] \in {"count", "recount"} /\ pc[r] \in {"count", "recount"}
           \/ pc'[r] \in Ended
           \/ pc[r] \notin {"count", "recount"} \cup Ended
              /\ pc'[r] \notin {"count", "recount"},
           acct'[r] = acct[r] \/ pc[r] \notin {"count", "recount"} \cup Ended
    PROVE  VoteInv'
<1> USE FaultsAssumption
<1>1. Grows
  BY DEF Grows
<1>2. VoteInvAt(r)
  BY VoteInvByRequest
<1>3. /\ faults \in Int /\ faults' \in Int /\ MaxFaults \in Int
      /\ counted[r] \in Nat /\ faults' <= faults /\ mode' = mode /\ form' = form
  BY DEF TypeOK, OnlyRequest
<1>4. CountsLastAt(r)'
  BY <1>2, <1>3 DEF VoteInvAt, CountsLastAt, Ended
<1>5. Landed(r)' => Landed(r) /\ acct'[r] = acct[r]
  BY <1>2, <1>3 DEF VoteInvAt, CountsLastAt, Landed, Ended
<1>6. LandedHoldsAt(r)'
  BY <1>2, <1>3, <1>5 DEF VoteInvAt, LandedHoldsAt, Name, Path
<1>7. OneLandingAt(r)'
  <2>1. SUFFICES ASSUME mode \in CasModes, Landed(r)', NEW s \in Requests, s # r,
                        Landed(s)', SameVote(r, s)'
                 PROVE  FALSE
    BY <1>3 DEF OneLandingAt
  <2>2. Landed(s) /\ SameVote(r, s)
    BY <1>3, <1>5, <2>1 DEF OnlyRequest, Landed, SameVote, Name, Path
  <2> QED
    BY <1>2, <1>5, <2>1, <2>2 DEF VoteInvAt, OneLandingAt
<1> QED
  BY <1>1, <1>4, <1>6, <1>7, OthersKeep DEF VoteInvAt

(* Updata records the poll (redis.go:329, mysql.go:162, mongodb.go:152):   *)
(* VotedPath only grows, and where Updata compares no other request of the *)
(* account can have landed in this poll.                                   *)
LEMMA LandingStep ==
    ASSUME TypeOK, TypeOK', VoteInv, NEW r \in Requests, OnlyRequest(r),
           mode # "os", pc[r] = "record", UpdataHits(r),
           PushVotedPath(r, gen[Name(r)], Row(r)),
           acct'[r] = gen[Name(r)], counted' = counted
    PROVE  /\ Grows
           /\ LandedHoldsAt(r)' /\ OneLandingAt(r)' /\ CountsLastAt(r)'
<1> USE FaultsAssumption
<1>1. /\ VoteInvAt(r) /\ Row(r) \in Seq(Paths)
      /\ Path(r) \in Paths /\ Name(r) \in Names
      /\ gen[Name(r)] \in 1 .. MaxGen
      /\ mode' = mode /\ form' = form /\ faults' <= faults
      /\ faults \in Int /\ faults' \in Int /\ MaxFaults \in Int
      /\ counted[r] \in Nat
  BY VoteInvByRequest, FormTypes DEF TypeOK, OnlyRequest
<1>2. /\ Contains(Append(Row(r), Path(r)), Path(r))
      /\ \A q \in Paths : Contains(Row(r), q) => Contains(Append(Row(r), Path(r)), q)
  BY <1>1, AppendContains
<1>3. \A n \in Names, g \in 1 .. MaxGen :
        votedPath'[n][g] = IF n = Name(r) /\ g = gen[n]
                           THEN Append(Row(r), Path(r)) ELSE votedPath[n][g]
  BY <1>1 DEF TypeOK, PushVotedPath
<1>4. Grows
  BY <1>1, <1>2, <1>3 DEF Grows, Row
<1>5. LandedHoldsAt(r)'
  BY <1>1, <1>2, <1>3 DEF LandedHoldsAt, Name, Path
<1>6. CountsLastAt(r)'
  BY <1>1 DEF VoteInvAt, CountsLastAt, Ended
<1>7. OneLandingAt(r)'
  <2>1. SUFFICES ASSUME mode \in CasModes, NEW s \in Requests, s # r,
                        Landed(s)', SameVote(r, s)'
                 PROVE  FALSE
    BY <1>1 DEF OneLandingAt
  <2>2. Landed(s) /\ Name(s) = Name(r) /\ Path(s) = Path(r) /\ acct[s] = gen[Name(r)]
    BY <1>1, <2>1 DEF OnlyRequest, Landed, SameVote, Name, Path
  <2>3. LandedHoldsAt(s)
    BY VoteInvByRequest DEF VoteInvAt
  <2>4. Contains(Row(r), Path(r))
    BY <2>2, <2>3 DEF LandedHoldsAt, Row
  <2>5. ~Contains(Row(r), Path(r))
    BY <1>1, <2>1 DEF VoteInvAt, SeenLacksAt, UpdataHits
  <2> QED
    BY <2>4, <2>5
<1> QED
  BY <1>4, <1>5, <1>6, <1>7

(* IncOption counts a vote that has landed (redis.go:385, mysql.go:227,    *)
(* mongodb.go:234, vote.go:332): VotedPath holds the poll already.         *)
LEMMA CountingStep ==
    ASSUME TypeOK, TypeOK', VoteInv, NEW r \in Requests, OnlyRequest(r),
           pc[r] = "count", pc'[r] \in {"count", "ok", "panic"},
           pc'[r] = "count" => mode = "redis",
           mode = "redis" /\ pc'[r] # "ok" => faults' < MaxFaults,
           pc'[r] = "count" => faults' = faults - 1,
           pc'[r] = "count" => "IncOptionReplyLost" \in Faults,
           counted'[r] = counted[r] + 1, UNCHANGED <<votedPath, acct>>
    PROVE  VoteInv'
<1> USE FaultsAssumption
<1>1. Grows
  BY DEF Grows
<1>2. /\ VoteInvAt(r)
      /\ mode' = mode /\ form' = form /\ faults' <= faults
      /\ faults \in Int /\ faults' \in Int /\ MaxFaults \in Int
      /\ counted[r] \in Nat
  BY VoteInvByRequest DEF TypeOK, OnlyRequest
<1>3. PcFitsModeAt(r)' /\ SeenLacksAt(r)'
  BY <1>2 DEF PcFitsModeAt, SeenLacksAt
<1>4. CountsLastAt(r)'
  BY <1>2 DEF VoteInvAt, CountsLastAt, Ended
<1>5. LandedHoldsAt(r)'
  BY <1>2 DEF VoteInvAt, LandedHoldsAt, Landed, Name, Path
<1>6. OneLandingAt(r)'
  BY <1>2 DEF VoteInvAt, OneLandingAt, OnlyRequest, Landed, SameVote, Name, Path
<1> QED
  BY <1>1, <1>3, <1>4, <1>5, <1>6, OthersKeep DEF VoteInvAt

(* VoteInv is kept by every step, one action after the other.              *)
LEMMA VoteStep == TypeOK /\ VoteInv /\ [Next]_vars => VoteInv'
<1> SUFFICES ASSUME TypeOK, VoteInv, [Next]_vars PROVE VoteInv'
  OBVIOUS
<1> USE FaultsAssumption
<1>0. TypeOK'
  BY TypeStep
<1>1. ASSUME NEW r \in Requests
      PROVE  /\ VoteInvAt(r) /\ Row(r) \in Seq(Paths)
             /\ Path(r) \in Paths /\ Name(r) \in Names
             /\ gen[Name(r)] \in 1 .. MaxGen
             /\ faults \in Int /\ MaxFaults \in Int /\ counted[r] \in Nat
  BY VoteInvByRequest, FormTypes DEF TypeOK
<1>2. ASSUME NEW r \in Requests, NEW step, Goto(r, step) \/ Return(r, step)
      PROVE  pc'[r] = step /\ \A q \in Requests \ {r} : pc'[q] = pc[q]
  BY <1>2 DEF TypeOK, Return, Goto
<1>3. ASSUME NEW r \in Requests, NEW kind, Fault(kind)
      PROVE  faults' = faults - 1 /\ faults' <= faults /\ faults' < MaxFaults
  BY <1>3 DEF TypeOK, Fault
<1>domains. /\ DOMAIN pc = Requests /\ DOMAIN acct = Requests
           /\ DOMAIN seen = Requests /\ DOMAIN counted = Requests
           /\ faults \in Int
  BY DEF TypeOK
<1>4. ASSUME NEW r \in Requests, Post(r) PROVE VoteInv'
  <2>1. Goto(r, "user")
    BY <1>4 DEF Post
  <2>2. OnlyRequest(r) /\ UNCHANGED <<votedPath, counted>>
    BY <1>4, <1>domains, <1>2, <2>1 DEF OnlyRequest, Post, store, locals
  <2>3. PcFitsModeAt(r)' /\ SeenLacksAt(r)'
    BY <1>4, <1>1, <1>2, <2>1, <2>2 DEF Post, OnlyRequest, VoteInvAt, PcFitsModeAt,
       SeenLacksAt, TypeOK, Path, store, locals
  <2> QED
    BY <1>4, <1>0, <1>2, <2>1, <2>2, <2>3, QuietStep DEF Post, Ended, locals
<1>5. ASSUME NEW r \in Requests, PostTurnedAway(r) PROVE VoteInv'
  <2>1. Return(r, "refused")
    BY <1>5 DEF PostTurnedAway
  <2>2. OnlyRequest(r) /\ UNCHANGED <<votedPath, counted>>
    BY <1>5, <1>domains, <1>2, <2>1 DEF OnlyRequest, PostTurnedAway, store, locals
  <2>3. PcFitsModeAt(r)' /\ SeenLacksAt(r)'
    BY <1>5, <1>1, <1>2, <2>1, <2>2 DEF PostTurnedAway, OnlyRequest, VoteInvAt, PcFitsModeAt,
       SeenLacksAt, TypeOK, Path, store, locals
  <2> QED
    BY <1>5, <1>0, <1>2, <2>1, <2>2, <2>3, QuietStep DEF PostTurnedAway, Ended, locals
<1>6. ASSUME NEW r \in Requests, FindUser(r) PROVE VoteInv'
  <2>1. Return(r, "gone") \/ Return(r, "refused") \/ Return(r, "info")
    BY <1>6 DEF FindUser
  <2>2. OnlyRequest(r) /\ UNCHANGED <<votedPath, counted>>
    BY <1>6, <1>domains, <1>2, <2>1 DEF OnlyRequest, FindUser, HoldAccount,
       HoldHusk, HoldNil, store, locals
  <2>3. PcFitsModeAt(r)' /\ SeenLacksAt(r)'
    <3>1. pc'[r] = "info" => ~Contains(seen'[r], Path(r))
      BY <1>6, <1>2, <1>domains DEF FindUser, HoldAccount, HoldHusk, HoldNil, Contains
    <3> QED
      BY <1>6, <1>2, <2>1, <2>2, <3>1 DEF OnlyRequest, PcFitsModeAt, SeenLacksAt, Path
  <2> QED
    BY <1>6, <1>0, <1>2, <2>1, <2>2, <2>3, QuietStep DEF FindUser, Ended, locals
<1>7. ASSUME NEW r \in Requests, FindInfo(r) PROVE VoteInv'
  <2>1. Goto(r, "lock") \/ Goto(r, "refused")
    BY <1>7 DEF FindInfo
  <2>2. OnlyRequest(r) /\ UNCHANGED <<votedPath, counted>>
    BY <1>7, <1>domains, <1>2, <2>1 DEF OnlyRequest, FindInfo, store, locals
  <2>3. PcFitsModeAt(r)' /\ SeenLacksAt(r)'
    <3>1. pc[r] = "info" /\ UNCHANGED <<mode, form, seen>>
      BY <1>7 DEF FindInfo
    <3>2. pc'[r] \in {"lock", "refused"}
      BY <1>2, <2>1
    <3> QED
      BY <1>1, <3>1, <3>2 DEF VoteInvAt, PcFitsModeAt, SeenLacksAt, Path
  <2> QED
    BY <1>7, <1>0, <1>2, <2>1, <2>2, <2>3, QuietStep DEF FindInfo, Ended, locals
<1>8. ASSUME NEW r \in Requests, LockInfo(r) PROVE VoteInv'
  <2>1. Return(r, "refused") \/ Goto(r, "record")
    BY <1>8 DEF LockInfo
  <2>2. OnlyRequest(r) /\ UNCHANGED <<votedPath, counted>>
    BY <1>8, <1>domains, <1>2, <2>1 DEF OnlyRequest, LockInfo, store, locals
  <2>3. PcFitsModeAt(r)' /\ SeenLacksAt(r)'
    BY <1>8, <1>1, <1>2, <2>1, <2>2 DEF LockInfo, OnlyRequest, VoteInvAt, PcFitsModeAt,
       SeenLacksAt, TypeOK, Path, store, locals
  <2> QED
    BY <1>8, <1>0, <1>2, <2>1, <2>2, <2>3, QuietStep DEF LockInfo, Ended, locals
<1>9. ASSUME NEW r \in Requests, ReadVotedPath(r) PROVE VoteInv'
  <2>1. Goto(r, "write")
    BY <1>9 DEF ReadVotedPath
  <2>2. OnlyRequest(r) /\ UNCHANGED <<votedPath, counted>>
    BY <1>9, <1>domains, <1>2, <2>1 DEF OnlyRequest, ReadVotedPath, store, locals
  <2>3. PcFitsModeAt(r)' /\ SeenLacksAt(r)'
    BY <1>9, <1>1, <1>2, <2>1, <2>2 DEF ReadVotedPath, OnlyRequest, VoteInvAt, PcFitsModeAt,
       SeenLacksAt, TypeOK, Path, store, locals
  <2> QED
    BY <1>9, <1>0, <1>2, <2>1, <2>2, <2>3, QuietStep DEF ReadVotedPath, Ended, locals
<1>10. ASSUME NEW r \in Requests, FindUserAgain(r) PROVE VoteInv'
  <2>1. Return(r, "panic") \/ Return(r, "refused") \/ Return(r, "record")
    BY <1>10 DEF FindUserAgain
  <2>2. OnlyRequest(r) /\ UNCHANGED <<votedPath, counted>>
    BY <1>10, <1>domains, <1>2, <2>1 DEF OnlyRequest, FindUserAgain, HoldAccount,
       HoldHusk, HoldNil, store, locals
  <2>3. PcFitsModeAt(r)' /\ SeenLacksAt(r)'
    <3>1. pc'[r] = "record" => ~Contains(seen'[r], Path(r))
      BY <1>10, <1>2, <1>domains DEF FindUserAgain, HoldAccount, HoldHusk, HoldNil, Contains
    <3> QED
      BY <1>10, <1>2, <2>1, <2>2, <3>1 DEF OnlyRequest, PcFitsModeAt, SeenLacksAt, Path
  <2> QED
    BY <1>10, <1>0, <1>2, <2>1, <2>2, <2>3, QuietStep DEF FindUserAgain, Ended, locals
<1>11. ASSUME NEW r \in Requests, IndexPanic(r) PROVE VoteInv'
  <2>1. Return(r, "panic")
    BY <1>11 DEF IndexPanic
  <2>2. OnlyRequest(r) /\ UNCHANGED <<votedPath, counted>>
    BY <1>11, <1>domains, <1>2, <2>1 DEF OnlyRequest, IndexPanic, store, locals
  <2>3. PcFitsModeAt(r)' /\ SeenLacksAt(r)'
    BY <1>11, <1>1, <1>2, <2>1, <2>2 DEF IndexPanic, OnlyRequest, VoteInvAt, PcFitsModeAt,
       SeenLacksAt, TypeOK, Path, store, locals
  <2> QED
    BY <1>11, <1>0, <1>2, <2>1, <2>2, <2>3, QuietStep DEF IndexPanic, Ended, locals
<1>12. ASSUME NEW r \in Requests, FindInfoAgain(r) PROVE VoteInv'
  <2>1. Goto(r, "count")
    BY <1>12 DEF FindInfoAgain
  <2>2. OnlyRequest(r) /\ UNCHANGED <<votedPath, counted>>
    BY <1>12, <1>domains, <1>2, <2>1 DEF OnlyRequest, FindInfoAgain, store, locals
  <2>3. PcFitsModeAt(r)' /\ SeenLacksAt(r)'
    BY <1>12, <1>1, <1>2, <2>1, <2>2 DEF FindInfoAgain, OnlyRequest, VoteInvAt, PcFitsModeAt,
       SeenLacksAt, TypeOK, Path, store, locals
  <2> QED
    BY <1>12, <1>0, <1>2, <2>1, <2>2, <2>3, QuietStep DEF FindInfoAgain, Ended, locals
<1>13. ASSUME NEW r \in Requests, UpdataConflict(r) PROVE VoteInv'
  <2>1. Goto(r, "refind")
    BY <1>13 DEF UpdataConflict
  <2>2. OnlyRequest(r) /\ UNCHANGED <<votedPath, counted>>
    BY <1>13, <1>1, <1>2, <1>3, <2>1 DEF OnlyRequest, UpdataConflict, TypeOK, store, locals
  <2>3. PcFitsModeAt(r)' /\ SeenLacksAt(r)'
    BY <1>13, <1>1, <1>2, <2>1, <2>2 DEF UpdataConflict, OnlyRequest, VoteInvAt, PcFitsModeAt,
       SeenLacksAt, TypeOK, Path, store, locals
  <2> QED
    BY <1>13, <1>0, <1>2, <2>1, <2>2, <2>3, QuietStep DEF UpdataConflict, Ended, locals
<1>14. ASSUME NEW r \in Requests, CallFailed(r) PROVE VoteInv'
  <2>1. Return(r, "panic")
    BY <1>14 DEF CallFailed
  <2>2. OnlyRequest(r) /\ UNCHANGED <<votedPath, counted>>
    BY <1>14, <1>1, <1>2, <1>3, <2>1 DEF OnlyRequest, CallFailed, TypeOK, store, locals
  <2>3. PcFitsModeAt(r)' /\ SeenLacksAt(r)'
    BY <1>14, <1>1, <1>2, <2>1, <2>2 DEF CallFailed, OnlyRequest, VoteInvAt, PcFitsModeAt,
       SeenLacksAt, TypeOK, Path, store, locals
  <2> QED
    BY <1>14, <1>0, <1>2, <2>1, <2>2, <2>3, QuietStep DEF CallFailed, Ended, locals
<1>15. ASSUME NEW r \in Requests, WriteVotedPath(r) PROVE VoteInv'
  <2>1. Goto(r, "count") /\ mode = "os" /\ counted[r] = 0
    BY <1>15, <1>1 DEF WriteVotedPath, VoteInvAt, PcFitsModeAt, CountsLastAt, Ended
  <2>2. OnlyRequest(r) /\ UNCHANGED counted
    BY <1>15, <1>1, <1>2, <2>1 DEF OnlyRequest, WriteVotedPath, locals
  <2>3. VoteInvAt(r)'
    <3>1. mode' = "os" /\ pc'[r] = "count" /\ counted'[r] = 0
      BY <1>2, <2>1, <2>2 DEF OnlyRequest
    <3>2. MaxFaults \in Int /\ faults' \in Int /\ faults' <= MaxFaults
      BY <1>0 DEF TypeOK
    <3>3. CountsLastAt(r)'
      <4>1. ~(counted'[r] > 0) /\ ~(counted'[r] > 1)
        BY ONLY <3>1
      <4>2. counted'[r] + faults' <= MaxFaults + 0
        <5>1. \A f, m \in Int : f <= m => 0 + f <= m + 0
          BY SMT
        <5>2. 0 + faults' <= MaxFaults + 0
          BY ONLY <3>2, <5>1
        <5> QED
          BY ONLY <3>1, <5>2
      <4>3. pc'[r] \notin Ended
        BY <3>1 DEF Ended
      <4> QED
        BY <4>1, <4>2, <4>3 DEF CountsLastAt
    <3> QED
      BY <3>1, <3>3 DEF VoteInvAt, PcFitsModeAt, SeenLacksAt, LandedHoldsAt,
         OneLandingAt, CasModes
  <2>4. Grows
    BY <2>1 DEF Grows
  <2> QED
    BY <1>0, <2>2, <2>3, <2>4, OthersKeep
<1>16. ASSUME NEW r \in Requests, Updata(r) PROVE VoteInv'
  <2>1. CASE UpdataHits(r)
    <3>1. Goto(r, "count") /\ mode # "os" /\ PushVotedPath(r, gen[Name(r)], Row(r))
      BY <1>16, <2>1, WrittenIsRow DEF Updata
    <3>2. OnlyRequest(r) /\ counted' = counted /\ acct'[r] = gen[Name(r)]
      BY <1>16, <1>1, <1>2, <2>1, <3>1 DEF OnlyRequest, Updata, TypeOK
    <3>3. PcFitsModeAt(r)' /\ SeenLacksAt(r)'
      BY <1>2, <3>1, <3>2 DEF OnlyRequest, PcFitsModeAt, SeenLacksAt
    <3>4. Grows /\ LandedHoldsAt(r)' /\ OneLandingAt(r)' /\ CountsLastAt(r)'
      BY <1>0, <1>16, <2>1, <3>1, <3>2, LandingStep DEF Updata
    <3> QED
      BY <1>0, <3>2, <3>3, <3>4, OthersKeep DEF VoteInvAt
  <2>2. CASE ~UpdataHits(r)
    <3>1. Goto(r, "refind") /\ mode # "os"
      BY <1>16, <2>2 DEF Updata
    <3>2. OnlyRequest(r) /\ UNCHANGED <<votedPath, counted, acct>>
      BY <1>16, <1>1, <1>2, <2>2, <3>1 DEF OnlyRequest, Updata
    <3>3. PcFitsModeAt(r)' /\ SeenLacksAt(r)'
      BY <1>2, <3>1, <3>2 DEF OnlyRequest, PcFitsModeAt, SeenLacksAt
    <3> QED
      BY <1>16, <1>0, <1>2, <3>1, <3>2, <3>3, QuietStep DEF Updata, Ended
  <2> QED
    BY <2>1, <2>2
<1>17. ASSUME NEW r \in Requests, UpdataReplyLost(r) PROVE VoteInv'
  <2>1. Return(r, "refind") \/ Return(r, "panic")
    BY <1>17 DEF UpdataReplyLost
  <2>2. OnlyRequest(r) /\ counted' = counted /\ acct'[r] = gen[Name(r)]
    BY <1>17, <1>1, <1>2, <1>3, <2>1 DEF OnlyRequest, UpdataReplyLost, TypeOK
  <2>3. PcFitsModeAt(r)' /\ SeenLacksAt(r)'
    BY <1>17, <1>2, <2>1, <2>2 DEF UpdataReplyLost, OnlyRequest, PcFitsModeAt,
       SeenLacksAt
  <2>4. Grows /\ LandedHoldsAt(r)' /\ OneLandingAt(r)' /\ CountsLastAt(r)'
    BY <1>0, <1>17, <2>2, WrittenIsRow, LandingStep DEF UpdataReplyLost
  <2> QED
    BY <1>0, <2>2, <2>3, <2>4, OthersKeep DEF VoteInvAt
<1>18. ASSUME NEW r \in Requests, IncOption(r) PROVE VoteInv'
  <2>1. CASE IncOptionHits(r)
    <3>1. Return(r, "ok") /\ counted'[r] = counted[r] + 1
          /\ \A q \in Requests \ {r} : counted'[q] = counted[q]
      BY <1>18, <2>1 DEF IncOption, CountVote, TypeOK
    <3>2. OnlyRequest(r) /\ UNCHANGED <<votedPath, acct>>
      BY <1>18, <1>1, <1>2, <3>1 DEF OnlyRequest, IncOption, locals
    <3> QED
      BY <1>18, <1>0, <1>2, <3>1, <3>2, CountingStep DEF IncOption
  <2>2. CASE ~IncOptionHits(r)
    <3>1. Goto(r, "recount") /\ mode # "os"
      BY <1>18, <2>2 DEF IncOption, IncOptionHits
    <3>2. OnlyRequest(r) /\ UNCHANGED <<votedPath, counted, acct>>
      BY <1>18, <1>1, <1>2, <2>2, <3>1 DEF OnlyRequest, IncOption, locals
    <3>3. PcFitsModeAt(r)' /\ SeenLacksAt(r)'
      BY <1>2, <3>1, <3>2 DEF OnlyRequest, PcFitsModeAt, SeenLacksAt
    <3> QED
      BY <1>18, <1>0, <1>2, <3>1, <3>2, <3>3, QuietStep DEF IncOption
  <2> QED
    BY <2>1, <2>2
<1>19. ASSUME NEW r \in Requests, IncOptionReplyLost(r) PROVE VoteInv'
  <2>1. /\ Return(r, IF mode = "redis" THEN "count" ELSE "panic")
        /\ counted'[r] = counted[r] + 1
        /\ \A q \in Requests \ {r} : counted'[q] = counted[q]
    BY <1>19 DEF IncOptionReplyLost, CountVote, TypeOK
  <2>2. pc'[r] = (IF mode = "redis" THEN "count" ELSE "panic")
        /\ \A q \in Requests \ {r} : pc'[q] = pc[q]
    BY <1>2, <2>1
  <2>4. "IncOptionReplyLost" \in Faults
    BY <1>19 DEF IncOptionReplyLost, Fault
  <2>3. OnlyRequest(r) /\ UNCHANGED <<votedPath, acct>>
    BY <1>19, <1>3, <2>1, <2>2 DEF OnlyRequest, IncOptionReplyLost, locals
  <2> QED
    BY <1>19, <1>0, <1>3, <2>1, <2>2, <2>3, <2>4, CountingStep DEF IncOptionReplyLost
<1>20. CASE \E n \in Names : DeleteAccount(n) \/ IncFieldRevives(n) \/ NewUser(n)
  BY <1>20 DEF DeleteAccount, IncFieldRevives, NewUser, locals, VoteInv, PcFitsMode, CountsLast,
     SeenLacks, LandedHolds, OneLanding, Landed, SameVote, Name, Path
<1>21. CASE \E p \in Paths : CreateVote(p) \/ EndPasses(p)
  BY <1>21 DEF CreateVote, EndPasses, locals, VoteInv, PcFitsMode, CountsLast,
     SeenLacks, LandedHolds, OneLanding, Landed, SameVote, Name, Path
<1>24. CASE \E p \in Paths : StoreReplyLost(p) \/ StoreAgain(p)
  <2>1. /\ UNCHANGED <<mode, votedPath, pc, form, acct, seen, counted>>
        /\ faults' <= faults
    BY <1>24, <1>domains DEF StoreReplyLost, StoreAgain, Fault, locals
  <2>2. PcFitsMode' /\ SeenLacks' /\ LandedHolds' /\ OneLanding'
    BY <2>1 DEF VoteInv, PcFitsMode, SeenLacks, LandedHolds, OneLanding, Landed,
       SameVote, Name, Path
  <2>3. faults' \in Int
    BY <1>0 DEF TypeOK
  <2>4. CountsLast'
    <3>1. SUFFICES ASSUME NEW r \in Requests PROVE CountsLastAt(r)'
      BY DEF CountsLast, CountsLastAt
    <3> QED
      BY <1>1, <1>domains, <2>1, <2>3 DEF VoteInvAt, CountsLastAt, Ended
  <2> QED
    BY <2>2, <2>4 DEF VoteInv
<1>22. CASE Crash
  <2>1. \A r \in Requests :
          pc'[r] = (IF pc[r] \in Running THEN "crashed" ELSE pc[r])
          /\ (Landed(r)' => Landed(r))
    BY <1>22 DEF Crash, Running, Landed, TypeOK
  <2>2. UNCHANGED <<mode, votedPath, faults, form, acct, seen, counted>>
    BY <1>22 DEF Crash, store, locals
  <2>3. PcFitsMode' /\ SeenLacks'
    BY <2>1, <2>2 DEF VoteInv, PcFitsMode, SeenLacks, Running, Path
  <2>4. CountsLast'
    <3>1. SUFFICES ASSUME NEW r \in Requests PROVE CountsLastAt(r)'
      BY DEF CountsLast, CountsLastAt
    <3> QED
      BY <1>1, <2>1, <2>2 DEF VoteInvAt, CountsLastAt, Running, Ended
  <2>5. LandedHolds' /\ OneLanding'
    BY <2>1, <2>2 DEF VoteInv, LandedHolds, OneLanding, SameVote, Name, Path
  <2> QED
    BY <2>3, <2>4, <2>5 DEF VoteInv
<1>23. CASE UNCHANGED vars
  BY <1>23 DEF vars, VoteInv, PcFitsMode, CountsLast, SeenLacks, LandedHolds,
     OneLanding, Landed, SameVote, Name, Path
<1> QED
  BY <1>4, <1>5, <1>6, <1>7, <1>8, <1>9, <1>10, <1>11, <1>12, <1>13, <1>14,
     <1>15, <1>16, <1>17, <1>18, <1>19, <1>20, <1>21, <1>22, <1>23, <1>24
     DEF Next, Handle, DatabaseFault

(* No request has begun, so nothing has landed and nothing is counted.     *)
LEMMA VoteInit == Init => VoteInv
  BY FaultsAssumption DEF Init, VoteInv, PcFitsMode, CountsLast, SeenLacks,
     LandedHolds, OneLanding, Landed, Ended

(* The inductive invariant holds in every behaviour.                       *)
THEOREM VoteInvHolds == Spec => []VoteInv
  BY TypeInit, TypeStep, VoteInit, VoteStep, PTL DEF Spec

(* No account has two votes in one poll's tally over redis and mysql.      *)
THEOREM OneBallotHolds == Spec => []OneBallot
<1>1. VoteInv => OneBallot
  BY DEF VoteInv, OneLanding, CountsLast, Landed, OneBallot
<1> QED
  BY <1>1, VoteInvHolds, PTL

(* What is counted is recorded, over every database but the files of os.   *)
THEOREM CountedIsRecordedHolds == Spec => []CountedIsRecorded
<1>1. VoteInv => CountedIsRecorded
  BY DEF VoteInv, LandedHolds, Landed, CountedIsRecorded
<1> QED
  BY <1>1, VoteInvHolds, PTL

-----------------------------------------------------------------------------
(* The tally.                                                              *)

(* db.mode is read once at start-up (config.go:43): no request changes it. *)
LEMMA ModeKept == [Next]_vars => mode' = mode
  BY DEF Next, vars, Post, PostTurnedAway, Handle, FindUser, FindInfo, LockInfo,
     ReadVotedPath, WriteVotedPath, Updata, FindUserAgain, IncOption, IndexPanic,
     FindInfoAgain, DatabaseFault, UpdataConflict, UpdataReplyLost,
     IncOptionReplyLost, CallFailed, DeleteAccount, IncFieldRevives, NewUser,
     CreateVote, StoreReplyLost, StoreAgain, EndPasses, Crash

(* A step uses up one fault at most.                                       *)
LEMMA FaultsFall == [Next]_vars => faults' = faults \/ faults' = faults - 1
  BY DEF Next, vars, Post, PostTurnedAway, Handle, FindUser, FindInfo, LockInfo,
     ReadVotedPath, WriteVotedPath, Updata, FindUserAgain, IncOption, IndexPanic,
     FindInfoAgain, DatabaseFault, UpdataConflict, UpdataReplyLost,
     IncOptionReplyLost, CallFailed, Fault, DeleteAccount, IncFieldRevives, NewUser,
     CreateVote, StoreReplyLost, StoreAgain, EndPasses, Crash

(* One more increment for request r is one more element of Increments, for *)
(* r's poll and option and for no other (vote.go:332).                     *)
LEMMA TallyCountVote ==
    ASSUME TypeOK, VoteInv, TallyExact, NEW r \in Requests, pc[r] = "count",
           Opt(r) \in Options, IncOptionHits(r), CountVote(r), form' = form,
           UNCHANGED <<mode, wiped>>, faults' = faults \/ faults' = faults - 1
    PROVE  TallyExact'
<1> USE FaultsAssumption, RequestsAssumption
<1>1. /\ Path(r) \in Paths /\ counted[r] \in Nat /\ MaxFaults \in Nat
      /\ faults \in Nat /\ counted[r] + faults <= MaxFaults
  <2>1. /\ Path(r) \in Paths /\ counted[r] \in Nat /\ MaxFaults \in Nat
        /\ faults \in Nat
    BY FormTypes DEF TypeOK
  <2>2. counted[r] + faults <= MaxFaults + 0
    BY DEF VoteInv, CountsLast, Ended
  <2> QED
    BY <2>1, <2>2
<1>2. SUFFICES ASSUME NEW p \in Paths, NEW o \in Options
               PROVE  option'[p][o] + wiped[p][o] = Cardinality(Increments(p, o)')
  <2>1. \A p \in Paths, o \in Options :
          wiped[p][o] > 0 => mode = "redis" /\ faults' < MaxFaults
                               /\ "StoreReplyLost" \in Faults
    BY <1>1 DEF TallyExact
  <2> QED
    BY <2>1 DEF TallyExact
<1>3. /\ option[p][o] + wiped[p][o] = Cardinality(Increments(p, o))
      /\ option[p][o] \in Nat /\ wiped[p][o] \in Nat
  BY DEF TallyExact, TypeOK
<1>4. \A q \in Requests : Path(q)' = Path(q) /\ Opt(q)' = Opt(q)
                           /\ counted[q] \in Nat
                           /\ counted'[q] = IF q = r THEN counted[q] + 1 ELSE counted[q]
  BY DEF TypeOK, CountVote, Path, Opt
<1>5. CASE p = Path(r) /\ o = Opt(r)
  <2>1. option'[p][o] = option[p][o] + 1
    BY <1>1, <1>5, CountVoteIncrements DEF TypeOK
  <2>2. Increments(p, o)' = Increments(p, o) \cup {<<r, counted[r] + 1>>}
    BY <1>1, <1>4, <1>5 DEF Increments
  <2>3. <<r, counted[r] + 1>> \notin Increments(p, o)
    BY <1>1 DEF Increments
  <2>4. IsFiniteSet(Increments(p, o))
    <3>1. IsFiniteSet(1 .. MaxFaults + 1)
      BY <1>1, FS_Interval
    <3>2. IsFiniteSet(Requests \X (1 .. MaxFaults + 1))
      BY <3>1, FS_Product
    <3> QED
      BY <3>2, FS_Subset DEF Increments
  <2> QED
    <3>1. Cardinality(Increments(p, o)') = Cardinality(Increments(p, o)) + 1
      BY ONLY <2>2, <2>3, <2>4, FS_AddElement
    <3> QED
      BY <1>3, <2>1, <3>1
<1>6. CASE ~(p = Path(r) /\ o = Opt(r))
  <2>1. option'[p][o] = option[p][o]
    <3>1. option' = [option EXCEPT ![Path(r)][Opt(r)] = @ + 1]
      BY CountVoteIncrements
    <3>2. option \in [Paths -> [Options -> Nat]]
      BY DEF TypeOK
    <3>3. CASE p # Path(r)
      BY ONLY <3>1, <3>2, <3>3, p \in Paths
    <3>4. CASE p = Path(r) /\ o # Opt(r)
      BY ONLY <3>1, <3>2, <3>4, p \in Paths, o \in Options
    <3> QED
      BY <1>6, <3>3, <3>4
  <2>2. Increments(p, o)' = Increments(p, o)
    BY <1>4, <1>6 DEF Increments
  <2> QED
    BY <1>3, <2>1, <2>2
<1> QED
  BY <1>5, <1>6

(* Storing a poll again moves its votes from the tally to the history of   *)
(* what was reset, and it takes a lost reply (redis.go:56).                *)
LEMMA TallyStoreAgain ==
    ASSUME TypeOK, TypeOK', TallyExact, NEW q \in Paths,
           \/ StoreReplyLost(q)
           \/ StoreAgain(q) /\ mode = "redis" /\ faults < MaxFaults
                /\ "StoreReplyLost" \in Faults
    PROVE  TallyExact'
<1> USE FaultsAssumption
<1>1. /\ UNCHANGED <<mode, counted, form>>
      /\ faults' = faults \/ faults' = faults - 1
      /\ faults \in Int /\ MaxFaults \in Int
  BY DEF StoreReplyLost, StoreAgain, Fault, TypeOK
<1>2. SUFFICES ASSUME NEW p \in Paths, NEW o \in Options
               PROVE  /\ option'[p][o] + wiped'[p][o] = Cardinality(Increments(p, o))
                      /\ wiped'[p][o] > 0 => mode = "redis" /\ faults' < MaxFaults
                                               /\ "StoreReplyLost" \in Faults
  BY <1>1 DEF TallyExact, Increments, Path, Opt
<1>3. /\ option[p][o] + wiped[p][o] = Cardinality(Increments(p, o))
      /\ wiped[p][o] > 0 => mode = "redis" /\ faults < MaxFaults
                               /\ "StoreReplyLost" \in Faults
      /\ option[p][o] \in Nat /\ wiped[p][o] \in Nat
  BY DEF TallyExact, TypeOK
<1>4. CASE StoreReplyLost(q)
  BY <1>1, <1>3, <1>4 DEF StoreReplyLost, Fault
<1>5. CASE StoreAgain(q) /\ p = q
  <2>1. option'[p][o] = 0 /\ wiped'[p][o] = wiped[p][o] + option[p][o]
    BY <1>5 DEF StoreAgain, TypeOK
  <2> QED
    BY <1>1, <1>3, <1>4, <1>5, <2>1 DEF StoreReplyLost, Fault
<1>6. CASE StoreAgain(q) /\ p # q
  <2>1. option'[p][o] = option[p][o] /\ wiped'[p][o] = wiped[p][o]
    BY <1>6 DEF StoreAgain, TypeOK
  <2> QED
    BY <1>1, <1>3, <1>6, <2>1
<1> QED
  BY <1>4, <1>5, <1>6

-----------------------------------------------------------------------------
(* Only over redis is a poll stored again, and only after a fault.         *)
StoringInv ==
    \A p \in Paths :
        storing[p] => mode = "redis" /\ faults < MaxFaults /\ "StoreReplyLost" \in Faults

(* Every step keeps StoringInv.                                            *)
LEMMA StoringStep == TypeOK /\ TypeOK' /\ StoringInv /\ [Next]_vars => StoringInv'
<1> SUFFICES ASSUME TypeOK, TypeOK', StoringInv, [Next]_vars PROVE StoringInv'
  OBVIOUS
<1>1. mode' = mode
  BY ModeKept
<1>2. faults' = faults \/ faults' = faults - 1
  BY FaultsFall
<1>3. faults \in Int /\ faults' \in Int /\ MaxFaults \in Int
  BY FaultsAssumption DEF TypeOK
<1>4. ASSUME NEW p \in Paths, StoreReplyLost(p) PROVE StoringInv'
  <2>1. mode = "redis" /\ faults' < MaxFaults /\ "StoreReplyLost" \in Faults
    BY <1>4, <1>3 DEF StoreReplyLost, Fault, TypeOK
  <2> QED
    BY <1>1, <2>1 DEF StoringInv
<1>5. ASSUME ~\E p \in Paths : StoreReplyLost(p)
      PROVE  \A p \in Paths : storing'[p] => storing[p]
  <2>1. storing' = storing \/ Crash \/ \E q \in Paths : StoreAgain(q)
    BY <1>5 DEF Next, vars, store, Post, PostTurnedAway, Handle, FindUser, FindInfo,
       LockInfo, ReadVotedPath, WriteVotedPath, Updata, FindUserAgain, IncOption,
       IndexPanic, FindInfoAgain, DatabaseFault, UpdataConflict, UpdataReplyLost,
       IncOptionReplyLost, CallFailed, DeleteAccount, IncFieldRevives, NewUser,
       CreateVote, EndPasses
  <2>2. ASSUME NEW q \in Paths, StoreAgain(q)
        PROVE  storing' = storing \/ storing' = [storing EXCEPT ![q] = FALSE]
    BY <2>2 DEF StoreAgain
  <2>3. Crash => storing' = [p \in Paths |-> FALSE]
    BY DEF Crash
  <2> QED
    BY <2>1, <2>2, <2>3 DEF TypeOK
<1>6. CASE ~\E p \in Paths : StoreReplyLost(p)
  BY <1>1, <1>2, <1>3, <1>5, <1>6 DEF StoringInv
<1> QED
  BY <1>4, <1>6

(* A poll is stored again only over redis, which lost the reply of its     *)
(* first HSET (redis.go:56).                                               *)
THEOREM StoringInvHolds == Spec => []StoringInv
<1>1. Init => StoringInv
  BY DEF Init, StoringInv
<1> QED
  BY <1>1, StoringStep, TypeCorrect, PTL DEF Spec

(* Every step keeps the tally exact: only IncOption and the fault in which *)
(* its reply is lost count a vote.                                         *)
LEMMA TallyStep ==
    TypeOK /\ TypeOK' /\ VoteInv /\ StoringInv /\ TallyExact /\ [Next]_vars => TallyExact'
<1> SUFFICES ASSUME TypeOK, TypeOK', VoteInv, StoringInv, TallyExact, [Next]_vars
             PROVE  TallyExact'
  OBVIOUS
<1>0. /\ mode' = mode
      /\ faults' = faults \/ faults' = faults - 1
      /\ faults \in Int /\ MaxFaults \in Int
  BY ModeKept, FaultsFall, FaultsAssumption DEF TypeOK
<1>1. ASSUME UNCHANGED <<option, wiped, counted, form>> PROVE TallyExact'
  <2>1. \A p \in Paths, o \in Options : Increments(p, o)' = Increments(p, o)
    BY <1>1 DEF Increments, Path, Opt
  <2>2. faults < MaxFaults => faults' < MaxFaults
    BY <1>0
  <2> QED
    BY <1>0, <1>1, <2>1, <2>2 DEF TallyExact
<1>2. ASSUME NEW r \in Requests, Handle(r) PROVE TallyExact'
  <2>1. CASE IncOption(r) /\ IncOptionHits(r)
    BY <1>0, <2>1, TallyCountVote DEF IncOption
  <2>2. CASE ~(IncOption(r) /\ IncOptionHits(r))
    BY <1>1, <1>2, <2>2 DEF Handle, FindUser, FindInfo, LockInfo, ReadVotedPath,
       WriteVotedPath, Updata, FindUserAgain, IncOption, IndexPanic,
       FindInfoAgain, store
  <2> QED
    BY <2>1, <2>2
<1>3. ASSUME NEW r \in Requests, DatabaseFault(r) PROVE TallyExact'
  <2>1. CASE IncOptionReplyLost(r)
    BY <1>0, <2>1, TallyCountVote DEF IncOptionReplyLost
  <2>2. CASE ~IncOptionReplyLost(r)
    BY <1>1, <1>3, <2>2 DEF DatabaseFault, UpdataConflict, UpdataReplyLost,
       CallFailed, store
  <2> QED
    BY <2>1, <2>2
<1>4. CASE \E r \in Requests : Post(r) \/ PostTurnedAway(r)
  BY <1>1, <1>4 DEF Post, PostTurnedAway, store
<1>5. CASE \/ \E n \in Names : DeleteAccount(n) \/ IncFieldRevives(n) \/ NewUser(n)
           \/ \E p \in Paths : CreateVote(p) \/ EndPasses(p)
           \/ Crash \/ UNCHANGED vars
  BY <1>1, <1>5 DEF DeleteAccount, IncFieldRevives, NewUser, CreateVote, EndPasses,
     Crash, vars
<1>6. CASE \E p \in Paths : StoreReplyLost(p) \/ StoreAgain(p)
  BY <1>6, TallyStoreAgain DEF StoringInv, StoreAgain
<1> QED
  BY <1>2, <1>3, <1>4, <1>5, <1>6 DEF Next

(* The tally is the number of increments the requests made, less those of  *)
(* a poll that redis stored again: none is lost and none made up, over     *)
(* every database and whatever other faults.                               *)
THEOREM TallyExactHolds == Spec => []TallyExact
<1>1. Init => TallyExact
  <2> SUFFICES ASSUME Init PROVE TallyExact
    OBVIOUS
  <2>1. \A p \in Paths, o \in Options : Increments(p, o) = {}
    BY FaultsAssumption DEF Init, Increments
  <2>2. \A p \in Paths, o \in Options :
          option[p][o] = 0 /\ wiped[p][o] = 0 /\ Cardinality(Increments(p, o)) = 0
    BY <2>1, FS_EmptySet DEF Init
  <2> QED
    BY <2>2 DEF TallyExact
<1> QED
  BY <1>1, TallyStep, TypeCorrect, VoteInvHolds, StoringInvHolds, PTL DEF Spec

-----------------------------------------------------------------------------
(* Voting over a comparing database implements Poll.                       *)

(* What stays the same for Poll when no VotedPath changes.                 *)
LEMMA SpentSame == UNCHANGED <<mode, votedPath>> => Spent' = Spent
  BY DEF Spent, Voters

(* What stays the same for Poll when nothing is counted.                   *)
LEMMA TallySame == UNCHANGED <<mode, option, wiped, counted, form>> => Tally' = Tally
  BY DEF Tally, Repeated, Increments, Path, Opt

(* There are finitely many repetitions, as each is a fault.                *)
LEMMA RepeatedFinite ==
    ASSUME NEW p \in Paths, NEW o \in Options
    PROVE  IsFiniteSet(Repeated(p, o)) /\ Cardinality(Repeated(p, o)) \in Nat
<1>1. IsFiniteSet(1 .. MaxFaults + 1)
  BY FaultsAssumption, FS_Interval
<1>2. IsFiniteSet(Requests \X (1 .. MaxFaults + 1))
  BY <1>1, RequestsAssumption, FS_Product
<1>3. IsFiniteSet(Repeated(p, o))
  BY <1>2, FS_Subset DEF Repeated, Increments
<1> QED
  BY <1>3, FS_CardinalityType

(* What a counted vote adds to the repetitions of an option: nothing when  *)
(* it is the request's first, and one of r's poll and option when redis    *)
(* makes it again (redis.go:387).                                          *)
LEMMA RepeatedStep ==
    ASSUME TypeOK, VoteInv, NEW r \in Requests, pc[r] = "count",
           Opt(r) \in Options, CountVote(r), form' = form,
           NEW p \in Paths, NEW o \in Options
    PROVE  Cardinality(Repeated(p, o)') =
             IF counted[r] > 0 /\ p = Path(r) /\ o = Opt(r)
             THEN Cardinality(Repeated(p, o)) + 1
             ELSE Cardinality(Repeated(p, o))
<1> USE FaultsAssumption
<1>1. counted[r] \in Nat /\ faults \in Nat /\ counted[r] + faults <= MaxFaults
  <2>1. counted[r] \in Nat /\ faults \in Nat /\ MaxFaults \in Nat
    BY DEF TypeOK
  <2>2. counted[r] + faults <= MaxFaults + 0
    BY DEF VoteInv, CountsLast, Ended
  <2> QED
    BY <2>1, <2>2
<1>2. \A q \in Requests : Path(q)' = Path(q) /\ Opt(q)' = Opt(q)
                           /\ counted[q] \in Nat
                           /\ counted'[q] = IF q = r THEN counted[q] + 1 ELSE counted[q]
  BY DEF TypeOK, CountVote, Path, Opt
<1>3. CASE counted[r] > 0 /\ p = Path(r) /\ o = Opt(r)
  <2>1. Repeated(p, o)' = Repeated(p, o) \cup {<<r, counted[r] + 1>>}
    BY <1>1, <1>2, <1>3 DEF Repeated, Increments
  <2>2. <<r, counted[r] + 1>> \notin Repeated(p, o)
    BY <1>1 DEF Repeated, Increments
  <2>3. IsFiniteSet(Repeated(p, o))
    BY RepeatedFinite
  <2>4. Cardinality(Repeated(p, o) \cup {<<r, counted[r] + 1>>})
            = Cardinality(Repeated(p, o)) + 1
    BY ONLY <2>2, <2>3, FS_AddElement
  <2> QED
    BY <1>3, <2>1, <2>4
<1>4. CASE ~(counted[r] > 0 /\ p = Path(r) /\ o = Opt(r))
  <2>1. Repeated(p, o)' = Repeated(p, o)
    BY <1>1, <1>2, <1>4 DEF Repeated, Increments
  <2> QED
    BY <1>4, <2>1
<1> QED
  BY <1>3, <1>4

(* What a counted vote does to Poll's tally: it adds one to r's option     *)
(* when it is the request's first, and nothing otherwise.                  *)
LEMMA TallyMoves ==
    ASSUME TypeOK, VoteInv, NEW r \in Requests, mode \in CasModes, mode' = mode,
           pc[r] = "count", Opt(r) \in Options, IncOptionHits(r), CountVote(r),
           UNCHANGED <<form, wiped>>
    PROVE  Tally' = IF counted[r] > 0 THEN Tally
                    ELSE [Tally EXCEPT ![Path(r)][Opt(r)] = @ + 1]
<1>1. Path(r) \in Paths
  BY FormTypes
<1>2. Tally' = [p \in Paths |-> [o \in Options |->
                  (option'[p][o] + wiped[p][o]) - Cardinality(Repeated(p, o)')]]
  BY DEF Tally
<1>3. Tally = [p \in Paths |-> [o \in Options |->
                 (option[p][o] + wiped[p][o]) - Cardinality(Repeated(p, o))]]
  BY DEF Tally
<1>4. \A p \in Paths, o \in Options :
        option'[p][o] = IF p = Path(r) /\ o = Opt(r)
                        THEN option[p][o] + 1 ELSE option[p][o]
  <2>1. option' = [option EXCEPT ![Path(r)][Opt(r)] = @ + 1]
    BY CountVoteIncrements
  <2>2. option \in [Paths -> [Options -> Nat]]
    BY DEF TypeOK
  <2> QED
    BY ONLY <1>1, <2>1, <2>2, Opt(r) \in Options
<1>5. \A p \in Paths, o \in Options :
        /\ option[p][o] \in Nat /\ wiped[p][o] \in Nat
        /\ Cardinality(Repeated(p, o)) \in Nat
  BY RepeatedFinite DEF TypeOK
<1>6. CASE counted[r] > 0
  <2>1. \A p \in Paths, o \in Options :
          (option'[p][o] + wiped[p][o]) - Cardinality(Repeated(p, o)')
            = (option[p][o] + wiped[p][o]) - Cardinality(Repeated(p, o))
    <3> SUFFICES ASSUME NEW p \in Paths, NEW o \in Options
                 PROVE  (option'[p][o] + wiped[p][o]) - Cardinality(Repeated(p, o)')
                          = (option[p][o] + wiped[p][o]) - Cardinality(Repeated(p, o))
      OBVIOUS
    <3>1. Cardinality(Repeated(p, o)') =
            IF p = Path(r) /\ o = Opt(r) THEN Cardinality(Repeated(p, o)) + 1
            ELSE Cardinality(Repeated(p, o))
      BY <1>6, RepeatedStep
    <3> QED
      BY <1>4, <1>5, <3>1
  <2> QED
    BY <1>2, <1>3, <1>6, <2>1
<1>7. CASE ~(counted[r] > 0)
  <2>1. \A p \in Paths, o \in Options :
          (option'[p][o] + wiped[p][o]) - Cardinality(Repeated(p, o)')
            = IF p = Path(r) /\ o = Opt(r)
              THEN (option[p][o] + wiped[p][o]) - Cardinality(Repeated(p, o)) + 1
              ELSE (option[p][o] + wiped[p][o]) - Cardinality(Repeated(p, o))
    <3> SUFFICES ASSUME NEW p \in Paths, NEW o \in Options
                 PROVE  (option'[p][o] + wiped[p][o]) - Cardinality(Repeated(p, o)')
                          = IF p = Path(r) /\ o = Opt(r)
                            THEN (option[p][o] + wiped[p][o]) - Cardinality(Repeated(p, o)) + 1
                            ELSE (option[p][o] + wiped[p][o]) - Cardinality(Repeated(p, o))
      OBVIOUS
    <3>1. Cardinality(Repeated(p, o)') = Cardinality(Repeated(p, o))
      BY <1>7, RepeatedStep
    <3> QED
      BY <1>4, <1>5, <3>1
  <2>2. Tally' = [Tally EXCEPT ![Path(r)][Opt(r)] = @ + 1]
    BY <1>1, <1>2, <1>3, <2>1
  <2> QED
    BY <1>7, <2>2
<1> QED
  BY <1>6, <1>7

(* A step that counts nothing, and moves no counted request to another     *)
(* account, leaves the ballots as they are.                                *)
LEMMA BallotsSame ==
    ASSUME UNCHANGED <<mode, counted, form>>,
           \A q \in Requests : counted[q] > 0 => acct'[q] = acct[q]
    PROVE  Ballots' = Ballots
  BY DEF Ballots, Ballot, Name, Path, Opt

(* Recording a poll that the row lacks is Poll's Spend.                    *)
LEMMA SpendStep ==
    ASSUME TypeOK, TypeOK', VoteInv, NEW r \in Requests, mode \in CasModes,
           pc[r] = "record", UpdataHits(r),
           PushVotedPath(r, gen[Name(r)], Row(r)),
           UNCHANGED <<mode, option, wiped, counted, form>>,
           \A q \in Requests \ {r} : acct'[q] = acct[q]
    PROVE  P!Next
<1> DEFINE v == <<Name(r), gen[Name(r)]>>
<1>1. /\ Row(r) \in Seq(Paths) /\ Path(r) \in Paths /\ Name(r) \in Names
      /\ gen[Name(r)] \in 1 .. MaxGen /\ v \in Voters
  BY FormTypes DEF Voters
<1>2. \A q \in Paths : Contains(Append(Row(r), Path(r)), q)
                         <=> Contains(Row(r), q) \/ q = Path(r)
  BY <1>1, AppendContains
<1>3. \A n \in Names, g \in 1 .. MaxGen :
        votedPath'[n][g] = IF <<n, g>> = v
                           THEN Append(Row(r), Path(r)) ELSE votedPath[n][g]
  BY <1>1 DEF TypeOK, PushVotedPath
<1>4. votedPath[v[1]][v[2]] = Row(r)
  BY DEF Row
<1>5. \A w \in Voters, q \in Paths :
        Contains(votedPath'[w[1]][w[2]], q)
          <=> Contains(votedPath[w[1]][w[2]], q) \/ (w = v /\ q = Path(r))
  <2>1. SUFFICES ASSUME NEW n \in Names, NEW g \in 1 .. MaxGen, NEW q \in Paths
                 PROVE  Contains(votedPath'[n][g], q)
                          <=> Contains(votedPath[n][g], q)
                              \/ (<<n, g>> = v /\ q = Path(r))
    BY DEF Voters
  <2> QED
    BY <1>2, <1>3, <1>4
<1>6. Spent' = Spent \cup {<<v, Path(r)>>}
  BY <1>1, <1>5 DEF Spent
<1>7. ~Contains(Row(r), Path(r))
  BY DEF VoteInv, SeenLacks, UpdataHits
<1>8. <<v, Path(r)>> \notin Spent
  BY <1>4, <1>7 DEF Spent
<1>9. Ballots' = Ballots
  BY BallotsSame DEF VoteInv, CountsLast, Ended
<1>10. P!Spend(v, Path(r))
  BY <1>6, <1>8, <1>9, TallySame DEF P!Spend
<1> QED
  BY <1>1, <1>10 DEF P!Next

(* Counting a landed vote is Poll's Cast, and counting it again, after a   *)
(* lost reply, is nothing to Poll.                                         *)
LEMMA CastStep ==
    ASSUME TypeOK, TypeOK', VoteInv, NEW r \in Requests, mode \in CasModes,
           pc[r] = "count", Opt(r) \in Options, IncOptionHits(r), CountVote(r),
           UNCHANGED <<mode, votedPath, wiped, form, acct>>
    PROVE  P!Next \/ UNCHANGED P!vars
<1> DEFINE v == <<Name(r), acct[r]>>
<1>1. /\ Path(r) \in Paths /\ v \in Voters
  BY FormTypes DEF Voters
<1>2. <<v, Path(r)>> \in Spent
  BY <1>1 DEF VoteInv, LandedHolds, Landed, CasModes, Spent
<1>3. \A q \in Requests : Ballot(q)' = Ballot(q)
  BY DEF Ballot, Name, Path, Opt
<1>4. \A q \in Requests : counted'[q] > 0 <=> counted[q] > 0 \/ q = r
  <2>1. \A q \in Requests : counted[q] \in Nat
    BY DEF TypeOK
  <2>2. \A q \in Requests :
          counted'[q] = IF q = r THEN counted[q] + 1 ELSE counted[q]
    BY DEF TypeOK, CountVote
  <2> QED
    BY <2>1, <2>2
<1>5. Spent' = Spent
  BY SpentSame
<1>6. CASE counted[r] > 0
  <2>1. Ballots' = Ballots
    BY <1>3, <1>4, <1>6 DEF Ballots
  <2>2. Tally' = Tally
    BY <1>6, TallyMoves
  <2> QED
    BY <1>5, <2>1, <2>2 DEF P!vars
<1>7. CASE ~(counted[r] > 0)
  <2>1. ~P!HasBallot(v, Path(r))
    <3>1. SUFFICES ASSUME NEW s \in Requests, counted[s] > 0,
                          Name(s) = Name(r), Path(s) = Path(r), acct[s] = acct[r]
                   PROVE  FALSE
      BY DEF P!HasBallot, Ballots, Ballot
    <3>2. s = r
      BY <3>1 DEF VoteInv, OneLanding, Landed, SameVote
    <3> QED
      BY <1>7, <3>1, <3>2
  <2>2. Ballots' = Ballots \cup {<<v, Path(r), Opt(r)>>}
    <3>1. Ballot(r) = <<v, Path(r), Opt(r)>>
      BY DEF Ballot
    <3> QED
      BY <1>3, <1>4, <3>1 DEF Ballots
  <2>3. Tally' = [Tally EXCEPT ![Path(r)][Opt(r)] = @ + 1]
    BY <1>7, TallyMoves
  <2>4. P!Cast(v, Path(r), Opt(r))
    BY <1>2, <1>5, <2>1, <2>2, <2>3 DEF P!Cast
  <2> QED
    BY <1>1, <2>4 DEF P!Next
<1> QED
  BY <1>6, <1>7

(* Every step of the handler is a step of Poll or leaves it as it is.      *)
LEMMA PollStep ==
    TypeOK /\ TypeOK' /\ VoteInv /\ [Next]_vars => [P!Next]_(P!vars)
<1> SUFFICES ASSUME TypeOK, TypeOK', VoteInv, [Next]_vars, mode \in CasModes
             PROVE  P!Next \/ UNCHANGED P!vars
  <2>1. ASSUME [Next]_vars, mode \notin CasModes PROVE UNCHANGED P!vars
    BY <2>1, ModeKept DEF P!vars, Spent, Ballots, Tally
  <2> QED
    BY <2>1
<1>0. mode # "os" /\ mode' = mode
  BY ModeKept DEF CasModes
<1>1. ASSUME UNCHANGED <<option, wiped, votedPath, counted, form>>,
             \A q \in Requests : counted[q] > 0 => acct'[q] = acct[q]
      PROVE  UNCHANGED P!vars
  BY <1>0, <1>1, SpentSame, BallotsSame, TallySame DEF P!vars
<1>2. ASSUME NEW r \in Requests, pc[r] \notin {"count", "recount"} \cup Ended
      PROVE  ~(counted[r] > 0)
  BY <1>2 DEF VoteInv, CountsLast
<1>3. ASSUME NEW r \in Requests, FindUser(r) \/ FindUserAgain(r)
      PROVE  UNCHANGED P!vars
  <2>1. ~(counted[r] > 0)
    BY <1>2, <1>3 DEF FindUser, FindUserAgain, Ended
  <2>2. \A q \in Requests \ {r} : acct'[q] = acct[q]
    BY <1>3 DEF FindUser, FindUserAgain, HoldAccount, HoldHusk, HoldNil, TypeOK
  <2> QED
    BY <1>1, <1>3, <2>1, <2>2 DEF FindUser, FindUserAgain, store
<1>4. ASSUME NEW r \in Requests, Updata(r)
      PROVE  P!Next \/ UNCHANGED P!vars
  <2>1. CASE UpdataHits(r)
    BY <1>0, <1>4, <2>1, WrittenIsRow, SpendStep DEF Updata, TypeOK
  <2>2. CASE ~UpdataHits(r)
    BY <1>1, <1>4, <2>2 DEF Updata
  <2> QED
    BY <2>1, <2>2
<1>5. ASSUME NEW r \in Requests, UpdataReplyLost(r) PROVE P!Next
  BY <1>0, <1>5, WrittenIsRow, SpendStep DEF UpdataReplyLost, TypeOK
<1>6. ASSUME NEW r \in Requests, IncOption(r)
      PROVE  P!Next \/ UNCHANGED P!vars
  <2>1. CASE IncOptionHits(r)
    BY <1>0, <1>6, <2>1, CastStep DEF IncOption, locals
  <2>2. CASE ~IncOptionHits(r)
    BY <1>1, <1>6, <2>2 DEF IncOption, locals
  <2> QED
    BY <2>1, <2>2
<1>7. ASSUME NEW r \in Requests, WriteVotedPath(r) PROVE FALSE
  BY <1>0, <1>7 DEF WriteVotedPath, VoteInv, PcFitsMode
<1>8. ASSUME NEW r \in Requests, IncOptionReplyLost(r)
      PROVE  P!Next \/ UNCHANGED P!vars
  BY <1>0, <1>8, CastStep DEF IncOptionReplyLost, locals
<1>9. ASSUME NEW r \in Requests,
             \/ Post(r) \/ PostTurnedAway(r) \/ FindInfo(r) \/ LockInfo(r)
             \/ ReadVotedPath(r) \/ IndexPanic(r) \/ FindInfoAgain(r)
             \/ UpdataConflict(r) \/ CallFailed(r)
      PROVE  UNCHANGED P!vars
  BY <1>1, <1>9 DEF Post, PostTurnedAway, FindInfo, LockInfo, ReadVotedPath,
     IndexPanic, FindInfoAgain, UpdataConflict, CallFailed, store, locals
<1>10. CASE \/ \E n \in Names : DeleteAccount(n) \/ IncFieldRevives(n) \/ NewUser(n)
            \/ \E p \in Paths : CreateVote(p) \/ StoreReplyLost(p) \/ EndPasses(p)
            \/ Crash \/ UNCHANGED vars
  BY <1>1, <1>10 DEF DeleteAccount, IncFieldRevives, NewUser, CreateVote,
     StoreReplyLost, EndPasses, Crash, locals, vars
<1>11. ASSUME NEW p \in Paths, StoreAgain(p) PROVE UNCHANGED P!vars
  <2>1. UNCHANGED <<mode, votedPath, acct, counted, form>>
    BY <1>11 DEF StoreAgain, locals
  <2>2. \A q \in Paths, o \in Options :
          option'[q][o] + wiped'[q][o] = option[q][o] + wiped[q][o]
    BY <1>11 DEF StoreAgain, TypeOK
  <2>3. \A q \in Paths, o \in Options : Repeated(q, o)' = Repeated(q, o)
    BY <2>1 DEF Repeated, Increments, Path, Opt
  <2>4. Tally' = Tally
    <3>1. \A q \in Paths, o \in Options :
            (option'[q][o] + wiped'[q][o]) - Cardinality(Repeated(q, o)')
              = (option[q][o] + wiped[q][o]) - Cardinality(Repeated(q, o))
      BY <2>2, <2>3
    <3>2. Tally' = [q \in Paths |-> [o \in Options |->
                      IF mode \in CasModes
                      THEN (option'[q][o] + wiped'[q][o]) - Cardinality(Repeated(q, o)')
                      ELSE 0]]
      BY <2>1 DEF Tally
    <3> QED
      BY <3>1, <3>2 DEF Tally
  <2> QED
    BY <2>1, <2>4, SpentSame, BallotsSame DEF P!vars
<1> QED
  BY <1>3, <1>4, <1>5, <1>6, <1>7, <1>8, <1>9, <1>10, <1>11
     DEF Next, Handle, DatabaseFault

(* Over redis and mysql the handler implements Poll: an account's vote is  *)
(* spent once, a spent vote gives at most one ballot, and the tally moves  *)
(* with the ballots only, but for the increments redis makes again.        *)
THEOREM ImplementsPoll == Spec => PollSpec
<1>1. Init => P!Init
  <2> SUFFICES ASSUME Init PROVE P!Init
    OBVIOUS
  <2>1. Spent = {}
    BY DEF Init, Spent, Voters, Contains
  <2>2. Ballots = {}
    BY DEF Init, Ballots
  <2>3. \A p \in Paths, o \in Options : Repeated(p, o) = {}
    BY FaultsAssumption DEF Init, Repeated, Increments
  <2>4. \A p \in Paths, o \in Options :
          option[p][o] = 0 /\ wiped[p][o] = 0 /\ Cardinality(Repeated(p, o)) = 0
    BY <2>3, FS_EmptySet DEF Init
  <2>5. Tally = [p \in Paths |-> [o \in Options |-> 0]]
    BY <2>4 DEF Tally
  <2> QED
    BY <2>1, <2>2, <2>5 DEF P!Init
<1> QED
  BY <1>1, PollStep, TypeCorrect, VoteInvHolds, PTL DEF Spec, PollSpec, P!Spec

-----------------------------------------------------------------------------
(* A spent vote has a request that answers for it.                         *)

(* Request r recorded the poll, and has counted the vote, is about to, or  *)
(* died before it could.                                                   *)
AnswersFor(r) == counted[r] > 0 \/ pc[r] \in {"count", "recount", "panic", "crashed"}

(* When SpentIsCounted has something to say: always over mysql, and over   *)
(* redis until a database call fails.                                      *)
Accountable == mode \in CasModes /\ (mode = "redis" => faults = MaxFaults)

(* A failed call of redis cannot be undone, and no step of redis is one    *)
(* while SpentIsCounted has something to say.                              *)
LEMMA AccountableBefore ==
    ASSUME TypeOK, TypeOK', [Next]_vars, Accountable'
    PROVE  /\ Accountable /\ mode' = mode /\ form' = form
           /\ \A r \in Requests : DatabaseFault(r) => mode = "mysql-os-redis"
<1> USE FaultsAssumption
<1>1. mode' = mode
  BY ModeKept
<1>2. form' = form
  BY DEF Next, vars, Post, PostTurnedAway, Handle, FindUser, FindInfo, LockInfo,
     ReadVotedPath, WriteVotedPath, Updata, FindUserAgain, IncOption, IndexPanic,
     FindInfoAgain, DatabaseFault, UpdataConflict, UpdataReplyLost,
     IncOptionReplyLost, CallFailed, DeleteAccount, IncFieldRevives, NewUser,
     CreateVote, StoreReplyLost, StoreAgain, EndPasses, Crash
<1>3. faults' = faults \/ faults' = faults - 1
  BY FaultsFall
<1>4. \A r \in Requests : DatabaseFault(r) => faults' = faults - 1
  BY DEF DatabaseFault, UpdataConflict, UpdataReplyLost, IncOptionReplyLost,
     CallFailed, Fault
<1>5. faults \in 0 .. MaxFaults /\ faults' \in 0 .. MaxFaults /\ MaxFaults \in Nat
  BY DEF TypeOK
<1>6. mode = "redis" => faults' = MaxFaults
  BY <1>1 DEF Accountable
<1>7. mode = "redis" => faults = MaxFaults /\ ~\E r \in Requests : DatabaseFault(r)
  BY <1>3, <1>4, <1>5, <1>6
<1> QED
  BY <1>1, <1>2, <1>7 DEF Accountable, CasModes

(* A request that answers for a vote goes on answering for it: between the *)
(* two loops of the handler (vote.go:313, 327) every way out is to count   *)
(* the vote or to die.                                                     *)
LEMMA AnswersOn ==
    ASSUME TypeOK, VoteInv, [Next]_vars, mode \in CasModes,
           NEW r \in Requests, AnswersFor(r)
    PROVE  AnswersFor(r)' /\ acct'[r] = acct[r]
<1>1. counted[r] \in Nat /\ mode # "os"
  BY DEF TypeOK, CasModes
<1>2. pc[r] \in {"count", "recount"} \cup Ended
  BY DEF AnswersFor, VoteInv, CountsLast, Ended
<1>3. ASSUME UNCHANGED <<pc, counted, acct>> PROVE AnswersFor(r)' /\ acct'[r] = acct[r]
  BY <1>3 DEF AnswersFor
<1>4. ASSUME NEW q \in Requests, q # r,
             Post(q) \/ PostTurnedAway(q) \/ Handle(q) \/ DatabaseFault(q)
      PROVE  AnswersFor(r)' /\ acct'[r] = acct[r]
  <2>1. CASE Post(q) \/ PostTurnedAway(q) \/ Handle(q)
    BY <1>4, <2>1 DEF AnswersFor, TypeOK, Post, PostTurnedAway, Handle, FindUser, FindInfo,
       LockInfo, ReadVotedPath, WriteVotedPath, Updata, FindUserAgain, HoldAccount,
       HoldHusk, HoldNil, IncOption, IndexPanic, FindInfoAgain, Return, Goto, CountVote,
       locals
  <2>2. CASE DatabaseFault(q)
    BY <1>4, <2>2 DEF AnswersFor, TypeOK, DatabaseFault, UpdataConflict, UpdataReplyLost,
       IncOptionReplyLost, CallFailed, Return, Goto, CountVote, locals
  <2> QED
    BY <1>4, <2>1, <2>2
<1>5. CASE IncOption(r) \/ IncOptionReplyLost(r)
  <2>1. acct'[r] = acct[r]
    BY <1>5 DEF IncOption, IncOptionReplyLost, locals
  <2>2. counted'[r] > 0 \/ pc'[r] = "recount"
    BY <1>1, <1>5 DEF TypeOK, IncOption, IncOptionReplyLost, CountVote, Goto
  <2> QED
    BY <2>1, <2>2 DEF AnswersFor
<1>6. CASE IndexPanic(r) \/ FindInfoAgain(r) \/ CallFailed(r)
  <2>1. acct'[r] = acct[r]
    BY <1>6 DEF IndexPanic, FindInfoAgain, CallFailed, locals
  <2>2. pc'[r] \in {"panic", "count"}
    BY <1>6 DEF TypeOK, IndexPanic, FindInfoAgain, CallFailed, Return, Goto
  <2> QED
    BY <2>1, <2>2 DEF AnswersFor
<1>7. CASE \/ Post(r) \/ PostTurnedAway(r) \/ FindUser(r) \/ FindInfo(r)
           \/ LockInfo(r) \/ ReadVotedPath(r) \/ WriteVotedPath(r) \/ Updata(r)
           \/ FindUserAgain(r) \/ UpdataConflict(r) \/ UpdataReplyLost(r)
  BY <1>2, <1>7 DEF Post, PostTurnedAway, FindUser, FindInfo, LockInfo,
     ReadVotedPath, WriteVotedPath, Updata, FindUserAgain, UpdataConflict,
     UpdataReplyLost, Ended
<1>8. CASE Crash
  <2>1. acct'[r] = acct[r] /\ counted'[r] = counted[r]
    BY <1>8 DEF Crash, locals
  <2>2. pc'[r] = pc[r] \/ pc'[r] = "crashed"
    BY <1>8 DEF TypeOK, Crash
  <2> QED
    BY <2>1, <2>2 DEF AnswersFor
<1>9. CASE \/ \E n \in Names : DeleteAccount(n) \/ IncFieldRevives(n) \/ NewUser(n)
           \/ \E p \in Paths :
                CreateVote(p) \/ StoreReplyLost(p) \/ StoreAgain(p) \/ EndPasses(p)
           \/ UNCHANGED vars
  BY <1>3, <1>9 DEF DeleteAccount, IncFieldRevives, NewUser, CreateVote,
     StoreReplyLost, StoreAgain, EndPasses, locals, vars
<1> QED
  BY <1>4, <1>5, <1>6, <1>7, <1>8, <1>9 DEF Next, Handle, DatabaseFault

(* A poll that a step adds to a VotedPath is added by Updata, for a        *)
(* request that goes on to count the vote, or panics (mysql.go:162).       *)
LEMMA NewlySpent ==
    ASSUME TypeOK, VoteInv, [Next]_vars, Accountable', TypeOK',
           NEW n \in Names, NEW g \in 1 .. MaxGen, NEW p \in Paths,
           Contains(votedPath[n][g], p)', ~Contains(votedPath[n][g], p)
    PROVE  \E r \in Requests :
             Name(r) = n /\ Path(r) = p /\ acct'[r] = g /\ AnswersFor(r)'
<1>1. /\ mode \in CasModes /\ mode # "os" /\ form' = form
      /\ \A r \in Requests : DatabaseFault(r) => mode # "redis"
  BY AccountableBefore DEF Accountable, CasModes
<1>2. votedPath' # votedPath
  BY DEF Contains
<1>3. PICK r \in Requests : \/ Updata(r) /\ UpdataHits(r)
                            \/ UpdataReplyLost(r)
  <2>1. ~\E q \in Requests : WriteVotedPath(q)
    BY <1>1 DEF WriteVotedPath, VoteInv, PcFitsMode
  <2> QED
    BY <1>2, <2>1 DEF Next, vars, store, Post, PostTurnedAway, Handle, FindUser,
       FindInfo, LockInfo, ReadVotedPath, Updata, FindUserAgain, IncOption,
       IndexPanic, FindInfoAgain, DatabaseFault, UpdataConflict, CallFailed,
       IncOptionReplyLost, DeleteAccount, IncFieldRevives, NewUser, CreateVote,
       StoreReplyLost, StoreAgain, EndPasses, Crash
<1>4. /\ PushVotedPath(r, gen[Name(r)], Row(r))
      /\ acct' = [acct EXCEPT ![r] = gen[Name(r)]]
  BY <1>3, WrittenIsRow DEF Updata, UpdataReplyLost
<1>5. /\ Name(r) \in Names /\ Path(r) \in Paths /\ Row(r) \in Seq(Paths)
      /\ gen[Name(r)] \in 1 .. MaxGen
  BY FormTypes
<1>6. /\ acct'[r] = gen[Name(r)]
      /\ votedPath'[n][g] = IF n = Name(r) /\ g = gen[Name(r)]
                            THEN Append(Row(r), Path(r)) ELSE votedPath[n][g]
  <2>1. acct'[r] = gen[Name(r)]
    BY <1>4 DEF TypeOK
  <2>2. votedPath \in [Names -> [1 .. MaxGen -> Seq(Paths)]]
    BY DEF TypeOK
  <2>3. votedPath' = [votedPath EXCEPT ![Name(r)][gen[Name(r)]] = Append(Row(r), Path(r))]
    BY <1>4 DEF PushVotedPath
  <2>4. votedPath'[n][g] = IF n = Name(r) /\ g = gen[Name(r)]
                          THEN Append(Row(r), Path(r)) ELSE votedPath[n][g]
    BY <1>5, <2>2, <2>3
  <2> QED
    BY <2>1, <2>4
<1>7. n = Name(r) /\ g = gen[Name(r)]
  BY <1>6 DEF Contains
<1>8. p = Path(r)
  <2>1. Contains(Append(Row(r), Path(r)), p)
    BY <1>6, <1>7
  <2>2. ~Contains(Row(r), p)
    BY <1>7 DEF Row
  <2> QED
    BY <1>5, <2>1, <2>2, AppendContains
<1>9. pc'[r] \in {"count", "panic"}
  <2>1. UpdataReplyLost(r) => mode # "redis"
    BY <1>1 DEF DatabaseFault
  <2> QED
    BY <1>3, <2>1 DEF TypeOK, Updata, UpdataReplyLost, Return, Goto
<1> QED
  BY <1>6, <1>7, <1>8, <1>9 DEF AnswersFor

(* Every step leaves a request that answers for each spent vote.           *)
LEMMA SpentIsCountedStep ==
    TypeOK /\ TypeOK' /\ VoteInv /\ SpentIsCounted /\ [Next]_vars => SpentIsCounted'
<1> SUFFICES ASSUME TypeOK, TypeOK', VoteInv, SpentIsCounted, [Next]_vars,
                    Accountable',
                    NEW n \in Names, NEW g \in 1 .. MaxGen, NEW p \in Paths,
                    Contains(votedPath[n][g], p)'
             PROVE  \E r \in Requests :
                      /\ Name(r)' = n /\ Path(r)' = p /\ acct'[r] = g
                      /\ AnswersFor(r)'
  BY DEF SpentIsCounted, Accountable, AnswersFor
<1>1. Accountable /\ form' = form
  BY AccountableBefore
<1>2. \A r \in Requests : Name(r)' = Name(r) /\ Path(r)' = Path(r)
  BY <1>1 DEF Name, Path
<1>3. CASE Contains(votedPath[n][g], p)
  <2>1. PICK r \in Requests :
          Name(r) = n /\ Path(r) = p /\ acct[r] = g /\ AnswersFor(r)
    BY <1>1, <1>3 DEF SpentIsCounted, Accountable, AnswersFor
  <2>2. AnswersFor(r)' /\ acct'[r] = acct[r]
    BY <1>1, <2>1, AnswersOn DEF Accountable
  <2> QED
    BY <1>2, <2>1, <2>2
<1>4. CASE ~Contains(votedPath[n][g], p)
  BY <1>2, <1>4, NewlySpent
<1> QED
  BY <1>3, <1>4

(* A vote that is spent is counted, or is on its way, unless its request   *)
(* died between the two loops: over mysql always, over redis as long as no *)
(* call fails.                                                             *)
THEOREM SpentIsCountedHolds == Spec => []SpentIsCounted
<1>1. Init => SpentIsCounted
  BY DEF Init, SpentIsCounted, Contains
<1> QED
  BY <1>1, SpentIsCountedStep, TypeCorrect, VoteInvHolds, PTL DEF Spec
=============================================================================
