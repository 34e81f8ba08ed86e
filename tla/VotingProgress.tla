--------------------------- MODULE VotingProgress ---------------------------
(***************************************************************************)
(* Why every vote is answered, for every value of the constants.  Answered *)
(* is a liveness property, and stays with TLC.  What it rests on is proved *)
(* here: whoever waits for a poll's lock waits for a request that has only *)
(* its own calls left to make, and every call brings a request nearer to   *)
(* its end by a measure that nobody else can raise, but for the calls of   *)
(* vote.go:313 over a husk that redis has of the account.  With the        *)
(* fairness of FairSpec this leaves no room for a lock held for ever       *)
(* (vote.go:305), or for a compare-and-swap loop without an end            *)
(* (vote.go:313, 327) but the one over a husk, which Answered names.       *)
(***************************************************************************)
EXTENDS VotingProofs

-----------------------------------------------------------------------------
(* The lock of a poll.                                                     *)

(* Where a request is while it holds the lock: in one of the two loops.    *)
Inside == {"record", "write", "count"}

(* Only under os is the lock shared.  It is held by one request at most,   *)
(* which is in its loops, and every request in its loops holds it.         *)
LockInv ==
    /\ \A p \in Paths : \A r \in lock[p] :
        mode = "os" /\ Path(r) = p /\ pc[r] \in Inside
    /\ \A r \in Requests : mode = "os" /\ pc[r] \in Inside => r \in lock[Path(r)]
    /\ \A p \in Paths : \A r, s \in lock[p] : r = s

(* A step of request r, as the locks see it: r has the lock of its poll    *)
(* afterwards just if it is inside its loops then, under os.               *)
LEMMA LockOne ==
    ASSUME TypeOK, LockInv, NEW r \in Requests, mode' = mode, form' = form,
           \A q \in Requests \ {r} : pc'[q] = pc[q],
           \A p \in Paths : p # Path(r) => lock'[p] = lock[p],
           \/ /\ lock'[Path(r)] = lock[Path(r)]
              /\ mode = "os" => (pc[r] \in Inside <=> pc'[r] \in Inside)
           \/ lock'[Path(r)] = lock[Path(r)] \ {r} /\ (mode = "os" => pc'[r] \notin Inside)
           \/ /\ lock[Path(r)] = {} /\ lock'[Path(r)] = {r}
              /\ mode = "os" /\ pc'[r] \in Inside
    PROVE  LockInv'
<1>1. \A q \in Requests : Path(q)' = Path(q) /\ Path(q) \in Paths
  BY FormTypes DEF Path
<1>2. \A p \in Paths : lock[p] \subseteq Requests
  BY DEF TypeOK
<1>3. ASSUME NEW p \in Paths, NEW q \in lock'[p]
      PROVE  mode = "os" /\ Path(q) = p /\ pc'[q] \in Inside
  <2>1. CASE p = Path(r)
    BY <1>1, <1>2, <1>3, <2>1 DEF LockInv
  <2>2. CASE p # Path(r)
    BY <1>1, <1>2, <1>3, <2>2 DEF LockInv
  <2> QED
    BY <2>1, <2>2
<1>4. ASSUME NEW q \in Requests, mode = "os", pc'[q] \in Inside
      PROVE  q \in lock'[Path(q)]
  <2>1. CASE q = r
    BY <1>1, <1>4, <2>1 DEF LockInv
  <2>2. CASE q # r
    BY <1>1, <1>4, <2>2 DEF LockInv
  <2> QED
    BY <2>1, <2>2
<1>5. ASSUME NEW p \in Paths, NEW q \in lock'[p], NEW s \in lock'[p] PROVE q = s
  BY <1>1, <1>5 DEF LockInv
<1>6. \A p \in Paths : lock'[p] \subseteq Requests
  BY <1>1, <1>2
<1>7. \A p \in Paths : \A q \in lock'[p] :
        mode' = "os" /\ Path(q)' = p /\ pc'[q] \in Inside
  BY <1>1, <1>3, <1>6
<1>8. \A q \in Requests : mode' = "os" /\ pc'[q] \in Inside => q \in lock'[Path(q)']
  BY <1>1, <1>4
<1> QED
  BY <1>5, <1>7, <1>8 DEF LockInv

(* Every step keeps LockInv: the deferred Unlock runs on every way out of  *)
(* the loops, and no way leads into them but through the lock.             *)
LEMMA LockStep == TypeOK /\ VoteInv /\ LockInv /\ [Next]_vars => LockInv'
<1> SUFFICES ASSUME TypeOK, VoteInv, LockInv, [Next]_vars PROVE LockInv'
  OBVIOUS
<1>1. ASSUME NEW r \in Requests
      PROVE  Path(r) \in Paths /\ lock[Path(r)] \subseteq Requests
  BY FormTypes DEF TypeOK
<1>2. ASSUME NEW r \in Requests, NEW how, Goto(r, how)
      PROVE  pc'[r] = how /\ \A q \in Requests \ {r} : pc'[q] = pc[q]
  BY <1>2 DEF TypeOK, Goto
<1>3. ASSUME NEW r \in Requests, NEW how, Return(r, how)
      PROVE  /\ pc'[r] = how /\ \A q \in Requests \ {r} : pc'[q] = pc[q]
             /\ lock'[Path(r)] = lock[Path(r)] \ {r}
             /\ \A p \in Paths : p # Path(r) => lock'[p] = lock[p]
  BY <1>1, <1>2, <1>3 DEF TypeOK, Return
<1>4. ASSUME NEW r \in Requests, mode' = mode, form' = form,
             NEW how, Return(r, how), mode = "os" => how \notin Inside
      PROVE  LockInv'
  BY <1>3, <1>4, LockOne
<1>5. ASSUME NEW r \in Requests, mode' = mode, form' = form, lock' = lock,
             NEW how, Goto(r, how),
             mode = "os" => (pc[r] \in Inside <=> how \in Inside)
      PROVE  LockInv'
  BY <1>2, <1>5, LockOne
<1>10. ASSUME NEW r \in Requests, Post(r) PROVE LockInv'
  BY <1>10, <1>5 DEF Post, Inside
<1>11. ASSUME NEW r \in Requests, PostTurnedAway(r) PROVE LockInv'
  BY <1>11, <1>4 DEF PostTurnedAway, Inside
<1>12. ASSUME NEW r \in Requests, FindUser(r) PROVE LockInv'
  <2>1. \E how \in {"gone", "refused", "info"} : Return(r, how)
    BY <1>12 DEF FindUser
  <2> QED
    BY <1>12, <1>4, <2>1 DEF FindUser, Inside
<1>13. ASSUME NEW r \in Requests, FindInfo(r) PROVE LockInv'
  <2>1. \E how \in {"lock", "refused"} : Goto(r, how)
    BY <1>13 DEF FindInfo
  <2> QED
    BY <1>13, <1>5, <2>1 DEF FindInfo, Inside
<1>14. ASSUME NEW r \in Requests, LockInfo(r) PROVE LockInv'
  <2>1. CASE Opt(r) >= NumOptions
    BY <1>14, <1>4, <2>1 DEF LockInfo, Inside
  <2>2. CASE ~(Opt(r) >= NumOptions) /\ mode = "os"
    <3>1. Goto(r, "record") /\ lock' = [lock EXCEPT ![Path(r)] = @ \cup {r}]
      BY <1>14, <2>2 DEF LockInfo
    <3>2. lock'[Path(r)] = {r} /\ \A p \in Paths : p # Path(r) => lock'[p] = lock[p]
      BY <1>1, <1>14, <3>1 DEF LockInfo, TypeOK
    <3> QED
      BY <1>2, <1>14, <2>2, <3>1, <3>2, LockOne DEF LockInfo, Inside
  <2>3. CASE ~(Opt(r) >= NumOptions) /\ mode # "os"
    BY <1>5, <1>14, <2>3 DEF LockInfo
  <2> QED
    BY <2>1, <2>2, <2>3
<1>15. ASSUME NEW r \in Requests, ReadVotedPath(r) PROVE LockInv'
  BY <1>15, <1>5 DEF ReadVotedPath, Inside
<1>16. ASSUME NEW r \in Requests, WriteVotedPath(r) PROVE LockInv'
  BY <1>16, <1>5 DEF WriteVotedPath, Inside
<1>17. ASSUME NEW r \in Requests, Updata(r) PROVE LockInv'
  <2>1. mode # "os" /\ \E how \in {"count", "refind"} : Goto(r, how)
    BY <1>17 DEF Updata
  <2> QED
    BY <1>17, <1>5, <2>1 DEF Updata
<1>18. ASSUME NEW r \in Requests, FindUserAgain(r) PROVE LockInv'
  <2>1. \E how \in {"panic", "refused", "record"} : Return(r, how)
    BY <1>18 DEF FindUserAgain
  <2>2. mode # "os"
    BY <1>18 DEF FindUserAgain, VoteInv, PcFitsMode
  <2> QED
    BY <1>18, <1>4, <2>1, <2>2 DEF FindUserAgain
<1>19. ASSUME NEW r \in Requests, IncOption(r) PROVE LockInv'
  <2>1. CASE IncOptionHits(r)
    BY <1>19, <1>4, <2>1 DEF IncOption, Inside
  <2>2. CASE ~IncOptionHits(r)
    BY <1>19, <1>5, <2>2 DEF IncOption, IncOptionHits
  <2> QED
    BY <2>1, <2>2
<1>20. ASSUME NEW r \in Requests, IndexPanic(r) PROVE LockInv'
  BY <1>20, <1>4 DEF IndexPanic, Inside
<1>21. ASSUME NEW r \in Requests, FindInfoAgain(r) PROVE LockInv'
  <2>1. mode # "os"
    BY <1>21 DEF FindInfoAgain, VoteInv, PcFitsMode
  <2> QED
    BY <1>21, <1>5, <2>1 DEF FindInfoAgain
<1>22. ASSUME NEW r \in Requests, UpdataConflict(r) PROVE LockInv'
  BY <1>22, <1>5 DEF UpdataConflict
<1>23. ASSUME NEW r \in Requests, UpdataReplyLost(r) PROVE LockInv'
  BY <1>23, <1>4 DEF UpdataReplyLost
<1>24. ASSUME NEW r \in Requests, IncOptionReplyLost(r) PROVE LockInv'
  BY <1>24, <1>4 DEF IncOptionReplyLost
<1>25. ASSUME NEW r \in Requests, CallFailed(r) PROVE LockInv'
  BY <1>25, <1>4 DEF CallFailed, Inside
<1>26. CASE Crash
  <2>1. mode # "os" /\ mode' = mode /\ lock' = [p \in Paths |-> {}]
    BY <1>26 DEF Crash
  <2> QED
    BY <2>1 DEF LockInv
<1>27. CASE \/ \E n \in Names : DeleteAccount(n) \/ IncFieldRevives(n) \/ NewUser(n)
            \/ \E p \in Paths :
                 CreateVote(p) \/ StoreReplyLost(p) \/ StoreAgain(p) \/ EndPasses(p)
            \/ UNCHANGED vars
  <2>1. UNCHANGED <<mode, lock, pc, form>>
    BY <1>27 DEF DeleteAccount, IncFieldRevives, NewUser, CreateVote, StoreReplyLost,
       StoreAgain, EndPasses, vars
  <2> QED
    BY <2>1 DEF LockInv, Path
<1> QED
  BY <1>10, <1>11, <1>12, <1>13, <1>14, <1>15, <1>16, <1>17, <1>18, <1>19,
     <1>20, <1>21, <1>22, <1>23, <1>24, <1>25, <1>26, <1>27
     DEF Next, Handle, DatabaseFault

(* The lock is held by one request at most, and only in its loops: the     *)
(* deferred Unlock of vote.go:306 runs however the handler ends.           *)
THEOREM LockInvHolds == Spec => []LockInv
<1>1. Init => LockInv
  BY DEF Init, LockInv, Inside
<1> QED
  BY <1>1, LockStep, TypeCorrect, VoteInvHolds, PTL DEF Spec

(* A request that finds the lock taken waits for one request, which is in  *)
(* its loops and so waits for nobody: there is no circle of waiters.       *)
WaitsForWorker ==
    \A r \in Requests :
        pc[r] = "lock" /\ lock[Path(r)] # {} =>
            \E s \in Requests : s # r /\ lock[Path(r)] = {s} /\ pc[s] \in Inside

(* Nobody waits for a request that waits (vote.go:305).                    *)
THEOREM WaitsForWorkerHolds == Spec => []WaitsForWorker
<1>1. TypeOK /\ LockInv => WaitsForWorker
  <2> SUFFICES ASSUME TypeOK, LockInv, NEW r \in Requests, pc[r] = "lock",
                      NEW s \in lock[Path(r)]
               PROVE  s \in Requests /\ s # r /\ lock[Path(r)] = {s} /\ pc[s] \in Inside
    BY DEF WaitsForWorker
  <2>1. Path(r) \in Paths /\ s \in Requests
    BY FormTypes DEF TypeOK
  <2>2. pc[s] \in Inside /\ \A q \in lock[Path(r)] : q = s
    BY <2>1 DEF LockInv
  <2> QED
    BY <2>1, <2>2 DEF Inside
<1> QED
  BY <1>1, TypeCorrect, LockInvHolds, PTL

-----------------------------------------------------------------------------
(* The husk of an account.                                                 *)

(* Only redis has husks, and none of an account that exists.               *)
HuskInv ==
    /\ \A n \in Names : husk[n] => mode = "redis" /\ ~live[n]
    /\ \A r \in Requests : nameless[r] => mode = "redis"

(* Every step keeps HuskInv.                                               *)
LEMMA HuskStep == TypeOK /\ HuskInv /\ [Next]_vars => HuskInv'
<1> SUFFICES ASSUME TypeOK, HuskInv, [Next]_vars PROVE HuskInv'
  OBVIOUS
<1>0. mode' = mode
  BY ModeKept
<1>1. ASSUME NEW r \in Requests, FindUser(r) \/ FindUserAgain(r) PROVE HuskInv'
  <2>1. UNCHANGED <<husk, live>> /\ (HoldAccount(r) \/ HoldHusk(r) \/ HoldNil(r))
    BY <1>1 DEF FindUser, FindUserAgain, store
  <2>2. Name(r) \in Names
    BY FormTypes
  <2>3. \A q \in Requests : nameless'[q] => nameless[q] \/ husk[Name(r)]
    BY <2>1 DEF HoldAccount, HoldHusk, HoldNil, TypeOK
  <2> QED
    BY <1>0, <2>1, <2>2, <2>3 DEF HuskInv
<1>2. CASE \E n \in Names : DeleteAccount(n) \/ IncFieldRevives(n) \/ NewUser(n)
  <2>1. nameless' = nameless
    BY <1>2 DEF DeleteAccount, IncFieldRevives, NewUser, locals
  <2>2. \A n \in Names : husk'[n] => mode = "redis" /\ ~live'[n]
    BY <1>2 DEF DeleteAccount, IncFieldRevives, NewUser, HuskInv, TypeOK
  <2> QED
    BY <1>0, <2>1, <2>2 DEF HuskInv
<1>3. ASSUME NEW r \in Requests, Post(r) \/ PostTurnedAway(r) PROVE HuskInv'
  BY <1>0, <1>3 DEF HuskInv, Post, PostTurnedAway, store, locals
<1>4. ASSUME NEW r \in Requests, Handle(r), ~FindUser(r), ~FindUserAgain(r)
      PROVE  HuskInv'
  <2>1. UNCHANGED <<husk, live, nameless>>
    BY <1>4 DEF Handle, FindInfo, LockInfo, ReadVotedPath, WriteVotedPath, Updata,
       IncOption, IndexPanic, FindInfoAgain, store, locals
  <2> QED
    BY <1>0, <2>1 DEF HuskInv
<1>5. ASSUME NEW r \in Requests, DatabaseFault(r) PROVE HuskInv'
  <2>1. UNCHANGED <<husk, live, nameless>>
    BY <1>5 DEF DatabaseFault, UpdataConflict, UpdataReplyLost, IncOptionReplyLost,
       CallFailed, store, locals
  <2> QED
    BY <1>0, <2>1 DEF HuskInv
<1>6. CASE \/ \E p \in Paths :
              CreateVote(p) \/ StoreReplyLost(p) \/ StoreAgain(p) \/ EndPasses(p)
           \/ Crash
           \/ UNCHANGED vars
  <2>1. UNCHANGED <<husk, live, nameless>>
    BY <1>6 DEF CreateVote, StoreReplyLost, StoreAgain, EndPasses, Crash, vars, locals
  <2> QED
    BY <1>0, <2>1 DEF HuskInv
<1> QED
  BY <1>1, <1>2, <1>3, <1>4, <1>5, <1>6 DEF Next

(* A husk is redis' alone, and is never there beside its account: no       *)
(* registration takes a name whose key exists (redis.go:111, 370).         *)
THEOREM HuskInvHolds == Spec => []HuskInv
<1>1. Init => HuskInv
  BY DEF Init, HuskInv
<1> QED
  BY <1>1, HuskStep, TypeCorrect, PTL DEF Spec

(* The request is in the loop of vote.go:313 with a user without a name.   *)
OverHusk(r) == mode = "redis" /\ nameless[r] /\ pc[r] \in {"record", "refind"}

-----------------------------------------------------------------------------
(* How far a request is from its end.                                      *)

(* The other requests that may still record a poll, and those that may     *)
(* still change a tally.                                                   *)
Unended(r) == {s \in Requests \ {r} : pc[s] \notin Ended}
Unlanded(r) == {s \in Unended(r) : ~Landed(s)}

(* What can still come between request r and the row or the tally it has   *)
(* read: the other requests, the faults, and the account that goes or is   *)
(* registered again.                                                       *)
Budget(r) ==
    Cardinality(Unlanded(r)) + Cardinality(Unended(r)) + faults
        + 2 * (MaxGen - gen[Name(r)]) + (IF live[Name(r)] THEN 1 ELSE 0)

(* No fewer than the calls r makes before its last, if nothing comes       *)
(* between.                                                                *)
Stage(r) ==
    CASE pc[r] = "user" -> 8
      [] pc[r] = "info" -> 7
      [] pc[r] = "lock" -> 6
      [] pc[r] = "record" -> IF nameless[r] THEN 4
                             ELSE IF mode # "os" /\ UpdataHits(r) THEN 3 ELSE 5
      [] pc[r] = "write" -> 4
      [] pc[r] = "refind" -> 4
      [] pc[r] = "count" -> IF IncOptionHits(r) THEN 0 ELSE 2
      [] pc[r] = "recount" -> 1
      [] OTHER -> 0

(* What comes between costs a request at most two calls more.              *)
Rank(r) == 3 * Budget(r) + Stage(r)

(* The numbers a rank is made of.                                          *)
LEMMA CounterTypes ==
    ASSUME TypeOK, NEW r \in Requests
    PROVE  /\ faults \in Nat /\ MaxFaults \in Nat /\ faults <= MaxFaults
           /\ gen[Name(r)] \in Nat /\ MaxGen \in Nat /\ gen[Name(r)] <= MaxGen
<1>1. faults \in 0 .. MaxFaults /\ MaxFaults \in Nat
  BY FaultsAssumption DEF TypeOK
<1>2. gen[Name(r)] \in 1 .. MaxGen /\ MaxGen \in Nat
  BY FormTypes, MaxGenAssumption
<1> QED
  BY <1>1, <1>2

(* Both counts are finite, and the rank is a number of bounded size.       *)
LEMMA RankTypes ==
    ASSUME TypeOK, NEW r \in Requests
    PROVE  /\ IsFiniteSet(Unended(r)) /\ Cardinality(Unended(r)) \in Nat
           /\ IsFiniteSet(Unlanded(r)) /\ Cardinality(Unlanded(r)) \in Nat
           /\ Budget(r) \in Nat /\ Stage(r) \in 0 .. 8 /\ Rank(r) \in Nat
<1>1. /\ IsFiniteSet(Unended(r)) /\ Cardinality(Unended(r)) \in Nat
      /\ IsFiniteSet(Unlanded(r)) /\ Cardinality(Unlanded(r)) \in Nat
  <2>1. Unended(r) \in SUBSET Requests /\ Unlanded(r) \in SUBSET Requests
    BY DEF Unended, Unlanded
  <2> QED
    BY <2>1, RequestsAssumption, FS_Subset, FS_CardinalityType
<1>2. /\ faults \in Nat /\ gen[Name(r)] \in Nat /\ MaxGen \in Nat
      /\ MaxGen - gen[Name(r)] \in Nat
  BY CounterTypes
<1>3. Budget(r) \in Nat
  BY <1>1, <1>2 DEF Budget
<1>4. Stage(r) \in 0 .. 8
  BY DEF Stage
<1> QED
  BY <1>1, <1>3, <1>4 DEF Rank

(* The rank is a number in the next state, too.                            *)
LEMMA RankTypesNext ==
    TypeOK' => \A r \in Requests :
        Budget(r)' \in Nat /\ Stage(r)' \in 0 .. 8 /\ Rank(r)' \in Nat
<1> DEFINE Typed == \A r \in Requests :
        Budget(r) \in Nat /\ Stage(r) \in 0 .. 8 /\ Rank(r) \in Nat
<1>1. TypeOK => Typed
  BY RankTypes
<1> HIDE DEF Typed
<1>2. TypeOK' => Typed'
  BY <1>1, PTL
<1> QED
  BY <1>2 DEF Typed

(* Fewer elements when some go, strictly fewer when one does.              *)
LEMMA FewerLeft ==
    ASSUME NEW S, IsFiniteSet(S), NEW T \in SUBSET S
    PROVE  /\ Cardinality(T) <= Cardinality(S)
           /\ T # S => Cardinality(T) < Cardinality(S)
<1>1. IsFiniteSet(T) /\ Cardinality(T) <= Cardinality(S)
      /\ (Cardinality(S) = Cardinality(T) => S = T)
  BY FS_Subset
<1>2. Cardinality(T) \in Nat /\ Cardinality(S) \in Nat
  BY <1>1, FS_CardinalityType
<1> QED
  BY <1>1, <1>2

(* A step that a request or the database makes for request q.              *)
StepOf(q) == Post(q) \/ PostTurnedAway(q) \/ Handle(q) \/ DatabaseFault(q)

(* What a step of q that writes to a row or a tally uses up: a fault, the  *)
(* request, or the record it still had to make.                            *)
Spends(q) ==
    faults' = faults - 1 \/ pc'[q] \in Ended \/ (pc[q] = "record" /\ pc'[q] = "count")

(* The shape of every step of a request: it leaves the other requests and  *)
(* the accounts alone, never starts again, and writes to a row or a tally  *)
(* of a database only as Spends says.                                      *)
LEMMA StepShape ==
    ASSUME TypeOK, TypeOK', VoteInv, NEW q \in Requests, StepOf(q)
    PROVE  /\ OnlyRequest(q) /\ UNCHANGED <<live, gen>>
           /\ \A r \in Requests \ {q} : copy'[r] = copy[r] /\ nameless'[r] = nameless[r]
           /\ pc[q] \notin Ended /\ counted'[q] >= counted[q]
           /\ pc[q] \in {"count", "recount"} => pc'[q] \in {"count", "recount"} \cup Ended
           /\ faults' = faults \/ faults' = faults - 1
           /\ \/ UNCHANGED <<option, votedPath>>
              \/ mode = "os" /\ UNCHANGED option
              \/ Spends(q)
<1> DEFINE Shape ==
           /\ OnlyRequest(q) /\ UNCHANGED <<live, gen>>
           /\ \A r \in Requests \ {q} : copy'[r] = copy[r] /\ nameless'[r] = nameless[r]
           /\ pc[q] \notin Ended /\ counted'[q] >= counted[q]
           /\ pc[q] \in {"count", "recount"} => pc'[q] \in {"count", "recount"} \cup Ended
           /\ faults' = faults \/ faults' = faults - 1
           /\ \/ UNCHANGED <<option, votedPath>>
              \/ mode = "os" /\ UNCHANGED option
              \/ Spends(q)
<1>0. /\ counted \in [Requests -> Nat] /\ faults \in Nat
      /\ DOMAIN pc = Requests /\ DOMAIN acct = Requests /\ DOMAIN seen = Requests
      /\ DOMAIN copy = Requests /\ DOMAIN nameless = Requests
  BY FaultsAssumption DEF TypeOK
<1>1. ASSUME NEW how, Goto(q, how) \/ Return(q, how)
      PROVE  pc'[q] = how /\ \A r \in Requests \ {q} : pc'[r] = pc[r]
  BY <1>0, <1>1 DEF Goto, Return
<1>2. ASSUME UNCHANGED <<mode, store, faults, form, counted>>,
             \E how \in {"user", "info", "lock", "record", "write", "refind", "gone",
                         "count", "refused", "panic"} : Goto(q, how) \/ Return(q, how),
             \A r \in Requests \ {q} :
                /\ acct'[r] = acct[r] /\ seen'[r] = seen[r]
                /\ copy'[r] = copy[r] /\ nameless'[r] = nameless[r],
             pc[q] \notin Ended,
             pc[q] \in {"count", "recount"} => pc'[q] \in {"count", "panic"}
      PROVE  Shape
  <2>1. \A r \in Requests \ {q} : pc'[r] = pc[r]
    BY <1>1, <1>2
  <2> QED
    BY <1>0, <1>2, <2>1 DEF OnlyRequest, store, Ended
<1>10. CASE Post(q) \/ PostTurnedAway(q)
  BY <1>2, <1>10 DEF Post, PostTurnedAway, locals, Ended
<1>11. CASE FindUser(q) \/ FindUserAgain(q)
  <2>1. HoldAccount(q) \/ HoldHusk(q) \/ HoldNil(q)
    BY <1>11 DEF FindUser, FindUserAgain
  <2>2. \A r \in Requests \ {q} :
          /\ acct'[r] = acct[r] /\ seen'[r] = seen[r] /\ nameless'[r] = nameless[r]
    BY <1>0, <2>1 DEF HoldAccount, HoldHusk, HoldNil
  <2> QED
    BY <1>2, <1>11, <2>2 DEF FindUser, FindUserAgain, Ended
<1>12. CASE FindInfo(q) \/ LockInfo(q) \/ ReadVotedPath(q)
  BY <1>0, <1>2, <1>12 DEF FindInfo, LockInfo, ReadVotedPath, CopyOptions, Ended, locals
<1>13. CASE IndexPanic(q) \/ FindInfoAgain(q)
  BY <1>0, <1>1, <1>2, <1>13 DEF IndexPanic, FindInfoAgain, CopyOptions, Ended, locals
<1>14. CASE WriteVotedPath(q)
  <2>1. mode = "os"
    BY <1>14 DEF WriteVotedPath, VoteInv, PcFitsMode
  <2> QED
    BY <1>0, <1>1, <1>14, <2>1 DEF WriteVotedPath, OnlyRequest, locals, Ended
<1>15. CASE Updata(q)
  <2>1. CASE UpdataHits(q)
    BY <1>0, <1>1, <1>15, <2>1 DEF Updata, OnlyRequest, Spends, Ended
  <2>2. CASE ~UpdataHits(q)
    BY <1>0, <1>2, <1>15, <2>2 DEF Updata, store, Ended
  <2> QED
    BY <2>1, <2>2
<1>16. CASE IncOption(q)
  <2>1. CASE IncOptionHits(q)
    <3>1. pc'[q] = "ok" /\ \A r \in Requests \ {q} : pc'[r] = pc[r]
      BY <1>1, <1>16, <2>1 DEF IncOption
    <3>2. counted'[q] >= counted[q]
          /\ \A r \in Requests \ {q} : counted'[r] = counted[r]
      BY <1>0, <1>16, <2>1 DEF IncOption, CountVote
    <3> QED
      BY <1>0, <1>16, <3>1, <3>2 DEF IncOption, OnlyRequest, Spends, Ended, locals
  <2>2. CASE ~IncOptionHits(q)
    BY <1>0, <1>1, <1>16, <2>2 DEF IncOption, OnlyRequest, locals, Ended
  <2> QED
    BY <2>1, <2>2
<1>17. CASE UpdataConflict(q)
  BY <1>0, <1>1, <1>17 DEF UpdataConflict, Fault, OnlyRequest, Spends, store, locals, Ended
<1>18. CASE UpdataReplyLost(q)
  <2>1. \E how \in {"refind", "panic"} : Return(q, how)
    BY <1>18 DEF UpdataReplyLost
  <2> QED
    BY <1>0, <1>1, <1>18, <2>1 DEF UpdataReplyLost, Fault, OnlyRequest, Spends, Ended
<1>19. CASE IncOptionReplyLost(q)
  <2>1. pc'[q] \in {"count", "panic"} /\ \A r \in Requests \ {q} : pc'[r] = pc[r]
    BY <1>1, <1>19 DEF IncOptionReplyLost
  <2>2. counted'[q] >= counted[q] /\ \A r \in Requests \ {q} : counted'[r] = counted[r]
    BY <1>0, <1>19 DEF IncOptionReplyLost, CountVote
  <2> QED
    BY <1>0, <1>19, <2>1, <2>2 DEF IncOptionReplyLost, Fault, OnlyRequest, Spends, Ended, locals
<1>20. CASE CallFailed(q)
  BY <1>0, <1>1, <1>20 DEF CallFailed, Fault, OnlyRequest, Spends, store, locals, Ended
<1> QED
  BY <1>10, <1>11, <1>12, <1>13, <1>14, <1>15, <1>16, <1>17, <1>18, <1>19, <1>20
     DEF StepOf, Handle, DatabaseFault

(* A step of another request q never adds to what can come between, and    *)
(* takes from it what Spends says it uses up.                              *)
LEMMA OthersSpend ==
    ASSUME TypeOK, TypeOK', VoteInv, NEW r \in Requests, NEW q \in Requests,
           q # r, StepOf(q)
    PROVE  /\ Budget(r)' <= Budget(r)
           /\ Spends(q) => Budget(r)' < Budget(r)
<1>1. /\ OnlyRequest(q) /\ UNCHANGED <<live, gen>>
      /\ pc[q] \notin Ended /\ counted'[q] >= counted[q]
      /\ pc[q] \in {"count", "recount"} => pc'[q] \in {"count", "recount"} \cup Ended
      /\ faults' = faults \/ faults' = faults - 1
  BY StepShape
<1>2. counted[q] \in Nat /\ counted'[q] \in Nat /\ faults \in Nat /\ faults' \in Nat
  BY FaultsAssumption DEF TypeOK
<1>3. Unended(r)' \subseteq Unended(r)
  BY <1>1 DEF Unended, OnlyRequest
<1>4. Landed(q) => Landed(q)' \/ pc'[q] \in Ended
  BY <1>1, <1>2 DEF Landed
<1>5. Unlanded(r)' \subseteq Unlanded(r)
  <2>1. SUFFICES ASSUME NEW s \in Unended(r), s \in Unended(r)', ~Landed(s)'
                 PROVE  ~Landed(s)
    BY <1>3 DEF Unlanded
  <2>2. CASE s = q
    BY <1>4, <2>1, <2>2 DEF Unended
  <2>3. CASE s # q
    BY <1>1, <2>1, <2>3 DEF Unended, OnlyRequest, Landed
  <2> QED
    BY <2>2, <2>3
<1>6. /\ IsFiniteSet(Unended(r)) /\ IsFiniteSet(Unlanded(r))
      /\ Cardinality(Unended(r)) \in Nat /\ Cardinality(Unended(r)') \in Nat
      /\ Cardinality(Unlanded(r)) \in Nat /\ Cardinality(Unlanded(r)') \in Nat
  <2>1. /\ IsFiniteSet(Unended(r)) /\ IsFiniteSet(Unlanded(r))
        /\ Cardinality(Unended(r)) \in Nat /\ Cardinality(Unlanded(r)) \in Nat
    BY RankTypes
  <2>2. IsFiniteSet(Unended(r)') /\ IsFiniteSet(Unlanded(r)')
    BY <1>3, <1>5, <2>1, FS_Subset
  <2> QED
    BY <2>1, <2>2, FS_CardinalityType
<1>7. /\ Cardinality(Unended(r)') <= Cardinality(Unended(r))
      /\ Unended(r)' # Unended(r) => Cardinality(Unended(r)') < Cardinality(Unended(r))
  BY <1>3, <1>6, FewerLeft
<1>8. /\ Cardinality(Unlanded(r)') <= Cardinality(Unlanded(r))
      /\ Unlanded(r)' # Unlanded(r) => Cardinality(Unlanded(r)') < Cardinality(Unlanded(r))
  BY <1>5, <1>6, FewerLeft
<1>9. Spends(q) => \/ faults' = faults - 1 \/ Unended(r)' # Unended(r)
                   \/ Unlanded(r)' # Unlanded(r)
  <2>1. CASE pc'[q] \in Ended
    BY <1>1, <2>1 DEF Unended
  <2>2. CASE pc[q] = "record" /\ pc'[q] = "count"
    <3>1. ~Landed(q)
      BY <2>2, <1>2 DEF VoteInv, CountsLast, Landed, Ended
    <3>2. q \in Unlanded(r)
      BY <1>1, <3>1 DEF Unlanded, Unended
    <3>3. Landed(q)'
      BY <2>2 DEF Landed
    <3> QED
      BY <3>2, <3>3 DEF Unlanded
  <2> QED
    BY <2>1, <2>2 DEF Spends
<1>10. gen'[Name(r)'] = gen[Name(r)] /\ live'[Name(r)'] = live[Name(r)]
  BY <1>1 DEF OnlyRequest, Name
<1> DEFINE account ==
        2 * (MaxGen - gen[Name(r)]) + (IF live[Name(r)] THEN 1 ELSE 0)
<1>11. account \in Int
  BY FormTypes, MaxGenAssumption
<1>12. Budget(r) = Cardinality(Unlanded(r)) + Cardinality(Unended(r)) + faults + account
  BY <1>6, CounterTypes DEF Budget
<1>13. Budget(r)' = Cardinality(Unlanded(r)') + Cardinality(Unended(r)') + faults' + account
  BY <1>2, <1>6, <1>10, CounterTypes DEF Budget
<1> HIDE DEF account
<1>14. Budget(r)' <= Budget(r)
  BY <1>1, <1>2, <1>6, <1>7, <1>8, <1>11, <1>12, <1>13
<1>15. ASSUME Spends(q) PROVE Budget(r)' < Budget(r)
  BY <1>1, <1>2, <1>6, <1>7, <1>8, <1>9, <1>11, <1>12, <1>13, <1>15
<1> QED
  BY <1>14, <1>15

(* What comes between may make a request do a record or a count over       *)
(* again, and nothing more.                                                *)
LEMMA StageWaits ==
    ASSUME TypeOK, TypeOK', NEW r \in Requests, mode' = mode, pc'[r] = pc[r],
           nameless'[r] = nameless[r]
    PROVE  /\ Stage(r)' <= Stage(r) + 2
           /\ UNCHANGED <<form, live, gen, votedPath, option>>
                /\ seen'[r] = seen[r] /\ copy'[r] = copy[r] => Stage(r)' = Stage(r)
           /\ mode = "os" /\ UNCHANGED option => Stage(r)' = Stage(r)
           /\ mode = "redis" /\ UNCHANGED <<form, live, gen, votedPath>>
                /\ seen'[r] = seen[r] => Stage(r)' = Stage(r)
  BY DEF Stage, UpdataHits, IncOptionHits, Row, Name, Path

(* A step of the request itself takes it nearer to its end, or is a fault, *)
(* or is made over a husk, and then leaves it where it was.                *)
LEMMA OwnStep ==
    ASSUME TypeOK, TypeOK', VoteInv, HuskInv, HuskInv', NEW r \in Requests, StepOf(r),
           pc[r] \in Running, pc'[r] \in Running
    PROVE  \/ faults' = faults /\ Stage(r)' < Stage(r)
           \/ faults' = faults - 1 /\ Stage(r)' <= Stage(r) + 2
           \/ faults' = faults /\ Stage(r)' = Stage(r) /\ OverHusk(r)'
<1>1. Stage(r) \in 0 .. 8 /\ Stage(r)' \in 0 .. 8
  BY RankTypes, RankTypesNext
<1>2. /\ DOMAIN pc = Requests /\ DOMAIN seen = Requests /\ DOMAIN copy = Requests
      /\ DOMAIN nameless = Requests
  BY DEF TypeOK
<1>3. ASSUME NEW how, Goto(r, how) \/ Return(r, how) PROVE pc'[r] = how
  BY <1>2, <1>3 DEF Goto, Return
<1>4. CASE Post(r) \/ PostTurnedAway(r) \/ IndexPanic(r) \/ CallFailed(r)
  BY <1>3, <1>4 DEF Post, PostTurnedAway, IndexPanic, CallFailed, Running
<1>5. CASE FindUser(r) \/ FindInfo(r) \/ LockInfo(r)
  BY <1>3, <1>5 DEF FindUser, FindInfo, LockInfo, Stage, Running
<1>6. CASE ReadVotedPath(r) \/ WriteVotedPath(r)
  <2>1. mode = "os" /\ mode' = mode /\ faults' = faults
    BY <1>6 DEF ReadVotedPath, WriteVotedPath, VoteInv, PcFitsMode
  <2>2. \/ pc[r] = "record" /\ pc'[r] = "write"
        \/ pc[r] = "write" /\ pc'[r] = "count"
    BY <1>3, <1>6 DEF ReadVotedPath, WriteVotedPath
  <2>3. ~nameless[r]
    BY <2>1 DEF HuskInv
  <2> QED
    BY <2>1, <2>2, <2>3 DEF Stage, IncOptionHits
<1>7. CASE Updata(r)
  <2>1. CASE UpdataHits(r)
    <3>1. pc[r] = "record" /\ mode # "os" /\ pc'[r] = "count" /\ faults' = faults
      BY <1>3, <1>7, <2>1 DEF Updata
    <3> QED
      BY <2>1, <3>1 DEF Stage, UpdataHits
  <2>2. CASE ~UpdataHits(r)
    <3>1. /\ pc[r] = "record" /\ pc'[r] = "refind" /\ faults' = faults
          /\ nameless' = nameless
      BY <1>3, <1>7, <2>2 DEF Updata
    <3> QED
      BY <2>2, <3>1 DEF Stage, HuskInv, OverHusk
  <2> QED
    BY <2>1, <2>2
<1>8. CASE FindUserAgain(r)
  <2>1. /\ pc[r] = "refind" /\ pc'[r] = "record"
        /\ HoldHusk(r) \/ HoldAccount(r)
        /\ UNCHANGED <<mode, store, faults, form>>
    BY <1>3, <1>8 DEF FindUserAgain, Running
  <2>2. mode # "os"
    BY <2>1 DEF VoteInv, PcFitsMode
  <2>3. CASE HoldAccount(r)
    <3>1. /\ live[Name(r)] /\ ~nameless'[r]
          /\ seen' = [seen EXCEPT ![r] = Row(r)]
      BY <1>2, <2>3 DEF HoldAccount
    <3>2. UpdataHits(r)'
      BY <1>2, <2>1, <3>1 DEF UpdataHits, Row, Name, store
    <3> QED
      BY <2>1, <2>2, <3>1, <3>2 DEF Stage
  <2>4. CASE HoldHusk(r)
    <3>1. nameless'[r]
      BY <1>2, <2>4 DEF HoldHusk
    <3>2. mode' = "redis"
      BY <3>1 DEF HuskInv
    <3> QED
      BY <2>1, <3>1, <3>2 DEF Stage, OverHusk
  <2> QED
    BY <2>1, <2>3, <2>4
<1>9. CASE IncOption(r)
  <2>1. pc[r] = "count" /\ pc'[r] = "recount" /\ ~IncOptionHits(r) /\ faults' = faults
    BY <1>3, <1>9 DEF IncOption, Running
  <2> QED
    BY <2>1 DEF Stage
<1>10. CASE FindInfoAgain(r)
  <2>1. /\ pc[r] = "recount" /\ pc'[r] = "count" /\ CopyOptions(r)
        /\ UNCHANGED <<mode, store, faults, form>>
    BY <1>3, <1>10 DEF FindInfoAgain
  <2>2. IncOptionHits(r)'
    BY <1>2, <2>1 DEF IncOptionHits, CopyOptions, Path, store
  <2> QED
    BY <2>1, <2>2 DEF Stage
<1>11. CASE UpdataConflict(r) \/ UpdataReplyLost(r)
  <2>1. pc[r] = "record" /\ pc'[r] = "refind" /\ faults' = faults - 1
    BY <1>3, <1>11 DEF UpdataConflict, UpdataReplyLost, Fault, Running
  <2> QED
    BY <2>1 DEF Stage
<1>12. CASE IncOptionReplyLost(r)
  <2>1. pc[r] = "count" /\ pc'[r] = "count" /\ faults' = faults - 1
    BY <1>3, <1>12 DEF IncOptionReplyLost, Fault, Running
  <2> QED
    BY <2>1 DEF Stage
<1> QED
  BY <1>4, <1>5, <1>6, <1>7, <1>8, <1>9, <1>10, <1>11, <1>12
     DEF StepOf, Handle, DatabaseFault

(* A request's own step leaves what can come between as it is, but for a   *)
(* fault that it uses up.                                                  *)
LEMMA OwnBudget ==
    ASSUME TypeOK, TypeOK', VoteInv, NEW r \in Requests, StepOf(r)
    PROVE  Budget(r)' = Budget(r) - (faults - faults')
<1>1. OnlyRequest(r) /\ UNCHANGED <<live, gen>>
  BY StepShape
<1>2. Unended(r)' = Unended(r) /\ Unlanded(r)' = Unlanded(r) /\ Name(r)' = Name(r)
  BY <1>1 DEF OnlyRequest, Unended, Unlanded, Landed, Name
<1>3. /\ Cardinality(Unended(r)) \in Nat /\ Cardinality(Unlanded(r)) \in Nat
      /\ faults \in Nat /\ faults' \in Nat
      /\ gen[Name(r)] \in Nat /\ MaxGen \in Nat
  <2>1. faults' \in Nat
    BY FaultsAssumption DEF TypeOK
  <2> QED
    BY <2>1, RankTypes, CounterTypes
<1> QED
  BY <1>1, <1>2, <1>3 DEF Budget

(* An account that goes, or is registered again, is used up too.           *)
LEMMA AccountStep ==
    ASSUME TypeOK, TypeOK', NEW r \in Requests, NEW n \in Names,
           DeleteAccount(n) \/ IncFieldRevives(n) \/ NewUser(n)
    PROVE  Rank(r)' <= Rank(r)
<1>1. /\ UNCHANGED <<mode, option, votedPath, faults, pc, form, seen, nameless, copy,
                     counted>>
      /\ Name(r)' = Name(r) /\ Name(r) \in Names
  BY FormTypes DEF DeleteAccount, IncFieldRevives, NewUser, locals, Name
<1>2. Unended(r)' = Unended(r) /\ Unlanded(r)' = Unlanded(r)
  BY <1>1 DEF Unended, Unlanded, Landed
<1>3. /\ Cardinality(Unended(r)) \in Nat /\ Cardinality(Unlanded(r)) \in Nat
      /\ Budget(r) \in Nat /\ Stage(r) \in 0 .. 8
      /\ Budget(r)' \in Nat /\ Stage(r)' \in 0 .. 8
      /\ faults \in Nat /\ gen[Name(r)] \in Nat /\ MaxGen \in Nat
  BY RankTypes, RankTypesNext, CounterTypes
<1>domains. DOMAIN live = Names /\ DOMAIN gen = Names
  BY DEF TypeOK
<1>4. CASE n = Name(r) /\ live'[n] # live[n]
  <2>1. Stage(r)' <= Stage(r) + 2
    BY <1>1, StageWaits
  <2>2. Budget(r)' <= Budget(r) - 1
    <3>1. CASE DeleteAccount(n)
      <4>1. live[Name(r)] /\ ~live'[Name(r)] /\ gen' = gen
        BY <1>4, <1>domains, <3>1 DEF DeleteAccount, TypeOK
      <4> QED
        BY <1>1, <1>2, <1>3, <4>1 DEF Budget
    <3>2. CASE NewUser(n)
      <4>1. ~live[Name(r)] /\ live'[Name(r)] /\ gen'[Name(r)] = gen[Name(r)] + 1
        BY <1>4, <1>domains, <3>2 DEF NewUser
      <4> QED
        BY <1>1, <1>2, <1>3, <4>1 DEF Budget
    <3> QED
      BY <1>4, <3>1, <3>2 DEF IncFieldRevives
  <2> QED
    BY <1>3, <2>1, <2>2 DEF Rank
<1>5. CASE ~(n = Name(r) /\ live'[n] # live[n])
  <2>1. live'[Name(r)] = live[Name(r)] /\ gen'[Name(r)] = gen[Name(r)]
    BY <1>1, <1>5, <1>domains DEF DeleteAccount, IncFieldRevives, NewUser, TypeOK
  <2>2. Stage(r)' = Stage(r)
    BY <1>1, <2>1 DEF Stage, UpdataHits, IncOptionHits, Row, Name, Path
  <2>3. Budget(r)' = Budget(r)
    BY <1>1, <1>2, <2>1 DEF Budget
  <2> QED
    BY <1>3, <2>2, <2>3 DEF Rank
<1> QED
  BY <1>4, <1>5

(* A running request never moves away from its end, whoever takes a step,  *)
(* and each call of its own takes it nearer, unless it is made over a husk *)
(* (vote.go:313-324, redis.go:370).                                        *)
RankFalls ==
    \A r \in Requests :
        pc[r] \in Running /\ pc'[r] \in Running =>
            /\ Rank(r) \in Nat /\ Rank(r)' \in Nat
            /\ Rank(r)' <= Rank(r)
            /\ pc'[r] # pc[r] => Rank(r)' < Rank(r) \/ OverHusk(r)'

(* Every step of the program makes RankFalls true.                         *)
LEMMA RankStep ==
    TypeOK /\ TypeOK' /\ VoteInv /\ StoringInv /\ HuskInv /\ HuskInv' /\ [Next]_vars
        => RankFalls
<1> SUFFICES ASSUME TypeOK, TypeOK', VoteInv, StoringInv, HuskInv, HuskInv', [Next]_vars,
                    NEW r \in Requests, pc[r] \in Running, pc'[r] \in Running
             PROVE  /\ Rank(r)' <= Rank(r)
                    /\ pc'[r] # pc[r] => Rank(r)' < Rank(r) \/ OverHusk(r)'
  BY RankTypes, RankTypesNext DEF RankFalls
<1>0. /\ Budget(r) \in Nat /\ Budget(r)' \in Nat
      /\ Stage(r) \in 0 .. 8 /\ Stage(r)' \in 0 .. 8
      /\ faults \in Nat /\ faults' \in Nat
  <2>1. faults \in Nat /\ faults' \in Nat
    BY FaultsAssumption DEF TypeOK
  <2> QED
    BY <2>1, RankTypes, RankTypesNext
<1>1. CASE StepOf(r)
  <2>1. Budget(r)' = Budget(r) - (faults - faults')
    BY <1>1, OwnBudget
  <2>2. \/ faults' = faults /\ Stage(r)' < Stage(r)
        \/ faults' = faults - 1 /\ Stage(r)' <= Stage(r) + 2
        \/ faults' = faults /\ Stage(r)' = Stage(r) /\ OverHusk(r)'
    BY <1>1, OwnStep
  <2> QED
    BY <1>0, <2>1, <2>2 DEF Rank
<1>2. ASSUME NEW q \in Requests, q # r, StepOf(q)
      PROVE  pc'[r] = pc[r] /\ Rank(r)' <= Rank(r)
  <2>1. /\ mode' = mode /\ form' = form /\ UNCHANGED <<live, gen>>
        /\ pc'[r] = pc[r] /\ seen'[r] = seen[r] /\ copy'[r] = copy[r]
        /\ nameless'[r] = nameless[r]
        /\ \/ UNCHANGED <<option, votedPath>>
           \/ mode = "os" /\ UNCHANGED option
           \/ Spends(q)
    BY <1>2, StepShape DEF OnlyRequest
  <2>2. Budget(r)' <= Budget(r) /\ (Spends(q) => Budget(r)' < Budget(r))
    BY <1>2, OthersSpend
  <2>3. Stage(r)' = Stage(r) \/ (Spends(q) /\ Stage(r)' <= Stage(r) + 2)
    BY <2>1, StageWaits
  <2> QED
    BY <1>0, <2>1, <2>2, <2>3 DEF Rank
<1>3. CASE \E n \in Names : DeleteAccount(n) \/ IncFieldRevives(n) \/ NewUser(n)
  <2>1. pc' = pc
    BY <1>3 DEF DeleteAccount, IncFieldRevives, NewUser
  <2> QED
    BY <1>3, <2>1, AccountStep
<1>4. CASE (\E p \in Paths : CreateVote(p) \/ EndPasses(p)) \/ UNCHANGED vars
  <2>1. UNCHANGED <<mode, option, live, gen, votedPath, faults, pc, form, seen,
                    nameless, copy, counted>>
    BY <1>4 DEF CreateVote, EndPasses, locals, vars
  <2>2. Stage(r)' = Stage(r)
    BY <2>1, StageWaits
  <2>3. Budget(r)' = Budget(r)
    BY <2>1 DEF Budget, Unlanded, Unended, Landed, Name
  <2> QED
    BY <1>0, <2>1, <2>2, <2>3 DEF Rank
<1>5. CASE Crash
  BY <1>5 DEF Crash, TypeOK, Running
<1>6. CASE \E p \in Paths : StoreReplyLost(p) \/ StoreAgain(p)
  <2>1. /\ UNCHANGED <<mode, live, gen, votedPath, pc, form, seen, nameless, counted>>
        /\ faults' = faults \/ faults' = faults - 1
    BY <1>6 DEF StoreReplyLost, StoreAgain, Fault, locals
  <2>2. Stage(r)' = Stage(r)
    <3>1. mode = "redis" \/ UNCHANGED <<option, copy>>
      BY <1>6 DEF StoringInv, StoreReplyLost, StoreAgain, locals
    <3> QED
      BY <2>1, <3>1, StageWaits
  <2>3. Unended(r)' = Unended(r) /\ Unlanded(r)' = Unlanded(r) /\ Name(r)' = Name(r)
    BY <2>1 DEF Unlanded, Unended, Landed, Name
  <2>4. /\ Cardinality(Unended(r)) \in Nat /\ Cardinality(Unlanded(r)) \in Nat
        /\ gen[Name(r)] \in Nat /\ MaxGen \in Nat
    BY RankTypes, CounterTypes
  <2>5. Budget(r)' <= Budget(r)
    BY <1>0, <2>1, <2>3, <2>4 DEF Budget
  <2> QED
    BY <1>0, <2>1, <2>2, <2>5 DEF Rank
<1> QED
  BY <1>1, <1>2, <1>3, <1>4, <1>5, <1>6 DEF Next, StepOf

(* No call of a vote is made in vain but over a husk: a lost               *)
(* compare-and-swap, a record or a count that is made again, has used up a *)
(* fault, another request's vote or a registration, and there are only so  *)
(* many (vote.go:313, 327).                                                *)
THEOREM RankDescends == Spec => [][RankFalls]_vars
  BY RankStep, TypeCorrect, VoteInvHolds, StoringInvHolds, HuskInvHolds, PTL DEF Spec

(* A request makes at most this many calls before its last, those over a   *)
(* husk left out: of these there may be any number.                        *)
MostCalls == 3 * (2 * Cardinality(Requests) + MaxFaults + 2 * MaxGen + 1) + 8

RankBound == \A r \in Requests : Rank(r) \in 0 .. MostCalls

(* The measure starts, and stays, below a bound that the numbers of        *)
(* requests, faults and registrations give.                                *)
THEOREM RankBoundHolds == Spec => []RankBound
<1>1. ASSUME TypeOK, NEW r \in Requests PROVE Rank(r) \in 0 .. MostCalls
  <2>1. /\ Cardinality(Unended(r)) <= Cardinality(Requests)
        /\ Cardinality(Unlanded(r)) <= Cardinality(Requests)
        /\ Cardinality(Requests) \in Nat
    <3>1. Unended(r) \in SUBSET Requests /\ Unlanded(r) \in SUBSET Requests
      BY DEF Unended, Unlanded
    <3> QED
      BY <3>1, RequestsAssumption, FS_Subset, FS_CardinalityType
  <2>2. /\ Cardinality(Unended(r)) \in Nat /\ Cardinality(Unlanded(r)) \in Nat
        /\ Stage(r) \in 0 .. 8 /\ Rank(r) \in Nat
    BY <1>1, RankTypes
  <2>3. /\ faults \in 0 .. MaxFaults /\ MaxFaults \in Nat /\ MaxGen \in Nat
        /\ gen[Name(r)] \in 1 .. MaxGen
    BY <1>1, FormTypes, MaxGenAssumption, FaultsAssumption DEF TypeOK
  <2>4. Budget(r) <= 2 * Cardinality(Requests) + MaxFaults + 2 * MaxGen + 1
    BY <2>1, <2>2, <2>3 DEF Budget
  <2> QED
    BY <1>1, <2>1, <2>2, <2>3, <2>4, RankTypes DEF Rank, MostCalls
<1>2. TypeOK => RankBound
  BY <1>1 DEF RankBound
<1> QED
  BY <1>2, TypeCorrect, PTL
=============================================================================
