------------------------------- MODULE Polls -------------------------------
(***************************************************************************)
(* POST /createvote stores a poll under the next number and enters its     *)
(* path in the index of poll names; POST /vote/:num?comment= appends to    *)
(* its comments (ParserCreateVote and the comment half of the handler,     *)
(* internal/vote/vote.go).  Both end in the same loop: read a list, append *)
(* to the copy, and write it with Updata until Updata says yes.            *)
(*                                                                         *)
(* As in Voting, the database decides what the calls do.  Under os a list  *)
(* is shared and its lock is held for the append; redis and mysql compare  *)
(* the list with the caller's copy; mongodb pushes.                        *)
(***************************************************************************)
EXTENDS Integers, FiniteSets, Sequences

CONSTANTS
    Creators,    \* POSTs of /createvote, one goroutine each
    Commenters,  \* POSTs of a comment, one goroutine each
    Titles,      \* names of polls
    Targets,     \* the polls that are commented on
    NoPoll,      \* no creator
    Modes,       \* the values of db.mode under study
    Faults,      \* the kinds of database fault under study
    MaxFaults    \* bound: how many faults a behaviour has

Backends == {"os", "redis", "mysql-os-redis", "mongodb-os-redis"}
FaultKinds == {"IncFails", "StoreReplyLost", "AddKVFails", "UpdataConflict",
               "UpdataReplyLost", "CallFailed"}

ASSUME RequestsAssumption ==
    IsFiniteSet(Creators) /\ IsFiniteSet(Commenters) /\ Creators \cap Commenters = {}
ASSUME NoPollAssumption == NoPoll \notin Creators
ASSUME ModesAssumption == Modes \subseteq Backends
ASSUME FaultsAssumption == Faults \subseteq FaultKinds /\ MaxFaults \in Nat

CasModes == {"redis", "mysql-os-redis"}
Requests == Creators \cup Commenters

(* /vote/0 is what a failed Inc makes of a path.                           *)
Paths == 0 .. Cardinality(Creators)

VARIABLES
    mode,      \* db.mode
    poll,      \* path -> the creator whose poll is stored there
    last,      \* the number given last
    index,     \* title -> the paths of NameAndPath, empty if there is none
    comment,   \* path -> its comments, each named by who made it
    repeated,  \* history: the paths whose poll redis has stored again
    faults,    \* faults that may still happen
    pc,        \* request -> its next step, or how it ended
    title,     \* creator -> the name of its poll
    path,      \* request -> the path of its poll
    seen       \* request -> its copy of the list it appends to

vars == <<mode, poll, last, index, comment, repeated, faults, pc, title, path, seen>>
store == <<poll, last, index, comment, repeated>>

Running == {"store", "again", "name", "addkv", "append", "refind"}
Ended == {"first", "unlisted", "listed", "commented", "gone", "panic", "crashed"}

TypeOK ==
    /\ mode \in Modes
    /\ poll \in [Paths -> Creators \cup {NoPoll}]
    /\ last \in Paths
    /\ index \in [Titles -> Seq(Paths)]
    /\ comment \in [Paths -> Seq(Commenters)]
    /\ repeated \in SUBSET Paths
    /\ faults \in 0 .. MaxFaults
    /\ pc \in [Requests -> {"idle"} \cup Running \cup Ended]
    /\ title \in [Creators -> Titles]
    /\ path \in [Requests -> Paths]
    /\ seen \in [Requests -> Seq(Paths \cup Commenters)]

ASSUME TargetsAssumption == Targets \subseteq Paths

(* No poll exists yet; which form and which address each request has is    *)
(* open, and a creator's path is not known yet.                            *)
Init ==
    /\ mode \in Modes
    /\ poll = [p \in Paths |-> NoPoll]
    /\ last = 0
    /\ index = [t \in Titles |-> <<>>]
    /\ comment = [p \in Paths |-> <<>>]
    /\ repeated = {}
    /\ faults = MaxFaults
    /\ pc = [r \in Requests |-> "idle"]
    /\ title \in [Creators -> Titles]
    /\ \E f \in [Commenters -> Targets] :
        path = [r \in Requests |-> IF r \in Commenters THEN f[r] ELSE 0]
    /\ seen = [r \in Requests |-> <<>>]

-----------------------------------------------------------------------------
Goto(r, step) == pc' = [pc EXCEPT ![r] = step]
Copy(r, list) == seen' = [seen EXCEPT ![r] = list]

Fault(kind) ==
    /\ kind \in Faults
    /\ faults > 0
    /\ faults' = faults - 1

(* The list request r appends to, as it is stored.                         *)
List(r) == IF r \in Creators THEN index[title[r]] ELSE comment[path[r]]

(* Updata writes: redis and mysql only over the list the request has seen. *)
Hits(r) == mode \in CasModes => List(r) = seen[r]

(* Mutant: the stored list is replaced by the copy with the entry added. *)
MutantPush(r) ==
    IF r \in Creators
    THEN index' = [index EXCEPT ![title[r]] = Append(seen[r], path[r])]
         /\ UNCHANGED comment
    ELSE comment' = [comment EXCEPT ![path[r]] = Append(seen[r], r)]
         /\ UNCHANGED index

(* Mutant: the path is not what is appended. *)
MutantPushType(r) ==
    IF r \in Creators
    THEN index' = [index EXCEPT ![title[r]] = Append(@, title[r])] /\ UNCHANGED comment
    ELSE comment' = [comment EXCEPT ![path[r]] = Append(@, r)] /\ UNCHANGED index

Push(r) ==
    IF r \in Creators
    THEN index' = [index EXCEPT ![title[r]] = Append(@, path[r])] /\ UNCHANGED comment
    ELSE comment' = [comment EXCEPT ![path[r]] = Append(@, r)] /\ UNCHANGED index

Succeeded(r) == IF r \in Creators THEN "listed" ELSE "commented"

-----------------------------------------------------------------------------
(* ParserCreateVote, with the form in order.                               *)

(* Mutant: the number given is the last one, not the next. *)
MutantAdd(c) ==
    /\ pc[c] = "idle"
    /\ last' = last + 1
    /\ path' = [path EXCEPT ![c] = IF last = 0 THEN 1 ELSE last]
    /\ Goto(c, "store")
    /\ UNCHANGED <<mode, poll, index, comment, repeated, faults, title, seen>>

(* Mutant: add() is not called. *)
MutantNoStore(c) ==
    /\ pc[c] = "idle"
    /\ last' = last + 1
    /\ path' = [path EXCEPT ![c] = last + 1]
    /\ Goto(c, "name")
    /\ UNCHANGED <<mode, poll, index, comment, repeated, faults, title, seen>>

(* Db.Add gives the number: an atomic increment, or redis' INCR.           *)
Add(c) ==
    /\ pc[c] = "idle"
    /\ last' = last + 1
    /\ path' = [path EXCEPT ![c] = last + 1]
    /\ Goto(c, "store")
    /\ UNCHANGED <<mode, poll, index, comment, repeated, faults, title, seen>>

(* INCR fails, before or after the server has done it: the number is 0.    *)
IncFails(c) ==
    /\ Fault("IncFails")
    /\ mode # "os"
    /\ pc[c] = "idle"
    /\ last' \in {last, last + 1}
    /\ path' = [path EXCEPT ![c] = 0]
    /\ Goto(c, "store")
    /\ UNCHANGED <<mode, poll, index, comment, repeated, title, seen>>

(* redis' HSET stores the options and the name over a poll that is there,  *)
(* and an empty list of comments; mysql and mongodb turn it away.          *)
TurnedAway(c) ==
    mode \in {"mysql-os-redis", "mongodb-os-redis"} /\ poll[path[c]] # NoPoll

PutPoll(c) ==
    /\ poll' = [poll EXCEPT ![path[c]] = c]
    /\ comment' = [comment EXCEPT ![path[c]] = <<>>]
    /\ repeated' = IF pc[c] = "again" THEN repeated \cup {path[c]} ELSE repeated

(* add(): from here on the poll can be found and commented on.  Polls of   *)
(* one number are a panic in mysql and mongodb.                            *)
Store(c) ==
    /\ pc[c] \in {"store", "again"}
    /\ IF TurnedAway(c)
       THEN Goto(c, "panic") /\ UNCHANGED <<poll, comment, repeated>>
       ELSE PutPoll(c) /\ Goto(c, "name")
    /\ UNCHANGED <<mode, last, index, faults, title, path, seen>>

(* The poll is stored and the reply is lost: redis makes the same HSET     *)
(* again, nine times at most, mysql and mongodb panic.                     *)
StoreReplyLost(c) ==
    /\ Fault("StoreReplyLost")
    /\ mode # "os"
    /\ pc[c] \in {"store", "again"}
    /\ ~TurnedAway(c)
    /\ PutPoll(c)
    /\ Goto(c, "panic") \/ (mode = "redis" /\ Goto(c, "again"))
    /\ UNCHANGED <<mode, last, index, title, path, seen>>

(* NameDb.Find.                                                            *)
FindName(c) ==
    /\ pc[c] = "name"
    /\ Copy(c, index[title[c]])
    /\ Goto(c, IF index[title[c]] = <<>> THEN "addkv" ELSE "append")
    /\ UNCHANGED <<mode, store, faults, title, path>>

(* Mutant: the entry is stored over one that is there by now. *)
MutantAddKV(c) ==
    /\ pc[c] = "addkv"
    /\ index' = [index EXCEPT ![title[c]] = <<path[c]>>]
    /\ Goto(c, "first")
    /\ UNCHANGED <<mode, poll, last, comment, repeated, faults, title, path, seen>>

(* NameDb.AddKV: whether it stored the entry is not looked at.             *)
AddKV(c) ==
    /\ pc[c] = "addkv"
    /\ IF index[title[c]] = <<>>
       THEN /\ index' = [index EXCEPT ![title[c]] = <<path[c]>>]
            /\ Goto(c, "first")
       ELSE Goto(c, "unlisted") /\ UNCHANGED index
    /\ UNCHANGED <<mode, poll, last, comment, repeated, faults, title, path, seen>>

(* redis' AddKV fails nine times and returns false.                        *)
AddKVFails(c) ==
    /\ Fault("AddKVFails")
    /\ mode = "redis"
    /\ pc[c] = "addkv"
    /\ Goto(c, "unlisted")
    /\ UNCHANGED <<mode, store, title, path, seen>>

-----------------------------------------------------------------------------
(* The comment.                                                            *)

FindPoll(r) ==
    /\ pc[r] = "idle"
    /\ IF poll[path[r]] = NoPoll
       THEN Goto(r, "gone") /\ UNCHANGED seen
       ELSE Goto(r, "append") /\ Copy(r, comment[path[r]])
    /\ UNCHANGED <<mode, store, faults, title, path>>

-----------------------------------------------------------------------------
(* The loop both end in, on the path of a name and on a comment.           *)

(* Under os the lock makes the append one step; elsewhere Updata is one.   *)
Updata(r) ==
    /\ pc[r] = "append"
    /\ IF Hits(r)
       THEN Push(r) /\ Goto(r, Succeeded(r))
       ELSE Goto(r, "refind") /\ UNCHANGED <<index, comment>>
    /\ UNCHANGED <<mode, poll, last, repeated, faults, title, path, seen>>

(* Mutant: the loop goes on with the copy it had. *)
MutantFindAgain(r) ==
    /\ pc[r] = "refind"
    /\ Goto(r, "append")
    /\ UNCHANGED <<mode, store, faults, title, path, seen>>

FindAgain(r) ==
    /\ pc[r] = "refind"
    /\ Copy(r, List(r))
    /\ Goto(r, "append")
    /\ UNCHANGED <<mode, store, faults, title, path>>

(* redis: the key changed under WATCH in another field, or a call failed.  *)
UpdataConflict(r) ==
    /\ Fault("UpdataConflict")
    /\ mode = "redis"
    /\ pc[r] = "append"
    /\ Goto(r, "refind")
    /\ UNCHANGED <<mode, store, title, path, seen>>

(* The list is written and the reply is lost: redis returns false, mysql   *)
(* and mongodb panic.                                                      *)
UpdataReplyLost(r) ==
    /\ Fault("UpdataReplyLost")
    /\ mode # "os"
    /\ pc[r] = "append"
    /\ Hits(r)
    /\ Push(r)
    /\ Goto(r, IF mode = "redis" THEN "refind" ELSE "panic")
    /\ UNCHANGED <<mode, poll, last, repeated, title, path, seen>>

(* A call fails for good: the database layer panics.                       *)
CallFailed(r) ==
    /\ Fault("CallFailed")
    /\ mode # "os"
    /\ pc[r] \in Running
    /\ mode = "redis" => pc[r] \notin {"addkv", "append"}
    /\ Goto(r, "panic")
    /\ UNCHANGED <<mode, store, title, path, seen>>

(* The process dies; the database server lives.                            *)
Crash ==
    /\ mode # "os"
    /\ \E r \in Requests : pc[r] \in Running
    /\ pc' = [r \in Requests |-> IF pc[r] \in Running THEN "crashed" ELSE pc[r]]
    /\ UNCHANGED <<mode, store, faults, title, path, seen>>

-----------------------------------------------------------------------------
Create(c) == Store(c) \/ FindName(c) \/ AddKV(c)
Finish(r) == Updata(r) \/ FindAgain(r)
CreateFault(c) == IncFails(c) \/ StoreReplyLost(c) \/ AddKVFails(c)

Next ==
    \/ \E c \in Creators : Add(c) \/ Create(c) \/ CreateFault(c)
    \/ \E r \in Commenters : FindPoll(r)
    \/ \E r \in Requests :
        Finish(r) \/ UpdataConflict(r) \/ UpdataReplyLost(r) \/ CallFailed(r)
    \/ Crash

Spec == Init /\ [][Next]_vars

(* A goroutine that can go on does.                                        *)
FairSpec ==
    /\ Spec
    /\ \A c \in Creators : WF_vars(Create(c))
    /\ \A r \in Requests : WF_vars(Finish(r))

-----------------------------------------------------------------------------
(* Properties.                                                             *)

Times(s, x) == Cardinality({i \in 1 .. Len(s) : s[i] = x})

(* A poll that has a number is never stored over another (redis.go:402 has *)
(* none to give when it fails), and keeps its comments in their order      *)
(* (vote.go:118-121, 240-253).  Only the HSET that stored it can take them *)
(* away, when redis repeats it after a lost reply (redis.go:56), and no    *)
(* longer once its creator has gone on to enter the name.                  *)
PollsAreKept ==
    [][\A p \in Paths \ {0} : poll[p] # NoPoll =>
        /\ poll'[p] = poll[p]
        /\ \/ pc[poll[p]] = "again" /\ p \in repeated' /\ comment'[p] = <<>>
           \/ /\ Len(comment'[p]) >= Len(comment[p])
              /\ SubSeq(comment'[p], 1, Len(comment[p])) = comment[p]]_vars

(* What a search finds is a poll of that name (route.go:191-205,           *)
(* vote.go:118-130: the poll is stored before its name is), unless redis   *)
(* failed to give it a number.                                             *)
SearchFinds ==
    \A t \in Titles : \A i \in 1 .. Len(index[t]) :
        index[t][i] # 0 => poll[index[t][i]] \in {c \in Creators : title[c] = t}

(* "If two polls of the same name get here at the same time only one is    *)
(* recorded" (vote.go:125-126), and one is: the entry of a name is made    *)
(* once, who makes it is not overwritten, and nobody goes unrecorded       *)
(* unless somebody else did.                                               *)
OneIsRecorded ==
    \A c \in Creators :
        /\ pc[c] = "first" => index[title[c]][1] = path[c]
        /\ pc[c] = "unlisted" /\ faults = MaxFaults =>
            \E d \in Creators \ {c} :
                title[d] = title[c] /\ pc[d] = "first"

(* Every poll that is entered in an index that exists, and every comment,  *)
(* is there, whatever others append and whatever fails (vote.go:131-142,   *)
(* 238-253), and only once while nothing does: redis writes an entry again *)
(* when it loses the reply (redis.go:364).  The comments left out are      *)
(* those on the polls redis failed to give a number, which it stores over  *)
(* one another, and on polls it has stored again because it lost the reply *)
(* (redis.go:56).                                                          *)
AppendedOnce ==
    /\ \A r \in Requests :
        pc[r] \in {"listed", "commented"} =>
            LET entry == IF r \in Creators THEN path[r] ELSE r IN
            /\ r \in Creators \/ path[r] \notin repeated \cup {0} =>
                    Times(List(r), entry) >= 1
            /\ faults = MaxFaults => Times(List(r), entry) = 1
    /\ repeated # {} => mode = "redis" /\ faults < MaxFaults
                          /\ "StoreReplyLost" \in Faults

(* Every request ends: the loop on Updata (vote.go:132, 238) does not go   *)
(* on for ever.                                                            *)
RequestsEnd == \A r \in Requests : pc[r] \in Running ~> pc[r] \in Ended
=============================================================================
