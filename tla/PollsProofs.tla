----------------------------- MODULE PollsProofs -----------------------------
(***************************************************************************)
(* Theorems of module Polls, for every set of creators, commenters, names  *)
(* of polls and faults, and every database.                                *)
(***************************************************************************)
EXTENDS Polls, TLAPS, FiniteSetTheorems, SequenceTheorems

(* The creators that may have been given a number.                         *)
Begun == {c \in Creators : pc[c] # "idle"}

NumbersInv == last <= Cardinality(Begun)

(* A path with a number is one creator's, and a poll is stored there by    *)
(* that creator alone.                                                     *)
Stored == {"again", "name", "addkv", "append", "refind", "first", "unlisted", "listed"}

OwnPath ==
    /\ \A c \in Creators : pc[c] # "idle" =>
        /\ path[c] \in 0 .. last
        /\ faults = MaxFaults => path[c] # 0
    /\ \A c, d \in Creators :
        pc[c] # "idle" /\ pc[d] # "idle" /\ path[c] = path[d] /\ path[c] # 0 => c = d

OwnPoll ==
    /\ \A p \in Paths \ {0} : poll[p] # NoPoll =>
        path[poll[p]] = p /\ pc[poll[p]] \notin {"idle", "store"}
    /\ \A c \in Creators : pc[c] \in Stored /\ path[c] # 0 => poll[path[c]] = c

KeptInv == OwnPath /\ OwnPoll

(* Only redis stores a poll again, and only when it has lost a reply.      *)
ReplyLost == mode = "redis" /\ faults < MaxFaults /\ "StoreReplyLost" \in Faults

RepeatInv ==
    /\ \A c \in Creators : pc[c] = "again" => ReplyLost
    /\ repeated # {} => ReplyLost

(* An entry of the index is made by one creator, and only then appended to.*)
IndexInv ==
    /\ \A c \in Creators :
        /\ pc[c] = "first" => index[title[c]] # <<>> /\ index[title[c]][1] = path[c]
        /\ pc[c] \in {"append", "refind"} => index[title[c]] # <<>>
        /\ pc[c] = "unlisted" => faults < MaxFaults \/ index[title[c]] # <<>>
    /\ \A t \in Titles : index[t] # <<>> =>
        \E c \in Creators : title[c] = t /\ pc[c] = "first"

(* A creator that is through with its name has its path in the index, and  *)
(* a commenter its comment, on a poll that is there.                       *)
ListedInv ==
    \A c \in Creators : pc[c] = "listed" => Times(index[title[c]], path[c]) >= 1

CommentedInv ==
    \A m \in Commenters :
        /\ pc[m] \in {"append", "refind", "commented"} => poll[path[m]] # NoPoll
        /\ pc[m] = "commented" /\ path[m] \notin repeated \cup {0} =>
                Times(comment[path[m]], m) >= 1

(* Before the first fault a list has what a request appends to it when the *)
(* request has appended it, once, and not before.                          *)
ListedOnce ==
    \A c \in Creators : pc[c] # "idle" =>
        Times(index[title[c]], path[c]) = IF pc[c] \in {"first", "listed"} THEN 1 ELSE 0

CommentedOnce ==
    \A m \in Commenters :
        Times(comment[path[m]], m) = IF pc[m] = "commented" THEN 1 ELSE 0

OnceInv == faults = MaxFaults => ListedOnce /\ CommentedOnce

(* Creators make entries and are listed, commenters comment.               *)
OwnEnd ==
    /\ \A c \in Creators : pc[c] # "commented"
    /\ \A m \in Commenters : pc[m] \notin {"first", "listed"}

AppendInv == ListedInv /\ CommentedInv /\ OnceInv /\ OwnEnd

Inv ==
    /\ TypeOK /\ NumbersInv /\ KeptInv /\ RepeatInv
    /\ IndexInv /\ SearchFinds /\ AppendInv

-----------------------------------------------------------------------------
(* Lists and numbers.                                                      *)

(* What an append does to a list.                                          *)
LEMMA AppendFacts ==
    ASSUME NEW S, NEW s \in Seq(S), NEW x \in S
    PROVE  /\ Append(s, x) \in Seq(S) /\ Append(s, x) # <<>>
           /\ Len(Append(s, x)) = Len(s) + 1 /\ Len(s) \in Nat
           /\ \A i \in 1 .. Len(s) : Append(s, x)[i] = s[i]
           /\ Append(s, x)[Len(s) + 1] = x
           /\ SubSeq(Append(s, x), 1, Len(s)) = s
           /\ SubSeq(s, 1, Len(s)) = s
<1>1. /\ Append(s, x) \in Seq(S) /\ Append(s, x) # <<>>
      /\ Len(Append(s, x)) = Len(s) + 1 /\ Len(s) \in Nat
      /\ \A i \in 1 .. Len(s) : Append(s, x)[i] = s[i]
      /\ Append(s, x)[Len(s) + 1] = x
  OBVIOUS
<1>2. SubSeq(Append(s, x), 1, Len(s)) = s
  <2> DEFINE t == SubSeq(Append(s, x), 1, Len(s))
  <2>1. \A i \in 1 .. Len(s) : Append(s, x)[i] \in S
    BY <1>1
  <2>2. /\ t \in Seq(S) /\ Len(t) = Len(s)
        /\ \A i \in 1 .. Len(s) : t[i] = Append(s, x)[i]
    BY <1>1, <2>1, SubSeqProperties
  <2> QED
    BY <1>1, <2>2, SeqEqual
<1>3. SubSeq(s, 1, Len(s)) = s
  BY SubSeqFull
<1> QED
  BY <1>1, <1>2, <1>3

(* A list of paths and a list of comments fit a request's copy.            *)
LEMMA ListType ==
    ASSUME TypeOK, NEW r \in Requests
    PROVE  List(r) \in Seq(Paths \cup Commenters)
<1>1. \A s : s \in Seq(Paths) \/ s \in Seq(Commenters) => s \in Seq(Paths \cup Commenters)
  OBVIOUS
<1> QED
  BY <1>1 DEF TypeOK, List, Requests

(* There is a number for each creator that has not begun.                  *)
LEMMA RoomForNumber ==
    ASSUME TypeOK, NumbersInv, NEW c \in Creators, pc[c] = "idle"
    PROVE  last \in Nat /\ last + 1 \in Paths /\ last + 1 <= Cardinality(Begun \cup {c})
<1>1. IsFiniteSet(Begun) /\ IsFiniteSet(Begun \cup {c}) /\ c \notin Begun
  <2>1. Begun \in SUBSET Creators /\ Begun \cup {c} \in SUBSET Creators
    BY DEF Begun
  <2> QED
    BY <2>1, RequestsAssumption, FS_Subset DEF Begun
<1>2. /\ Cardinality(Begun) \in Nat /\ Cardinality(Creators) \in Nat
      /\ Cardinality(Begun \cup {c}) = Cardinality(Begun) + 1
      /\ Cardinality(Begun \cup {c}) <= Cardinality(Creators)
  <2>1. Begun \cup {c} \in SUBSET Creators
    BY DEF Begun
  <2> QED
    BY <1>1, <2>1, RequestsAssumption, FS_CardinalityType, FS_AddElement, FS_Subset
<1>3. last \in Nat
  BY <1>2 DEF TypeOK, Paths
<1> QED
  BY <1>2, <1>3 DEF NumbersInv, Paths

(* What Push does, by whom it is done.                                     *)
LEMMA PushFacts ==
    ASSUME TypeOK, NEW r \in Requests, Push(r)
    PROVE  /\ index' \in [Titles -> Seq(Paths)] /\ comment' \in [Paths -> Seq(Commenters)]
           /\ r \in Creators => /\ comment' = comment
                                /\ index' = [index EXCEPT ![title[r]] = Append(@, path[r])]
           /\ r \notin Creators => /\ index' = index /\ r \in Commenters
                                   /\ comment' = [comment EXCEPT ![path[r]] = Append(@, r)]
<1>1. path[r] \in Paths /\ (r \in Creators => title[r] \in Titles)
  BY DEF TypeOK
<1>2. ASSUME r \in Creators PROVE Append(index[title[r]], path[r]) \in Seq(Paths)
  BY <1>1, <1>2, AppendFacts DEF TypeOK
<1>3. ASSUME r \in Commenters PROVE Append(comment[path[r]], r) \in Seq(Commenters)
  BY <1>1, <1>3, AppendFacts DEF TypeOK
<1> QED
  BY <1>1, <1>2, <1>3 DEF Push, TypeOK, Requests

-----------------------------------------------------------------------------
(* Types.                                                                  *)

(* Every step keeps every variable in its type.                            *)
LEMMA TypeStep == TypeOK /\ NumbersInv /\ [Next]_vars => TypeOK'
<1> SUFFICES ASSUME TypeOK, NumbersInv, [Next]_vars PROVE TypeOK'
  OBVIOUS
<1> USE FaultsAssumption
<1>0. /\ Creators \subseteq Requests /\ Commenters \subseteq Requests
      /\ 0 \in Paths /\ <<>> \in Seq(Commenters)
  <2>1. Cardinality(Creators) \in Nat
    BY RequestsAssumption, FS_CardinalityType
  <2> QED
    BY <2>1 DEF Requests, Paths
<1>1. ASSUME NEW kind, Fault(kind) PROVE faults' \in 0 .. MaxFaults
  BY <1>1 DEF Fault, TypeOK
<1>2. ASSUME NEW r \in Requests, NEW x \in {"idle"} \cup Running \cup Ended, Goto(r, x)
      PROVE  pc' \in [Requests -> {"idle"} \cup Running \cup Ended]
  BY <1>2 DEF Goto, TypeOK
<1>3. ASSUME NEW r \in Requests, NEW l \in Seq(Paths \cup Commenters), Copy(r, l)
      PROVE  seen' \in [Requests -> Seq(Paths \cup Commenters)]
  BY <1>3 DEF Copy, TypeOK
<1>4. ASSUME NEW c \in Creators, Add(c) PROVE TypeOK'
  <2>1. last + 1 \in Paths
    BY <1>4, RoomForNumber DEF Add
  <2>2. pc' \in [Requests -> {"idle"} \cup Running \cup Ended]
    BY <1>0, <1>2, <1>4 DEF Add, Running
  <2> QED
    BY <1>0, <1>4, <2>1, <2>2 DEF Add, TypeOK
<1>5. ASSUME NEW c \in Creators, IncFails(c) PROVE TypeOK'
  <2>1. last + 1 \in Paths
    BY <1>5, RoomForNumber DEF IncFails
  <2>2. pc' \in [Requests -> {"idle"} \cup Running \cup Ended]
    BY <1>0, <1>2, <1>5 DEF IncFails, Running
  <2> QED
    BY <1>0, <1>1, <1>5, <2>1, <2>2 DEF IncFails, TypeOK
<1>6. ASSUME NEW c \in Creators, Store(c) \/ StoreReplyLost(c) PROVE TypeOK'
  <2>1. pc' \in [Requests -> {"idle"} \cup Running \cup Ended]
    BY <1>0, <1>2, <1>6 DEF Store, StoreReplyLost, Running, Ended
  <2>2. path[c] \in Paths
    BY <1>0 DEF TypeOK
  <2>3. /\ poll' \in [Paths -> Creators \cup {NoPoll}]
        /\ comment' \in [Paths -> Seq(Commenters)] /\ repeated' \in SUBSET Paths
    <3>1. UNCHANGED <<poll, comment, repeated>> \/ PutPoll(c)
      BY <1>6 DEF Store, StoreReplyLost
    <3>2. CASE PutPoll(c)
      BY <1>0, <2>2, <3>2 DEF PutPoll, TypeOK
    <3> QED
      BY <3>1, <3>2 DEF TypeOK
  <2>4. faults' \in 0 .. MaxFaults
    BY <1>1, <1>6 DEF Store, StoreReplyLost, TypeOK
  <2> QED
    BY <1>6, <2>1, <2>3, <2>4 DEF Store, StoreReplyLost, TypeOK
<1>7. ASSUME NEW c \in Creators, FindName(c) PROVE TypeOK'
  <2>1. pc' \in [Requests -> {"idle"} \cup Running \cup Ended]
    BY <1>0, <1>2, <1>7 DEF FindName, Running
  <2>2. index[title[c]] \in Seq(Paths \cup Commenters)
    BY <1>0, ListType DEF List
  <2>3. seen' \in [Requests -> Seq(Paths \cup Commenters)]
    BY <1>0, <1>3, <1>7, <2>2 DEF FindName
  <2> QED
    BY <1>7, <2>1, <2>3 DEF FindName, store, TypeOK
<1>8. ASSUME NEW c \in Creators, AddKV(c) PROVE TypeOK'
  <2>1. pc' \in [Requests -> {"idle"} \cup Running \cup Ended]
    BY <1>0, <1>2, <1>8 DEF AddKV, Ended
  <2>2. path[c] \in Paths
    BY <1>0 DEF TypeOK
  <2>3. <<path[c]>> \in Seq(Paths)
    BY <2>2
  <2>4. index' \in [Titles -> Seq(Paths)]
    BY <1>8, <2>3 DEF AddKV, TypeOK
  <2> QED
    BY <1>8, <2>1, <2>4 DEF AddKV, TypeOK
<1>9. ASSUME NEW c \in Creators, AddKVFails(c) PROVE TypeOK'
  <2>1. pc' \in [Requests -> {"idle"} \cup Running \cup Ended]
    BY <1>0, <1>2, <1>9 DEF AddKVFails, Ended
  <2> QED
    BY <1>1, <1>9, <2>1 DEF AddKVFails, store, TypeOK
<1>10. ASSUME NEW r \in Commenters, FindPoll(r) PROVE TypeOK'
  <2>1. pc' \in [Requests -> {"idle"} \cup Running \cup Ended]
    BY <1>0, <1>2, <1>10 DEF FindPoll, Running, Ended
  <2>2. comment[path[r]] \in Seq(Paths \cup Commenters)
    <3>1. r \notin Creators
      BY RequestsAssumption
    <3> QED
      BY <1>0, <3>1, ListType DEF List
  <2>3. seen' \in [Requests -> Seq(Paths \cup Commenters)]
    BY <1>0, <1>3, <1>10, <2>2 DEF FindPoll, TypeOK
  <2> QED
    BY <1>10, <2>1, <2>3 DEF FindPoll, store, TypeOK
<1>11. ASSUME NEW r \in Requests, Updata(r) PROVE TypeOK'
  <2>1. pc' \in [Requests -> {"idle"} \cup Running \cup Ended]
    BY <1>2, <1>11 DEF Updata, Succeeded, Running, Ended
  <2>2. index' \in [Titles -> Seq(Paths)] /\ comment' \in [Paths -> Seq(Commenters)]
    BY <1>11, PushFacts DEF Updata, TypeOK
  <2> QED
    BY <1>11, <2>1, <2>2 DEF Updata, TypeOK
<1>12. ASSUME NEW r \in Requests, FindAgain(r) PROVE TypeOK'
  <2>1. pc' \in [Requests -> {"idle"} \cup Running \cup Ended]
    BY <1>2, <1>12 DEF FindAgain, Running
  <2>2. seen' \in [Requests -> Seq(Paths \cup Commenters)]
    BY <1>3, <1>12, ListType DEF FindAgain
  <2> QED
    BY <1>12, <2>1, <2>2 DEF FindAgain, store, TypeOK
<1>13. ASSUME NEW r \in Requests, UpdataReplyLost(r) PROVE TypeOK'
  <2>1. pc' \in [Requests -> {"idle"} \cup Running \cup Ended]
    BY <1>2, <1>13 DEF UpdataReplyLost, Running, Ended
  <2>2. index' \in [Titles -> Seq(Paths)] /\ comment' \in [Paths -> Seq(Commenters)]
    BY <1>13, PushFacts DEF UpdataReplyLost
  <2> QED
    BY <1>1, <1>13, <2>1, <2>2 DEF UpdataReplyLost, TypeOK
<1>14. ASSUME NEW r \in Requests, UpdataConflict(r) \/ CallFailed(r) PROVE TypeOK'
  <2>1. pc' \in [Requests -> {"idle"} \cup Running \cup Ended]
    BY <1>2, <1>14 DEF UpdataConflict, CallFailed, Running, Ended
  <2> QED
    BY <1>1, <1>14, <2>1 DEF UpdataConflict, CallFailed, store, TypeOK
<1>15. CASE Crash
  BY <1>15 DEF Crash, store, TypeOK, Ended
<1>16. CASE UNCHANGED vars
  BY <1>16 DEF vars, TypeOK
<1> QED
  BY <1>4, <1>5, <1>6, <1>7, <1>8, <1>9, <1>10, <1>11, <1>12, <1>13, <1>14, <1>15,
     <1>16 DEF Next, Create, CreateFault, Finish

(* No creator is given a number before it begins.                          *)
LEMMA NumbersStep == TypeOK /\ NumbersInv /\ [Next]_vars => NumbersInv'
<1> SUFFICES ASSUME TypeOK, NumbersInv, [Next]_vars PROVE NumbersInv'
  OBVIOUS
<1>0. Creators \subseteq Requests
  BY DEF Requests
<1>1. Begun \subseteq Begun'
  <2>1. ASSUME NEW c \in Requests, pc[c] # "idle" PROVE pc'[c] # "idle"
    BY <2>1 DEF Next, vars, Create, CreateFault, Finish, StoreReplyLost, Add, IncFails, Store, FindName, AddKV,
       AddKVFails, FindPoll, Updata, FindAgain, UpdataConflict, UpdataReplyLost,
       CallFailed, Crash, Goto, TypeOK, Succeeded
  <2> QED
    BY <1>0, <2>1 DEF Begun
<1>2. \A S \in SUBSET Creators : IsFiniteSet(S) /\ Cardinality(S) \in Nat
  BY RequestsAssumption, FS_Subset, FS_CardinalityType
<1>3. Begun \in SUBSET Creators /\ Begun' \in SUBSET Creators
  BY DEF Begun
<1>4. \A S \in SUBSET Begun' : Cardinality(S) <= Cardinality(Begun')
  BY <1>2, <1>3, FS_Subset
<1>5. ASSUME NEW c \in Creators, Add(c) \/ IncFails(c) PROVE NumbersInv'
  <2>1. pc[c] = "idle" /\ last' \in {last, last + 1}
    BY <1>5 DEF Add, IncFails
  <2>2. c \in Begun'
    BY <1>0, <1>5 DEF Add, IncFails, Goto, TypeOK, Begun
  <2>3. last \in Nat /\ last + 1 <= Cardinality(Begun \cup {c})
    BY <2>1, RoomForNumber
  <2>4. Cardinality(Begun \cup {c}) <= Cardinality(Begun')
    BY <1>1, <1>4, <2>2
  <2>5. Cardinality(Begun \cup {c}) \in Nat /\ Cardinality(Begun') \in Nat
    BY <1>2, <1>3
  <2> QED
    BY <2>1, <2>3, <2>4, <2>5 DEF NumbersInv
<1>6. CASE last' = last
  <2>1. Cardinality(Begun) <= Cardinality(Begun')
    BY <1>1, <1>4
  <2>2. Cardinality(Begun) \in Nat /\ Cardinality(Begun') \in Nat
    BY <1>2, <1>3
  <2>3. last \in Int
    BY DEF TypeOK, Paths
  <2> QED
    BY <1>6, <2>1, <2>2, <2>3 DEF NumbersInv
<1>7. last' = last \/ \E c \in Creators : Add(c) \/ IncFails(c)
  BY DEF Next, vars, store, Create, CreateFault, Finish, StoreReplyLost, Store, FindName, AddKV,
     AddKVFails, FindPoll, Updata, FindAgain, UpdataConflict, UpdataReplyLost,
     CallFailed, Crash
<1> QED
  BY <1>5, <1>6, <1>7

-----------------------------------------------------------------------------
(* Paths and polls.                                                        *)

(* A fault does not unhappen.                                              *)
LEMMA FaultsStay ==
    ASSUME TypeOK, [Next]_vars
    PROVE  /\ faults' \in Int /\ faults \in Int /\ faults' <= faults
           /\ faults <= MaxFaults /\ MaxFaults \in Nat
<1>1. faults' = faults \/ (faults > 0 /\ faults' = faults - 1)
  BY DEF Next, vars, Create, CreateFault, Finish, StoreReplyLost, Add, IncFails, Store,
     FindName, AddKV, AddKVFails, FindPoll, Updata, FindAgain, UpdataConflict,
     UpdataReplyLost, CallFailed, Crash, Fault
<1> QED
  BY <1>1, FaultsAssumption DEF TypeOK

(* What add() does: it stores the poll and goes on, tries again or gives   *)
(* up; or it stores nothing and gives up.                                  *)
Puts(c) ==
    /\ pc[c] \in {"store", "again"} /\ PutPoll(c)
    /\ path' = path /\ index' = index /\ last' = last /\ mode' = mode
    /\ pc' = [pc EXCEPT ![c] = pc'[c]]
    /\ pc'[c] \in {"again", "name", "panic"}
    /\ pc'[c] = "again" =>
        mode = "redis" /\ faults' = faults - 1 /\ "StoreReplyLost" \in Faults

GivesUp(c) ==
    /\ pc[c] \in {"store", "again"} /\ pc' = [pc EXCEPT ![c] = "panic"]
    /\ path' = path /\ last' = last /\ mode' = mode /\ UNCHANGED store

(* A step of add() is one of these two.                                    *)
LEMMA StoreShape ==
    ASSUME TypeOK, NEW c \in Creators, Store(c) \/ StoreReplyLost(c)
    PROVE  Puts(c) \/ GivesUp(c)
<1>1. c \in Requests
  BY DEF Requests
<1>2. CASE Store(c)
  BY <1>1, <1>2 DEF Store, Puts, GivesUp, Goto, store, TypeOK
<1>3. CASE StoreReplyLost(c)
  BY <1>1, <1>3 DEF StoreReplyLost, Puts, Goto, Fault, TypeOK
<1> QED
  BY <1>2, <1>3
(* Apart from Add, IncFails and add(), no step touches paths or polls, and *)
(* no step moves a creator into or out of what the invariant says of it.   *)
LEMMA PathsStay ==
    ASSUME TypeOK, [Next]_vars,
           \A c \in Creators :
               ~ Add(c) /\ ~ IncFails(c) /\ ~ Store(c) /\ ~ StoreReplyLost(c)
    PROVE  /\ last' = last /\ path' = path /\ poll' = poll
           /\ mode' = mode /\ repeated' = repeated
           /\ \A c \in Creators : pc'[c] = "again" => pc[c] = "again"
           /\ \A c \in Creators : /\ pc'[c] = "idle" <=> pc[c] = "idle"
                                  /\ pc'[c] \in Stored => pc[c] \in Stored
                                  /\ pc'[c] \in {"idle", "store"} =>
                                        pc[c] \in {"idle", "store"}
<1> USE DEF Stored, TypeOK, Goto
<1>0. Creators \subseteq Requests /\ Commenters \subseteq Requests
      /\ Creators \cap Commenters = {}
  BY RequestsAssumption DEF Requests
<1>1. /\ last' = last /\ path' = path /\ poll' = poll
      /\ mode' = mode /\ repeated' = repeated
  BY DEF Next, vars, store, Create, CreateFault, Finish, StoreReplyLost, FindName, AddKV, AddKVFails,
     FindPoll, Updata, FindAgain, UpdataConflict, UpdataReplyLost, CallFailed, Crash
<1> DEFINE Keeps(c) == /\ pc'[c] = "idle" <=> pc[c] = "idle"
                       /\ pc'[c] \in Stored => pc[c] \in Stored
                       /\ pc'[c] \in {"idle", "store"} => pc[c] \in {"idle", "store"}
                       /\ pc'[c] = "again" => pc[c] = "again"
<1> SUFFICES ASSUME NEW c \in Creators PROVE Keeps(c)
  BY <1>1
<1>2. ASSUME NEW d \in Creators, FindName(d) \/ AddKV(d) \/ AddKVFails(d) PROVE Keeps(c)
  BY <1>0, <1>2 DEF FindName, AddKV, AddKVFails
<1>3. ASSUME NEW r \in Commenters, FindPoll(r) PROVE Keeps(c)
  BY <1>0, <1>3 DEF FindPoll
<1>4. ASSUME NEW r \in Requests, Finish(r) \/ UpdataConflict(r) \/ UpdataReplyLost(r)
      PROVE  Keeps(c)
  BY <1>0, <1>4 DEF Finish, Updata, FindAgain, UpdataConflict, UpdataReplyLost, Succeeded
<1>5. ASSUME NEW r \in Requests, CallFailed(r) PROVE Keeps(c)
  BY <1>0, <1>5 DEF CallFailed, Running
<1>6. ASSUME Crash PROVE Keeps(c)
  BY <1>0, <1>6 DEF Crash, Running
<1>7. ASSUME UNCHANGED vars PROVE Keeps(c)
  BY <1>7 DEF vars
<1> QED
  BY <1>2, <1>3, <1>4, <1>5, <1>6, <1>7 DEF Next, Create, CreateFault

(* Under a number a creator stores its poll over nothing, or over itself.  *)
LEMMA StoredOnce ==
    ASSUME TypeOK, KeptInv, NEW c \in Creators, path[c] # 0
    PROVE  /\ pc[c] = "store" => poll[path[c]] = NoPoll
           /\ pc[c] = "again" => poll[path[c]] = c
<1>1. path[c] \in Paths
  BY DEF TypeOK, Requests
<1>2. poll[path[c]] # NoPoll => poll[path[c]] \in Creators
  BY <1>1 DEF TypeOK
<1> QED
  BY <1>1, <1>2 DEF KeptInv, OwnPath, OwnPoll, Stored

(* No step makes a numbered path or the poll there somebody else's.        *)
LEMMA KeptStep == TypeOK /\ KeptInv /\ [Next]_vars => KeptInv'
<1> SUFFICES ASSUME TypeOK, KeptInv, [Next]_vars PROVE OwnPath' /\ OwnPoll'
  BY DEF KeptInv
<1>0. OwnPath /\ OwnPoll
  BY DEF KeptInv
<1>1. Creators \subseteq Requests /\ last \in Nat /\ NoPoll \notin Creators
  BY NoPollAssumption, RequestsAssumption, FS_CardinalityType DEF Requests, TypeOK, Paths
<1>2. faults' = MaxFaults => faults = MaxFaults
  BY FaultsStay
<1>3. ASSUME NEW c \in Creators, Add(c) \/ IncFails(c) PROVE OwnPath' /\ OwnPoll'
  <2>1. /\ pc[c] = "idle" /\ last' \in {last, last + 1} /\ poll' = poll
        /\ pc'[c] = "store"
        /\ \/ last' = last + 1 /\ path'[c] = last + 1
           \/ path'[c] = 0 /\ faults' # MaxFaults
        /\ \A d \in Creators : d # c => path'[d] = path[d] /\ pc'[d] = pc[d]
    <3>1. CASE Add(c)
      BY <1>1, <3>1 DEF Add, Goto, TypeOK
    <3>2. CASE IncFails(c)
      BY <1>1, <3>2, FaultsAssumption DEF IncFails, Fault, Goto, TypeOK
    <3> QED
      BY <1>3, <3>1, <3>2
  <2>2. OwnPath'
    <3>1. \A d \in Creators : d # c /\ pc'[d] # "idle" => path'[d] \in 0 .. last
      BY <1>0, <2>1 DEF OwnPath
    <3>2. \A d \in Creators : d # c /\ pc'[d] # "idle" /\ path'[c] # 0 => path'[d] # path'[c]
      BY <1>1, <2>1, <3>1
    <3>3. \A d \in Creators : pc'[d] # "idle" => path'[d] \in 0 .. last'
      BY <1>1, <2>1, <3>1
    <3>4. \A d \in Creators : pc'[d] # "idle" /\ faults' = MaxFaults => path'[d] # 0
      BY <1>0, <1>1, <1>2, <2>1 DEF OwnPath
    <3>5. \A d, e \in Creators :
            d # c /\ e # c /\ pc'[d] # "idle" /\ pc'[e] # "idle"
                /\ path'[d] = path'[e] /\ path'[d] # 0 => d = e
      BY <1>0, <2>1 DEF OwnPath
    <3> QED
      BY <3>2, <3>3, <3>4, <3>5 DEF OwnPath
  <2>3. \A p \in Paths \ {0} : poll[p] # NoPoll => poll[p] \in Creators /\ poll[p] # c
    BY <1>0, <2>1 DEF OwnPoll, TypeOK
  <2>4. OwnPoll'
    BY <1>0, <2>1, <2>3 DEF OwnPoll, Stored
  <2> QED
    BY <2>2, <2>4
<1>4. ASSUME NEW c \in Creators, Puts(c) PROVE OwnPath' /\ OwnPoll'
  <2>1. path[c] \in Paths /\ pc[c] \in {"store", "again"}
    BY <1>1, <1>4 DEF Puts, TypeOK
  <2>2. /\ last' = last /\ path' = path /\ pc'[c] \in {"again", "name", "panic"}
        /\ poll' = [poll EXCEPT ![path[c]] = c]
        /\ \A d \in Creators : d # c => pc'[d] = pc[d]
    BY <1>1, <1>4, <2>1 DEF Puts, PutPoll, TypeOK
  <2>3. OwnPath'
    BY <1>0, <1>2, <2>1, <2>2 DEF OwnPath
  <2>4. \A p \in Paths : poll'[p] = IF p = path[c] THEN c ELSE poll[p]
    BY <2>2 DEF TypeOK
  <2>5. \A p \in Paths : poll[p] # NoPoll => poll[p] \in Creators
    BY DEF TypeOK
  <2>6. \A p \in Paths \ {0} : poll'[p] # NoPoll =>
            path'[poll'[p]] = p /\ pc'[poll'[p]] \notin {"idle", "store"}
    BY <1>0, <2>1, <2>2, <2>4, <2>5 DEF OwnPoll
  <2>7. \A d \in Creators : pc'[d] \in Stored /\ path'[d] # 0 => poll'[path'[d]] = d
    <3> SUFFICES ASSUME NEW d \in Creators, pc'[d] \in Stored, path[d] # 0
                 PROVE  poll'[path[d]] = d
      BY <2>2
    <3>1. path[d] \in Paths
      BY <1>1 DEF TypeOK
    <3>2. CASE d = c
      BY <2>4, <3>1, <3>2
    <3>3. CASE d # c
      <4>1. pc[d] \in Stored /\ path[d] # path[c]
        BY <1>0, <2>1, <2>2, <3>3 DEF OwnPath, Stored
      <4> QED
        BY <1>0, <2>4, <3>1, <4>1 DEF OwnPoll
    <3> QED
      BY <3>2, <3>3
  <2> QED
    BY <2>3, <2>6, <2>7 DEF OwnPoll
<1>5. ASSUME NEW c \in Creators, GivesUp(c) PROVE OwnPath' /\ OwnPoll'
  <2>1. /\ path' = path /\ last' = last /\ poll' = poll /\ pc'[c] = "panic"
        /\ pc[c] \in {"store", "again"} /\ \A d \in Creators : d # c => pc'[d] = pc[d]
    BY <1>1, <1>5 DEF GivesUp, store, TypeOK
  <2>2. \A p \in Paths : poll[p] # NoPoll => poll[p] \in Creators
    BY DEF TypeOK
  <2>3. OwnPath'
    BY <1>0, <1>2, <2>1 DEF OwnPath
  <2>4. OwnPoll'
    BY <1>0, <2>1, <2>2 DEF OwnPoll, Stored
  <2> QED
    BY <2>3, <2>4
<1>6. ASSUME \A c \in Creators :
                 ~ Add(c) /\ ~ IncFails(c) /\ ~ Store(c) /\ ~ StoreReplyLost(c)
      PROVE  OwnPath' /\ OwnPoll'
  <2>1. OwnPath'
    BY <1>0, <1>2, <1>6, PathsStay DEF OwnPath
  <2>2. \A p \in Paths : poll[p] # NoPoll => poll[p] \in Creators
    BY DEF TypeOK
  <2>3. OwnPoll'
    BY <1>0, <1>6, <2>2, PathsStay DEF OwnPoll
  <2> QED
    BY <2>1, <2>3
<1> QED
  BY <1>3, <1>4, <1>5, <1>6, StoreShape

(* Every step keeps what is said of polls that are stored again.           *)
LEMMA RepeatStep == TypeOK /\ RepeatInv /\ [Next]_vars => RepeatInv'
<1> SUFFICES ASSUME TypeOK, RepeatInv, [Next]_vars PROVE RepeatInv'
  OBVIOUS
<1>1. ASSUME mode' = mode, ReplyLost PROVE ReplyLost'
  BY <1>1, FaultsStay DEF ReplyLost
<1>2. Creators \subseteq Requests
  BY DEF Requests
<1>3. ASSUME NEW c \in Creators, Add(c) \/ IncFails(c) PROVE RepeatInv'
  <2>1. /\ mode' = mode /\ repeated' = repeated /\ pc'[c] = "store"
        /\ \A d \in Creators : d # c => pc'[d] = pc[d]
    BY <1>2, <1>3 DEF Add, IncFails, Goto, TypeOK
  <2> QED
    BY <1>1, <2>1 DEF RepeatInv
<1>4. ASSUME NEW c \in Creators, Puts(c) PROVE RepeatInv'
  <2>1. /\ mode' = mode /\ \A d \in Creators : d # c => pc'[d] = pc[d]
        /\ repeated' # {} => repeated # {} \/ pc[c] = "again"
    BY <1>2, <1>4 DEF Puts, PutPoll, TypeOK
  <2>2. pc'[c] = "again" => ReplyLost'
    BY <1>4, FaultsStay DEF Puts, ReplyLost
  <2> QED
    BY <1>1, <2>1, <2>2 DEF RepeatInv
<1>5. ASSUME NEW c \in Creators, GivesUp(c) PROVE RepeatInv'
  <2>1. /\ mode' = mode /\ repeated' = repeated /\ pc'[c] = "panic"
        /\ \A d \in Creators : d # c => pc'[d] = pc[d]
    BY <1>2, <1>5 DEF GivesUp, store, TypeOK
  <2> QED
    BY <1>1, <2>1 DEF RepeatInv
<1>6. ASSUME \A c \in Creators :
                 ~ Add(c) /\ ~ IncFails(c) /\ ~ Store(c) /\ ~ StoreReplyLost(c)
      PROVE  RepeatInv'
  BY <1>1, <1>6, PathsStay DEF RepeatInv
<1> QED
  BY <1>3, <1>4, <1>5, <1>6, StoreShape

-----------------------------------------------------------------------------
(* The index.                                                              *)

(* The next step of an index: nothing, an entry added, an entry made.      *)
Entered(c) == /\ pc[c] = "append" /\ pc'[c] \in {"listed", "refind", "panic"}
              /\ index' = [index EXCEPT ![title[c]] = Append(@, path[c])]
Made(c) == /\ pc[c] = "addkv" /\ pc'[c] = "first" /\ index[title[c]] = <<>>
           /\ index' = [index EXCEPT ![title[c]] = <<path[c]>>]

(* A step changes the index as a creator's next step, and moves creators   *)
(* where the index allows.                                                 *)
LEMMA IndexSteps ==
    ASSUME TypeOK, [Next]_vars
    PROVE  /\ title' = title
           /\ index' = index \/ \E c \in Creators :
                /\ Entered(c) \/ Made(c)
                /\ poll' = poll /\ path' = path
           /\ \A c \in Creators :
                /\ pc[c] = "first" => pc'[c] = "first"
                /\ pc'[c] = "first" => pc[c] = "first" \/ (Made(c) /\ path' = path)
                /\ pc'[c] \in {"append", "refind"} =>
                        pc[c] \in {"append", "refind"} \/ index[title[c]] # <<>>
                /\ pc'[c] = "unlisted" => \/ pc[c] = "unlisted"
                                           \/ index[title[c]] # <<>>
                                           \/ faults' < MaxFaults
                /\ path'[c] = path[c] \/ pc[c] = "idle"
<1> USE DEF TypeOK, Goto
<1>0. /\ Creators \subseteq Requests /\ Commenters \subseteq Requests
      /\ Creators \cap Commenters = {}
      /\ \A c \in Creators : title[c] \in Titles
  BY RequestsAssumption DEF Requests
<1> DEFINE Changes == index' = index \/ \E c \in Creators :
                /\ Entered(c) \/ Made(c)
                /\ poll' = poll /\ path' = path
           Moves(c) ==
                /\ pc[c] = "first" => pc'[c] = "first"
                /\ pc'[c] = "first" => pc[c] = "first" \/ (Made(c) /\ path' = path)
                /\ pc'[c] \in {"append", "refind"} =>
                        pc[c] \in {"append", "refind"} \/ index[title[c]] # <<>>
                /\ pc'[c] = "unlisted" => \/ pc[c] = "unlisted"
                                           \/ index[title[c]] # <<>>
                                           \/ faults' < MaxFaults
                /\ path'[c] = path[c] \/ pc[c] = "idle"
<1>1. title' = title
  BY DEF Next, vars, Create, CreateFault, Finish, StoreReplyLost, Add, IncFails, Store, FindName, AddKV, AddKVFails,
     FindPoll, Updata, FindAgain, UpdataConflict, UpdataReplyLost, CallFailed, Crash
<1>2. ASSUME NEW d \in Creators, Add(d) \/ IncFails(d) \/ Store(d) \/ StoreReplyLost(d)
      PROVE  Changes /\ \A c \in Creators : Moves(c)
  BY <1>0, <1>2 DEF Add, IncFails, Store, StoreReplyLost
<1>3. ASSUME NEW d \in Creators, FindName(d)
      PROVE  Changes /\ \A c \in Creators : Moves(c)
  BY <1>0, <1>3 DEF FindName, store
<1>4. ASSUME NEW d \in Creators, AddKV(d)
      PROVE  Changes /\ \A c \in Creators : Moves(c)
  <2>1. CASE index[title[d]] = <<>>
    <3>1. Made(d) /\ poll' = poll /\ path' = path
      BY <1>0, <1>4, <2>1 DEF AddKV, Made
    <3> QED
      BY <1>0, <1>4, <2>1, <3>1 DEF AddKV
  <2>2. CASE index[title[d]] # <<>>
    BY <1>0, <1>4, <2>2 DEF AddKV
  <2> QED
    BY <2>1, <2>2
<1>5. ASSUME NEW d \in Creators, AddKVFails(d)
      PROVE  Changes /\ \A c \in Creators : Moves(c)
  <2>1. faults' < MaxFaults
    BY <1>5, FaultsAssumption DEF AddKVFails, Fault
  <2> QED
    BY <1>0, <1>5, <2>1 DEF AddKVFails, store
<1>6. ASSUME NEW r \in Commenters, FindPoll(r)
      PROVE  Changes /\ \A c \in Creators : Moves(c)
  BY <1>0, <1>6 DEF FindPoll, store
<1>7. ASSUME NEW r \in Requests, Updata(r)
      PROVE  Changes /\ \A c \in Creators : Moves(c)
  <2>1. path' = path /\ poll' = poll
    BY <1>7 DEF Updata
  <2>2. Changes
    <3>1. CASE r \in Creators /\ Hits(r)
      BY <1>0, <1>7, <2>1, <3>1, PushFacts DEF Updata, Entered, Succeeded
    <3>2. CASE ~(r \in Creators /\ Hits(r))
      BY <1>7, <3>2, PushFacts DEF Updata
    <3> QED
      BY <3>1, <3>2
  <2> QED
    BY <1>0, <1>7, <2>1, <2>2 DEF Updata, Succeeded
<1>8. ASSUME NEW r \in Requests, UpdataReplyLost(r)
      PROVE  Changes /\ \A c \in Creators : Moves(c)
  <2>1. path' = path /\ poll' = poll
    BY <1>8 DEF UpdataReplyLost
  <2>2. Changes
    <3>1. CASE r \in Creators
      BY <1>0, <1>8, <2>1, <3>1, PushFacts DEF UpdataReplyLost, Entered
    <3>2. CASE r \notin Creators
      BY <1>8, <3>2, PushFacts DEF UpdataReplyLost
    <3> QED
      BY <3>1, <3>2
  <2> QED
    BY <1>0, <1>8, <2>1, <2>2 DEF UpdataReplyLost
<1>9. ASSUME NEW r \in Requests, FindAgain(r) \/ UpdataConflict(r) \/ CallFailed(r)
      PROVE  Changes /\ \A c \in Creators : Moves(c)
  BY <1>0, <1>9 DEF FindAgain, UpdataConflict, CallFailed, store, Running
<1>10. ASSUME Crash PROVE Changes /\ \A c \in Creators : Moves(c)
  BY <1>0, <1>10 DEF Crash, store, Running
<1>11. ASSUME UNCHANGED vars PROVE Changes /\ \A c \in Creators : Moves(c)
  BY <1>11 DEF vars
<1>12. Changes /\ \A c \in Creators : Moves(c)
  BY <1>2, <1>3, <1>4, <1>5, <1>6, <1>7, <1>8, <1>9, <1>10, <1>11 DEF Next, Create, CreateFault, Finish
<1> QED
  BY <1>1, <1>12

(* What a step makes of the list of a name: the first stays first.         *)
LEMMA ListsGrow ==
    ASSUME TypeOK, [Next]_vars, NEW t \in Titles
    PROVE  index[t] # <<>> => index'[t] # <<>> /\ index'[t][1] = index[t][1]
<1> SUFFICES ASSUME index[t] # <<>> PROVE index'[t] # <<>> /\ index'[t][1] = index[t][1]
  OBVIOUS
<1>1. index[t] \in Seq(Paths)
  BY DEF TypeOK
<1>2. CASE index' = index
  BY <1>2
<1>3. ASSUME NEW c \in Creators, Made(c)
      PROVE  index'[t] # <<>> /\ index'[t][1] = index[t][1]
  BY <1>3 DEF Made, TypeOK
<1>4. ASSUME NEW c \in Creators, Entered(c)
      PROVE  index'[t] # <<>> /\ index'[t][1] = index[t][1]
  <2>1. index'[t] = index[t] \/ index'[t] = Append(index[t], path[c])
    BY <1>4 DEF Entered, TypeOK
  <2>2. path[c] \in Paths
    BY DEF TypeOK, Requests
  <2>3. Len(index[t]) >= 1
    BY <1>1
  <2>4. /\ Append(index[t], path[c]) # <<>>
        /\ Append(index[t], path[c])[1] = index[t][1]
    BY <1>1, <2>2, <2>3, AppendFacts
  <2> QED
    BY <2>1, <2>4
<1> QED
  BY <1>2, <1>3, <1>4, IndexSteps

(* Every step keeps the invariant of the index.                            *)
LEMMA IndexStep == TypeOK /\ IndexInv /\ [Next]_vars => IndexInv'
<1> SUFFICES ASSUME TypeOK, IndexInv, [Next]_vars PROVE IndexInv'
  OBVIOUS
<1>0. \A c \in Creators : title[c] \in Titles /\ title'[c] = title[c]
  BY IndexSteps DEF TypeOK
<1>1. ASSUME NEW c \in Creators
      PROVE  /\ pc'[c] = "first" => index'[title[c]] # <<>> /\ index'[title[c]][1] = path'[c]
             /\ pc'[c] \in {"append", "refind"} => index'[title[c]] # <<>>
             /\ pc'[c] = "unlisted" => faults' < MaxFaults \/ index'[title[c]] # <<>>
  <2>1. index[title[c]] # <<>> =>
            index'[title[c]] # <<>> /\ index'[title[c]][1] = index[title[c]][1]
    BY <1>0, ListsGrow
  <2>2. ASSUME Made(c), path' = path
        PROVE  index'[title[c]] # <<>> /\ index'[title[c]][1] = path'[c]
    <3>1. index'[title[c]] = <<path[c]>>
      BY <1>0, <2>2 DEF Made, TypeOK
    <3> QED
      BY <2>2, <3>1
  <2>3. faults \in Int /\ MaxFaults \in Int /\ faults' <= faults
    BY FaultsAssumption DEF TypeOK, Next, vars, Create, CreateFault, Finish, StoreReplyLost, Add, IncFails, Store,
       FindName, AddKV, AddKVFails, FindPoll, Updata, FindAgain, UpdataConflict,
       UpdataReplyLost, CallFailed, Crash, Fault
  <2>4. faults' \in Int
    BY <2>3, FaultsAssumption DEF TypeOK, Next, vars, Create, CreateFault, Finish, StoreReplyLost, Add, IncFails, Store,
       FindName, AddKV, AddKVFails, FindPoll, Updata, FindAgain, UpdataConflict,
       UpdataReplyLost, CallFailed, Crash, Fault
  <2>5. pc'[c] = "first" => index'[title[c]] # <<>> /\ index'[title[c]][1] = path'[c]
    BY <2>1, <2>2, IndexSteps DEF IndexInv
  <2>6. pc'[c] \in {"append", "refind"} => index'[title[c]] # <<>>
    BY <2>1, IndexSteps DEF IndexInv
  <2>7. pc'[c] = "unlisted" => faults' < MaxFaults \/ index'[title[c]] # <<>>
    BY <2>1, <2>3, <2>4, IndexSteps DEF IndexInv
  <2> QED
    BY <2>5, <2>6, <2>7
<1>2. ASSUME NEW t \in Titles, index'[t] # <<>>
      PROVE  \E c \in Creators : title'[c] = t /\ pc'[c] = "first"
  <2>1. CASE index[t] # <<>>
    BY <1>0, <2>1, IndexSteps DEF IndexInv
  <2>2. CASE index[t] = <<>>
    <3>1. PICK c \in Creators : Entered(c) \/ Made(c)
      BY <1>2, <2>2, IndexSteps
    <3>2. title[c] = t
      BY <1>0, <1>2, <2>2, <3>1 DEF Entered, Made, TypeOK
    <3>3. ~ Entered(c)
      BY <2>2, <3>2 DEF Entered, IndexInv
    <3> QED
      BY <1>0, <3>1, <3>2, <3>3 DEF Made
  <2> QED
    BY <2>1, <2>2
<1> QED
  BY <1>0, <1>1, <1>2 DEF IndexInv

-----------------------------------------------------------------------------
(* What a step makes of the polls and the comments.                        *)

(* A numbered poll is stored over by its creator only, who tries again,    *)
(* and comments are only appended to.                                      *)
LEMMA PollsStep ==
    ASSUME TypeOK, KeptInv, [Next]_vars, NEW p \in Paths \ {0}, poll[p] # NoPoll
    PROVE  /\ poll'[p] = poll[p]
           /\ \/ pc[poll[p]] = "again" /\ p \in repeated' /\ comment'[p] = <<>>
              \/ /\ Len(comment'[p]) >= Len(comment[p])
                 /\ SubSeq(comment'[p], 1, Len(comment[p])) = comment[p]
<1> DEFINE Kept == /\ poll'[p] = poll[p]
                   /\ \/ pc[poll[p]] = "again" /\ p \in repeated' /\ comment'[p] = <<>>
                      \/ /\ Len(comment'[p]) >= Len(comment[p])
                         /\ SubSeq(comment'[p], 1, Len(comment[p])) = comment[p]
<1>1. comment[p] \in Seq(Commenters) /\ Len(comment[p]) \in Nat
  BY DEF TypeOK
<1>2. SubSeq(comment[p], 1, Len(comment[p])) = comment[p]
  BY <1>1, SubSeqFull
<1>3. ASSUME poll'[p] = poll[p], comment'[p] = comment[p] PROVE Kept
  BY <1>1, <1>2, <1>3
<1>4. ASSUME NEW c \in Creators, Puts(c) PROVE Kept
  <2>1. path[c] \in Paths
    BY DEF TypeOK, Requests
  <2>2. CASE p = path[c]
    <3>1. pc[c] = "again" /\ poll[p] = c
      BY <1>4, <2>2, StoredOnce DEF Puts
    <3> QED
      BY <1>4, <2>1, <2>2, <3>1 DEF Puts, PutPoll, TypeOK
  <2>3. CASE p # path[c]
    <3>1. poll'[p] = poll[p] /\ comment'[p] = comment[p]
      BY <1>4, <2>3 DEF Puts, PutPoll, TypeOK
    <3> QED
      BY <1>3, <3>1
  <2> QED
    BY <2>2, <2>3
<1>5. ASSUME NEW r \in Requests, Push(r), poll' = poll PROVE Kept
  <2>1. comment' = comment
        \/ (r \in Commenters /\ comment' = [comment EXCEPT ![path[r]] = Append(@, r)])
    BY <1>5, PushFacts
  <2>2. CASE comment'[p] = comment[p]
    BY <1>3, <1>5, <2>2
  <2>3. CASE r \in Commenters /\ comment'[p] = Append(comment[p], r)
    <3>1. /\ Len(comment'[p]) = Len(comment[p]) + 1
          /\ SubSeq(comment'[p], 1, Len(comment[p])) = comment[p]
      BY <1>1, <2>3, AppendFacts
    <3> QED
      BY <1>1, <1>5, <3>1
  <2> QED
    BY <2>1, <2>2, <2>3 DEF TypeOK
<1>6. \/ poll' = poll /\ comment' = comment
      \/ \E c \in Creators : Puts(c)
      \/ \E r \in Requests : Push(r) /\ poll' = poll
  <2>1. \/ poll' = poll /\ comment' = comment
        \/ \E c \in Creators : Store(c) \/ StoreReplyLost(c)
        \/ \E r \in Requests : Push(r) /\ poll' = poll
    BY DEF Next, vars, store, Create, CreateFault, Finish, Add, IncFails, FindName,
       AddKV, AddKVFails, FindPoll, Updata, FindAgain, UpdataConflict,
       UpdataReplyLost, CallFailed, Crash
  <2> QED
    BY <2>1, StoreShape DEF GivesUp, store
<1> QED
  BY <1>3, <1>4, <1>5, <1>6

(* A name that is entered in the index is that of the poll at its path.    *)
LEMMA SearchStep == TypeOK /\ KeptInv /\ SearchFinds /\ [Next]_vars => SearchFinds'
<1> SUFFICES ASSUME TypeOK, KeptInv, SearchFinds, [Next]_vars,
                    NEW t \in Titles, NEW i \in 1 .. Len(index'[t]), index'[t][i] # 0
             PROVE  /\ poll'[index'[t][i]] \in Creators
                    /\ title'[poll'[index'[t][i]]] = t
  BY DEF SearchFinds
<1>1. OwnPath /\ OwnPoll
  BY DEF KeptInv
<1>2. title' = title /\ NoPoll \notin Creators
  BY IndexSteps, NoPollAssumption
<1>3. index[t] \in Seq(Paths) /\ Len(index[t]) \in Nat
  BY DEF TypeOK
<1>4. ASSUME NEW j \in 1 .. Len(index[t]), index[t][j] # 0
      PROVE  /\ poll'[index[t][j]] \in Creators
             /\ title'[poll'[index[t][j]]] = t
  <2>1. index[t][j] \in Paths \ {0}
    BY <1>3, <1>4
  <2>2. poll[index[t][j]] \in Creators /\ title[poll[index[t][j]]] = t
    BY <1>1, <1>4 DEF SearchFinds
  <2>3. poll'[index[t][j]] = poll[index[t][j]]
    BY <1>1, <1>2, <2>1, <2>2, PollsStep
  <2> QED
    BY <1>2, <2>2, <2>3
<1>5. ASSUME NEW c \in Creators, pc[c] \in {"append", "addkv"}, path[c] # 0
      PROVE  poll[path[c]] = c
  BY <1>1, <1>5 DEF OwnPoll, Stored
<1>6. CASE index' = index
  BY <1>4, <1>6
<1>7. ASSUME NEW c \in Creators, Entered(c), poll' = poll
      PROVE  poll'[index'[t][i]] \in Creators /\ title'[poll'[index'[t][i]]] = t
  <2>1. CASE title[c] # t
    <3>1. index'[t] = index[t]
      BY <1>7, <2>1 DEF Entered, TypeOK
    <3> QED
      BY <1>4, <3>1
  <2>2. CASE title[c] = t
    <3>1. index'[t] = Append(index[t], path[c]) /\ path[c] \in Paths
      BY <1>7, <2>2 DEF Entered, TypeOK, Requests
    <3>2. /\ i \in 1 .. Len(index[t]) /\ index'[t][i] = index[t][i]
          \/ index'[t][i] = path[c]
      BY <1>3, <3>1
    <3>3. path[c] # 0 => poll[path[c]] = c
      BY <1>5, <1>7 DEF Entered
    <3> QED
      BY <1>2, <1>4, <1>7, <2>2, <3>2, <3>3
  <2> QED
    BY <2>1, <2>2
<1>8. ASSUME NEW c \in Creators, Made(c), poll' = poll
      PROVE  poll'[index'[t][i]] \in Creators /\ title'[poll'[index'[t][i]]] = t
  <2>1. CASE title[c] # t
    <3>1. index'[t] = index[t]
      BY <1>8, <2>1 DEF Made, TypeOK
    <3> QED
      BY <1>4, <3>1
  <2>2. CASE title[c] = t
    <3>1. index'[t] = <<path[c]>>
      BY <1>8, <2>2 DEF Made, TypeOK
    <3>2. index'[t][i] = path[c]
      BY <3>1
    <3>3. path[c] # 0 => poll[path[c]] = c
      BY <1>5, <1>8 DEF Made
    <3> QED
      BY <1>2, <1>8, <2>2, <3>2, <3>3
  <2> QED
    BY <2>1, <2>2
<1> QED
  BY <1>6, <1>7, <1>8, IndexSteps

-----------------------------------------------------------------------------
(* What is in a list, and how often.                                       *)

(* What is counted is finite, and none is counted where there is none.     *)
LEMMA TimesFacts ==
    ASSUME NEW S, NEW s \in Seq(S), NEW x
    PROVE  /\ Times(s, x) \in Nat
           /\ Times(s, x) = 0 <=> \A i \in 1 .. Len(s) : s[i] # x
<1> DEFINE At == {i \in 1 .. Len(s) : s[i] = x}
<1>1. IsFiniteSet(At)
  <2>1. IsFiniteSet(1 .. Len(s)) /\ At \in SUBSET (1 .. Len(s))
    BY FS_Interval
  <2> QED
    BY <2>1, FS_Subset
<1>2. Cardinality(At) \in Nat /\ (Cardinality(At) = 0 <=> At = {})
  BY <1>1, FS_CardinalityType, FS_EmptySet
<1> QED
  BY <1>2 DEF Times

(* One more of what is appended, and as many of all else.                  *)
LEMMA TimesAppend ==
    ASSUME NEW S, NEW s \in Seq(S), NEW x \in S, NEW y
    PROVE  Times(Append(s, x), y) = Times(s, y) + (IF x = y THEN 1 ELSE 0)
<1> DEFINE t == Append(s, x)
           n == Len(s) + 1
           Before == {i \in 1 .. Len(s) : s[i] = y}
           After == {i \in 1 .. Len(t) : t[i] = y}
<1>1. /\ Len(t) = n /\ Len(s) \in Nat /\ t[n] = x
      /\ \A i \in 1 .. Len(s) : t[i] = s[i]
  BY AppendFacts
<1>2. IsFiniteSet(Before) /\ n \notin Before /\ Cardinality(Before) \in Nat
  <2>1. IsFiniteSet(1 .. Len(s)) /\ Before \in SUBSET (1 .. Len(s))
    BY FS_Interval
  <2>2. IsFiniteSet(Before)
    BY <2>1, FS_Subset
  <2>3. n \notin Before
    BY <1>1
  <2> QED
    BY <2>2, <2>3, FS_CardinalityType
<1>3. CASE x = y
  <2>1. After = Before \cup {n}
    BY <1>1, <1>3
  <2>2. Cardinality(After) = Cardinality(Before) + 1
    BY <1>2, <2>1, FS_AddElement
  <2>3. Times(t, y) = Cardinality(After) /\ Times(s, y) = Cardinality(Before)
    BY DEF Times
  <2>4. Times(t, y) = Times(s, y) + 1
    BY <2>2, <2>3
  <2> QED
    BY <1>3, <2>4, Zenon
<1>4. CASE x # y
  <2>1. After = Before
    BY <1>1, <1>4
  <2>2. Times(t, y) = Times(s, y) /\ Times(s, y) \in Nat
    BY <1>2, <2>1 DEF Times
  <2> QED
    BY <1>4, <2>2
<1> QED
  BY <1>3, <1>4

(* Nothing is in an empty list, and one thing in a list of one.            *)
LEMMA TimesFew ==
    ASSUME NEW x, NEW y
    PROVE  /\ Times(<<>>, y) = 0
           /\ Times(<<x>>, y) = IF x = y THEN 1 ELSE 0
<1>1. Times(<<>>, y) = 0
  <2>1. {i \in 1 .. Len(<<>>) : <<>>[i] = y} = {}
    OBVIOUS
  <2> QED
    BY <2>1, FS_EmptySet DEF Times
<1>2. Times(<<x>>, y) = IF x = y THEN 1 ELSE 0
  <2>1. CASE x = y
    <3>1. {i \in 1 .. Len(<<x>>) : <<x>>[i] = y} = {1}
      BY <2>1
    <3> QED
      BY <2>1, <3>1, FS_Singleton DEF Times
  <2>2. CASE x # y
    <3>1. {i \in 1 .. Len(<<x>>) : <<x>>[i] = y} = {}
      BY <2>2
    <3> QED
      BY <2>2, <3>1, FS_EmptySet DEF Times
  <2> QED
    BY <2>1, <2>2
<1> QED
  BY <1>1, <1>2

(* What a creator counts and what a commenter counts are numbers.          *)
LEMMA CountsAreNumbers ==
    ASSUME TypeOK
    PROVE  /\ \A c \in Creators : \A p : Times(index[title[c]], p) \in Nat
           /\ \A m \in Commenters : Times(comment[path[m]], m) \in Nat
<1>1. \A c \in Creators : index[title[c]] \in Seq(Paths)
  BY DEF TypeOK
<1>2. \A m \in Commenters : comment[path[m]] \in Seq(Commenters)
  BY DEF TypeOK, Requests
<1> QED
  BY <1>1, <1>2, TimesFacts

(* What a step does to the lists and to those who have appended to them.   *)
Appended == {"first", "listed", "commented"}

Rests ==
    /\ index' = index /\ comment' = comment /\ path' = path
    /\ \A p \in Paths : poll[p] # NoPoll => poll'[p] # NoPoll
    /\ \A r \in Requests :
        /\ pc'[r] \in Appended \/ pc[r] \in Appended => pc'[r] = pc[r]
        /\ r \in Creators /\ pc'[r] # "idle" => pc[r] # "idle"
        /\ r \in Commenters /\ pc'[r] \in {"append", "refind"} =>
            pc[r] \in {"append", "refind"} \/ poll[path[r]] # NoPoll

Pushes(r) ==
    /\ pc[r] = "append" /\ Push(r) /\ path' = path /\ poll' = poll
    /\ pc' = [pc EXCEPT ![r] = pc'[r]]
    /\ \/ pc'[r] = Succeeded(r)
       \/ pc'[r] \in {"refind", "panic"} /\ faults' # MaxFaults

Numbers(c) ==
    /\ pc[c] = "idle" /\ pc' = [pc EXCEPT ![c] = "store"]
    /\ index' = index /\ comment' = comment /\ poll' = poll
    /\ path' = [path EXCEPT ![c] = path'[c]]
    /\ path'[c] = last + 1 \/ faults' # MaxFaults

Makes(c) ==
    /\ Made(c) /\ pc' = [pc EXCEPT ![c] = "first"]
    /\ comment' = comment /\ path' = path /\ poll' = poll

(* A step is one of these.                                                 *)
LEMMA ListSteps ==
    ASSUME TypeOK, [Next]_vars
    PROVE  /\ title' = title /\ repeated \subseteq repeated'
           /\ \/ Rests
              \/ \E c \in Creators : Numbers(c) \/ Puts(c) \/ Makes(c)
              \/ \E r \in Requests : Pushes(r)
<1> USE DEF TypeOK, Goto, Appended
<1>0. /\ Creators \subseteq Requests /\ Commenters \subseteq Requests
      /\ Creators \cap Commenters = {}
  BY RequestsAssumption DEF Requests
<1>16. repeated \subseteq repeated'
  BY DEF Next, vars, store, Create, CreateFault, Finish, Add, IncFails, Store,
     StoreReplyLost, PutPoll, FindName, AddKV, AddKVFails, FindPoll, Updata, FindAgain,
     UpdataConflict, UpdataReplyLost, CallFailed, Crash
<1> DEFINE Goal == \/ Rests
                   \/ \E c \in Creators : Numbers(c) \/ Puts(c) \/ Makes(c)
                   \/ \E r \in Requests : Pushes(r)
<1>1. title' = title
  BY IndexSteps
<1>2. ASSUME NEW k, Fault(k) PROVE faults' # MaxFaults
  BY <1>2, FaultsAssumption DEF Fault
<1>3. ASSUME NEW c \in Creators, Add(c) \/ IncFails(c) PROVE Numbers(c)
  BY <1>0, <1>2, <1>3 DEF Add, IncFails, Numbers
<1>4. ASSUME NEW c \in Creators, Store(c) \/ StoreReplyLost(c) PROVE Rests \/ Puts(c)
  <2>1. CASE GivesUp(c)
    BY <1>0, <2>1 DEF GivesUp, store, Rests
  <2> QED
    BY <1>4, <2>1, StoreShape
<1>5. ASSUME NEW c \in Creators, FindName(c) PROVE Rests
  BY <1>0, <1>5 DEF FindName, store, Rests
<1>6. ASSUME NEW c \in Creators, AddKV(c) PROVE Rests \/ Makes(c)
  <2>1. CASE index[title[c]] = <<>>
    BY <1>0, <1>6, <2>1 DEF AddKV, Made, Makes
  <2>2. CASE index[title[c]] # <<>>
    BY <1>0, <1>6, <2>2 DEF AddKV, Rests
  <2> QED
    BY <2>1, <2>2
<1>7. ASSUME NEW c \in Creators, AddKVFails(c) PROVE Rests
  BY <1>0, <1>7 DEF AddKVFails, store, Rests
<1>8. ASSUME NEW m \in Commenters, FindPoll(m) PROVE Rests
  BY <1>0, <1>8 DEF FindPoll, store, Rests
<1>9. ASSUME NEW r \in Requests, Updata(r) PROVE Rests \/ Pushes(r)
  <2>1. CASE Hits(r)
    <3>1. Push(r) /\ Goto(r, Succeeded(r))
      BY <1>9, <2>1 DEF Updata
    <3> QED
      BY <1>9, <3>1 DEF Updata, Pushes
  <2>2. CASE ~ Hits(r)
    BY <1>0, <1>9, <2>2 DEF Updata, Rests
  <2> QED
    BY <2>1, <2>2
<1>10. ASSUME NEW r \in Requests, UpdataReplyLost(r) PROVE Pushes(r)
  BY <1>2, <1>10 DEF UpdataReplyLost, Pushes
<1>11. ASSUME NEW r \in Requests, FindAgain(r) \/ UpdataConflict(r) PROVE Rests
  BY <1>0, <1>11 DEF FindAgain, UpdataConflict, store, Rests
<1>12. ASSUME NEW r \in Requests, CallFailed(r) PROVE Rests
  BY <1>0, <1>12 DEF CallFailed, store, Running, Rests
<1>13. ASSUME Crash PROVE Rests
  <2>1. UNCHANGED <<store, path>>
    BY <1>13 DEF Crash
  <2>2. \A r \in Requests : pc'[r] = IF pc[r] \in Running THEN "crashed" ELSE pc[r]
    BY <1>13 DEF Crash
  <2> QED
    BY <2>1, <2>2 DEF store, Running, Rests
<1>14. ASSUME UNCHANGED vars PROVE Rests
  BY <1>14 DEF vars, Rests
<1>15. Goal
  BY <1>0, <1>3, <1>4, <1>5, <1>6, <1>7, <1>8, <1>9, <1>10, <1>11, <1>12, <1>13, <1>14
  DEF Next, Create, CreateFault, Finish
<1> QED
  BY <1>1, <1>15, <1>16

(* Every step keeps what is said of the lists.                             *)
LEMMA AppendStep ==
    TypeOK /\ TypeOK' /\ KeptInv /\ RepeatInv /\ SearchFinds /\ AppendInv /\ [Next]_vars
        => AppendInv'
<1> SUFFICES ASSUME TypeOK, TypeOK', KeptInv, RepeatInv, SearchFinds, AppendInv,
                    [Next]_vars
             PROVE  AppendInv'
  OBVIOUS
<1> USE DEF AppendInv, ListedOnce, CommentedOnce
<1>0. /\ Creators \subseteq Requests /\ Commenters \subseteq Requests
      /\ Creators \cap Commenters = {}
      /\ title' = title /\ \A c \in Creators : title[c] \in Titles
      /\ \A r \in Requests : path[r] \in Paths
  BY RequestsAssumption, ListSteps DEF Requests, TypeOK
<1>1. faults' = MaxFaults => faults = MaxFaults
  BY FaultsStay
<1>2. repeated \subseteq repeated'
  BY ListSteps
<1>3. OwnPath /\ OwnPoll
  BY DEF KeptInv
<1>10. OwnEnd'
  <2>1. CASE Rests
    BY <1>0, <2>1 DEF OwnEnd, Rests, Appended
  <2>2. ASSUME NEW c \in Creators, Numbers(c) \/ Puts(c) \/ Makes(c) PROVE OwnEnd'
    <3>1. pc'[c] # "commented" /\ \A r \in Requests : r # c => pc'[r] = pc[r]
      BY <1>0, <2>2 DEF Numbers, Puts, Makes, TypeOK
    <3> QED
      BY <1>0, <3>1 DEF OwnEnd
  <2>3. ASSUME NEW q \in Requests, Pushes(q) PROVE OwnEnd'
    <3>1. /\ pc'[q] \in {Succeeded(q), "refind", "panic"}
          /\ \A r \in Requests : r # q => pc'[r] = pc[r]
      BY <2>3 DEF Pushes, TypeOK
    <3> QED
      BY <1>0, <3>1 DEF OwnEnd, Succeeded
  <2> QED
    BY <2>1, <2>2, <2>3, ListSteps
<1> USE <1>10
<1>4. ASSUME Rests PROVE AppendInv'
  <2>1. ListedInv'
    BY <1>0, <1>4 DEF Rests, ListedInv, Appended, Times
  <2>2. CommentedInv'
    <3> SUFFICES ASSUME NEW m \in Commenters
                 PROVE  /\ pc'[m] \in {"append", "refind", "commented"} =>
                            poll'[path[m]] # NoPoll
                        /\ pc'[m] = "commented" /\ path[m] \notin repeated' \cup {0} =>
                            Times(comment'[path[m]], m) >= 1
      BY <1>4 DEF CommentedInv, Rests, Times
    <3>1. /\ pc'[m] \in {"append", "refind", "commented"} =>
                pc[m] \in {"append", "refind", "commented"} \/ poll[path[m]] # NoPoll
          /\ pc'[m] = "commented" => pc[m] = "commented"
      BY <1>0, <1>4 DEF Rests, Appended
    <3>2. poll[path[m]] # NoPoll => poll'[path[m]] # NoPoll
      BY <1>0, <1>4 DEF Rests
    <3> QED
      BY <1>2, <1>4, <3>1, <3>2 DEF CommentedInv, Rests
  <2>3. OnceInv'
    <3>1. \A c \in Creators : /\ pc'[c] # "idle" => pc[c] # "idle"
                              /\ pc'[c] \in {"first", "listed"} <=>
                                    pc[c] \in {"first", "listed"}
      BY <1>0, <1>4 DEF Rests, Appended
    <3>2. \A m \in Commenters : pc'[m] = "commented" <=> pc[m] = "commented"
      BY <1>0, <1>4 DEF Rests, Appended
    <3>3. index' = index /\ comment' = comment /\ path' = path
      BY <1>4 DEF Rests
    <3>4. faults' = MaxFaults => ListedOnce'
      BY <1>0, <1>1, <3>1, <3>3 DEF OnceInv, Times
    <3>5. faults' = MaxFaults => CommentedOnce'
      BY <1>0, <1>1, <3>2, <3>3 DEF OnceInv, Times
    <3> QED
      BY <3>4, <3>5 DEF OnceInv
  <2> QED
    BY <2>1, <2>2, <2>3
<1>5. ASSUME NEW c \in Creators, Numbers(c) PROVE AppendInv'
  <2>1. /\ pc[c] = "idle" /\ pc'[c] = "store"
        /\ index' = index /\ comment' = comment /\ poll' = poll
        /\ \A r \in Requests : r # c => pc'[r] = pc[r] /\ path'[r] = path[r]
    BY <1>0, <1>5 DEF Numbers, TypeOK
  <2>2. ListedInv'
    BY <1>0, <2>1 DEF ListedInv, Times
  <2>3. CommentedInv'
    <3>1. \A m \in Commenters : m # c /\ pc'[m] = pc[m] /\ path'[m] = path[m]
      BY <1>0, <2>1
    <3> QED
      BY <1>2, <2>1, <3>1 DEF CommentedInv, Times
  <2>4. ASSUME faults' = MaxFaults PROVE Times(index[title[c]], path'[c]) = 0
    <3>1. path'[c] = last + 1 /\ last \in Nat
      BY <1>5, <2>4, RequestsAssumption, FS_CardinalityType DEF Numbers, TypeOK, Paths
    <3>2. index[title[c]] \in Seq(Paths)
      BY <1>0 DEF TypeOK
    <3>3. ASSUME NEW i \in 1 .. Len(index[title[c]]) PROVE index[title[c]][i] # last + 1
      <4> DEFINE p == index[title[c]][i]
      <4>1. p \in Paths /\ (p # 0 => poll[p] \in Creators)
        BY <1>0, <3>2, <3>3 DEF SearchFinds
      <4>2. p # 0 => path[poll[p]] = p /\ pc[poll[p]] # "idle"
        BY <1>3, <4>1, NoPollAssumption DEF OwnPoll
      <4>3. p # 0 => p \in 0 .. last
        BY <1>3, <4>1, <4>2 DEF OwnPath
      <4> QED
        BY <3>1, <4>3
    <3> QED
      BY <3>1, <3>2, <3>3, TimesFacts
  <2>5. OnceInv'
    <3> SUFFICES ASSUME faults' = MaxFaults PROVE ListedOnce' /\ CommentedOnce'
      BY DEF OnceInv
    <3>1. ASSUME NEW d \in Creators, pc'[d] # "idle"
          PROVE  Times(index[title[d]], path'[d]) =
                    IF pc'[d] \in {"first", "listed"} THEN 1 ELSE 0
      <4>1. CASE d = c
        BY <2>1, <2>4, <3>1, <4>1
      <4>2. CASE d # c
        BY <1>0, <1>1, <2>1, <3>1, <4>2 DEF OnceInv
      <4> QED
        BY <4>1, <4>2
    <3>2. ASSUME NEW m \in Commenters
          PROVE  Times(comment[path'[m]], m) = IF pc'[m] = "commented" THEN 1 ELSE 0
      <4>1. m # c /\ pc'[m] = pc[m] /\ path'[m] = path[m]
        BY <1>0, <2>1
      <4> QED
        BY <1>1, <4>1 DEF OnceInv
    <3>3. ListedOnce'
      BY <1>0, <2>1, <3>1 DEF Times
    <3>4. CommentedOnce'
      BY <2>1, <3>2 DEF Times
    <3> QED
      BY <3>3, <3>4
  <2> QED
    BY <2>2, <2>3, <2>5
<1>6. ASSUME NEW c \in Creators, Puts(c) PROVE AppendInv'
  <2>1. /\ pc[c] \in {"store", "again"} /\ pc'[c] \in {"again", "name", "panic"}
        /\ path' = path /\ index' = index
        /\ comment' = [comment EXCEPT ![path[c]] = <<>>]
        /\ poll' = [poll EXCEPT ![path[c]] = c]
        /\ pc[c] = "again" => path[c] \in repeated'
        /\ \A r \in Requests : r # c => pc'[r] = pc[r]
    BY <1>0, <1>6 DEF Puts, PutPoll, TypeOK
  <2>2. ListedInv'
    BY <1>0, <2>1 DEF ListedInv, Times
  <2>3. ASSUME NEW m \in Commenters, pc[c] = "store", path[c] # 0
        PROVE  path[m] = path[c] => pc[m] \notin {"append", "refind", "commented"}
    <3>1. poll[path[c]] = NoPoll
      BY <2>3, StoredOnce
    <3> QED
      BY <2>3, <3>1 DEF CommentedInv
  <2>4. \A p \in Paths : /\ p # path[c] => comment'[p] = comment[p] /\ poll'[p] = poll[p]
                         /\ p = path[c] => comment'[p] = <<>> /\ poll'[p] = c
    BY <2>1 DEF TypeOK
  <2>5. CommentedInv'
    <3> SUFFICES ASSUME NEW m \in Commenters
                 PROVE  /\ pc'[m] \in {"append", "refind", "commented"} =>
                            poll'[path[m]] # NoPoll
                        /\ pc'[m] = "commented" /\ path[m] \notin repeated' \cup {0} =>
                            Times(comment'[path[m]], m) >= 1
      <4>1. path' = path
        BY <2>1
      <4> QED
        BY <4>1 DEF CommentedInv, Times
    <3>1. m # c /\ pc'[m] = pc[m] /\ path[m] \in Paths /\ c # NoPoll
      BY <1>0, <2>1, NoPollAssumption
    <3>2. CASE path[m] = path[c]
      <4>1. poll'[path[m]] # NoPoll
        BY <2>4, <3>1, <3>2
      <4>2. pc'[m] = "commented" => path[m] \in repeated' \cup {0}
        BY <2>1, <2>3, <3>1, <3>2
      <4> QED
        BY <4>1, <4>2
    <3>3. CASE path[m] # path[c]
      BY <1>2, <2>4, <3>1, <3>3 DEF CommentedInv
    <3> QED
      BY <3>2, <3>3
  <2>6. Times(<<>>, c) = 0 /\ \A m \in Commenters : Times(<<>>, m) = 0
    BY TimesFew
  <2>7. OnceInv'
    <3> SUFFICES ASSUME faults' = MaxFaults PROVE ListedOnce' /\ CommentedOnce'
      BY DEF OnceInv
    <3>1. \A d \in Creators : pc'[d] # "idle" =>
            Times(index'[title'[d]], path'[d]) =
                IF pc'[d] \in {"first", "listed"} THEN 1 ELSE 0
      BY <1>0, <1>1, <2>1 DEF OnceInv, Times
    <3>2. ASSUME NEW m \in Commenters
          PROVE  Times(comment'[path'[m]], m) = IF pc'[m] = "commented" THEN 1 ELSE 0
      <4>1. m # c /\ pc'[m] = pc[m] /\ path[m] \in Paths /\ path' = path
        BY <1>0, <2>1
      <4>2. CASE path[m] = path[c]
        <5>1. pc[c] = "store" /\ path[c] # 0
          BY <1>1, <1>3, <2>1, FaultsStay DEF RepeatInv, ReplyLost, OwnPath
        <5> QED
          BY <2>3, <2>4, <2>6, <4>1, <4>2, <5>1
      <4>3. CASE path[m] # path[c]
        BY <1>1, <2>4, <4>1, <4>3 DEF OnceInv
      <4> QED
        BY <4>2, <4>3
    <3> QED
      BY <3>1, <3>2 DEF Times
  <2> QED
    BY <2>2, <2>5, <2>7
<1>7. ASSUME NEW c \in Creators, Makes(c) PROVE AppendInv'
  <2>1. /\ pc[c] = "addkv" /\ pc'[c] = "first" /\ index[title[c]] = <<>>
        /\ path' = path /\ comment' = comment /\ poll' = poll
        /\ index' = [index EXCEPT ![title[c]] = <<path[c]>>]
        /\ \A r \in Requests : r # c => pc'[r] = pc[r]
    BY <1>0, <1>7 DEF Makes, Made, TypeOK
  <2>3. \A d \in Creators : Times(<<>>, path[d]) = 0
    BY TimesFew
  <2>4. ASSUME NEW d \in Creators
        PROVE  Times(<<path[c]>>, path[d]) = IF path[c] = path[d] THEN 1 ELSE 0
    BY TimesFew
  <2>5. \A d \in Creators : index'[title[d]] =
            IF title[d] = title[c] THEN <<path[c]>> ELSE index[title[d]]
    BY <1>0, <2>1 DEF TypeOK
  <2>6. ListedInv'
    <3> SUFFICES ASSUME NEW d \in Creators, pc'[d] = "listed"
                 PROVE  Times(index'[title[d]], path[d]) >= 1
      BY <1>0, <2>1 DEF ListedInv, Times
    <3>1. d # c /\ Times(index[title[d]], path[d]) >= 1
      BY <1>0, <2>1 DEF ListedInv
    <3>2. title[d] # title[c]
      BY <2>1, <2>3, <3>1
    <3> QED
      BY <2>5, <3>1, <3>2
  <2>7. CommentedInv'
    BY <1>0, <1>2, <2>1 DEF CommentedInv, Times
  <2>8. OnceInv'
    <3> SUFFICES ASSUME faults' = MaxFaults PROVE ListedOnce' /\ CommentedOnce'
      BY DEF OnceInv
    <3>1. ASSUME NEW d \in Creators, pc'[d] # "idle"
          PROVE  Times(index'[title[d]], path[d]) =
                    IF pc'[d] \in {"first", "listed"} THEN 1 ELSE 0
      <4>1. CASE d = c
        BY <2>1, <2>4, <2>5, <4>1
      <4>2. CASE d # c
        <5>1. pc[d] # "idle" /\ pc'[d] = pc[d] /\ path[d] # path[c]
          BY <1>0, <1>1, <1>3, <2>1, <3>1, <4>2 DEF OwnPath
        <5>2. Times(index[title[d]], path[d]) = IF pc[d] \in {"first", "listed"} THEN 1 ELSE 0
          BY <1>1, <5>1 DEF OnceInv
        <5> QED
          BY <2>1, <2>3, <2>4, <2>5, <5>1, <5>2
      <4> QED
        BY <4>1, <4>2
    <3>2. \A m \in Commenters :
            Times(comment'[path'[m]], m) = IF pc'[m] = "commented" THEN 1 ELSE 0
      BY <1>0, <1>1, <2>1 DEF OnceInv, Times
    <3>3. ListedOnce'
      BY <1>0, <2>1, <3>1 DEF Times
    <3>4. CommentedOnce'
      BY <2>1, <3>2 DEF Times
    <3> QED
      BY <3>3, <3>4
  <2> QED
    BY <2>6, <2>7, <2>8
<1>8. ASSUME NEW c \in Creators, Pushes(c) PROVE AppendInv'
  <2>1. /\ pc[c] = "append" /\ path' = path /\ comment' = comment /\ poll' = poll
        /\ index' = [index EXCEPT ![title[c]] = Append(@, path[c])]
        /\ \A r \in Requests : r # c => pc'[r] = pc[r]
        /\ pc'[c] = "listed" \/ (pc'[c] \in {"refind", "panic"} /\ faults' # MaxFaults)
    <3>1. c \in Requests
      BY <1>0
    <3>2. /\ comment' = comment
          /\ index' = [index EXCEPT ![title[c]] = Append(@, path[c])]
      BY <1>8, <3>1, PushFacts DEF Pushes
    <3>3. Succeeded(c) = "listed"
      BY DEF Succeeded
    <3> QED
      BY <1>8, <3>2, <3>3 DEF Pushes, TypeOK
  <2>2. ASSUME NEW d \in Creators
        PROVE  /\ Times(index[title[d]], path[d]) \in Nat
               /\ Times(index'[title[d]], path[d]) = Times(index[title[d]], path[d])
                    + (IF title[d] = title[c] /\ path[d] = path[c] THEN 1 ELSE 0)
    <3>1. Times(index[title[d]], path[d]) \in Nat
      BY CountsAreNumbers
    <3>2. index'[title[d]] = IF title[d] = title[c] THEN Append(index[title[d]], path[c])
                                                    ELSE index[title[d]]
      BY <1>0, <2>1 DEF TypeOK
    <3>3. Times(Append(index[title[d]], path[c]), path[d]) =
            Times(index[title[d]], path[d]) + (IF path[c] = path[d] THEN 1 ELSE 0)
      <4>1. index[title[d]] \in Seq(Paths) /\ path[c] \in Paths
        BY <1>0 DEF TypeOK
      <4> QED
        BY <4>1, TimesAppend
    <3> QED
      BY <3>1, <3>2, <3>3
  <2>3. ListedInv'
    <3> SUFFICES ASSUME NEW d \in Creators, pc'[d] = "listed"
                 PROVE  Times(index'[title[d]], path[d]) >= 1
      BY <1>0, <2>1 DEF ListedInv, Times
    <3>1. CASE d = c
      BY <2>2, <3>1
    <3>2. CASE d # c
      <4>1. Times(index[title[d]], path[d]) >= 1
        BY <1>0, <2>1, <3>2 DEF ListedInv
      <4> QED
        BY <2>2, <4>1
    <3> QED
      BY <3>1, <3>2
  <2>4. CommentedInv'
    BY <1>0, <1>2, <2>1 DEF CommentedInv, Times
  <2>5. OnceInv'
    <3> SUFFICES ASSUME faults' = MaxFaults PROVE ListedOnce' /\ CommentedOnce'
      BY DEF OnceInv
    <3>1. ASSUME NEW d \in Creators, pc'[d] # "idle"
          PROVE  Times(index'[title[d]], path[d]) =
                    IF pc'[d] \in {"first", "listed"} THEN 1 ELSE 0
      <4>1. CASE d = c
        <5>1. Times(index[title[c]], path[c]) = 0 /\ pc'[c] = "listed"
          BY <1>1, <2>1 DEF OnceInv
        <5> QED
          BY <2>2, <4>1, <5>1
      <4>2. CASE d # c
        <5>1. pc[d] # "idle" /\ pc'[d] = pc[d] /\ path[d] # path[c]
          BY <1>0, <1>1, <1>3, <2>1, <3>1, <4>2 DEF OwnPath
        <5>2. Times(index[title[d]], path[d]) = IF pc[d] \in {"first", "listed"} THEN 1 ELSE 0
          BY <1>1, <5>1 DEF OnceInv
        <5> QED
          BY <2>2, <5>1, <5>2
      <4> QED
        BY <4>1, <4>2
    <3>2. \A m \in Commenters :
            Times(comment'[path'[m]], m) = IF pc'[m] = "commented" THEN 1 ELSE 0
      BY <1>0, <1>1, <2>1 DEF OnceInv, Times
    <3>3. ListedOnce'
      BY <1>0, <2>1, <3>1 DEF Times
    <3>4. CommentedOnce'
      BY <2>1, <3>2 DEF Times
    <3> QED
      BY <3>3, <3>4
  <2> QED
    BY <2>3, <2>4, <2>5
<1>9. ASSUME NEW q \in Commenters, Pushes(q) PROVE AppendInv'
  <2>1. /\ pc[q] = "append" /\ path' = path /\ index' = index /\ poll' = poll
        /\ comment' = [comment EXCEPT ![path[q]] = Append(@, q)]
        /\ \A r \in Requests : r # q => pc'[r] = pc[r]
        /\ pc'[q] = "commented" \/ (pc'[q] \in {"refind", "panic"} /\ faults' # MaxFaults)
    <3>1. q \notin Creators /\ q \in Requests
      BY <1>0
    <3>2. /\ index' = index
          /\ comment' = [comment EXCEPT ![path[q]] = Append(@, q)]
      BY <1>9, <3>1, PushFacts DEF Pushes
    <3>3. Succeeded(q) = "commented"
      BY <3>1 DEF Succeeded
    <3> QED
      BY <1>9, <3>2, <3>3 DEF Pushes, TypeOK
  <2>2. ASSUME NEW m \in Commenters
        PROVE  /\ Times(comment[path[m]], m) \in Nat
               /\ Times(comment'[path[m]], m) = Times(comment[path[m]], m)
                    + (IF m = q THEN 1 ELSE 0)
    <3>1. Times(comment[path[m]], m) \in Nat
      BY CountsAreNumbers
    <3>2. comment'[path[m]] = IF path[m] = path[q] THEN Append(comment[path[m]], q)
                                                   ELSE comment[path[m]]
      BY <1>0, <2>1 DEF TypeOK
    <3>3. Times(Append(comment[path[m]], q), m) =
            Times(comment[path[m]], m) + (IF q = m THEN 1 ELSE 0)
      <4>1. comment[path[m]] \in Seq(Commenters)
        BY <1>0 DEF TypeOK
      <4> QED
        BY <4>1, TimesAppend
    <3> QED
      BY <3>1, <3>2, <3>3
  <2>3. ListedInv'
    BY <1>0, <2>1 DEF ListedInv, Times
  <2>4. CommentedInv'
    <3> SUFFICES ASSUME NEW m \in Commenters
                 PROVE  /\ pc'[m] \in {"append", "refind", "commented"} =>
                            poll'[path[m]] # NoPoll
                        /\ pc'[m] = "commented" /\ path[m] \notin repeated' \cup {0} =>
                            Times(comment'[path[m]], m) >= 1
      <4>1. path' = path
        BY <2>1
      <4> QED
        BY <4>1 DEF CommentedInv, Times
    <3>1. CASE m = q
      BY <1>2, <2>1, <2>2, <3>1 DEF CommentedInv
    <3>2. CASE m # q
      <4>1. pc'[m] = pc[m]
        BY <1>0, <2>1, <3>2
      <4> QED
        BY <1>2, <2>1, <2>2, <3>2, <4>1 DEF CommentedInv
    <3> QED
      BY <3>1, <3>2
  <2>5. OnceInv'
    <3> SUFFICES ASSUME faults' = MaxFaults PROVE ListedOnce' /\ CommentedOnce'
      BY DEF OnceInv
    <3>1. \A d \in Creators : pc'[d] # "idle" =>
            Times(index'[title'[d]], path'[d]) =
                IF pc'[d] \in {"first", "listed"} THEN 1 ELSE 0
      BY <1>0, <1>1, <2>1 DEF OnceInv, Times
    <3>2. ASSUME NEW m \in Commenters
          PROVE  Times(comment'[path[m]], m) = IF pc'[m] = "commented" THEN 1 ELSE 0
      <4>1. Times(comment[path[m]], m) = IF pc[m] = "commented" THEN 1 ELSE 0
        BY <1>1 DEF OnceInv
      <4>2. m # q => pc'[m] = pc[m]
        BY <1>0, <2>1
      <4> QED
        BY <2>1, <2>2, <4>1, <4>2
    <3> QED
      BY <2>1, <3>1, <3>2 DEF Times
  <2> QED
    BY <2>3, <2>4, <2>5
<1> QED
  BY <1>4, <1>5, <1>6, <1>7, <1>8, <1>9, ListSteps DEF Requests

-----------------------------------------------------------------------------
(* The invariant.                                                          *)

(* It holds when no request has begun.                                     *)
LEMMA InvInit == Init => Inv
<1> SUFFICES ASSUME Init PROVE Inv
  OBVIOUS
<1> USE DEF Init
<1>1. 0 \in Paths /\ Commenters \subseteq Requests /\ Creators \subseteq Requests
      /\ Cardinality(Begun) \in Nat
  <2>1. Begun \in SUBSET Creators
    BY DEF Begun
  <2> QED
    BY <2>1, RequestsAssumption, FS_CardinalityType, FS_Subset DEF Paths, Requests
<1>2. TypeOK
  <2>1. path \in [Requests -> Paths]
    BY <1>1, TargetsAssumption DEF Paths
  <2>2. /\ pc \in [Requests -> {"idle"} \cup Running \cup Ended]
        /\ seen \in [Requests -> Seq(Paths \cup Commenters)]
        /\ index \in [Titles -> Seq(Paths)] /\ comment \in [Paths -> Seq(Commenters)]
        /\ poll \in [Paths -> Creators \cup {NoPoll}]
    OBVIOUS
  <2> QED
    BY <1>1, <2>1, <2>2, FaultsAssumption DEF TypeOK
<1>3. NumbersInv
  BY <1>1 DEF NumbersInv
<1>4. KeptInv /\ RepeatInv
  BY <1>1 DEF KeptInv, OwnPath, OwnPoll, Stored, RepeatInv
<1>5. IndexInv
  BY <1>1 DEF IndexInv
<1>6. SearchFinds
  BY DEF SearchFinds
<1>7. AppendInv
  <2>2. \A m \in Commenters : Times(<<>>, m) = 0
    BY TimesFew
  <2>3. \A m \in Commenters : path[m] \in Paths
    BY <1>1, <1>2 DEF TypeOK
  <2> QED
    BY <1>1, <2>2, <2>3 DEF AppendInv, ListedInv, CommentedInv, OnceInv, ListedOnce, CommentedOnce, OwnEnd
<1> QED
  BY <1>2, <1>3, <1>4, <1>5, <1>6, <1>7 DEF Inv

(* And after every step.                                                   *)
LEMMA InvStep == Inv /\ [Next]_vars => Inv'
  BY TypeStep, NumbersStep, KeptStep, RepeatStep, IndexStep, SearchStep, AppendStep DEF Inv

(* Every variable keeps its type: among them, no number is given that is   *)
(* not a path (ParserCreateVote, vote.go:118-142).                         *)
THEOREM TypeCorrect == Spec => []TypeOK
<1>1. Inv => TypeOK
  BY DEF Inv
<1> QED
  BY <1>1, InvInit, InvStep, PTL DEF Spec

(* What a search finds under a number is a poll of that name               *)
(* (route.go:191-205, vote.go:118-130), whatever creators do at once and   *)
(* whatever fails.                                                         *)
THEOREM SearchFindsHolds == Spec => []SearchFinds
<1>1. Inv => SearchFinds
  BY DEF Inv
<1> QED
  BY <1>1, InvInit, InvStep, PTL DEF Spec

(* Of the polls of one name that get to AddKV at the same time one makes   *)
(* the entry, and it stays the first (vote.go:125-130).                    *)
THEOREM OneIsRecordedHolds == Spec => []OneIsRecorded
<1>1. Inv => OneIsRecorded
  <2> SUFFICES ASSUME Inv, NEW c \in Creators
               PROVE  /\ pc[c] = "first" => index[title[c]][1] = path[c]
                      /\ pc[c] = "unlisted" /\ faults = MaxFaults =>
                            \E d \in Creators \ {c} : title[d] = title[c] /\ pc[d] = "first"
    BY DEF OneIsRecorded
  <2>1. IndexInv /\ title[c] \in Titles
    BY DEF Inv, TypeOK
  <2>2. ASSUME pc[c] = "unlisted", faults = MaxFaults
        PROVE  \E d \in Creators \ {c} : title[d] = title[c] /\ pc[d] = "first"
    <3>1. index[title[c]] # <<>>
      BY <2>1, <2>2, FaultsAssumption DEF IndexInv
    <3>2. PICK d \in Creators : title[d] = title[c] /\ pc[d] = "first"
      BY <2>1, <3>1 DEF IndexInv
    <3> QED
      BY <2>2, <3>2
  <2> QED
    BY <2>1, <2>2 DEF IndexInv
<1> QED
  BY <1>1, InvInit, InvStep, PTL DEF Spec

(* Every path in an index that exists and every comment is there, however  *)
(* many append to the list at once and whatever fails, and once before the *)
(* first fault (vote.go:131-142, 238-253).  The comments left out are on   *)
(* polls without a number and on polls that redis has stored again after a *)
(* lost reply (redis.go:56), and without one it stores none again.         *)
THEOREM AppendedOnceHolds == Spec => []AppendedOnce
<1>1. Inv => AppendedOnce
  <2> SUFFICES ASSUME Inv, NEW r \in Requests, pc[r] \in {"listed", "commented"}
               PROVE  LET entry == IF r \in Creators THEN path[r] ELSE r IN
                      /\ r \in Creators \/ path[r] \notin repeated \cup {0} =>
                            Times(List(r), entry) >= 1
                      /\ faults = MaxFaults => Times(List(r), entry) = 1
    BY DEF AppendedOnce, Inv, RepeatInv, ReplyLost
  <2>1. AppendInv /\ Creators \cap Commenters = {}
    BY RequestsAssumption DEF Inv
  <2>2. CASE r \in Creators
    <3>1. pc[r] = "listed"
      BY <2>2 DEF Inv, AppendInv, OwnEnd
    <3> QED
      BY <2>1, <2>2, <3>1 DEF AppendInv, ListedInv, OnceInv, ListedOnce, List
  <2>3. CASE r \in Commenters
    <3>1. pc[r] = "commented"
      BY <2>3 DEF Inv, AppendInv, OwnEnd
    <3> QED
      BY <2>1, <2>3, <3>1 DEF AppendInv, CommentedInv, OnceInv, CommentedOnce, List
  <2> QED
    BY <2>2, <2>3 DEF Requests
<1> QED
  BY <1>1, InvInit, InvStep, PTL DEF Spec

(* A poll under a number is never stored over another, and keeps its       *)
(* comments in their order, whatever fails, but for the HSET its creator   *)
(* repeats before it goes on (vote.go:118-121, 240-253, redis.go:56).      *)
THEOREM PollsAreKeptHolds == Spec => PollsAreKept
<1> DEFINE Kept ==
        \A p \in Paths \ {0} : poll[p] # NoPoll =>
            /\ poll'[p] = poll[p]
            /\ \/ pc[poll[p]] = "again" /\ p \in repeated' /\ comment'[p] = <<>>
               \/ /\ Len(comment'[p]) >= Len(comment[p])
                  /\ SubSeq(comment'[p], 1, Len(comment[p])) = comment[p]
<1>1. Inv /\ [Next]_vars => [Kept]_vars
  BY PollsStep DEF Inv
<1>2. Spec => [][Kept]_vars
  BY <1>1, InvInit, InvStep, PTL DEF Spec
<1> QED
  BY <1>2 DEF PollsAreKept

-----------------------------------------------------------------------------
(* Why every request ends (RequestsEnd): the loop on Updata (vote.go:132,  *)
(* 238) is as long as the list a request reads is changed under it, and    *)
(* every change uses something up.                                         *)

(* The other requests that may still append, and the polls yet to be       *)
(* stored: redis' HSET writes a list of comments, too.                     *)
Unended(r) == {s \in Requests \ {r} : pc[s] \notin Ended}
Unstored(r) == {s \in Creators \ {r} : pc[s] \in {"idle", "store", "again"}}

Budget(r) == Cardinality(Unended(r)) + Cardinality(Unstored(r)) + faults

(* No fewer than the calls r makes if nothing comes between.               *)
Stage(r) ==
    CASE pc[r] \in {"store", "again"} -> 6
      [] pc[r] = "name" -> 5
      [] pc[r] = "addkv" -> 4
      [] pc[r] = "append" -> IF Hits(r) THEN 1 ELSE 3
      [] pc[r] = "refind" -> 2
      [] OTHER -> 0

(* What comes between costs a request at most two calls more.              *)
Rank(r) == 3 * Budget(r) + Stage(r)

(* The rank is a natural number, and so are the counts it is made of.      *)
LEMMA RankTypes ==
    ASSUME TypeOK, NEW r \in Requests
    PROVE  /\ IsFiniteSet(Unended(r)) /\ Cardinality(Unended(r)) \in Nat
           /\ IsFiniteSet(Unstored(r)) /\ Cardinality(Unstored(r)) \in Nat
           /\ Budget(r) \in Nat /\ Stage(r) \in 0 .. 6 /\ Rank(r) \in Nat
<1>1. IsFiniteSet(Requests)
  BY RequestsAssumption, FS_Union DEF Requests
<1>2. /\ IsFiniteSet(Unended(r)) /\ Cardinality(Unended(r)) \in Nat
      /\ IsFiniteSet(Unstored(r)) /\ Cardinality(Unstored(r)) \in Nat
  <2>1. Unended(r) \in SUBSET Requests /\ Unstored(r) \in SUBSET Requests
    BY DEF Unended, Unstored, Requests
  <2> QED
    BY <1>1, <2>1, FS_Subset, FS_CardinalityType
<1>3. faults \in Nat
  BY FaultsAssumption DEF TypeOK
<1>4. Budget(r) \in Nat
  BY <1>2, <1>3 DEF Budget
<1>5. Stage(r) \in 0 .. 6
  BY DEF Stage
<1> QED
  BY <1>2, <1>4, <1>5 DEF Rank

(* It is one in the next state, too.                                       *)
LEMMA RankTypesNext ==
    TypeOK' => \A r \in Requests :
        Budget(r)' \in Nat /\ Stage(r)' \in 0 .. 6 /\ Rank(r)' \in Nat
<1> DEFINE Typed == \A r \in Requests :
        Budget(r) \in Nat /\ Stage(r) \in 0 .. 6 /\ Rank(r) \in Nat
<1>1. TypeOK => Typed
  BY RankTypes
<1> HIDE DEF Typed
<1>2. TypeOK' => Typed'
  BY <1>1, PTL
<1> QED
  BY <1>2 DEF Typed

(* Fewer elements when some go, strictly fewer when one does.              *)
LEMMA FewerLeft ==
    ASSUME NEW S, IsFiniteSet(S), NEW T \in SUBSET S
    PROVE  /\ Cardinality(T) <= Cardinality(S)
           /\ T # S => Cardinality(T) < Cardinality(S)
<1>1. /\ IsFiniteSet(T) /\ Cardinality(T) <= Cardinality(S)
      /\ Cardinality(S) = Cardinality(T) => S = T
  BY FS_Subset
<1>2. Cardinality(T) \in Nat /\ Cardinality(S) \in Nat
  BY <1>1, FS_CardinalityType
<1> QED
  BY <1>1, <1>2

(* A step that a request or the database makes for request q.              *)
StepOf(q) ==
    \/ q \in Creators /\ (Add(q) \/ Create(q) \/ CreateFault(q))
    \/ q \in Commenters /\ FindPoll(q)
    \/ Finish(q) \/ UpdataConflict(q) \/ UpdataReplyLost(q) \/ CallFailed(q)

(* What a step of q that changes a list uses up: a fault, the request, or  *)
(* a poll yet to be stored.                                                *)
Spends(q) ==
    \/ faults' = faults - 1
    \/ pc'[q] \in Ended
    \/ q \in Creators /\ pc[q] \in {"store", "again"} /\ pc'[q] = "name"

(* The shape of every step of a request: it leaves the other requests      *)
(* alone, never starts again, and changes a list only as Spends says.      *)
LEMMA StepShape ==
    ASSUME TypeOK, NEW q \in Requests, StepOf(q)
    PROVE  /\ mode' = mode /\ title' = title
           /\ \A r \in Requests \ {q} :
                pc'[r] = pc[r] /\ path'[r] = path[r] /\ seen'[r] = seen[r]
           /\ pc[q] \notin Ended
           /\ pc'[q] \in {"idle", "store", "again"} => pc[q] \in {"idle", "store", "again"}
           /\ faults' = faults \/ faults' = faults - 1
           /\ UNCHANGED <<index, comment>> \/ Spends(q)
<1>1. DOMAIN pc = Requests /\ DOMAIN path = Requests /\ DOMAIN seen = Requests
  BY DEF TypeOK
<1>2. ASSUME NEW how, Goto(q, how)
      PROVE  pc'[q] = how /\ \A r \in Requests \ {q} : pc'[r] = pc[r]
  BY <1>1, <1>2 DEF Goto
<1>3. ASSUME NEW list, Copy(q, list) PROVE \A r \in Requests \ {q} : seen'[r] = seen[r]
  BY <1>1, <1>3 DEF Copy
<1>4. CASE Add(q) \/ IncFails(q)
  BY <1>1, <1>2, <1>4 DEF Add, IncFails, Fault, Spends, Ended
<1>5. CASE q \in Creators /\ (Store(q) \/ StoreReplyLost(q))
  BY <1>2, <1>5 DEF Store, StoreReplyLost, Fault, Spends, Ended
<1>6. CASE FindName(q)
  BY <1>2, <1>3, <1>6 DEF FindName, store, Ended
<1>7. CASE AddKV(q)
  BY <1>2, <1>7 DEF AddKV, Spends, Ended
<1>8. CASE AddKVFails(q) \/ CallFailed(q) \/ UpdataConflict(q)
  BY <1>2, <1>8 DEF AddKVFails, CallFailed, UpdataConflict, Fault, Spends, Running,
     Ended, store
<1>9. CASE FindPoll(q) \/ FindAgain(q)
  BY <1>2, <1>3, <1>9 DEF FindPoll, FindAgain, store, Ended
<1>10. CASE Updata(q)
  BY <1>2, <1>10 DEF Updata, Succeeded, Spends, Ended
<1>11. CASE UpdataReplyLost(q)
  BY <1>2, <1>11 DEF UpdataReplyLost, Fault, Spends, Ended
<1> QED
  BY <1>4, <1>5, <1>6, <1>7, <1>8, <1>9, <1>10, <1>11 DEF StepOf, Create, CreateFault, Finish

(* A step of another request q never adds to what can come between, and    *)
(* takes from it what Spends says it uses up.                              *)
LEMMA OthersSpend ==
    ASSUME TypeOK, TypeOK', NEW r \in Requests, NEW q \in Requests, q # r, StepOf(q)
    PROVE  /\ Budget(r)' <= Budget(r)
           /\ Spends(q) => Budget(r)' < Budget(r)
<1>1. /\ \A s \in Requests \ {q} : pc'[s] = pc[s]
      /\ pc[q] \notin Ended
      /\ pc'[q] \in {"idle", "store", "again"} => pc[q] \in {"idle", "store", "again"}
      /\ faults' = faults \/ faults' = faults - 1
  BY StepShape
<1>2. faults \in Nat /\ faults' \in Nat
  BY FaultsAssumption DEF TypeOK
<1>3. Unended(r)' \subseteq Unended(r) /\ Unstored(r)' \subseteq Unstored(r)
  BY <1>1 DEF Unended, Unstored, Requests
<1>4. /\ IsFiniteSet(Unended(r)) /\ IsFiniteSet(Unstored(r))
      /\ Cardinality(Unended(r)) \in Nat /\ Cardinality(Unended(r)') \in Nat
      /\ Cardinality(Unstored(r)) \in Nat /\ Cardinality(Unstored(r)') \in Nat
  <2>1. /\ IsFiniteSet(Unended(r)) /\ IsFiniteSet(Unstored(r))
        /\ Cardinality(Unended(r)) \in Nat /\ Cardinality(Unstored(r)) \in Nat
    BY RankTypes
  <2>2. IsFiniteSet(Unended(r)') /\ IsFiniteSet(Unstored(r)')
    BY <1>3, <2>1, FS_Subset
  <2> QED
    BY <2>1, <2>2, FS_CardinalityType
<1>5. /\ Cardinality(Unended(r)') <= Cardinality(Unended(r))
      /\ Unended(r)' # Unended(r) => Cardinality(Unended(r)') < Cardinality(Unended(r))
  BY <1>3, <1>4, FewerLeft
<1>6. /\ Cardinality(Unstored(r)') <= Cardinality(Unstored(r))
      /\ Unstored(r)' # Unstored(r) => Cardinality(Unstored(r)') < Cardinality(Unstored(r))
  BY <1>3, <1>4, FewerLeft
<1>7. Spends(q) => \/ faults' = faults - 1 \/ Unended(r)' # Unended(r)
                   \/ Unstored(r)' # Unstored(r)
  BY <1>1 DEF Spends, Unended, Unstored
<1>8. Budget(r) = Cardinality(Unended(r)) + Cardinality(Unstored(r)) + faults
  BY DEF Budget
<1>9. Budget(r)' = Cardinality(Unended(r)') + Cardinality(Unstored(r)') + faults'
  BY DEF Budget
<1>10. Budget(r)' <= Budget(r)
  BY <1>1, <1>2, <1>4, <1>5, <1>6, <1>8, <1>9
<1>11. ASSUME Spends(q) PROVE Budget(r)' < Budget(r)
  BY <1>1, <1>2, <1>4, <1>5, <1>6, <1>7, <1>8, <1>9, <1>11
<1> QED
  BY <1>10, <1>11

(* A step of the request itself takes it nearer to its end, or is a fault. *)
LEMMA OwnStep ==
    ASSUME TypeOK, NEW r \in Requests, StepOf(r),
           pc[r] \in Running, pc'[r] \in Running
    PROVE  \/ faults' = faults /\ Stage(r)' < Stage(r)
           \/ faults' = faults - 1 /\ Stage(r)' <= Stage(r) + 2
<1>1. DOMAIN pc = Requests /\ DOMAIN seen = Requests
  BY DEF TypeOK
<1>2. ASSUME NEW how, Goto(r, how) PROVE pc'[r] = how
  BY <1>1, <1>2 DEF Goto
<1>3. CASE Add(r) \/ IncFails(r) \/ FindPoll(r) \/ AddKVFails(r) \/ CallFailed(r)
  BY <1>2, <1>3 DEF Add, IncFails, FindPoll, AddKVFails, CallFailed, Running
<1>4. CASE Store(r) \/ StoreReplyLost(r)
  BY <1>2, <1>4 DEF Store, StoreReplyLost, Fault, Stage, Running
<1>5. CASE FindName(r)
  <2>1. pc[r] = "name" /\ pc'[r] \in {"addkv", "append"} /\ faults' = faults
    BY <1>2, <1>5 DEF FindName
  <2> QED
    BY <2>1 DEF Stage
<1>6. CASE AddKV(r)
  BY <1>2, <1>6 DEF AddKV, Running
<1>7. CASE Updata(r)
  <2>1. /\ pc[r] = "append" /\ pc'[r] = "refind" /\ ~Hits(r) /\ faults' = faults
    BY <1>2, <1>7 DEF Updata, Succeeded, Running
  <2> QED
    BY <2>1 DEF Stage
<1>8. CASE FindAgain(r)
  <2>1. /\ pc[r] = "refind" /\ pc'[r] = "append" /\ Copy(r, List(r))
        /\ UNCHANGED <<mode, store, faults, title, path>>
    BY <1>2, <1>8 DEF FindAgain
  <2>2. Hits(r)'
    BY <1>1, <2>1 DEF Hits, List, Copy, store
  <2> QED
    BY <2>1, <2>2 DEF Stage
<1>9. CASE UpdataConflict(r) \/ UpdataReplyLost(r)
  <2>1. pc[r] = "append" /\ pc'[r] = "refind" /\ faults' = faults - 1
    BY <1>2, <1>9 DEF UpdataConflict, UpdataReplyLost, Fault, Running
  <2> QED
    BY <2>1 DEF Stage
<1> QED
  BY <1>3, <1>4, <1>5, <1>6, <1>7, <1>8, <1>9 DEF StepOf, Create, CreateFault, Finish

(* A running request never moves away from its end, whoever takes a step,  *)
(* and each call of its own takes it nearer.                               *)
RankFalls ==
    \A r \in Requests :
        pc[r] \in Running /\ pc'[r] \in Running =>
            /\ Rank(r) \in Nat /\ Rank(r)' \in Nat
            /\ Rank(r)' <= Rank(r)
            /\ pc'[r] # pc[r] => Rank(r)' < Rank(r)

(* Every step of the program makes RankFalls true.                         *)
LEMMA RankStep == TypeOK /\ TypeOK' /\ [Next]_vars => RankFalls
<1> SUFFICES ASSUME TypeOK, TypeOK', [Next]_vars, NEW r \in Requests,
                    pc[r] \in Running, pc'[r] \in Running
             PROVE  /\ Rank(r)' <= Rank(r)
                    /\ pc'[r] # pc[r] => Rank(r)' < Rank(r)
  BY RankTypes, RankTypesNext DEF RankFalls
<1>1. /\ Budget(r) \in Nat /\ Budget(r)' \in Nat
      /\ Stage(r) \in 0 .. 6 /\ Stage(r)' \in 0 .. 6
  BY RankTypes, RankTypesNext
<1>2. faults \in Nat /\ faults' \in Nat
  BY FaultsAssumption DEF TypeOK
<1>3. CASE StepOf(r)
  <2>1. \A s \in Requests \ {r} : pc'[s] = pc[s]
    BY <1>3, StepShape
  <2>2. Unended(r)' = Unended(r) /\ Unstored(r)' = Unstored(r)
    BY <2>1 DEF Unended, Unstored, Requests
  <2>3. /\ Cardinality(Unended(r)) \in Nat /\ Cardinality(Unstored(r)) \in Nat
    BY RankTypes
  <2>4. Budget(r)' = Budget(r) - (faults - faults')
    BY <1>2, <2>2, <2>3 DEF Budget
  <2>5. \/ faults' = faults /\ Stage(r)' < Stage(r)
        \/ faults' = faults - 1 /\ Stage(r)' <= Stage(r) + 2
    BY <1>3, OwnStep
  <2> QED
    BY <1>1, <1>2, <2>4, <2>5 DEF Rank
<1>4. ASSUME NEW q \in Requests, q # r, StepOf(q)
      PROVE  pc'[r] = pc[r] /\ Rank(r)' <= Rank(r)
  <2>1. /\ mode' = mode /\ title' = title
        /\ pc'[r] = pc[r] /\ path'[r] = path[r] /\ seen'[r] = seen[r]
        /\ UNCHANGED <<index, comment>> \/ Spends(q)
    BY <1>4, StepShape
  <2>2. Budget(r)' <= Budget(r) /\ (Spends(q) => Budget(r)' < Budget(r))
    BY <1>4, OthersSpend
  <2>3. Stage(r)' <= Stage(r) + 2
    BY <2>1 DEF Stage
  <2>4. UNCHANGED <<index, comment>> => Stage(r)' = Stage(r)
    BY <2>1 DEF Stage, Hits, List
  <2> QED
    BY <1>1, <2>1, <2>2, <2>3, <2>4 DEF Rank
<1>5. CASE Crash
  BY <1>5 DEF Crash, TypeOK, Running
<1>6. CASE UNCHANGED vars
  <2>1. Stage(r)' = Stage(r) /\ Budget(r)' = Budget(r)
    BY <1>6 DEF vars, Stage, Hits, List, Budget, Unended, Unstored
  <2> QED
    BY <1>1, <1>6, <2>1 DEF vars, Rank
<1> QED
  BY <1>3, <1>4, <1>5, <1>6 DEF Next, StepOf, Requests

(* No call of a creator or of a commenter is made in vain: an Updata that  *)
(* hits nothing has been beaten by an append, by a poll stored anew or by  *)
(* a fault, and there are only so many (vote.go:132, 238).                 *)
THEOREM RankDescends == Spec => [][RankFalls]_vars
  BY RankStep, TypeCorrect, PTL DEF Spec
=============================================================================
