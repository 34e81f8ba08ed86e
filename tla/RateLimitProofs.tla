--------------------------- MODULE RateLimitProofs ---------------------------
(***************************************************************************)
(* Theorems of module RateLimit, for every set of attempts, every limit    *)
(* and every number of restarts and failing redis calls.                   *)
(***************************************************************************)
EXTENDS RateLimit, TLAPS, FiniteSetTheorems

(* The attempts that may have made an entry.                               *)
Used == {a \in Attempts : pc[a] \notin {"idle", "store"}}

(* Entries are made one after the other, each by an attempt or a start.    *)
EntryInv ==
    /\ made <= Cardinality(Used) + (MaxStarts - starts)
    /\ cur <= made
    /\ \A a \in Attempts :
        /\ ptr[a] <= made
        /\ pc[a] \in {"arm", "add"} => ptr[a] # 0
        /\ pc[a] \in {"idle", "store", "add"} => number[a] = 0

(* The numbers of a window are 1, 2, 3 ... as far as its entry has come.   *)
Undisturbed == starts = MaxStarts /\ faults = MaxFaults

Distinct ==
    \A a, b \in Attempts :
        number[a] > 0 /\ ptr[a] = ptr[b] /\ number[a] = number[b] => a = b

Told ==
    \A a \in Attempts :
        /\ number[a] > 0 => ptr[a] # 0 /\ number[a] <= count[ptr[a]]
        /\ pc[a] = "allowed" => number[a] <= MaxCount
        /\ pc[a] = "arm" => number[a] = 1

Exact ==
    /\ \A c \in Windows : c > made => count[c] = 0
    /\ Undisturbed => \A c \in Windows : count[c] = Cardinality(CountedIn(c))

(* A timer belongs to the key's entry, and an attempt that is about to set *)
(* one is the only one and made that entry.                                *)
TimerInv ==
    /\ timers \subseteq {cur}
    /\ ~up /\ Os => cur = 0
    /\ \A a \in Attempts :
        pc[a] = "arm" => up /\ ptr[a] = cur /\ timers = {}
    /\ \A a, b \in Attempts : pc[a] = "arm" /\ pc[b] = "arm" => a = b

Inv == TypeOK /\ EntryInv /\ Distinct /\ Told /\ Exact /\ TimerInv

-----------------------------------------------------------------------------
(* Sets of attempts are finite, and their sizes grow with them.            *)
LEMMA AttemptSets ==
    ASSUME NEW S \in SUBSET Attempts, NEW T \in SUBSET Attempts, S \subseteq T
    PROVE  /\ IsFiniteSet(S) /\ Cardinality(S) \in Nat /\ Cardinality(T) \in Nat
           /\ Cardinality(S) <= Cardinality(T)
           /\ \A a \in T \ S : Cardinality(S) + 1 <= Cardinality(T)
<1>1. IsFiniteSet(S) /\ IsFiniteSet(T)
  BY AttemptsAssumption, FS_Subset
<1>2. Cardinality(S) \in Nat /\ Cardinality(T) \in Nat
  BY <1>1, FS_CardinalityType
<1>3. Cardinality(S) <= Cardinality(T)
  BY <1>1, FS_Subset
<1>4. ASSUME NEW a \in T \ S PROVE Cardinality(S) + 1 <= Cardinality(T)
  <2>1. Cardinality(S \cup {a}) = Cardinality(S) + 1
    BY <1>1, FS_AddElement
  <2>2. S \cup {a} \in SUBSET T
    OBVIOUS
  <2>3. Cardinality(S \cup {a}) <= Cardinality(T)
    BY <1>1, <2>2, FS_Subset
  <2> QED
    BY <2>1, <2>3
<1> QED
  BY <1>1, <1>2, <1>3, <1>4

(* There is room for one more entry while an attempt has not counted yet,  *)
(* and while the program may start again.                                  *)
LEMMA RoomForEntry ==
    ASSUME TypeOK, EntryInv
    PROVE  /\ \A a \in Attempts : pc[a] \in {"idle", "store"} => made + 1 \in Windows
           /\ starts > 0 => made + 1 \in Windows
           /\ made \in Nat /\ \A c \in Windows : c \in Nat /\ c # 0
<1> USE BoundsAssumption
<1>1. /\ Cardinality(Used) \in Nat /\ Cardinality(Attempts) \in Nat
      /\ Cardinality(Used) <= Cardinality(Attempts)
      /\ \A a \in Attempts : pc[a] \in {"idle", "store"} =>
            Cardinality(Used) + 1 <= Cardinality(Attempts)
  BY AttemptSets DEF Used
<1>2. Windows = 1 .. Cardinality(Attempts) + MaxStarts
  BY DEF Windows
<1>3. made \in Nat /\ starts \in Nat /\ starts <= MaxStarts
  BY <1>1, <1>2 DEF TypeOK
<1>4. made <= Cardinality(Used) + (MaxStarts - starts)
  BY DEF EntryInv
<1> QED
  BY <1>1, <1>2, <1>3, <1>4

(* An attempt never goes back to where it may still make an entry.         *)
LEMMA UsedGrows ==
    ASSUME TypeOK, [Next]_vars
    PROVE  Used \subseteq Used'
<1>1. ASSUME NEW a \in Attempts, pc[a] \notin {"idle", "store"}
      PROVE  pc'[a] \notin {"idle", "store"}
  BY <1>1 DEF Next, vars, TypeOK, Load, Incr, Continue, LoadOrStore, Add, Arm,
     IncrFails, IncrReplyLost, ExpireFails, TimerFires, Tick, Shutdown, Crash,
     Stop, Start, Goto, NewEntry, Increment, Answer
<1> QED
  BY <1>1 DEF Used

-----------------------------------------------------------------------------
(* Types.                                                                  *)

(* Every step of the program keeps every variable in its type.             *)
LEMMA TypeStep == TypeOK /\ EntryInv /\ [Next]_vars => TypeOK'
<1> SUFFICES ASSUME TypeOK, EntryInv, [Next]_vars PROVE TypeOK'
  OBVIOUS
<1> USE MaxCountAssumption, BoundsAssumption
<1>0. /\ \A a \in Attempts : pc[a] \in {"idle", "store"} => made + 1 \in Windows
      /\ starts > 0 => made + 1 \in Windows
      /\ made \in Nat /\ \A c \in Windows : c \in Nat /\ c # 0
  BY RoomForEntry
<1>1. ASSUME NEW a \in Attempts, Load(a) PROVE TypeOK'
  BY <1>1 DEF TypeOK, Load, Goto, program
<1>2. ASSUME NEW a \in Attempts, NewEntry(a), pc[a] \in {"idle", "store"},
             UNCHANGED <<program, faults, timers>>
      PROVE  TypeOK'
  BY <1>0, <1>2 DEF TypeOK, NewEntry, Goto, program
<1>3. ASSUME NEW a \in Attempts, NEW c \in Windows, Increment(a, c),
             UNCHANGED <<program, faults, cur, made, timers>>
      PROVE  TypeOK'
  <2>1. count[c] \in Nat /\ Answer(count[c] + 1) \in Answers
    BY DEF TypeOK, Answer, Answers
  <2> QED
    BY <1>3, <2>1 DEF TypeOK, Increment, Goto, program
<1>4. ASSUME NEW a \in Attempts, LoadOrStore(a) PROVE TypeOK'
  BY <1>2, <1>4 DEF LoadOrStore, TypeOK, Goto, program
<1>5. ASSUME NEW a \in Attempts, Add(a) PROVE TypeOK'
  <2>1. ptr[a] \in Windows
    BY <1>5 DEF Add, EntryInv, TypeOK
  <2> QED
    BY <1>3, <1>5, <2>1 DEF Add
<1>6. ASSUME NEW a \in Attempts, Incr(a) PROVE TypeOK'
  <2>1. cur # 0 => cur \in Windows
    BY DEF TypeOK
  <2> QED
    BY <1>2, <1>3, <1>6, <2>1 DEF Incr
<1>7. ASSUME NEW a \in Attempts, Arm(a) PROVE TypeOK'
  <2>1. ptr[a] \in Windows
    BY <1>7 DEF Arm, EntryInv, TypeOK
  <2> QED
    BY <1>7, <2>1 DEF Arm, TypeOK, Goto, program, Answer, Answers
<1>8. ASSUME NEW a \in Attempts, IncrFails(a) \/ ExpireFails(a) PROVE TypeOK'
  BY <1>8 DEF IncrFails, ExpireFails, TypeOK, Goto, program, Answer, Answers
<1>9. ASSUME NEW a \in Attempts, IncrReplyLost(a) PROVE TypeOK'
  BY <1>0, <1>9 DEF IncrReplyLost, TypeOK, Goto, program, Answer, Answers
<1>10. ASSUME NEW c \in Windows, TimerFires(c) PROVE TypeOK'
  BY <1>10 DEF TimerFires, TypeOK, program
<1>11. Saved \in Nat
  BY DEF Saved, TypeOK
<1>12. CASE Tick
  BY <1>11, <1>12 DEF Tick, TypeOK
<1>13. CASE Shutdown \/ Crash
  <2>1. file' \in Nat
    BY <1>11, <1>13 DEF Shutdown, Crash, TypeOK
  <2> QED
    BY <1>13, <2>1 DEF Shutdown, Crash, Stop, TypeOK, Answers
<1>14. CASE Start
  <2>1. starts' \in 0 .. MaxStarts
    BY <1>14 DEF Start, TypeOK
  <2>2. made' \in {0} \cup Windows /\ cur' \in {0} \cup Windows
    BY <1>0, <1>14 DEF Start, TypeOK
  <2>3. count' \in [Windows -> Nat]
    BY <1>14 DEF Start, TypeOK
  <2> QED
    BY <1>14, <2>1, <2>2, <2>3 DEF Start, TypeOK
<1>15. CASE UNCHANGED vars
  BY <1>15 DEF vars, TypeOK
<1> QED
  BY <1>1, <1>4, <1>5, <1>6, <1>7, <1>8, <1>9, <1>10, <1>12, <1>13, <1>14, <1>15
     DEF Next, Continue

(* Entries are made one after the other, whoever makes them.               *)
LEMMA EntryStep == TypeOK /\ EntryInv /\ [Next]_vars => EntryInv'
<1> SUFFICES ASSUME TypeOK, EntryInv, [Next]_vars PROVE EntryInv'
  OBVIOUS
<1> USE BoundsAssumption, MaxCountAssumption
<1>0. /\ made \in Nat /\ \A c \in Windows : c \in Nat /\ c # 0
      /\ starts \in Nat /\ MaxStarts \in Nat
  BY RoomForEntry DEF TypeOK
<1>1. made' <= Cardinality(Used') + (MaxStarts - starts')
  <2>1. /\ Cardinality(Used) \in Nat /\ Cardinality(Used') \in Nat
        /\ Cardinality(Used) <= Cardinality(Used')
        /\ \A a \in Used' \ Used : Cardinality(Used) + 1 <= Cardinality(Used')
    <3>1. Used \in SUBSET Attempts /\ Used' \in SUBSET Attempts
      BY DEF Used
    <3> QED
      BY <3>1, UsedGrows, AttemptSets
  <2>2. made <= Cardinality(Used) + (MaxStarts - starts)
    BY DEF EntryInv
  <2>3. \/ made' = made /\ starts' \in {starts, starts - 1}
        \/ made' = made + 1 /\ starts' = starts - 1
        \/ made' = made + 1 /\ starts' = starts /\ Used' \ Used # {}
    <3>1. ASSUME NEW a \in Attempts, pc[a] \in {"idle", "store"},
                 NEW x \in {"arm", "allowed", "refused"}, Goto(a, x)
          PROVE  a \in Used' \ Used
      BY <3>1 DEF Used, Goto, TypeOK
    <3>2. ASSUME NEW a \in Attempts, NewEntry(a), pc[a] \in {"idle", "store"}
          PROVE  made' = made + 1 /\ a \in Used' \ Used
      BY <3>1, <3>2 DEF NewEntry
    <3>3. ASSUME NEW a \in Attempts, IncrReplyLost(a)
          PROVE  made' \in {made, made + 1} /\ a \in Used' \ Used /\ starts' = starts
      BY <3>1, <3>3 DEF IncrReplyLost, Answer, program
    <3>4. ASSUME NEW a \in Attempts,
                 Load(a) \/ Incr(a) \/ Continue(a) \/ IncrFails(a) \/ ExpireFails(a)
          PROVE  /\ starts' = starts
                 /\ made' = made \/ (made' = made + 1 /\ a \in Used' \ Used)
      <4>1. CASE Load(a) \/ Add(a) \/ Arm(a) \/ IncrFails(a) \/ ExpireFails(a)
        BY <4>1 DEF Load, Add, Arm, IncrFails, ExpireFails, program
      <4>2. CASE Incr(a) \/ LoadOrStore(a)
        <5>1. pc[a] \in {"idle", "store"} /\ starts' = starts
          BY <4>2 DEF Incr, LoadOrStore, program
        <5>2. NewEntry(a) \/ made' = made
          BY <4>2 DEF Incr, LoadOrStore
        <5> QED
          BY <3>2, <5>1, <5>2
      <4> QED
        BY <3>4, <4>1, <4>2 DEF Continue
    <3>5. CASE \/ \E c \in Windows : TimerFires(c)
               \/ Tick \/ Shutdown \/ Crash \/ Start \/ UNCHANGED vars
      BY <3>5 DEF TimerFires, Tick, Shutdown, Crash, Stop, Start, vars, program
    <3> QED
      BY <3>3, <3>4, <3>5 DEF Next
  <2> QED
    BY <1>0, <2>1, <2>2, <2>3
<1>2. cur \in Nat /\ cur <= made /\ made <= made + 1
  BY <1>0 DEF EntryInv, TypeOK
<1>3. cur' <= made'
  BY <1>0, <1>2 DEF Next, vars, program, Load, Incr, Continue, LoadOrStore, Add,
     Arm, IncrFails, IncrReplyLost, ExpireFails, TimerFires, Tick, Shutdown,
     Crash, Stop, Start, NewEntry, Increment
<1>4. ASSUME NEW b \in Attempts
      PROVE  /\ ptr'[b] <= made'
             /\ pc'[b] \in {"arm", "add"} => ptr'[b] # 0
             /\ pc'[b] \in {"idle", "store", "add"} => number'[b] = 0
  <2>1. /\ ptr[b] \in Nat /\ number[b] \in Nat /\ ptr[b] <= made
        /\ pc[b] \in {"arm", "add"} => ptr[b] # 0
        /\ pc[b] \in {"idle", "store", "add"} => number[b] = 0
    <3>1. ptr[b] \in {0} \cup Windows /\ number[b] \in Nat
      BY DEF TypeOK
    <3>2. ptr[b] \in Nat
      BY <1>0, <3>1
    <3>3. /\ ptr[b] <= made
          /\ pc[b] \in {"arm", "add"} => ptr[b] # 0
          /\ pc[b] \in {"idle", "store", "add"} => number[b] = 0
      BY DEF EntryInv
    <3> QED
      BY <3>1, <3>2, <3>3
  <2>2. made' \in {made, made + 1}
    BY DEF Next, vars, program, Load, Incr, Continue, LoadOrStore, Add,
       Arm, IncrFails, IncrReplyLost, ExpireFails, TimerFires, Tick, Shutdown,
       Crash, Stop, Start, NewEntry, Increment
  <2>3. ASSUME ptr'[b] = ptr[b], number'[b] = number[b],
               pc'[b] = pc[b] \/ pc'[b] \in {"lost"} \cup Answers
        PROVE  /\ ptr'[b] <= made'
               /\ pc'[b] \in {"arm", "add"} => ptr'[b] # 0
               /\ pc'[b] \in {"idle", "store", "add"} => number'[b] = 0
    BY <1>0, <2>1, <2>2, <2>3 DEF Answers
  <2>4. ASSUME NEW a \in Attempts, a # b,
               \/ Load(a) \/ Incr(a) \/ Continue(a)
               \/ IncrFails(a) \/ IncrReplyLost(a) \/ ExpireFails(a)
        PROVE  ptr'[b] = ptr[b] /\ number'[b] = number[b] /\ pc'[b] = pc[b]
    BY <2>4 DEF TypeOK, Load, Incr, Continue, LoadOrStore, Add, Arm, IncrFails,
       IncrReplyLost, ExpireFails, NewEntry, Increment, Goto
  <2>5. CASE \/ \E c \in Windows : TimerFires(c)
             \/ Tick \/ Start \/ UNCHANGED vars
    BY <2>3, <2>5 DEF TimerFires, Tick, Start, vars
  <2>6. CASE Shutdown \/ Crash
    BY <2>3, <2>6 DEF Shutdown, Crash, Stop, TypeOK
  <2>7. CASE Arm(b) \/ IncrFails(b) \/ IncrReplyLost(b) \/ ExpireFails(b)
    BY <2>3, <2>7 DEF Arm, IncrFails, IncrReplyLost, ExpireFails, Goto, Answer,
       Answers, TypeOK
  <2>8. CASE Load(b)
    BY <1>0, <1>2, <2>1, <2>8 DEF Load, Goto, TypeOK
  <2>9. ASSUME NewEntry(b)
        PROVE  ptr'[b] = made' /\ ptr'[b] # 0 /\ pc'[b] = "arm"
    BY <1>0, <2>9 DEF NewEntry, Goto, TypeOK
  <2>10. ASSUME NEW c \in Windows, Increment(b, c), c <= made, made' = made
         PROVE  ptr'[b] <= made' /\ pc'[b] \in Answers
    BY <2>10 DEF Increment, Goto, Answer, Answers, TypeOK
  <2>11. CASE LoadOrStore(b)
    <3>1. CASE NewEntry(b)
      BY <1>0, <2>2, <2>9, <3>1
    <3>2. CASE cur # 0 /\ ptr' = [ptr EXCEPT ![b] = cur] /\ Goto(b, "add")
               /\ UNCHANGED <<cur, count, made, number>>
      BY <1>2, <2>1, <2>11, <3>2 DEF LoadOrStore, Goto, TypeOK
    <3> QED
      BY <2>11, <3>1, <3>2 DEF LoadOrStore
  <2>12. CASE Add(b)
    <3>1. ptr[b] \in Windows /\ ptr[b] <= made
      BY <2>1, <2>12 DEF Add, TypeOK
    <3> QED
      BY <2>10, <2>12, <3>1 DEF Add, Answers
  <2>13. CASE Incr(b)
    <3>1. cur # 0 => cur \in Windows
      BY DEF TypeOK
    <3>2. CASE NewEntry(b)
      BY <1>0, <2>2, <2>9, <3>2
    <3>3. CASE cur # 0 /\ Increment(b, cur) /\ UNCHANGED <<cur, made>>
      BY <1>2, <2>10, <3>1, <3>3 DEF Answers
    <3> QED
      BY <2>13, <3>2, <3>3 DEF Incr
  <2> QED
    BY <2>3, <2>4, <2>5, <2>6, <2>7, <2>8, <2>11, <2>12, <2>13 DEF Next, Continue
<1> QED
  BY <1>1, <1>3, <1>4 DEF EntryInv

-----------------------------------------------------------------------------
(* Timers.                                                                 *)

(* No step leaves a timer for an entry that is gone: a key gets a new      *)
(* entry only when it has none, and by then its timer has fired.           *)
LEMMA TimerStep == TypeOK /\ EntryInv /\ TimerInv /\ [Next]_vars => TimerInv'
<1> SUFFICES ASSUME TypeOK, EntryInv, TimerInv, [Next]_vars PROVE TimerInv'
  OBVIOUS
<1>0. /\ timers \subseteq {cur} /\ (cur = 0 => timers = {})
      /\ ~up /\ Os => cur = 0
      /\ \A a \in Attempts : pc[a] = "arm" => up /\ ptr[a] = cur /\ timers = {} /\ cur # 0
      /\ \A a, b \in Attempts : pc[a] = "arm" /\ pc[b] = "arm" => a = b
  <2>1. \A c \in timers : c # 0
    BY RoomForEntry DEF TypeOK
  <2> QED
    BY <2>1 DEF TimerInv, EntryInv
<1>1. ASSUME UNCHANGED <<counter, up, cur, timers>>,
             NEW a \in Attempts, NEW x \in {"store", "add", "lost"} \cup Answers,
             Goto(a, x), \A b \in Attempts : pc[b] = "arm" => b = a \/ ptr'[b] = ptr[b]
      PROVE  TimerInv'
  <2>1. \A b \in Attempts : pc'[b] = "arm" => pc[b] = "arm" /\ b # a
    BY <1>1 DEF Goto, TypeOK, Answers
  <2> QED
    BY <1>0, <1>1, <2>1 DEF TimerInv, Os
<1>2. ASSUME NEW a \in Attempts, cur = 0, up, NewEntry(a),
             UNCHANGED <<program, faults, timers>>
      PROVE  TimerInv'
  <2>1. \A b \in Attempts : pc'[b] = "arm" <=> b = a
    BY <1>0, <1>2 DEF NewEntry, Goto, TypeOK
  <2>2. ptr'[a] = cur' /\ timers' = {} /\ up'
    BY <1>0, <1>2 DEF NewEntry, TypeOK, program
  <2> QED
    BY <2>1, <2>2 DEF TimerInv
<1>3. ASSUME NEW a \in Attempts, NEW c \in Windows, Increment(a, c),
             UNCHANGED <<program, faults, cur, made, timers>>
      PROVE  TimerInv'
  <2>1. Answer(count[c] + 1) \in Answers
    BY DEF Answer, Answers
  <2>2. \A b \in Attempts : b # a => ptr'[b] = ptr[b]
    BY <1>3 DEF Increment, TypeOK
  <2> QED
    BY <1>1, <1>3, <2>1, <2>2 DEF Increment, program
<1>4. ASSUME NEW a \in Attempts, Load(a) PROVE TimerInv'
  BY <1>1, <1>4 DEF Load, program, TypeOK
<1>5. ASSUME NEW a \in Attempts, LoadOrStore(a) PROVE TimerInv'
  <2>1. CASE cur = 0
    BY <1>2, <1>5, <2>1 DEF LoadOrStore
  <2>2. CASE cur # 0
    BY <1>1, <1>5, <2>2 DEF LoadOrStore, program, TypeOK
  <2> QED
    BY <2>1, <2>2
<1>6. ASSUME NEW a \in Attempts, Add(a) PROVE TimerInv'
  <2>1. ptr[a] \in Windows
    BY <1>6 DEF Add, EntryInv, TypeOK
  <2> QED
    BY <1>3, <1>6, <2>1 DEF Add
<1>7. ASSUME NEW a \in Attempts, Incr(a) PROVE TimerInv'
  <2>1. cur # 0 => cur \in Windows
    BY DEF TypeOK
  <2> QED
    BY <1>2, <1>3, <1>7, <2>1 DEF Incr
<1>8. ASSUME NEW a \in Attempts, Arm(a) PROVE TimerInv'
  <2>1. \A b \in Attempts : pc'[b] # "arm"
    BY <1>0, <1>8 DEF Arm, Goto, TypeOK, Answer
  <2>2. timers' = {cur'} /\ cur' # 0 /\ up'
    BY <1>0, <1>8 DEF Arm, program
  <2> QED
    BY <2>1, <2>2 DEF TimerInv
<1>9. ASSUME NEW a \in Attempts, IncrFails(a) \/ ExpireFails(a) PROVE TimerInv'
  BY <1>1, <1>9 DEF IncrFails, ExpireFails, program, Answer, Answers, TypeOK
<1>10. ASSUME NEW a \in Attempts, IncrReplyLost(a) PROVE TimerInv'
  <2>1. CASE cur # 0
    BY <1>1, <1>10, <2>1 DEF IncrReplyLost, program, Answer, Answers, TypeOK
  <2>2. CASE cur = 0
    <3>1. \A b \in Attempts : pc'[b] # "arm"
      BY <1>0, <1>10, <2>2 DEF IncrReplyLost, Goto, Answer, TypeOK
    <3>2. timers' = {} /\ up'
      BY <1>0, <1>10, <2>2 DEF IncrReplyLost, program
    <3> QED
      BY <3>1, <3>2 DEF TimerInv
  <2> QED
    BY <2>1, <2>2
<1>11. ASSUME NEW c \in Windows, TimerFires(c) PROVE TimerInv'
  <2>1. timers' = {} /\ cur' = 0 /\ pc' = pc
    BY <1>0, <1>11 DEF TimerFires
  <2>2. \A b \in Attempts : pc[b] # "arm"
    BY <1>0, <1>11 DEF TimerFires
  <2> QED
    BY <2>1, <2>2 DEF TimerInv
<1>12. CASE Tick
  BY <1>0, <1>12 DEF Tick, TimerInv, Os
<1>13. CASE Shutdown \/ Crash
  <2>1. \A b \in Attempts : pc'[b] # "arm"
    BY <1>13 DEF Shutdown, Crash, Stop, Answers
  <2>2. timers' \subseteq {cur'} /\ (Os => cur' = 0) /\ counter' = counter
    BY <1>0, <1>13 DEF Shutdown, Crash, Stop
  <2> QED
    BY <2>1, <2>2 DEF TimerInv, Os
<1>14. CASE Start
  <2>1. (\A b \in Attempts : pc[b] # "arm") /\ pc' = pc /\ up'
    BY <1>0, <1>14 DEF Start
  <2>2. timers' \subseteq {cur'}
    BY <1>0, <1>14 DEF Start
  <2> QED
    BY <2>1, <2>2 DEF TimerInv
<1>15. CASE UNCHANGED vars
  BY <1>0, <1>15 DEF vars, TimerInv, Os
<1> QED
  BY <1>4, <1>5, <1>6, <1>7, <1>8, <1>9, <1>10, <1>11, <1>12, <1>13, <1>14, <1>15
     DEF Next, Continue

-----------------------------------------------------------------------------
(* The numbers.                                                            *)

NumberInv == Distinct /\ Told /\ Exact

(* The attempt that makes an entry is the first it counts.                 *)
LEMMA FirstNumber ==
    ASSUME TypeOK, EntryInv, NumberInv, NEW a \in Attempts,
           pc[a] \in {"idle", "store"}, NewEntry(a), UNCHANGED <<starts, faults>>
    PROVE  NumberInv'
<1> USE MaxCountAssumption
<1>0. /\ made \in Nat /\ made + 1 \in Windows /\ number[a] = 0
      /\ \A c \in Windows : c \in Nat /\ c # 0
  BY RoomForEntry DEF EntryInv
<1>1. /\ made' = made + 1
      /\ \A c \in Windows : count'[c] = IF c = made + 1 THEN 1 ELSE count[c]
      /\ \A b \in Attempts :
            /\ ptr'[b] = IF b = a THEN made + 1 ELSE ptr[b]
            /\ number'[b] = IF b = a THEN 1 ELSE number[b]
            /\ pc'[b] = IF b = a THEN "arm" ELSE pc[b]
  BY <1>0 DEF NewEntry, Goto, TypeOK
<1>2. /\ \A b \in Attempts :
            ptr[b] \in {0} \cup Windows /\ number[b] \in Nat /\ ptr[b] <= made
      /\ \A c \in Windows : count[c] \in Nat
  BY DEF TypeOK, EntryInv
<1>3. \A b \in Attempts : ptr[b] # made + 1
  BY <1>0, <1>2
<1>4. Distinct'
  BY <1>1, <1>3 DEF NumberInv, Distinct
<1>5. Told'
  BY <1>0, <1>1, <1>2, <1>3 DEF NumberInv, Told
<1>6. \A c \in Windows : c > made' => count'[c] = 0
  BY <1>0, <1>1 DEF NumberInv, Exact
<1>7. ASSUME Undisturbed', NEW c \in Windows
      PROVE  count'[c] = Cardinality(CountedIn(c)')
  <2>1. CASE c = made + 1
    <3>1. CountedIn(c)' = {a}
      BY <1>1, <1>3, <2>1 DEF CountedIn
    <3> QED
      BY <1>1, <2>1, <3>1, FS_Singleton
  <2>2. CASE c # made + 1
    <3>1. CountedIn(c)' = CountedIn(c)
      BY <1>0, <1>1, <2>2 DEF CountedIn
    <3>2. Undisturbed
      BY <1>7 DEF Undisturbed
    <3> QED
      BY <1>1, <2>2, <3>1, <3>2 DEF NumberInv, Exact
  <2> QED
    BY <2>1, <2>2
<1> QED
  BY <1>4, <1>5, <1>6, <1>7 DEF NumberInv, Exact

(* An attempt that increments is given a number nobody was given before.   *)
LEMMA NextNumber ==
    ASSUME TypeOK, EntryInv, NumberInv, NEW a \in Attempts, NEW c \in Windows,
           number[a] = 0, c <= made, Increment(a, c),
           UNCHANGED <<made, starts, faults>>
    PROVE  NumberInv'
<1> USE MaxCountAssumption
<1>1. /\ \A d \in Windows : count'[d] = IF d = c THEN count[d] + 1 ELSE count[d]
      /\ \A b \in Attempts :
            /\ ptr'[b] = IF b = a THEN c ELSE ptr[b]
            /\ number'[b] = IF b = a THEN count[c] + 1 ELSE number[b]
            /\ pc'[b] = IF b = a THEN Answer(count[c] + 1) ELSE pc[b]
  BY DEF Increment, Goto, TypeOK
<1>2. /\ \A b \in Attempts : ptr[b] \in {0} \cup Windows /\ number[b] \in Nat
      /\ \A d \in Windows : count[d] \in Nat /\ d \in Nat /\ d # 0
      /\ made \in Nat
  BY RoomForEntry DEF TypeOK
<1>3. \A b \in Attempts : number[b] > 0 /\ ptr[b] = c => number[b] <= count[c]
  BY DEF NumberInv, Told
<1>4. Distinct'
  BY <1>1, <1>2, <1>3 DEF NumberInv, Distinct
<1>5. Told'
  <2> SUFFICES ASSUME NEW b \in Attempts
               PROVE  /\ number'[b] > 0 => ptr'[b] # 0 /\ number'[b] <= count'[ptr'[b]]
                      /\ pc'[b] = "allowed" => number'[b] <= MaxCount
                      /\ pc'[b] = "arm" => number'[b] = 1
    BY DEF Told
  <2>1. CASE b = a
    BY <1>1, <1>2, <2>1 DEF Answer
  <2>2. CASE b # a
    <3>1. ptr[b] # 0 => count[ptr[b]] <= count'[ptr[b]] /\ count[ptr[b]] \in Nat
                        /\ count'[ptr[b]] \in Nat
      BY <1>1, <1>2
    <3> QED
      BY <1>1, <1>2, <2>2, <3>1 DEF NumberInv, Told
  <2> QED
    BY <2>1, <2>2
<1>6. \A d \in Windows : d > made' => count'[d] = 0
  BY <1>1, <1>2 DEF NumberInv, Exact
<1>7. ASSUME Undisturbed', NEW d \in Windows
      PROVE  count'[d] = Cardinality(CountedIn(d)')
  <2>1. /\ Undisturbed /\ count[d] = Cardinality(CountedIn(d))
    BY <1>7 DEF Undisturbed, NumberInv, Exact
  <2>2. CASE d = c
    <3>1. CountedIn(d)' = CountedIn(d) \cup {a}
      BY <1>1, <1>2, <2>2 DEF CountedIn
    <3>2. a \notin CountedIn(d)
      BY DEF CountedIn
    <3>3. IsFiniteSet(CountedIn(d))
      BY AttemptsAssumption, FS_Subset DEF CountedIn
    <3>4. Cardinality(CountedIn(d) \cup {a}) = Cardinality(CountedIn(d)) + 1
      BY <3>2, <3>3, FS_AddElement
    <3>5. count'[d] = count[d] + 1
      BY <1>1, <2>2
    <3> QED
      BY <2>1, <3>1, <3>4, <3>5
  <2>3. CASE d # c
    <3>1. CountedIn(d)' = CountedIn(d)
      BY <1>1, <1>2, <2>3 DEF CountedIn
    <3> QED
      BY <1>1, <2>1, <2>3, <3>1
  <2> QED
    BY <2>2, <2>3
<1> QED
  BY <1>4, <1>5, <1>6, <1>7 DEF NumberInv, Exact

(* A step that counts nothing leaves the numbers as they are.              *)
LEMMA SameNumbers ==
    ASSUME NumberInv, UNCHANGED <<count, made, number>>,
           \A b \in Attempts :
               /\ number[b] > 0 => ptr'[b] = ptr[b]
               /\ pc'[b] = "allowed" => pc[b] = "allowed" \/ number[b] <= MaxCount
               /\ pc'[b] = "arm" => pc[b] = "arm",
           Undisturbed' => Undisturbed
    PROVE  NumberInv'
<1>1. \A c \in Windows : CountedIn(c)' = CountedIn(c)
  BY DEF CountedIn
<1>2. Distinct'
  BY DEF NumberInv, Distinct
<1>3. Told'
  BY DEF NumberInv, Told
<1>4. Exact'
  BY <1>1 DEF NumberInv, Exact
<1> QED
  BY <1>2, <1>3, <1>4 DEF NumberInv

(* A count nobody is told of: a number loaded from the file, a reply that  *)
(* redis lost. The numbers already given stay below it.                    *)
LEMMA UntoldCount ==
    ASSUME TypeOK, EntryInv, NumberInv, UNCHANGED <<ptr, number>>,
           ~Undisturbed', made' \in {made, made + 1},
           \A c \in Windows : c <= made => count'[c] >= count[c],
           \A c \in Windows : c > made' => count'[c] = count[c],
           count' \in [Windows -> Nat],
           \A b \in Attempts :
               /\ pc'[b] = "allowed" => pc[b] = "allowed" \/ number[b] <= MaxCount
               /\ pc'[b] = "arm" => pc[b] = "arm"
    PROVE  NumberInv'
<1>0. /\ \A b \in Attempts : ptr[b] \in {0} \cup Windows /\ number[b] \in Nat /\ ptr[b] <= made
      /\ \A c \in Windows : count[c] \in Nat /\ count'[c] \in Nat /\ c \in Nat
      /\ made \in Nat
  BY RoomForEntry DEF TypeOK, EntryInv
<1>1. Distinct'
  BY DEF NumberInv, Distinct
<1>2. Told'
  BY <1>0 DEF NumberInv, Told
<1>3. Exact'
  BY <1>0 DEF NumberInv, Exact
<1> QED
  BY <1>1, <1>2, <1>3 DEF NumberInv

(* Every step of the program tells no number twice in a window.            *)
LEMMA NumberStep == TypeOK /\ TypeOK' /\ EntryInv /\ NumberInv /\ [Next]_vars => NumberInv'
<1> SUFFICES ASSUME TypeOK, TypeOK', EntryInv, NumberInv, [Next]_vars PROVE NumberInv'
  OBVIOUS
<1> USE MaxCountAssumption
<1>0. /\ \A a \in Attempts :
            /\ pc[a] \in {"idle", "store", "add"} => number[a] = 0
            /\ ptr[a] <= made /\ (pc[a] = "add" => ptr[a] \in Windows)
            /\ number[a] \in Nat /\ (pc[a] = "arm" => number[a] = 1)
      /\ cur <= made /\ (cur # 0 => cur \in Windows)
      /\ \A c \in Windows : count[c] \in Nat /\ c \in Nat
      /\ made \in Nat
  BY RoomForEntry DEF TypeOK, EntryInv, NumberInv, Told
<1>1. ASSUME NEW a \in Attempts, NEW x \in {"store", "add", "lost"} \cup Answers,
             x = "allowed" => number[a] <= MaxCount, Goto(a, x),
             number[a] > 0 => ptr' = ptr,
             \A b \in Attempts : b # a => ptr'[b] = ptr[b],
             UNCHANGED <<count, made, number>>, Undisturbed' => Undisturbed
      PROVE  NumberInv'
  <2>1. \A b \in Attempts : pc'[b] = IF b = a THEN x ELSE pc[b]
    BY <1>1 DEF Goto, TypeOK
  <2> QED
    BY <1>1, <2>1, SameNumbers DEF Answers
<1>2. ASSUME NEW a \in Attempts, Load(a) PROVE NumberInv'
  BY <1>0, <1>1, <1>2 DEF Load, program, TypeOK, Undisturbed
<1>3. ASSUME NEW a \in Attempts, LoadOrStore(a) PROVE NumberInv'
  <2>1. CASE cur = 0
    BY <1>3, <2>1, FirstNumber DEF LoadOrStore, program
  <2>2. CASE cur # 0
    BY <1>0, <1>1, <1>3, <2>2 DEF LoadOrStore, program, TypeOK, Undisturbed
  <2> QED
    BY <2>1, <2>2
<1>4. ASSUME NEW a \in Attempts, Add(a) PROVE NumberInv'
  BY <1>0, <1>4, NextNumber DEF Add, program
<1>5. ASSUME NEW a \in Attempts, Incr(a) PROVE NumberInv'
  <2>1. CASE cur = 0
    BY <1>5, <2>1, FirstNumber DEF Incr, program
  <2>2. CASE cur # 0
    BY <1>0, <1>5, <2>2, NextNumber DEF Incr, program
  <2> QED
    BY <2>1, <2>2
<1>6. ASSUME NEW a \in Attempts, Arm(a) \/ ExpireFails(a) PROVE NumberInv'
  <2>1. Undisturbed' => Undisturbed
    BY <1>6 DEF Arm, ExpireFails, program, Undisturbed, TypeOK
  <2>2. Answer(1) \in Answers /\ number[a] <= MaxCount
    BY <1>0, <1>6 DEF Arm, ExpireFails, Answer, Answers
  <2> QED
    BY <1>1, <1>6, <2>1, <2>2 DEF Arm, ExpireFails
<1>7. ASSUME NEW a \in Attempts, IncrFails(a) PROVE NumberInv'
  <2>1. Undisturbed' => Undisturbed
    BY <1>7 DEF IncrFails, program, Undisturbed, TypeOK
  <2>2. Answer(0) \in Answers /\ number[a] <= MaxCount
    BY <1>0, <1>7 DEF IncrFails, Answer, Answers
  <2> QED
    BY <1>1, <1>7, <2>1, <2>2 DEF IncrFails
<1>8. ASSUME NEW a \in Attempts, IncrReplyLost(a) PROVE NumberInv'
  <2>1. ~Undisturbed'
    BY <1>8 DEF IncrReplyLost, Undisturbed, TypeOK
  <2>2. /\ made' \in {made, made + 1}
        /\ \A c \in Windows : c <= made => count'[c] >= count[c]
        /\ \A c \in Windows : c > made' => count'[c] = count[c]
    BY <1>0, <1>8 DEF IncrReplyLost, TypeOK
  <2>3. \A b \in Attempts :
          /\ pc'[b] = "allowed" => pc[b] = "allowed" \/ number[b] <= MaxCount
          /\ pc'[b] = "arm" => pc[b] = "arm"
    BY <1>0, <1>8 DEF IncrReplyLost, Goto, Answer, TypeOK
  <2>4. UNCHANGED <<ptr, number>>
    BY <1>8 DEF IncrReplyLost
  <2> QED
    BY <2>1, <2>2, <2>3, <2>4, UntoldCount DEF TypeOK
<1>9. ASSUME NEW c \in Windows, TimerFires(c) PROVE NumberInv'
  BY <1>9, SameNumbers DEF TimerFires, program, Undisturbed
<1>10. CASE Tick
  BY <1>10, SameNumbers DEF Tick, Undisturbed
<1>11. CASE Shutdown \/ Crash
  <2>1. \A b \in Attempts : pc'[b] = pc[b] \/ pc'[b] = "lost"
    BY <1>11 DEF Shutdown, Crash, Stop
  <2> QED
    BY <1>11, <2>1, SameNumbers DEF Shutdown, Crash, Stop, Undisturbed
<1>12. CASE Start
  <2>1. ~Undisturbed'
    BY <1>12 DEF Start, Undisturbed, TypeOK
  <2>2. /\ made' \in {made, made + 1}
        /\ \A c \in Windows : c <= made => count'[c] >= count[c]
        /\ \A c \in Windows : c > made' => count'[c] = count[c]
    BY <1>0, <1>12 DEF Start, TypeOK
  <2>3. UNCHANGED <<ptr, number, pc>>
    BY <1>12 DEF Start
  <2> QED
    BY <2>1, <2>2, <2>3, UntoldCount DEF TypeOK
<1>13. CASE UNCHANGED vars
  BY <1>13, SameNumbers DEF vars, Undisturbed
<1> QED
  BY <1>2, <1>3, <1>4, <1>5, <1>6, <1>7, <1>8, <1>9, <1>10, <1>11, <1>12, <1>13
     DEF Next, Continue

-----------------------------------------------------------------------------
(* The theorems.                                                           *)

(* The program starts without entries.                                     *)
LEMMA InvInit == Init => Inv
<1> SUFFICES ASSUME Init PROVE Inv
  OBVIOUS
<1> USE BoundsAssumption, MaxCountAssumption
<1>1. \A c \in Windows : CountedIn(c) = {}
  BY DEF Init, CountedIn
<1>2. Cardinality(Used) \in Nat
  BY AttemptSets DEF Used
<1>3. TypeOK
  <2>1. MaxStarts \in 0 .. MaxStarts /\ MaxFaults \in 0 .. MaxFaults
    OBVIOUS
  <2> QED
    BY <2>1 DEF Init, TypeOK
<1>4. EntryInv
  BY <1>2 DEF Init, EntryInv
<1>5. Distinct /\ Told /\ TimerInv
  BY DEF Init, Distinct, Told, TimerInv
<1>6. Exact
  BY <1>1, FS_EmptySet DEF Init, Exact
<1> QED
  BY <1>3, <1>4, <1>5, <1>6 DEF Inv

(* The inductive invariant holds in every behaviour.                       *)
LEMMA InvHolds == Spec => []Inv
<1>1. Inv /\ [Next]_vars => Inv'
  BY TypeStep, EntryStep, TimerStep, NumberStep DEF Inv, NumberInv
<1> QED
  BY <1>1, InvInit, PTL DEF Spec

(* Every variable of the counters keeps its type.                          *)
THEOREM TypeCorrect == Spec => []TypeOK
<1>1. Inv => TypeOK
  BY DEF Inv
<1> QED
  BY <1>1, InvHolds, PTL

(* However attempts and the timer interleave, a window gives each of its   *)
(* attempts another number, counts all of them, and lets no more than      *)
(* MaxCount through (os.go:149-162, redis.go:298-311).                     *)
THEOREM AttemptsAreCountedHolds == Spec => []AttemptsAreCounted
<1>1. Inv => AttemptsAreCounted
  <2> SUFFICES ASSUME Inv, NEW c \in Windows
               PROVE  /\ \A a, b \in CountedIn(c) : number[a] = number[b] => a = b
                      /\ \A a \in CountedIn(c) : number[a] <= count[c]
                      /\ Cardinality({a \in CountedIn(c) : pc[a] = "allowed"}) <= MaxCount
                      /\ starts = MaxStarts /\ faults = MaxFaults =>
                            count[c] = Cardinality(CountedIn(c))
    BY DEF AttemptsAreCounted
  <2>1. \A a, b \in CountedIn(c) : number[a] = number[b] => a = b
    BY DEF Inv, Distinct, CountedIn
  <2>2. \A a \in CountedIn(c) : number[a] <= count[c]
    BY DEF Inv, Told, CountedIn
  <2>3. Cardinality({a \in CountedIn(c) : pc[a] = "allowed"}) <= MaxCount
    <3> DEFINE S == {a \in CountedIn(c) : pc[a] = "allowed"}
    <3> DEFINE f == [a \in S |-> number[a]]
    <3>1. \A a \in S : number[a] \in 1 .. MaxCount
      BY MaxCountAssumption DEF Inv, TypeOK, Told, CountedIn
    <3>2. f \in Injection(S, 1 .. MaxCount)
      BY <2>1, <3>1 DEF Injection, IsInjective
    <3>3. IsFiniteSet(1 .. MaxCount) /\ Cardinality(1 .. MaxCount) = MaxCount
      BY MaxCountAssumption, FS_Interval
    <3>4. Cardinality(S) <= Cardinality(1 .. MaxCount)
      BY <3>2, <3>3, FS_Injection
    <3> QED
      BY <3>3, <3>4
  <2>4. starts = MaxStarts /\ faults = MaxFaults => count[c] = Cardinality(CountedIn(c))
    BY DEF Inv, Exact, Undisturbed
  <2> QED
    BY <2>1, <2>2, <2>3, <2>4
<1> QED
  BY <1>1, InvHolds, PTL

(* A timer deletes the entry it was set for and never a younger one        *)
(* (os.go:153-155).                                                        *)
THEOREM TimerOwnsEntryHolds == Spec => TimerOwnsEntry
<1>1. Inv => (\A c \in Windows :
                c \in timers /\ c \notin timers' /\ up' = up => cur = c)
  BY DEF Inv, TimerInv
<1> QED
  BY <1>1, InvHolds, PTL DEF TimerOwnsEntry
=============================================================================
