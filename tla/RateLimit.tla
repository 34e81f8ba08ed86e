----------------------------- MODULE RateLimit -----------------------------
(***************************************************************************)
(* The counters that limit how often one address asks (AddIpCount) and how *)
(* often one account tries to log in (AddLoginNum): the attempts on one    *)
(* key, the entry they count in, and the timer that deletes it.            *)
(*                                                                         *)
(*   ip           OsDb in memory, never saved (internal/data/os.go)        *)
(*   login_os     OsDb, saved once per run of the program and by Close     *)
(*   login_redis  INCR and EXPIRE of a redis server                        *)
(***************************************************************************)
EXTENDS Integers, FiniteSets

CONSTANTS
    Attempts,    \* requests that count, one goroutine each
    MaxCount,    \* how many of them a window lets through
    Counters,    \* the counters under study
    MaxStarts,   \* bound: how often the program starts again
    MaxFaults    \* bound: how many redis calls fail

AllCounters == {"ip", "login_os", "login_redis"}

ASSUME AttemptsAssumption == IsFiniteSet(Attempts)
ASSUME MaxCountAssumption == MaxCount \in Nat \ {0}
ASSUME CountersAssumption == Counters \subseteq AllCounters
ASSUME BoundsAssumption == MaxStarts \in Nat /\ MaxFaults \in Nat

(* An entry of the map is made by an attempt or by Load.                   *)
Windows == 1 .. Cardinality(Attempts) + MaxStarts

VARIABLES
    counter,  \* which counter this is
    up,       \* the program runs
    starts,   \* restarts that may still happen
    faults,   \* faults that may still happen
    cur,      \* the key's entry, 0 if it has none
    count,    \* window -> the number in that entry
    made,     \* how many entries there have been
    timers,   \* the entries a timer was set for, or EXPIRE was called on
    file,     \* login_os: the number in the file, 0 if the key is not there
    ticked,   \* login_os: the save of the first minute is done
    pc,       \* attempt -> its next step, or how it was answered
    ptr,      \* attempt -> the entry it counts in
    number    \* attempt -> the count it was given

vars == <<counter, up, starts, faults, cur, count, made, timers, file, ticked,
          pc, ptr, number>>
program == <<counter, up, starts, file, ticked>>

Answers == {"allowed", "refused"}

TypeOK ==
    /\ counter \in Counters
    /\ up \in BOOLEAN
    /\ starts \in 0 .. MaxStarts
    /\ faults \in 0 .. MaxFaults
    /\ cur \in {0} \cup Windows
    /\ count \in [Windows -> Nat]
    /\ made \in {0} \cup Windows
    /\ timers \in SUBSET Windows
    /\ file \in Nat
    /\ ticked \in BOOLEAN
    /\ pc \in [Attempts -> {"idle", "store", "arm", "add", "lost"} \cup Answers]
    /\ ptr \in [Attempts -> {0} \cup Windows]
    /\ number \in [Attempts -> Nat]

Init ==
    /\ counter \in Counters
    /\ up = TRUE
    /\ starts = MaxStarts
    /\ faults = MaxFaults
    /\ cur = 0
    /\ count = [c \in Windows |-> 0]
    /\ made = 0
    /\ timers = {}
    /\ file = 0
    /\ ticked = FALSE
    /\ pc = [a \in Attempts |-> "idle"]
    /\ ptr = [a \in Attempts |-> 0]
    /\ number = [a \in Attempts |-> 0]

Os == counter # "login_redis"

-----------------------------------------------------------------------------
(* The attempts.                                                           *)

Goto(a, step) == pc' = [pc EXCEPT ![a] = step]

(* init.go:24 and route.go:89.                                             *)
Answer(n) == IF n > MaxCount THEN "refused" ELSE "allowed"

(* Mutant: a new entry starts from zero. *)
MutantNewEntry(a) ==
    /\ made' = made + 1
    /\ cur' = made + 1
    /\ count' = [count EXCEPT ![made + 1] = 0]
    /\ ptr' = [ptr EXCEPT ![a] = made + 1]
    /\ number' = [number EXCEPT ![a] = 1]
    /\ Goto(a, "arm")

(* A new entry, with the number 1 in it.                                   *)
NewEntry(a) ==
    /\ made' = made + 1
    /\ cur' = made + 1
    /\ count' = [count EXCEPT ![made + 1] = 1]
    /\ ptr' = [ptr EXCEPT ![a] = made + 1]
    /\ number' = [number EXCEPT ![a] = 1]
    /\ Goto(a, "arm")

(* Mutant: the attempt is told the number before its own. *)
MutantIncrement(a, c) ==
    /\ count' = [count EXCEPT ![c] = @ + 1]
    /\ ptr' = [ptr EXCEPT ![a] = c]
    /\ number' = [number EXCEPT ![a] = count[c]]
    /\ Goto(a, Answer(count[c]))

(* Mutant: attempts are counted down. *)
MutantIncrementDown(a, c) ==
    /\ count' = [count EXCEPT ![c] = @ - 1]
    /\ ptr' = [ptr EXCEPT ![a] = c]
    /\ number' = [number EXCEPT ![a] = count[c] - 1]
    /\ Goto(a, Answer(count[c] - 1))

(* The number in entry c goes up by one, and the attempt is told it.       *)
Increment(a, c) ==
    /\ count' = [count EXCEPT ![c] = @ + 1]
    /\ ptr' = [ptr EXCEPT ![a] = c]
    /\ number' = [number EXCEPT ![a] = count[c] + 1]
    /\ Goto(a, Answer(count[c] + 1))

(* os: the entry is looked up ...                                          *)
Load(a) ==
    /\ up /\ Os
    /\ pc[a] = "idle"
    /\ ptr' = [ptr EXCEPT ![a] = cur]
    /\ Goto(a, IF cur = 0 THEN "store" ELSE "add")
    /\ UNCHANGED <<program, faults, cur, count, made, timers, number>>

(* Mutant: an attempt that finds an entry by now sets a timer too. *)
MutantLoadOrStore(a) ==
    /\ up
    /\ pc[a] = "store"
    /\ \/ cur = 0 /\ NewEntry(a)
       \/ cur # 0 /\ ptr' = [ptr EXCEPT ![a] = cur] /\ Goto(a, "arm")
          /\ UNCHANGED <<cur, count, made, number>>
    /\ UNCHANGED <<program, faults, timers>>

(* ... and stored, unless somebody else has stored one by now, ...         *)
LoadOrStore(a) ==
    /\ up
    /\ pc[a] = "store"
    /\ \/ cur = 0 /\ NewEntry(a)
       \/ /\ cur # 0
          /\ ptr' = [ptr EXCEPT ![a] = cur]
          /\ Goto(a, "add")
          /\ UNCHANGED <<cur, count, made, number>>
    /\ UNCHANGED <<program, faults, timers>>

(* ... or incremented, whether it is still in the map or not.              *)
Add(a) ==
    /\ up
    /\ pc[a] = "add"
    /\ Increment(a, ptr[a])
    /\ UNCHANGED <<program, faults, cur, made, timers>>

(* redis: INCR does all of it.                                             *)
Incr(a) ==
    /\ up /\ ~Os
    /\ pc[a] = "idle"
    /\ \/ cur = 0 /\ NewEntry(a)
       \/ cur # 0 /\ Increment(a, cur) /\ UNCHANGED <<cur, made>>
    /\ UNCHANGED <<program, faults, timers>>

(* Mutant: no timer is set. *)
MutantArm(a) ==
    /\ up
    /\ pc[a] = "arm"
    /\ Goto(a, Answer(1))
    /\ UNCHANGED <<program, faults, cur, count, made, timers, ptr, number>>

(* time.AfterFunc, and EXPIRE: by the attempt that was given the number 1. *)
Arm(a) ==
    /\ up
    /\ pc[a] = "arm"
    /\ timers' = timers \cup {ptr[a]}
    /\ Goto(a, Answer(1))
    /\ UNCHANGED <<program, faults, cur, count, made, ptr, number>>

(* The timer deletes whatever entry the key has.                           *)
TimerFires(c) ==
    /\ c \in timers
    /\ timers' = timers \ {c}
    /\ cur' = 0
    /\ UNCHANGED <<program, faults, count, made, pc, ptr, number>>

(* redis: INCR fails, and its zero lets the attempt through.               *)
IncrFails(a) ==
    /\ up /\ ~Os
    /\ pc[a] = "idle"
    /\ faults > 0
    /\ faults' = faults - 1
    /\ Goto(a, Answer(0))
    /\ UNCHANGED <<program, cur, count, made, timers, ptr, number>>

(* redis: INCR is done and its reply is lost: nobody is told the number,   *)
(* and nobody calls EXPIRE.                                                *)
IncrReplyLost(a) ==
    /\ up /\ ~Os
    /\ pc[a] = "idle"
    /\ faults > 0
    /\ faults' = faults - 1
    /\ IF cur = 0
       THEN /\ made' = made + 1
            /\ cur' = made + 1
            /\ count' = [count EXCEPT ![made + 1] = 1]
       ELSE count' = [count EXCEPT ![cur] = @ + 1] /\ UNCHANGED <<made, cur>>
    /\ Goto(a, Answer(0))
    /\ UNCHANGED <<program, timers, ptr, number>>

(* redis: EXPIRE fails, and the entry stays without one.                   *)
ExpireFails(a) ==
    /\ up /\ ~Os
    /\ pc[a] = "arm"
    /\ faults > 0
    /\ faults' = faults - 1
    /\ Goto(a, Answer(1))
    /\ UNCHANGED <<program, cur, count, made, timers, ptr, number>>

-----------------------------------------------------------------------------
(* The program.                                                            *)

Saved == IF cur = 0 THEN 0 ELSE count[cur]

(* The save a minute after the start.  AddLoginNum does not call Changed,  *)
(* so that no other comes before Close.                                    *)
Tick ==
    /\ up
    /\ counter = "login_os"
    /\ ~ticked
    /\ ticked' = TRUE
    /\ file' = Saved
    /\ UNCHANGED <<counter, up, starts, faults, cur, count, made, timers, pc, ptr,
                   number>>

(* What is left when the program stops: redis keeps its entry and timer.   *)
Stop ==
    /\ up
    /\ up' = FALSE
    /\ IF Os THEN cur' = 0 /\ timers' = {} ELSE UNCHANGED <<cur, timers>>
    /\ pc' = [a \in Attempts |->
                IF pc[a] \in {"idle"} \cup Answers THEN pc[a] ELSE "lost"]
    /\ UNCHANGED <<counter, starts, faults, count, made, ticked, ptr, number>>

(* An interrupt: Shutdown waits for the attempts, and Close saves.         *)
Shutdown ==
    /\ \A a \in Attempts : pc[a] \in {"idle", "lost"} \cup Answers
    /\ file' = IF counter = "login_os" THEN Saved ELSE file
    /\ Stop

Crash == UNCHANGED file /\ Stop

(* Load puts the number back; nobody sets a timer for it.                  *)
Start ==
    /\ ~up
    /\ starts > 0
    /\ up' = TRUE
    /\ starts' = starts - 1
    /\ ticked' = FALSE
    /\ IF Os /\ file > 0
       THEN /\ made' = made + 1
            /\ cur' = made + 1
            /\ count' = [count EXCEPT ![made + 1] = file]
       ELSE UNCHANGED <<made, cur, count>>
    /\ UNCHANGED <<counter, faults, timers, file, pc, ptr, number>>

-----------------------------------------------------------------------------
Continue(a) == LoadOrStore(a) \/ Add(a) \/ Arm(a)

Next ==
    \/ \E a \in Attempts :
        \/ Load(a) \/ Incr(a) \/ Continue(a)
        \/ IncrFails(a) \/ IncrReplyLost(a) \/ ExpireFails(a)
    \/ \E c \in Windows : TimerFires(c)
    \/ Tick \/ Shutdown \/ Crash \/ Start

Spec == Init /\ [][Next]_vars

(* Goroutines go on and timers fire; nobody has to try, and nothing is     *)
(* assumed of saves, stops and starts.                                     *)
FairSpec ==
    /\ Spec
    /\ \A a \in Attempts : WF_vars(Continue(a))
    /\ \A c \in Windows : WF_vars(TimerFires(c))

-----------------------------------------------------------------------------
(* Properties.                                                             *)

CountedIn(c) == {a \in Attempts : ptr[a] = c /\ number[a] > 0}

(* A window lets no more than MaxCount attempts through, however they      *)
(* interleave with each other and with the timer (os.go:149-162,           *)
(* redis.go:313-327): its attempts are given different numbers. None is    *)
(* lost and none counts twice, also when the entry is deleted or stored by *)
(* another meanwhile, unless it was loaded from the file or redis lost a   *)
(* reply.                                                                  *)
AttemptsAreCounted ==
    \A c \in Windows :
        /\ \A a, b \in CountedIn(c) : number[a] = number[b] => a = b
        /\ \A a \in CountedIn(c) : number[a] <= count[c]
        /\ Cardinality({a \in CountedIn(c) : pc[a] = "allowed"}) <= MaxCount
        /\ starts = MaxStarts /\ faults = MaxFaults =>
            count[c] = Cardinality(CountedIn(c))

(* A timer deletes the entry it was set for and never a younger one: no    *)
(* window is cut short (os.go:153-155).                                    *)
TimerOwnsEntry ==
    [][\A c \in Windows :
        c \in timers /\ c \notin timers' /\ up' = up => cur = c]_vars

(* Until the program stops or a redis call fails, a window ends.           *)
Disturbed == ~up \/ starts < MaxStarts \/ faults < MaxFaults

WindowEnds == \A c \in Windows : cur = c ~> cur # c \/ Disturbed

(* "Only three login attempts in thirty seconds" (decl.go:52): an account  *)
(* that is refused can log in again some time.                             *)
Locked == up /\ cur # 0 /\ count[cur] >= MaxCount

LockoutEnds == Locked ~> ~Locked
=============================================================================
