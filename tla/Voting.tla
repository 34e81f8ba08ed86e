------------------------------- MODULE Voting -------------------------------
(***************************************************************************)
(* POST /vote/:num: a logged-in account votes in a poll.                   *)
(*                                                                         *)
(* The handler (internal/vote/vote.go) runs in one goroutine per request   *)
(* and makes its database calls one after the other: find the account,     *)
(* find the poll, take the poll's lock, record the poll in the account's   *)
(* VotedPath, and only then count the vote.  A step of this module is one  *)
(* of those calls.  The same handler runs over four databases (db.mode of  *)
(* config.ini), and it is the database that decides what a call does:      *)
(*                                                                         *)
(*   os               Find returns the shared object, so that the lock     *)
(*                    counts and Updata and IncOption have nothing to do;  *)
(*   redis            Find returns a copy; Updata compares and swaps       *)
(*                    VotedPath; IncOption is an atomic HINCRBY;           *)
(*   mysql-os-redis   Find returns a copy; Updata and IncOption both       *)
(*                    compare and swap a whole column;                     *)
(*   mongodb-os-redis Find returns a copy; Updata pushes and IncOption     *)
(*                    increments, neither compares.                        *)
(***************************************************************************)
EXTENDS Integers, FiniteSets, Sequences

CONSTANTS
    Requests,    \* the POSTs, one goroutine each
    Names,       \* account names
    Paths,       \* polls, named by their path
    NumOptions,  \* options of a poll
    Choices,     \* what the field "k" of the form parses to
    Modes,       \* the values of db.mode under study
    MaxGen,      \* bound: how often a name is registered
    Faults,      \* the kinds of database fault under study
    MaxFaults    \* bound: how many faults a behaviour has

Backends == {"os", "redis", "mysql-os-redis", "mongodb-os-redis"}
FaultKinds == {"UpdataConflict", "UpdataReplyLost", "IncOptionReplyLost",
               "StoreReplyLost", "CallFailed"}

ASSUME RequestsAssumption == IsFiniteSet(Requests)
ASSUME NumOptionsAssumption == NumOptions \in Nat \ {0}
ASSUME ChoicesAssumption == Choices \subseteq Int
ASSUME ModesAssumption == Modes \subseteq Backends
ASSUME MaxGenAssumption == MaxGen \in Nat \ {0}
ASSUME FaultsAssumption == Faults \subseteq FaultKinds /\ MaxFaults \in Nat

Options == 0 .. NumOptions - 1

(* The databases whose Updata writes only over the value the caller read.  *)
CasModes == {"redis", "mysql-os-redis"}

VARIABLES
    mode,       \* db.mode, read once at start-up
    info,       \* path -> "none", "open" or "ended"
    option,     \* path -> option -> GotNum, as stored
    live,       \* name -> the account exists now
    gen,        \* name -> which registration of the name is the latest
    votedPath,  \* name -> registration -> VotedPath, as stored
    husk,       \* name -> redis: its key has no account, only a SessionIndex
    storing,    \* path -> redis: its creator is about to store it again
    wiped,      \* path -> option -> history: votes that storing again reset
    lock,       \* path -> the requests that hold the shared Info.Lock
    faults,     \* faults that may still happen
    pc,         \* request -> the step it makes next, or how it ended
    form,       \* request -> whose it is, for which poll and option
    acct,       \* request -> the registration its user object stands for
    seen,       \* request -> its copy of VotedPath
    nameless,   \* request -> its user object was made from a husk
    copy,       \* request -> its copy of the poll's options
    counted     \* request -> how many times its vote went into the tally

store == <<info, option, live, gen, votedPath, husk, storing, wiped>>
locals == <<acct, seen, nameless, copy>>
vars == <<mode, info, option, live, gen, votedPath, husk, storing, wiped, lock,
          faults, pc, form, acct, seen, nameless, copy, counted>>

Form == [name : Names, path : Paths, opt : Choices]
Running == {"user", "info", "lock", "record", "write", "refind", "count",
            "recount"}
Ended == {"ok", "refused", "gone", "panic", "crashed"}

TypeOK ==
    /\ mode \in Modes
    /\ info \in [Paths -> {"none", "open", "ended"}]
    /\ option \in [Paths -> [Options -> Nat]]
    /\ live \in [Names -> BOOLEAN]
    /\ gen \in [Names -> 1 .. MaxGen]
    /\ votedPath \in [Names -> [1 .. MaxGen -> Seq(Paths)]]
    /\ husk \in [Names -> BOOLEAN]
    /\ storing \in [Paths -> BOOLEAN]
    /\ wiped \in [Paths -> [Options -> Nat]]
    /\ lock \in [Paths -> SUBSET Requests]
    /\ faults \in 0 .. MaxFaults
    /\ pc \in [Requests -> {"idle"} \cup Running \cup Ended]
    /\ form \in [Requests -> Form]
    /\ acct \in [Requests -> 1 .. MaxGen]
    /\ seen \in [Requests -> Seq(Paths)]
    /\ nameless \in [Requests -> BOOLEAN]
    /\ copy \in [Requests -> [Options -> Nat]]
    /\ counted \in [Requests -> Nat]

(* Every name is registered once and logged in; no poll exists yet.        *)
Init ==
    /\ mode \in Modes
    /\ info = [p \in Paths |-> "none"]
    /\ option = [p \in Paths |-> [o \in Options |-> 0]]
    /\ live = [n \in Names |-> TRUE]
    /\ gen = [n \in Names |-> 1]
    /\ votedPath = [n \in Names |-> [g \in 1 .. MaxGen |-> <<>>]]
    /\ husk = [n \in Names |-> FALSE]
    /\ storing = [p \in Paths |-> FALSE]
    /\ wiped = [p \in Paths |-> [o \in Options |-> 0]]
    /\ lock = [p \in Paths |-> {}]
    /\ faults = MaxFaults
    /\ pc = [r \in Requests |-> "idle"]
    /\ form \in [Requests -> Form]
    /\ acct = [r \in Requests |-> 1]
    /\ seen = [r \in Requests |-> <<>>]
    /\ nameless = [r \in Requests |-> FALSE]
    /\ copy = [r \in Requests |-> [o \in Options |-> 0]]
    /\ counted = [r \in Requests |-> 0]

-----------------------------------------------------------------------------
(* Helpers: what a request works on, and what a call to the store does.    *)

Name(r) == form[r].name
Path(r) == form[r].path
Opt(r) == form[r].opt

Contains(s, p) == \E i \in 1 .. Len(s) : s[i] = p

(* The VotedPath the store holds for the account of request r.             *)
Row(r) == votedPath[Name(r)][gen[Name(r)]]

Goto(r, step) == pc' = [pc EXCEPT ![r] = step]

(* Mutant: a return that leaves the poll locked. *)
MutantReturn(r, how) == Goto(r, how) /\ UNCHANGED lock

(* The handler returns: the deferred v.Lock.Unlock runs, if it was locked. *)
Return(r, how) ==
    /\ Goto(r, how)
    /\ lock' = [lock EXCEPT ![Path(r)] = @ \ {r}]

(* What UserDb.Find returns: the account with its VotedPath ...            *)
HoldAccount(r) ==
    /\ live[Name(r)]
    /\ acct' = [acct EXCEPT ![r] = gen[Name(r)]]
    /\ seen' = [seen EXCEPT ![r] = Row(r)]
    /\ nameless' = [nameless EXCEPT ![r] = FALSE]

(* ... or, from redis' husk of one, a user without Name and VotedPath ...  *)
HoldHusk(r) ==
    /\ ~live[Name(r)] /\ husk[Name(r)]
    /\ seen' = [seen EXCEPT ![r] = <<>>]
    /\ nameless' = [nameless EXCEPT ![r] = TRUE]
    /\ UNCHANGED acct

(* ... or nil.                                                             *)
HoldNil(r) ==
    /\ ~live[Name(r)] /\ ~husk[Name(r)]
    /\ UNCHANGED <<acct, seen, nameless>>

(* Mutant: the option is appended where the path should be. *)
MutantPushVotedPath(r, g, s) ==
    votedPath' = [votedPath EXCEPT ![Name(r)][g] = Append(s, Opt(r))]

PushVotedPath(r, g, s) ==
    votedPath' = [votedPath EXCEPT ![Name(r)][g] = Append(s, Path(r))]

(* The v.Option of the found poll: only mysql's IncOption looks at it.     *)
CopyOptions(r) ==
    copy' = IF mode = "mysql-os-redis"
            THEN [copy EXCEPT ![r] = option[Path(r)]] ELSE copy

(* The options an increment is made to: mysql's own copy, which it stores  *)
(* whole, or what the store holds.                                         *)
Base(r) == IF mode = "mysql-os-redis" THEN copy[r] ELSE option[Path(r)]

CountVote(r) ==
    /\ option' = [option EXCEPT ![Path(r)] = [Base(r) EXCEPT ![Opt(r)] = @ + 1]]
    /\ counted' = [counted EXCEPT ![r] = @ + 1]

-----------------------------------------------------------------------------
(* The steps of the handler.                                               *)

(* CheckLogined and the CSRF token let the request through.                *)
Post(r) ==
    /\ pc[r] = "idle"
    /\ live[Name(r)]
    /\ Goto(r, "user")
    /\ UNCHANGED <<mode, store, lock, faults, form, locals, counted>>

(* Not logged in, or the form carries another page's CSRF token.           *)
PostTurnedAway(r) ==
    /\ pc[r] = "idle"
    /\ Return(r, "refused")
    /\ UNCHANGED <<mode, store, faults, form, locals, counted>>

(* Mutant: no look for the poll in the VotedPath just found. *)
MutantFindUser(r) ==
    /\ pc[r] = "user"
    /\ \/ HoldNil(r) /\ Return(r, "gone")
       \/ (HoldHusk(r) \/ HoldAccount(r)) /\ Return(r, "info")
    /\ UNCHANGED <<mode, store, faults, form, copy, counted>>

(* UserDb.Find, and the first look for the poll in VotedPath.  A husk is   *)
(* not nil, and there is no poll in it.                                    *)
FindUser(r) ==
    /\ pc[r] = "user"
    /\ \/ HoldNil(r) /\ Return(r, "gone")
       \/ HoldHusk(r) /\ Return(r, "info")
       \/ /\ HoldAccount(r)
          /\ Return(r, IF Contains(Row(r), Path(r)) THEN "refused" ELSE "info")
    /\ UNCHANGED <<mode, store, faults, form, copy, counted>>

(* Db.Find, and the look at the poll's end.                                *)
FindInfo(r) ==
    /\ pc[r] = "info"
    /\ IF info[Path(r)] = "open"
       THEN Goto(r, "lock") /\ CopyOptions(r)
       ELSE Goto(r, "refused") /\ UNCHANGED copy
    /\ UNCHANGED <<mode, store, lock, faults, form, acct, seen, nameless, counted>>

(* v.Lock.Lock: only under os is v, and so the lock, shared.  An option    *)
(* beyond the last is turned away; one below zero is not.                  *)
LockInfo(r) ==
    /\ pc[r] = "lock"
    /\ lock[Path(r)] = {}
    /\ IF Opt(r) >= NumOptions
       THEN Return(r, "refused")
       ELSE /\ Goto(r, "record")
            /\ lock' = IF mode = "os"
                       THEN [lock EXCEPT ![Path(r)] = @ \cup {r}] ELSE lock
    /\ UNCHANGED <<mode, store, faults, form, locals, counted>>

(* Under os the record is an append to a field of the shared user, which   *)
(* no lock protects: it reads the slice, and then stores the longer one.   *)
ReadVotedPath(r) ==
    /\ pc[r] = "record"
    /\ mode = "os"
    /\ Goto(r, "write")
    /\ seen' = [seen EXCEPT ![r] = votedPath[Name(r)][acct[r]]]
    /\ UNCHANGED <<mode, store, lock, faults, form, acct, nameless, copy, counted>>

WriteVotedPath(r) ==
    /\ pc[r] = "write"
    /\ PushVotedPath(r, acct[r], seen[r])
    /\ Goto(r, "count")
    /\ UNCHANGED <<mode, info, option, live, gen, husk, storing, wiped, lock,
                   faults, form, locals, counted>>

(* Mutant: redis and mysql do not compare either. *)
MutantUpdataHits(r) == live[Name(r)] /\ ~nameless[r]

(* Updata finds the row it may write: redis and mysql compare VotedPath    *)
(* with the copy the request made, mongodb pushes onto whatever is there.  *)
(* The user of a husk has an empty Name, and no key is empty.              *)
UpdataHits(r) ==
    /\ live[Name(r)]
    /\ ~nameless[r]
    /\ mode \in CasModes => Row(r) = seen[r]

(* What the record goes behind: redis and mysql store the request's copy   *)
(* with the poll added, mongodb adds the poll to the row.                  *)
Written(r) == IF mode \in CasModes THEN seen[r] ELSE Row(r)

(* Mutant: the handler does not ask whether Updata wrote. *)
MutantUpdata(r) ==
    /\ pc[r] = "record"
    /\ mode # "os"
    /\ IF UpdataHits(r)
       THEN /\ PushVotedPath(r, gen[Name(r)], Written(r))
            /\ acct' = [acct EXCEPT ![r] = gen[Name(r)]]
       ELSE UNCHANGED <<votedPath, acct>>
    /\ Goto(r, "count")
    /\ UNCHANGED <<mode, info, option, live, gen, husk, storing, wiped, lock,
                   faults, form, seen, nameless, copy, counted>>

Updata(r) ==
    /\ pc[r] = "record"
    /\ mode # "os"
    /\ IF UpdataHits(r)
       THEN /\ PushVotedPath(r, gen[Name(r)], Written(r))
            /\ acct' = [acct EXCEPT ![r] = gen[Name(r)]]
            /\ Goto(r, "count")
       ELSE Goto(r, "refind") /\ UNCHANGED <<votedPath, acct>>
    /\ UNCHANGED <<mode, info, option, live, gen, husk, storing, wiped, lock,
                   faults, form, seen, nameless, copy, counted>>

(* Mutant: the second look for the poll is left out. *)
MutantFindUserAgain(r) ==
    /\ pc[r] = "refind"
    /\ \/ HoldNil(r) /\ Return(r, "panic")
       \/ (HoldHusk(r) \/ HoldAccount(r)) /\ Return(r, "record")
    /\ UNCHANGED <<mode, store, faults, form, copy, counted>>

(* Updata said no: find the account again and look again.  An account that *)
(* is gone by now is a nil pointer; one that left a husk sends the request *)
(* round the loop once more.                                               *)
FindUserAgain(r) ==
    /\ pc[r] = "refind"
    /\ \/ HoldNil(r) /\ Return(r, "panic")
       \/ HoldHusk(r) /\ Return(r, "record")
       \/ /\ HoldAccount(r)
          /\ Return(r, IF Contains(Row(r), Path(r)) THEN "refused" ELSE "record")
    /\ UNCHANGED <<mode, store, faults, form, copy, counted>>

(* Mutant: mysql stores the copy over whatever is there. *)
MutantIncOptionHits(r) == TRUE

(* GotNum++ and IncOption.  mysql stores the request's own copy of all the *)
(* options, and only over the copy it read.                                *)
IncOptionHits(r) == mode = "mysql-os-redis" => copy[r] = option[Path(r)]

(* Mutant: the handler does not ask whether IncOption wrote. *)
MutantIncOption(r) ==
    /\ pc[r] = "count"
    /\ Opt(r) \in Options
    /\ IF IncOptionHits(r) THEN CountVote(r) ELSE UNCHANGED <<option, counted>>
    /\ Return(r, "ok")
    /\ UNCHANGED <<mode, info, live, gen, votedPath, husk, storing, wiped, faults,
                   form, locals>>

IncOption(r) ==
    /\ pc[r] = "count"
    /\ Opt(r) \in Options
    /\ IF IncOptionHits(r)
       THEN CountVote(r) /\ Return(r, "ok")
       ELSE Goto(r, "recount") /\ UNCHANGED <<option, lock, counted>>
    /\ UNCHANGED <<mode, info, live, gen, votedPath, husk, storing, wiped, faults,
                   form, locals>>

(* v.Option[opt] with opt below zero: the index panics, with the vote      *)
(* already recorded.                                                       *)
IndexPanic(r) ==
    /\ pc[r] = "count"
    /\ Opt(r) \notin Options
    /\ Return(r, "panic")
    /\ UNCHANGED <<mode, store, faults, form, locals, counted>>

FindInfoAgain(r) ==
    /\ pc[r] = "recount"
    /\ CopyOptions(r)
    /\ Goto(r, "count")
    /\ UNCHANGED <<mode, store, lock, faults, form, acct, seen, nameless, counted>>

-----------------------------------------------------------------------------
(* Faults of the database, at most MaxFaults of them.                      *)

Fault(kind) ==
    /\ kind \in Faults
    /\ faults > 0
    /\ faults' = faults - 1

(* redis: Updata has no effect and says no, because the user's key changed *)
(* under WATCH in another field (a login) or because a call failed.        *)
UpdataConflict(r) ==
    /\ Fault("UpdataConflict")
    /\ pc[r] = "record"
    /\ mode = "redis"
    /\ Goto(r, "refind")
    /\ UNCHANGED <<mode, store, lock, form, locals, counted>>

(* The record is stored, and its reply is lost: redis returns false, mysql *)
(* and mongodb panic.                                                      *)
UpdataReplyLost(r) ==
    /\ Fault("UpdataReplyLost")
    /\ pc[r] = "record"
    /\ mode # "os"
    /\ UpdataHits(r)
    /\ PushVotedPath(r, gen[Name(r)], Written(r))
    /\ acct' = [acct EXCEPT ![r] = gen[Name(r)]]
    /\ Return(r, IF mode = "redis" THEN "refind" ELSE "panic")
    /\ UNCHANGED <<mode, info, option, live, gen, husk, storing, wiped, form, seen,
                   nameless, copy, counted>>

(* The vote is counted, and its reply is lost: redis tries again, mysql    *)
(* and mongodb panic.                                                      *)
IncOptionReplyLost(r) ==
    /\ Fault("IncOptionReplyLost")
    /\ pc[r] = "count"
    /\ mode # "os"
    /\ Opt(r) \in Options
    /\ IncOptionHits(r)
    /\ CountVote(r)
    /\ Return(r, IF mode = "redis" THEN "count" ELSE "panic")
    /\ UNCHANGED <<mode, info, live, gen, votedPath, husk, storing, wiped, form,
                   locals>>

(* A call fails without effect, for good: the database layer panics.       *)
CallFailed(r) ==
    /\ Fault("CallFailed")
    /\ pc[r] \in {"user", "info", "record", "refind", "count", "recount"}
    /\ mode # "os"
    /\ pc[r] = "record" => mode # "redis"
    /\ Return(r, "panic")
    /\ UNCHANGED <<mode, store, form, locals, counted>>

-----------------------------------------------------------------------------
(* The rest of the program and its surroundings.                           *)

(* GET /deleteAccount: DEL of the name's key, whatever it holds by now.    *)
DeleteAccount(n) ==
    /\ live[n] \/ husk[n]
    /\ live' = [live EXCEPT ![n] = FALSE]
    /\ husk' = [husk EXCEPT ![n] = FALSE]
    /\ UNCHANGED <<mode, info, option, gen, votedPath, storing, wiped, lock, faults,
                   pc, form, locals, counted>>

(* redis: a login that found the account before it was deleted comes to    *)
(* its HINCRBY, which makes the key anew.                                  *)
IncFieldRevives(n) ==
    /\ mode = "redis"
    /\ ~live[n]
    /\ husk' = [husk EXCEPT ![n] = TRUE]
    /\ UNCHANGED <<mode, info, option, live, gen, votedPath, storing, wiped, lock,
                   faults, pc, form, locals, counted>>

(* POST /register of a name that is free: AddKV asks whether the key is    *)
(* there.                                                                  *)
NewUser(n) ==
    /\ ~live[n] /\ ~husk[n]
    /\ gen[n] < MaxGen
    /\ live' = [live EXCEPT ![n] = TRUE]
    /\ gen' = [gen EXCEPT ![n] = @ + 1]
    /\ UNCHANGED <<mode, info, option, votedPath, husk, storing, wiped, lock, faults,
                   pc, form, locals, counted>>

(* POST /createvote stores a poll.                                         *)
CreateVote(p) ==
    /\ info[p] = "none"
    /\ info' = [info EXCEPT ![p] = "open"]
    /\ UNCHANGED <<mode, option, live, gen, votedPath, husk, storing, wiped, lock,
                   faults, pc, form, locals, counted>>

(* redis: the HSET of Add stores the poll, its reply is lost, and Add      *)
(* makes the same HSET again, with every Option_num at zero.  Votes may    *)
(* come between.                                                           *)
StoreReplyLost(p) ==
    /\ Fault("StoreReplyLost")
    /\ mode = "redis"
    /\ info[p] = "none"
    /\ info' = [info EXCEPT ![p] = "open"]
    /\ storing' = [storing EXCEPT ![p] = TRUE]
    /\ UNCHANGED <<mode, option, live, gen, votedPath, husk, wiped, lock, pc, form,
                   locals, counted>>

StoreAgain(p) ==
    /\ storing[p]
    /\ wiped' = [wiped EXCEPT ![p] = [o \in Options |-> @[o] + option[p][o]]]
    /\ option' = [option EXCEPT ![p] = [o \in Options |-> 0]]
    /\ \/ storing' = [storing EXCEPT ![p] = FALSE] /\ UNCHANGED faults
       \/ Fault("StoreReplyLost") /\ UNCHANGED storing
    /\ UNCHANGED <<mode, info, live, gen, votedPath, husk, lock, pc, form, locals,
                   counted>>

(* The poll's End passes.                                                  *)
EndPasses(p) ==
    /\ info[p] = "open"
    /\ info' = [info EXCEPT ![p] = "ended"]
    /\ UNCHANGED <<mode, option, live, gen, votedPath, husk, storing, wiped, lock,
                   faults, pc, form, locals, counted>>

(* The process dies with every request in it, creators of polls included;  *)
(* the database server lives.  (Under os the data dies too: module         *)
(* Persistence.)                                                           *)
Crash ==
    /\ mode # "os"
    /\ \E r \in Requests : pc[r] \in Running
    /\ storing' = [p \in Paths |-> FALSE]
    /\ pc' = [r \in Requests |-> IF pc[r] \in Running THEN "crashed" ELSE pc[r]]
    /\ lock' = [p \in Paths |-> {}]
    /\ UNCHANGED <<mode, info, option, live, gen, votedPath, husk, wiped, faults,
                   form, locals, counted>>

-----------------------------------------------------------------------------
(* What a request does on its own once it is accepted. *)
Handle(r) ==
    \/ FindUser(r) \/ FindInfo(r) \/ LockInfo(r)
    \/ ReadVotedPath(r) \/ WriteVotedPath(r)
    \/ Updata(r) \/ FindUserAgain(r)
    \/ IncOption(r) \/ IndexPanic(r) \/ FindInfoAgain(r)

DatabaseFault(r) ==
    \/ UpdataConflict(r) \/ UpdataReplyLost(r)
    \/ IncOptionReplyLost(r) \/ CallFailed(r)

Next ==
    \/ \E r \in Requests :
        Post(r) \/ PostTurnedAway(r) \/ Handle(r) \/ DatabaseFault(r)
    \/ \E n \in Names : DeleteAccount(n) \/ IncFieldRevives(n) \/ NewUser(n)
    \/ \E p \in Paths :
        CreateVote(p) \/ StoreReplyLost(p) \/ StoreAgain(p) \/ EndPasses(p)
    \/ Crash

Spec == Init /\ [][Next]_vars

(* A goroutine that can go on does: the Go scheduler is fair, and a mutex  *)
(* is handed to a waiter that starves.  Nobody has to post, and the        *)
(* surroundings and the faults owe nothing.                                *)
FairSpec == Spec /\ \A r \in Requests : WF_vars(Handle(r))

-----------------------------------------------------------------------------
(* Properties.                                                             *)

SameVote(r, s) ==
    Name(r) = Name(s) /\ Path(r) = Path(s) /\ acct[r] = acct[s]

(* An account has at most one vote in a poll's tally where Updata compares *)
(* (redis.go:329, mysql.go:162): of the requests an account makes for one  *)
(* poll at most one is counted, and that one once, unless redis repeats an *)
(* HINCRBY whose reply it lost (redis.go:387).                             *)
OneBallot ==
    mode \in CasModes =>
        /\ \A r, s \in Requests :
            counted[r] > 0 /\ counted[s] > 0 /\ SameVote(r, s) => r = s
        /\ \A r \in Requests :
            counted[r] > 1 => mode = "redis" /\ faults < MaxFaults
                                /\ "IncOptionReplyLost" \in Faults

(* What the handler says when it turns a second vote away ("vote failed:   *)
(* you have voted already", vote.go:290, and the same text in              *)
(* race_test.go:73): an account is counted once in a poll, over every      *)
(* database.                                                               *)
EachAccountCountsOnce ==
    \A r, s \in Requests :
        counted[r] > 0 /\ counted[s] > 0 /\ SameVote(r, s) => r = s

(* The order of the two loops (vote.go:313, 327): a vote in the tally is   *)
(* in its account's VotedPath.  Under os the unlocked append may lose it.  *)
CountedIsRecorded ==
    mode # "os" =>
        \A r \in Requests :
            counted[r] > 0 => Contains(votedPath[Name(r)][acct[r]], Path(r))

(* The increments that went into option o of poll p.                       *)
Increments(p, o) ==
    {inc \in Requests \X (1 .. MaxFaults + 1) :
        inc[2] <= counted[inc[1]] /\ Path(inc[1]) = p /\ Opt(inc[1]) = o}

(* No increment is lost and none is made up, whatever requests run at once *)
(* (the v.Lock of vote.go:305, HINCRBY, $inc, mysql's swap of the column), *)
(* but for those that redis resets when it stores the poll again after a   *)
(* lost reply (redis.go:56).                                               *)
TallyExact ==
    \A p \in Paths, o \in Options :
        /\ option[p][o] + wiped[p][o] = Cardinality(Increments(p, o))
        /\ wiped[p][o] > 0 => mode = "redis" /\ faults < MaxFaults
                                /\ "StoreReplyLost" \in Faults

(* A vote that is spent is counted, or is on its way, unless its request   *)
(* died between the two loops (vote.go:312) or redis lost a reply.         *)
SpentIsCounted ==
    mode \in CasModes /\ (mode = "redis" => faults = MaxFaults) =>
        \A n \in Names, g \in 1 .. MaxGen, p \in Paths :
            Contains(votedPath[n][g], p) =>
                \E r \in Requests :
                    /\ Name(r) = n /\ Path(r) = p /\ acct[r] = g
                    /\ \/ counted[r] > 0
                       \/ pc[r] \in {"count", "recount", "panic", "crashed"}

(* The increments that redis makes again because it lost the reply.        *)
Repeated(p, o) == {inc \in Increments(p, o) : inc[2] > 1}

(* What the store means to Poll: the votes recorded are spent, a request   *)
(* whose vote is in the tally is a ballot of its account, and the tally is *)
(* the stored one less redis's repetitions, with what redis has reset.     *)
(* Over os and mongodb, which do not compare, no promise is made: there    *)
(* Poll sees nothing.                                                      *)
Voters == Names \X (1 .. MaxGen)
Spent == {vp \in Voters \X Paths :
            mode \in CasModes /\ Contains(votedPath[vp[1][1]][vp[1][2]], vp[2])}
Ballot(r) == <<<<Name(r), acct[r]>>, Path(r), Opt(r)>>
Ballots == {Ballot(r) : r \in {q \in Requests : mode \in CasModes /\ counted[q] > 0}}
Tally == [p \in Paths |-> [o \in Options |->
            IF mode \in CasModes
            THEN (option[p][o] + wiped[p][o]) - Cardinality(Repeated(p, o))
            ELSE 0]]

P == INSTANCE Poll WITH spent <- Spent, ballots <- Ballots, tally <- Tally

(* The handler over redis and mysql keeps Poll's promise (vote.go:284-338, *)
(* redis.go:329, mysql.go:162, 227), whatever fails and whatever is called *)
(* again.                                                                  *)
PollSpec == P!Spec

(* Why OneBallot, CountedIsRecorded and TallyExact hold: what is true of a *)
(* request between its two loops (vote.go:313-337).                        *)
Landed(r) == counted[r] > 0 \/ pc[r] \in {"count", "recount"}

PcFitsMode ==
    \A r \in Requests :
        /\ pc[r] = "write" => mode = "os"
        /\ pc[r] \in {"refind", "recount"} => mode # "os"

(* Only the second loop counts, and only redis comes back to it.           *)
CountsLast ==
    \A r \in Requests :
        /\ counted[r] > 0 => pc[r] \in {"count", "recount"} \cup Ended
        /\ (counted[r] > 0 /\ pc[r] \notin Ended) \/ counted[r] > 1 =>
            mode = "redis" /\ faults < MaxFaults /\ "IncOptionReplyLost" \in Faults
        /\ counted[r] + faults <=
            MaxFaults + (IF pc[r] \in Ended THEN 1 ELSE 0)

(* The copy a request is about to write lacks the poll.                    *)
SeenLacks ==
    mode \in CasModes =>
        \A r \in Requests :
            pc[r] \in {"info", "lock", "record"} => ~Contains(seen[r], Path(r))

LandedHolds ==
    mode # "os" =>
        \A r \in Requests :
            Landed(r) => Contains(votedPath[Name(r)][acct[r]], Path(r))

OneLanding ==
    mode \in CasModes =>
        \A r, s \in Requests :
            Landed(r) /\ Landed(s) /\ SameVote(r, s) => r = s

VoteInv == PcFitsMode /\ CountsLast /\ SeenLacks /\ LandedHolds /\ OneLanding

(* Every accepted request gets an answer or dies: neither the poll's lock  *)
(* nor a compare-and-swap loop (vote.go:313, 327) keeps it for ever.  The  *)
(* one exception is the loop of vote.go:313 over redis, for as long as     *)
(* what Find returns is the husk that a login's HINCRBY made of a deleted  *)
(* account (redis.go:370).                                                 *)
Answered ==
    \A r \in Requests :
        pc[r] \in Running ~>
            (pc[r] \in Ended \/ [](mode = "redis" /\ nameless[r]))
=============================================================================
