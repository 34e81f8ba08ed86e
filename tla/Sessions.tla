------------------------------ MODULE Sessions ------------------------------
(***************************************************************************)
(* The sessions of one account name: POST /register, POST /login and       *)
(* GET /deleteAccount (nonamevote/route.go, utils.go), the row of the      *)
(* account with its ring of three sessions (internal/account), the table   *)
(* of sessions, and the check of a session (session.go).                   *)
(*                                                                         *)
(* A login stores its session in the table, then in the ring at the        *)
(* account's SessionIndex, and then increments the index; what the second  *)
(* and the third do to the row depends on db.mode.                         *)
(***************************************************************************)
EXTENDS Integers, FiniteSets

CONSTANTS
    Requests,    \* logins and registrations; each stands for its session
    NoSession,   \* an empty slot of the ring
    Earlier,     \* the session of a login before those under study
    Modes,       \* the values of db.mode under study
    MaxGen,      \* bound: how often the name is registered
    IndexSize,   \* the values of SessionIndex: 256 for the uint8 of the code
    MaxFaults    \* bound: how often a redis transaction is spoiled

Backends == {"os", "redis", "mysql-os-redis", "mongodb-os-redis"}

ASSUME RequestsAssumption ==
    IsFiniteSet(Requests) /\ NoSession \notin Requests /\ Earlier \notin Requests
ASSUME ModesAssumption == Modes \subseteq Backends
ASSUME MaxGenAssumption == MaxGen \in Nat \ {0}
(* There is an index for every slot of the ring.                           *)
ASSUME IndexSizeAssumption == IndexSize \in Nat /\ IndexSize >= 3
ASSUME FaultsAssumption == MaxFaults \in Nat

Slots == 0 .. 2
EmptyRing == [i \in Slots |-> NoSession]
Sessions == Requests \cup {NoSession, Earlier}

VARIABLES
    mode,     \* db.mode
    live,     \* the name is registered
    gen,      \* which registration is the latest
    ring,     \* registration -> User.Session
    index,    \* registration -> User.SessionIndex
    husk,     \* redis: the name's key has no account, only a SessionIndex
    table,    \* the sessions in SessionDb
    faults,   \* faults that may still happen
    pc,       \* request -> its next step, or how it ended
    acct,     \* request -> the registration it found
    old,      \* request -> the ring it found
    at,       \* request -> the index it found
    check,    \* session -> a check of it has found it invalid
    alone     \* history: request -> no other request has overlapped it

vars == <<mode, live, gen, ring, index, husk, table, faults, pc, acct, old, at,
          check, alone>>
row == <<live, gen, ring, index, husk>>
locals == <<acct, old, at>>

Running == {"session", "update", "inc", "incwrite"}
Ended == {"ok", "refused", "panic"}

TypeOK ==
    /\ mode \in Modes
    /\ live \in BOOLEAN
    /\ gen \in 0 .. MaxGen
    /\ ring \in [0 .. MaxGen -> [Slots -> Sessions]]
    /\ index \in [0 .. MaxGen -> 0 .. IndexSize - 1]
    /\ husk \in BOOLEAN
    /\ table \in SUBSET Requests
    /\ faults \in 0 .. MaxFaults
    /\ pc \in [Requests -> {"idle"} \cup Running \cup Ended]
    /\ acct \in [Requests -> 0 .. MaxGen]
    /\ old \in [Requests -> [Slots -> Sessions]]
    /\ at \in [Requests -> 0 .. IndexSize - 1]
    /\ check \in [Requests -> BOOLEAN]
    /\ alone \in [Requests -> BOOLEAN]

(* The name is free, or is registered and has been logged in to so often   *)
(* that its ring is full and its index is at its last value.               *)
Init ==
    /\ mode \in Modes
    /\ ring \in {[g \in 0 .. MaxGen |-> EmptyRing],
                [g \in 0 .. MaxGen |->
                    IF g = 1 THEN [i \in Slots |-> Earlier] ELSE EmptyRing]}
    /\ live = (ring[1] # EmptyRing)
    /\ gen = IF live THEN 1 ELSE 0
    /\ index = [g \in 0 .. MaxGen |-> IF g = gen /\ live THEN IndexSize - 1 ELSE 0]
    /\ husk = FALSE
    /\ table = {}
    /\ faults = MaxFaults
    /\ pc = [r \in Requests |-> "idle"]
    /\ acct = [r \in Requests |-> 0]
    /\ old = [r \in Requests |-> EmptyRing]
    /\ at = [r \in Requests |-> 0]
    /\ check = [r \in Requests |-> FALSE]
    /\ alone = [r \in Requests |-> TRUE]

-----------------------------------------------------------------------------
Goto(r, step) == pc' = [pc EXCEPT ![r] = step]

(* The request holds the account of registration g: its copy of the row.   *)
Hold(r, g, sessions, i) ==
    /\ acct' = [acct EXCEPT ![r] = g]
    /\ old' = [old EXCEPT ![r] = sessions]
    /\ at' = [at EXCEPT ![r] = i]

Overlaps(r) == {q \in Requests \ {r} : pc[q] \in Running}

(* The request has an account to log in to: it overlaps those that run.    *)
Begin(r, g, sessions, i) ==
    /\ Hold(r, g, sessions, i)
    /\ Goto(r, "session")
    /\ alone' = [q \in Requests |->
                    IF q = r THEN Overlaps(r) = {}
                             ELSE alone[q] /\ q \notin Overlaps(r)]

(* NewUser: AddKV makes the account, unless the name's key exists.         *)
Register(r) ==
    /\ pc[r] = "idle"
    /\ \/ /\ live \/ husk
          /\ Goto(r, "refused")
          /\ UNCHANGED <<row, locals, alone>>
       \/ /\ ~live /\ ~husk
          /\ gen < MaxGen
          /\ live' = TRUE
          /\ gen' = gen + 1
          /\ Begin(r, gen + 1, EmptyRing, 0)
          /\ UNCHANGED <<ring, index, husk>>
    /\ UNCHANGED <<mode, table, faults, check>>

(* POST /login, up to addSession.  What is left of an account in redis has *)
(* no TotpURL to decrypt.                                                  *)
Login(r) ==
    /\ pc[r] = "idle"
    /\ live
    /\ Begin(r, gen, ring[gen], index[gen])
    /\ UNCHANGED <<mode, row, table, faults, check>>

(* No account.  (A login with a wrong code, or one too many, does nothing  *)
(* to the state of this module.)                                           *)
LoginFails(r) ==
    /\ pc[r] = "idle"
    /\ ~live
    /\ Goto(r, IF husk THEN "panic" ELSE "refused")
    /\ UNCHANGED <<mode, row, table, faults, locals, check, alone>>

(* NewSession stores the session.                                          *)
NewSession(r) ==
    /\ pc[r] = "session"
    /\ table' = table \cup {r}
    /\ Goto(r, "update")
    /\ UNCHANGED <<mode, row, faults, locals, check, alone>>

(* The ring s with the session of r in slot i.                             *)
With(s, i, r) == [s EXCEPT ![i % 3] = r]

(* Under os the session goes into the shared row, at the index it has now. *)
SetSlot(r) ==
    /\ pc[r] = "update"
    /\ mode = "os"
    /\ ring' = [ring EXCEPT ![acct[r]] = With(@, index[acct[r]], r)]
    /\ Goto(r, "inc")
    /\ UNCHANGED <<mode, live, gen, index, husk, table, faults, locals, check, alone>>

(* Mutant: the new ring is compared, not the one found. *)
MutantUpdataHitsNew(r) ==
    live /\ (mode # "mongodb-os-redis" => ring[gen] = With(old[r], at[r], r))

(* mysql and redis write the request's copy of the ring over the one it    *)
(* has found; mongodb sets the one slot.                                   *)
UpdataHits(r) == live /\ (mode # "mongodb-os-redis" => ring[gen] = old[r])

WriteRing(r) ==
    /\ UpdataHits(r)
    /\ ring' = [ring EXCEPT ![gen] = With(@, at[r], r)]

(* Mutant: an index of 2 is taken to be beyond the ring, and skipped. *)
MutantUpdataSession(r) ==
    /\ pc[r] = "update"
    /\ mode # "os"
    /\ IF at[r] % 3 = 2 THEN UNCHANGED ring ELSE WriteRing(r)
    /\ Goto(r, "inc")
    /\ UNCHANGED <<mode, live, gen, index, husk, table, faults, locals, check, alone>>

(* redis and mongodb try once; mysql tries the same again until it writes. *)
UpdataSession(r) ==
    /\ pc[r] = "update"
    /\ mode # "os"
    /\ \/ WriteRing(r)
       \/ ~UpdataHits(r) /\ mode # "mysql-os-redis" /\ UNCHANGED ring
    /\ Goto(r, "inc")
    /\ UNCHANGED <<mode, live, gen, index, husk, table, faults, locals, check, alone>>

(* redis: the account's key changes under WATCH in another field (a vote), *)
(* or a call fails, and Updata's answer is not looked at.                  *)
UpdataConflict(r) ==
    /\ pc[r] = "update"
    /\ mode = "redis"
    /\ faults > 0
    /\ faults' = faults - 1
    /\ Goto(r, "inc")
    /\ UNCHANGED <<mode, row, table, locals, check, alone>>

(* IncField.  Under os it does nothing, and SessionIndex++ of the shared   *)
(* row is a read and a write.  mysql's column takes no value beyond the    *)
(* last; redis makes a key for an account that is gone.                    *)
ReadIndex(r) ==
    /\ pc[r] = "inc"
    /\ mode = "os"
    /\ at' = [at EXCEPT ![r] = index[acct[r]]]
    /\ Goto(r, "incwrite")
    /\ UNCHANGED <<mode, row, table, faults, acct, old, check, alone>>

(* Mutant: a counter that does not wrap. *)
MutantNextIndex(i) == i + 1

(* SessionIndex is a uint8.                                                *)
NextIndex(i) == (i + 1) % IndexSize

WriteIndex(r) ==
    /\ pc[r] = "incwrite"
    /\ index' = [index EXCEPT ![acct[r]] = NextIndex(at[r])]
    /\ Goto(r, "ok")
    /\ UNCHANGED <<mode, live, gen, ring, husk, table, faults, locals, check, alone>>

(* Mutant: the index stays where it is. *)
MutantIncField(r) ==
    /\ pc[r] = "inc"
    /\ mode # "os"
    /\ Goto(r, "ok")
    /\ UNCHANGED <<mode, row, table, faults, locals, check, alone>>

IncField(r) ==
    /\ pc[r] = "inc"
    /\ mode # "os"
    /\ IF live /\ mode = "mysql-os-redis" /\ index[gen] = IndexSize - 1
       THEN Goto(r, "panic") /\ UNCHANGED <<index, husk>>
       ELSE /\ Goto(r, "ok")
            /\ index' = IF live THEN [index EXCEPT ![gen] = NextIndex(@)] ELSE index
            /\ husk' = (husk \/ (~live /\ mode = "redis"))
    /\ UNCHANGED <<mode, live, gen, ring, table, faults, locals, check, alone>>

-----------------------------------------------------------------------------
(* GET /deleteAccount: the key goes, whatever it holds by now.  Bound: the *)
(* last registration is not deleted.                                       *)
Delete ==
    /\ live \/ husk
    /\ gen < MaxGen
    /\ live' = FALSE /\ husk' = FALSE
    /\ UNCHANGED <<mode, gen, ring, index, table, faults, pc, locals, check, alone>>

(* Mutant: only the first slot is looked at. *)
MutantInRing(r) == live /\ ring[gen][0] = r

InRing(r) == live /\ \E i \in Slots : ring[gen][i] = r

(* CheckLogined of a session a login has answered with: it has to be in    *)
(* the table and in the ring; one that is not in the ring is deleted.      *)
Check(r) ==
    /\ pc[r] = "ok"
    /\ r \in table
    /\ ~InRing(r)
    /\ check' = [check EXCEPT ![r] = TRUE]
    /\ UNCHANGED <<mode, row, table, faults, pc, locals, alone>>

CheckDeletes(r) ==
    /\ check[r]
    /\ check' = [check EXCEPT ![r] = FALSE]
    /\ table' = table \ {r}
    /\ UNCHANGED <<mode, row, faults, pc, locals, alone>>

-----------------------------------------------------------------------------
AddSession(r) ==
    \/ NewSession(r) \/ SetSlot(r) \/ UpdataSession(r)
    \/ ReadIndex(r) \/ WriteIndex(r) \/ IncField(r)

Next ==
    \/ \E r \in Requests :
        \/ Register(r) \/ Login(r) \/ LoginFails(r)
        \/ AddSession(r) \/ UpdataConflict(r)
        \/ Check(r) \/ CheckDeletes(r)
    \/ Delete

Spec == Init /\ [][Next]_vars

(* A goroutine that can go on does.                                        *)
FairSpec == Spec /\ \A r \in Requests : WF_vars(AddSession(r))

-----------------------------------------------------------------------------
(* Properties.                                                             *)

(* A session in the ring is in the table of sessions: no check deletes a   *)
(* session an account still has, and no login writes a deleted one back    *)
(* (session.go:41-53, utils.go:64-74).                                     *)
RingIsStored ==
    live => \A i \in Slots : ring[gen][i] \in table \cup {NoSession, Earlier}

(* However many logins of an account overlap, after the first answer one   *)
(* of their sessions is accepted ("no retry is needed here", utils.go:70), *)
(* unless redis spoils a transaction.                                      *)
SomebodyLoggedIn ==
    live /\ faults = MaxFaults =>
        \A r \in Requests :
            pc[r] = "ok" /\ acct[r] = gen => \E s \in Requests : InRing(s)

(* A login that nothing overlaps answers with a session that is accepted.  *)
LoneLoginAccepted ==
    [][\A r \in Requests :
        pc[r] # "ok" /\ pc'[r] = "ok" /\ alone[r] /\ faults = MaxFaults
            /\ live /\ acct[r] = gen => InRing(r)']_vars

(* As long as no two requests overlap the ring fills before a session is   *)
(* dropped: an account can be logged in from three places (user.go:24,     *)
(* utils.go:69).                                                           *)
RingFillsFirst ==
    [][(\A r \in Requests : alone[r]) /\ faults = MaxFaults =>
        \A i \in Slots :
            live /\ ring[gen][i] \notin {NoSession, ring'[gen][i]} =>
                \A j \in Slots : ring[gen][j] # NoSession]_vars

(* Logins end, except that mysql's loop on UpdataSession (mysql.go:177)    *)
(* needs the row to stay as it was found.                                  *)
LoneLoginEnds ==
    \A r \in Requests :
        pc[r] \in Running ~>
            \/ pc[r] \in Ended
            \/ mode = "mysql-os-redis" /\ ~(alone[r] /\ live /\ acct[r] = gen)

(* "No retry is needed here: a user who logs in again within a very short  *)
(* time is not behaving normally" (utils.go:70): a login ends whatever     *)
(* others do.                                                              *)
LoginEnds == \A r \in Requests : pc[r] \in Running ~> pc[r] \in Ended
=============================================================================
