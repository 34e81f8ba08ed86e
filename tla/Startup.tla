------------------------------ MODULE Startup ------------------------------
(***************************************************************************)
(* A process that starts: the package initialisers and main, in the order  *)
(* in which Go runs them (config, data, account, vote, nonamevote, main),  *)
(* over what earlier starts left behind: certificate and key, the check    *)
(* of the master key, the table files. A process can be killed between any *)
(* two steps and in the middle of a save, a server may not answer, and     *)
(* config.ini can be edited at any time (Config).                          *)
(*                                                                         *)
(* Time is counted in units of which MaxAge are the age at which a session *)
(* is too old.                                                             *)
(***************************************************************************)
EXTENDS Config, FiniteSets

CONSTANTS
    Keys,       \* master keys the operator may give
    Tearable,   \* tables whose file may be left half written
    MaxAge,     \* sessionMaxAge
    MaxPairs,   \* bound: certificates made
    MaxTime     \* bound: the clock (sessions are made before it is reached)

ASSUME KeysAssumption == None \notin Keys /\ Keys \cap Nat = {}
ASSUME TearableAssumption == Tearable \subseteq {"User", "Session", "Vote", "VoteName", "LoginNum"}
ASSUME TimeAssumption == MaxAge \in Nat \ {0} /\ MaxTime \in Nat /\ MaxPairs \in Nat

Empty == 0      \* a file that was created and not written

VARIABLES
    pc,        \* the next step of the process, or how it ended
    began,     \* how often config.ini had been edited when the process started
    master,    \* the master key of this start
    noCas,     \* NoCasUpdate
    reads,     \* what GetDbMode has answered in this call of NewDb
    modes,     \* every answer of GetDbMode in this start
    db,        \* the backends of the tables made so far
    now,       \* session.go's now
    due,       \* when the goroutine that deletes old sessions is woken up
    cert,      \* cert.pem and key.pem: None, Empty or the number of the
    key,       \*   call of genSSL that wrote the file
    gen,       \* calls of genSSL that made a pair
    check,     \* ./check
    remote,    \* "key" in redis
    sealed,    \* backend of the accounts -> master keys it was served with
    cut,       \* history: what a start was killed over and no other has made
               \*   since: "cert" (the two files of the pair), "check"
    torn,      \* tables whose file is half written
    mixed,     \* a process that serves has seen two modes
    clock,
    sessions,  \* when the sessions in memory were created (os)
    saved      \* when those in ./session were

vars == <<configVars, pc, began, master, noCas, reads, modes, db, now,
          due, cert, key, gen, check, remote, sealed, cut, torn, mixed,
          clock, sessions, saved>>

start == <<began, master>>
tables == <<noCas, reads, modes, db>>
cleaner == <<now, due>>
pair == <<cert, key, gen>>
masters == <<check, remote, sealed, mixed>>
time == <<clock, sessions, saved>>

(* In the order of their initialisation.                                   *)
Tables == <<"Ip", "Session", "User", "LoginNum", "Vote", "VoteName">>
Stores == {"os", "redis", "mysql", "mongodb"}

Starting == {"read", "assign", "load", "cas", "tables", "https", "writecert",
             "createkey", "writekey", "readkey", "check", "writecheck", "listen"}
Panics == {"nil", "nokey", "badpair", "notstring", "badmaster",
           "noredis", "nomysql", "nomongodb", "badfile"}

Time == 0 .. MaxTime

TypeOK ==
    /\ ConfigTypeOK
    /\ pc \in {"down", "serving"} \cup Starting \cup Panics
    /\ gen \in 0 .. MaxPairs
    /\ began \in Edits /\ master \in Keys \cup {None}
    /\ noCas \in BOOLEAN /\ mixed \in BOOLEAN
    /\ modes \subseteq Modes
    /\ reads \in Seq(Modes) /\ Len(reads) <= 3
    /\ db \in Seq(Stores) /\ Len(db) <= Len(Tables)
    /\ now \in Time \cup {None} /\ due \in 0 .. MaxTime + MaxAge \cup {None}
    /\ {cert, key} \subseteq 0 .. MaxPairs \cup {None}
    /\ check \in Keys \cup {None, Empty} /\ remote \in Keys \cup {None}
    /\ sealed \in [Stores -> SUBSET Keys]
    /\ cut \subseteq {"cert", "check"} /\ torn \subseteq Tearable
    /\ clock \in Time /\ sessions \subseteq Time /\ saved \subseteq Time

Init ==
    /\ ConfigInit
    /\ pc = "down" /\ began = 0 /\ master = None
    /\ noCas = FALSE /\ reads = <<>> /\ modes = {} /\ db = <<>>
    /\ now = None /\ due = None
    /\ cert = None /\ key = None /\ gen = 0
    /\ check = None /\ remote = None
    /\ sealed = [s \in Stores |-> {}] /\ cut = {} /\ torn = {} /\ mixed = FALSE
    /\ clock = 0 /\ sessions = {} /\ saved = {}

-----------------------------------------------------------------------------
(* config.init.                                                            *)

Start(k) ==
    /\ pc = "down"
    /\ WatchConfig
    /\ pc' = "read"
    /\ began' = ini.edit /\ master' = k
    /\ UNCHANGED <<tables, cleaner, pair, masters, cut, torn, time>>

Read ==
    /\ pc = "read" /\ ReadInConfig
    /\ pc' = "assign"
    /\ UNCHANGED <<start, tables, cleaner, pair, masters, cut, torn, time>>

AssignAndLoad ==
    /\ pc = "assign" /\ Assign
    /\ pc' = "load"
    /\ UNCHANGED <<start, tables, cleaner, pair, masters, cut, torn, time>>

LoadConfig(l) ==
    /\ pc \notin {"down"} \cup Panics
    /\ Load(l)
    /\ pc' = IF l = "main" /\ at'[l] = 0 THEN "cas" ELSE pc
    /\ UNCHANGED <<start, tables, cleaner, pair, masters, cut, torn, time>>

Watcher ==
    /\ pc \notin {"down"} \cup Panics
    /\ OnConfigChange
    /\ UNCHANGED <<pc, start, tables, cleaner, pair, masters, cut, torn, time>>

NilPanic ==
    /\ pc \notin {"down"} \cup Panics
    /\ AsksNil
    /\ pc' = "nil"
    /\ UNCHANGED <<configVars, start, tables, cleaner, pair, masters, cut, torn, time>>

GetDbMode == conf.held.mode

Cas ==
    /\ pc = "cas"
    /\ noCas' = (GetDbMode \in {"os", "mongodb-redis"})
    /\ modes' = {GetDbMode}
    /\ pc' = "tables"
    /\ UNCHANGED <<configVars, start, reads, db, cleaner, pair, masters, cut, torn, time>>

-----------------------------------------------------------------------------
(* The tables.                                                             *)

(* Mutant: only the sessions are always in redis. *)
MutantNewDb(table, m) ==
    IF table = "Ip" \/ m[1] = "os" THEN "os"
    ELSE IF table = "Session" THEN "redis"
    ELSE IF m[Len(m)] = "mongodb-os-redis" THEN "mongodb"
    ELSE IF m[2] = "mysql-os-redis" THEN "mysql"
    ELSE "redis"

(* NewDb asks for the mode up to three times: whether it is os, whether it *)
(* is mysql-os-redis and whether it is mongodb-os-redis.                   *)
NewDb(table, m) ==
    IF table = "Ip" \/ m[1] = "os" THEN "os"
    ELSE IF table \in {"LoginNum", "Session"} THEN "redis"
    ELSE IF m[Len(m)] = "mongodb-os-redis" THEN "mongodb"
    ELSE IF m[2] = "mysql-os-redis" THEN "mysql"
    ELSE "redis"

Asked(table, m) ==
    Len(m) = 3 \/ (Len(m) = 2 /\ (m[1] = "os" \/ table \in {"Ip", "LoginNum", "Session"}))

(* Go initialises account's tables before its init, and then vote's.       *)
AccountInit == Len(db) = 4 /\ now = None

ReadMode ==
    /\ pc = "tables" /\ ~AccountInit
    /\ ~Asked(Tables[Len(db) + 1], reads)
    /\ reads' = Append(reads, GetDbMode)
    /\ modes' = modes \cup {GetDbMode}
    /\ UNCHANGED <<configVars, pc, start, noCas, db, cleaner, pair, masters, cut, torn, time>>

(* A table over os is loaded from its file.                                *)
MakeTable ==
    /\ pc = "tables"
    /\ LET table == Tables[Len(db) + 1] IN
        /\ Asked(table, reads)
        /\ ~(NewDb(table, reads) = "os" /\ table \in torn)
        /\ db' = Append(db, NewDb(table, reads))
        /\ sessions' = IF table = "Session" /\ reads[1] = "os" THEN saved ELSE sessions
    /\ reads' = <<>>
    /\ pc' = IF Len(db') = Len(Tables) THEN "https" ELSE "tables"
    /\ UNCHANGED <<configVars, start, noCas, modes, cleaner, pair, masters, cut, torn,
                   clock, saved>>

(* Half a file cannot be decoded, every table over mysql is migrated, and  *)
(* the first over mongodb connects. (A client of redis waits for its first *)
(* command.)                                                               *)
TableFails ==
    /\ pc = "tables"
    /\ LET table == Tables[Len(db) + 1]
           store == NewDb(table, reads)
       IN  /\ Asked(table, reads)
           /\ \/ store = "os" /\ table \in torn /\ pc' = "badfile"
              \/ store = "mysql" /\ pc' = "nomysql"
              \/ /\ store = "mongodb" /\ \A i \in 1 .. Len(db) : db[i] # "mongodb"
                 /\ pc' = "nomongodb"
    /\ UNCHANGED <<configVars, start, tables, cleaner, pair, masters, cut, torn, time>>

(* Mutant: a session that is exactly as old as it may be is too old. *)
MutantExpired(t) == {s \in sessions : t - s >= MaxAge}

Expired(t) == {s \in sessions : t - s > MaxAge}

(* account.init: under os the sessions that are too old are deleted now,   *)
(* and a goroutine is to do it again and again. When the mode has just     *)
(* become os, the sessions are in redis, which may fail (those it would    *)
(* delete there are not modelled).                                         *)
CleanAtStart ==
    /\ pc = "tables" /\ AccountInit
    /\ modes' = modes \cup {GetDbMode}
    /\ now' = clock
    /\ \/ /\ GetDbMode = "os"
          /\ due' = clock + MaxAge /\ sessions' = sessions \ Expired(clock)
          /\ UNCHANGED pc
       \/ /\ GetDbMode = "os" /\ db[2] = "redis"
          /\ due' = None /\ pc' = "noredis"
          /\ UNCHANGED sessions
       \/ GetDbMode # "os" /\ due' = None /\ UNCHANGED <<pc, sessions>>
    /\ UNCHANGED <<configVars, start, noCas, reads, db, pair, masters, cut, torn,
                   clock, saved>>

(* The goroutine counts the age up to the time of the start.               *)
CleanUp ==
    /\ pc = "serving" /\ due # None /\ clock >= due
    /\ sessions' = sessions \ Expired(now)
    /\ due' = clock + MaxAge
    /\ UNCHANGED <<configVars, pc, start, tables, now, pair, masters, cut, torn,
                   clock, saved>>

-----------------------------------------------------------------------------
(* nonamevote.init: initHttps and genSSL, then checkKey.                   *)

InitHttps ==
    /\ pc = "https"
    /\ cert = None => gen < MaxPairs
    /\ IF cert = None
       THEN cert' = Empty /\ pc' = "writecert"
       ELSE UNCHANGED cert /\ pc' = "readkey"
    /\ UNCHANGED <<configVars, start, tables, cleaner, key, gen, masters, cut, torn, time>>

(* genSSL, after cert.pem is created; then initHttps begins again.         *)
WriteCert ==
    /\ pc = "writecert"
    /\ gen' = gen + 1 /\ cert' = gen + 1
    /\ pc' = "createkey"
    /\ UNCHANGED <<configVars, start, tables, cleaner, key, masters, cut, torn, time>>

(* Mutant: a key that is there is kept. *)
MutantCreateKey ==
    /\ pc = "createkey"
    /\ IF key = None THEN key' = Empty /\ pc' = "writekey"
       ELSE UNCHANGED key /\ pc' = "https"
    /\ UNCHANGED <<configVars, start, tables, cleaner, cert, gen, masters, cut, torn, time>>

CreateKey ==
    /\ pc = "createkey"
    /\ key' = Empty
    /\ pc' = "writekey"
    /\ UNCHANGED <<configVars, start, tables, cleaner, cert, gen, masters, cut, torn, time>>

WriteKey ==
    /\ pc = "writekey"
    /\ key' = gen
    /\ pc' = "https"
    /\ cut' = cut \ {"cert"}
    /\ UNCHANGED <<configVars, start, tables, cleaner, cert, gen, masters, torn, time>>

ReadKey ==
    /\ pc = "readkey"
    /\ pc' = IF key = None THEN "nokey" ELSE "check"
    /\ UNCHANGED <<configVars, start, tables, cleaner, pair, masters, cut, torn, time>>

(* Mutant: whoever is first in redis wins, and the others are let in. *)
MutantSameMaster(stored) == stored # Empty

SameMaster(stored) == stored = master

(* What "key" holds in redis after SETNX: what was there first.            *)
FirstKey == IF remote = None THEN master ELSE remote

(* SETNX, and GET where there was a key, which is then decrypted. Either   *)
(* may fail, SETNX also after it took effect.                              *)
LoadOrStoreStr ==
    \/ remote' = FirstKey /\ pc' = IF SameMaster(remote') THEN "listen" ELSE "badmaster"
    \/ remote' \in {remote, FirstKey} /\ pc' = "noredis"

(* checkKey: over os ./check is made, or read and decrypted; otherwise     *)
(* the table of sessions is asked, which must be in redis to know how.     *)
CheckKey ==
    /\ pc = "check"
    /\ modes' = modes \cup {GetDbMode}
    /\ \/ /\ GetDbMode = "os" /\ check = None
          /\ check' = Empty /\ pc' = "writecheck"
          /\ UNCHANGED remote
       \/ /\ GetDbMode = "os" /\ check # None
          /\ pc' = IF SameMaster(check) THEN "listen" ELSE "badmaster"
          /\ UNCHANGED <<check, remote>>
       \/ /\ GetDbMode # "os" /\ db[2] # "redis"
          /\ pc' = "notstring"
          /\ UNCHANGED <<check, remote>>
       \/ /\ GetDbMode # "os" /\ db[2] = "redis"
          /\ LoadOrStoreStr
          /\ UNCHANGED check
    /\ UNCHANGED <<configVars, start, noCas, reads, db, cleaner, pair, sealed,
                   mixed, cut, torn, time>>

WriteCheck ==
    /\ pc = "writecheck"
    /\ check' = master
    /\ pc' = "listen"
    /\ UNCHANGED <<configVars, start, tables, cleaner, pair, remote, sealed,
                   mixed, cut, torn, time>>

(* main: ListenAndServeTLS takes a pair that fits.                         *)
Listen ==
    /\ pc = "listen"
    /\ IF cert = key /\ cert # Empty
       THEN /\ pc' = "serving"
            /\ sealed' = [sealed EXCEPT ![db[3]] = @ \cup {master}]
            /\ mixed' = (mixed \/ Cardinality(modes) > 1)
       ELSE pc' = "badpair" /\ UNCHANGED <<sealed, mixed>>
    /\ UNCHANGED <<configVars, start, tables, cleaner, pair, check, remote, cut, torn, time>>

-----------------------------------------------------------------------------
(* Serving, and the end.                                                   *)

EditConfig ==
    /\ Edit
    /\ UNCHANGED <<pc, start, tables, cleaner, pair, masters, cut, torn, time>>

(* A session made at the end of the bounded clock would grow no older.     *)
Login ==
    /\ pc = "serving" /\ db[2] = "os" /\ clock < MaxTime
    /\ sessions' = sessions \cup {clock}
    /\ UNCHANGED <<configVars, pc, start, tables, cleaner, pair, masters, cut, torn,
                   clock, saved>>

Save ==
    /\ pc = "serving" /\ db[2] = "os"
    /\ saved' = sessions
    /\ UNCHANGED <<configVars, pc, start, tables, cleaner, pair, masters, cut, torn,
                   clock, sessions>>

(* Time passes while the process serves or is down; a start takes none.    *)
(* It is counted from the first session that is kept over os.              *)
Elapse ==
    /\ pc \in {"serving", "down"} /\ clock < MaxTime
    /\ sessions \cup saved # {}
    /\ pc = "serving" /\ due # None => clock < due
    /\ clock' = clock + 1
    /\ UNCHANGED <<configVars, pc, start, tables, cleaner, pair, masters, cut, torn,
                   sessions, saved>>

(* The process and all it held are gone.                                   *)
End ==
    /\ Forget
    /\ pc' = "down" /\ master' = None /\ began' = 0
    /\ noCas' = FALSE /\ reads' = <<>> /\ modes' = {} /\ db' = <<>>
    /\ now' = None /\ due' = None /\ sessions' = {}
    /\ UNCHANGED <<pair, masters, clock>>

(* Killed, or ended by a panic.                                            *)
Stop ==
    /\ pc # "down"
    /\ cut' = cut \cup (IF pc \in {"writecert", "createkey", "writekey"} THEN {"cert"} ELSE {})
                  \cup (IF pc = "writecheck" THEN {"check"} ELSE {})
    /\ End
    /\ UNCHANGED <<torn, saved>>

(* Killed while a table is saved, whose file is emptied first: it stays    *)
(* empty, which the next start takes for an empty table, or half written.  *)
KilledInSave(t) ==
    /\ pc = "serving"
    /\ \E i \in 1 .. Len(db) : Tables[i] = t /\ db[i] = "os"
    /\ End
    /\ torn' \in {torn, torn \cup {t}}
    /\ saved' = IF t = "Session" THEN {} ELSE saved
    /\ UNCHANGED cut

(* An operator who cannot start removes the file that is in the way, and   *)
(* one who wants a new certificate the old one (as long as MaxPairs lets a *)
(* start make another).                                                    *)
RemoveFile(t) ==
    /\ pc = "down" /\ t \in torn
    /\ torn' = torn \ {t}
    /\ UNCHANGED <<configVars, pc, start, tables, cleaner, pair, masters, cut, time>>

RemoveCert ==
    /\ pc = "down" /\ cert # None /\ gen < MaxPairs
    /\ cert' = None
    /\ UNCHANGED <<configVars, pc, start, tables, cleaner, key, gen, masters, cut, torn, time>>

-----------------------------------------------------------------------------
Step ==
    \/ Read \/ AssignAndLoad \/ LoadConfig("main") \/ Cas \/ ReadMode \/ MakeTable
    \/ TableFails \/ CleanAtStart \/ InitHttps \/ WriteCert \/ CreateKey \/ WriteKey \/ ReadKey
    \/ CheckKey \/ WriteCheck \/ Listen

Next ==
    \/ \E k \in Keys : Start(k)
    \/ Step \/ Watcher \/ LoadConfig("watcher") \/ NilPanic \/ EditConfig
    \/ Login \/ Save \/ CleanUp \/ Elapse \/ Stop \/ RemoveCert
    \/ \E t \in Tearable : KilledInSave(t) \/ RemoveFile(t)

Spec == Init /\ [][Next]_vars

-----------------------------------------------------------------------------
(* Properties.                                                             *)

(* The servers a mode needs, by what a start without one of them ends in.  *)
Needs(m) ==
    CASE m = "os" -> {}
      [] m = "redis" -> {"noredis"}
      [] m = "mysql-os-redis" -> {"noredis", "nomysql"}
      [] OTHER -> {"noredis", "nomongodb"}

(* A start that fails has a reason. config.ini was edited while it ran     *)
(* (config.go:32, utils.go:106); an earlier process was killed between the *)
(* two files of the certificate (https.go:53-66), before ./check was       *)
(* written (utils.go:89-93) or while it saved a table (os.go:65-68, 81);   *)
(* it was given another master key; or a server did not answer, which can  *)
(* only be one that a mode this start was told of needs (redis.go:421-436, *)
(* mysql.go:30-49, mongodb.go:29-44, session.go:126-131). The disk, the    *)
(* port and the files that are deployed with the program are taken to be   *)
(* in order.                                                               *)
PanicHasCause ==
    /\ pc = "nil" => ini.edit > began
    /\ pc = "notstring" => ini.edit > began /\ Cardinality(modes) > 1
    /\ pc \in {"nokey", "badpair"} => "cert" \in cut
    /\ pc = "badmaster" =>
        \/ "check" \in cut /\ check = Empty
        \/ \E k \in Keys \ {master} : k \in {check, remote}
    /\ pc \in {"noredis", "nomysql", "nomongodb"} => \E m \in modes : pc \in Needs(m)
    /\ pc = "badfile" => torn # {} /\ "os" \in modes

(* Accounts are served with one master key, whatever starts there were and *)
(* however they were cut short ("two starts used different master keys",   *)
(* utils.go:102), unless db.mode changed in the middle of a start.         *)
OneMasterKey == ~mixed => \A s \in Stores : Cardinality(sealed[s]) <= 1

(* What the process limits by is what config.ini says, and the text says   *)
(* the same (config.go:54-68), once nobody is loading, unless an edit came *)
(* so early that the watcher and the start were in loadConfig at once.     *)
ConfigInForce ==
    Settled /\ ~raced /\ pc \notin Panics =>
        /\ conf.held = [limit |-> ini.edit, mode |-> ini.mode]
        /\ conf.info = ini.edit

(* Where the tables are said to be: data.go:77-79 and, for mongodb,        *)
(* config.ini:18.                                                          *)
Documented(m) ==
    CASE m = "os" -> <<"os", "os", "os", "os", "os", "os">>
      [] m = "redis" -> <<"redis", "redis", "redis", "redis", "redis", "redis">>
      [] m = "mysql-os-redis" -> <<"os", "redis", "mysql", "redis", "mysql", "mysql">>
      [] OTHER -> <<"os", "redis", "mongodb", "redis", "mongodb", "mongodb">>

(* As long as config.ini stays as it was when the process started, every   *)
(* table but Ip is where db.mode is said to put it (data.go:77-79), and    *)
(* the loops that may go without comparing are those over tables in memory *)
(* (config.go:74).                                                         *)
TablesFitMode ==
    pc = "serving" /\ ini.edit = began =>
        /\ \A i \in 2 .. 6 : db[i] = Documented(ini.mode)[i]
        /\ noCas => db[5] = "os"

(* And so is Ip, the counters of requests: "redis: all of them use RedisDb"*)
(* (data.go:78), "redis: the data is kept in redis" (config.ini:16). The   *)
(* code puts Ip in memory whatever the mode is (data.go:80).               *)
IpFitsMode ==
    pc = "serving" /\ ini.edit = began => db[1] = Documented(ini.mode)[1]

(* A session is deleted only when it is too old, and a process that starts *)
(* over the file goes on without those that are (session.go:126-143).      *)
OldSessionsGo ==
    [][pc # "down" /\ pc' # "down" =>
        /\ \A s \in sessions \ sessions' : clock - s > MaxAge
        /\ now = None /\ now' # None /\ modes' = {"os"} =>
            \A s \in sessions' : clock - s <= MaxAge]_vars
=============================================================================
