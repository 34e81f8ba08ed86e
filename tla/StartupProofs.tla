---------------------------- MODULE StartupProofs ----------------------------
(***************************************************************************)
(* Theorems of modules Config and Startup, for every set of modes and of   *)
(* master keys, every age and every bound.                                 *)
(***************************************************************************)
EXTENDS Startup, TLAPS, FiniteSetTheorems, SequenceTheorems

(* A process that is not there holds nothing, and one that is has a watcher.*)
Gone ==
    /\ ~watched /\ ~pending /\ ~v /\ ~raced
    /\ viper = None /\ conf = NoConf /\ at = NoLoad /\ got = NoneGot
    /\ modes = {} /\ reads = <<>> /\ db = <<>>
    /\ now = None /\ due = None /\ sessions = {} /\ noCas = FALSE

(* Where config.init has got to, and who is in loadConfig.                 *)
Early == {"down", "read", "assign", "nil"}

WatchInv ==
    /\ pc = "down" => Gone
    /\ pc # "down" => watched /\ master \in Keys /\ began <= ini.edit
    /\ v <=> (pc \notin Early)
    /\ (pc = "load") <=> (at["main"] > 0)
    /\ pc # "down" /\ (pending \/ at["watcher"] > 0) => ini.edit > began
    /\ pc = "nil" => at["watcher"] > 0
    /\ pc \notin {"down", "read"} \/ at["watcher"] > 0 => viper # None
    /\ viper # None => viper = ini \/ pending
    /\ ~v => conf = NoConf /\ got = NoneGot /\ at["watcher"] \in {0, 1}

(* How far a loader that is alone has got with the file that was read.     *)
Loading(l) ==
    /\ at[l] = 2 => got[l].limit = viper.edit
    /\ at[l] > 2 => conf.held.limit = viper.edit
    /\ at[l] = 4 => got[l].mode = viper.mode
    /\ at[l] > 4 => conf.held.mode = viper.mode
    /\ at[l] = 6 => got[l].limit = viper.edit

LoadInv ==
    ~raced =>
        /\ at["main"] = 0 \/ at["watcher"] = 0
        /\ v /\ at["main"] > 0 => Loading("main")
        /\ v /\ at["watcher"] > 0 => Loading("watcher")
        /\ v /\ at["main"] = 0 /\ at["watcher"] = 0 =>
            conf = [held |-> [limit |-> viper.edit, mode |-> viper.mode],
                    info |-> viper.edit]

(* Whoever asks for db.mode is told one, and while config.ini stays as it  *)
(* was, always the same one.                                               *)
ModeKnown ==
    /\ \A l \in Loaders :
        /\ v /\ at[l] = 4 => got[l].mode \in Modes
        /\ at[l] > 4 => conf.held.mode \in Modes
    /\ pc \notin Early \cup {"load"} => conf.held.mode \in Modes

(* The tables that were made, in their order, and the modes that were seen.*)
Later == {"https", "writecert", "createkey", "writekey", "readkey", "check",
          "writecheck", "listen", "serving", "nokey", "badpair", "notstring", "badmaster"}

TableInv ==
    /\ pc \in Early \cup {"load", "cas"} => db = <<>> /\ reads = <<>> /\ modes = {}
    /\ pc = "tables" => Len(db) < 6
    /\ pc \in Later => Len(db) = 6
    /\ \A i \in 1 .. Len(reads) : reads[i] \in modes
    /\ Len(db) > 1 /\ db[2] # "redis" => "os" \in modes
    /\ Len(db) > 2 => \E m \in modes : (db[3] = "os" <=> m = "os")
    /\ Len(db) > 1 /\ db[2] = "redis" => \E m \in modes : m # "os"
    /\ pc = "notstring" => "os" \in modes /\ \E m \in modes : m # "os"
    /\ pc = "noredis" => \E m \in modes : m # "os"
    /\ pc = "nomysql" => "mysql-os-redis" \in modes
    /\ pc = "nomongodb" => "mongodb-os-redis" \in modes
    /\ pc = "badfile" => "os" \in modes /\ torn # {}

UneditedInv ==
    ini.edit = began /\ pc # "down" =>
        /\ viper \in {None, ini}
        /\ conf.held.mode \in {None, ini.mode}
        /\ \A l \in Loaders : got[l].mode \in {None, ini.mode}
        /\ modes \subseteq {ini.mode}
        /\ \A i \in 1 .. Len(db) : db[i] = NewDb(Tables[i], <<ini.mode, ini.mode>>)
        /\ noCas => ini.mode = "os"

(* No start is in the way of the pair unless it was killed over it.        *)
CertInv ==
    /\ pc = "writecert" => gen < MaxPairs
    /\ "cert" \notin cut =>
        IF pc = "writecert" THEN cert = Empty
        ELSE \/ pc \in {"createkey", "writekey"} \/ cert = None
             \/ cert = key /\ cert # Empty
    /\ pc \in {"createkey", "writekey"} => cert = gen /\ gen > 0
    /\ pc \in Later \ {"https"} => cert # None
    /\ pc = "nokey" => key = None
    /\ pc = "badpair" => ~(cert = key /\ cert # Empty)

(* The master key of a backend is the one that was left there first.       *)
MasterInv ==
    /\ check = Empty => pc = "writecheck" \/ "check" \in cut
    /\ pc = "writecheck" => check = Empty /\ "os" \in modes
    /\ pc = "listen" => \E m \in modes : master = IF m = "os" THEN check ELSE remote
    /\ pc = "badmaster" =>
        check = Empty \/ \E k \in Keys \ {master} : k \in {check, remote}
    /\ ~ mixed => \A s \in Stores : sealed[s] \subseteq {IF s = "os" THEN check ELSE remote}

SessionInv ==
    /\ Len(db) < 2 => sessions = {}
    /\ due # None => now # None
    /\ now # None => now <= clock

(* How a process ends, and what an operator removes.                       *)
Ended == Stop \/ \E t \in Tearable : KilledInSave(t)
Removed == RemoveCert \/ \E t \in Tearable : RemoveFile(t)

Inv ==
    /\ TypeOK /\ WatchInv /\ LoadInv /\ ModeKnown /\ TableInv /\ UneditedInv /\ CertInv
    /\ MasterInv /\ SessionInv

-----------------------------------------------------------------------------
(* Configuration.                                                          *)

(* The steps of loadConfig, one by one.                                    *)
LEMMA Steps ==
    /\ Len(LoadSteps) = 6
    /\ LoadSteps[1] = <<"get", "limit">> /\ LoadSteps[2] = <<"store", "limit">>
    /\ LoadSteps[3] = <<"get", "mode">> /\ LoadSteps[4] = <<"store", "mode">>
    /\ LoadSteps[5] = <<"load", "limit">> /\ LoadSteps[6] = <<"store", "info">>
  BY DEF LoadSteps

(* What each of them does.                                                 *)
LEMMA LoadFacts ==
    ASSUME NEW l \in Loaders, ConfigTypeOK, Load(l)
    PROVE  /\ at[l] \in 1 .. 6 /\ v
           /\ at' = [at EXCEPT ![l] = IF at[l] = 6 THEN 0 ELSE at[l] + 1]
           /\ at[l] = 1 => got' = [got EXCEPT ![l].limit = Get(viper, "limit")] /\ conf' = conf
           /\ at[l] = 2 => conf' = [conf EXCEPT !.held.limit = got[l].limit] /\ got' = got
           /\ at[l] = 3 => got' = [got EXCEPT ![l].mode = Get(viper, "mode")] /\ conf' = conf
           /\ at[l] = 4 => conf' = [conf EXCEPT !.held.mode = got[l].mode] /\ got' = got
           /\ at[l] = 5 => got' = [got EXCEPT ![l].limit = conf.held.limit] /\ conf' = conf
           /\ at[l] = 6 => conf' = [conf EXCEPT !.info = got[l].limit]
                        /\ got' = [got EXCEPT ![l] = Nothing]
           /\ UNCHANGED <<ini, watched, pending, viper, v, raced>>
<1>1. /\ at[l] \in 1 .. 6 /\ v
      /\ at' = [at EXCEPT ![l] = IF at[l] = 6 THEN 0 ELSE at[l] + 1]
      /\ UNCHANGED <<ini, watched, pending, viper, v, raced>>
  BY Steps DEF Load, ConfigTypeOK
<1>2. CASE at[l] = 1
  BY <1>1, <1>2, Steps DEF Load
<1>3. CASE at[l] = 2
  BY <1>1, <1>3, Steps DEF Load
<1>4. CASE at[l] = 3
  BY <1>1, <1>4, Steps DEF Load
<1>5. CASE at[l] = 4
  BY <1>1, <1>5, Steps DEF Load
<1>6. CASE at[l] = 5
  BY <1>1, <1>6, Steps DEF Load
<1>7. CASE at[l] = 6
  BY <1>1, <1>7, Steps DEF Load
<1> QED
  BY <1>1, <1>2, <1>3, <1>4, <1>5, <1>6, <1>7

(* What viper answers.                                                     *)
LEMMA GetFacts ==
    /\ \A f \in Files : Get(f, "limit") = f.edit /\ Get(f, "mode") = f.mode
    /\ Get(None, "limit") = None /\ Get(None, "mode") = None
  BY NoneAssumption DEF Get

(* However it ends, the process holds nothing.                             *)
LEMMA EndFacts ==
    ASSUME Ended
    PROVE  /\ pc # "down" /\ pc' = "down" /\ Forget /\ master' = None /\ began' = 0
           /\ noCas' = FALSE /\ reads' = <<>> /\ modes' = {} /\ db' = <<>>
           /\ now' = None /\ due' = None /\ sessions' = {}
           /\ UNCHANGED <<pair, masters, clock>>
           /\ cut \subseteq cut' /\ cut' \subseteq cut \cup {"cert", "check"}
           /\ pc \in {"writecert", "createkey", "writekey"} => "cert" \in cut'
           /\ pc = "writecheck" => "check" \in cut'
           /\ torn' \subseteq torn \cup Tearable /\ saved' \subseteq saved
<1>1. CASE Stop
  BY <1>1 DEF Stop, End
<1>2. ASSUME NEW t \in Tearable, KilledInSave(t)
      PROVE  /\ pc = "serving" /\ End /\ cut' = cut
             /\ torn' \subseteq torn \cup Tearable /\ saved' \subseteq saved
  BY <1>2 DEF KilledInSave
<1>3. CASE \E t \in Tearable : KilledInSave(t)
  <2>1. /\ pc = "serving" /\ End /\ cut' = cut
        /\ torn' \subseteq torn \cup Tearable /\ saved' \subseteq saved
    BY <1>2, <1>3
  <2> QED
    BY <2>1 DEF End
<1> QED
  BY <1>1, <1>3 DEF Ended

(* Removing a file changes nothing else.                                   *)
LEMMA RemoveFacts ==
    ASSUME Removed
    PROVE  /\ pc = "down" /\ cert' \in {cert, None} /\ torn' \subseteq torn
           /\ UNCHANGED <<configVars, pc, start, tables, cleaner, key, gen, masters, cut, time>>
  BY DEF Removed, RemoveCert, RemoveFile, pair

(* The steps there are.                                                    *)
LEMMA NextKinds ==
    ASSUME [Next]_vars
    PROVE  \/ \E k \in Keys : Start(k)
           \/ Read \/ AssignAndLoad \/ LoadConfig("main") \/ LoadConfig("watcher")
           \/ Watcher \/ NilPanic \/ EditConfig \/ Cas \/ ReadMode \/ MakeTable
           \/ TableFails \/ CleanAtStart \/ CleanUp \/ InitHttps \/ WriteCert \/ CreateKey
           \/ WriteKey \/ ReadKey \/ CheckKey \/ WriteCheck \/ Listen \/ Login \/ Save
           \/ Elapse \/ Ended \/ Removed \/ UNCHANGED vars
<1>1. CASE \E t \in Tearable : KilledInSave(t) \/ RemoveFile(t)
  BY <1>1 DEF Ended, Removed
<1>2. CASE Stop \/ RemoveCert
  BY <1>2 DEF Ended, Removed
<1> QED
  BY <1>1, <1>2 DEF Next, Step

(* Types of what the configuration holds.                                  *)
LEMMA ConfigTypes == [Next]_vars /\ TypeOK => ConfigTypeOK'
<1> SUFFICES ASSUME [Next]_vars, TypeOK PROVE ConfigTypeOK'
  OBVIOUS
<1>0. ConfigTypeOK /\ "main" \in Loaders /\ "watcher" \in Loaders /\ Len(LoadSteps) = 6
  BY Steps DEF TypeOK, Loaders
<1>1. ASSUME NEW l \in Loaders, Load(l) PROVE ConfigTypeOK'
  <2>0. /\ viper \in Files \cup {None} /\ conf \in [held : Held, info : Edits \cup {None}]
        /\ got \in [Loaders -> Held] /\ at \in [Loaders -> 0 .. 6] /\ ini \in Files
        /\ {watched, pending, v, raced} \subseteq BOOLEAN
    BY <1>0, Steps DEF ConfigTypeOK
  <2>1. Get(viper, "limit") \in Edits \cup {None} /\ Get(viper, "mode") \in Modes \cup {None}
    BY <2>0, GetFacts DEF Files
  <2>2. at' \in [Loaders -> 0 .. 6]
    BY <1>0, <1>1, <2>0, LoadFacts
  <2>3. conf' \in [held : Held, info : Edits \cup {None}] /\ got' \in [Loaders -> Held]
    BY <1>0, <1>1, <2>0, <2>1, LoadFacts DEF Held, Nothing
  <2> QED
    BY <1>0, <1>1, <2>0, <2>2, <2>3, LoadFacts, Steps DEF ConfigTypeOK
<1>2. CASE Forget
  <2>1. /\ conf' \in [held : Held, info : Edits \cup {None}]
        /\ at' \in [Loaders -> 0 .. 6] /\ got' \in [Loaders -> Held]
    BY <1>2 DEF Forget, NoConf, NoLoad, NoneGot, Nothing, Held
  <2>2. {watched', pending', v', raced'} \subseteq BOOLEAN
    BY <1>2 DEF Forget
  <2> QED
    BY <1>0, <1>2, <2>1, <2>2 DEF Forget, ConfigTypeOK
<1>3. CASE Edit
  BY <1>0, <1>3, MaxEditsAssumption DEF Edit, ConfigTypeOK, Files, Edits
<1>4. CASE WatchConfig \/ ReadInConfig
  BY <1>0, <1>4 DEF WatchConfig, ReadInConfig, ConfigTypeOK
<1>5. CASE Assign \/ OnConfigChange
  <2>1. /\ at' \in [Loaders -> 0 .. 6]
        /\ UNCHANGED <<ini, watched, conf, got>> /\ viper' \in {viper, ini}
    BY <1>0, <1>5 DEF Assign, OnConfigChange, EnterLoad, ConfigTypeOK
  <2>2. {pending', v', raced'} \subseteq BOOLEAN
    BY <1>0, <1>5 DEF Assign, OnConfigChange, EnterLoad, ConfigTypeOK
  <2> QED
    BY <1>0, <2>1, <2>2 DEF ConfigTypeOK
<1>6. CASE UNCHANGED configVars
  BY <1>0, <1>6 DEF configVars, ConfigTypeOK
<1> QED
  BY <1>0, <1>1, <1>2, <1>3, <1>4, <1>5, <1>6, NextKinds, EndFacts, RemoveFacts
  DEF vars, Start, Read, AssignAndLoad, LoadConfig, Watcher, NilPanic, Cas, ReadMode, MakeTable,
      TableFails, CleanAtStart, CleanUp, InitHttps, WriteCert, CreateKey, WriteKey, ReadKey,
      CheckKey, WriteCheck, Listen, EditConfig, Login, Save, Elapse

-----------------------------------------------------------------------------
(* Types.                                                                  *)

(* The modes that are asked for are modes, and their sets are finite.      *)
LEMMA ModeFacts ==
    /\ IsFiniteSet(Modes) /\ Modes \subseteq Backends
    /\ TypeOK /\ ModeKnown /\ pc \notin Early \cup {"load"} => GetDbMode \in Modes
    /\ TypeOK => modes \subseteq Modes /\ IsFiniteSet(modes)
<1>1. IsFiniteSet({"os", "redis", "mysql-os-redis", "mongodb-os-redis"})
  <2>1. IsFiniteSet({"os", "redis"}) /\ IsFiniteSet({"mysql-os-redis", "mongodb-os-redis"})
    <3>1. \A a : IsFiniteSet({a})
      BY FS_Singleton
    <3>2. ASSUME NEW a, NEW b PROVE IsFiniteSet({a, b})
      <4>1. {a, b} = {a} \cup {b}
        OBVIOUS
      <4>2. IsFiniteSet({a} \cup {b})
        BY <3>1, FS_Union
      <4> QED
        BY <4>1, <4>2, Zenon
    <3> QED
      BY <3>2
  <2>2. {"os", "redis", "mysql-os-redis", "mongodb-os-redis"} =
        {"os", "redis"} \cup {"mysql-os-redis", "mongodb-os-redis"}
    OBVIOUS
  <2> QED
    BY <2>1, <2>2, FS_Union
<1>2. IsFiniteSet(Modes)
  BY <1>1, FS_Subset, ModesAssumption DEF Backends
<1>3. TypeOK => IsFiniteSet(modes)
  BY <1>2, FS_Subset DEF TypeOK
<1> QED
  BY <1>2, <1>3, ModesAssumption DEF ModeKnown, GetDbMode, TypeOK

(* What is a table's backend.                                              *)
LEMMA StoreFacts ==
    \A t \in {Tables[i] : i \in 1 .. 6}, m \in Seq(Modes) : NewDb(t, m) \in Stores
  BY DEF NewDb, Stores

(* Every step keeps every variable in its type.                            *)
LEMMA TypeStep ==
    TypeOK /\ WatchInv /\ ModeKnown /\ TableInv /\ CertInv /\ [Next]_vars => TypeOK'
<1> SUFFICES ASSUME TypeOK, WatchInv, ModeKnown, TableInv, CertInv, [Next]_vars PROVE TypeOK'
  OBVIOUS
<1> USE MaxEditsAssumption, TimeAssumption
<1>0. ConfigTypeOK'
  BY ConfigTypes
<1>1. /\ ini.edit \in Edits /\ 0 \in Edits /\ Empty = 0 /\ 0 \in Time /\ Len(Tables) = 6
      /\ pc \notin Early \cup {"load"} => GetDbMode \in Modes
  BY ModeFacts DEF TypeOK, ConfigTypeOK, Files, Edits, Empty, Time, Tables
<1>t. /\ db \in Seq(Stores) /\ Len(db) \in Nat /\ Len(db) <= 6
      /\ reads \in Seq(Modes) /\ Len(reads) \in Nat /\ Len(reads) <= 3 /\ modes \subseteq Modes
      /\ clock \in Time /\ sessions \subseteq Time /\ saved \subseteq Time
      /\ \A t \in Time : t + MaxAge \in 0 .. MaxTime + MaxAge
      /\ <<>> \in Seq(Stores) /\ <<>> \in Seq(Modes) /\ Len(<<>>) = 0
  BY <1>1 DEF TypeOK, Time
<1>2. ASSUME NEW k \in Keys, Start(k) PROVE TypeOK'
  BY <1>0, <1>1, <1>2 DEF Start, tables, cleaner, pair, masters, time, TypeOK, Starting
<1>3. CASE Read \/ AssignAndLoad \/ LoadConfig("main") \/ LoadConfig("watcher") \/ Watcher
           \/ NilPanic \/ EditConfig \/ TableFails
  <2>1. pc' \in {pc, "assign", "load", "cas", "nil", "nomysql", "nomongodb", "badfile"}
    BY <1>3 DEF Read, AssignAndLoad, LoadConfig, Watcher, NilPanic, EditConfig, TableFails
  <2>2. UNCHANGED <<start, tables, cleaner, pair, masters, cut, torn, time>>
    BY <1>3 DEF Read, AssignAndLoad, LoadConfig, Watcher, NilPanic, EditConfig, TableFails
  <2> QED
    BY <1>0, <2>1, <2>2 DEF start, tables, cleaner, pair, masters, time, TypeOK, Starting, Panics
<1>4. CASE Cas
  BY <1>0, <1>1, <1>4 DEF Cas, start, cleaner, pair, masters, time, TypeOK, Starting, Early
<1>5. CASE ReadMode
  <2>1. Len(reads) # 3
    BY <1>5 DEF ReadMode, Asked
  <2>2. reads' \in Seq(Modes) /\ Len(reads') <= 3 /\ modes' \subseteq Modes
    <3>1. /\ GetDbMode \in Modes /\ modes' = modes \cup {GetDbMode}
          /\ reads' = Append(reads, GetDbMode)
      BY <1>1, <1>5 DEF ReadMode, Early
    <3>2. Append(reads, GetDbMode) \in Seq(Modes) /\ Len(Append(reads, GetDbMode)) = Len(reads) + 1
      BY <1>t, <3>1
    <3>3. Len(reads) + 1 <= 3
      <4>1. \A n \in Nat : n <= 3 /\ n # 3 => n + 1 <= 3
        OBVIOUS
      <4> QED
        BY <1>t, <2>1, <4>1, Zenon
    <3> QED
      BY <1>t, <3>1, <3>2, <3>3
  <2> QED
    BY <1>0, <1>5, <2>2 DEF ReadMode, start, cleaner, pair, masters, time, TypeOK
<1>6. CASE MakeTable
  <2>1. Len(db) + 1 \in 1 .. 6
    <3>1. Len(db) < 6
      BY <1>6 DEF MakeTable, TableInv
    <3> QED
      BY <1>t, <3>1
  <2>2. db' \in Seq(Stores) /\ Len(db') <= 6
    <3>1. NewDb(Tables[Len(db) + 1], reads) \in Stores
      BY <1>t, <2>1, StoreFacts
    <3>2. db' = Append(db, NewDb(Tables[Len(db) + 1], reads))
      BY <1>6 DEF MakeTable
    <3> QED
      BY <1>t, <2>1, <3>1, <3>2
  <2>3. reads' \in Seq(Modes) /\ Len(reads') <= 3 /\ sessions' \subseteq Time
    BY <1>t, <1>6 DEF MakeTable
  <2> QED
    BY <1>0, <1>1, <1>6, <2>2, <2>3 DEF MakeTable, start, cleaner, pair, masters, time, TypeOK,
       Starting
<1>7. CASE CleanAtStart
  <2>1. /\ now' \in Time /\ due' \in 0 .. MaxTime + MaxAge \cup {None}
        /\ sessions' \subseteq Time /\ modes' \subseteq Modes
    <3>1. GetDbMode \in Modes
      BY <1>1, <1>7 DEF CleanAtStart, Early
    <3> QED
      BY <1>t, <1>7, <3>1 DEF CleanAtStart
  <2> QED
    BY <1>0, <1>7, <2>1 DEF CleanAtStart, start, pair, masters, TypeOK, Panics
<1>8. CASE CleanUp
  <2>1. due' \in 0 .. MaxTime + MaxAge /\ sessions' \subseteq Time
    BY <1>t, <1>8 DEF CleanUp
  <2> QED
    BY <1>0, <1>8, <2>1 DEF CleanUp, start, tables, pair, masters, TypeOK
<1>9. CASE InitHttps \/ WriteCert \/ CreateKey \/ WriteKey \/ ReadKey
  <2>1. gen' \in 0 .. MaxPairs /\ {cert', key'} \subseteq 0 .. MaxPairs \cup {None}
    BY <1>1, <1>9 DEF InitHttps, WriteCert, CreateKey, WriteKey, ReadKey, TypeOK, CertInv, pair
  <2> QED
    BY <1>0, <1>9, <2>1 DEF InitHttps, WriteCert, CreateKey, WriteKey, ReadKey, start, tables,
       cleaner, pair, masters, time, TypeOK, Starting, Panics
<1>10. CASE CheckKey \/ WriteCheck
  <2>1. /\ check' \in Keys \cup {None, Empty} /\ remote' \in Keys \cup {None}
        /\ modes' \subseteq Modes
    BY <1>1, <1>10 DEF CheckKey, WriteCheck, LoadOrStoreStr, FirstKey, TypeOK, Early, masters,
       tables
  <2> QED
    BY <1>0, <1>10, <2>1 DEF CheckKey, LoadOrStoreStr, WriteCheck, start, tables, cleaner, pair, masters, time,
       TypeOK, Starting, Panics
<1>11. CASE Listen
  <2>1. sealed' \in [Stores -> SUBSET Keys] /\ mixed' \in BOOLEAN
    <3>1. master \in Keys
      BY <1>11 DEF Listen, WatchInv
    <3>2. sealed' \in [Stores -> SUBSET Keys]
      BY <1>11, <3>1 DEF Listen, TypeOK
    <3>3. mixed' \in BOOLEAN
      BY <1>11 DEF Listen, TypeOK
    <3> QED
      BY <3>2, <3>3
  <2>2. pc' \in {"serving", "badpair"}
    BY <1>11 DEF Listen
  <2> QED
    BY <1>0, <1>11, <2>1, <2>2 DEF Listen, start, tables, cleaner, pair, time, TypeOK, Panics
<1>12. CASE Login \/ Save \/ Elapse \/ Removed
  <2>1. /\ clock' \in Time /\ sessions' \subseteq Time /\ saved' \subseteq Time
        /\ cert' \in {cert, None}
    <3>1. clock' \in {clock, clock + 1} /\ (clock' = clock + 1 => clock < MaxTime)
      BY <1>t, <1>12, RemoveFacts DEF Login, Save, Elapse, time, Time
    <3>2. /\ sessions' \in {sessions, sessions \cup {clock}} /\ saved' \in {saved, sessions}
          /\ cert' \in {cert, None}
      BY <1>12, RemoveFacts DEF Login, Save, Elapse, time, pair
    <3> QED
      BY <1>t, <3>1, <3>2 DEF Time
  <2> QED
    BY <1>0, <1>12, <2>1, RemoveFacts DEF Login, Save, Elapse, start, tables, cleaner, pair,
       masters, time, TypeOK
<1>13. CASE Ended
  <2>1. /\ cut' \subseteq {"cert", "check"} /\ torn' \subseteq Tearable /\ saved' \subseteq Time
        /\ pc' = "down" /\ began' \in Edits /\ master' = None /\ noCas' = FALSE
        /\ now' = None /\ due' = None /\ clock' = clock /\ sessions' = {} /\ modes' = {}
    BY <1>1, <1>t, <1>13, EndFacts DEF TypeOK
  <2>2. db' \in Seq(Stores) /\ Len(db') <= 6 /\ reads' \in Seq(Modes) /\ Len(reads') <= 3
    BY <1>t, <1>13, EndFacts
  <2>3. UNCHANGED <<cert, key, gen, check, remote, sealed, mixed>>
    BY <1>13, EndFacts DEF pair, masters
  <2> QED
    BY <1>0, <1>1, <1>t, <2>1, <2>2, <2>3 DEF TypeOK
<1>14. CASE UNCHANGED vars
  BY <1>0, <1>14 DEF vars, start, tables, cleaner, pair, masters, time, TypeOK
<1> QED
  BY <1>2, <1>3, <1>4, <1>5, <1>6, <1>7, <1>8, <1>9, <1>10, <1>11, <1>12, <1>13, <1>14,
     NextKinds

-----------------------------------------------------------------------------
(* The configuration that is in force.                                     *)

(* A step that leaves the configuration alone.                             *)
Quiet ==
    /\ UNCHANGED <<configVars, start>>
    /\ \/ /\ pc' = pc
          /\ pc = "down" => UNCHANGED <<noCas, reads, modes, db, now, due, sessions>>
       \/ pc \notin Early \cup {"load"} /\ pc' \notin Early \cup {"load"}

(* The steps that do not.                                                  *)
LEMMA StepKinds ==
    ASSUME [Next]_vars
    PROVE  \/ \E k \in Keys : Start(k)
           \/ Read \/ AssignAndLoad \/ LoadConfig("main") \/ LoadConfig("watcher")
           \/ Watcher \/ NilPanic \/ EditConfig \/ Ended
           \/ Quiet
<1>1. CASE Cas \/ ReadMode \/ MakeTable \/ TableFails \/ CleanAtStart
  BY <1>1 DEF Cas, ReadMode, MakeTable, TableFails, CleanAtStart, start, Quiet, Early
<1>2. CASE InitHttps \/ WriteCert \/ CreateKey \/ WriteKey \/ ReadKey
  BY <1>2 DEF InitHttps, WriteCert, CreateKey, WriteKey, ReadKey, start, Quiet, Early
<1>3. CASE CheckKey \/ WriteCheck \/ Listen
  BY <1>3 DEF CheckKey, LoadOrStoreStr, WriteCheck, Listen, start, Quiet, Early
<1>4. CASE Login \/ Save \/ CleanUp
  BY <1>4 DEF Login, Save, CleanUp, start, Quiet, Early
<1>5. CASE Elapse \/ Removed
  BY <1>5, RemoveFacts DEF Elapse, start, tables, cleaner, time, Quiet
<1>6. CASE UNCHANGED vars
  BY <1>6 DEF vars, start, tables, cleaner, time, Quiet
<1> QED
  BY <1>1, <1>2, <1>3, <1>4, <1>5, <1>6, NextKinds

(* The types of the configuration, spelt out.                              *)
LEMMA ConfigFacts ==
    ASSUME TypeOK
    PROVE  /\ ini \in Files /\ ini # None /\ ini.edit \in Nat /\ began \in Nat
           /\ viper \in Files \cup {None}
           /\ conf \in [held : Held, info : Edits \cup {None}]
           /\ got \in [Loaders -> Held]
           /\ at \in [Loaders -> 0 .. 6] /\ at["main"] \in 0 .. 6 /\ at["watcher"] \in 0 .. 6
           /\ "main" \in Loaders /\ "watcher" \in Loaders
           /\ watched \in BOOLEAN /\ pending \in BOOLEAN /\ v \in BOOLEAN /\ raced \in BOOLEAN
<1>1. ConfigTypeOK /\ began \in Nat
  BY MaxEditsAssumption DEF TypeOK, Edits
<1>2. at \in [Loaders -> 0 .. 6]
  BY <1>1, Steps DEF ConfigTypeOK
<1>3. ini \in Files /\ ini # None /\ ini.edit \in Nat
  BY <1>1, NoneAssumption, MaxEditsAssumption DEF ConfigTypeOK, Files, Edits
<1> QED
  BY <1>1, <1>2, <1>3 DEF ConfigTypeOK, Loaders

(* Every step keeps what is said of the watcher and of config.init.        *)
LEMMA WatchStep == TypeOK /\ WatchInv /\ [Next]_vars => WatchInv'
<1> SUFFICES ASSUME TypeOK, WatchInv, [Next]_vars PROVE WatchInv'
  OBVIOUS
<1> USE ConfigFacts
<1>1. ASSUME NEW k \in Keys, Start(k) PROVE WatchInv'
  BY <1>1 DEF Start, WatchConfig, WatchInv, Gone, NoLoad, Early
<1>2. CASE Read
  BY <1>2 DEF Read, ReadInConfig, start, WatchInv, Early
<1>3. CASE AssignAndLoad
  BY <1>3 DEF AssignAndLoad, Assign, EnterLoad, start, WatchInv, Early
<1>4. ASSUME NEW l \in Loaders, LoadConfig(l) PROVE WatchInv'
  <2>0. ConfigTypeOK
    BY DEF TypeOK
  <2>1. Load(l) /\ UNCHANGED <<began, master>> /\ pc # "down" /\ pc # "nil"
    BY <1>4 DEF LoadConfig, start, Panics
  <2>2. /\ at[l] \in 1 .. 6 /\ v
        /\ at' = [at EXCEPT ![l] = IF at[l] = 6 THEN 0 ELSE at[l] + 1]
        /\ UNCHANGED <<ini, watched, pending, viper, v, raced>>
    BY <2>0, <2>1, LoadFacts
  <2>3. pc \notin Early
    BY <2>2 DEF WatchInv
  <2>4. CASE l = "watcher"
    BY <1>4, <2>1, <2>2, <2>3, <2>4 DEF LoadConfig, WatchInv, Early
  <2>5. CASE l = "main"
    BY <1>4, <2>1, <2>2, <2>3, <2>5 DEF LoadConfig, WatchInv, Early
  <2> QED
    BY <2>4, <2>5 DEF Loaders
<1>5. CASE Watcher
  BY <1>5 DEF Watcher, OnConfigChange, EnterLoad, start, WatchInv, Early, Panics
<1>6. CASE NilPanic
  BY <1>6 DEF NilPanic, AsksNil, configVars, start, WatchInv, Early, Panics
<1>7. CASE EditConfig
  BY <1>7, MaxEditsAssumption DEF EditConfig, Edit, Files, start, tables, cleaner, time, WatchInv,
     Gone, Early
<1>8. CASE Ended
  BY <1>8, EndFacts DEF Forget, WatchInv, Gone, Early, NoLoad
<1>9. CASE Quiet
  BY <1>9 DEF Quiet, configVars, start, WatchInv, Gone, Early
<1> QED
  BY <1>1, <1>2, <1>3, <1>4, <1>5, <1>6, <1>7, <1>8, <1>9, StepKinds

(* A loader that is alone moves what viper has read, and when it is done   *)
(* that is what the process holds.                                         *)
LEMMA LoadStep == TypeOK /\ WatchInv /\ LoadInv /\ [Next]_vars => LoadInv'
<1> SUFFICES ASSUME TypeOK, WatchInv, LoadInv, [Next]_vars, ~ raced' PROVE LoadInv'
  BY DEF LoadInv
<1> USE ConfigFacts
<1>1. ASSUME NEW k \in Keys, Start(k) PROVE LoadInv'
  BY <1>1 DEF Start, WatchConfig, WatchInv, Gone, NoLoad, Early, LoadInv
<1>2. CASE Read
  BY <1>2 DEF Read, ReadInConfig, WatchInv, Early, LoadInv
<1>3. CASE AssignAndLoad
  <2>1. /\ at["main"] = 0 /\ at' = [at EXCEPT !["main"] = 1]
        /\ raced' = (raced \/ \E k \in Loaders \ {"main"} : at[k] > 0)
    BY <1>3 DEF AssignAndLoad, Assign, EnterLoad, WatchInv
  <2>2. ~ raced /\ ~(at["watcher"] > 0)
    BY <2>1 DEF Loaders
  <2>3. at["watcher"] = 0 /\ at'["watcher"] = 0 /\ at'["main"] = 1
    BY <2>1, <2>2
  <2> QED
    BY <2>3 DEF LoadInv, Loading
<1>4. ASSUME NEW l \in Loaders, LoadConfig(l) PROVE LoadInv'
  <2>0. ConfigTypeOK /\ Load(l)
    BY <1>4 DEF TypeOK, LoadConfig
  <2>1. /\ at[l] \in 1 .. 6 /\ v
        /\ at' = [at EXCEPT ![l] = IF at[l] = 6 THEN 0 ELSE at[l] + 1]
        /\ UNCHANGED <<viper, v, raced>>
    BY <2>0, LoadFacts
  <2>2. /\ \A m \in Loaders \ {l} : at[m] = 0 /\ at'[m] = 0
        /\ Loading(l) /\ viper \in Files
    BY <2>1 DEF LoadInv, Loaders, WatchInv, Early
  <2>3. Get(viper, "limit") = viper.edit /\ Get(viper, "mode") = viper.mode
    BY <2>2, GetFacts
  <2>4. at[l] < 6 => at'[l] = at[l] + 1 /\ Loading(l)'
    <3>1. CASE at[l] = 1
      BY <2>0, <2>1, <2>3, <3>1, LoadFacts DEF Loading, Held
    <3>2. CASE at[l] = 2
      BY <2>0, <2>1, <2>2, <3>2, LoadFacts DEF Loading, Held
    <3>3. CASE at[l] = 3
      BY <2>0, <2>1, <2>2, <2>3, <3>3, LoadFacts DEF Loading, Held
    <3>4. CASE at[l] = 4
      BY <2>0, <2>1, <2>2, <3>4, LoadFacts DEF Loading, Held
    <3>5. CASE at[l] = 5
      BY <2>0, <2>1, <2>2, <3>5, LoadFacts DEF Loading, Held
    <3> QED
      BY <2>1, <3>1, <3>2, <3>3, <3>4, <3>5
  <2>5. at[l] = 6 => /\ at'[l] = 0
                     /\ conf' = [held |-> [limit |-> viper.edit, mode |-> viper.mode],
                                 info |-> viper.edit]
    BY <2>0, <2>1, <2>2, LoadFacts DEF Loading, Held
  <2> QED
    BY <2>1, <2>2, <2>4, <2>5 DEF LoadInv, Loaders
<1>5. CASE Watcher
  <2>1. /\ at["watcher"] = 0 /\ at' = [at EXCEPT !["watcher"] = 1] /\ UNCHANGED <<v, conf, got>>
        /\ raced' = (raced \/ \E k \in Loaders \ {"watcher"} : at[k] > 0)
    BY <1>5 DEF Watcher, OnConfigChange, EnterLoad
  <2>2. ~ raced /\ ~(at["main"] > 0)
    BY <2>1 DEF Loaders
  <2>3. at["main"] = 0 /\ at'["main"] = 0 /\ at'["watcher"] = 1
    BY <2>1, <2>2
  <2> QED
    BY <2>3 DEF LoadInv, Loading
<1>6. CASE NilPanic \/ EditConfig \/ Quiet
  BY <1>6 DEF NilPanic, EditConfig, Edit, Quiet, configVars, LoadInv, Loading
<1>7. CASE Ended
  BY <1>7, EndFacts DEF Forget, NoLoad, LoadInv
<1> QED
  BY <1>1, <1>2, <1>3, <1>4, <1>5, <1>6, <1>7, StepKinds

(* Once config.init is over, there is a mode to be told.                   *)
LEMMA ModeStep == TypeOK /\ WatchInv /\ ModeKnown /\ [Next]_vars => ModeKnown'
<1> SUFFICES ASSUME TypeOK, WatchInv, ModeKnown, [Next]_vars PROVE ModeKnown'
  OBVIOUS
<1> USE ConfigFacts
<1>1. ASSUME NEW k \in Keys, Start(k) PROVE ModeKnown'
  BY <1>1 DEF Start, WatchConfig, WatchInv, Gone, NoLoad, Early, ModeKnown
<1>2. CASE Read
  BY <1>2 DEF Read, ReadInConfig, WatchInv, Early, ModeKnown
<1>3. CASE AssignAndLoad
  BY <1>3 DEF AssignAndLoad, Assign, EnterLoad, WatchInv, Early, ModeKnown, Loaders
<1>4. ASSUME NEW l \in Loaders, LoadConfig(l) PROVE ModeKnown'
  <2>0. ConfigTypeOK /\ Load(l) /\ UNCHANGED viper
    BY <1>4, LoadFacts DEF TypeOK, LoadConfig
  <2>1. /\ at[l] \in 1 .. 6 /\ v /\ v'
        /\ at' = [at EXCEPT ![l] = IF at[l] = 6 THEN 0 ELSE at[l] + 1]
    BY <2>0, LoadFacts
  <2>2. viper \in Files /\ Get(viper, "mode") \in Modes
    BY <2>1, GetFacts DEF WatchInv, Early, Files
  <2>3. \A m \in Loaders : at'[m] = 4 => got'[m].mode \in Modes
    BY <2>0, <2>1, <2>2, LoadFacts DEF ModeKnown, Held
  <2>4. conf.held.mode \in Modes \/ at[l] = 4 => conf'.held.mode \in Modes
    BY <2>0, <2>1, LoadFacts DEF ModeKnown, Held
  <2>5. \A m \in Loaders : at'[m] > 4 => conf'.held.mode \in Modes
    BY <2>1, <2>4 DEF ModeKnown
  <2>6. pc' \notin Early \cup {"load"} => conf'.held.mode \in Modes
    <3>1. CASE pc' = pc
      BY <2>4, <3>1 DEF ModeKnown
    <3>2. CASE l = "main" /\ at[l] = 6
      BY <2>4, <3>2 DEF ModeKnown
    <3>3. l = "main" => at[l] = 6 \/ at'[l] # 0
      BY <2>1
    <3> QED
      BY <1>4, <3>1, <3>2, <3>3 DEF LoadConfig
  <2> QED
    BY <2>3, <2>5, <2>6 DEF ModeKnown
<1>5. CASE Watcher
  BY <1>5 DEF Watcher, OnConfigChange, EnterLoad, WatchInv, ModeKnown
<1>6. CASE NilPanic \/ EditConfig \/ Quiet
  BY <1>6 DEF NilPanic, EditConfig, Edit, Quiet, configVars, ModeKnown, Early
<1>7. CASE Ended
  BY <1>7, EndFacts DEF Forget, NoLoad, ModeKnown, Early
<1> QED
  BY <1>1, <1>2, <1>3, <1>4, <1>5, <1>6, <1>7, StepKinds

-----------------------------------------------------------------------------
(* Tables.                                                                 *)

(* A nil panic comes before loadConfig, and a load goes on to "cas".       *)
LEMMA EarlyFacts ==
    ASSUME TypeOK, WatchInv
    PROVE  /\ NilPanic => pc \in {"read", "assign"} /\ pc' = "nil"
           /\ \A l \in Loaders : LoadConfig(l) =>
                pc' = pc \/ (pc = "load" /\ pc' = "cas")
<1>1. NilPanic => pc \in {"read", "assign"} /\ pc' = "nil"
  BY DEF NilPanic, AsksNil, WatchInv, Early, Panics
<1>2. ASSUME NEW l \in Loaders, LoadConfig(l) PROVE pc' = pc \/ (pc = "load" /\ pc' = "cas")
  <2>1. at[l] > 0
    BY <1>2 DEF LoadConfig, Load
  <2> QED
    BY <1>2, <2>1 DEF LoadConfig, WatchInv
<1> QED
  BY <1>1, <1>2

(* Every step keeps what is said of the tables that were made.             *)
LEMMA TableStep == TypeOK /\ WatchInv /\ TableInv /\ [Next]_vars => TableInv'
<1> SUFFICES ASSUME TypeOK, WatchInv, TableInv, [Next]_vars PROVE TableInv'
  OBVIOUS
<1>t. /\ db \in Seq(Stores) /\ Len(db) \in Nat
      /\ reads \in Seq(Modes) /\ Len(reads) \in Nat
      /\ Len(<<>>) = 0 /\ Len(Tables) = 6
  BY DEF TypeOK, Tables
<1>1. ASSUME NEW k \in Keys, Start(k) PROVE TableInv'
  BY <1>1 DEF Start, tables, TableInv, Early, Later, Panics
<1>2. CASE Read \/ AssignAndLoad \/ Watcher \/ EditConfig \/ NilPanic
           \/ LoadConfig("main") \/ LoadConfig("watcher")
  <2>1. /\ UNCHANGED <<tables, torn>>
        /\ pc' = pc \/ (pc \in Early \cup {"load"} /\ pc' \in Early \cup {"load", "cas"})
    BY <1>2, EarlyFacts DEF Read, AssignAndLoad, Watcher, EditConfig, NilPanic, LoadConfig, Early,
       Loaders
  <2> QED
    BY <2>1 DEF tables, TableInv, Early, Later, Panics
<1>3. CASE Cas
  BY <1>3, <1>t DEF Cas, TableInv, Early, Later, Panics
<1>4. CASE ReadMode
  <2>1. /\ pc = "tables" /\ pc' = pc /\ db' = db
        /\ reads' = Append(reads, GetDbMode) /\ modes' = modes \cup {GetDbMode}
    BY <1>4 DEF ReadMode
  <2>2. \A i \in 1 .. Len(reads') : reads'[i] \in modes'
    BY <1>t, <2>1 DEF TableInv
  <2>3. Len(db) > 2 => \E m \in modes' : (db[3] = "os" <=> m = "os")
    BY <2>1 DEF TableInv
  <2> QED
    BY <2>1, <2>2, <2>3 DEF TableInv, Early, Later, Panics
<1>5. CASE MakeTable
  <2>0. /\ pc = "tables" /\ Len(db) < 6 /\ reads' = <<>> /\ modes' = modes
        /\ pc' = IF Len(db') = 6 THEN "https" ELSE "tables"
        /\ Asked(Tables[Len(db) + 1], reads)
        /\ db' = Append(db, NewDb(Tables[Len(db) + 1], reads))
    BY <1>5, <1>t DEF MakeTable, TableInv
  <2>1. /\ Len(db') = Len(db) + 1 /\ db'[Len(db) + 1] = NewDb(Tables[Len(db) + 1], reads)
        /\ \A i \in 1 .. Len(db) : db'[i] = db[i]
    BY <1>t, <2>0
  <2>2. reads[1] \in modes
    BY <1>t, <2>0 DEF Asked, TableInv
  <2>3. Len(db') > 1 /\ db'[2] # "redis" => "os" \in modes
    <3>1. CASE Len(db) = 1
      <4>1. Tables[Len(db) + 1] = "Session"
        BY <3>1 DEF Tables
      <4> QED
        BY <2>1, <2>2, <3>1, <4>1 DEF NewDb
    <3>2. CASE Len(db) > 1
      BY <1>t, <2>1, <3>2 DEF TableInv
    <3>3. \A n \in Nat : n + 1 > 1 => n = 1 \/ n > 1
      OBVIOUS
    <3> QED
      BY <1>t, <2>1, <3>1, <3>2, <3>3, Zenon
  <2>4. Len(db') > 2 => \E m \in modes : (db'[3] = "os" <=> m = "os")
    <3>1. CASE Len(db) = 2
      <4>1. Tables[Len(db) + 1] = "User"
        BY <3>1 DEF Tables
      <4> QED
        BY <2>1, <2>2, <3>1, <4>1 DEF NewDb
    <3>2. CASE Len(db) > 2
      BY <1>t, <2>1, <3>2 DEF TableInv
    <3>3. \A n \in Nat : n + 1 > 2 => n = 2 \/ n > 2
      OBVIOUS
    <3> QED
      BY <1>t, <2>1, <3>1, <3>2, <3>3, Zenon
  <2>5. Len(db') > 1 /\ db'[2] = "redis" => \E m \in modes : m # "os"
    <3>1. CASE Len(db) = 1
      <4>1. Tables[Len(db) + 1] = "Session"
        BY <3>1 DEF Tables
      <4> QED
        BY <2>1, <2>2, <3>1, <4>1 DEF NewDb
    <3>2. CASE Len(db) > 1
      BY <1>t, <2>1, <3>2 DEF TableInv
    <3>3. \A n \in Nat : n + 1 > 1 => n = 1 \/ n > 1
      OBVIOUS
    <3> QED
      BY <1>t, <2>1, <3>1, <3>2, <3>3, Zenon
  <2> QED
    BY <1>t, <2>0, <2>1, <2>3, <2>4, <2>5 DEF TableInv, Early, Later
<1>10. CASE TableFails
  <2>0. /\ pc = "tables" /\ Len(db) < 6 /\ UNCHANGED <<db, reads, modes, torn>>
        /\ Asked(Tables[Len(db) + 1], reads)
    BY <1>10 DEF TableFails, TableInv, tables
  <2>1. reads[1] \in modes /\ reads[2] \in modes /\ reads[Len(reads)] \in modes
    BY <1>t, <2>0 DEF Asked, TableInv
  <2>2. Tables[Len(db) + 1] \in torn => Tables[Len(db) + 1] # "Ip"
    BY TearableAssumption DEF TypeOK
  <2>3. \/ pc' = "badfile" /\ "os" \in modes' /\ torn' # {}
        \/ pc' = "nomysql" /\ "mysql-os-redis" \in modes'
        \/ pc' = "nomongodb" /\ "mongodb-os-redis" \in modes'
    <3>1. CASE /\ NewDb(Tables[Len(db) + 1], reads) = "os" /\ Tables[Len(db) + 1] \in torn
               /\ pc' = "badfile"
      BY <2>0, <2>1, <2>2, <3>1 DEF NewDb
    <3>2. CASE NewDb(Tables[Len(db) + 1], reads) = "mysql" /\ pc' = "nomysql"
      BY <2>0, <2>1, <3>2 DEF NewDb
    <3>3. CASE NewDb(Tables[Len(db) + 1], reads) = "mongodb" /\ pc' = "nomongodb"
      BY <2>0, <2>1, <3>3 DEF NewDb
    <3> QED
      BY <1>10, <3>1, <3>2, <3>3 DEF TableFails
  <2> QED
    BY <2>0, <2>3 DEF TableInv, Early, Later
<1>6. CASE CleanAtStart \/ CheckKey
  <2>1. /\ pc' = pc \/ pc' \in Later \cup {"noredis"}
        /\ pc' \in Later => pc \in Later
        /\ UNCHANGED <<db, reads, torn>> /\ modes' = modes \cup {GetDbMode}
        /\ pc \in {"check", "tables"}
    BY <1>6 DEF CleanAtStart, CheckKey, LoadOrStoreStr, Later
  <2>4. pc' = "noredis" => \E m \in modes' : m # "os"
    <3>1. CASE CleanAtStart
      BY <2>1, <3>1 DEF CleanAtStart, AccountInit, TableInv
    <3>2. CASE CheckKey
      BY <2>1, <3>2 DEF CheckKey, LoadOrStoreStr, SameMaster
    <3> QED
      BY <1>6, <3>1, <3>2
  <2>2. Len(db) > 2 => \E m \in modes' : (db[3] = "os" <=> m = "os")
    BY <2>1 DEF TableInv
  <2>3. pc' = "notstring" => "os" \in modes' /\ GetDbMode # "os"
    <3>1. CASE CleanAtStart
      BY <3>1 DEF CleanAtStart
    <3>2. CASE CheckKey
      <4>1. Len(db) = 6
        BY <3>2 DEF CheckKey, TableInv, Later
      <4>2. pc' = "notstring" => GetDbMode # "os" /\ db[2] # "redis"
        BY <3>2 DEF CheckKey, LoadOrStoreStr
      <4> QED
        BY <2>1, <4>1, <4>2 DEF TableInv
    <3> QED
      BY <1>6, <3>1, <3>2
  <2> QED
    BY <2>1, <2>2, <2>3, <2>4 DEF TableInv, Early, Later
<1>7. CASE InitHttps \/ WriteCert \/ CreateKey \/ WriteKey \/ ReadKey \/ WriteCheck \/ Listen
  <2>1. {pc, pc'} \subseteq Later /\ pc' # "notstring" /\ UNCHANGED <<db, reads, modes>>
    BY <1>7 DEF InitHttps, WriteCert, CreateKey, WriteKey, ReadKey, WriteCheck, Listen, tables,
       Later, Panics
  <2> QED
    BY <2>1 DEF TableInv, Early, Later, Panics
<1>8. CASE Login \/ Save \/ CleanUp \/ Elapse \/ Removed \/ UNCHANGED vars
  <2>1. pc' = pc /\ UNCHANGED tables /\ (torn' = torn \/ pc = "down")
    BY <1>8, RemoveFacts DEF Login, Save, CleanUp, Elapse, vars, tables
  <2> QED
    BY <2>1 DEF TableInv, tables
<1>9. CASE Ended
  BY <1>9, <1>t, EndFacts DEF TableInv, Early, Later, Panics
<1> QED
  BY <1>1, <1>2, <1>3, <1>4, <1>5, <1>6, <1>7, <1>8, <1>9, <1>10, NextKinds

(* Where all answers are one mode, a table is where two of them put it.    *)
LEMMA OneMode ==
    ASSUME NEW m \in Backends, NEW i \in 1 .. 6, NEW s \in Seq(Backends),
           Asked(Tables[i], s), \A j \in 1 .. Len(s) : s[j] = m
    PROVE  NewDb(Tables[i], s) = NewDb(Tables[i], <<m, m>>)
<1>1. Len(s) \in {2, 3} /\ s[1] = m /\ s[2] = m /\ s[Len(s)] = m
  BY DEF Asked
<1>2. Len(<<m, m>>) = 2 /\ <<m, m>>[1] = m /\ <<m, m>>[2] = m
  OBVIOUS
<1> QED
  BY <1>1, <1>2 DEF NewDb

(* And that is where every table but Ip is said to be.                     *)
LEMMA DocumentedFacts ==
    ASSUME NEW m \in Backends, NEW i \in 2 .. 6
    PROVE  NewDb(Tables[i], <<m, m>>) = Documented(m)[i]
<1>1. Len(<<m, m>>) = 2 /\ <<m, m>>[1] = m /\ <<m, m>>[2] = m
  OBVIOUS
<1>3. i \in {2, 3, 4, 5, 6}
  OBVIOUS
<1>4. CASE m = "os"
  BY <1>1, <1>3, <1>4 DEF NewDb, Documented, Tables
<1>5. CASE m = "redis"
  BY <1>1, <1>3, <1>5 DEF NewDb, Documented, Tables
<1>6. CASE m = "mysql-os-redis"
  BY <1>1, <1>3, <1>6 DEF NewDb, Documented, Tables
<1>7. CASE m = "mongodb-os-redis"
  BY <1>1, <1>3, <1>7 DEF NewDb, Documented, Tables
<1> QED
  BY <1>4, <1>5, <1>6, <1>7 DEF Backends

(* While config.ini stays as it was, nobody learns of another mode.        *)
LEMMA UneditedStep ==
    /\ TypeOK /\ WatchInv /\ ModeKnown /\ TableInv /\ UneditedInv /\ [Next]_vars
    => UneditedInv'
<1> SUFFICES ASSUME TypeOK, WatchInv, ModeKnown, TableInv, UneditedInv, [Next]_vars
             PROVE UneditedInv'
  OBVIOUS
<1> USE ConfigFacts
<1>g. pc \notin Early \cup {"load"} /\ ini.edit = began =>
        GetDbMode = ini.mode /\ ini.mode \in Modes /\ ini.mode # None
  BY ModeFacts, NoneAssumption DEF UneditedInv, GetDbMode, Early, Files, Backends
<1>1. ASSUME NEW k \in Keys, Start(k) PROVE UneditedInv'
  BY <1>1 DEF Start, WatchConfig, tables, WatchInv, Gone, NoConf, NoneGot, Nothing, UneditedInv
<1>2. CASE Read
  BY <1>2 DEF Read, ReadInConfig, start, tables, UneditedInv
<1>3. CASE AssignAndLoad
  BY <1>3 DEF AssignAndLoad, Assign, start, tables, UneditedInv
<1>4. ASSUME NEW l \in Loaders, LoadConfig(l) PROVE UneditedInv'
  <2>0. /\ ConfigTypeOK /\ Load(l) /\ UNCHANGED <<viper, ini, began, tables>>
        /\ at[l] \in 1 .. 6 /\ pc # "down"
    BY <1>4, LoadFacts DEF TypeOK, LoadConfig, start
  <2>1. ini.edit = began => Get(viper, "mode") \in {None, ini.mode}
    BY <2>0, GetFacts DEF UneditedInv
  <2>2. ini.edit = began => \A m \in Loaders : got'[m].mode \in {None, ini.mode}
    <3>1. \A m \in Loaders : got'[m].mode \in {got[m].mode, Get(viper, "mode"), None}
      BY <2>0, LoadFacts DEF Held, Nothing
    <3> QED
      BY <2>0, <2>1, <3>1 DEF UneditedInv
  <2>3. ini.edit = began => conf'.held.mode \in {None, ini.mode}
    <3>1. conf'.held.mode \in {conf.held.mode, got[l].mode}
      BY <2>0, LoadFacts DEF Held
    <3> QED
      BY <2>0, <3>1 DEF UneditedInv
  <2> QED
    BY <2>0, <2>2, <2>3 DEF UneditedInv, tables
<1>5. CASE Watcher
  BY <1>5 DEF Watcher, OnConfigChange, start, WatchInv, UneditedInv, Panics
<1>6. CASE EditConfig
  BY <1>6, MaxEditsAssumption DEF EditConfig, Edit, start, WatchInv, UneditedInv
<1>7. CASE NilPanic \/ TableFails \/ InitHttps \/ WriteCert \/ CreateKey \/ WriteKey \/ ReadKey
           \/ WriteCheck \/ Listen \/ Login \/ Save \/ CleanUp \/ Elapse \/ Removed
           \/ UNCHANGED vars
  <2>1. UNCHANGED <<configVars, began, tables>> /\ (pc' # "down" => pc # "down")
    BY <1>7, RemoveFacts DEF NilPanic, TableFails, InitHttps, WriteCert, CreateKey, WriteKey, ReadKey, WriteCheck,
       Listen, Login, Save, CleanUp, Elapse, vars, start, tables, Panics
  <2> QED
    BY <2>1 DEF configVars, tables, UneditedInv
<1>8. CASE Ended
  BY <1>8, EndFacts DEF UneditedInv
<1>9. CASE Cas
  <2>1. /\ pc = "cas" /\ UNCHANGED <<configVars, began, db>>
        /\ noCas' = (GetDbMode \in {"os", "mongodb-redis"}) /\ modes' = {GetDbMode}
    BY <1>9 DEF Cas, start
  <2>2. ini.edit = began => (noCas' => ini.mode = "os")
    BY <1>g, <2>1, ModesAssumption DEF Early, Backends
  <2> QED
    BY <1>g, <2>1, <2>2 DEF configVars, UneditedInv, Early
<1>10. CASE ReadMode \/ CleanAtStart \/ CheckKey
  BY <1>g, <1>10 DEF ReadMode, CleanAtStart, CheckKey, configVars, start, UneditedInv, Early
<1>11. CASE MakeTable
  <2>0. /\ pc = "tables" /\ Len(db) + 1 \in 1 .. 6 /\ Len(db) \in Nat /\ reads \in Seq(Modes)
        /\ UNCHANGED <<configVars, began, noCas, modes>>
        /\ Asked(Tables[Len(db) + 1], reads)
        /\ db' = Append(db, NewDb(Tables[Len(db) + 1], reads))
    <3>1. /\ pc = "tables" /\ Asked(Tables[Len(db) + 1], reads)
          /\ UNCHANGED <<configVars, began, noCas, modes>>
          /\ db' = Append(db, NewDb(Tables[Len(db) + 1], reads))
      BY <1>11 DEF MakeTable, start
    <3>2. Len(db) \in Nat /\ Len(db) < 6 /\ reads \in Seq(Modes)
      BY <3>1 DEF TableInv, TypeOK
    <3>3. \A n \in Nat : n < 6 => n + 1 \in 1 .. 6
      OBVIOUS
    <3> QED
      BY <3>1, <3>2, <3>3, Zenon
  <2>1. ASSUME ini.edit = began
        PROVE  NewDb(Tables[Len(db) + 1], reads)
                 = NewDb(Tables[Len(db) + 1], <<ini.mode, ini.mode>>)
    <3>1. ini.mode \in Backends /\ reads \in Seq(Backends)
      BY <1>g, <2>0, <2>1, ModesAssumption DEF Early
    <3>2. \A j \in 1 .. Len(reads) : reads[j] = ini.mode
      BY <2>0, <2>1 DEF TableInv, UneditedInv
    <3> QED
      BY <2>0, <3>1, <3>2, OneMode
  <2>2. ini.edit = began =>
          \A i \in 1 .. Len(db') : db'[i] = NewDb(Tables[i], <<ini.mode, ini.mode>>)
    <3>1. /\ Len(db') = Len(db) + 1 /\ \A i \in 1 .. Len(db) : db'[i] = db[i]
          /\ db'[Len(db) + 1] = NewDb(Tables[Len(db) + 1], reads)
      BY <2>0 DEF TypeOK
    <3>2. \A i \in 1 .. Len(db') : i \in 1 .. Len(db) \/ i = Len(db) + 1
      BY <2>0, <3>1
    <3>3. ASSUME ini.edit = began, NEW i \in 1 .. Len(db)
          PROVE  db'[i] = NewDb(Tables[i], <<ini.mode, ini.mode>>)
      BY <2>0, <3>1, <3>3 DEF UneditedInv
    <3> QED
      BY <2>1, <3>1, <3>2, <3>3
  <2> QED
    BY <2>0, <2>2 DEF configVars, UneditedInv
<1> QED
  BY <1>1, <1>2, <1>3, <1>4, <1>5, <1>6, <1>7, <1>8, <1>9, <1>10, <1>11, NextKinds DEF Loaders

-----------------------------------------------------------------------------
(* Certificates, master keys and sessions.                                 *)

(* Every step keeps what is said of the certificate and its key.           *)
LEMMA CertStep == TypeOK /\ WatchInv /\ CertInv /\ [Next]_vars => CertInv'
<1> SUFFICES ASSUME TypeOK, WatchInv, CertInv, [Next]_vars PROVE CertInv'
  OBVIOUS
<1>t. /\ gen \in Nat /\ gen + 1 > 0 /\ Empty = 0 /\ None \notin Nat
  BY NoneAssumption, TimeAssumption DEF TypeOK, Empty
<1>1. ASSUME NEW k \in Keys, Start(k) PROVE CertInv'
  BY <1>1 DEF Start, pair, CertInv, Later, Panics
<1>2. CASE Read \/ AssignAndLoad \/ Watcher \/ EditConfig \/ NilPanic
           \/ LoadConfig("main") \/ LoadConfig("watcher")
  <2>1. /\ UNCHANGED <<pair, cut>>
        /\ pc' = pc \/ {pc, pc'} \subseteq Early \cup {"load", "cas"}
    BY <1>2, EarlyFacts DEF Read, AssignAndLoad, Watcher, EditConfig, NilPanic, LoadConfig, Early,
       Loaders
  <2> QED
    BY <2>1 DEF pair, CertInv, Early, Later, Panics
<1>3. CASE Cas \/ ReadMode \/ MakeTable \/ TableFails \/ CleanAtStart
  BY <1>3 DEF Cas, ReadMode, MakeTable, TableFails, CleanAtStart, pair, CertInv, Later, Panics
<1>4. CASE InitHttps
  BY <1>4, <1>t DEF InitHttps, CertInv, Later, Panics
<1>5. CASE WriteCert
  BY <1>5, <1>t DEF WriteCert, CertInv, Later, Panics
<1>6. CASE CreateKey
  BY <1>6, <1>t DEF CreateKey, CertInv, Later, Panics
<1>7. CASE WriteKey
  BY <1>7, <1>t DEF WriteKey, CertInv, Later, Panics
<1>8. CASE ReadKey
  BY <1>8, <1>t DEF ReadKey, pair, CertInv, Later, Panics
<1>9. CASE CheckKey \/ WriteCheck \/ Listen
  BY <1>9 DEF CheckKey, LoadOrStoreStr, WriteCheck, Listen, pair, CertInv, Later
<1>10. CASE Login \/ Save \/ CleanUp \/ Elapse \/ UNCHANGED vars
  BY <1>10 DEF Login, Save, CleanUp, Elapse, vars, pair, CertInv
<1>11. CASE Removed
  BY <1>11, RemoveFacts DEF CertInv, Later, Panics
<1>12. CASE Ended
  BY <1>12, EndFacts DEF pair, CertInv, Later, Panics
<1> QED
  BY <1>1, <1>2, <1>3, <1>4, <1>5, <1>6, <1>7, <1>8, <1>9, <1>10, <1>11, <1>12, NextKinds

(* Every step keeps what is said of a process's own sessions.              *)
LEMMA SessionStep ==
    TypeOK /\ WatchInv /\ TableInv /\ SessionInv /\ [Next]_vars => SessionInv'
<1> SUFFICES ASSUME TypeOK, WatchInv, TableInv, SessionInv, [Next]_vars PROVE SessionInv'
  OBVIOUS
<1>t. /\ clock \in Nat /\ (now # None => now \in Nat) /\ Len(db) \in Nat /\ Len(<<>>) = 0
  BY TimeAssumption DEF TypeOK, Time
<1>1. CASE \E k \in Keys : Start(k)
  BY <1>1 DEF Start, tables, cleaner, time, SessionInv
<1>2. CASE Read \/ AssignAndLoad \/ Watcher \/ EditConfig \/ NilPanic
           \/ LoadConfig("main") \/ LoadConfig("watcher") \/ UNCHANGED vars
  BY <1>2 DEF Read, AssignAndLoad, Watcher, EditConfig, NilPanic, LoadConfig, vars, tables,
     cleaner, time, SessionInv
<1>3. CASE Cas \/ ReadMode \/ TableFails
  BY <1>3 DEF Cas, ReadMode, TableFails, tables, cleaner, time, SessionInv
<1>4. CASE InitHttps \/ WriteCert \/ CreateKey \/ WriteKey \/ ReadKey \/ WriteCheck \/ Listen
           \/ Removed
  BY <1>4, RemoveFacts DEF InitHttps, WriteCert, CreateKey, WriteKey, ReadKey, WriteCheck, Listen,
     tables, cleaner, time, SessionInv
<1>5. CASE CheckKey
  BY <1>5 DEF CheckKey, cleaner, time, SessionInv
<1>6. CASE MakeTable
  <2>1. Len(db') = Len(db) + 1 /\ UNCHANGED <<now, due, clock>>
    BY <1>6 DEF MakeTable, TypeOK, cleaner
  <2>2. Len(db') < 2 => UNCHANGED sessions
    <3>1. \A n \in Nat : n + 1 < 2 => n = 0
      OBVIOUS
    <3>2. ASSUME Len(db) = 0 PROVE Tables[Len(db) + 1] # "Session"
      BY <3>2 DEF Tables
    <3>3. ASSUME Len(db') < 2 PROVE Tables[Len(db) + 1] # "Session"
      BY <1>t, <2>1, <3>1, <3>2, <3>3, Zenon
    <3> QED
      BY <1>6, <3>3 DEF MakeTable
  <2> QED
    BY <1>t, <2>1, <2>2 DEF SessionInv
<1>7. CASE CleanAtStart
  <2>1. Len(db) = 4 /\ now' = clock /\ UNCHANGED <<db, clock>>
    BY <1>7 DEF CleanAtStart, AccountInit
  <2>2. ~(Len(db') < 2) /\ now' # None /\ now' <= clock'
    BY <1>t, <2>1, NoneAssumption
  <2> QED
    BY <2>2 DEF SessionInv
<1>8. CASE CleanUp
  BY <1>8, <1>t DEF CleanUp, tables, SessionInv
<1>9. CASE Login \/ Save
  BY <1>9, <1>t DEF Login, Save, tables, cleaner, TableInv, Later, SessionInv
<1>10. CASE Elapse
  BY <1>10, <1>t DEF Elapse, tables, cleaner, SessionInv
<1>11. CASE Ended
  BY <1>11, <1>t, EndFacts DEF SessionInv
<1> QED
  BY <1>1, <1>2, <1>3, <1>4, <1>5, <1>6, <1>7, <1>8, <1>9, <1>10, <1>11, NextKinds

(* Two members of a set that has at most one are the same.                 *)
LEMMA OneMember ==
    ASSUME NEW S, IsFiniteSet(S), ~(Cardinality(S) > 1), NEW x \in S, NEW y \in S
    PROVE  x = y
<1> SUFFICES ASSUME x # y PROVE FALSE
  OBVIOUS
<1>1. IsFiniteSet({x}) /\ Cardinality({x}) = 1
  BY FS_Singleton
<1>2. IsFiniteSet({x} \cup {y}) /\ Cardinality({x} \cup {y}) = 2
  <2>1. y \notin {x}
    OBVIOUS
  <2>2. Cardinality({x} \cup {y}) = Cardinality({x}) + 1
    BY <1>1, <2>1, FS_AddElement
  <2> QED
    BY <1>1, <2>2, FS_AddElement
<1>3. Cardinality(S) \in Nat
  BY FS_CardinalityType
<1>4. {x} \cup {y} \subseteq S
  OBVIOUS
<1>5. Cardinality({x} \cup {y}) <= Cardinality(S)
  BY <1>4, FS_Subset
<1> QED
  BY <1>2, <1>3, <1>5

(* Every step keeps what is said of the master keys.                       *)
LEMMA MasterStep ==
    TypeOK /\ WatchInv /\ TableInv /\ MasterInv /\ [Next]_vars => MasterInv'
<1> SUFFICES ASSUME TypeOK, WatchInv, TableInv, MasterInv, [Next]_vars PROVE MasterInv'
  OBVIOUS
<1>t. /\ Empty = 0 /\ Empty \notin Keys /\ None \notin Keys /\ None # Empty
      /\ remote \in Keys \cup {None} /\ check \in Keys \cup {None, Empty}
      /\ sealed \in [Stores -> SUBSET Keys]
  BY KeysAssumption, NoneAssumption DEF TypeOK, Empty
<1>1. ASSUME NEW k \in Keys, Start(k) PROVE MasterInv'
  BY <1>1 DEF Start, tables, masters, MasterInv
<1>2. CASE Read \/ AssignAndLoad \/ Watcher \/ EditConfig \/ NilPanic
           \/ LoadConfig("main") \/ LoadConfig("watcher")
  <2>1. /\ UNCHANGED <<masters, cut, master, modes>>
        /\ pc' = pc \/ {pc, pc'} \subseteq Early \cup {"load", "cas"}
    BY <1>2, EarlyFacts DEF Read, AssignAndLoad, Watcher, EditConfig, NilPanic, LoadConfig, Early,
       Loaders, tables, start
  <2> QED
    BY <2>1 DEF masters, MasterInv, Early
<1>3. CASE Cas \/ ReadMode \/ MakeTable \/ TableFails \/ CleanAtStart
  BY <1>3 DEF Cas, ReadMode, MakeTable, TableFails, CleanAtStart, masters, MasterInv
<1>4. CASE InitHttps \/ WriteCert \/ CreateKey \/ WriteKey \/ ReadKey
  BY <1>4 DEF InitHttps, WriteCert, CreateKey, WriteKey, ReadKey, masters, MasterInv
<1>5. CASE CheckKey
  <2>0. /\ pc = "check" /\ modes' = modes \cup {GetDbMode} /\ master \in Keys
        /\ UNCHANGED <<master, sealed, mixed, cut>>
    BY <1>5 DEF CheckKey, start, WatchInv
  <2>1. CASE GetDbMode = "os" /\ check = None
    BY <1>5, <1>t, <2>0, <2>1 DEF CheckKey, MasterInv
  <2>2. CASE GetDbMode = "os" /\ check # None
    BY <1>5, <1>t, <2>0, <2>2 DEF CheckKey, SameMaster, MasterInv
  <2>3. CASE GetDbMode # "os" /\ db[2] # "redis"
    BY <1>5, <1>t, <2>0, <2>3 DEF CheckKey, MasterInv
  <2>4. CASE GetDbMode # "os" /\ db[2] = "redis"
    BY <1>5, <1>t, <2>0, <2>4 DEF CheckKey, SameMaster, LoadOrStoreStr, FirstKey, MasterInv
  <2> QED
    BY <2>1, <2>2, <2>3, <2>4
<1>6. CASE WriteCheck
  BY <1>6, <1>t DEF WriteCheck, start, tables, MasterInv, WatchInv
<1>7. CASE Listen
  <2>0. /\ pc = "listen" /\ pc' \in {"serving", "badpair"}
        /\ UNCHANGED <<master, db, modes, check, remote, cut>>
    BY <1>7 DEF Listen, start, tables
  <2>1. ASSUME ~ mixed'
        PROVE  \A s \in Stores : sealed'[s] \subseteq {IF s = "os" THEN check ELSE remote}
    <3>1. CASE pc' = "badpair"
      BY <1>7, <2>1, <3>1 DEF Listen, MasterInv
    <3>2. CASE pc' = "serving"
      <4>1. /\ sealed' = [sealed EXCEPT ![db[3]] = @ \cup {master}]
            /\ ~ mixed /\ ~(Cardinality(modes) > 1)
        BY <1>7, <2>1, <3>2 DEF Listen
      <4>2. PICK m \in modes : master = IF m = "os" THEN check ELSE remote
        BY <2>0 DEF MasterInv
      <4>0. Len(db) = 6
        BY <2>0 DEF TableInv, Later
      <4>3. PICK n \in modes : (db[3] = "os" <=> n = "os")
        BY <4>0 DEF TableInv
      <4>4. m = n
        BY <4>1, OneMember, ModeFacts
      <4>5. master = IF db[3] = "os" THEN check ELSE remote
        BY <4>2, <4>3, <4>4
      <4> QED
        BY <1>t, <4>1, <4>5 DEF MasterInv
    <3> QED
      BY <2>0, <3>1, <3>2
  <2> QED
    BY <2>0, <2>1 DEF MasterInv
<1>8. CASE Login \/ Save \/ CleanUp \/ Elapse \/ Removed \/ UNCHANGED vars
  BY <1>8, RemoveFacts DEF Login, Save, CleanUp, Elapse, vars, start, tables, masters, MasterInv
<1>9. CASE Ended
  BY <1>9, EndFacts DEF masters, MasterInv
<1> QED
  BY <1>1, <1>2, <1>3, <1>4, <1>5, <1>6, <1>7, <1>8, <1>9, NextKinds

-----------------------------------------------------------------------------
(* The invariant.                                                          *)

(* It holds before the first start.                                        *)
LEMMA InvInit == Init => Inv
<1> SUFFICES ASSUME Init PROVE Inv
  OBVIOUS
<1>0. /\ ini \in Files /\ ini.edit = 0 /\ 0 \in Edits /\ 0 \in Time /\ Empty = 0 /\ pc = "down"
      /\ ConfigInit /\ None \notin Nat
  BY MaxEditsAssumption, TimeAssumption, NoneAssumption
  DEF Init, ConfigInit, Files, Edits, Time, Empty
<1>1. ConfigTypeOK
  <2>1. {watched, pending, v, raced} \subseteq BOOLEAN
    BY <1>0 DEF ConfigInit
  <2>2. conf \in [held : Held, info : Edits \cup {None}] /\ got \in [Loaders -> Held]
    BY <1>0 DEF ConfigInit, NoConf, NoneGot, Nothing, Held
  <2>3. at \in [Loaders -> 0 .. Len(LoadSteps)]
    BY <1>0, Steps DEF ConfigInit, NoLoad
  <2> QED
    BY <1>0, <2>1, <2>2, <2>3 DEF ConfigInit, ConfigTypeOK
<1>2. TypeOK
  <2>1. db \in Seq(Stores) /\ Len(db) = 0 /\ reads \in Seq(Modes) /\ Len(reads) = 0
    BY DEF Init
  <2>2. sealed \in [Stores -> SUBSET Keys]
    BY DEF Init
  <2> QED
    <3>1. 0 \in 0 .. MaxPairs /\ pc \in {"down", "serving"} /\ noCas = FALSE /\ mixed = FALSE
      BY <1>0, TimeAssumption DEF Init
    <3>2. /\ began \in Edits /\ master = None /\ modes = {} /\ now = None /\ due = None
          /\ cert = None /\ key = None /\ gen = 0 /\ check = None /\ remote = None /\ cut = {}
          /\ clock \in Time /\ sessions = {} /\ saved = {} /\ torn = {}
      BY <1>0 DEF Init
    <3>3. noCas \in BOOLEAN /\ mixed \in BOOLEAN
      BY <3>1
    <3>4. /\ pc \in {"down", "serving"} \cup Starting \cup Panics
          /\ check \in Keys \cup {None, Empty} /\ remote \in Keys \cup {None}
      BY <3>1, <3>2
    <3> QED
      BY <1>1, <2>1, <2>2, <3>1, <3>2, <3>3, <3>4 DEF TypeOK
<1>3. Len(db) = 0 /\ Len(reads) = 0 /\ db = <<>> /\ reads = <<>> /\ modes = {}
  BY DEF Init
<1>4. WatchInv /\ LoadInv /\ ModeKnown
  BY <1>0 DEF Init, ConfigInit, NoLoad, WatchInv, Gone, LoadInv, ModeKnown, Early, Loaders
<1>5. TableInv /\ UneditedInv /\ CertInv
  BY <1>0, <1>3 DEF Init, TableInv, UneditedInv, CertInv, Later, Panics, Early
<1>6. MasterInv /\ SessionInv
  BY <1>0 DEF Init, MasterInv, SessionInv
<1> QED
  BY <1>2, <1>4, <1>5, <1>6 DEF Inv

(* And after every step.                                                   *)
LEMMA InvStep == Inv /\ [Next]_vars => Inv'
  BY TypeStep, WatchStep, LoadStep, ModeStep, TableStep, UneditedStep, CertStep, MasterStep,
     SessionStep DEF Inv

(* The invariant holds in every behaviour.                                 *)
LEMMA InvHolds == Spec => []Inv
  BY InvInit, InvStep, PTL DEF Spec

(* Every variable keeps its type: no atomic is stored another one's value  *)
(* (config.go:54-68), and no more tables are made than there are.          *)
THEOREM TypeCorrect == Spec => []TypeOK
<1>1. Inv => TypeOK
  BY DEF Inv
<1> QED
  BY <1>1, InvHolds, PTL

(* Whoever edits config.ini is obeyed: once nobody is loading, the process *)
(* holds the last edit, all of it, unless the watcher met the start in     *)
(* loadConfig (config.go:28-68).                                           *)
THEOREM ConfigInForceHolds == Spec => []ConfigInForce
<1>1. Inv => ConfigInForce
  <2> SUFFICES ASSUME Inv, Settled, ~ raced
               PROVE  conf = [held |-> [limit |-> ini.edit, mode |-> ini.mode],
                              info |-> ini.edit]
    BY DEF ConfigInForce
  <2>1. v /\ ~ pending /\ at["main"] = 0 /\ at["watcher"] = 0
    BY DEF Settled, Loaders
  <2>2. viper = ini
    BY <2>1 DEF Inv, WatchInv, Early
  <2> QED
    BY <2>1, <2>2 DEF Inv, LoadInv
<1> QED
  BY <1>1, InvHolds, PTL

(* A start that nobody edits config.ini under makes every table but Ip     *)
(* where db.mode is said to put it, in each of the four modes and whatever *)
(* starts came before (data.go:58-96). Where Ip goes in redis mode is not  *)
(* what data.go:78 says, and no theorem.                                   *)
THEOREM TablesFitModeHolds == Spec => []TablesFitMode
<1>1. Inv => TablesFitMode
  <2> SUFFICES ASSUME Inv, pc = "serving", ini.edit = began
               PROVE  /\ \A i \in 2 .. 6 : db[i] = Documented(ini.mode)[i]
                      /\ noCas => db[5] = "os"
    BY DEF TablesFitMode
  <2>1. /\ Len(db) = 6 /\ ini.mode \in Backends
        /\ \A i \in 1 .. Len(db) : db[i] = NewDb(Tables[i], <<ini.mode, ini.mode>>)
        /\ noCas => ini.mode = "os"
    BY ConfigFacts, ModesAssumption DEF Inv, TableInv, UneditedInv, Later, Files
  <2>2. \A i \in 2 .. 6 : db[i] = Documented(ini.mode)[i]
    BY <2>1, DocumentedFacts
  <2>3. Documented("os")[5] = "os"
    BY DEF Documented
  <2> QED
    BY <2>1, <2>2, <2>3
<1> QED
  BY <1>1, InvHolds, PTL

(* However starts are killed, the accounts of a backend are served with    *)
(* one master key, if no start saw db.mode change (utils.go:84-115).       *)
THEOREM OneMasterKeyHolds == Spec => []OneMasterKey
<1>1. Inv => OneMasterKey
  <2> SUFFICES ASSUME Inv, ~ mixed, NEW s \in Stores PROVE Cardinality(sealed[s]) <= 1
    BY DEF OneMasterKey
  <2>1. PICK k : sealed[s] \subseteq {k}
    BY DEF Inv, MasterInv
  <2>2. IsFiniteSet({k}) /\ Cardinality({k}) = 1
    BY FS_Singleton
  <2> QED
    BY <2>1, <2>2, FS_Subset
<1> QED
  BY <1>1, InvHolds, PTL

(* A start fails over an edit under way, over what an earlier process left *)
(* half done, over another master key, or over a server that a mode it was *)
(* told of needs and that does not answer (https.go:53-66, utils.go:84-115,*)
(* config.go:32, os.go:65-68, redis.go:421-436, mysql.go:30-49,            *)
(* mongodb.go:29-44).                                                      *)
THEOREM PanicHasCauseHolds == Spec => []PanicHasCause
<1>1. Inv => PanicHasCause
  <2> SUFFICES ASSUME Inv PROVE PanicHasCause
    OBVIOUS
  <2>0. WatchInv /\ TypeOK /\ ini.edit \in Nat /\ began \in Nat
    BY ConfigFacts DEF Inv
  <2>1. pc = "nil" => ini.edit > began
    BY <2>0 DEF WatchInv
  <2>2. pc = "notstring" => ini.edit > began /\ Cardinality(modes) > 1
    <3> SUFFICES ASSUME pc = "notstring" PROVE ini.edit > began /\ Cardinality(modes) > 1
      OBVIOUS
    <3>1. "os" \in modes /\ \E m \in modes : m # "os"
      BY DEF Inv, TableInv
    <3>2. Cardinality(modes) > 1
      BY <2>0, <3>1, OneMember, ModeFacts
    <3>3. ini.edit # began
      BY <3>1 DEF Inv, UneditedInv
    <3> QED
      BY <2>0, <3>2, <3>3 DEF WatchInv
  <2>3. pc \in {"nokey", "badpair"} => "cert" \in cut
    BY DEF Inv, CertInv, Later, Panics
  <2>4. pc = "badmaster" => \/ "check" \in cut /\ check = Empty
                            \/ \E k \in Keys \ {master} : k \in {check, remote}
    BY DEF Inv, MasterInv
  <2>5. /\ pc \in {"noredis", "nomysql", "nomongodb"} => \E m \in modes : pc \in Needs(m)
        /\ pc = "badfile" => torn # {} /\ "os" \in modes
    <3>1. /\ \A m : m # "os" => "noredis" \in Needs(m)
          /\ "nomysql" \in Needs("mysql-os-redis") /\ "nomongodb" \in Needs("mongodb-os-redis")
      BY DEF Needs
    <3> QED
      BY <3>1 DEF Inv, TableInv
  <2> QED
    BY <2>1, <2>2, <2>3, <2>4, <2>5 DEF PanicHasCause
<1> QED
  BY <1>1, InvHolds, PTL

(* A session is deleted only when it is too old, by whichever start or     *)
(* cleanup, and a start over the file keeps none that is (session.go:124). *)
THEOREM OldSessionsGoHolds == Spec => OldSessionsGo
<1> DEFINE Go == pc # "down" /\ pc' # "down" =>
        /\ \A s \in sessions \ sessions' : clock - s > MaxAge
        /\ now = None /\ now' # None /\ modes' = {"os"} =>
            \A s \in sessions' : clock - s <= MaxAge
<1>1. Inv /\ [Next]_vars => Go
  <2> SUFFICES ASSUME Inv, [Next]_vars, pc # "down", pc' # "down"
               PROVE  /\ \A s \in sessions \ sessions' : clock - s > MaxAge
                      /\ now = None /\ now' # None /\ modes' = {"os"} =>
                            \A s \in sessions' : clock - s <= MaxAge
    OBVIOUS
  <2>0. /\ sessions \subseteq Nat /\ clock \in Nat /\ MaxAge \in Nat /\ Len(db) \in Nat
        /\ now # None => now \in Nat /\ now <= clock
    BY TimeAssumption DEF Inv, TypeOK, Time, SessionInv
  <2>1. CASE UNCHANGED <<now, sessions>>
    BY <2>1
  <2>2. CASE MakeTable
    <3>1. now' = now /\ (Tables[Len(db) + 1] # "Session" => sessions' = sessions)
      BY <2>2 DEF MakeTable, cleaner
    <3>2. ASSUME Tables[Len(db) + 1] = "Session" PROVE sessions = {}
      <4>1. \A n \in Nat : n < 6 => n < 2 \/ n \in {2, 3, 4, 5}
        OBVIOUS
      <4>2. \A n \in {2, 3, 4, 5} : Tables[n + 1] # "Session"
        BY DEF Tables
      <4>3. Len(db) < 6
        BY <2>2 DEF MakeTable, Inv, TableInv
      <4>4. Len(db) < 2
        BY <2>0, <3>2, <4>1, <4>2, <4>3, Zenon
      <4> QED
        BY <4>4 DEF Inv, SessionInv
    <3> QED
      BY <3>1, <3>2
  <2>3. CASE CleanAtStart
    <3>1. \/ GetDbMode = "os" /\ sessions' = sessions \ Expired(clock)
          \/ GetDbMode = "os" /\ db[2] = "redis" /\ sessions' = sessions
          \/ GetDbMode # "os" /\ sessions' = sessions
      BY <2>3 DEF CleanAtStart
    <3>2. \A s \in sessions : s \in Expired(clock) <=> clock - s > MaxAge
      BY DEF Expired
    <3>3. modes' = {"os"} => GetDbMode = "os" /\ db[2] # "redis"
      <4>1. modes' = modes \cup {GetDbMode} /\ Len(db) = 4
        BY <2>3 DEF CleanAtStart, AccountInit
      <4>2. db[2] = "redis" => \E m \in modes : m # "os"
        BY <4>1 DEF Inv, TableInv
      <4> QED
        BY <4>1, <4>2
    <3>4. \A s \in sessions : clock - s \in Int
      BY <2>0
    <3>5. CASE sessions' = sessions \ Expired(clock)
      BY <2>0, <3>2, <3>4, <3>5
    <3>6. CASE sessions' = sessions /\ modes' # {"os"}
      BY <3>6
    <3> QED
      BY <3>1, <3>3, <3>5, <3>6
  <2>4. CASE CleanUp
    <3>1. now # None /\ now' = now /\ sessions' = sessions \ Expired(now)
      BY <2>4 DEF CleanUp, Inv, SessionInv
    <3>2. \A s \in Expired(now) : clock - s > MaxAge
      BY <2>0, <3>1 DEF Expired
    <3> QED
      BY <3>1, <3>2
  <2>5. CASE Login
    BY <2>5 DEF Login, cleaner
  <2>6. Ended => FALSE
    BY EndFacts
  <2>7. ASSUME ~ MakeTable, ~ CleanAtStart, ~ CleanUp, ~ Login, ~ Ended
        PROVE  UNCHANGED <<now, sessions>>
    <3>1. CASE \E k \in Keys : Start(k)
      BY <3>1 DEF Start, cleaner, time
    <3>2. CASE Read \/ AssignAndLoad \/ LoadConfig("main") \/ LoadConfig("watcher") \/ Watcher
               \/ NilPanic \/ EditConfig \/ Cas \/ ReadMode \/ TableFails
      BY <3>2 DEF Read, AssignAndLoad, LoadConfig, Watcher, NilPanic, EditConfig, Cas, ReadMode,
         TableFails,
         cleaner, time
    <3>3. CASE InitHttps \/ WriteCert \/ CreateKey \/ WriteKey \/ ReadKey \/ CheckKey
               \/ WriteCheck \/ Listen
      BY <3>3 DEF InitHttps, WriteCert, CreateKey, WriteKey, ReadKey, CheckKey, WriteCheck, Listen,
         cleaner, time
    <3>4. CASE Save \/ Elapse \/ Removed \/ UNCHANGED vars
      BY <3>4, RemoveFacts DEF Save, Elapse, vars, cleaner, time
    <3> QED
      BY <2>7, <3>1, <3>2, <3>3, <3>4, NextKinds
  <2> QED
    BY <2>1, <2>2, <2>3, <2>4, <2>5, <2>6, <2>7
<1>2. Inv /\ [Next]_vars => [Go]_vars
  BY <1>1
<1> QED
  BY <1>2, InvHolds, PTL DEF Spec, OldSessionsGo
=============================================================================
