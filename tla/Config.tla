------------------------------- MODULE Config -------------------------------
(***************************************************************************)
(* config.ini and what the process holds of it (config.go): viper reads    *)
(* the file when the process starts and again when it is told of a change, *)
(* and loadConfig moves one value after the other from viper to the        *)
(* atomics that the program reads. The goroutine that started and the      *)
(* watcher's may both be in loadConfig.                                    *)
(***************************************************************************)
EXTENDS Integers, Sequences

CONSTANTS
    Modes,    \* the values of db.mode under study
    None,     \* no value
    MaxEdits  \* bound: changes of config.ini

Backends == {"os", "redis", "mysql-os-redis", "mongodb-os-redis"}

ASSUME ModesAssumption == Modes \subseteq Backends
ASSUME MaxEditsAssumption == MaxEdits \in Nat

VARIABLES
    ini,      \* config.ini: how often it was edited, and db.mode
    watched,  \* WatchConfig was called
    pending,  \* a change the watcher was not told of yet
    viper,    \* what viper has read
    v,        \* the package variable v is set
    conf,     \* the atomics
    at,       \* loader -> its step in loadConfig, 0 outside of it
    got,      \* loader -> the values it holds
    raced     \* both loaders have been in loadConfig at once

configVars == <<ini, watched, pending, viper, v, conf, at, got, raced>>

Edits == 0 .. MaxEdits
Files == [edit : Edits, mode : Modes]
ASSUME NoneAssumption == None \notin Backends \cup Nat \cup Files

Loaders == {"main", "watcher"}

(* The numbers of a file are known by the edit that wrote them; "limit"    *)
(* stands for expiration and maxcount, which are moved in the same way.    *)
Get(file, field) ==
    IF file = None THEN None
    ELSE IF field = "mode" THEN file.mode ELSE file.edit

(* Mutant: the text is put together before the numbers are stored. *)
MutantLoadSteps ==
    <<<<"load", "limit">>, <<"store", "info">>, <<"get", "limit">>, <<"store", "limit">>,
      <<"get", "mode">>, <<"store", "mode">>>>

(* loadConfig: a value is taken from viper and stored, and the text for    *)
(* those over the limit is put together from the stored numbers. The       *)
(* addresses and passwords, which nothing here depends on, are left out.   *)
LoadSteps ==
    <<<<"get", "limit">>, <<"store", "limit">>, <<"get", "mode">>, <<"store", "mode">>,
      <<"load", "limit">>, <<"store", "info">>>>

Held == [limit : Edits \cup {None}, mode : Modes \cup {None}]
Nothing == [limit |-> None, mode |-> None]

ConfigTypeOK ==
    /\ ini \in Files
    /\ {watched, pending, v, raced} \subseteq BOOLEAN
    /\ viper \in Files \cup {None}
    /\ conf \in [held : Held, info : Edits \cup {None}]
    /\ at \in [Loaders -> 0 .. Len(LoadSteps)]
    /\ got \in [Loaders -> Held]

NoLoad == [l \in Loaders |-> 0]
NoneGot == [l \in Loaders |-> Nothing]
NoConf == [held |-> Nothing, info |-> None]

ConfigInit ==
    /\ ini \in [edit : {0}, mode : Modes]
    /\ watched = FALSE /\ pending = FALSE /\ v = FALSE /\ raced = FALSE
    /\ viper = None
    /\ conf = NoConf /\ at = NoLoad /\ got = NoneGot

(* The process and its memory are gone.                                    *)
Forget ==
    /\ watched' = FALSE /\ pending' = FALSE /\ v' = FALSE /\ raced' = FALSE
    /\ viper' = None
    /\ conf' = NoConf /\ at' = NoLoad /\ got' = NoneGot
    /\ UNCHANGED ini

(* The operator edits the file. A watcher that is not told yet is told of  *)
(* all edits at once.                                                      *)
Edit ==
    /\ ini.edit < MaxEdits
    /\ \E m \in Modes : ini' = [edit |-> ini.edit + 1, mode |-> m]
    /\ pending' = watched
    /\ UNCHANGED <<watched, viper, v, conf, at, got, raced>>

(* newv: the watcher is started, the file is read, v is assigned.          *)
WatchConfig == watched' = TRUE /\ UNCHANGED <<ini, pending, viper, v, conf, at, got, raced>>

(* Mutant: the file is watched and not read. *)
MutantReadInConfig == UNCHANGED configVars

ReadInConfig == viper' = ini /\ UNCHANGED <<ini, watched, pending, v, conf, at, got, raced>>

EnterLoad(l) ==
    /\ at' = [at EXCEPT ![l] = 1]
    /\ raced' = (raced \/ \E k \in Loaders \ {l} : at[k] > 0)

Assign ==
    /\ v' = TRUE
    /\ EnterLoad("main")
    /\ UNCHANGED <<ini, watched, pending, viper, conf, got>>

(* The watcher is told of a change: viper reads the file again and calls   *)
(* loadConfig.                                                             *)
OnConfigChange ==
    /\ pending /\ at["watcher"] = 0
    /\ pending' = FALSE
    /\ viper' = ini
    /\ EnterLoad("watcher")
    /\ UNCHANGED <<ini, watched, v, conf, got>>

(* The callback asks v before it is assigned, and a nil v panics.          *)
AsksNil == at["watcher"] > 0 /\ ~v

Load(l) ==
    /\ at[l] > 0 /\ v
    /\ at' = [at EXCEPT ![l] = IF @ = Len(LoadSteps) THEN 0 ELSE @ + 1]
    /\ LET step == LoadSteps[at[l]] IN
        \/ /\ step[1] = "get"
           /\ got' = [got EXCEPT ![l][step[2]] = Get(viper, step[2])]
           /\ UNCHANGED conf
        \/ /\ step[1] = "load"
           /\ got' = [got EXCEPT ![l][step[2]] = conf.held[step[2]]]
           /\ UNCHANGED conf
        \/ /\ step[1] = "store" /\ step[2] # "info"
           /\ conf' = [conf EXCEPT !.held[step[2]] = got[l][step[2]]]
           /\ UNCHANGED got
        \/ /\ step = <<"store", "info">>
           /\ conf' = [conf EXCEPT !.info = got[l].limit]
           /\ got' = [got EXCEPT ![l] = Nothing]
    /\ UNCHANGED <<ini, watched, pending, viper, v, raced>>

(* Nobody is in loadConfig or is going to be.                              *)
Settled == watched /\ v /\ ~pending /\ \A l \in Loaders : at[l] = 0
=============================================================================
