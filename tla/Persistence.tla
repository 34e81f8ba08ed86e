---------------------------- MODULE Persistence ----------------------------
(***************************************************************************)
(* One table of db.mode=os: a map in memory, the JSON file it is saved to, *)
(* and the goroutine that saves it (internal/data/os.go,                   *)
(* internal/run/run.go), while requests change the map and the process     *)
(* shuts down, crashes and starts again.                                   *)
(*                                                                         *)
(* A table is saved one minute after a change: Changed() wakes the         *)
(* goroutine of run.Ticker up from its sleep of a year.  It is a write to  *)
(* a channel nobody waits for unless the goroutine is at its select, which *)
(* the flag send is there to avoid.                                        *)
(***************************************************************************)
EXTENDS Integers, FiniteSets

CONSTANTS
    Writers,     \* requests that change the table, one goroutine each
    MaxKey,      \* bound: keys of the table are 1 .. MaxKey
    Tables,      \* the tables under study
    Kinds,       \* the operations under study
    MaxStarts    \* bound: how often the program starts again

AllTables == {"vote", "user", "votename"}
AllKinds == {"Add", "AddKV", "Update", "Delete", "Touch"}

ASSUME WritersAssumption == IsFiniteSet(Writers)
ASSUME MaxKeyAssumption == MaxKey \in Nat
ASSUME TablesAssumption == Tables \subseteq AllTables
ASSUME KindsAssumption == Kinds \subseteq AllKinds
ASSUME MaxStartsAssumption == MaxStarts \in Nat

Keys == 1 .. MaxKey
Savers == {"ticker", "close"}

(* What the program does to each table: polls are numbered by Add and      *)
(* changed by votes and comments; accounts are added under their name,     *)
(* deleted, and changed by votes and logins; the index of poll names is    *)
(* added to, and an entry of it grows.                                     *)
Ops(table) ==
    CASE table = "vote" -> {"Add", "Update"}
      [] table = "user" -> {"AddKV", "Delete", "Touch"}
      [] table = "votename" -> {"AddKV", "Touch"}

VARIABLES
    table,   \* which table this is
    phase,   \* "up", "closing" (Shutdown), "exited", "down" (crashed), "dead"
    starts,  \* restarts that may still happen
    has,     \* the keys of the map
    val,     \* key -> how often its latest entry was written
    i,       \* osdb.i, the number Add gave last
    file,    \* the file: its state and, when it is whole, what it says
    op,      \* writer -> its operation
    key,     \* writer -> the key it works on
    wpc,     \* writer -> its next step
    send,    \* Ticker: Changed has to wake the goroutine
    closed,  \* Close has been called
    armed,   \* Ticker: the timer runs for a "minute" or a "year"
    spc,     \* saver -> its next step in Save
    todo,    \* saver -> the keys its Range has yet to visit
    snap,    \* saver -> the entries its Range found
    lock     \* OsDb.lock: the savers that hold it

vars == <<table, phase, starts, has, val, i, file, op, key, wpc, send, closed,
          armed, spc, todo, snap, lock>>
process == <<table, phase, starts, closed>>
db == <<has, val, i>>
writers == <<op, key, wpc>>
ticker == <<send, armed>>
savers == <<spc, todo, snap, lock>>

Blank == [k \in Keys |-> 0]
NoFile == [state |-> "none", i |-> 0, val |-> Blank]
WriterPcs == {"idle", "store", "announce", "send", "change", "done"}
SaverPcs == {"idle", "lock", "open", "visit", "write"}

TypeOK ==
    /\ table \in Tables
    /\ phase \in {"up", "closing", "exited", "down", "dead"}
    /\ starts \in 0 .. MaxStarts
    /\ has \in SUBSET Keys
    /\ val \in [Keys -> Nat]
    /\ i \in 0 .. MaxKey
    /\ file \in [state : {"none", "empty", "torn", "whole"}, i : 0 .. MaxKey,
                 val : [Keys -> Nat]]
    /\ op \in [Writers -> Kinds \cup {"none"}]
    /\ key \in [Writers -> 0 .. MaxKey]
    /\ wpc \in [Writers -> WriterPcs]
    /\ send \in BOOLEAN
    /\ closed \in BOOLEAN
    /\ armed \in {"minute", "year"}
    /\ spc \in [Savers -> SaverPcs]
    /\ todo \in [Savers -> SUBSET Keys]
    /\ snap \in [Savers -> SUBSET Keys]
    /\ lock \in SUBSET Savers

Init ==
    /\ table \in Tables
    /\ phase = "up"
    /\ starts = MaxStarts
    /\ has = {}
    /\ val = Blank
    /\ i = 0
    /\ file = NoFile
    /\ op = [w \in Writers |-> "none"]
    /\ key = [w \in Writers |-> 0]
    /\ wpc = [w \in Writers |-> "idle"]
    /\ send = FALSE
    /\ closed = FALSE
    /\ armed = "minute"
    /\ spc = [s \in Savers |-> "idle"]
    /\ todo = [s \in Savers |-> {}]
    /\ snap = [s \in Savers |-> {}]
    /\ lock = {}

Running == phase \in {"up", "closing"}

-----------------------------------------------------------------------------
(* The requests.                                                           *)

Goto(w, step) == wpc' = [wpc EXCEPT ![w] = step]

(* A request starts: the server takes none once it is closing.             *)
Begin(w, kind, k, step) ==
    /\ phase = "up"
    /\ wpc[w] = "idle"
    /\ kind \in Kinds \cap Ops(table)
    /\ op' = [op EXCEPT ![w] = kind]
    /\ key' = [key EXCEPT ![w] = k]
    /\ Goto(w, step)

Put(k, n) ==
    /\ has' = has \cup {k}
    /\ val' = [val EXCEPT ![k] = n]

(* ParserCreateVote: Add takes the next number, add() stores the entry.    *)
Add(w) ==
    /\ i < MaxKey
    /\ Begin(w, "Add", i + 1, "store")
    /\ i' = i + 1
    /\ UNCHANGED <<process, has, val, file, ticker, savers>>

Store(w) ==
    /\ Running
    /\ wpc[w] = "store"
    /\ Put(key[w], 1)
    /\ Goto(w, "announce")
    /\ UNCHANGED <<process, i, file, op, key, ticker, savers>>

(* AddKV: LoadOrStore, then Changed whether or not it stored.  Bound: a key *)
(* that was deleted is not added again before the next start.              *)
AddKV(w, k) ==
    /\ k \in has \/ val[k] = 0
    /\ Begin(w, "AddKV", k, "announce")
    /\ IF k \in has THEN UNCHANGED <<has, val>> ELSE Put(k, 1)
    /\ UNCHANGED <<process, i, file, ticker, savers>>

(* A vote or a comment, and Delete: Changed comes before the change.       *)
BeginChange(w, kind, k) ==
    /\ kind \in {"Update", "Delete"}
    /\ k \in has
    /\ Begin(w, kind, k, "announce")
    /\ UNCHANGED <<process, db, file, ticker, savers>>

(* VotedPath, Session and the paths of a name: no Changed at all.          *)
Touch(w, k) ==
    /\ k \in has
    /\ Begin(w, "Touch", k, "done")
    /\ Put(k, val[k] + 1)
    /\ UNCHANGED <<process, i, file, ticker, savers>>

AfterChanged(w) == IF op[w] \in {"Update", "Delete"} THEN "change" ELSE "done"

(* Mutant: the wake-up is dropped when the goroutine is not at its select. *)
MutantChanged(w) ==
    /\ Running
    /\ wpc[w] = "announce"
    /\ send' = FALSE
    /\ Goto(w, IF send /\ spc["ticker"] = "idle" THEN "send" ELSE AfterChanged(w))
    /\ UNCHANGED <<process, db, file, op, key, armed, savers>>

(* Changed: the one caller that turns send off wakes the goroutine up.     *)
Changed(w) ==
    /\ Running
    /\ wpc[w] = "announce"
    /\ IF send
       THEN Goto(w, "send") /\ send' = FALSE
       ELSE Goto(w, AfterChanged(w)) /\ UNCHANGED send
    /\ UNCHANGED <<process, db, file, op, key, armed, savers>>

(* The change itself.                                                      *)
Change(w) ==
    /\ Running
    /\ wpc[w] = "change"
    /\ IF op[w] = "Delete"
       THEN has' = has \ {key[w]} /\ UNCHANGED val
       ELSE Put(key[w], val[key[w]] + 1)
    /\ Goto(w, "done")
    /\ UNCHANGED <<process, i, file, op, key, ticker, savers>>

-----------------------------------------------------------------------------
(* The goroutine of run.Ticker: at its select while saver "ticker" is idle.*)

AtSelect == Running /\ spc["ticker"] = "idle"

(* Mutant: a wake-up does not bring the minute back. *)
MutantReceive(w) ==
    /\ AtSelect
    /\ wpc[w] = "send"
    /\ Goto(w, AfterChanged(w))
    /\ UNCHANGED <<process, db, file, op, key, ticker, savers>>

(* case <-sig: a request that has announced a change gets through.         *)
Receive(w) ==
    /\ AtSelect
    /\ wpc[w] = "send"
    /\ Goto(w, AfterChanged(w))
    /\ armed' = "minute"
    /\ UNCHANGED <<process, db, file, op, key, send, savers>>

(* case <-t.C: send is on before the table is read.                        *)
TimerFires ==
    /\ AtSelect
    /\ send' = TRUE
    /\ spc' = [spc EXCEPT !["ticker"] = "lock"]
    /\ UNCHANGED <<process, db, file, writers, armed, todo, snap,
                   lock>>

-----------------------------------------------------------------------------
(* Save, by the goroutine or by Close.                                     *)

Step(s, from, to) ==
    /\ Running
    /\ spc[s] = from
    /\ spc' = [spc EXCEPT ![s] = to]

LockTable(s) ==
    /\ Step(s, "lock", "open")
    /\ lock = {}
    /\ lock' = {s}
    /\ UNCHANGED <<process, db, file, writers, ticker, todo, snap>>

(* O_TRUNC: the file is empty from here until the write.                   *)
Truncate(s) ==
    /\ Step(s, "open", "visit")
    /\ file' = [NoFile EXCEPT !.state = "empty"]
    /\ todo' = [todo EXCEPT ![s] = Keys]
    /\ snap' = [snap EXCEPT ![s] = {}]
    /\ UNCHANGED <<process, db, writers, ticker, lock>>

(* Range of a sync.Map visits one key at a time, in any order.             *)
Visit(s, k) ==
    /\ k \in todo[s]
    /\ Step(s, "visit", IF todo[s] = {k} THEN "write" ELSE "visit")
    /\ todo' = [todo EXCEPT ![s] = @ \ {k}]
    /\ snap' = [snap EXCEPT ![s] = IF k \in has THEN @ \cup {k} ELSE @]
    /\ UNCHANGED <<process, db, file, writers, ticker, lock>>

(* Mutant: the number saved is the next one. *)
MutantEncoded(s) ==
    [state |-> "whole", i |-> i + 1,
     val |-> [k \in Keys |-> IF k \in snap[s] THEN val[k] ELSE 0]]

(* The number is read after the entries were found; the entries, shared    *)
(* objects, are encoded as they are now.                                   *)
Encoded(s) ==
    [state |-> "whole", i |-> i,
     val |-> [k \in Keys |-> IF k \in snap[s] THEN val[k] ELSE 0]]

(* Mutant: the lock of the table is kept. *)
MutantWrite(s) ==
    /\ Step(s, "write", "idle")
    /\ file' = Encoded(s)
    /\ armed' = IF s = "ticker" THEN "year" ELSE armed
    /\ UNCHANGED <<process, db, writers, send, todo, snap, lock>>

(* Encode and write; the goroutine then sleeps for a year.                 *)
Write(s) ==
    /\ Step(s, "write", "idle")
    /\ file' = Encoded(s)
    /\ lock' = {}
    /\ armed' = IF s = "ticker" THEN "year" ELSE armed
    /\ UNCHANGED <<process, db, writers, send, todo, snap>>

-----------------------------------------------------------------------------
(* The process (main.go).                                                  *)

(* An interrupt: srv.Shutdown takes no new request.                        *)
Interrupt ==
    /\ phase = "up"
    /\ phase' = "closing"
    /\ UNCHANGED <<table, starts, closed, db, file, writers, ticker, savers>>

(* Mutant: the table is left out of Close. *)
MutantClose ==
    /\ phase = "closing"
    /\ \A w \in Writers : wpc[w] \in {"idle", "done"}
    /\ ~closed
    /\ closed' = TRUE
    /\ UNCHANGED <<table, phase, starts, db, file, writers, ticker, savers>>

(* Shutdown has waited for the requests; Close saves the table.            *)
Close ==
    /\ phase = "closing"
    /\ \A w \in Writers : wpc[w] \in {"idle", "done"}
    /\ spc["close"] = "idle"
    /\ ~closed
    /\ closed' = TRUE
    /\ spc' = [spc EXCEPT !["close"] = "lock"]
    /\ UNCHANGED <<table, phase, starts, db, file, writers, ticker, todo, snap,
                   lock>>

(* What is left of the file when the process stops in the middle of Save.  *)
Interrupted ==
    IF \E s \in Savers : spc[s] = "write"
    THEN {[NoFile EXCEPT !.state = "empty"], [NoFile EXCEPT !.state = "torn"]}
    ELSE {file}

(* The process is gone, with its memory, its goroutines and its requests.  *)
Stop(how) ==
    /\ phase' = how
    /\ file' \in Interrupted
    /\ has' = {} /\ val' = Blank /\ i' = 0
    /\ send' = FALSE /\ armed' = "minute" /\ closed' = FALSE
    /\ spc' = [s \in Savers |-> "idle"]
    /\ todo' = [s \in Savers |-> {}]
    /\ snap' = [s \in Savers |-> {}]
    /\ lock' = {}
    /\ wpc' = [w \in Writers |-> IF wpc[w] = "idle" THEN "idle" ELSE "done"]
    /\ UNCHANGED <<table, starts, op, key>>

Crash == Running /\ Stop("down")

(* main returns when Close is done, whatever the goroutine is doing.       *)
Exit ==
    /\ phase = "closing"
    /\ closed
    /\ spc["close"] = "idle"
    /\ Stop("exited")

(* Mutant: Load does not restore the number. *)
MutantStart ==
    /\ phase \in {"down", "exited"}
    /\ starts > 0
    /\ starts' = starts - 1
    /\ IF file.state = "torn"
       THEN phase' = "dead" /\ UNCHANGED db
       ELSE /\ phase' = "up"
            /\ has' = {k \in Keys : file.val[k] > 0}
            /\ val' = file.val
            /\ UNCHANGED i
    /\ UNCHANGED <<table, file, writers, ticker, closed, savers>>

(* Load: no file and an empty file are an empty table, and a file that     *)
(* does not parse stops the program.                                       *)
Start ==
    /\ phase \in {"down", "exited"}
    /\ starts > 0
    /\ starts' = starts - 1
    /\ IF file.state = "torn"
       THEN phase' = "dead" /\ UNCHANGED db
       ELSE /\ phase' = "up"
            /\ has' = {k \in Keys : file.val[k] > 0}
            /\ val' = file.val
            /\ i' = file.i
    /\ UNCHANGED <<table, file, writers, ticker, closed, savers>>

-----------------------------------------------------------------------------
Request(w) == Store(w) \/ Changed(w) \/ Change(w)

Save(s) ==
    \/ LockTable(s) \/ Truncate(s) \/ Write(s)
    \/ \E k \in Keys : Visit(s, k)

Next ==
    \/ \E w \in Writers :
        \/ Add(w)
        \/ \E k \in Keys :
            \/ AddKV(w, k) \/ Touch(w, k)
            \/ \E kind \in {"Update", "Delete"} : BeginChange(w, kind, k)
        \/ Request(w) \/ Receive(w)
    \/ TimerFires
    \/ \E s \in Savers : Save(s)
    \/ Interrupt \/ Close \/ Exit
    \/ Crash \/ Start

Spec == Init /\ [][Next]_vars

(* Goroutines go on, a timer of a minute fires, and a shutdown comes to    *)
(* its end.  A select that finds two cases ready picks one at random, and  *)
(* a mutex is handed to a waiter that starves: neither passes the same one *)
(* over for ever.  Nothing is assumed of a timer of a year, of new         *)
(* requests, of interrupts, of crashes and of starts.                      *)
FairSpec ==
    /\ Spec
    /\ \A w \in Writers : WF_vars(Request(w)) /\ SF_vars(Receive(w))
    /\ WF_vars(TimerFires /\ armed = "minute")
    /\ \A s \in Savers : WF_vars(Save(s)) /\ SF_vars(LockTable(s))
    /\ WF_vars(Close) /\ WF_vars(Exit)

-----------------------------------------------------------------------------
(* Properties.                                                             *)

(* A number Add gives is new: it is no entry's and no other request's,     *)
(* also after a start from a file that was saved while polls were created  *)
(* (os.go:86-96 reads the number after the entries).                       *)
NumbersAreFresh ==
    /\ \A w \in Writers : wpc[w] = "store" => key[w] \notin has /\ key[w] <= i
    /\ \A w, x \in Writers :
        wpc[w] = "store" /\ wpc[x] = "store" /\ key[w] = key[x] => w = x
    /\ table = "vote" /\ file.state = "whole" =>
        \A k \in Keys : file.val[k] > 0 => k <= file.i

(* An entry that is added gets into the file, unless it is deleted or the  *)
(* process stops first: "unless change is called, which brings the         *)
(* interval back to a minute" (run.go:13-16).                              *)
AddedIsSaved ==
    \A k \in Keys :
        k \in has ~> k \notin has \/ (file.state = "whole" /\ file.val[k] > 0)

(* Nobody waits for ever: no request in Changed (run.go:41-43), and no     *)
(* shutdown for the lock of the table that the goroutine holds (os.go:79). *)
NobodyWaits ==
    /\ \A w \in Writers : wpc[w] \notin {"idle", "done"} ~> wpc[w] = "done"
    /\ phase = "closing" ~> phase # "closing"

(* A shutdown leaves the whole table in the file (main.go:26-31,           *)
(* utils.go:76), unless the goroutine is in the middle of another save.    *)
ExitSaves ==
    [][phase' = "exited" /\ spc["ticker"] \notin {"visit", "write"} =>
        /\ file'.state = "whole" /\ file'.i = i
        /\ \A k \in Keys : file'.val[k] = IF k \in has THEN val[k] ELSE 0]_vars

(* Db.Changed "says that the data is modified" (data.go:30) and brings the *)
(* next save to within a minute (run.go:13-16): what the table holds the   *)
(* file comes to hold.                                                     *)
ChangeIsSaved ==
    \A k \in Keys, n \in 1 .. Cardinality(Writers) + 1 :
        k \in has /\ val[k] = n ~>
            \/ k \notin has \/ val[k] # n
            \/ file.state = "whole" /\ file.val[k] = n
=============================================================================
