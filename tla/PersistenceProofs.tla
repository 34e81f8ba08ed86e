-------------------------- MODULE PersistenceProofs --------------------------
(***************************************************************************)
(* Theorems of module Persistence, for every set of writers, every number  *)
(* of keys and of starts, and every table.                                 *)
(***************************************************************************)
EXTENDS Persistence, TLAPS

Busy(w) == wpc[w] \notin {"idle", "done"}

(* A request that is under way works on a key of the table, with an        *)
(* operation the program makes on it.                                      *)
WriterInv ==
    \A w \in Writers : Busy(w) =>
        /\ Running /\ ~ closed
        /\ op[w] \in Ops(table) /\ key[w] \in Keys
        /\ wpc[w] = "store" => op[w] = "Add"

(* A file that is not whole says nothing.                                  *)
FileInv == file.state # "whole" => file.i = 0 /\ file.val = Blank

(* No poll has a number that has not been given, and a request that works  *)
(* on a poll that is stored finds it there: polls are not deleted.         *)
NumberInv ==
    table = "vote" =>
        /\ \A k \in has : k <= i
        /\ \A k \in Keys : val[k] > 0 => k <= i
        /\ \A w \in Writers : Busy(w) => key[w] <= i
        /\ \A w \in Writers : Busy(w) /\ wpc[w] # "store" => key[w] \in has

Holding == {"open", "visit", "write"}

(* Who is between LockTable and Write holds the lock of the table.         *)
LockInv == \A s \in Savers : spc[s] \in Holding <=> lock = {s}

(* From Close on nothing changes in memory.  A save that began after that  *)
(* finds what is there, and so does the file when no save is under way.    *)
Current(s) ==
    /\ spc[s] \in {"visit", "write"} => snap[s] = has \ todo[s]
    /\ spc[s] = "write" => todo[s] = {}

ExitInv ==
    /\ closed => phase = "closing"
    /\ ~ closed => spc["close"] = "idle"
    /\ Current("close")
    /\ closed /\ spc["close"] = "idle" =>
        /\ Current("ticker")
        /\ spc["ticker"] \notin {"visit", "write"} =>
            file = [state |-> "whole", i |-> i,
                    val |-> [k \in Keys |-> IF k \in has THEN val[k] ELSE 0]]

Inv == /\ TypeOK /\ WriterInv /\ FileInv /\ NumberInv /\ NumbersAreFresh
       /\ LockInv /\ ExitInv

-----------------------------------------------------------------------------
(* Types.                                                                  *)

(* What is done to which table.                                            *)
LEMMA OpsFacts ==
    ASSUME TypeOK
    PROVE  /\ "Add" \in Ops(table) => table = "vote"
           /\ table = "vote" => Ops(table) = {"Add", "Update"}
  BY TablesAssumption DEF TypeOK, AllTables, Ops

(* An empty file, and what a save writes, are files.                       *)
LEMMA FileTypes ==
    ASSUME TypeOK
    PROVE  /\ Blank \in [Keys -> Nat]
           /\ NoFile \in [state : {"none", "empty", "torn", "whole"}, i : 0 .. MaxKey,
                          val : [Keys -> Nat]]
           /\ \A x \in {"empty", "torn"} : [NoFile EXCEPT !.state = x] \in
                [state : {"none", "empty", "torn", "whole"}, i : 0 .. MaxKey,
                 val : [Keys -> Nat]]
           /\ \A x \in {"empty", "torn"} :
                /\ [NoFile EXCEPT !.state = x].state = x
                /\ [NoFile EXCEPT !.state = x].i = 0
                /\ [NoFile EXCEPT !.state = x].val = Blank
           /\ \A s \in Savers : Encoded(s) \in
                [state : {"none", "empty", "torn", "whole"}, i : 0 .. MaxKey,
                 val : [Keys -> Nat]]
           /\ \A f \in Interrupted : f \in
                [state : {"none", "empty", "torn", "whole"}, i : 0 .. MaxKey,
                 val : [Keys -> Nat]]
<1> DEFINE FileSet == [state : {"none", "empty", "torn", "whole"}, i : 0 .. MaxKey,
                       val : [Keys -> Nat]]
<1>1. Blank \in [Keys -> Nat] /\ 0 \in 0 .. MaxKey
  BY MaxKeyAssumption DEF Blank
<1>2. NoFile \in FileSet
  BY <1>1 DEF NoFile
<1>3. \A x \in {"empty", "torn"} : /\ [NoFile EXCEPT !.state = x] \in FileSet
                                   /\ [NoFile EXCEPT !.state = x].state = x
                                   /\ [NoFile EXCEPT !.state = x].i = 0
                                   /\ [NoFile EXCEPT !.state = x].val = Blank
  BY <1>1 DEF NoFile
<1>4. \A s \in Savers : Encoded(s) \in FileSet
  BY DEF Encoded, TypeOK
<1>5. \A f \in Interrupted : f \in FileSet
  <2>1. Interrupted = {file}
        \/ Interrupted = {[NoFile EXCEPT !.state = "empty"], [NoFile EXCEPT !.state = "torn"]}
    BY DEF Interrupted
  <2> QED
    BY <1>3, <2>1 DEF TypeOK
<1> QED
  BY <1>1, <1>2, <1>3, <1>4, <1>5

(* What Goto and Put do to the types.                                      *)
LEMMA WriterTypes ==
    ASSUME TypeOK, NEW w \in Writers
    PROVE  /\ \A x \in WriterPcs : Goto(w, x) => wpc' \in [Writers -> WriterPcs]
           /\ \A k \in Keys, n \in Nat : Put(k, n) =>
                has' \in SUBSET Keys /\ val' \in [Keys -> Nat]
  BY DEF TypeOK, Goto, Put

(* What Begin does to the types.                                           *)
LEMMA BeginTypes ==
    ASSUME TypeOK, NEW w \in Writers, NEW kind, NEW k \in 0 .. MaxKey,
           NEW x \in WriterPcs, Begin(w, kind, k, x)
    PROVE  /\ wpc' \in [Writers -> WriterPcs]
           /\ op' \in [Writers -> Kinds \cup {"none"}]
           /\ key' \in [Writers -> 0 .. MaxKey]
  BY DEF TypeOK, Goto, Begin

(* Every step keeps every variable in its type.                            *)
LEMMA TypeStep == TypeOK /\ WriterInv /\ [Next]_vars => TypeOK'
<1> SUFFICES ASSUME TypeOK, WriterInv, [Next]_vars PROVE TypeOK'
  OBVIOUS
<1> USE DEF process, db, writers, ticker, savers
<1>0. /\ \A k \in Keys : k \in 0 .. MaxKey /\ val[k] \in Nat /\ val[k] + 1 \in Nat
      /\ 0 \in 0 .. MaxKey /\ MaxKey \in Nat
      /\ {"store", "announce", "send", "change", "done"} \subseteq WriterPcs
      /\ {"idle", "lock", "open", "visit", "write"} \subseteq SaverPcs
  BY MaxKeyAssumption DEF Keys, TypeOK, WriterPcs, SaverPcs
<1>1. ASSUME NEW w \in Writers, Add(w) PROVE TypeOK'
  <2>1. i + 1 \in 0 .. MaxKey
    BY <1>0, <1>1 DEF Add, TypeOK
  <2> QED
    BY <1>0, <1>1, <2>1, BeginTypes DEF Add, TypeOK
<1>2. ASSUME NEW w \in Writers, NEW k \in Keys, AddKV(w, k) PROVE TypeOK'
  <2>1. has' \in SUBSET Keys /\ val' \in [Keys -> Nat]
    BY <1>0, <1>2, WriterTypes DEF AddKV, TypeOK
  <2>2. wpc' \in [Writers -> WriterPcs] /\ op' \in [Writers -> Kinds \cup {"none"}]
        /\ key' \in [Writers -> 0 .. MaxKey]
    BY <1>0, <1>2, BeginTypes DEF AddKV
  <2> QED
    BY <1>2, <2>1, <2>2 DEF AddKV, TypeOK
<1>3. ASSUME NEW w \in Writers, NEW k \in Keys, Touch(w, k) PROVE TypeOK'
  <2>1. has' \in SUBSET Keys /\ val' \in [Keys -> Nat]
    BY <1>0, <1>3, WriterTypes DEF Touch
  <2>2. wpc' \in [Writers -> WriterPcs] /\ op' \in [Writers -> Kinds \cup {"none"}]
        /\ key' \in [Writers -> 0 .. MaxKey]
    BY <1>0, <1>3, BeginTypes DEF Touch
  <2> QED
    BY <1>3, <2>1, <2>2 DEF Touch, TypeOK
<1>4. ASSUME NEW w \in Writers, NEW k \in Keys, NEW kind, BeginChange(w, kind, k)
      PROVE  TypeOK'
  <2>1. wpc' \in [Writers -> WriterPcs] /\ op' \in [Writers -> Kinds \cup {"none"}]
        /\ key' \in [Writers -> 0 .. MaxKey]
    BY <1>0, <1>4, BeginTypes DEF BeginChange
  <2> QED
    BY <1>4, <2>1 DEF BeginChange, TypeOK
<1>5. ASSUME NEW w \in Writers, Store(w) PROVE TypeOK'
  <2>1. key[w] \in Keys
    BY <1>5 DEF Store, WriterInv, Busy
  <2>2. has' \in SUBSET Keys /\ val' \in [Keys -> Nat]
    BY <1>5, <2>1, WriterTypes DEF Store
  <2> QED
    BY <1>0, <1>5, <2>2, WriterTypes DEF Store, TypeOK
<1>6. ASSUME NEW w \in Writers, Changed(w) \/ Receive(w) PROVE TypeOK'
  <2>1. AfterChanged(w) \in WriterPcs
    BY <1>0 DEF AfterChanged
  <2>2. wpc' \in [Writers -> WriterPcs]
    BY <1>0, <1>6, <2>1, WriterTypes DEF Changed, Receive
  <2> QED
    BY <1>6, <2>2 DEF Changed, Receive, TypeOK
<1>7. ASSUME NEW w \in Writers, Change(w) PROVE TypeOK'
  <2>1. key[w] \in Keys
    BY <1>7 DEF Change, WriterInv, Busy
  <2>2. has' \in SUBSET Keys /\ val' \in [Keys -> Nat]
    BY <1>0, <1>7, <2>1, WriterTypes DEF Change, TypeOK
  <2> QED
    BY <1>0, <1>7, <2>2, WriterTypes DEF Change, TypeOK
<1>8. CASE TimerFires
  BY <1>0, <1>8 DEF TimerFires, Savers, TypeOK
<1>9. ASSUME NEW s \in Savers, Save(s) PROVE TypeOK'
  <2>1. \A x \in SaverPcs : [spc EXCEPT ![s] = x] \in [Savers -> SaverPcs]
    BY DEF TypeOK
  <2>2. CASE LockTable(s)
    BY <1>0, <2>1, <2>2 DEF LockTable, Step, TypeOK
  <2>3. CASE Truncate(s)
    BY <1>0, <2>1, <2>3, FileTypes DEF Truncate, Step, TypeOK
  <2>4. ASSUME NEW k \in Keys, Visit(s, k) PROVE TypeOK'
    BY <1>0, <2>1, <2>4 DEF Visit, Step, TypeOK
  <2>5. CASE Write(s)
    BY <1>0, <2>1, <2>5, FileTypes DEF Write, Step, TypeOK
  <2> QED
    BY <1>9, <2>2, <2>3, <2>4, <2>5 DEF Save
<1>10. CASE Interrupt \/ Close
  <2>1. CASE Interrupt
    BY <2>1 DEF Interrupt, TypeOK
  <2>2. CASE Close
    <3>1. spc' \in [Savers -> SaverPcs]
      BY <1>0, <2>2 DEF Close, Savers, TypeOK
    <3> QED
      BY <2>2, <3>1 DEF Close, TypeOK
  <2> QED
    BY <1>10, <2>1, <2>2
<1>11. ASSUME Crash \/ Exit PROVE TypeOK'
  <2>1. /\ UNCHANGED <<table, starts, op, key>>
        /\ phase' \in {"down", "exited"} /\ file' \in Interrupted
        /\ has' = {} /\ val' = Blank /\ i' = 0
        /\ send' = FALSE /\ armed' = "minute" /\ closed' = FALSE /\ lock' = {}
    BY <1>11 DEF Crash, Exit, Stop
  <2>2. /\ spc' = [s \in Savers |-> "idle"] /\ todo' = [s \in Savers |-> {}]
        /\ snap' = [s \in Savers |-> {}]
        /\ wpc' = [w \in Writers |-> IF wpc[w] = "idle" THEN "idle" ELSE "done"]
    BY <1>11 DEF Crash, Exit, Stop
  <2>3. wpc' \in [Writers -> WriterPcs] /\ spc' \in [Savers -> SaverPcs]
    BY <2>2 DEF WriterPcs, SaverPcs
  <2>4. todo' \in [Savers -> SUBSET Keys] /\ snap' \in [Savers -> SUBSET Keys]
    BY <2>2
  <2> QED
    BY <1>0, <2>1, <2>3, <2>4, FileTypes DEF TypeOK
<1>12. CASE Start
  <2>1. starts' \in 0 .. MaxStarts /\ phase' \in {"up", "dead"}
    BY <1>12, MaxStartsAssumption DEF Start, TypeOK
  <2>2. file.val \in [Keys -> Nat] /\ file.i \in 0 .. MaxKey
    BY DEF TypeOK
  <2>3. has' \in SUBSET Keys /\ val' \in [Keys -> Nat] /\ i' \in 0 .. MaxKey
    BY <1>12, <2>2 DEF Start, TypeOK
  <2> QED
    BY <1>12, <2>1, <2>3 DEF Start, TypeOK
<1>13. CASE UNCHANGED vars
  BY <1>13 DEF vars, TypeOK
<1> QED
  BY <1>1, <1>2, <1>3, <1>4, <1>5, <1>6, <1>7, <1>8, <1>9, <1>10, <1>11, <1>12, <1>13
     DEF Next, Request

-----------------------------------------------------------------------------
(* Writers.                                                                *)

(* A writer that is busy after a step was busy before it, or it has just   *)
(* begun on a key of the table.                                            *)
LEMMA WriterStep == TypeOK /\ WriterInv /\ ExitInv /\ [Next]_vars => WriterInv'
<1> SUFFICES ASSUME TypeOK, WriterInv, ExitInv, [Next]_vars, NEW w \in Writers, Busy(w)'
             PROVE  /\ Running' /\ ~ closed'
                    /\ op'[w] \in Ops(table)' /\ key'[w] \in Keys
                    /\ wpc'[w] = "store" => op'[w] = "Add"
  BY DEF WriterInv
<1> USE DEF process, db, writers, ticker, savers, Busy, Keys
<1> DEFINE Fine == /\ Running' /\ ~ closed'
                   /\ op'[w] \in Ops(table)' /\ key'[w] \in Keys
                   /\ wpc'[w] = "store" => op'[w] = "Add"
<1>1. ASSUME phase' = phase, closed' = closed, table' = table, op' = op, key' = key,
             Busy(w), wpc'[w] = "store" => wpc[w] = "store"
      PROVE  Fine
  BY <1>1 DEF WriterInv, Running, Ops
<1>2. ASSUME NEW v \in Writers, NEW kind, NEW k \in Keys, NEW x,
             Begin(v, kind, k, x), x = "store" => kind = "Add",
             phase' = phase, closed' = closed, table' = table
      PROVE  Fine
  <2>1. phase = "up" /\ ~ closed
    BY <1>2 DEF Begin, ExitInv
  <2>2. CASE w = v
    BY <1>2, <2>1, <2>2 DEF Begin, Goto, TypeOK, Running, Ops
  <2>3. CASE w # v
    BY <1>2, <2>1, <2>3 DEF Begin, Goto, TypeOK, Running, Ops, WriterInv
  <2> QED
    BY <2>2, <2>3
<1>3. ASSUME NEW v \in Writers, Add(v) PROVE Fine
  <2>1. i + 1 \in Keys
    BY <1>3, MaxKeyAssumption DEF Add, TypeOK
  <2> QED
    BY <1>2, <1>3, <2>1 DEF Add
<1>4. ASSUME NEW v \in Writers, NEW k \in Keys, AddKV(v, k) \/ Touch(v, k) PROVE Fine
  BY <1>2, <1>4 DEF AddKV, Touch
<1>5. ASSUME NEW v \in Writers, NEW k \in Keys, NEW kind, BeginChange(v, kind, k)
      PROVE  Fine
  BY <1>2, <1>5 DEF BeginChange
<1>6. ASSUME NEW v \in Writers, Request(v) \/ Receive(v) PROVE Fine
  <2>1. Busy(w) /\ (wpc'[w] = "store" => wpc[w] = "store")
    BY <1>6 DEF Request, Receive, Store, Changed, Change, Goto, AfterChanged, TypeOK
  <2> QED
    BY <1>1, <1>6, <2>1 DEF Request, Receive, Store, Changed, Change
<1>7. ASSUME TimerFires \/ (\E s \in Savers : Save(s)) PROVE Fine
  BY <1>1, <1>7 DEF TimerFires, Save, LockTable, Truncate, Visit, Write
<1>8. CASE Interrupt
  BY <1>8 DEF Interrupt, WriterInv, Running, Ops
<1>9. CASE Close
  BY <1>9 DEF Close
<1>10. CASE Crash \/ Exit
  BY <1>10 DEF Crash, Exit, Stop
<1>11. CASE Start
  BY <1>11 DEF Start, WriterInv, Running
<1>12. CASE UNCHANGED vars
  BY <1>1, <1>12 DEF vars
<1> QED
  BY <1>3, <1>4, <1>5, <1>6, <1>7, <1>8, <1>9, <1>10, <1>11, <1>12 DEF Next

-----------------------------------------------------------------------------
(* Numbers.                                                                *)

(* A file is written by Write, or cut off by Truncate or a stop, or kept.  *)
LEMMA FileChanges ==
    ASSUME [Next]_vars
    PROVE  \/ file' = file
           \/ file'.state \in {"empty", "torn"} /\ file'.i = 0 /\ file'.val = Blank
           \/ /\ UNCHANGED <<db, table>>
              /\ \E s \in Savers : Write(s) /\ file' = Encoded(s)
<1> USE DEF process, db
<1>1. \A x \in {"empty", "torn"} : /\ [NoFile EXCEPT !.state = x].state = x
                                   /\ [NoFile EXCEPT !.state = x].i = 0
                                   /\ [NoFile EXCEPT !.state = x].val = Blank
  BY DEF NoFile
<1>2. ASSUME NEW s \in Savers, Save(s)
      PROVE  \/ file' = file
             \/ file'.state \in {"empty", "torn"} /\ file'.i = 0 /\ file'.val = Blank
             \/ UNCHANGED <<db, table>> /\ Write(s) /\ file' = Encoded(s)
  BY <1>1, <1>2 DEF Save, LockTable, Truncate, Visit, Write
<1>3. ASSUME Crash \/ Exit
      PROVE  \/ file' = file
             \/ file'.state \in {"empty", "torn"} /\ file'.i = 0 /\ file'.val = Blank
  BY <1>1, <1>3 DEF Crash, Exit, Stop, Interrupted
<1> QED
  BY <1>2, <1>3 DEF Next, vars, Add, AddKV, Touch, BeginChange, Request, Store, Changed,
     Change, Receive, TimerFires, Interrupt, Close, Start

(* Only Write makes a file whole.                                          *)
LEMMA FileStep == FileInv /\ [Next]_vars => FileInv'
<1> SUFFICES ASSUME FileInv, [Next]_vars PROVE FileInv'
  OBVIOUS
<1>1. \A s \in Savers : Encoded(s).state = "whole"
  BY DEF Encoded
<1> QED
  BY <1>1, FileChanges DEF FileInv, Blank

(* A table stays what it is.                                               *)
LEMMA TableStays == [Next]_vars => table' = table
  BY DEF Next, vars, process, Add, AddKV, Touch, BeginChange, Request, Store, Changed,
     Change, Receive, TimerFires, Save, LockTable, Truncate, Visit, Write, Interrupt,
     Close, Crash, Exit, Stop, Start

(* The polls of the table, and the requests that work on them.             *)
PollsInv ==
    /\ \A k \in has : k <= i
    /\ \A k \in Keys : val[k] > 0 => k <= i
    /\ \A w \in Writers : Busy(w) => key[w] <= i
    /\ \A w \in Writers : Busy(w) /\ wpc[w] # "store" => key[w] \in has
    /\ \A w \in Writers : wpc[w] = "store" => key[w] \notin has /\ key[w] <= i
    /\ \A w, x \in Writers :
        wpc[w] = "store" /\ wpc[x] = "store" /\ key[w] = key[x] => w = x

(* The polls of a file that is whole.                                      *)
PollsFile == file.state = "whole" => \A k \in Keys : file.val[k] > 0 => k <= file.i

(* In the table of polls no step gives a number twice.                     *)
LEMMA PollsStep ==
    ASSUME TypeOK, WriterInv, FileInv, PollsInv, PollsFile, [Next]_vars, table = "vote"
    PROVE  PollsInv'
<1> USE DEF process, db, writers, ticker, savers, Busy
<1>0. /\ i \in Int /\ \A k \in Keys : k \in Int /\ val[k] \in Int
      /\ \A w \in Writers : key[w] \in Int
      /\ has \subseteq Keys /\ Ops(table) = {"Add", "Update"}
      /\ \A w \in Writers : Busy(w) => key[w] \in Keys /\ op[w] \in {"Add", "Update"}
  <2>1. Ops(table) = {"Add", "Update"}
    BY OpsFacts
  <2>2. \A w \in Writers : Busy(w) => key[w] \in Keys /\ op[w] \in {"Add", "Update"}
    BY <2>1 DEF WriterInv
  <2>3. i \in Int /\ \A k \in Keys : k \in Int
    BY DEF TypeOK, Keys
  <2>4. \A k \in Keys : val[k] \in Int
    BY DEF TypeOK
  <2>5. (\A w \in Writers : key[w] \in Int) /\ has \subseteq Keys
    BY DEF TypeOK
  <2> QED
    BY <2>1, <2>2, <2>3, <2>4, <2>5
<1>1. ASSUME has' = has, val' = val, i' = i, key' = key,
             \A w \in Writers : wpc'[w] = "store" => wpc[w] = "store",
             \A w \in Writers : Busy(w)' => Busy(w) /\ (wpc[w] = "store" => wpc'[w] = "store")
      PROVE  PollsInv'
  BY <1>1 DEF PollsInv
<1>2. ASSUME NEW w \in Writers, Add(w) PROVE PollsInv'
  <2>1. /\ wpc[w] = "idle" /\ wpc'[w] = "store" /\ key'[w] = i + 1 /\ i' = i + 1
        /\ has' = has /\ val' = val
        /\ \A x \in Writers : x # w => wpc'[x] = wpc[x] /\ key'[x] = key[x]
    BY <1>2 DEF Add, Begin, Goto, TypeOK
  <2>2. i + 1 \notin has
    BY <1>0 DEF PollsInv
  <2>3. \A x \in Writers : x # w /\ wpc'[x] = "store" => key'[x] # key'[w]
    BY <1>0, <2>1 DEF PollsInv
  <2>4. \A k \in has : k <= i + 1
    BY <1>0 DEF PollsInv
  <2>5. \A k \in Keys : val[k] > 0 => k <= i + 1
    BY <1>0 DEF PollsInv
  <2>6. \A x \in Writers : Busy(x)' => key'[x] <= i + 1
    BY <1>0, <2>1 DEF PollsInv
  <2>7. \A x \in Writers : Busy(x)' /\ wpc'[x] # "store" => key'[x] \in has
    BY <2>1 DEF PollsInv
  <2>8. \A x \in Writers : wpc'[x] = "store" => key'[x] \notin has
    BY <2>1, <2>2 DEF PollsInv
  <2>9. \A x, y \in Writers :
        wpc'[x] = "store" /\ wpc'[y] = "store" /\ key'[x] = key'[y] => x = y
    BY <2>1, <2>3 DEF PollsInv
  <2> QED
    BY <2>1, <2>4, <2>5, <2>6, <2>7, <2>8, <2>9 DEF PollsInv
<1>3. ASSUME NEW w \in Writers, NEW k \in Keys, AddKV(w, k) \/ Touch(w, k) PROVE FALSE
  BY <1>0, <1>3 DEF AddKV, Touch, Begin
<1>4. ASSUME NEW w \in Writers, NEW k \in Keys, NEW kind, BeginChange(w, kind, k)
      PROVE  PollsInv'
  <2>1. /\ wpc[w] = "idle" /\ wpc'[w] = "announce" /\ key'[w] = k /\ k \in has
        /\ has' = has /\ val' = val /\ i' = i
        /\ \A x \in Writers : x # w => wpc'[x] = wpc[x] /\ key'[x] = key[x]
    BY <1>4 DEF BeginChange, Begin, Goto, TypeOK
  <2> QED
    BY <2>1 DEF PollsInv
<1>5. ASSUME NEW w \in Writers, Store(w) PROVE PollsInv'
  <2>1. /\ wpc[w] = "store" /\ wpc'[w] = "announce" /\ key' = key /\ i' = i
        /\ has' = has \cup {key[w]} /\ val' = [val EXCEPT ![key[w]] = 1]
        /\ \A x \in Writers : x # w => wpc'[x] = wpc[x]
    BY <1>5 DEF Store, Goto, Put, TypeOK
  <2>2. key[w] <= i
    BY <2>1 DEF PollsInv
  <2>3. \A k \in Keys : val'[k] > 0 => k <= i
    BY <2>1, <2>2 DEF PollsInv, TypeOK
  <2>4. \A x \in Writers : wpc'[x] = "store" => key[x] \notin has' /\ key[x] <= i
    BY <2>1 DEF PollsInv
  <2> QED
    BY <2>1, <2>2, <2>3, <2>4 DEF PollsInv
<1>6. ASSUME NEW w \in Writers, Changed(w) \/ Receive(w) PROVE PollsInv'
  <2>1. /\ has' = has /\ val' = val /\ i' = i /\ key' = key
        /\ wpc[w] \in {"announce", "send"} /\ wpc'[w] # "store"
        /\ \A x \in Writers : x # w => wpc'[x] = wpc[x]
    BY <1>6 DEF Changed, Receive, Goto, AfterChanged, TypeOK
  <2> QED
    BY <1>1, <2>1
<1>7. ASSUME NEW w \in Writers, Change(w) PROVE PollsInv'
  <2>1. op[w] # "Delete" /\ key[w] \in has /\ wpc[w] = "change"
    BY <1>0, <1>7 DEF Change, PollsInv
  <2>2. /\ has' = has /\ i' = i /\ key' = key /\ wpc'[w] = "done"
        /\ val' = [val EXCEPT ![key[w]] = val[key[w]] + 1]
        /\ \A x \in Writers : x # w => wpc'[x] = wpc[x]
    <3>1. has' = has \cup {key[w]} /\ val' = [val EXCEPT ![key[w]] = val[key[w]] + 1]
      BY <1>7, <2>1 DEF Change, Put
    <3>2. has' = has
      BY <2>1, <3>1
    <3> QED
      BY <1>7, <3>1, <3>2 DEF Change, Goto, TypeOK
  <2>3. \A k \in Keys : val'[k] > 0 => k <= i
    BY <2>1, <2>2 DEF PollsInv, TypeOK
  <2> QED
    BY <2>2, <2>3 DEF PollsInv
<1>8. ASSUME TimerFires \/ (\E s \in Savers : Save(s)) \/ Interrupt \/ Close PROVE PollsInv'
  BY <1>1, <1>8 DEF TimerFires, Save, LockTable, Truncate, Visit, Write, Interrupt, Close
<1>9. ASSUME Crash \/ Exit PROVE PollsInv'
  <2>1. has' = {} /\ val' = Blank
        /\ wpc' = [w \in Writers |-> IF wpc[w] = "idle" THEN "idle" ELSE "done"]
    BY <1>9 DEF Crash, Exit, Stop
  <2> QED
    BY <2>1 DEF PollsInv, Blank
<1>10. ASSUME Start PROVE PollsInv'
  <2>1. \A w \in Writers : ~ Busy(w) /\ wpc'[w] = wpc[w]
    BY <1>10 DEF Start, WriterInv, Running
  <2>2. CASE file.state = "torn"
    BY <1>1, <1>10, <2>1, <2>2 DEF Start
  <2>3. CASE file.state # "torn"
    <3>1. has' = {k \in Keys : file.val[k] > 0} /\ val' = file.val /\ i' = file.i
      BY <1>10, <2>3 DEF Start
    <3>2. \A k \in Keys : file.val[k] > 0 => k <= file.i
      BY DEF FileInv, PollsFile, Blank
    <3> QED
      BY <2>1, <3>1, <3>2 DEF PollsInv
  <2> QED
    BY <2>2, <2>3
<1>11. ASSUME UNCHANGED vars PROVE PollsInv'
  BY <1>1, <1>11 DEF vars
<1> QED
  BY <1>2, <1>3, <1>4, <1>5, <1>6, <1>7, <1>8, <1>9, <1>10, <1>11 DEF Next, Request

(* And no file of polls is saved without the numbers of its polls.         *)
LEMMA PollsFileStep ==
    ASSUME TypeOK, PollsInv, PollsFile, [Next]_vars
    PROVE  PollsFile'
<1>1. ASSUME NEW s \in Savers, NEW k \in Keys, Encoded(s).val[k] > 0
      PROVE  k <= Encoded(s).i
  BY <1>1 DEF Encoded, PollsInv
<1> QED
  BY <1>1, FileChanges DEF PollsFile, Blank

(* What the invariant says of numbers is PollsInv and PollsFile.           *)
LEMMA NumberStep ==
    TypeOK /\ WriterInv /\ FileInv /\ NumberInv /\ NumbersAreFresh /\ ExitInv /\ [Next]_vars
        => NumberInv' /\ NumbersAreFresh'
<1> SUFFICES ASSUME TypeOK, WriterInv, FileInv, NumberInv, NumbersAreFresh, ExitInv,
                    [Next]_vars
             PROVE  NumberInv' /\ NumbersAreFresh'
  OBVIOUS
<1>1. table' = table
  BY TableStays
<1>2. CASE table = "vote"
  <2>1. PollsInv /\ PollsFile
    BY <1>2 DEF NumberInv, NumbersAreFresh, PollsInv, PollsFile
  <2>2. PollsInv' /\ PollsFile'
    BY <1>2, <2>1, PollsStep, PollsFileStep
  <2> QED
    BY <2>2 DEF NumberInv, NumbersAreFresh, PollsInv, PollsFile
<1>3. CASE table # "vote"
  <2>1. "Add" \notin Ops(table)
    BY <1>3, OpsFacts
  <2>2. WriterInv'
    BY WriterStep
  <2>3. \A w \in Writers : wpc'[w] # "store"
    BY <1>1, <2>1, <2>2 DEF WriterInv, Busy, Ops
  <2> QED
    BY <1>1, <1>3, <2>3 DEF NumberInv, NumbersAreFresh
<1> QED
  BY <1>2, <1>3

-----------------------------------------------------------------------------
(* Saves.                                                                  *)

(* A step that is no save's leaves the lock and the savers alone, but for  *)
(* the start of one.                                                       *)
LEMMA SaversStay ==
    ASSUME [Next]_vars, ~ Crash, ~ Exit, \A s \in Savers : ~ Save(s)
    PROVE  /\ UNCHANGED <<todo, snap, lock, file>>
           /\ \/ spc' = spc
              \/ AtSelect /\ spc' = [spc EXCEPT !["ticker"] = "lock"] /\ closed' = closed
              \/ Close
  BY DEF Next, vars, process, db, writers, ticker, savers, Add, AddKV, Touch, BeginChange,
     Request, Store, Changed, Change, Receive, TimerFires, Interrupt, Close, Start

(* Two savers are never in the file at once.                               *)
LEMMA LockStep == TypeOK /\ LockInv /\ [Next]_vars => LockInv'
<1> SUFFICES ASSUME TypeOK, LockInv, [Next]_vars PROVE LockInv'
  OBVIOUS
<1> USE DEF Holding, Savers
<1>1. ASSUME NEW s \in Savers, Save(s) PROVE LockInv'
  <2>1. CASE LockTable(s)
    BY <2>1 DEF LockTable, Step, LockInv, TypeOK
  <2>2. CASE Truncate(s)
    BY <2>2 DEF Truncate, Step, LockInv, TypeOK
  <2>3. ASSUME NEW k \in Keys, Visit(s, k) PROVE LockInv'
    BY <2>3 DEF Visit, Step, LockInv, TypeOK
  <2>4. CASE Write(s)
    BY <2>4 DEF Write, Step, LockInv, TypeOK
  <2> QED
    BY <1>1, <2>1, <2>2, <2>3, <2>4 DEF Save
<1>2. ASSUME Crash \/ Exit PROVE LockInv'
  BY <1>2 DEF Crash, Exit, Stop, LockInv
<1>3. ASSUME ~ Crash, ~ Exit, \A s \in Savers : ~ Save(s) PROVE LockInv'
  <2>1. CASE spc' = spc
    BY <1>3, <2>1, SaversStay DEF LockInv
  <2>2. CASE AtSelect /\ spc' = [spc EXCEPT !["ticker"] = "lock"]
    BY <1>3, <2>2, SaversStay DEF LockInv, AtSelect, TypeOK
  <2>3. CASE Close
    BY <1>3, <2>3, SaversStay DEF LockInv, Close, TypeOK
  <2> QED
    BY <1>3, <2>1, <2>2, <2>3, SaversStay
<1> QED
  BY <1>1, <1>2, <1>3

(* From Close on the table does not change while the process runs.         *)
LEMMA ClosedIsStable ==
    ASSUME WriterInv, ExitInv, [Next]_vars, closed, ~ Crash, ~ Exit
    PROVE  /\ UNCHANGED <<process, db>>
           /\ \/ \E s \in Savers : Save(s)
              \/ UNCHANGED <<spc, todo, snap, file>>
              \/ TimerFires
<1> USE DEF process, db, writers, savers, Busy
<1>1. phase = "closing" /\ \A w \in Writers : wpc[w] \in {"idle", "done"}
  BY DEF WriterInv, ExitInv
<1>2. ASSUME NEW w \in Writers, NEW k \in Keys, NEW kind
      PROVE  ~ Add(w) /\ ~ AddKV(w, k) /\ ~ Touch(w, k) /\ ~ BeginChange(w, kind, k)
  BY <1>1 DEF Add, AddKV, Touch, BeginChange, Begin
<1>3. ASSUME NEW w \in Writers, Add(w) PROVE FALSE
  BY <1>1, <1>3 DEF Add, Begin
<1>4. ASSUME NEW w \in Writers, Request(w) \/ Receive(w) PROVE FALSE
  BY <1>1, <1>4 DEF Request, Store, Changed, Change, Receive
<1>5. ASSUME Interrupt \/ Close \/ Start PROVE FALSE
  BY <1>1, <1>5 DEF Interrupt, Close, Start
<1> QED
  BY <1>2, <1>3, <1>4, <1>5 DEF Next, vars, TimerFires, Save, LockTable, Truncate, Visit, Write

(* What a saver finds in a table that does not change.                     *)
LEMMA SaveIsCurrent ==
    ASSUME TypeOK, NEW s \in Savers, Save(s), UNCHANGED has, Current(s)
    PROVE  Current(s)'
<1> USE DEF Current, Savers
<1>1. CASE LockTable(s)
  BY <1>1 DEF LockTable, Step, TypeOK
<1>2. CASE Truncate(s)
  <2>1. spc'[s] = "visit" /\ todo'[s] = Keys /\ snap'[s] = {} /\ has \subseteq Keys
    BY <1>2 DEF Truncate, Step, TypeOK
  <2> QED
    BY <2>1
<1>3. ASSUME NEW k \in Keys, Visit(s, k) PROVE Current(s)'
  <2>1. /\ spc[s] = "visit" /\ k \in todo[s] /\ todo'[s] = todo[s] \ {k}
        /\ snap'[s] = IF k \in has THEN snap[s] \cup {k} ELSE snap[s]
        /\ spc'[s] = IF todo[s] = {k} THEN "write" ELSE "visit"
    BY <1>3 DEF Visit, Step, TypeOK
  <2>2. snap[s] = has \ todo[s]
    BY <2>1
  <2>3. snap'[s] = has \ todo'[s]
    BY <2>1, <2>2
  <2>4. spc'[s] = "write" => todo'[s] = {}
    BY <2>1
  <2> QED
    BY <2>3, <2>4
<1>4. CASE Write(s)
  BY <1>4 DEF Write, Step, TypeOK
<1> QED
  BY <1>1, <1>2, <1>3, <1>4 DEF Save

(* And what a saver that has found everything writes.                      *)
LEMMA WriteIsCurrent ==
    ASSUME TypeOK, NEW s \in Savers, Write(s), Current(s)
    PROVE  file' = [state |-> "whole", i |-> i,
                    val |-> [k \in Keys |-> IF k \in has THEN val[k] ELSE 0]]
<1>1. snap[s] = has
  BY DEF Write, Step, Current
<1> QED
  BY <1>1 DEF Write, Encoded

(* Every step keeps what is said of a shutdown.                            *)
LEMMA ExitStep ==
    ASSUME TypeOK, WriterInv, LockInv, ExitInv, [Next]_vars
    PROVE  ExitInv'
<1> USE DEF Savers
<1>1. CASE Crash \/ Exit
  BY <1>1 DEF Crash, Exit, Stop, ExitInv, Current
<1>2. CASE ~ closed
  <2>1. spc["close"] = "idle"
    BY <1>2 DEF ExitInv
  <2>2. ~ Save("close")
    BY <2>1 DEF Save, LockTable, Truncate, Visit, Write, Step
  <2>3. CASE Close
    BY <2>3 DEF Close, ExitInv, Current, TypeOK
  <2>4. ASSUME ~ Close, ~ Crash, ~ Exit PROVE ~ closed' /\ spc'["close"] = "idle"
    <3>1. ~ closed'
      BY <1>2, <2>4 DEF Next, vars, process, Add, AddKV, Touch, BeginChange, Request, Store,
         Changed, Change, Receive, TimerFires, Save, LockTable, Truncate, Visit, Write,
         Interrupt, Start
    <3>2. ASSUME Save("ticker") PROVE spc'["close"] = "idle"
      BY <2>1, <3>2 DEF Save, LockTable, Truncate, Visit, Write, Step, TypeOK
    <3>3. ASSUME ~ Save("ticker") PROVE spc'["close"] = "idle"
      <4>1. \A s \in Savers : ~ Save(s)
        BY <2>2, <3>3
      <4>2. spc' = spc \/ spc' = [spc EXCEPT !["ticker"] = "lock"]
        BY <2>4, <4>1, SaversStay
      <4> QED
        BY <2>1, <4>2 DEF TypeOK
    <3> QED
      BY <3>1, <3>2, <3>3
  <2> QED
    BY <1>1, <2>3, <2>4 DEF ExitInv, Current
<1>3. ASSUME closed, ~ Crash, ~ Exit PROVE ExitInv'
  <2> DEFINE Saved == [state |-> "whole", i |-> i,
                       val |-> [k \in Keys |-> IF k \in has THEN val[k] ELSE 0]]
  <2>0. /\ closed' /\ phase' = "closing" /\ has' = has /\ val' = val /\ i' = i
        /\ Current("close")
    BY <1>3, ClosedIsStable DEF ExitInv, process, db
  <2>1. ASSUME NEW s \in Savers, Save(s), NEW x \in Savers, x # s
        PROVE  spc'[x] = spc[x] /\ todo'[x] = todo[x] /\ snap'[x] = snap[x]
    BY <2>1 DEF Save, LockTable, Truncate, Visit, Write, Step, TypeOK
  <2>2. ASSUME NEW s \in Savers, Save(s), ~ Write(s)
        PROVE  spc'[s] # "idle" /\ spc[s] # "idle"
               /\ (file' = file \/ spc'[s] = "visit")
    BY <2>2 DEF Save, LockTable, Truncate, Visit, Step, TypeOK
  <2>3. ASSUME Save("close"), ~ Write("close") PROVE ExitInv'
    <3>1. Current("close")'
      BY <2>0, <2>3, SaveIsCurrent
    <3> QED
      BY <2>0, <2>2, <2>3, <3>1 DEF ExitInv
  <2>4. ASSUME Write("close") PROVE ExitInv'
    <3>1. file' = Saved
      BY <2>0, <2>4, WriteIsCurrent
    <3>2. spc["close"] = "write" /\ spc'["close"] = "idle" /\ spc'["ticker"] = spc["ticker"]
      BY <2>4 DEF Write, Step, TypeOK
    <3>3. spc["ticker"] \notin Holding
      BY <3>2 DEF LockInv, Holding
    <3> QED
      BY <2>0, <3>1, <3>2, <3>3 DEF ExitInv, Current, Holding
  <2>5. ASSUME Save("ticker") PROVE ExitInv'
    <3>1. /\ spc'["close"] = spc["close"] /\ todo'["close"] = todo["close"]
          /\ snap'["close"] = snap["close"]
      BY <2>1, <2>5
    <3>2. Current("close")'
      BY <2>0, <3>1 DEF Current
    <3>3. CASE spc["close"] # "idle"
      BY <2>0, <3>1, <3>2, <3>3 DEF ExitInv
    <3>4. CASE spc["close"] = "idle"
      <4>1. Current("ticker") /\ (spc["ticker"] \notin {"visit", "write"} => file = Saved)
        BY <1>3, <3>4 DEF ExitInv
      <4>2. Current("ticker")'
        BY <2>0, <2>5, <4>1, SaveIsCurrent
      <4>3. spc'["ticker"] \notin {"visit", "write"} => file' = Saved
        <5>1. CASE Write("ticker")
          BY <4>1, <5>1, WriteIsCurrent
        <5>2. CASE ~ Write("ticker")
          <6>1. spc'["ticker"] \notin {"visit", "write"} =>
                    file' = file /\ spc["ticker"] \notin {"visit", "write"}
            BY <2>5, <5>2 DEF Save, LockTable, Truncate, Visit, Step, TypeOK
          <6> QED
            BY <4>1, <6>1
        <5> QED
          BY <5>1, <5>2
      <4> QED
        BY <2>0, <3>2, <4>2, <4>3 DEF ExitInv
    <3> QED
      BY <3>3, <3>4
  <2>6. ASSUME TimerFires PROVE ExitInv'
    <3>1. /\ spc["ticker"] = "idle" /\ spc'["ticker"] = "lock" /\ spc'["close"] = spc["close"]
          /\ todo' = todo /\ snap' = snap /\ file' = file
      BY <2>6 DEF TimerFires, AtSelect, TypeOK
    <3> QED
      BY <1>3, <2>0, <3>1 DEF ExitInv, Current
  <2>7. ASSUME UNCHANGED <<spc, todo, snap, file>> PROVE ExitInv'
    BY <1>3, <2>0, <2>7 DEF ExitInv, Current
  <2> QED
    BY <1>3, <2>3, <2>4, <2>5, <2>6, <2>7, ClosedIsStable
<1> QED
  BY <1>1, <1>2, <1>3

-----------------------------------------------------------------------------
(* The invariant.                                                          *)

(* It holds when the program starts for the first time.                    *)
LEMMA InvInit == Init => Inv
<1> SUFFICES ASSUME Init PROVE Inv
  OBVIOUS
<1> USE DEF Init
<1>1. TypeOK
  <2>1. /\ 0 \in 0 .. MaxKey /\ starts \in 0 .. MaxStarts
    BY MaxKeyAssumption, MaxStartsAssumption
  <2>2. /\ op \in [Writers -> Kinds \cup {"none"}] /\ key \in [Writers -> 0 .. MaxKey]
        /\ wpc \in [Writers -> WriterPcs] /\ spc \in [Savers -> SaverPcs]
        /\ todo \in [Savers -> SUBSET Keys] /\ snap \in [Savers -> SUBSET Keys]
    BY <2>1 DEF WriterPcs, SaverPcs
  <2>3. val \in [Keys -> Nat]
    BY DEF Blank
  <2>4. file \in [state : {"none", "empty", "torn", "whole"}, i : 0 .. MaxKey,
                  val : [Keys -> Nat]]
    BY <2>1, <2>3 DEF NoFile
  <2> QED
    BY <2>1, <2>2, <2>3, <2>4 DEF TypeOK
<1>2. file.state = "none" /\ file.i = 0 /\ file.val = Blank
  BY DEF NoFile
<1>3. WriterInv /\ FileInv /\ NumberInv /\ NumbersAreFresh
  BY <1>2 DEF WriterInv, Busy, FileInv, NumberInv, NumbersAreFresh, Blank
<1>4. LockInv /\ ExitInv
  BY DEF LockInv, Holding, ExitInv, Current, Savers
<1> QED
  BY <1>1, <1>3, <1>4 DEF Inv

(* And after every step.                                                   *)
LEMMA InvStep == Inv /\ [Next]_vars => Inv'
  BY TypeStep, WriterStep, FileStep, NumberStep, LockStep, ExitStep DEF Inv

(* Every variable keeps its type: no number and no key goes beyond the     *)
(* bound, and no save writes what the map cannot hold (os.go:86-104).      *)
THEOREM TypeCorrect == Spec => []TypeOK
<1>1. Inv => TypeOK
  BY DEF Inv
<1> QED
  BY <1>1, InvInit, InvStep, PTL DEF Spec

(* Db.Add gives no number twice (os.go:33-41), however saves, crashes and  *)
(* starts fall between the numbers and the entries.                        *)
THEOREM NumbersAreFreshHolds == Spec => []NumbersAreFresh
<1>1. Inv => NumbersAreFresh
  BY DEF Inv
<1> QED
  BY <1>1, InvInit, InvStep, PTL DEF Spec

(* A shutdown that does not cut the goroutine's own save off leaves the    *)
(* table in the file (main.go:26-31, utils.go:76).                         *)
THEOREM ExitSavesHolds == Spec => ExitSaves
<1> DEFINE Saves ==
        phase' = "exited" /\ spc["ticker"] \notin {"visit", "write"} =>
            /\ file'.state = "whole" /\ file'.i = i
            /\ \A k \in Keys : file'.val[k] = IF k \in has THEN val[k] ELSE 0
<1>1. Inv /\ Next => Saves \/ UNCHANGED vars
  <2> SUFFICES ASSUME Inv, Next, phase' = "exited", spc["ticker"] \notin {"visit", "write"},
                      vars' # vars
               PROVE  Saves
    OBVIOUS
  <2>1. CASE Exit
    <3>1. closed /\ spc["close"] = "idle" /\ file' \in Interrupted
      BY <2>1 DEF Exit, Stop
    <3>2. file' = file
      BY <3>1 DEF Interrupted, Savers
    <3>3. file = [state |-> "whole", i |-> i,
                  val |-> [k \in Keys |-> IF k \in has THEN val[k] ELSE 0]]
      BY <3>1 DEF Inv, ExitInv
    <3> QED
      BY <3>2, <3>3
  <2>2. CASE ~ Exit
    <3>1. phase = "exited" /\ phase' = phase
      BY <2>2 DEF Next, process, Add, AddKV, Touch, BeginChange, Begin, Request, Store,
         Changed, Change, Receive, TimerFires, Save, LockTable, Truncate, Visit, Write,
         Interrupt, Close, Crash, Stop, Start
    <3>2. \A w \in Writers : ~ Busy(w)
      BY <3>1 DEF Inv, WriterInv, Running
    <3>3. FALSE
      BY <2>2, <3>1, <3>2 DEF Next, Add, AddKV, Touch, BeginChange, Begin, Request, Store,
         Changed, Change, Receive, TimerFires, AtSelect, Save, LockTable, Truncate, Visit,
         Write, Step, Interrupt, Close, Crash, Running, Start
    <3> QED
      BY <3>3
  <2> QED
    BY <2>1, <2>2
<1>2. Inv /\ [Next]_vars => [Saves]_vars
  BY <1>1
<1>3. Spec => [][Saves]_vars
  BY <1>2, InvInit, InvStep, PTL DEF Spec
<1> QED
  BY <1>3 DEF ExitSaves

-----------------------------------------------------------------------------
(* Who waits for whom (NobodyWaits).                                       *)

(* Two saves never hold the lock of the table together.                    *)
LockIsOne == lock = {} \/ \E s \in Savers : lock = {s}

(* A step takes the lock for one save, gives it up, or leaves it.          *)
LEMMA LockIsOneStep == LockIsOne /\ [Next]_vars => LockIsOne'
<1>1. [Next]_vars => lock' = lock \/ lock' = {} \/ \E s \in Savers : lock' = {s}
  BY DEF Next, vars, savers, Add, AddKV, Touch, BeginChange, Begin, Request, Store,
     Changed, Change, Receive, TimerFires, Save, LockTable, Truncate, Visit, Write,
     Interrupt, Close, Exit, Crash, Stop, Start
<1> QED
  BY <1>1 DEF LockIsOne

(* A save that waits for the lock of the table waits for one other save,   *)
(* which is at work on the file and so waits for nobody.                   *)
WaitsForSave ==
    \A s \in Savers :
        spc[s] = "lock" /\ lock # {} =>
            \E t \in Savers \ {s} : lock = {t} /\ spc[t] \in Holding

(* Nobody waits for a save that waits (os.go:79, run.go:41-43): a shutdown *)
(* and the goroutine of run.Ticker do not hold each other up.              *)
THEOREM WaitsForSaveHolds == Spec => []WaitsForSave
<1>1. Init => LockIsOne
  BY DEF Init, LockIsOne
<1>2. Inv /\ LockIsOne => WaitsForSave
  BY DEF Inv, LockInv, LockIsOne, WaitsForSave, Holding
<1> QED
  BY <1>1, <1>2, LockIsOneStep, InvInit, InvStep, PTL DEF Spec
=============================================================================
