------------------------------- MODULE Pages -------------------------------
(***************************************************************************)
(* The pages that show polls while votes, comments and new polls arrive:   *)
(* GET /vote/:num shows one poll under its lock, /rss.xml and /allvote     *)
(* walk over Db.Data and take no lock (vote.go, rss.go).                   *)
(*                                                                         *)
(* What a walk meets depends on the database:                              *)
(*   os       the shared polls themselves, read field by field;            *)
(*   redis    the keys of SCAN, page by page and from the start again when *)
(*            a call fails, each key then fetched with HGETALL and decoded *)
(*            in the random order of a Go map;                             *)
(*   mysql    the rows of one SELECT;                                      *)
(*   mongodb  the documents of a cursor.                                   *)
(***************************************************************************)
EXTENDS Integers, FiniteSets, Sequences, SequencesExt

CONSTANTS
    Readers,     \* the GETs, one goroutine each
    NumPolls,    \* polls, named by their number
    NumOptions,  \* options of a poll
    Modes,       \* the values of db.mode under study
    Tries,       \* failing redis calls in one loop that panic (10 in Find, 9 in Data)
    NoField,     \* no field is being written
    MaxWrites,   \* bound: polls created, votes and comments together
    MaxCalls,    \* bound: SCAN calls the server needs for one walk
    MaxFaults    \* bound: calls that fail

Backends == {"os", "redis", "mysql-os-redis", "mongodb-os-redis"}
Paths == 1 .. NumPolls
Options == 1 .. NumOptions
Comment == 0
Created == -1
Fields == Options \cup {Comment}

ASSUME NumOptionsAssumption == {NumPolls, NumOptions} \subseteq Nat \ {0}
ASSUME ModesAssumption == Modes \subseteq Backends
ASSUME TriesAssumption == Tries \in Nat \ {0}
ASSUME NoFieldAssumption == NoField \notin Fields
ASSUME BoundsAssumption ==
    {MaxWrites, MaxFaults} \subseteq Nat /\ MaxCalls \in Nat \ {0}

(* The key "i" of Inc (redis.go:403) lives in the database of the polls.   *)
CounterKey == 0

VARIABLES
    mode,     \* db.mode
    log,      \* the writes the database has taken: <<path, field>>, in order
    writing,  \* os: path -> the field a request writes under the lock
    lock,     \* os: path -> the readers that hold Info.Lock
    faults,   \* calls that may still fail
    pc,       \* reader -> its next step, or how it ended
    page,     \* reader -> what it serves: "vote", or "list" for /rss.xml and /allvote
    began,    \* reader -> how long the log was when the request came
    base,     \* reader -> the polls its walk owes, and when it asked
    walk,     \* reader -> keys met since the walk began, keys to fetch, ...
    errs,     \* reader -> calls that failed in Data and in this Find
    cur,      \* reader -> the poll it is reading, as far as it has read
    shown     \* reader -> the polls on its page

vars == <<mode, log, writing, lock, faults, pc, page, began, base, walk, errs,
          cur, shown>>
database == <<mode, log, writing>>
request == <<page, began>>

Now == Len(log)
Stored(p, k) == \E i \in 1 .. k : log[i] = <<p, Created>>
StoredAt(k) == {p \in Paths : Stored(p, k)}
Value(p, f, k) == Cardinality({i \in 1 .. k : log[i] = <<p, f>>})

(* Poll p as it is after k writes. A comment list is known by its length.  *)
Row(p, k) ==
    [option |-> [o \in Options |-> [name |-> o, num |-> Value(p, o, k)]],
     comment |-> Value(p, Comment, k)]

(* A comment list read while it is stored may have the length of the new   *)
(* slice and the array of the old one.                                     *)
Torn == -1

Busy == {"begin", "walk", "find", "lock", "read"}
Ended == {"done", "notfound", "panic", "exited"}

TypeOK ==
    /\ mode \in Modes
    /\ log \in Seq(Paths \X (Fields \cup {Created})) /\ Now <= MaxWrites
    /\ writing \in [Paths -> Fields \cup {NoField}]
    /\ lock \in [Paths -> SUBSET Readers]
    /\ faults \in 0 .. MaxFaults
    /\ pc \in [Readers -> {"idle"} \cup Busy \cup Ended]
    /\ page \in [Readers -> {"vote", "list"}]
    /\ began \in [Readers -> 0 .. MaxWrites]
    /\ base \in [Readers -> [polls : SUBSET Paths, at : 0 .. MaxWrites]]
    /\ walk \in [Readers -> [seen : SUBSET Paths,
                             todo : SUBSET (Paths \cup {CounterKey}),
                             calls : 0 .. MaxCalls, over : BOOLEAN]]
    /\ errs \in [Readers -> [data : 0 .. Tries, find : 0 .. Tries]]
    /\ \A r \in Readers : \A item \in shown[r] :
        /\ item.path \in Paths
        /\ item.row.option \in [Options -> [name : 0 .. NumOptions, num : Nat]]

NoWalk == [seen |-> {}, todo |-> {}, calls |-> 0, over |-> FALSE]
NoError == [data |-> 0, find |-> 0]
NoRow == [option |-> <<>>, comment |-> 0]

Init ==
    /\ mode \in Modes
    /\ log = <<>>
    /\ writing = [p \in Paths |-> NoField]
    /\ lock = [p \in Paths |-> {}]
    /\ faults = MaxFaults
    /\ pc = [r \in Readers |-> "idle"]
    /\ page = [r \in Readers |-> "vote"]
    /\ began = [r \in Readers |-> 0]
    /\ base = [r \in Readers |-> [polls |-> {}, at |-> 0]]
    /\ walk = [r \in Readers |-> NoWalk]
    /\ errs = [r \in Readers |-> NoError]
    /\ cur = [r \in Readers |-> NoRow]
    /\ shown = [r \in Readers |-> {}]

Goto(r, step) == pc' = [pc EXCEPT ![r] = step]

-----------------------------------------------------------------------------
(* Decoding. A redis hash has a field for each option's name and one for   *)
(* its number, and Find meets them in any order.                           *)

HashFields == {"name", "num"} \X Options
FieldOrders ==
    {s \in [1 .. Cardinality(HashFields) -> HashFields] : IsInjective(s)}

Zero == [name |-> 0, num |-> 0]

(* Mutant: the longer slice starts empty, without what was decoded. *)
MutantGrow(s, n) ==
    IF Len(s) >= n THEN s ELSE [j \in 1 .. n |-> Zero]

(* Mutant: one option too many. *)
MutantGrowLong(s, n) ==
    IF Len(s) >= n THEN s
    ELSE [j \in 1 .. n + 1 |-> IF j <= Len(s) THEN s[j] ELSE Zero]

grow(s, n) ==
    IF Len(s) >= n THEN s
    ELSE [j \in 1 .. n |-> IF j <= Len(s) THEN s[j] ELSE Zero]

(* One field of the hash, read into the options decoded so far.            *)
Place(options, field, opts) ==
    LET key == field[1] o == field[2] IN
    [grow(options, o) EXCEPT ![o][key] = opts[o][key]]

(* Stored options, decoded in the given order of the hash's fields.        *)
DecodeOptions(order, opts) ==
    LET decoded[n \in 0 .. Len(order)] ==
            IF n = 0 THEN <<>> ELSE Place(decoded[n - 1], order[n], opts)
    IN decoded[Len(order)]

(* mongodb leaves a field out that is zero, and reads none as zero.        *)
toD(row) == IF row.comment = 0 THEN [option |-> row.option] ELSE row
toV(doc) ==
    [option |-> doc.option,
     comment |-> IF "comment" \in DOMAIN doc THEN doc.comment ELSE 0]

(* Every outcome of a decoding, for the options of every row.              *)
DecodedOptions ==
    [opts \in {[o \in Options |-> [name |-> o, num |-> nums[o]]] :
                   nums \in [Options -> 0 .. MaxWrites]} |->
        {DecodeOptions(order, opts) : order \in FieldOrders}]

(* What a reader may be given of a poll that is stored as row.             *)
Decoded(row) ==
    CASE mode = "redis" -> {[row EXCEPT !.option = opts] :
                               opts \in DecodedOptions[row.option]}
      [] mode = "mongodb-os-redis" -> {toV(toD(row))}
      [] OTHER -> {row}

-----------------------------------------------------------------------------
(* The requests that write.                                                *)

RoomFor(n) ==
    Now + Cardinality({p \in Paths : writing[p] # NoField}) + n <= MaxWrites

(* POST /createvote stores a poll; in the order of the numbers, which is   *)
(* only a way to name them.                                                *)
CreateVote(p) ==
    /\ StoredAt(Now) = 1 .. p - 1
    /\ RoomFor(1)
    /\ log' = Append(log, <<p, Created>>)
    /\ UNCHANGED <<mode, writing, lock, faults, pc, request, base, walk, errs, cur, shown>>

(* A vote or a comment over a server: one call that is applied or not.     *)
Write(p, f) ==
    /\ mode # "os"
    /\ Stored(p, Now)
    /\ RoomFor(1)
    /\ log' = Append(log, <<p, f>>)
    /\ UNCHANGED <<mode, writing, lock, faults, pc, request, base, walk, errs, cur, shown>>

(* Under os it is an assignment under the poll's lock, which readers       *)
(* without the lock may see half done.                                     *)
LockAndWrite(p, f) ==
    /\ mode = "os"
    /\ Stored(p, Now)
    /\ writing[p] = NoField /\ lock[p] = {}
    /\ RoomFor(1)
    /\ writing' = [writing EXCEPT ![p] = f]
    /\ UNCHANGED <<mode, log, lock, faults, pc, request, base, walk, errs, cur, shown>>

WrittenAndUnlock(p) ==
    /\ writing[p] # NoField
    /\ log' = Append(log, <<p, writing[p]>>)
    /\ writing' = [writing EXCEPT ![p] = NoField]
    /\ UNCHANGED <<mode, lock, faults, pc, request, base, walk, errs, cur, shown>>

-----------------------------------------------------------------------------
(* The requests that read.                                                 *)

(* The next request of a reader whose last one has ended.                  *)
NewRequest(r, kind) ==
    /\ pc[r] \notin Busy \cup {"exited"}
    /\ page' = [page EXCEPT ![r] = kind]
    /\ began' = [began EXCEPT ![r] = Now]
    /\ errs' = [errs EXCEPT ![r] = NoError]
    /\ shown' = [shown EXCEPT ![r] = {}]
    /\ UNCHANGED <<database, lock, faults, base, cur>>

(* GET /vote/:num of path p.                                               *)
GetVote(r, p) ==
    /\ NewRequest(r, "vote")
    /\ walk' = [walk EXCEPT ![r] = [NoWalk EXCEPT !.todo = {p}]]
    /\ Goto(r, "find")

(* GET /rss.xml or /allvote.                                               *)
GetAll(r) ==
    /\ NewRequest(r, "list")
    /\ walk' = [walk EXCEPT ![r] = NoWalk]
    /\ Goto(r, "begin")

(* Data asks: Range, the SELECT, the cursor, or SCAN from cursor 0.        *)
Begin(r) ==
    /\ pc[r] = "begin"
    /\ base' = [base EXCEPT ![r] = [polls |-> StoredAt(Now), at |-> Now]]
    /\ walk' = [walk EXCEPT ![r] = NoWalk]
    /\ Goto(r, "walk")
    /\ UNCHANGED <<database, lock, faults, request, errs, cur, shown>>

(* Mutant: the counter is taken for a poll. *)
MutantListed(keys) == keys

(* Data skips the key that is no poll.                                     *)
Listed(keys) == keys \ {CounterKey}

(* Mutant: an empty page of keys is taken for the last one. *)
MutantScanOver(keys, last) == last \/ keys = {}

(* The loop of Data goes on until the cursor is 0.                         *)
ScanOver(keys, last) == last

(* One SCAN. The server returns what it likes, some keys more than once    *)
(* and perhaps none, and when it returns cursor 0 it has returned every    *)
(* key that was there all the time.                                        *)
Scan(r) ==
    /\ pc[r] = "walk" /\ mode = "redis"
    /\ walk[r].todo = {} /\ ~walk[r].over
    /\ \E keys \in SUBSET (StoredAt(Now) \cup {CounterKey}), last \in BOOLEAN :
        /\ last => base[r].polls \subseteq walk[r].seen \cup keys
        /\ ~last => walk[r].calls + 1 < MaxCalls
        /\ walk' = [walk EXCEPT ![r] =
                       [seen |-> @.seen \cup Listed(keys), todo |-> Listed(keys),
                        calls |-> @.calls + 1, over |-> ScanOver(keys, last)]]
    /\ UNCHANGED <<database, lock, faults, pc, request, base, errs, cur, shown>>

(* The next poll of the walk: a key SCAN returned, or the next one that    *)
(* Range, the rows or the cursor come to.                                  *)
NextPoll(r) ==
    /\ pc[r] = "walk"
    /\ \E p \in IF mode = "redis" THEN walk[r].todo
               ELSE StoredAt(IF mode = "mysql-os-redis" THEN base[r].at ELSE Now)
                        \ walk[r].seen :
        walk' = [walk EXCEPT ![r].todo = IF mode = "redis" THEN @ ELSE {p},
                             ![r].seen = @ \cup {p}]
    /\ Goto(r, "find")
    /\ UNCHANGED <<database, lock, faults, request, base, errs, cur, shown>>

WalkEnds(r) ==
    /\ pc[r] = "walk"
    /\ IF mode = "redis" THEN walk[r].over /\ walk[r].todo = {}
       ELSE base[r].polls \subseteq walk[r].seen
    /\ Goto(r, "done")
    /\ UNCHANGED <<database, lock, faults, request, base, walk, errs, cur, shown>>

(* The poll goes onto the page; GET /vote is done with it.                 *)
Show(r, p, row) ==
    /\ shown' = [shown EXCEPT ![r] = @ \cup {[path |-> p, row |-> row]}]
    /\ walk' = [walk EXCEPT ![r].todo = @ \ {p}]
    /\ cur' = [cur EXCEPT ![r] = NoRow]
    /\ Goto(r, IF page[r] = "vote" THEN "done" ELSE "walk")

(* Mutant: GET /vote reads the poll without its lock. *)
MutantTakesLock(r) == FALSE

TakesLock(r) == page[r] = "vote"

(* The moments of which a server may give the poll: for a page of one poll *)
(* and for a key of SCAN now, for a row of the SELECT when it was asked,   *)
(* for a document of the cursor some moment since.                         *)
ReadAt(r) ==
    IF page[r] = "vote" \/ mode = "redis" THEN {Now}
    ELSE IF mode = "mysql-os-redis" THEN {base[r].at}
    ELSE base[r].at .. Now

(* Db.Find, or the row at hand: all at once over a server, field by field  *)
(* under os.                                                               *)
Find(r, p) ==
    /\ pc[r] = "find"
    /\ p \in walk[r].todo
    /\ errs' = [errs EXCEPT ![r].find = 0]
    /\ IF p \notin StoredAt(Now)
       THEN Goto(r, IF p \in Paths /\ page[r] = "vote" THEN "notfound" ELSE "panic")
            /\ UNCHANGED <<walk, cur, shown>>
       ELSE IF mode = "os"
       THEN Goto(r, IF TakesLock(r) THEN "lock" ELSE "read")
            /\ UNCHANGED <<walk, cur, shown>>
       ELSE \E k \in ReadAt(r) :
            /\ Stored(p, k)
            /\ \E row \in Decoded(Row(p, k)) : Show(r, p, row)
    /\ UNCHANGED <<database, lock, faults, request, base>>

LockPoll(r, p) ==
    /\ pc[r] = "lock"
    /\ p \in walk[r].todo
    /\ writing[p] = NoField /\ lock[p] = {}
    /\ lock' = [lock EXCEPT ![p] = {r}]
    /\ Goto(r, "read")
    /\ UNCHANGED <<database, faults, request, base, walk, errs, cur, shown>>

(* Under os the options are read one after the other ...                   *)
ReadOption(r, p) ==
    /\ pc[r] = "read"
    /\ p \in walk[r].todo
    /\ LET o == Len(cur[r].option) + 1 IN
        /\ o \in Options
        /\ cur' = [cur EXCEPT ![r].option = Append(@, Row(p, Now).option[o])]
    /\ UNCHANGED <<database, lock, faults, pc, request, base, walk, errs, shown>>

(* Mutant: the lock is kept. *)
MutantUnlocked(p, r) == lock[p]

Unlocked(p, r) == lock[p] \ {r}

(* ... and the comments last.                                              *)
ReadComments(r, p) ==
    /\ pc[r] = "read"
    /\ p \in walk[r].todo
    /\ Len(cur[r].option) = NumOptions
    /\ \E n \in {Value(p, Comment, Now)} \cup
               (IF writing[p] = Comment THEN {Value(p, Comment, Now) + 1, Torn} ELSE {}) :
        Show(r, p, [cur[r] EXCEPT !.comment = n])
    /\ lock' = [lock EXCEPT ![p] = Unlocked(p, r)]
    /\ UNCHANGED <<database, faults, request, base, errs>>

-----------------------------------------------------------------------------
(* A call to a server fails.                                               *)

(* Mutant: after the last try the poll is taken for one that is not there. *)
MutantGivesUp(r) == "notfound"

(* How a loop over a failing redis call ends.                              *)
GivesUp(r) == "panic"

(* redis tries again: SCAN from the start, HGETALL the same key.           *)
RedisFails(r) ==
    /\ mode = "redis" /\ faults > 0
    /\ faults' = faults - 1
    /\ \/ /\ pc[r] = "walk" /\ walk[r].todo = {} /\ ~walk[r].over
          /\ errs' = [errs EXCEPT ![r].data = @ + 1]
          /\ Goto(r, IF errs[r].data + 1 = Tries THEN "panic" ELSE "begin")
       \/ /\ pc[r] = "find"
          /\ errs' = [errs EXCEPT ![r].find = @ + 1]
          /\ Goto(r, IF errs[r].find + 1 = Tries THEN GivesUp(r) ELSE "find")
    /\ UNCHANGED <<database, lock, request, base, walk, cur, shown>>

(* mysql panics, and so does mongodb ...                                   *)
ServerFails(r) ==
    /\ mode \in {"mysql-os-redis", "mongodb-os-redis"} /\ faults > 0
    /\ faults' = faults - 1
    /\ pc[r] \in {"begin", "find"}
    /\ Goto(r, "panic")
    /\ UNCHANGED <<database, lock, request, base, walk, errs, cur, shown>>

(* ... unless it is between two rows: Next ends the loop then as it does   *)
(* after the last one, and nobody asks Rows.Err.                           *)
RowsStop(r) ==
    /\ mode = "mysql-os-redis" /\ faults > 0
    /\ faults' = faults - 1
    /\ pc[r] = "walk"
    /\ walk' = [walk EXCEPT ![r].over = TRUE]
    /\ Goto(r, "done")
    /\ UNCHANGED <<database, lock, request, base, errs, cur, shown>>

(* The cursor of mongodb stops the whole process when it fails. *)
CursorFails(r) ==
    /\ mode = "mongodb-os-redis" /\ faults > 0
    /\ faults' = faults - 1
    /\ pc[r] = "walk"
    /\ pc' = [q \in Readers |-> IF pc[q] \in Ended THEN pc[q] ELSE "exited"]
    /\ UNCHANGED <<database, lock, request, base, walk, errs, cur, shown>>

-----------------------------------------------------------------------------
Serve(r) ==
    \/ Begin(r) \/ Scan(r) \/ NextPoll(r) \/ WalkEnds(r)
    \/ \E p \in Paths \cup {CounterKey} : Find(r, p)
    \/ \E p \in Paths : LockPoll(r, p) \/ ReadOption(r, p) \/ ReadComments(r, p)

Next ==
    \/ \E p \in Paths :
        CreateVote(p) \/ WrittenAndUnlock(p)
          \/ \E f \in Fields : Write(p, f) \/ LockAndWrite(p, f)
    \/ \E r \in Readers :
        \/ \E p \in Paths : GetVote(r, p)
        \/ GetAll(r) \/ Serve(r) \/ RedisFails(r) \/ ServerFails(r) \/ RowsStop(r) \/ CursorFails(r)

Spec == Init /\ [][Next]_vars

(* A goroutine that can go on does, the one that holds a lock included; a  *)
(* sync.Mutex that others take over and over is handed to one that waits.  *)
FairSpec ==
    Spec /\ (\A r \in Readers :
                WF_vars(Serve(r)) /\ SF_vars(\E p \in Paths : LockPoll(r, p)))
         /\ \A p \in Paths : WF_vars(WrittenAndUnlock(p))

-----------------------------------------------------------------------------
(* Properties.                                                             *)

CutShort(r) == mode = "mysql-os-redis" /\ walk[r].over

(* A list that is served to its end has every poll that was stored when it *)
(* was asked for, whatever SCAN returns and however often it starts again  *)
(* (redis.go:248-276, rss.go:20, vote.go:372). The one exception is mysql, *)
(* whose rows may stop early without a word (mysql.go:98).                 *)
PageIsComplete ==
    \A r \in Readers : pc[r] = "done" /\ page[r] = "list" /\ ~CutShort(r) =>
        \A p \in StoredAt(began[r]) : \E item \in shown[r] : item.path = p

(* A page shows a poll as it was during the request (vote.go:193, rss.go:25, *)
(* redis.go:171): every option with its name, whatever order the hash is   *)
(* decoded in, and its votes at a moment that does not go back from one    *)
(* option to the next. Over a server, and under os with the poll's lock,   *)
(* that is one moment for all options and the comments.                    *)
RowsWereStored ==
    \A r \in Readers : \A item \in shown[r] :
        \/ \E k \in began[r] .. Now : item.row = Row(item.path, k)
        \/ /\ mode = "os" /\ page[r] = "list"
           /\ \E at \in [Options -> began[r] .. Now] :
                /\ \A o \in Options \ {1} : at[o - 1] <= at[o]
                /\ \A o \in Options :
                    item.row.option[o] = Row(item.path, at[o]).option[o]

(* A page is refused for a reason. 404 (vote.go:188) is said of a poll that *)
(* was not there when the request came, never of a database that does not  *)
(* answer; a panic follows a call that failed, over redis in every try of  *)
(* a loop (redis.go:154, 257), and never from the counter among the keys.  *)
RefusedWithCause ==
    \A r \in Readers :
        /\ pc[r] = "notfound" => walk[r].todo \cap StoredAt(began[r]) = {}
        /\ pc[r] = "panic" =>
            /\ faults < MaxFaults
            /\ mode = "redis" => Tries \in {errs[r].data, errs[r].find}

(* Every page is served or given up: neither a writer's lock nor the walk  *)
(* that starts again keeps it for ever.                                    *)
PageEnds == \A r \in Readers : pc[r] \in Busy ~> pc[r] \in Ended
=============================================================================
