# nonamevote in TLA+

nonamevote is a web application for polls without names: accounts that log in
with a TOTP code create polls, vote in them and comment on them. It is one Go
process with a gin router; each request is a goroutine. The data lives in one of
four databases, chosen by `db.mode` of `config.ini`: `os` (maps in memory, saved
to JSON files), `redis`, `mysql-os-redis` and `mongodb-os-redis`. One interface
(`internal/data/data.go`, `Db`) hides them, and what a call of it promises is
different in each. Most of what can go wrong here follows from that.

The modules below model the program's handlers at the grain of their database
calls, over all four databases, and the start of the process; TLC checks them on
small instances, and TLAPS proves the safety of the handlers that write (votes,
polls, logins, counters, saves), of the start and of the lists of polls for every
instance.

## 1. Inventory

| component | state | operations | interacts with | hard part | what makes it correct |
|---|---|---|---|---|---|
| vote (`vote.go`, `POST /vote/:num`) | `User.VotedPath`, `Info.Option[].GotNum`, `Info.Lock` | find account, find poll, lock, record (loop 1), count (loop 2) | accounts, polls, database | interleaved requests, two writes that are not one, redis replies lost, accounts deleted meanwhile | one ballot per account and poll, exact tally, record before count, an answer |
| polls and comments (`ParserCreateVote`, `?comment=`) | `Db` of polls, number counter, `NameDb` index, `Info.Comment` | add, index, append | search, vote | look-then-add on a name, compare-and-swap loops, failing INCR | polls and comments are never overwritten, the index points to polls of the name |
| accounts and sessions (`account`, `utils.go`, `route.go`) | `User` row, ring of three sessions, `SessionIndex`, `SessionDb` | register, login, delete, check | every page | overlapping logins, registration of a deleted name, wrap of the index | a login leads to an accepted session, the ring fills before it drops one |
| rate limits (`AddIpCount`, `AddLoginNum`) | a counter per address or account, a timer | count, expire | middleware, login | timer against increment, redis calls failing half way, restart | no window admits one too many, no window is endless |
| os persistence (`os.go`, `run.go`, `main.go`) | `sync.Map`, number, file, goroutine, channel | Add, AddKV, Delete, Changed, Save, Load, Close | every component under os | a channel nobody reads, saves during changes, crash in a save | numbers never repeat, additions reach the file, no request hangs, a shutdown saves |
| database servers (`redis.go`, `mysql.go`, `mongodb.go`) | rows and hashes | Find, Updata, Inc... | all | which calls compare, which retry, which panic | modelled inside their callers |
| startup (`init` of every package, `https.go`, `checkKey`, `main`) | `cert.pem`, `key.pem`, `./check`, `NoCasUpdate`, the tables and their files, `now` of the session cleanup | initialise in Go's order, create what is absent, connect to the servers, check the master key, listen | configuration, every table | a start killed between create and write, a file half written, a server that does not answer, a configuration that changes under way | a start fails for a reason, accounts keep one master key, the tables are where `db.mode` says |
| configuration (`config.go`) | `config.ini`, viper, one atomic per value | read, watch, reload | all | the watcher is running before `v` is assigned, two goroutines in `loadConfig`, one atomic after the other | an edit comes into force |
| pages and feed (`GET /vote/:num`, `/allvote`, `/rss.xml`) | none | `Find` one poll, `Data` over all | polls | shared polls read without their lock, SCAN that repeats and restarts, fields in any order, failing calls | lists are complete, a poll is shown as it was stored, a refusal has a cause |
| safesession, key (other repositories) | - | NewSession, CheckLogined, encrypt | sessions | - | only their calls back into `session.go` |

Hazards, each with its line and the properties aimed at it, are listed in
`PROJECT.json`.

## 2. Modules

| module | models | abstract or detailed |
|---|---|---|
| `Poll` | what a poll promises: spend a vote once, cast at most one ballot for it, tally = ballots | abstract |
| `Voting` | `POST /vote/:num` over the four databases | detailed, implements `Poll` over redis and mysql |
| `Polls` | `POST /createvote` and comments | detailed |
| `Sessions` | register, login, delete account, check of a session | detailed |
| `RateLimit` | one key of the two counters | detailed |
| `Persistence` | one table of `os`, its file and its goroutine, the life of the process | detailed |
| `Pages` | the pages that show polls, while polls are written | detailed |
| `Config` | `config.ini`, viper, `loadConfig` | part of `Startup` |
| `Startup` | the start of the process, composed with `Config`; session cleanup | detailed |
| `VotingProgress` | the lock of a vote and the bound on its calls | proofs |
| `VotingProofs`, `PollsProofs`, `SessionsProofs`, `RateLimitProofs`, `PersistenceProofs`, `StartupProofs`, `PagesProofs` | theorems about the module of that name | proofs |
| `MCVoting`, `MCPolls`, `MCSessions`, `MCPages`, `MCStartup` | small sets and symmetries for TLC | - |

### Voting

A request (`Requests`) carries a form (whose account, which poll, which option;
the option may be below zero or beyond the last, which is what `strconv.Atoi`
lets through). `pc[r]` is the next database call of the handler. `mode` picks
the database, and with it the meaning of a call:

* `Find` is a shared object under `os` (so `lock` counts, and `Updata` is
  replaced by `ReadVotedPath`/`WriteVotedPath`, the unlocked append of
  `vote.go:315`) and a copy elsewhere (`seen`, `copy`).
* `Updata` compares over redis and mysql (`UpdataHits`), and pushes over mongodb.
* `IncOption` is atomic under the lock, HINCRBY and `$inc`, and a swap of the
  whole column over mysql (`Base`, `IncOptionHits`).

`votedPath` is kept per *registration* of a name (`gen`), because a deleted name
may be registered again while a request still holds the old account. Over redis a
login that is still under way when the account is deleted may bring the key back with
an HINCRBY (`IncFieldRevives`, `redis.go:370`), with nothing in it but a
`SessionIndex`: a `husk`. `Find` then returns a user that is not nil, without a name
and without paths (`nameless`); a request that holds one passes both looks for the
poll, its `Updata` writes to the key `""` and never hits, and the loop of
`vote.go:313` goes on for as long as `Find` returns the husk. That is the one
exception `Answered` states.

Faults are actions of their own, at most `MaxFaults` of them: a redis conflict under
WATCH, a reply lost after the write, a call that fails for good and panics. When redis
loses the reply of the HSET that stores a poll (`redis.go:56`), the poll is there and
the same HSET is made again (`storing`, `StoreAgain`), with every `Option_num` at zero:
`wiped` is history, the votes that went so. `Crash` stops the process and leaves the
server's data. `counted` is a history variable: how often the vote of a request went into
the tally.

The append under `os` is a read of the slice and a store of the longer one.
What a torn slice header would do to a concurrent reader is not modelled.

### Polls

`Add` takes the number, `Store` is the returned `add()`, `FindName`/`AddKV`/the
append loop keep the index `NameAndPath`. When the reply of `Store` is lost mysql and
mongodb panic, and redis stores the poll again (`pc` is "again"), although it can be
found and commented on since the first time: the repeat leaves an empty list of
comments, and `repeated` (history) remembers the path. A poll whose INCR failed is
stored as `/vote/0`, over the one that is there; mysql and mongodb turn a second poll of
one number away (`TurnedAway`). `FindPoll` and the same loop are the comment. Both loops are the actions `Updata` and `FindAgain`; the steps of all
requests interleave. The text checks of the form come before the first call and
change nothing, so a request starts with `Add`.

### Sessions

One account name. `NewSession` puts the session into the table, `SetSlot` (os) or
`UpdataSession` writes the ring, `ReadIndex`/`WriteIndex` (os, unlocked
`SessionIndex++`) or `IncField` moves the index. A request keeps the registration
it found (`acct`), the ring it found (`old`, what mysql and redis compare with)
and the index it found (`at`). `husk` is redis' hash of a deleted account that an
HINCRBY has brought back with nothing in it but a `SessionIndex` (as in `Voting`). `alone` is
history: no other request has overlapped this one. `Check` and `CheckDeletes` are
the two calls of `Valid`.

### RateLimit

An attempt loads the entry, stores one if there is none, or increments the one it
has loaded, in separate steps; the attempt that stored it arms the timer. A
*window* is an entry of the map, from the store to the deletion. `counter`
chooses between the address counter (never saved), the login counter of `os`
(saved and loaded) and redis' INCR and EXPIRE with their failures.

### Persistence

One table (`table` says which, and with it which operations the program makes on
it, `Ops`), requests that add, change and delete, the goroutine of `run.Ticker`
with its `send` flag and its timer of a minute or a year, and `Close`. `Save` is
five steps: lock, truncate, visit each key, encode, write; a process that stops in
between leaves an empty or a torn file (`Interrupted`). `val[k]` counts the
writes of an entry, so that the file and the map can be compared. `Touch` is a
change that calls no `Changed`: a vote's `VotedPath`, a login's `Session`, a new
path of a known name.

### Pages

A reader serves one request after another: `GET /vote/:num` (`page` is "vote") or
`/allvote` and `/rss.xml` ("list"), which walk over `Db.Data`. The database is a
log of writes, `Row(p, k)` is poll `p` after `k` of them; a reader is served the
row of a moment, and the properties ask which. The walk is Go's `Range`, a SELECT,
a cursor or SCAN: a SCAN call returns any keys that are stored, some twice and
perhaps none, with the key of the number counter among them, and when a call fails
`Data` starts again from cursor 0. `DecodeOptions` rebuilds the options from the
fields of a redis hash in every order in which a Go map may give them
(`redis.go`, `grow`); `toD` and `toV` are mongodb's left-out zero fields. Under
`os` the options are read one after the other, and a list may read a comment slice
that is half stored (`Torn`), since `rss.go:20` and `/allvote` take no lock.

### Config and Startup

`Config` is one value of `config.ini` after the other on its way to its atomic
(`LoadSteps`), for the goroutine that started and for the watcher's. `Startup`
extends it with the initialisers in the order in which Go runs them, and with what can
stop each: a table file that is half written, a mysql or mongodb that does not answer
(`TableFails`), a redis that fails in SETNX or GET (`LoadOrStoreStr`) or in the cleanup
of sessions (`CleanAtStart`). A process killed in a save leaves a table's file empty,
which the next start takes for an empty table, or half written (`torn`, for the tables in
`Tearable`), until the operator removes it. `reads` is what `GetDbMode` has
answered inside one `NewDb`, which asks up to three times.
Files keep what a killed start left: `None`, `Empty` or the number of the call of
`genSSL` that wrote them. `cut`, `began`, `modes`, `mixed` and `sealed` are history:
what a start was killed over and no other has made since, which edit it began with, which
modes it saw, and with which master keys the accounts of a backend were served.

## 3. Runs

| run | instance | shows |
|---|---|---|
| `voting` | 2 requests of one account, registered at most twice, in one poll of 2 options, options -1..2, every database, one fault of every kind, crash, deletion, husk | `OneBallot`, `CountedIsRecorded`, `TallyExact`, `SpentIsCounted`, and the inductive invariant `VoteInv` of the proofs; over redis and mysql `Voting` implements `Poll`; over every database an accepted vote is answered, but for the husk |
| `voting_second_vote_os` | 2 requests, `os` | fails: two votes of one account are counted |
| `os_table` | 2 requests, 2 keys, each of three tables, all operations, one restart | fresh numbers, additions saved, nobody waits for ever, a shutdown saves |
| `os_change_lost` | accounts only, 1 key | fails: a change made in memory is never saved |
| `rate_limit` | 4 attempts, limit 2, one restart, one fault, three counters | no window lets one too many through, timers delete their own entry, windows end |
| `rate_limit_restart` | 2 attempts, limit 2, login counter of `os` | fails: a counter restored without its timer |
| `polls` | 2 creators, 2 titles, 2 comments on the first poll, every database, one fault, crash | polls kept, index sound, one of two namesakes recorded, appends once |
| `sessions` | 3 logins or registrations, a name registered at most twice, every database, one fault | ring and table agree, somebody is logged in, lone logins succeed, ring fills first |
| `sessions_mysql` | 2 logins, mysql | fails: a login that never ends |
| `pages` | 1 reader with any number of requests, 2 polls of 2 options, 3 writes, 3 SCANs, 2 faults with `Tries = 2`, every database | complete lists, rows as stored, refusals with a cause, every page ends |
| `startup` | every mode, 1 edit, 2 master keys, 2 certificates, any number of starts, the file of the sessions may be torn, any server may fail, clock up to 2 with `MaxAge = 1` | failed starts have a cause, one master key, the configuration in force, the tables of the program's data where the mode says, sessions deleted when too old |
| `startup_redis_ip` | redis mode, no edit | fails: the counters of requests are in memory and not in redis |

**Bounds.** Two requests are enough for every race of a vote: what a request can
be surprised by is one write between its read and its own, and a third request
only repeats the second. One poll is enough for them: a vote of the same account in
another poll only makes Updata miss, as a conflict does, or is lost to the unlocked append
of `os`, which the properties exempt; the theorems hold for any number of polls, names and
options. Two registrations are
needed for a name that is deleted and comes back, one fault because each
fault is a single lost call (two lost calls are one after the other). Four
attempts exceed a limit of two in one window and start a second one; three logins
let two overlap and a third come after them. `IndexSize = 4` stands for 256: both
leave 1 when divided by 3, so that the wrap skips a slot in the same way, and the
initial state at the last index makes the wrap happen. `MaxKey = 2`,
`MaxStarts = 1`: a key from before a restart and one from after it. `Persistence`
does not add a deleted key again before a restart, which keeps `val` finite.
Two polls and two options are the least for which a walk can miss one and a
decoding can mix two; three writes put a new poll, a vote and a comment around one
read. Readers meet only at a poll's lock and where a failing cursor stops the process.
The run has one of them; two would make more states than a run of minutes holds, and
were looked at under `os` alone (`Modes = {"os"}`, `MaxWrites = 2`, 92 thousand states),
where `PageEnds` needs the strong fairness of `LockPoll`. The theorems hold for any
number of them. `Tries = 2` stands for the nine or ten failing calls after which the loops of
`redis.go` panic: with two faults a loop can be given up, and with one it recovers.
One edit of `config.ini` is enough for the watcher and the start to meet; a second
would only meet what the first left. Two certificates let a start make a second
pair over a key that the first one left. One table may be torn in the run: what the
others leave behind stops a start in the same step; the theorems have them all.
Symmetry (of master keys in `startup`) is used where only safety is checked. The longest
runs, `voting` and `startup`, take three minutes with two workers.
Deadlock is not checked:
requests are finite in number, and a behaviour may end when all are answered.

**Fairness.** A goroutine that can take a step takes it (weak fairness of each
request's own steps): the Go scheduler is preemptive and fair, and a mutex is
handed to a waiter that starves. Where a channel or a lock is fought for over and
over (`Receive`, `LockTable`, `LockPoll`) the fairness is strong, for the same reason and
because a `select` with two ready cases picks one at random. In `Pages` a reader
serves and a writer that holds a poll's lock lets it go (`WrittenAndUnlock`). A timer of a minute
or of a window fires; nothing is assumed of a timer of a year. Nobody has to send
a request, interrupt, crash, restart or fail. Compare-and-swap loops get no
fairness of their own: they end because a failed swap means that another request
succeeded.

**The five violations** are statements of the program that it does not keep;
`PROJECT.json`, "findings", quotes them:

1. two simultaneous votes of one account are both counted over `os`
   (`vote.go:289` looks, `vote.go:305` locks, and `Updata` does nothing);
   the push of mongodb lets the same happen;
2. changes of accounts and names are not saved after the first minute over `os`;
3. a login counter loaded from its file is never deleted;
4. mysql's `UpdataSession` repeats a comparison that cannot succeed any more;
5. in redis mode the counters of requests (`Ip`) are in memory, where `data.go:78` says
   that all tables use redis and `config.ini:16` that the data is kept there
   (`data.go:80` puts them in memory whatever the mode is).

**What the passing properties exempt.** Where the code is weaker than one would
wish, the property says so in its condition instead of leaving the step out of the
model: `OneBallot` and `SpentIsCounted` speak of redis and mysql,
`CountedIsRecorded` of all but `os`; redis may refuse a vote whose reply it lost, and
may repeat an HINCRBY, which the refinement takes off the tally as `Repeated`, and the
HSET of a poll, whose lost votes `TallyExact` and the refinement put back as `wiped`;
`Answered` exempts a request that keeps finding a husk. `PollsAreKept`, `SearchFinds` and
what `AppendedOnce` says of comments are about polls that have a number, not about
`/vote/0`, and the last not about polls that redis has stored again: the only thing that takes a comment away is a repeated HSET, and
`PollsAreKept` says that it happens while the creator is still in `Add` and not later.
`PanicHasCause` takes the disk, the port and the deployed files to be in order (section
5), and `TablesFitMode` leaves `Ip` to `IpFitsMode`;
`ExitSaves` exempts a shutdown in the middle of the goroutine's own save;
`WindowEnds` exempts a restart and a failed redis call; `LoneLoginEnds` exempts
mysql's loop once another login or a deletion has intervened; `PageIsComplete`
exempts a SELECT whose rows stop half way, which nobody notices (`mysql.go:98` asks
no `Rows.Err`); `ConfigInForce` exempts a process whose watcher and start were in
`loadConfig` at once, and `OneMasterKey` and `TablesFitMode` one whose `db.mode`
changed while it started.

Two more disagreements met while modelling have no run of their own, since no text
states them as a property: over `os` the goroutine that deletes old sessions measures
their age against the time the program started (`session.go:126`, `139`), so that it
deletes no session of this run of the program, although `session.go:136` announces it;
and `rss.go:20` and `/allvote` read shared polls without their lock.

## 4. Proofs

Every theorem holds for all values of the constants under the named assumptions of
the module it is about, and rests on an inductive invariant that TLC or its run had
confirmed on the small instance first. Each proof has the same shape: one lemma per
part of the invariant (`...Step`: the part is kept by `[Next]_vars`), lemmas before it
that say what a step may do to the variables that part reads, and a theorem that puts
`Init`, the step and the property together.

**Voting** (`VotingProofs`): `TypeCorrect`, `VoteInvHolds`, `OneBallotHolds`,
`CountedIsRecordedHolds`, `TallyExactHolds`, `SpentIsCountedHolds` and
`ImplementsPoll`: `Spec => PollSpec`. `OneBallot` is not inductive: it says nothing of
a request that has recorded its vote and not yet counted it. `VoteInv` strengthens it
with what holds between the two loops of the handler:

* `SeenLacks`: the copy a request is about to write lacks the poll, so that a
  successful compare-and-swap proves that the row lacked it too;
* `LandedHolds`: a request that has recorded or counted its vote finds the poll in
  its account's `VotedPath` (it only grows);
* `OneLanding`: at most one request of an account has landed in a poll;
* `CountsLast`: only a request in the second loop counts, and comes back to count
  again only over redis after a lost reply; it also bounds `counted` by the faults
  used, which `TallyExact` needs for its set of increments;
* `PcFitsMode`: the steps of `os` and of the copies do not mix.

`VoteInvByRequest` rewrites the invariant as `VoteInvAt` of every request,
`OthersKeep` shows that a step of one request keeps the others' parts when it keeps
its own, and `QuietStep`, `LandingStep` and `CountingStep` cover the three kinds of
step. `TallyExact` is a cardinality argument on top of it (one more increment is one
more element of `Increments`; `StoringInv` says who may reset one, redis after a lost reply),
and `SpentIsCounted` follows a vote from its record to
its end: some request `AnswersFor` every spent vote as long as the database is
`Accountable`. The refinement maps a landing to `Spend`, the first count of a request
to `Cast` and everything else to a stutter. Over `os` and mongodb `PollSpec` claims
nothing; an HINCRBY that redis makes twice is taken off the tally (`Repeated`), since
`Poll` promises ballots and not increments, and the votes that a repeated HSET resets are
put back (`wiped`): what the code does to them is in `TallyExact`, not in the promise.

**Polls** (`PollsProofs`): `PollsAreKeptHolds`, `SearchFindsHolds`,
`OneIsRecordedHolds`, `AppendedOnceHolds`, `TypeCorrect`. The invariant is about the polls that have
a number, whatever requests fail: such a path belongs to one creator (`OwnPath`) and is
stored over by nobody else (`OwnPoll`), and an entry of the index was made by exactly one
creator, whose path stays first in it (`IndexInv`). `RepeatInv` says that only redis
stores a poll again, after a lost reply. `NumbersInv` bounds the numbers given, so that no
path is beyond `Paths`. `AppendedOnce` needs to know of every
request on its way what its list has of it: nothing until it has appended and one entry
from then on, while no call has failed (`ListedOnce`, `CommentedOnce`), and at least one
whatever fails (`ListedInv`, `CommentedInv`; the latter for comments on polls that have a
number and that no repeated HSET has emptied). `TimesAppend` says
what an appended entry does to the count of every other.

**Sessions** (`SessionsProofs`): `RingIsStoredHolds`, `SomebodyLoggedInHolds`,
`LoneLoginAcceptedHolds`, `RingFillsFirstHolds`, `TypeCorrect`. `GenInv` orders registrations, `TableInv` says that the session of a
login under way is in the table and that a check deletes only a session that is out
of the ring for good, and `LoginInv` that a login which has found the account either
still sees its ring as it is or somebody's session has gone into it since. That last
disjunct makes `SomebodyLoggedIn` inductive: with two overlapping logins each may
lose its slot to the other, but not both. The two action properties come from
invariants of their own: `LoneInv` says that a login nobody has overlapped sees the
ring and the index as they are, so that its write succeeds, and `FillInv` that the ring
fills slot by slot as the index counts up (`FilledUp`) until it is full. Both hold for
every `IndexSize` of at least 3, the number of slots: the index then wraps only when the
ring is full, and the slot that a wrap skips is not missed.

**Rate limits** (`RateLimitProofs`): `AttemptsAreCountedHolds`, `TimerOwnsEntryHolds`,
`TypeCorrect`. `EntryInv` bounds the windows by the attempts that may have made one,
`Distinct` and `Told` say that the numbers told inside a window differ and do not
exceed its count, `Exact` that an undisturbed window has told all of them, and
`TimerInv` that the only timer there can be is that of the key's present entry.

**Persistence** (`PersistenceProofs`): `NumbersAreFreshHolds`, `ExitSavesHolds`,
`TypeCorrect`. `WriterInv` and `NumberInv` (proved as `PollsInv` and `PollsFile`) say
that no stored poll, saved poll or request under way has a number beyond the one that
is stored or saved with it; `LockInv` that two savers are never in the file at once;
`ExitInv` that from `Close` on memory does not change, and a save that began since
writes exactly what is there.

**Config and Startup** (`StartupProofs`): `ConfigInForceHolds`, `TablesFitModeHolds`,
`OneMasterKeyHolds`, `PanicHasCauseHolds`, `OldSessionsGoHolds`, `TypeCorrect`.
`WatchInv` says who is in `loadConfig` at each step of the start, and that a change the
watcher has not seen, or is loading, means an edit since the start; `LoadInv` how far a
loader that was never overtaken has moved what viper read. `ModeKnown` says that whoever
asks for `db.mode` after `config.init` is told one. On these rest `TableInv` (the six
tables in their order, each from a mode that was read) and `UneditedInv` (while
`config.ini` stays as it was nobody is told another mode). `CertInv` and `MasterInv` are
about what survives a kill: the pair fits, and `./check` or its copy in the database
holds the master key that was left first, unless a start was killed between making the
file and writing it (`cut`).

**Pages** (`PagesProofs`): `PageIsCompleteHolds`, `RefusedWithCauseHolds`,
`RowsWereStoredHolds`, `TypeCorrect`. `WalkInv` says of a list under way that what it
owes is what was stored when it asked, that every key it has met is stored and is on the
page or still to be fetched, and that a SCAN that is over has met all that it owes;
`VoteInv` that a page of one poll looks for that poll only. `KeepStep` carries a reader
over the steps of the others (the log only grows), and `OwnStep` over its own. None of
this looks into a row; `RowInv` does, on top of it. Over a server a row is what was
stored because `DecodedAsStored` says so of every order of the hash's fields: after n of
them exactly the options met so far are decoded and zero stands for the rest (`Partly`),
`grow` keeps that, and an order of all fields meets each (an injection into a finite set
of the same size is onto). Under `os` a row is read off one option after the other:
`CurInv` knows the moment of each, and under the lock they are all now, because
`LockedStays` lets nobody write to a poll that is locked.

**Induction.** What DecodeOptions has read after n fields is an induction over data, and
the induction theorems of the library cannot be instantiated with the provers at hand.
`LeastNumber` (from the well-foundedness of `<` on the numbers) and `AllNumbers` stand in
for them: a set of numbers that has 0 and every successor has them all, and the set is
an ordinary bound variable.

**Locks and loops.** What liveness rests on is safety, and that part is proved.

* *Nobody waits for a waiter.* `VotingProgress` shows (`LockInv`) that a poll's lock is
  held under `os` only, by one request, which is in one of the two loops; so a vote at
  the lock waits for a request that waits for nobody (`WaitsForWorker`). `LockHeld` of
  `PagesProofs` says the same of `GET /vote/:num`, and that a write and a reader's lock
  exclude each other (`WaitsForHolder`); `WaitsForSave` of `PersistenceProofs` says it of
  the lock of a table. `LockInv` and `LockHeld` are inductive only together with the
  invariants above: that a holder is at work on the poll whose lock it has needs to know
  which poll it looks for.
* *No loop runs for ever.* `Rank` of a request is 3 times its `Budget` plus its `Stage`.
  `Stage` bounds the calls left if nothing comes between, and knows whether the next
  compare-and-swap would hit; `Budget` counts what can still come between: requests that
  have not ended or not yet recorded, creators that may still store a poll over this
  one, faults, registrations of the name. `RankDescends` (`VotingProgress` and
  `PollsProofs`): a step that moves a request lowers its rank, and nobody's step raises
  it. The exception is the loop over a husk (`OverHusk`), which no measure can bound: a
  step that leaves a vote there need not lower its rank. It occurs over redis only, while
  no account of the name exists (`HuskInv`). The weight is 3 because one interference costs
  a request at most two calls more, a write that misses and a fresh read. For a vote `RankBound` gives the bound in figures; it has
  `MaxFaults` and `MaxGen` in it, since endless conflicts or registrations would make the
  loop endless, and does not count the turns over a husk.

**What stays with TLC**: all liveness (`Answered`, `RequestsEnd`, `AddedIsSaved`,
`NobodyWaits`, `WindowEnds`, `LoneLoginEnds`, `PageEnds`), since it needs fairness and
ENABLED; of `Answered` and `RequestsEnd` what is not proved is the last inference: that
a request with calls left can take one, that fairness lets it, and that so the measure
falls to an end. Every invariant and every action property of
the passing runs is a theorem.

No module declares a recursive operator; `DecodeOptions` is a recursive function.

## 5. Not modelled

* Text: forms, pages, QR codes, cookies, encryption, the TOTP code, static pages.
* Sessions in redis and mysql expire nowhere in the model: `redis.go:120` queues
  EXPIRE before the HSET that makes the key, so that it does nothing, and mysql has
  no expiry.
* The session that `GET /vote/:num` stores again, and sessions in redis that the
  cleanup of a start meets when `db.mode` has just changed.
* `Clear` (used by tests only), connection and map pools, mysql's schema.
* What two tables of `os` say together after a crash: each is saved on its own minute.
* How late after the end of a poll a vote may still be counted, and what becomes of a
  name whose hash is a `husk` (it can be neither registered nor logged in to) or of the
  vote that keeps finding one: `Voting` reaches all of these and `Sessions` the husk, and
  no text of the program says what should hold there.
* Failures of the machine and of what is deployed with the program, each of which stops a
  start with a panic: `config.ini` that cannot be read (`config.go:35`), an address
  database that cannot be opened (`session.go:76`), templates and images
  (`nonamevote/utils.go:26`), a file that cannot be made or written (`utils.go:91`,
  `https.go:53`), a port that is taken (`main.go:36`). `PanicHasCause` is about the
  starts in which these are in order.

The CSRF token and the login check of a vote are one guard (`Post`,
`PostTurnedAway`). What a torn slice header does to a concurrent reader is modelled
for the comments of a list (`Torn`) and not for `VotedPath`.

## 6. Plan and status

Modelled, checked and listed above: `Voting` with `Poll`, `Polls`, `Sessions`,
`RateLimit`, `Persistence`, `Pages`, `Config` and `Startup`. Proved: every
invariant and action property that a passing run checks, who waits for whom at every
lock, and that the retry loops of votes, polls and comments come to an end. What a next step would take up:

1. two tables of `os` together (accounts and polls): a vote, its two saves and a crash
   between them;
2. an abstract specification of the `Db` interface that `Polls` and `Sessions`
   implement where the backend compares.
