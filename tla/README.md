# LQBOT: a TLA+ model of the bot

LQBOT is a QQ bot, written in Go, that connects a chat to a Minecraft server: users keep a bank
account, check in every day, buy things, apply for the whitelist and ask for information, all by
writing commands in groups or to the bot. This directory holds TLA+ modules for its parts, the TLC
configurations that check them, and proofs of their most important invariants. Paths below are
relative to the repository.

1. The system
2. The modules and the code they model
3. What is checked
4. What is proved
5. Where the code and its comments disagree
6. What is not modelled
7. Plan

## 1. The system

### Components

| Component | State | Operations | What makes it correct |
|---|---|---|---|
| QQ adapters (`internal/adapter`) | the event channel, a session, a once-guard | receive an event and put it on the channel without blocking; start, stop; reconnect with backoff | events stay in order, only what does not fit is lost, nothing is sent on or closes a closed channel |
| Event loop and message path (`internal/bot`) | the event being processed, a context | take an event, record it, run the middlewares and a command in a goroutine, wait at most 30 s | every event is taken, a command that hangs does not stop the bot |
| Shutdown and restart (`internal/bot`, `internal/httpsrv`, `cmd/bot`) | what is still open | stop the scheduler, HTTP server, adapter, wait, close the bus, storage, rate limiter | it ends, and closes nothing that is still in use |
| Bank, store, check-in (`plugins/bank`, `plugins/store`, `plugins/checkin`) | `bank_accounts`, `checkin_records` | withdraw, give, deduct; confirm a purchase; check in | nobody gets into debt or loses what is theirs, a day is paid once, a streak is what it says |
| Whitelist (`plugins/whitelist`) | `whitelist_records`, the game's list | apply, remove | one name per user, table and game agree |
| Daily statistics, activity tables (`internal/storage`) | a row per day; first and last sight of users, groups, channels | record incoming, outgoing, new, removed, commands, interactions | counts are what happened |
| Middlewares (`internal/middleware`) | the chain, a token bucket per user, group or channel | add, execute; allow, clean up | no more messages than the rate, blocked sources first |
| Blacklist (`internal/blacklist`) | rows in the key-value table, two caches | check; add and remove users and groups | who is blocked stays out, who is not is let in |
| Key-value storage (`internal/storage/storage.go`) | a table | get, set, delete, close | as used by the blacklist |
| Event bus (`internal/bus`) | listeners per event | subscribe, unsubscribe, publish, close | every listener is called once, in their order |
| Router, permissions (`internal/handler`, `internal/permission`) | commands, aliases; levels | register, unregister, resolve a text to a command; check a role | the command that is meant runs, for those who may |
| Scheduler (`internal/scheduler`) | tasks, a cron | every, interval, tasks, start, stop | stop returns, and then nothing runs |
| TTL cache (`internal/cache`) | entries with deadlines | get, set, delete, clear, clean up | no stale answer, no lost entry |
| Admin panel (`internal/admin`) | password, sessions, clients of the event stream | set a password, log in, log out, serve a page, stream, restart, shut down | sessions end, a password stays, a client sees each log row once, no client blocks the loop |
| HTTP server (`internal/httpsrv`) | a listener | start, stop | no request after its stop |
| Logger and log table (`internal/log`, `internal/storage/log.go`) | level filters, `log_entries` | write, query, clean up | as the event stream needs it |
| QQ API, contexts (`internal/bot`, `internal/contract`) | message sequence numbers | reply, upload | |
| Query plugins (`plugins/fly`, `online`, `onlinetime`, `tps`, `worldinfo`, `menu`, `file`) | none | one request, one reply | |
| Configuration, templates, types | constants | | |

### How they interact

The adapter's session calls back with an event; `emitEvent` puts it on a bounded channel. `eventLoop`
takes one event at a time. For a message, `processMessageEvent` writes the statistics and activity
tables itself, then starts a **goroutine** that runs the middleware chain (blacklist, logging, rate
limiter), resolves the command, checks the permission and calls the plugin's handler, and **waits for
it for at most 30 seconds**. After that the loop goes on and so does the goroutine: nobody tells it to
stop. A text that is no command goes to the bus's listeners, in that goroutine. Guild events and
interactions are handed to listeners in the loop itself. Commands and the end of every event are
published to the admin panel, whose clients each have a goroutine and a channel. Plugins share the
database: three of them read and write `bank_accounts`, each with its own copy of the access code. To
act on the game they send HTTP requests with a time limit.

`Bot.shutdown` runs in the goroutine that asked for it: the main goroutine after a signal, an admin
request, or the goroutine of a restart. Nothing keeps two of them apart.

### What is hard

* **Overlap.** Handlers are serial until one takes longer than 30 seconds; from then on two read and
  write the same rows, and the loop's own writes interleave with a handler's.
* **Read, act, write.** A handler reads a whole row, talks to the game for seconds, and writes the
  whole row back, without a lock or a transaction.
* **Two systems without a transaction.** The game's answer may be lost, late or unreadable, a save may
  fail, the process may die between the two.
* **Errors taken for absence.** A query that fails is treated as "no such row" in several places.
* **The clock.** Dates are local in one place and UTC in another, and read twice in one handler.
* **Shutdown.** It waits for some goroutines and not for others, closes things that may be in use, and
  may run twice.
* **Caches and lazily computed state.** The blacklist's cache, the token buckets, the TTL cache, the
  flag that says a password is set.
* **Locks given up between reading and acting.** Sessions, the TTL cache; and one that is not: the
  scheduler's Stop waits for jobs with its mutex held.
* **Publishing to goroutines that come and go.** A slow client's full channel, a channel closed by a
  client that leaves, two clients under one id.
* **Cursors.** The event stream reads the log from where it was, by ids, while writers stamp rows with
  times in one order and insert them in another.

`PROJECT.json` lists each hazard at its line with the properties that cover it.

## 2. The modules and the code they model

```
MessageLoop                     how a handler is run and abandoned
  ^    ^    ^    ^-- Blacklist ----\
  |    |    |                       Admission   (with RateLimiter)
  |    |    Statistics
  |    Whitelist
  AccountTable <- Bank, Store, Checkin <- Economy
Lifecycle                       implements MessageLoop's loop (LoopRuns)

MessageLoop, Router, EventBus, EventStream, Scheduler, Reconnect  <- Services
Clock <- AdminPanel, TTLCache                                     <- Services
```

`A <- B` reads "B extends A". `MC...` modules give the constants of a run their values; `...Proofs`
modules hold theorems.

**MessageLoop** is `processMessageEvent` seen from a handler: `Take` starts one in a free slot and
makes the loop wait for it, `Finish` ends it, `WaitEnds` is the 30-second timer, `ProcessDies` a crash.
A handler is a record: its place `pc`, its command and the Go variables it holds across steps. It is
the abstract specification of the loop; Lifecycle is shown to implement it.

**AccountTable, Bank, Store, Checkin, Economy** are the three plugins over `bank_accounts`. One action
is one access to the table or the game or one reading of the clock: `WithdrawRead`, `WithdrawPost`,
`WithdrawSave` and so on. The three withdrawals of the bank have the same control flow and differ in
the currency they name, so they are one `op` with an amount per currency. `rows` are the stored
structs, `handlers[s].acc` the copy a handler holds. Go's `int` is a range that wraps (`MaxInt` stands
for 2^63 - 1). `due` is what the books ought to say: what was credited, less what the game handed out.

**Whitelist** is applying for a name and removing one: two queries, a POST, an insert; a POST, a
delete. The game's whitelist is a set, and a request that was given up may take effect later
(`inflight`, `LateRequest`).

**Lifecycle** is the running process: channel, loop, the goroutines of handlers, the log cleanup, and
`Bot.shutdown` step by step for each caller, with its two time-limited waits. A panic ends the process,
as it does in Go when no one recovers.

**Statistics** is what the loop and the handlers write for an event: the counters of a day's row, each
change a transaction (`Begin` reads, `End` saves the whole row or fails), and the first-seen times. A
handler counts its command and its first reply. A transaction whose row has changed in the meantime may
fail, as SQLite does, or overwrite the change, as MySQL does. Time has units; local dates and UTC dates
change at different units. The loop records an event within `MaxDelay` units of taking it.

**RateLimiter, Blacklist, Admission** are the way to a command. RateLimiter holds the token buckets: a
token has `Unit` parts and a tick is what a part takes to come, so fractions of a token are exact where
the code uses a float. Blacklist holds rows and cache, with every storage call and every critical
section a step of its own. Admission builds the chain with `Chain.Add`'s sort and runs messages
through it.

**Router** is `CommandRouter` and `Checker`. A message is the word it begins with. `commands` and
`aliases` are the two maps; registering a name or an alias again overwrites, as in Go. A level is a
record for what the code keeps as a string: `"admin"`, `"admin_exact"`, `"owner,member"`. `Allowed` is
`Check`, with its ranks and its early returns. Four definitions say what the comments promise and are used
by the property only: `Admits` is the set of roles a level admits, where public is everyone;
`Documented` is the level of a command as the comments have it, public without an entry; `Unlisted` and
`NotInTheList` are the refusals in which the code differs from them (section 5).

**EventBus** keeps listeners in the order of subscription. `Sorted` is `sortListeners`, comparison by
comparison: `Selected` is its inner loop for one place, `Sorted` the outer one.

**EventStream** is `PublishEvent`, `handleSSE` and the log table. A publisher takes the map's read lock
(`LockMap`), offers the event to one channel after the other (`Offer`) and leaves (`Told`); `Connect` and
`Disconnect` need the write lock. An event has no content here, a channel is how many it holds. `Stamp`,
`Insert` and `Commit` are three moments in the life of a log row: its time is taken in the process, its id
by the table, and it can be seen when it is committed.

**AdminPanel** is the password and the sessions. A request is a record that goes through the steps of its
handler: `setPassword` is `SetStore` and `SetFlag`; `validateSession` is `ReadSession`, `LookAtExpiry` and
`ForgetSession`, since the lock is given up between them.

**Scheduler** is `Every`, `Tasks`, `Start`, `Stop` and the mutex. An expression is of one of three kinds,
because `Every` checks it with a parser for five fields and the library is started with one for six.
`LockingFns` are jobs that call the scheduler.

**TTLCache** is the cache, `Get` in three steps. **Clock** is the time both it and AdminPanel look at.

**Reconnect** is the goroutine of the WebSocket adapter: a session, its end, the wait, the gateway.
`Doubled` is the schedule of waits written down as a function, and is used by the property only.

**Services** puts these around the loop of MessageLoop: what a message or a guild event runs (`Route`,
`RunCommand`, `Listen`), what the panel is told (`LoopTells`), what a request does beyond the panel (the
dashboard takes the scheduler's mutex, the button calls the shutdown), and the part of the shutdown these
services take part in: scheduler, adapter, context, bus. It uses the same `MessageLoop` as the plugins
do. A guild event is handled by the loop itself, and has a slot without a timer.

Definitions marked `Mutant:` are not part of a specification. Each is a plausible wrong version of the
definition below it, kept so that one can see which property notices: substituting it makes TLC report
the property `PROJECT.json` names.

Variables marked auxiliary record history for properties; no guard reads them.

## 3. What is checked

Every run checks one type invariant; the rest is below. Bounds are constants: `MaxOps` commands or
messages, `MaxEvents`, `MaxEdits`, `MaxDay`, `MaxTime`.

A behaviour has a fixed set of **faults**, chosen from `FaultRegimes` at the start, so that a property
can say which faults it survives (`faults \cap {...} = {} => ...`) and one run can cover several
mixtures. A property that excludes a fault does so because the code does not survive it, and its
comment says what happens then.

### `economy` (MCEconomy.cfg)

Two users, two overlapping handlers, three commands, three dates; amounts chosen so that one
withdrawal is covered and two are not, and so that two gifts wrap. Three commands are the fewest in
which two handlers overlap and a third sees the result; three dates the fewest in which a streak can
begin, go on and break.

* `NoDebt`: no stored balance is negative unless a sum wrapped, under every fault and overlap. It does not
  say that overlapping handlers lose no update; they do.
* `NeverOvercharged`: without overlap and failed reads, a user never has less than is due. Lost answers,
  failed saves and crashes always fall in the user's favour.
* `BooksBalance`: without faults the books are exact; what each fault does to them is for the two above.
* `RewardOncePerDay`: a date is paid once, also across a crash between the two saves.
* `StreakBacked`, `StreakExact`: a streak of *n* days is backed by *n* consecutive dates, and is not too
  short, unless a check-in read two different dates.

### `whitelist` (MCWhitelist.cfg)

Two users, two names, five commands, two slots; four regimes.

* `OneNamePerUser`: holds although no index enforces it, while handlers do not overlap and queries work.
* `RecordedIsListed`: the order POST, insert never leaves a row for a name that was not listed.
* `TablesAgree`: without faults the two lists are equal at rest.
* `RowsFollowTheGame`: a row never changes hands and goes only after the game has let go.

The regimes "refused" (the game answers 200 with a refusal in the body; the source does not show
whether it does) and "late" are excluded where they break a property. In both, and with failed queries or overlap,
table and list may disagree or a user may get two names; no property says otherwise.

### `lifecycle` (MCLifecycle.cfg)

A channel for one event, three events, two shutdowns (a signal and a restart) that may overlap, a
session that may outlive its 30 seconds, handlers that may never return. With capacity one, three
events are enough for the channel to be full while the loop works and to empty again.

* `AcceptedInOrder`: received events are taken, in the channel or counted as lost; no reordering, no
  duplication.
* `StorageOutlivesLoop`: the storage is closed after loop and log cleanup have returned, unless the
  five-second timer fired.
* `PanicNeedsCause`: one shutdown with a session that ends in time never panics.
* `EventsAreTaken`, `ShutdownEnds` (liveness): below.
* `LoopRuns`: every step of the loop and of its handlers is a step of MessageLoop or a stutter, under
  the refinement mapping at the end of the module. The plugin modules build on that loop, so this ties
  them to the code's real one.

**Fairness.** `WF` of the loop's steps and of a shutdown's steps while the process runs. The code
justifies it: the loop's wait has a 30-second timer, the shutdown's two waits have 30- and 5-second
timers, and of the other steps one waits: `scheduler.Stop` (`internal/bot/bot.go:786`), for the jobs that
run. No plugin registers a job; Services has jobs, and `StopReturns` says when that wait ends. One more
step is fair by an assumption: listeners, which run in the loop, return. No plugin registers one either. Nothing is assumed of handlers, of the session
or of the log cleanup: all of them may hang.

### `statistics` (MCStatistics.cfg)

One user, one group, one channel, two events of any kind, two units to a day with the local time one
unit ahead, so that both dates change at different moments; three regimes: no faults, abandoned
handlers, and all faults. Two events are the fewest in which the loop's transaction meets that of an
abandoned handler. The last unit, `MaxTime` = 3, is in the third local date, so that a user first seen on
one date can write on each of the two after it; a state constraint ends behaviours with failing writes
one unit earlier, because they have by far the most states. `clock` never goes back.

An event is recorded within `MaxDelay`, here one unit, and `DelayAssumption` says that this and the
time zone together are at most a day: with the zone of the code, eight hours ahead, it allows 16 hours
for a few accesses to a local database. Without it `NewUsersAreRecent` is violated.

* `ActiveIsSeen`: the active count of a day is the size of its set, whatever transactions collide.
* `NoMoreThanHappened`: rows may lose counts and never invent them.
* `NothingLost`: without faults they are exact, across midnights.
* `NewUsersAreRecent`: a local date with a new user has one who was first seen on it or on the date (of
  UTC) before. The code asks whether a user is new by UTC dates, after having recorded the user, and
  counts by local ones; this bounds what comes of it. A user of long ago is never counted as new, in
  whatever order transactions, midnights, failures and restarts come. That a user may be counted on a
  date it is not new on is the finding of `statistics_newusers`.

### `admission` (MCAdmission.cfg)

Three messages of a user, to the bot or in a group; two goroutines; two editors and two edits; buckets
of one token in two parts; four moments. Three regimes: crashes; overlap with failing reads; failing
reads and writes. The state constraint lets time pass only in behaviours without edits: buckets and
blacklist share no state and meet only in the chain, and a blacklist that is not empty at the start
covers that.

* `RateBounded`: from whatever moment an observer counts, no key is granted more than a full bucket plus
  what came since: lazy refill and removal of idle buckets give nothing away.
* `BarredStayOut`: a message from a source whose blocking was complete reaches no command, even if the
  storage cannot be read: the cache holds.
* `BarredSpendNothing`: nor does it spend the group's tokens. This is about the order of the chain.
* `CacheFollowsRows`: an unblocked source can stay in the cache only through a race of its removal with
  a check or an addition.

### `services` (MCServices.cfg)

Two messages or guild events, four commands of which two share a name, two an alias, and one has
another's name for an alias, four settings of the permissions, five listeners with two of the same order, two clients with
room for one event, three log rows by two writers, two jobs, three requests, two getters of the cache,
four sessions. A behaviour has one of thirteen **loads**: which parts of the environment do anything in
it, and which faults. The product of all parts at once would be far out of reach, and most of them meet
nothing of each other; a load has those that do: handlers with the stream, the stream with the log,
requests with jobs, jobs, handlers and the session with the shutdown. Nothing in a part knows the load,
only `Services` does.

* `RunsWhatIsMeant`: a message runs a command it names, by name before alias, and there is one whenever
  it names one. The author is refused exactly if the documented level does not admit the role, or for one
  of two reasons the documents do not know: the command has no entry and its own level refuses
  (`Unlisted`), or the level is a list with public in it and the role is not in the list
  (`NotInTheList`); section 5 has both. If a name or an alias was registered again, what is said of
  refusals remains.
* `ListenersInOrder`: the sort loses and repeats nobody, lower orders come first, and what a Publish has
  copied does not change when listeners are added or removed.
* `MapIsExact`: an id leads to a client that is connected and has it, so nothing is sent to a closed
  channel, which would end the process; every client that is connected is in the map. Two clients of the
  same nanosecond are the exception to the second part.
* `LogsShown`: a client sees each row once, in the order of ids, none left out between its first and its
  last, none from before it connected. The exceptions are late commits, a failed first query, and rows
  whose ids and times have different orders.
* `SessionEnds`: no page behind the login is served for a session that had ended when the request came.
  The event stream has no login before it (`internal/admin/admin.go:245`) and is not meant.
* `PasswordKept` (action property): a password that is set stays, but for two first logins side by side,
  and a start at which the table could not be read.
* `FreshSurvives`: a cached value stays until its deadline or a removal. The exception is a Get that began
  before the value was set.
* `StopReturns`: Stop returns unless a job waits for the mutex, and afterwards no job runs.
* `LoopGoesOn`: the loop gets done with every event, whatever commands, listeners of messages and clients
  do. The exception is a listener of a guild event that hangs.
* `Reconnected`: after a session has ended the next is tried unless the adapter is stopped, and waits
  are as long as stated.

Each exception was checked to be needed: without it TLC reports the property. None of them happens with
the plugins as they are: no plugin subscribes, registers a job, unregisters a command or uses the cache,
and the repository's commands share no name and no alias.

**Fairness.** `WF` of a handler's steps while it does not hang, of publishing, of the loop giving a
message up (a timer), of jobs, of Stop once it has the mutex, and of the reconnecting goroutine; `SF` of
Stop taking the mutex, because others may take it in between and Go's mutexes starve nobody. Nothing is
assumed of commands and listeners that hang, of clients, of requests, of QQ.

### The runs that fail

`economy_lostreply`, `economy_readerror`, `economy_midnight`, `whitelist_readerror`,
`lifecycle_handlers` and `statistics_newusers` check one property each, taken from a comment, which the
code does not keep: section 5.

## 4. What is proved

TLAPS checks the theorems for every value of the constants that meets the assumptions named in the
modules that declare them; TLC evaluates the same assumptions for the constants of each run. Every
invariant that a passing run checks is a theorem, and so are its action properties and the refinement
`LoopRuns`. A proof shows the property by an inductive invariant that says what is true *between* the
steps of a handler, a transaction or a request; the property itself mostly speaks of tables alone.

**EconomyProofs** (assumptions: `MaxInt` natural, initial balances not negative, amounts of the bank's
types, `None` distinct from records).

* `TypeCorrect`: types are not inductive by themselves: a debit is a plain subtraction and stays within
  the integers only because the handler checked the same struct before. `Covered`, which says that a
  handler about to ask the game holds a struct that covers what it asks for, is the strengthening.
* `NoDebtHolds`, by `DebtInv`, which adds to NoDebt that no struct a handler holds is in debt. A row and
  a struct need each other: a save stores a struct, a read copies a row.
* `StreakBackedHolds`, by `StreakInv`, which says what the records held by handlers at each place are
  backed by (`CheckinBacked`): the read record by the history, the new record by the history and the date
  about to be stored.

**SerialProofs** (the same assumptions): what the plugins promise while handlers do not overlap. All
four theorems rest on `SerialInv`, whose first part is that without timeouts the handler the loop waits
for is the only one.

* `NobodyIsOvercharged`, `TheBooksBalance`: `MoneyInv`. The struct of the handler follows from its user's
  row (`StructFollows`), and a row less what a handler has still to take off it (`Owes`) is not below what
  is due, and equal to it without faults.
* `StreaksAreExact`: `RecordInv`; the record about to be stored begins after a date without a check-in.
* `RewardsArePaidOnce`: `PaidInv`; from the store of the record to that of the account its date is unpaid,
  and afterwards the record keeps every other check-in of the date away.

**AdmissionProofs** (assumptions: positive `Unit` and `Burst`, and a bucket fills up within
`IdleLimit`. The code does not check the last one. It holds for the values in use: 10 tokens at 5 a
second are back in 2 seconds, and a bucket is removed after 30 minutes.)

* `RateBoundedHolds`: the invariant adds the tokens still available: granted + available <= full +
  elapsed. A grant moves one token from the second term to the first, a tick adds at most a part to both
  sides, and removing an idle bucket changes nothing because by then it is full.
* `BarredAreKeptOut`: BarredStayOut only speaks of the end of the chain. `BarredInv` says that a check can
  find a barred source (it has a row, nobody is removing it, and it is cached or reads work), `DueInv` that
  it is still among those to be asked about.
* `BarredTakeNoToken`: `SpentInv`, the place in the chain of whoever has a token.
* `CacheIsExplained`: `RacedInv`, which says of whoever is about to put a source in the cache that it has
  a row or has been seen in a race.
* `TypeCorrect`.

**LifecycleProofs** (assumptions: `Capacity` and `MaxEvents` natural, callers of three kinds).

* `EventsInOrder`: what was taken, followed by what is in the channel, is increasing; an event is above
  all before it.
* `StorageClosesLast`: `StorageInv`, what a shutdown past its waits knows of loop and cleanup, for every
  shutdown under way.
* `PanicsAreExplained`: `PanicInv`; if the events are closed, a shutdown is past the wait for the session.
* `EventLoopImplemented`: `Init` maps to `Init`, and every action to an action of MessageLoop or a stutter,
  from `LoopInv`: who has been started was taken, and while the loop waits its handler runs. That TLC
  checks `LoopRuns` on three events is thereby true of any number.
* `TypeCorrect`.

**WhitelistProofs** (assumption: `None` distinct). `WhitelistInv` has, beside the types and that without
timeouts one handler runs, one part for each property: a user whose application is under way has no name
(`NamesInv`); the game has done what the handler is about to write down (`ListedInv`); table and list
differ by what the handler has still to write (`AgreeInv`). `NamesAreUnique`, `RowsAreListed`,
`TablesAgreeWhenIdle` and `RowsFollow` follow; the last one is about steps, and only a removal and an
application change a row.

**StatisticsProofs** (assumptions: a positive length of a day, a time zone ahead of UTC,
`DelayAssumption`, `None` distinct).

* `ActiveAreSeen`: `ActiveInv` says the same of the row in the hands of an open transaction, and that its
  set is finite.
* `NothingInvented`: `WithinInv`, for the row that an open transaction is about to save; the lemmas behind
  it say that every change is monotone, so a stale row with a change is within what has happened by then.
* `NothingIsLost`: `NoneLost` and `TakesTurns`; while a transaction is open its row is the one in the table.
* `CountedAreNew`: `RecentInv`, what is known between the steps from the record of a user to the count:
  the event is not older than `MaxDelay` (`EventInv`), a user found to be new was first seen on the UTC
  date of the check (`FoundInv`), a first-seen time once written stays, and whatever row an open
  transaction is about to save is backed like the stored ones (`BackedInv`). `SameDay` is the arithmetic: a
  UTC date, `MaxDelay` later and in local time, is the same date or the next.
* `TypeCorrect`.

**PartsProofs** is about the parts of Services that the loop only uses. A lemma for each (`CacheFrame` and
its like) says that what the other parts do leaves its variables alone; the parts meet in the clock and in
the requests that stop the scheduler. Assumptions: the ones of the modules, of which two matter: `Clients` is
finite, and a load with crashes is one of the panel alone, since only the panel keeps something over a
crash.

* `FreshIsKept`: `GettersInv`, what a Get that has given up the lock has read; `EntriesInv`, no entry has
  an old deadline.
* `SessionsEnd`: `LateInv`; a session that had ended when the request came is recognised as such at each of
  the steps between which the lock is free. It needs `TokensInv` (a token is handed out once) and
  `RequestInv` (which request is where).
* `PasswordStays`: `PasswordInv`; without overlapping first logins one request at a time is about to set
  the password, and only while there is none.
* `StopIsFinal`: what `QuietAfter` says of each call of Stop, the safety half of `StopReturns`. Whoever holds
  the mutex to stop has told the library.
* `EventsReachClients`: `MapInv`. Whoever sends holds the read lock, so the entries it has still to send
  to are those of the map; an id is one of the instants passed.
* `LogRowsAreShownOnce`: `LogInv`, by far the largest proof: ids and times of rows, written and being
  written (`NumbersInv`), what holds without late commits and without overlapping writers, and where the
  cursors of each client are (`CursorInv`).

**ServicesProofs** is about the loop with the router and the bus, the adapter's waits, and the types.

* `ListenersAreCalledInOrder`: `SortedIsInOrder` and its like say that `sortListeners` makes of a list of
  any length a list of the same elements, each once, lower orders first. The provers have no induction
  with an operator as parameter; the proof takes a set of numbers instead and the least one outside it
  (`LeastOf`, from the well-foundedness of < in the library; `UpTo`, `Steps`). `Inner` and `Outer` are
  the functions the two loops define, one value for each round.
* `MessagesRunTheirCommand`: `LoopInv`, what the router's maps, the listeners and a handler at each place
  have to do with each other. Two lemmas are about the permission checker alone, for every level and role:
  by `AllowedAreAdmitted` what `Allowed`, which is `Check`, lets in is in `Admits`, which is what the
  comments promise, and by `RefusedAreNotAllowed` the converse holds but for public in a list.
* `WaitsDouble`: `WaitsAsStated`, the safety half of `Reconnected`; the next wait is the first one doubled
  once for each failure, capped, although the code never looks back further than one wait.
* `TypeCorrect`: the types of all parts together.

**What stays with TLC.** Liveness needs fairness and `ENABLED`, which the provers cannot reason about:
`EventsAreTaken` and `ShutdownEnds` of Lifecycle, `LoopGoesOn`, that Stop comes to return in `StopReturns`,
and that the next session is tried in `Reconnected`. The runs that fail are counterexamples and need no
proof. The bounds on the length of a behaviour (`MaxOps` and its like) are arbitrary numbers in the
theorems, and not infinity. No module uses a RECURSIVE operator.

## 5. Where the code and its comments disagree

1. **A withdrawal whose answer is lost is free** (`plugins/bank/bank.go:310`; run
   `economy_lostreply`). The comment says the gold is taken from the account and given to the player;
   the code asks the game first and debits only after reading a true status.
2. **A failed query empties an account** (`plugins/bank/bank.go:136`; `economy_readerror`). `getAccount`
   returns the zero account on any error, and the next save stores it.
3. **Midnight cuts a streak** (`plugins/checkin/checkin.go:139`; `economy_midnight`). Two readings of
   the clock in one check-in.
4. **A failed query admits a second application** (`plugins/whitelist/whitelist.go:140`;
   `whitelist_readerror`).
5. **A shutdown does not wait for handlers** (`internal/bot/bot.go:803`; `lifecycle_handlers`).
   Cancelling the context makes the loop abandon its handler, and the storage is closed under it.
6. **New users are counted the wrong way round** (`internal/bot/bot.go:511`; `statistics_newusers`). The
   first message of a user counts none and each later one of that day counts one.

Not counted as disagreements, because nothing promises otherwise: two shutdowns close the event channel
twice and panic (`PanicNeedsCause` names the cause); a blacklist check that races a removal blocks the
source until a restart (`CacheFollowsRows`; nothing calls the removal yet).

Nor these, which are about things no plugin uses, or where only a comment is loose: the comment in
`Publish` (`internal/bus/bus.go:56`) calls the sort stable, and it is not; `Scheduler.Every` accepts five
fields (`internal/scheduler/scheduler.go:100`) and the library is started with six (line 37), so that only
descriptors run (`internal/contract/contract.go:447` shows five fields and names six); the event stream's cursor is called
the "current max log ID" (`internal/admin/admin.go:869`) and is the id of the row newest by time.

The permission checker disagrees with its documents in three ways. No run of its own is spent on them:
`RunsWhatIsMeant` states what the documents say and names the first two as its exceptions, and leaving
either out makes TLC report it.

* A command without an entry is public according to `configs/config.example.yaml:52` and the comment at
  `internal/permission/permission.go:45`. The code takes the level the command was registered with
  (`permission.go:98-103`), which `internal/contract/contract.go:336` calls its required permission. So
  without an entry `give` (`plugins/bank/bank.go:84`) stays with the owner, and other commands with whom
  they were registered for (`bank.go:95`, `bank.go:105`, `plugins/whitelist/whitelist.go:77`,
  `plugins/fly/fly.go:49`).
* `public` is everyone according to `permission.go:16`. In a list it admits only who has no role
  (`permission.go:115-121`): `admin,public` refuses an owner.
* `isValidLevel` accepts `admin_exact` as an item of a list, where it matches nobody.

## 6. What is not modelled

* Commands that change nothing (balances, shop, whitelist query, the query plugins) and the texts of
  all replies.
* The game server, beyond doing or not doing what a request asks for and answering or not.
* In Economy a request that takes effect late is merged with one whose answer is lost: the plugin does
  the same in both cases, and no property looks at when the game acts.
* In Statistics: a handler's replies after the first, message counts and last texts, the channel users table (no count is made from it),
  `SeenGroupUsers` (written, never read), more than one abandoned handler at a time.
* In Lifecycle: failures of start-up; the once-guard of the webhook adapter beyond the channel's close;
  `os.Exit` in the admin handler is `Exit`.
* In Admission: the logging middleware, which only logs; `Chain.Remove`, which nothing calls; empty ids;
  floating-point rounding. What runs after the chain is the subject of the other modules.
* In Services: the middlewares (Admission has them), the statistics a message writes (Statistics), the
  second phase of a shutdown (Lifecycle), and every pairing of parts that share no state. A log row is
  written by any goroutine at any time; which line of the code wrote it is left out.
* In Router: how a text is split into words and arguments, mention tags, the leading slash.
* In EventStream: what events and snapshots say. Snapshots are compared with the last one as text.
* In AdminPanel: bcrypt, cookies, the login page's own redirect, tokens that were never handed out.
* In TTLCache: the values, and `Close`.
* In Reconnect: the library's own reconnection inside a session, and the first connection, where an error
  ends the start-up.
* The logger's filter by level, log rotation, the queries of the admin panel's tables.
* The QQ message API: requests to QQ and their bodies, without state but for an atomic counter.
* Configuration, templates, CSV export, system metrics, certificates: I/O or text, no behaviour over
  time.

## 7. Plan

1. **Economy, Whitelist, Lifecycle, Statistics, Admission** with their runs; Economy and the rate
   limiter proved. Done.
2. **Services**: router and permissions, event bus, event stream, panel, scheduler, cache, reconnect.
   Done.
3. **Proofs** of every invariant and action property that a passing run checks, of the refinement, and of
   the safety halves of two liveness properties. Done.
4. What could come next: an abstract specification of each service (a set of sessions for the panel, a
   map for the cache) that the detailed one implements; more of the admin panel, whose pages only read.
