# evget: specifications

TLA+ modules, TLC configurations and TLAPS proofs for evget, a program that
reads the input events of a Linux machine (libinput or X11) and stores them in
SQLite databases or writes them as JSON. Everything is translated from the
sources under `src/`; where a library (asio, SQLite, libinput, the X server)
matters, it is modelled from the way the code uses it, and its definitions are
marked `external` in `PROJECT.json`.

Run a check with `tlc -workers 4 -config DatabaseManager.cfg MCDatabaseManager`
and the proofs with `tlapm DatabaseManagerProofs.tla`. Modules without an `MC`
module (`StoreAfter`, `EvgetLibInput`, `FocusWindow`) are checked directly.

## The system

| part | state it keeps | operations | talks to |
|---|---|---|---|
| `main.cpp` | locals: scheduler, manager, backend, exit code | start, early returns, `Join`, destruction in reverse order | everything below |
| `Scheduler` | asio pool, `stopped_` | `Spawn`, `SpawnResult`, `Stop`, `Join`, `LogException` | runs the coroutines of all others |
| `EventLoop`, `EventHandler` | `stopped_`, listeners | `Start`, `Stop`, `Notify` | event source, transformer, `DatabaseManager` |
| `DatabaseManager` with `LockingVector` | shared buffer of `Data`, vector of stores | `StoreEvent`, `StoreAfterCoroutine`, `SpawnStoreData`, `StoreCoroutine`, `ResultHandler`, `AddStore` | scheduler, stores |
| `Interval` | a steady timer | `Tick`, `Reset` | timer coroutine |
| `FilterStore`, `JsonStorage` | none | `StoreEvent` | the next store, a stream |
| `DatabaseStorage` | one `SQLiteConnection`, prepared queries per call | `Init`, `StoreEvent` | SQLite |
| `SQLiteConnection`, `SQLiteQuery` | a handle, a transaction; a statement | `Connect`, `Transaction`, `Commit`, `Rollback`; `Next` | SQLite |
| `Migrate` | none; the table `_migrations` in the file | `ApplyMigrations` | `SQLiteConnection` |
| libinput backend | libinput context, poll flag; per-device ids, positions, intervals; the keyboard state | `GetEvent`, `TransformEvent` | kernel, `EventHandler` |
| X11 backend | caches of devices, button names, valuators | `RefreshDevices`, `TransformEvent`, `SetWindowFields` | X server, `EventHandler` |
| builders, `Entry`, schema | records of optional fields | `Build`, `ToNamedRepresentation` | stores |
| `Cli` | parsed options | `Parse`, `ToStores` | `main.cpp` |

An event travels: the event loop, a coroutine that occupies one thread of the
pool, blocks in the backend's `Next`; the transformer turns the event into a
`Data` batch; `DatabaseManager::StoreEvent` appends it to a buffer under a
mutex and, in a second critical section, takes the whole buffer when it has
reached `n_events`. A timer coroutine takes the buffer whenever its interval
ticks. Whoever took batches spawns a `StoreCoroutine`, which gives them to
every store in turn. A store error, a timer error or an exception stops the
scheduler, and `main` returns from `Join`.

What is hard here: two takers of one buffer with a check and an act in two
critical sections; coroutines that never suspend on a pool of few threads;
completion handlers that a stopped pool drops; shared stores used from several
threads; a timer that is resumed late; SQLite transactions that are left open by an error and swept up by the
next call; several processes migrating one file; references that are plain
(`[&]`) and valid only until `Join` has come back. `PROJECT.json` lists each
hazard at its line with the properties that are about it.

## Modules

| module | models | proved about in |
|---|---|---|
| `WriteLog` | what the write path promises, without buffer, threads, coroutines and timer | `WriteLogProofs` |
| `DatabaseManager` | the write path, `LockingVector` included; refines `WriteLog` | `DatabaseManagerProofs` |
| `StoreAfter` | `DatabaseManager` with clock time: `Interval` under the timer coroutine | `DatabaseManagerProofs` |
| `SQLiteConnection` | one connection object per caller over SQLite's handles, locks and durable file | as a part of the next two |
| `DatabaseStorage` | `StoreEvent` on `SQLiteConnection` | `DatabaseStorageProofs` |
| `Migrate` | `ApplyMigrations` on `SQLiteConnection`, several processes | `MigrateProofs` |
| `Scheduler` | spawning, handlers, stop and join over the asio pool | `EvgetLibInputProofs` |
| `Evget` | `main`, event loop, timer and writes on `Scheduler`, with the owners of the `shared_ptr` | `EvgetLibInputProofs` |
| `LibInput` | `LibInput::GetEvent` between the kernel, libinput's queue and the event loop | `EvgetLibInputProofs` |
| `EvgetLibInput` | `Evget` composed with `LibInput`: `GetEvent` runs on the thread of the event loop | `EvgetLibInputProofs` |
| `EventTransformer` | libinput's `TransformEvent` with `DeviceId`, `IntervalTracker`, `XkbCommon` | `EventTransformerProofs` |
| `XEventTransformer` | the X11 transformer: device caches, raw events, their dispatch | `XEventTransformerProofs` |
| `FocusWindow` | the window fields of X11 entries, request by request, beside the server | |
| `Stores` | `Cli`'s outputs and filter, builders, `FilterStore`, merging, and what both kinds of stores write | `StoresProofs` |

`MC*` modules only instantiate them. Definitions marked `mutant` are the
plausible bugs that `PROJECT.json` pairs with the properties: each property is
violated when the definition named there is replaced by its mutant.

### How state and actions correspond to the code

**DatabaseManager.** `buffer` is `LockingVector::inner_`; `pc` is where each
caller of `StoreEvent` and the timer coroutine are, `hand` the vector it moved
out of the buffer. `PushBack` and `TakeAt`/`BelowThreshold` are the two
critical sections of `StoreEvent`; `SpawnStoreData` is the function of that
name; `job` holds the `StoreCoroutine`s, one step per store in their loop
(`StoreAccepts`, `StoreFails`), then `ResultHandler`. `TimerCheck`, `Tick`,
`TickFails`, `TimerTakes` and `TimerFindsSchedulerGone` are
`StoreAfterCoroutine`. `Stop` and `Expire` stand for everybody else who holds
the scheduler. A coroutine spawned by a thread of the pool runs inside the call
(asio dispatches), one spawned from outside is queued.

**WriteLog.** Batches are accepted (`Accept`), a run of consecutive ones is
delivered to one store after another (`Deliver`), and is done with when the
completion handler has run (`Complete`, or `GiveUp` with the end of the
scheduler). It has no buffer, no coroutine and no timer, and its variables are
variables of `DatabaseManager` with the same meaning, so that the refinement
mapping (the `INSTANCE ... WITH` of `DatabaseManager`) is the identity; the work is in showing that the guards of `Deliver`
hold whenever `StoreAccepts` does what it does. A batch need not be delivered at
all: the code drops what it holds when the scheduler stops.

**StoreAfter.** `due` is the time until the steady timer expires, `Elapse` the
passing of one unit of it, which may happen between any two steps. `WaitBegins`
is the loop's check and the call of `Tick`, which makes the timer the first
time; `WaitReturns` may come any time after the expiry and resets the timer from
then (`Reset`). Everything else is a step of `DatabaseManager` that takes no
time.

**SQLiteConnection** gives each operation of the connection as an action for
its success and one for its failure; `DatabaseStorage` and `Migrate` compose
them with what the caller does with the result. `transaction` is `transaction_`
(a `unique_ptr` whose old value is destroyed, and so rolled back, by the next
`Transaction()`), `handle` is SQLite's own autocommit state: the two may differ
after an error. **DatabaseStorage** steps through the entries and modifiers of a
call (`next`) with the statements prepared so far (`prepared`). Calls overlap, one
operation of the connection at a time; `overlapped` is a history variable with the
calls that have met another one inside, and the properties speak of the others. Two
calls inside one `SQLiteConnection` also race on its members, which is undefined in
C++: what follows an overlap is modelled for calls whose operations come one after
another. **Migrate** is
one process per connection; `Exit` is an end or a crash at any point. The sort of a
release's list is not stable, so migrations of one version may come in any order
(`Sorted`); `Applied` and `Schema` read the two tables of interest back from rows.

**Scheduler** and **Evget.** `task` says for each coroutine whether it is
queued, running on a thread of its own, running inside its spawner's call,
waiting for a timer, or finished with its handler posted. `Evget` adds the
program counter of `main`, the exit code, the owners of the scheduler's
`shared_ptr`, the event loop and the timer.

**LibInput.** `wait_for_poll` and the loop of `GetEvent` (`Poll`, `Dispatch`,
`GetNext`, `GetNull`, `Fails`). The kernel and libinput are external: events
arrive at any time, a dispatch reads at least one and may read more, some make
no libinput event. In **EvgetLibInput** `GetEvent`'s steps need the thread that
the event loop occupies, `GetEventReturns` is the loop's step with the event that
`GetNext` found, and the rest of the process goes on beside them.

**EventTransformer.** `device_uuids`, `previous_absolute`, `previous_touch`,
`device_intervals` are the maps of the class; `xkb` counts how often each
modifier's key is down, as `xkb_state` does for a key that several keyboards
share; `lock` is what `xkb_state` has of a lock (the first stroke of its key
locks at the press, the next unlocks at the release), `session` what the user's
session has, which sees the same keys but began before evget did. Each action
is one `case` of `TransformEvent` with all its helpers. The hardware side (`address`, `plugged`, `touch`, `held`) is external: it says
which events libinput may deliver.

**XEventTransformer.** `devices`, `id_to_name`, `button_map`, `scroll_map`,
`valuator_x` are the caches; `ListInputDevices` and `RefreshDevices` are the
two requests of a refresh; `TransformRaw` dispatches one event through
`SwitchOnEvent`. The server plugs and unplugs devices and reuses their ids at
any time, also while events are under way.

**FocusWindow.** `pc` is the request that `SetWindowFields` makes next, through
`GetActiveWindow`, `GetFocusWindow`, `GetWindowName`, `GetWindowPosition` and
`GetWindowSize`. Between two requests windows are destroyed, made active and
put into frames; `GetFocusWindow` never has a result (see the findings). `XError` is the error a request about a window that
is gone is answered with: Xlib calls an error handler, evget sets none, and the
default one exits.

**Stores.** An event is a sequence of builders, records of the members that are
set. `Build` makes the vector of texts of an `Entry` in the order of the four
`Build` functions; `FilterEntry` is one turn of the loop of `FilterStore`;
`MergeWith` one turn of the loop of `SpawnStoreData`. A database row is the
vector after a UUID, to be read by the columns of the SQL tables and joined with
the tables of enumerators; a JSON entry has the names of `entry.h` beside it.
The lists are written out from their four sources separately, so that they may
disagree.

## Runs

| run | asks | bounds |
|---|---|---|
| `database_manager` | is any accepted batch lost, taken twice, out of order for its taker; what does a shutdown lose; does the write path implement `WriteLog`? | one caller on the pool and one outside, the timer, 2 coroutine slots, 2 stores, threshold 2, 3 batches |
| `store_after` | how long may a batch wait, does the timer run ahead of the clock; is every batch written unless the scheduler goes down; does a store error stop the scheduler? | one caller (outside the pool, so that its writes are queued; the timer's run in place), one store, 2 batches, a period of 2 units, delays told apart up to 1 |
| `database_storage` | are calls that no other overlaps atomic and durable through errors, crashes, retries and the overlaps of others? | two entry types, modifiers, an entry without data, an empty batch, three handles |
| `overlapping_calls` (violation) | "only one transaction per connection" when calls overlap | the same |
| `migrate` | is the durable schema what `_migrations` records; is a migration ever run twice? | 2 processes, 3 starts, 4 releases |
| `evget_libinput` | shutdown: who uses what `main` destroys; does an exception, or a stop around the loop's end, end the process; do handlers get a thread; does `GetEvent` sleep on input; is each event returned? | pool of 2 threads, 2 writes, 2 kernel events, the first one silent |
| `stop_ends_threads` (violation) | "Stop all thread pool threads" | `Evget` alone, any event source; the same pool |
| `event_transformer` | identities, relative moves, clicks of touches, modifiers, intervals | 2 devices, 2 addresses, 2 slots, a modifier and a lock, positions and times 0..1 |
| `x11` | do the caches agree; do type and name in an entry; does a recorded touch end? | 3 devices on 2 ids, 3 events under way, 2 touches |
| `x11_scroll` (violation) | scroll amounts sourced from the raw event | the same |
| `focus_window` (violation) | "window does not exist" gives no fields | 2 windows |
| `stores` | does every output hold, under the right names, what the builders were given, less what the filter leaves out? | 3 outputs in 3 lists, 4 filters, 5 kinds of event with all 4 types of entry, 3 entries, 2 events in the buffer |

Why the bounds are enough:

- `DatabaseManager`: with threshold 2 and 3 batches a buffer is taken at,
  above and below the threshold; two coroutine slots let the timer's and the
  loop's coroutines run side by side; a second store is needed for "the first
  has it, the second does not". The slots of coroutines are symmetric. The
  proofs lift the bounds for the properties they cover.
- `DatabaseStorage`: two handles are what one connection needs to reconnect, and the
  third lets one be left behind by an overlap. Three calls with rows give an overlap of
  two with a lone call before, between or after them, and a failure, its retry and a
  later success in a row.
- `Migrate`: the releases contain one that adds a migration, one that edits it
  and one that inserts a version in between; `SuccessMatches` compares by
  prefix, so the third start sees every order of two others.
- `Evget`: `HardwareConcurrency = 1` is the smallest pool, two threads, which
  is where blocking matters most.
- `StoreAfter`: two units of time let a step fall before, at and after the middle
  of a period; one unit of delay tells "late" from "in time". The proofs lift
  these bounds for `WaitsAtMostAPeriod` and `TicksWithinTime`.
- `EvgetLibInput`: with the event of the seat there are three events, one of them
  silent, before, after and in the same dispatch as another; the proof of
  `NeverAsleepOnInput` is for any number.
- `EventTransformer`: two positions have differences of both signs and none, and
  a first position of 1 is not a difference; two times allow forward, equal and
  backward; two keyboards hold the same key together and in turn. The view of `MCEventTransformer`
  leaves out `data`, which no action reads; TLC still evaluates the action
  properties on every transition.
- `XEventTransformer`: three devices over two ids force reuse; three events is
  one touch with its emulation and a device change. The view of
  `MCXEventTransformer` leaves out `event`, which no action and no property of `x11`
  reads.
- `Stores`: every member has its own name as its text, so that a value under
  another name shows; each type of entry occurs, with members that are not set;
  two events of up to two entries make a merge of a mixed batch. There is one
  write at a time: overlapping ones are the subject of `DatabaseStorage`.

Deadlock is not checked (`CHECK_DEADLOCK FALSE`): each model really may stop,
either because its bound is reached or because the program has ended.

### Fairness

`StoreAfter`: a thread inside a call goes on, the pool (while it is up) starts
what is queued, time passes, and the timer coroutine is resumed some time after
its timer has expired: that the timer ticks is no assumption, as it is in the
`Spec` of `DatabaseManager`. Nobody has to call `StoreEvent`. Strong fairness of
a spawn only undoes the bound on coroutine slots, for which code never waits.
`Evget`: threads that can go on do (weak fairness), and the pool does not pass
over what is queued or posted (strong fairness; asio's queue is first in, first
out). No failure and no exception has to happen. `EvgetLibInput` adds that a
`GetEvent` that can go on does, which is: the event loop calls again at once, and
poll returns when the descriptor is readable. No event has to arrive and no timer
of libinput has to expire.

## What is proved

Every safety property that a passing run checks is a theorem for all values of the
constants. One has a hypothesis beside the named assumptions, `NeverReapplied` that
texts differ. `PROJECT.json` lists the theorems. Here is from what they are proved, and
why the invariants are needed.

### The write path: `DatabaseManagerProofs`, `WriteLogProofs`

From `DatabaseManagerAssumption` (callers on the pool are callers, the timer is not
a caller, the threshold is positive): `TypeOK`, `NothingLost`, `OneHolder`,
`JobsCarryRuns` and `BufferBound` (which no run checks by these names: they are part of
what is proved, and the second of `ShutdownLoss`). None but the first is inductive. The
strengthening is `Ledger`: the buffer is exactly the last batches that were
accepted, so what has been taken is an initial segment of them; every hand and
every coroutine holds a run of consecutive taken batches; and a hand is empty
unless its owner is between taking and spawning, a free slot is empty. It is
what makes "take" unable to hand out a batch twice and "spawn" unable to
overwrite one. With `Ledger`, `NothingLost` and `OneHolder` are preserved step
by step. `BufferBound` needs that a push
leaves its caller between the two critical sections, and that a caller which
finds the buffer below the threshold sees its real length.

`WriteLogProofs`: whatever implements `WriteLog` is safe (`LogIsSafe`: no store
gets a batch twice, none is ahead of an earlier one, a batch is done with only
when it is stored, unless something has failed). `DatabaseManagerProofs` shows that
the write path implements it (`WritePathImplementsLog`), so it inherits that
(`StoresGetRunsInTurn`, `CompletedIsStoredAlways`). A step of the code can only be
mapped when it is known how far a `StoreCoroutine` has come, so `Ledger` is
strengthened by `Delivery`: the stores up to `i` hold all batches of the coroutine
and the later ones none; `n`, the number of stores it saw at its start, is at least
what there was when its batches were accepted; and what is in the buffer or in a
hand is in no store.

`ShutdownLoss` holds because the scheduler goes only when nobody is in the middle of
something: its invariant (`RestInv`) adds to the next one that from then on no caller is
in a call, the timer has nothing in its hand and no coroutine runs in somebody's call
(`AtRest`); an accepted batch that is not in the buffer is then in a coroutine that has
ended, which has served every store unless one failed, or in one that was queued. With
that, `ShutdownLosesTheBuffer` says of evget as `main.cpp` sets it up (its one caller, the
event loop, runs on the pool) that as long as no store fails all that was ever taken out
of the buffer is in every store at the end, and less than `n_events` batches, the last
ones, are lost. Its hypothesis is a property of the behaviour (no `StoreFails` step),
so no run has it among its properties; TLC has checked it on the instance of
`database_manager` with both callers on the pool and no `StoreFails`.

`InOrderPerTaker` says something of what is stored, and what a thread will store
later is in its hand or its coroutine. The invariant (`OrderInv`) therefore adds that
whatever a thread of the pool has stored is older than what it has taken and not
yet stored; that holds because its write runs inside its own call, so it has one
run of batches at a time, and a run is taken from the front of the buffer.

`WaitsAtMostAPeriod` and `TicksWithinTime` also need `StoreAfterAssumption` (the period is
positive). Neither is inductive. The first holds because what the oldest batch has
waited and what is left of the period are together at most a period (`WaitInv`),
except between a tick and its flush; the second because the time since the timer was
set, less a period for each tick, and what is left of the period are together at least
a period (`TickInv`), and a wait returns only when nothing is left. Everything that takes no time
and does not flush keeps both. The clock adds nothing to what the write path may do:
`ClockOnlyRestricts` shows that `StoreAfter` implements `DatabaseManager` (fairness
aside), so that `TypeOK`, `NothingLost`, `OneHolder`, `InOrderPerTaker`, `ShutdownLoss` and
the refinement of `WriteLog` hold with the clock too (`WritePathWithClockIsSafe`).

### The database: `DatabaseStorageProofs`, `MigrateProofs`

`DatabaseStorageProofs`, from `SQLiteConnectionAssumption` and `DatabaseStorageAssumption`
(there is one connection): `BatchAtomic`, `StoredIsDurable`, `FailedLeavesNothing`,
`NoLeakedHandle` and `TypeOK`, whatever fails or crashes when and however other calls
overlap. The strengthening says where the rows of a call that is or was alone can be.
While it is inside, its statements are all on the connection's handle, which is in its
transaction and sees the file and what the call has inserted so far (`LoneCall`). Once
it has come back, all its rows are in the file or none is (`FileInv`), and what it has
left in an open transaction is on the connection's handle and only as long as nobody
is inside (`WorkInv`): the next `Connect` closes that handle, because only calls that
insert have statements (`PreparedInv`), so that nobody ever commits it. Handles that
overlapping calls leave behind may have the lock, but never become the connection's
again, and what is committed of them has no row of a lone call (`NothingWaits`). Every
call of `DatabaseStorage` in a run without overlaps is alone, so these theorems say of
such runs what they should.

Two theorems, which no run checks by a property, say what remains when calls overlap.
`DurableRowsStay`: no step takes a row out of the file, since the handle with the lock
sees all that is durable (`LockInv`). `LostLockStopsStoring`: when an overlap has left
the lock with a handle that is not the connection's any more, the file does not change
until the process ends.

`MigrateProofs`, from `SQLiteConnectionAssumption` and `MigrateAssumption`, for any
releases, processes, errors and deaths: `RecordedIffApplied`, `SuccessMatches`,
`NoTransactionLeft`, `OnlySuccessCommits`, `TypeOK`. What each process knows depends
on how far it is (`Facts`): from the read of `_migrations` on, its list is what the
file records, the first ones of its own list agree with it, and in the rows it sees
the applied migrations are those and the ones it has run since. Others' commits do not
falsify this, because a process that has read has a SHARED lock until it commits
or rolls back, and nobody commits while another process has one. What a success has
left stays (`OkInv`): later processes only add migrations of higher versions, so that
the list of a success remains made of the first ones (`FirstOf`, `Rising`).
`NeverReapplied` is proved under `TextsDiffer` (no release lists one SQL text under two
versions). The schema is modelled by the texts that were run, and two migrations with
one text would share a row of it: running the second would look like running the
first again, which it is not.

### The process: `EvgetLibInputProofs`

For any pool, any coroutines, any number of kernel events and any set of silent
ones, of the composed process, from `EvgetAssumption` (the coroutines of the event
loop, the timer and the timer's write are different ones) and those of the parts:

- `NeverAsleepOnInput`. A call that starts with `wait_for_poll_` set goes straight
  to poll; the invariant (`Polls`) says that nothing but the seat's first event
  is queued from the moment the flag is set until the next dispatch. A step
  of the process is a step of `LibInput` or leaves the source alone, so the
  invariant of the part is one of the whole.
- `DestroyedUnused`. Until `main` leaves it owns the scheduler, so the timer
  coroutine always finds it and ends only once it is stopped (`WhileAlive`); `Join`
  comes back only from a stopped pool on which nothing runs; and a halted pool on
  which nothing runs stays so (`AfterJoin`).
- `TypeOK`, which says that no more coroutines run than the pool has threads
  (`ThreadsBounded`): only `Run` makes one busy that was not, when a thread is idle;
  a coroutine spawned inside a call shares its spawner's thread.
- `ProcessImplementsParts`. The composition adds nothing to its parts: each step of the
  process is one of `Evget`, which leaves the event source open, or a stutter, and one
  of `LibInput`, which leaves its caller open, or a stutter.

### The transformers: `EventTransformerProofs`, `XEventTransformerProofs`

`EventTransformerProofs`, from `EventTransformerAssumption` (devices and addresses
are finitely many, the locks are modifiers, `None` is a value of its own). Each
rests on those before:

- `DeviceIdentities`. `DeviceId` counts, so UUIDs are different for different
  addresses (`UuidsInv`), devices that are plugged have different addresses, and
  what was recorded of a device is the UUID of its address.
- `ModifiersAsInSession`. `xkb` counts the keyboards on which a key is down
  (`HeldInv`, by cardinalities), so that xkb and the session make the same turn at
  the same stroke; they start in the same state or one turn apart and remain so
  (`LocksInv`).
- `IntervalsAddUp`. What `IntervalTracker` has under the UUID of a plugged device
  is the time of that device's last entry: an event of another device writes under
  another UUID, and a device that gets the address of a removed one has no last
  entry yet.
- `MovesAreDifferences`. The same for `previous_absolute`; `previous_touch` has the
  position of every touch that is down and nothing else (`TouchInv`), which is why
  no move spans two touches, or two devices of one UUID.
- `TouchesAreClicked`. `TouchInv` again: what a cancel or the removal of a device
  finds in `previous_touch` are its touches that are down, so these get a release
  and no others.
- `TypeOK`, with the ranges of the maps and of the counts of `xkb`.

`XEventTransformerProofs`, for any devices, ids and order of events, from
`XEventTransformerAssumption`:

- `TypeIsOfNamedDevice`. An entry takes type and name from two caches, which
  `emplace()` fills each on its own. That the two of an id are of one device
  (`NameMatchesType`) needs that they are known of the same ids: otherwise one
  could be kept and the other set.
- `RecordedTouchesEnd`. Beginning and end of a touch are recorded only if their id
  is known when they are read, and in between devices come, go and hand on ids. The
  invariant (`TouchInv`) says where in the queue beginning and end are: the end comes
  after the beginning and with the same source; the id of a touch keeps its device
  until the end is sent; and an id that is known is never forgotten. So what was
  known at the beginning is known at the end.
- `TypeOK`, with which an id that is known in one of the maps is in all those that
  are read with `at()`.

### The stores: `StoresProofs`

For all outputs, filters and events, from `StoresAssumption` (a builder sets only
members it has, to enumerators or texts, and `std::nullopt` is no enumerator):
`OnlyAllowedDevices`, `RecordedAsBuilt`, `TypeOK` and `ReadsAsIntended`, which no run
checks by that name: every row and document says of each member what some builder of an allowed
device was given. One half is about the lists written out: the order of `Build`, the
fields of `entry.h` and the columns of the tables have the same names at the same
positions for each type of entry (`ListsAgree`), an enumerator that is written as a
number is read back from the table of its kind (`UnderlyingRoundTrip`), so that an
entry reads as it was built (`RowReadsAsBuilt`, `DocumentReadsAsBuilt`). The other is
the invariant that whatever is between the filter and the stores, in the buffer, in
what was taken, in the merged batch and in each store, was built by a builder that was
given and has passed the filter; the filter looks at a position that is that of
`device_type` in every type of entry.

`RecordedAsBuilt` says more: that all allowed entries are there, once, in their order.
What is on its way is a queue (`Queue`), from the batch being written over the buffer to
the entries of the event being handled. The invariant (`OrderOK`) is that all good
outputs have the same records before the current batch, that an output the batch has
reached has all of it besides, and that these records, followed by what passes of the
queue, are what was ever meant to be recorded. It needs `StagesOK`: an idle reader and
an idle writer have nothing under way. A step moves entries from one part of the queue
to the next (`MergeOrder`), drops what does not pass (`ReaderOrder`), adds to its end
(`EventOrder`) or takes the batch off its front (`FinishOrder`). That needs to know of
`FlattenSeq`, a recursive function, that it puts sequences one after another
(`FlattenConcat`). An induction over sequences is written out for it as a
counterexample of least length, because the library's induction theorems cannot be
instantiated.

### Only model-checked

- Liveness: `EveryBatchIsWritten`, `ErrorStopsScheduler`, `HandlersRun`,
  `ExceptionEndsProcess`, `StoppedProcessEnds`, `EveryEventReturned`. They rest on fairness, which is about
  `ENABLED`, and that is beyond the provers.

## Findings

The four violation runs are disagreements between the code and its own
documents; `PROJECT.json` quotes the lines.

1. Two `StoreCoroutine`s may be inside one `DatabaseStorage` at one time
   (`overlapping_calls`). The timer runs on another thread of the pool than the
   event loop, over the same stores. One of them may then report success for rows
   that are not in the file, and a handle may be left behind with the lock, after
   which nothing is stored until evget ends (`LostLockStopsStoring`).
2. `Scheduler::Stop` does not end the thread of the event loop
   (`stop_ends_threads`).
3. X11 scroll amounts are not those of the raw event (`x11_scroll`).
4. A window that closes while the fields of an entry are asked for ends evget
   with an X error (`focus_window`), although `x11.cpp:229` handles "window does
   not exist" and `x11.h:168` promises "`nullopt` if unavailable".

Seen while modelling, without a run of its own:

- X11 key releases are recorded as presses: `KeyEvent` is called for raw events
  and compares their type with the cooked `XI_KeyRelease`
  (`event_switch_pointer_key.h:207`; `KeyAction` of `XEventTransformer`), while
  `docs/ARCHITECTURE.md:37` says of `button_action` "Whether the event was caused
  by a button press, release, or repeat."
- A JSON output that cannot be opened is not reported, neither at the start nor
  by `StoreEvent` (`json_storage.cpp:42`); `RecordedAsBuilt` excepts it from
  completeness. The same line throws, and so stops the scheduler, on a text that is not
  UTF-8, such as the name of a window: `Stores` has no such texts.
- Batches taken by the timer and by the event loop may be stored in the other
  order; `InOrderPerTaker` is as much as holds.
- On an early return of `main` the timer coroutine may drop the last reference
  to the scheduler on a thread of its own pool. `DestroyedUnused` covers the way
  through `Join`.
- A store error, or any other stop, between the failure of the event source and its
  handler drops the handler: evget ends with exit code 0, and the event handler is not
  stopped, although `scheduler.h:64` says of `SpawnResult` that it "stops the inner
  running task handler on a result error". The process does end (`StoppedProcessEnds`).
- After the event source fails, `Join` still waits: only `Stop` ends the timer.
- A libinput device that gets the address of a removed one takes over its UUID
  and its last absolute position. `DeviceIdentities` is stated for devices that
  are plugged at the same time.
- `Interval::Tick` says "If a tick has been missed, then the timer keeps firing
  until the time has caught up" (`interval.h:31-33`). The code does not:
  `Reset` sets the timer to a period from the late return (`interval.cpp:24`,
  `interval.cpp:40`), and the ticks that were missed never come. No property demands
  them: `TicksWithinTime` bounds the ticks from above and holds of both. For the
  write path little is lost, as a tick that catches up would find the buffer just
  flushed.
- "Store events at least every interval" (`cli.cpp:70`): a batch waits for at
  most a period while the timer counts, but the time by which the coroutine is
  resumed late, its own writes among it, comes on top of that.
- `GetActiveWindow` promises "`nullopt` if no active window" (`x11.h:149`). When
  the window manager says that there is none (a property of 0), the result is
  window 0: the focus window is not asked for, and the name is recorded as an
  empty text. Without `_NET_WM_NAME` on the display `WM_NAME` is not tried.
- `GetFocusWindow` is to return the "window ID, `nullopt` if no focus window"
  (`x11.h:158`), and returns `nullopt` always: `XGetInputFocus` has the result 1,
  which the code compares with `Success`, 0 (`x11.cpp:288`). When there is no
  `_NET_ACTIVE_WINDOW` nothing is recorded of a window.
- The position of a window is put together from two requests; a window that is
  taken out of its frame between them is recorded at its place in the frame.
  The fields are those of the moment of transforming, while
  `docs/ARCHITECTURE.md:16` speaks of "the window in focus at the time of the
  event".
- CapsLock or NumLock that was on when evget started is recorded the wrong way
  round until evget ends (`ModifiersAsInSession` says so).
- An X11 id that is used again for another device keeps the type and name of the
  first, although `docs/ARCHITECTURE.md:22` says of `device_type` "The type of
  the device that generated the event." Keys are the exception: their type is always
  that of a keyboard, under the name of the first device (`TypeIsOfNamedDevice`).
- A button of an X11 pointer for which the server has no mapping or no labels ends
  evget: its name is looked up with `at()`, and `SetButtonMap` has set none
  (`event_switch.cpp:31`, `event_switch.cpp:38`). In the model a refresh may leave
  any pointer without names.
- libinput entries have the modifiers from before a key, X11 entries those of
  the moment at which the event is transformed.

## Not modelled

- The text of numbers and times, the layout of JSON, the types of columns and
  the schema graph; binding of values and typed readers of columns, which keep no
  state that outlives a row.
- Single calls of the X11 wrapper, and of libinput's: their answers are inputs of
  the models. `QueryPointer`: answers of the server at the moment of
  transforming; the hazard list says what that means for an entry.
- DRM screen dimensions: constants after the start. The Windows backend: a stub.
  `event/graph.h`: a template that nothing but its own test uses.
- The parsing of options by a library, help texts and logging; that
  `--store-n-events` and `--store-after-seconds` are positive are assumptions of
  `DatabaseManager` and `StoreAfter`.
- Button names, key names and characters; texts that are not UTF-8.
- `Migration::exec`: the one migration that is shipped has it set.

## Plan

1. `Stores` over `DatabaseManager`, so that overlapping writes carry entries; a
   JSON stream that turns bad in the middle of a document.
2. A server that moves on between an event and `QueryPointer`, in
   `XEventTransformer`.
3. What is left to a call that does overlap: which of its rows may be durable with
   whose commit.
