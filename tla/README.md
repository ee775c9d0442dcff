# chat-store in TLA+

A verification development of chat-store, the testnet directory service for
keypackages and account device lists. The modules model the program under
`src/`, TLC checks them on small instances, and TLAPS proves the central
properties for every instance. `PROJECT.json` lists components, runs, mutants,
the map from definitions to source lines, findings, hazards and theorems.

## The system

| Component | State | Operations | Interacts with |
|---|---|---|---|
| Store (`src/src/store.rs`) | three SQLite tables, a tokio mutex `write_lock`, a pool of 5 connections (1 for `:memory:`) | `insert`, `upsert_account`, `put_account_log`, `prune_key_packages`, `prune_accounts`; reads `latest`, `get_account`, `get_account_log` | shared by every handler, the ingest thread and the prune task |
| Schema (`src/migrations`) | `keypackages` keyed by (device, ms), one row per account in `account_bundles` and `account_logs` | | |
| Bundle pipeline (`src/src/bundle.rs`) | none | decode, length and signature checks, lamport check, `apply_*`, outcome to error | called by both wires, calls Store |
| HTTP handlers (`src/src/handlers*`) | none; one future per request, dropped when the client leaves | three POSTs, three GETs, error to status | axum |
| Delivery ingestion (`src/src/delivery.rs`) | the embedded node's queue, one thread | callback, `recv`, `ingest_*` | the network; `block_on` into the runtime |
| Lifecycle and prune task (`src/src/main.rs`) | command line | open, spawn prune loop, start delivery, bind, serve, graceful shutdown | everything |
| Benchmark (`src/examples/benchmark.rs`) | arguments, worker threads, the server process and its temporary database | start and await a server, error paths, flows of seven requests, join, kill and remove | HTTP, and the life of the server process |

What is hard here: every mutation crosses several awaits, at each of which
other tasks run, the future may be dropped, the process may end or a statement
may fail; a dropped future releases the mutex at once while the connection's
worker thread still finishes what it was handed; two of the methods decide from
a SELECT and write later; ordering and retention rest on the wall clock; the
network repeats and reorders. What makes the service correct:

* Store: the compare-and-swap on lamports and on log prefixes, the worth of an
  acknowledgement until it expires, prune bounds, no `SQLITE_BUSY`, no caller
  waiting for ever.
* Pipeline and handlers: only authentic bytes are stored; the result a caller
  sees is true.
* Delivery: no message blocks those behind it; late and repeated ones do no harm.
* Lifecycle: a restart loses nothing acknowledged; shutdown ends; the flags
  mean what their help text says.
* Benchmark: a flow fails only with the server or its own request, it reports what happened, and
  leaves nothing behind.

## Modules

| Module | What it is |
|---|---|
| `Lamport` | the header of a device list as bytes: the server's decoding, the client's encoding |
| `Store` | the store, its callers reduced to tasks; properties |
| `StoreInvariants` | the strengthenings that are inductive |
| `Registry` | the abstract specification of Store: three maps, one atomic step per call |
| `StoreRefinement` | the mapping under which Store implements Registry |
| `Bundle` | the pure functions between a submission and a store call, and back |
| `ChatStore` | the process: `Store` composed with handlers, ingest thread, start-up, shutdown |
| `Benchmark` | the benchmark program composed with the process it starts |
| `Config` | the retention flags: arithmetic at machine width, and the prune task's ticker |
| `MCStore`, `MCChatStore`, `MCBenchmark`, `MCConfig` | data for the instances TLC checks |
| `StoreProofs` | theorems: types, the compare-and-swap, the mutex |
| `StoreAckProofs` | theorems: acknowledged logs and device lists, timestamps |
| `StoreRefinementProofs` | theorem: Store implements Registry |
| `StoreKeyPackageProofs` | theorems: keypackages, their order, their prune |
| `ChatStoreProofs` | theorems: the process implements Store; what it inherits |
| `ResultProofs` | theorems: what is stored is authentic, what is answered is true |
| `ConfigProofs` | theorems: the prune under any flags |
| `BenchmarkProofs` | theorems: the benchmark's flows, its report, what it leaves behind; the header at the code's widths |

`Lamport <- Store <- StoreInvariants <- StoreRefinement` (which instantiates
`Registry`), and `Store <- Bundle <- ChatStore <- Benchmark`. The proofs are layered
the same way: `StoreProofs <- StoreAckProofs <- StoreRefinementProofs <-
StoreKeyPackageProofs <- ChatStoreProofs <- ResultProofs <- BenchmarkProofs`.
`Config` stands alone: what is a constant of `Store` (`retention`,
`max_per_identity`) is computed there.

### Store

A task is an HTTP handler, the ingest thread or the prune task. `pc[t]` is where
its method stands between two awaits; `call`, `stamp` and `outcome` are its
locals:

| pc | in the code |
|---|---|
| `lock` | waiting at `write_lock.lock().await` |
| `ready` | guard held, clock read, first statement to come |
| `excess` | `prune_key_packages` between its two DELETEs |
| `write` | the SELECT was answered with "store it"; the INSERT is to come |
| `commit` | INSERT done, SQLite's write lock held; COMMIT to come |
| `rollback` | the transaction was dropped, its ROLLBACK is queued |
| `return` | the method's result is there, the guard still held |

SQLite and sqlx are external and modelled as the store meets them.
`sqlite_writer` is SQLite's one write lock. `outdated` is the set of open read
snapshots that a later commit has overtaken: in WAL mode such a transaction
cannot be upgraded, and SQLite answers `SQLITE_BUSY` at once (`WriteBusy`). A
single statement waits instead, for at most the busy timeout (`BusyTimeout`).
Transactions, and statements a cancelled handler left in flight, occupy a
connection (`ConnectionFree`).

`Cancel` is axum dropping the handler's future at any await. The guard is
released in the same step. Depending on what had been handed to the connection's
worker thread, the method has had no effect, or the statement in flight (the
INSERT of a keypackage, a COMMIT) still takes effect though nobody learns of
it (`dropped`), or the transaction is rolled back later (`Rollback`). The ingest thread
and the prune task are never cancelled. `ProcessEnds` empties memory, and with
`:memory:` the tables. `Tick` and `ClockSetBack` move the wall clock that
`now_ms` reads; `IoFault` is any other error of a statement.

`acked` is a history variable: the calls answered with success to a caller that
was still there.

Data is abstracted: a keypackage bundle is a value, an account log a sequence of
entries ordered by `IsPrefix` (`freshness` is `AccountRecord::update`). Keys are
the canonical lower-case hex. A device list is a sequence of bytes, of which
`payload_lamport` reads the header as `store.rs` does; the instances have bytes
of two values and lamports of two bytes, so that `MaxLamport`, the code's
`u64::MAX`, is among the published ones.

### Registry

`Registry` says what a caller may rely on without knowing of locks, connections,
transactions or clocks: a call is invoked, takes effect in one step, and is
answered afterwards with what that step decided; it may also fail without
effect; a caller may leave, with the effect of its call or without; rows expire
oldest first, logs never; a restart ends all calls and keeps the maps, unless the
database is in memory. `StoreRefinement` maps
`pc`, `call` and `outcome` to the pending call and its answer and the tables to
themselves. The point at which a call takes effect is its autocommit statement,
or its COMMIT, or the SELECT from which it was refused. That the decision, taken
two awaits before the COMMIT, is still the right one when the COMMIT happens is
what the refinement is about: a write on a stale read breaks it.

### Bundle and ChatStore

A submission is a record of what the checks look at: whether it decodes, the
lengths of key and signature, who signed which bytes, how the key was spelled.
`admit` is the chain of checks before the store is called, in the code's order,
`apply` the store call, `result` and `status` the way back. `ChatStore` adds
`phase` (how far `main` and `delivery::start` have come), `inbound` (the node's
queue), `request` (what each task is serving) and `reply` (its last answer, a
history variable). `post` is a request up to its store call, `respond` its
answer, `hangUp` its cancellation, `deliver` the node's callback, `ingest` one
turn of the ingest loop. `nodeStops` is the node closing its `queue`: `recv`
still yields what was received before, and then fails, which ends the ingest
thread and nothing else. All other steps of Store are taken over unchanged, so
the refinement mapping to Store is the identity on its variables; what has to
be shown is that the callers only use it the way Store says. The GETs are
state functions: `fetch_account_log` answers an address that does not parse with
an error, 400, and an account without a row with `NoRow`, 404. A SELECT of a GET
that meets an I/O error, 500, changes no state; `Benchmark` has it, since there
a caller acts on it.

### Benchmark

`Benchmark` adds to `ChatStore` the state of its one client program: `stage`
(how far `main` is), the parsed `config`, each `worker`'s flow and request,
`joined` and `verdict`. Each worker posts through a handler of its own and
compares the answer with what `exercise_business_flow` expects; GETs are single
reads. Statements fail as they do in `ChatStore`: `serverFault` is an I/O error of any
task, `fetchFails` and `readFails` are a GET of a worker or of `main` answered 500.
The history variable `unlucky` is the set of workers one of whose own requests met
such an error. A signing key is its seed, which `sequence` computes. `Drop` is two steps,
the kill of the child and the removal of its files, and runs on every way out of
`main` after the server was started. Workers of a `main` that has failed go on
until the process ends.

### Config

`Config` follows one device and one account through restarts with other flags.
`start` multiplies days into seconds in a word of `Word` values, wrapping in a
release build; in a debug build an overflow is a panic, so such flags never
serve. `retention_ms` is the cast of `as_millis()`, `as_i64` the cast of the
limit. `interval` is tokio's: it panics on a zero period, which ends the prune
task silently, and completes its first tick at once. Both prunes may fail, after
either statement; the loop goes on.

The model also shows where the flags stop meaning what their help text says,
namely outside `Representable`. From 213503982335 days on, the retention in
milliseconds is cut to 64 bits and can be arbitrarily short, in debug builds too;
`--max-per-identity` from 2^63 on, the natural way to ask for no limit, is a
negative rank, so every prune deletes every keypackage.

## Runs

Passing runs:

| Run | Question |
|---|---|
| `store_accounts` | does the lamport compare-and-swap hold, is an acknowledged list safe for its retention, and is the store atomic to its callers, with a cancelled handler, I/O errors and restarts? |
| `store_keypackages` | are acknowledged keypackages served, in order, within the prune's bounds; does `write_lock` exclude `SQLITE_BUSY` when nobody is cancelled; is the store atomic, on keypackages and logs? |
| `store_memory` | with the single connection of `:memory:`, a cancelled handler and a clock that jumps, does every call return, without `SQLITE_BUSY`, and do expired rows go? |
| `service_bundles` | are stored bytes authentic for the whole process, on both wires; does it implement Store; are 204, 400 and 409 true when given, and true until the list they speak of has expired and is pruned, with a clock that passes the retention, hang-ups and restarts? |
| `service_logs` | both for logs over HTTP, whose answers stay true for ever; is a log append-only, and an acknowledged one kept for ever, with hang-ups, kills and clock changes? |
| `service_liveness` | is every queued message ingested, through store errors and when the node has stopped; does a prune pass whose first half failed go on to the second; does shutdown end? |
| `benchmark_flows` | does a flow fail only with the server or by an I/O error of its own request, is the report true, and is nothing left behind? |
| `config_flags` | do representable flags prune everything due, in time, and nothing else? |

Runs that show a disagreement between the code and what it says of itself:

| Run | What the code does |
|---|---|
| `store_samems` | a second valid keypackage in one millisecond is answered 500 |
| `store_replay` | after an account's row is pruned, an older bundle is accepted again |
| `store_cancelbusy` | a cancelled handler exposes the next mutation to `SQLITE_BUSY` |
| `service_uppercase` | a key accepted in upper case is not found in upper case |

### Bounds

Two handlers and the prune task are the smallest set in which a cancelled writer, a
second writer and the prune meet; more handlers only repeat those roles, since at
most one task holds the guard. One of the two may be cancelled (the theorems allow
all). One account or one device suffices because rows of different keys only
interact through the locks, which `store_keypackages` exercises across tables. In
`store_accounts` the device lists have the lamports 1 and `MaxLamport`, the latter
with two different lists, which gives a stale, a newer and a conflicting one. A log,
its extension and a fork (`service_logs`) give all four outcomes of `freshness`.
`MaxTime` bounds the clock; it exceeds `retention` in `store_accounts`,
`store_keypackages` and `store_memory`, so rows expire there. `store_keypackages`
has `max_per_identity` 1 and room for more rows, so both prune statements delete; in
that run nobody is cancelled and the clock is not set back. A cancelled handler's
INSERT may land after a later one, or after the prune's last DELETE: then row ids do
not follow timestamps and the bounds hold only after the next prune. With the clock
set back, `latest` hides a new bundle behind an older one: `received_at` is all the
order there is, so the property is not claimed of such a clock. Rows expire in one
service run, `service_bundles`, where the clock goes one past the retention and the
data are device lists, of which answers speak; the keypackages posted there are
spoilt ones, and honest ones reach the store in `store_keypackages`,
`benchmark_flows` and `service_uppercase`. In the other service runs the clock does
not exceed `retention`. `MaxInbound` 2 lets a bad message lie before a good one in
`service_liveness`, and lets the node stop with messages in the queue; that run
posts a single device list, which is enough for a request to be in flight at
shutdown. `benchmark_flows` runs one flow, and three on two workers,
which is the smallest case with a remainder to split. On the network is a stranger's
device list, so that the ingest thread takes the lock beside the flows; what a
forged one comes to is seen in `service_bundles`. Every statement may meet an I/O
error. The run ends within a retention window, as the benchmark does, so its prunes delete nothing; with `MaxTime` 1 the clock stands
still once the server has started, and it is `FlowsSucceed` that speaks of a clock
that moves. All times are differences: the code's clock is milliseconds since 1970,
the models' is counted from the start of the run, and no property or theorem
compares a time with anything but other times. `config_flags` has words of four
bits, days of two seconds and seconds of two milliseconds: one day is representable,
four and five days overflow milliseconds, eight overflow seconds, and a limit of
eight is negative. Time passes there only when the prune task has nothing to do,
that is, a pass takes much less than an interval. `CHECK_DEADLOCK` is never switched
off.

### Fairness

`FairSpec` and `FairServiceSpec` assume: tokio's mutex queues its waiters in
order, so a waiter that keeps asking is served (strong fairness of `Acquire`); a
statement is executed, or ended by the busy timeout (weak fairness of
`Statement \/ BusyTimeout`); a ready task is polled (`Return`, `respond`); the
interval keeps firing (`PruneTick`, in Store only); start-up, the ingest thread
and the end of `main` are not starved. Nothing is assumed of clients, the network, faults,
the clock or the shutdown signal.

## Proofs

The constants are only assumed to be what the code makes them: the prune task is not
a handler, only handlers are cancelled, lamports are naturals, logs are sequences,
`NoRow` is no row, `None` no call and no number (`TasksAssumption`,
`DataAssumption`, `BoundsAssumption`, `CallsAssumption`, `LamportAssumption`, and
for the composition `CallersAssumption`, `RepliesAssumption` and
`AdmittedAssumption`; for `Config` `ConfigAssumption`). For `Benchmark`,
`BenchmarkAssumption` has at most `SequenceShift` operations (2^32 in the code) and
a connection for each worker, and `FlowsAssumption` says that what the flows post
are submissions. That nobody else signs with the flows' keys is not among them:
`signing_key` is a fixed function of a number, so anybody could. It is the
hypothesis `KeysUnused` of the theorems on the flows, and `MCKeysUnused` of the
instance. Sets of tasks, keys and data may be infinite. TLC evaluates all of them on
the instances.

| Theorem | Property | Further assumptions | Inductive invariant |
|---|---|---|---|
| `TypeCorrect` | `TypeOK` | | `TypeInv`: types, and which call a task can carry where |
| `DecisionsHold` | `ReadStillHolds` | | `SwapInv` |
| `BundleMonotone` | `BundleReplacedOnlyByNewer` | | `SwapInv` |
| `LogsAppendOnly` | `LogAppendOnly` | durable database | `SwapInv` |
| `MutualExclusion` | `MutexInv` | no cancellation | `TypeInv /\ MutexInv /\ NoBusy` |
| `LockPreventsBusy` | `NoBusy` | no cancellation | the same |
| `AckedLogsExtended` | `AckedLogExtended` | durable database | `SwapInv /\ LogAckInv` |
| `StampsOrdered` | `StampInv` | clock not set back | `SwapInv /\ StampInv` |
| `AckedBundlesProtected` | `AckedBundleProtected` | durable database, clock not set back | `SwapInv /\ StampInv /\ BundleAckInv` |
| `StoreImplementsRegistry` | `ImplementsRegistry` | | `SwapInv /\ MapInv` |
| `LatestInsertedServed` | `LatestIsLastInserted` | no cancellation, clock not set back | `MutexInv`, `PrimaryKey`, `OrderInv` |
| `AckedKeyPackagesServed` | `AckedKeyPackageServed` | durable database, clock not set back, limit not 0 | `PrimaryKey`, `KeyPackageAckInv` |
| `PruneBounds` | `PruneBoundsHistory` | no cancellation | `MutexInv`, `PrimaryKey`, `HistoryInv` |
| `ServiceImplementsStore` | `ImplementsStore` | the process may end | `InboundType` |
| `ServiceTypeCorrect` | `ServiceTypeOK` | the process may end | `TypeInv /\ CallerTypes` |
| `ServiceKeepsLogs` | `AckedLogExtended` | a database file | the theorems it combines |
| `ServiceKeepsBundles` | `AckedBundleProtected`, `AckedKeyPackageServed` | a database file, clock not set back, limit not 0 | the theorems it combines |
| `ServiceImplementsRegistry` | `ImplementsRegistry` | the process may end | the theorems it combines |
| `OnlyAuthentic` | `OnlyAuthenticStored` | the process may end | `AuthInv` |
| `AnswersHonest` | `ResultsHonest` | a database file, clock not set back | `HonestInv`: `SwapInv`, `StampInv`, `CallerTypes`, `GuardInv`, `ReturnTold`, `RequestInv`, `RepliesTyped` |
| `PrunesOnlyDue` | `PrunesOnlyWhatIsDue` | | `ConfigTypes` |
| `PrunedOnTime` | `PrunedInTime` | | `ConfigTypes /\ PassInv` |
| `LeavesNothing` | `LeavesNothingBehind` | | `CleanInv` |
| `FlowsSucceed` | `FlowsFailOnlyWithServer` | `Undisturbed`, `HeaderCarries`, the clock `Within(T)` | `BenchInv(T)` |
| `ReportTrue` | `ReportIsTrue` | the same | `BenchInv(T) /\ VerdictInv` |
| `HeaderRoundTrip` | the lamport read is the one encoded, for every u64 | `CodeWidths` | none: about operators |
| `LamportIsWord` | the lamport read is a u64 or none, for any bytes | `CodeWidths` | none: about operators |

"The process may end" is `"crash" \in Faults`: Store has to allow for it, as
`ChatStore` always does. Each invariant was model-checked before it was proved.

*Compare-and-swap.* The properties speak of one step, but a COMMIT writes what
was decided two steps earlier, possibly by a handler that no longer holds the
guard. `ReadStillHolds` closes the gap: a transaction that can still write would
decide the same now. It is inductive because every commit puts the other open
snapshots into `outdated`, and because whoever is about to commit owns SQLite's
write lock (`WriterCommits`). The mutex plays no part: anti-replay rests on the
transaction alone, which is why cancellation cannot break it.

*SQLITE_BUSY.* Here only the mutex helps. `MutexInv` says that whoever is inside
a method holds the guard; its proof needs `Cancellable = {}`, and
`store_cancelbusy` shows that the hypothesis cannot be dropped.

*Acknowledged lists.* The retention argument needs timestamps to grow with
commits although a cancelled writer may still be committing when the next one
has read the clock. `StampInv` says that whoever has still to decide holds the guard
(`DecidersGuarded`) and has a timestamp no earlier than any commit under way
(`DecidersLater`) and than the row it would replace (`RowsEarlier`); then a
replacement never shortens a retention and the prune's cutoff never reaches a
protected row. A clock set back breaks this.

*Bytes.* The proofs only need that the lamport of a payload that is published is a
natural number (`DataAssumption`), so they hold whatever the header's layout.

*Store implements Registry.* Every step of Store is shown to be one of Registry's
under the mapping, or to change nothing it sees. `insert` and `Commit` are the
points at which a call takes effect: at the latter `SwapInv` says that what the SELECT
decided is what Registry decides from the row of that instant. A SELECT that
refuses is Registry's refusal. The DELETEs are expiries, and `ExcessIsOldest` is
why the second one takes the oldest rows of a device first, which needs the rows
to be finitely many. `MapInv` says that timestamps are times of the clock,
that a method that returns has a result, and that the table is finite. The theorem has no
hypotheses: linearizability does not depend on the mutex, on the clock or on
nobody being cancelled.

*Keypackages.* `PrimaryKey` makes a row its device and timestamp. For
`LatestIsLastInserted` timestamps must follow row ids, `OrderInv`; it needs the
guard to be held until the INSERT is done, so no cancellation, and a clock that is
not set back. An acknowledged keypackage needs less: a row at least as late stays,
because the first DELETE spares what is within the retention and the second keeps
the newest row of every device if the limit is not zero (`KeyPackageAckInv`), and
a cancelled handler's late INSERT only adds one. `HistoryInv` says what the first
DELETE has achieved by the time of the second.

*The process.* Each action of `ServiceNext` is shown to be an action of Store or
to leave its variables alone; the process ending in any way is Store's `Crash`.
What is proved of Store therefore holds of the service.

*Authenticity.* `AdmitsGenuine` shows that the checks of `admit`, in the order of
the code, admit exactly what `Genuine` says at once. `CallsVouched`: every call
inside the store is that of a genuine submission. `RowSource`: a row that was not
there before is that of such a call.

*Answers.* `Told(c, r)` is what a result says of the tables. It is true when a
method comes to its end (`RefusalTold` for a refusing SELECT, `CommitTold`), stays
true while others write (`ToldStep`: logs only grow, so a log that forked off stays
forked off, `ForksStep`; lists only get newer, `FreshStep`), and is handed to the
caller whose submission the call is (`RequestInv`, which fails if a cancelled call
could be taken for that of the next request). Only the prune of a row past its
retention ends what was said of a device list, and it must not do so between the end
of the method and the answer: `GuardInv` says that a handler still there to answer
holds the guard until it does, so no prune runs meanwhile (`ReturnTold`). From then
on the answer is in `reply`, and `SaidStep` says that each step keeps it true or
prunes the list it speaks of after its time (`Lapses`). How far the clock runs does
not matter; `ReplayNeverDowngrades` is what happens after the lapse.

*Flags.* `Cutoff` shows that for representable flags neither multiplication and
neither cast loses anything, for any word size; the rows that rank up to a row that
the second DELETE takes are all no older than it, however ties are broken
(`DeletedWasDue`).
`PassInv` follows a pass: it starts on the tick, is over before the clock moves,
and leaves only rows that are within the window until an interval later.

*Benchmark: what it leaves.* `CleanInv`: a server that is down has no task in any
method, and `main` reaches its end from before the server was started or through
both steps of `Drop`.

*Benchmark: its flows.* `BenchInv(T)` ties a worker to the handler that serves it.
`FlowInv` says that they agree: nothing is under way, or the worker's POST is in the
store and carries the call of that POST, or its answer is there and has the expected
status; or its request met an I/O error (`Faulted`, `Failed`) and the worker is
`unlucky`; otherwise the server is gone. `Progress` says which rows each flow has:
earlier flows of the worker are complete, later ones not begun, the current one as
far as its step, all with timestamps from T on. Three facts keep others out of a
flow's rows. `KeysApart`: sequence numbers of different workers differ, which needs
no more than `SequenceShift` operations. `ForeignKeys`: the ingest thread serves
only what passed the checks, so what was signed with somebody else's keys, under
`KeysUnused`. And the prune: its cutoff never passes T, because it reads the clock
while the server runs (`CutoffStays`), and its second DELETE leaves the only
keypackage of a device if the limit is not zero. That no POST meets an `SQLITE_BUSY`
or the busy timeout is `NoBusy`, from the lock. An I/O error the lock cannot keep
away: it fails the flow whose request it hits, and `FlowFaults` and `FlowFrame` show
that it fails no other flow.

The hypotheses are needed. `Undisturbed`: a client that gives up leaves a
statement in flight that makes the next one fail (`store_cancelbusy`); an
in-memory database is lost with the process; a limit of zero deletes every
keypackage; a stranger who signs with the key of a flow publishes under it, and
the flow's own list is then stale. `Within(T)`: the clock stays within one retention of some
time T, such as that of the start, for as long as there is a server; a row stamped before
T, or a clock that runs further, would let the prune take a row of a flow under way. The
program starts its server with the default of 30 days. `HeaderCarries`: the
server reads versions 1 and 2 from the two lists of a flow; a big-endian reading is
a mutant of `benchmark_flows`, and `CodeCarries` proves it for the code.

*Benchmark: its report.* `VerdictInv`: `main` returns `Ok` only after every worker did.
`FlowsCounted` numbers the operations 1 to n and maps them one to one onto the flows'
keys, so `split_work` hands out every operation once, remainder included.

*The header.* `CodeWidths` is bytes of 256 values and lamports of 8 bytes. There
the recursion of `from_le_bytes` and `to_le_bytes` has a known depth: `EightBytes`
and `Remainders` exhibit a function that satisfies the recursive equation, so the
one that the definition chooses does too, and unroll it. Then each byte is what a
division by 256 leaves, and eight of them come back to the number that was split
(`LittleEndian`). `LamportIsWord` also shows that `DataAssumption`'s "a lamport is a
natural number" is true of the code.

## Only model-checked, and why

Liveness (`CallsReturn`, `ExpiredRowsGo`, `InboundIngested`, `PruneGoesOn`,
`ShutdownCompletes`) is outside the prover's reach. Every invariant and action
property of the passing runs is also proved, under the assumptions of the table.
What the recursive `from_le_bytes` computes is proved for the code's eight bytes;
for an arbitrary number of bytes it would take induction over data, which the prover
does not have.

## Not modelled

* sqlx's acquire timeout (a caller waits for a connection, which is always
  released), corrupt stored logs, which only `put_account_log` could have written;
* what axum rejects before a handler runs (bad JSON, body limit, wrong method),
  keep-alive connections during shutdown, and HTTP formatting;
* of the benchmark: its client's timeout of 15 s, Ctrl-C (which kills it without
  running `Drop`), its node stopping, other clients of its server and so anybody
  hanging up on it, another process taking the reserved port, and its timing. Its
  server is started without `--no-delivery`, so it joins the network although
  `benchmark.rs` ends with "without contacting an external server"; the model has
  that delivery, and a stranger's message in it;
* the smoke tests: one checks none of the answers it prints, the other waits for
  messages that the network may lose;
* packaging and CI.

## Plan

Done: `Lamport`, `Store`, its invariants and proofs; `Registry` and that Store
implements it; `Bundle`; `ChatStore`, its refinement of Store, the authenticity of
what it stores and the truth of what it answers; `Benchmark`, its flows, its report
and what it leaves behind; the header at the code's widths; `Config`. Nothing of
the plan is left. What could follow is liveness, should a prover for it come
within reach, and the client's timeout in the benchmark.
