------------------------------- MODULE Store -------------------------------
(***************************************************************************)
(* The SQLite-backed store (src/src/store.rs): three tables behind one     *)
(* tokio mutex (write_lock) and a connection pool.  Every method is split  *)
(* at its await points, because that is where other tasks, the connection  *)
(* worker threads and the end of the process can interleave:               *)
(*                                                                         *)
(*   idle -> lock -> ready --------------------------------> return        *)
(*                     |    (one autocommit statement, or two)   ^         *)
(*                     +--> write --> commit --------------------+         *)
(*                           (transaction that reads first)                *)
(*                                                                         *)
(* Reads (latest, get_account, get_account_log) are one statement each and *)
(* change nothing: they are state functions.                               *)
(***************************************************************************)
EXTENDS Lamport, FiniteSets

CONSTANTS
  Handlers,      \* callers of the write methods: HTTP handlers, ingest thread
  Cancellable,   \* the HTTP handlers: axum drops them when the client leaves
  Pruner,        \* the background prune task
  Devices, KeyPackages,       \* device_id keys, opaque keypackage bundles
  Accounts, AccountPayloads,  \* account keys, signed device-list payloads
  Entries, Logs,              \* signed account logs: sequences of entries
  NoRow,         \* absent row
  is_memory,     \* the path is ":memory:"
  retention, max_per_identity,
  MaxTime,       \* bound on the clock
  Faults         \* environment faults: "crash", "io", "clock", "node"

Tasks == Handlers \cup {Pruner}
Time  == 0 .. MaxTime

ASSUME TasksAssumption ==
  /\ Pruner \notin Handlers
  /\ None \notin Tasks
  /\ Cancellable \subseteq Handlers
ASSUME DataAssumption ==
  /\ \A p \in AccountPayloads : payload_lamport(p) \in Nat
  /\ Logs \subseteq Seq(Entries)
  /\ NoRow \notin [payload : AccountPayloads, updated_at : Nat]
  /\ NoRow \notin [signed_log : Logs, updated_at : Nat]
ASSUME BoundsAssumption ==
  /\ retention \in Nat
  /\ max_per_identity \in Nat
  /\ MaxTime \in Nat
  /\ is_memory \in BOOLEAN
  /\ Faults \subseteq {"crash", "io", "clock", "node"}

VARIABLES
  keypackages,      \* committed rows
  account_bundles,  \* account -> committed row or NoRow
  account_logs,     \* account -> committed row or NoRow
  write_lock,       \* task holding the mutex guard, or None
  sqlite_writer,    \* task whose connection holds SQLite's write lock, or None
  outdated,         \* open read snapshots that a later commit has overtaken
  dropped,          \* cancelled tasks whose statement is still in flight
  pc, call, stamp, outcome,  \* per task: the method's progress and locals
  now,              \* SystemTime, ms
  acked             \* calls answered with success, with their timestamp

tables  == <<keypackages, account_bundles, account_logs>>
locks   == <<write_lock, sqlite_writer, outdated, dropped>>
locals  == <<pc, call, stamp, outcome>>
vars    == <<tables, locks, locals, now, acked>>

KeyPackageRows == [rowid : Nat, device_id : Devices, received_at : Nat,
                   bundle : KeyPackages]
AccountRows    == [payload : AccountPayloads, updated_at : Nat]
LogRows        == [signed_log : Logs, updated_at : Nat]

InsertCalls == [op : {"insert"}, key : Devices, bundle : KeyPackages]
UpsertCalls == [op : {"upsert_account"}, key : Accounts, payload : AccountPayloads]
PutCalls    == [op : {"put_account_log"}, key : Accounts, signed_log : Logs]
PruneCalls  == [op : {"prune_key_packages", "prune_accounts"}]
Calls       == InsertCalls \cup UpsertCalls \cup PutCalls

\* None is no call.
ASSUME CallsAssumption == None \notin Calls

\* The methods that read before they write, in one deferred transaction.
ReadsFirst == {"upsert_account", "put_account_log"}

\* Outcomes of a method.  The last four are the Err(_) cases.
Outcomes == {"none", "Updated", "Stale", "Identical", "Behind", "Diverged",
             "Constraint", "Busy", "Timeout", "Io"}

\* Rows, locks and locals have the types of the columns and of the methods'
\* variables; the prune's cutoff in particular never falls below zero.
TypeOK ==
  /\ keypackages \in SUBSET KeyPackageRows
  /\ account_bundles \in [Accounts -> AccountRows \cup {NoRow}]
  /\ account_logs \in [Accounts -> LogRows \cup {NoRow}]
  /\ write_lock \in Tasks \cup {None}
  /\ sqlite_writer \in Tasks \cup {None}
  /\ outdated \in SUBSET Tasks
  /\ dropped \in SUBSET Handlers
  /\ pc \in [Tasks -> {"idle", "lock", "ready", "excess", "write", "commit",
                       "rollback", "return"}]
  /\ call \in [Tasks -> Calls \cup PruneCalls \cup {None}]
  /\ stamp \in [Tasks -> Nat]
  /\ outcome \in [Tasks -> Outcomes]
  /\ now \in Time
  /\ acked \in SUBSET [call : Calls, stamp : Nat]

Init ==
  /\ keypackages = {}
  /\ account_bundles = [a \in Accounts |-> NoRow]
  /\ account_logs = [a \in Accounts |-> NoRow]
  /\ write_lock = None /\ sqlite_writer = None
  /\ outdated = {} /\ dropped = {}
  /\ pc = [t \in Tasks |-> "idle"]
  /\ call = [t \in Tasks |-> None]
  /\ stamp = [t \in Tasks |-> 0]
  /\ outcome = [t \in Tasks |-> "none"]
  /\ now = 0
  /\ acked = {}

-----------------------------------------------------------------------------
(* Reads.  ORDER BY received_at DESC LIMIT 1 returns one of `latest`.       *)

ofDevice(d) == {r \in keypackages : r.device_id = d}

latest(d) ==
  {r \in ofDevice(d) : \A s \in ofDevice(d) : s.received_at <= r.received_at}

get_account(a)     == account_bundles[a]
get_account_log(a) == account_logs[a]

-----------------------------------------------------------------------------
(* The connection pool and SQLite's locks.                                  *)

\* Faulty variants, here and below, show that the properties notice: each one
\* is a mutant of the definition that follows it and is used nowhere else.
max_connectionsShared == 5

max_connections == IF is_memory THEN 1 ELSE 5

\* Tasks that occupy a pooled connection between two steps: with an open
\* transaction, or with the statement a cancelled handler left in flight.
Connected == {t \in Tasks : \/ pc[t] \in {"write", "commit", "rollback"}
                            \/ pc[t] = "ready" /\ t \in dropped}

ConnectionFree(t) == Cardinality(Connected \ {t}) < max_connections

\* A commit that changed the database overtakes every other open snapshot.
Overtake(t) ==
  outdated' = (outdated \cup {u \in Tasks : pc[u] = "write"}) \ {t}

saturating_subUnchecked(a, b) == a - b

saturating_sub(a, b) == IF a > b THEN a - b ELSE 0

-----------------------------------------------------------------------------
(* Steps shared by every method.                                            *)

Goto(t, where) == pc' = [pc EXCEPT ![t] = where]

Finish(t, result) ==
  /\ Goto(t, "return")
  /\ outcome' = [outcome EXCEPT ![t] = result]
  /\ UNCHANGED <<call, stamp>>

Reset(t) ==
  /\ Goto(t, "idle")
  /\ call' = [call EXCEPT ![t] = None]
  /\ stamp' = [stamp EXCEPT ![t] = 0]
  /\ outcome' = [outcome EXCEPT ![t] = "none"]

DropGuardLeaked(t) == UNCHANGED write_lock

DropGuard(t) == write_lock' = IF write_lock = t THEN None ELSE write_lock

Enter(t, c) ==
  /\ Goto(t, "lock")
  /\ call' = [call EXCEPT ![t] = c]
  /\ stamp' = [stamp EXCEPT ![t] = 0]
  /\ outcome' = [outcome EXCEPT ![t] = "none"]

\* A verified submission enters its store method.
Submit(t, c) ==
  /\ pc[t] = "idle"
  /\ Enter(t, c)
  /\ UNCHANGED <<tables, locks, now, acked>>

\* The prune task's ticker fires.
PruneTick ==
  /\ pc[Pruner] = "idle"
  /\ Enter(Pruner, [op |-> "prune_key_packages"])
  /\ UNCHANGED <<tables, locks, now, acked>>

\* The guard is obtained, then the clock is read: a writer keeps now_ms() for
\* its row, the prune task the cutoff it computes from it.
TakeGuard(t) ==
  /\ pc[t] = "lock"
  /\ write_lock' = t
  /\ stamp' = [stamp EXCEPT ![t] =
                 IF t = Pruner THEN saturating_sub(now, retention) ELSE now]
  /\ Goto(t, "ready")
  /\ UNCHANGED <<tables, sqlite_writer, outdated, dropped, call, outcome, now, acked>>

AcquireUnlocked(t) == TakeGuard(t)

Acquire(t) == write_lock = None /\ TakeGuard(t)

\* The method returns: the guard goes, the caller has its answer.  The prune
\* task logs an error and goes on from the first prune to the second.
Answer(t) ==
  /\ pc[t] = "return"
  /\ DropGuard(t)
  /\ dropped' = dropped \ {t}
  /\ acked' = IF t \in Handlers \ dropped /\ outcome[t] \in {"Updated", "Identical"}
              THEN acked \cup {[call |-> call[t], stamp |-> stamp[t]]}
              ELSE acked
  /\ UNCHANGED <<tables, sqlite_writer, outdated, now>>

ReturnWithoutAccounts(t) == Answer(t) /\ Reset(t)

\* A faulty variant: `?` in the prune loop.
ReturnError(t) ==
  /\ Answer(t)
  /\ IF call[t] = [op |-> "prune_key_packages"] /\ outcome[t] = "Updated"
     THEN Enter(t, [op |-> "prune_accounts"])
     ELSE Reset(t)

Return(t) ==
  /\ Answer(t)
  /\ IF call[t] = [op |-> "prune_key_packages"]
     THEN Enter(t, [op |-> "prune_accounts"])
     ELSE Reset(t)

-----------------------------------------------------------------------------
(* Methods that run autocommit statements: SQLite makes each wait (busy     *)
(* handler, 5 s) for another connection's write transaction.                *)

Autocommit(t, where, op) ==
  /\ pc[t] = where
  /\ call[t].op = op
  /\ ConnectionFree(t)
  /\ sqlite_writer = None

sameKey(t) == {r \in ofDevice(call[t].key) : r.received_at = stamp[t]}

insert(t) ==
  /\ Autocommit(t, "ready", "insert")
  /\ sameKey(t) = {}
  /\ \E id \in {1} \cup {r.rowid + 1 : r \in keypackages} :
       /\ \A r \in keypackages : r.rowid < id
       /\ keypackages' = keypackages \cup
            {[rowid |-> id, device_id |-> call[t].key,
              received_at |-> stamp[t], bundle |-> call[t].bundle]}
  /\ Overtake(t)
  /\ Finish(t, "Updated")
  /\ UNCHANGED <<account_bundles, account_logs, write_lock, sqlite_writer,
                 dropped, now, acked>>

\* PRIMARY KEY (device_id, received_at): a second row in one millisecond.
insertConflict(t) ==
  /\ Autocommit(t, "ready", "insert")
  /\ sameKey(t) # {}
  /\ Finish(t, "Constraint")
  /\ UNCHANGED <<tables, locks, now, acked>>

pruneOld(t) ==
  /\ Autocommit(t, "ready", "prune_key_packages")
  /\ LET old == {r \in keypackages : r.received_at < stamp[t]}
     IN  /\ keypackages' = keypackages \ old
         /\ IF old = {} THEN UNCHANGED outdated ELSE Overtake(t)
  /\ Goto(t, "excess")
  /\ UNCHANGED <<account_bundles, account_logs, write_lock, sqlite_writer,
                 dropped, call, stamp, outcome, now, acked>>

rowNumberOldestFirst(r) ==
  1 + Cardinality({s \in ofDevice(r.device_id) : s.received_at < r.received_at})

rowNumberFromZero(r) ==
  Cardinality({s \in ofDevice(r.device_id) : s.received_at > r.received_at})

\* ROW_NUMBER() of a row in its device's history, newest first.
rowNumber(r) ==
  1 + Cardinality({s \in ofDevice(r.device_id) : s.received_at > r.received_at})

pruneExcess(t) ==
  /\ Autocommit(t, "excess", "prune_key_packages")
  /\ LET excess == {r \in keypackages : rowNumber(r) > max_per_identity}
     IN  /\ keypackages' = keypackages \ excess
         /\ IF excess = {} THEN UNCHANGED outdated ELSE Overtake(t)
  /\ Finish(t, "Updated")
  /\ UNCHANGED <<account_bundles, account_logs, write_lock, sqlite_writer,
                 dropped, now, acked>>

expiredAtCutoff(a, cutoff) ==
  account_bundles[a] # NoRow /\ account_bundles[a].updated_at <= cutoff

expired(a, cutoff) ==
  account_bundles[a] # NoRow /\ account_bundles[a].updated_at < cutoff

prune_accounts(t) ==
  /\ Autocommit(t, "ready", "prune_accounts")
  /\ account_bundles' = [a \in Accounts |-> IF expired(a, stamp[t]) THEN NoRow
                                            ELSE account_bundles[a]]
  /\ IF \E a \in Accounts : expired(a, stamp[t]) THEN Overtake(t)
     ELSE UNCHANGED outdated
  /\ Finish(t, "Updated")
  /\ UNCHANGED <<keypackages, account_logs, write_lock, sqlite_writer,
                 dropped, now, acked>>

\* The busy handler gives up while another connection is still writing.
BusyTimeout(t) ==
  /\ pc[t] \in {"ready", "excess"}
  /\ call[t].op \notin ReadsFirst
  /\ ConnectionFree(t)
  /\ sqlite_writer # None
  /\ Finish(t, "Timeout")
  /\ UNCHANGED <<tables, locks, now, acked>>

-----------------------------------------------------------------------------
(* Methods that read, decide and write in one deferred transaction.         *)

\* AccountRecord::update of the account-log crate, as put_account_log uses it.
freshness(stored, candidate) ==
  CASE candidate = stored                  -> "Identical"
    [] IsStrictPrefix(stored, candidate)   -> "Updated"
    [] IsStrictPrefix(candidate, stored)   -> "Behind"
    [] OTHER                               -> "Diverged"

upsert_accountSameLamport(c) ==
  IF account_bundles[c.key] # NoRow
       /\ payload_lamport(c.payload) < payload_lamport(account_bundles[c.key].payload)
  THEN "Stale" ELSE "Updated"

upsert_accountLastWins(c) == "Updated"

upsert_account(c) ==
  IF account_bundles[c.key] # NoRow
       /\ payload_lamport(c.payload) <= payload_lamport(account_bundles[c.key].payload)
  THEN "Stale" ELSE "Updated"

put_account_logAcceptsFork(c) ==
  IF account_logs[c.key] # NoRow
       /\ freshness(account_logs[c.key].signed_log, c.signed_log) \in {"Identical", "Behind"}
  THEN "Behind" ELSE "Updated"

put_account_log(c) ==
  IF account_logs[c.key] = NoRow THEN "Updated"
  ELSE freshness(account_logs[c.key].signed_log, c.signed_log)

Verdict(c) == IF c.op = "upsert_account" THEN upsert_account(c) ELSE put_account_log(c)

\* BEGIN and the SELECT that opens the snapshot; any verdict but Updated
\* drops the read-only transaction and returns.
Select(t) ==
  /\ pc[t] = "ready"
  /\ call[t].op \in ReadsFirst
  /\ ConnectionFree(t)
  /\ IF Verdict(call[t]) = "Updated"
     THEN Goto(t, "write") /\ UNCHANGED <<call, stamp, outcome>>
     ELSE Finish(t, Verdict(call[t]))
  /\ outdated' = outdated \ {t}
  /\ UNCHANGED <<tables, write_lock, sqlite_writer, dropped, now, acked>>

\* INSERT .. ON CONFLICT upgrades the snapshot to a write transaction.  SQLite
\* refuses at once, without the busy handler, when another connection is
\* writing or has committed since the snapshot was taken.
BeginWrite(t) ==
  /\ pc[t] = "write"
  /\ sqlite_writer = None
  /\ sqlite_writer' = t
  /\ Goto(t, "commit")
  /\ UNCHANGED <<tables, write_lock, outdated, dropped, call, stamp, outcome, now, acked>>

WriteStaleRead(t) == BeginWrite(t)

Write(t) == BeginWrite(t) /\ t \notin outdated

WriteBusy(t) ==
  /\ pc[t] = "write"
  /\ sqlite_writer # None \/ t \in outdated
  /\ Finish(t, "Busy")
  /\ outdated' = outdated \ {t}
  /\ UNCHANGED <<tables, write_lock, sqlite_writer, dropped, now, acked>>

Commit(t) ==
  /\ pc[t] = "commit"
  /\ IF call[t].op = "upsert_account"
     THEN /\ account_bundles' = [account_bundles EXCEPT ![call[t].key] =
                [payload |-> call[t].payload, updated_at |-> stamp[t]]]
          /\ UNCHANGED account_logs
     ELSE /\ account_logs' = [account_logs EXCEPT ![call[t].key] =
                [signed_log |-> call[t].signed_log, updated_at |-> stamp[t]]]
          /\ UNCHANGED account_bundles
  /\ sqlite_writer' = None
  /\ Overtake(t)
  /\ Finish(t, "Updated")
  /\ UNCHANGED <<keypackages, write_lock, dropped, now, acked>>

\* The ROLLBACK queued by a dropped transaction reaches its connection.
Rollback(t) ==
  /\ pc[t] = "rollback"
  /\ sqlite_writer' = IF sqlite_writer = t THEN None ELSE sqlite_writer
  /\ outdated' = outdated \ {t}
  /\ dropped' = dropped \ {t}
  /\ Reset(t)
  /\ UNCHANGED <<tables, write_lock, now, acked>>

-----------------------------------------------------------------------------
(* The environment.                                                         *)

\* A statement fails (disk full, I/O error): SQLite rolls back, `?` returns.
IoFault(t) ==
  /\ "io" \in Faults
  /\ pc[t] \in {"ready", "excess", "write", "commit"}
  /\ sqlite_writer' = IF sqlite_writer = t THEN None ELSE sqlite_writer
  /\ outdated' = outdated \ {t}
  /\ Finish(t, "Io")
  /\ UNCHANGED <<tables, write_lock, dropped, now, acked>>

\* The handler's future is dropped at an await: its guard goes at once, but a
\* statement already handed to the connection's worker thread still runs, and
\* an open transaction is rolled back by that thread later.
Cancel(t) ==
  /\ t \in Cancellable \ dropped
  /\ DropGuard(t)
  /\ \/ /\ pc[t] \in {"lock", "ready", "return"}
        /\ Reset(t)
        /\ UNCHANGED dropped
     \/ /\ pc[t] \in {"ready", "commit"}
        /\ pc[t] = "ready" => call[t].op = "insert" /\ ConnectionFree(t)
        /\ dropped' = dropped \cup {t}
        /\ UNCHANGED locals
     \/ /\ pc[t] \in {"write", "commit"}
        /\ Goto(t, "rollback")
        /\ dropped' = dropped \cup {t}
        /\ UNCHANGED <<call, stamp, outcome>>
  /\ UNCHANGED <<tables, sqlite_writer, outdated, now, acked>>

\* The process ends at any point and is started again on the same path.
ProcessEnds ==
  /\ IF is_memory
     THEN /\ keypackages' = {}
          /\ account_bundles' = [a \in Accounts |-> NoRow]
          /\ account_logs' = [a \in Accounts |-> NoRow]
     ELSE UNCHANGED tables
  /\ write_lock' = None /\ sqlite_writer' = None
  /\ outdated' = {} /\ dropped' = {}
  /\ pc' = [t \in Tasks |-> "idle"]
  /\ call' = [t \in Tasks |-> None]
  /\ stamp' = [t \in Tasks |-> 0]
  /\ outcome' = [t \in Tasks |-> "none"]
  /\ UNCHANGED <<now, acked>>

Crash == "crash" \in Faults /\ ProcessEnds

\* now_ms() reads SystemTime: it advances, or the system clock is set back.
Tick ==
  /\ now < MaxTime
  /\ now' = now + 1
  /\ UNCHANGED <<tables, locks, locals, acked>>

ClockSetBack ==
  /\ "clock" \in Faults
  /\ now > 0
  /\ now' = now - 1
  /\ UNCHANGED <<tables, locks, locals, acked>>

-----------------------------------------------------------------------------
Statement(t) ==
  \/ insert(t) \/ insertConflict(t)
  \/ pruneOld(t) \/ pruneExcess(t) \/ prune_accounts(t)
  \/ Select(t) \/ Write(t) \/ WriteBusy(t) \/ Commit(t) \/ Rollback(t)

Next ==
  \/ \E t \in Handlers, c \in Calls : Submit(t, c)
  \/ PruneTick
  \/ \E t \in Tasks : Acquire(t)
  \/ \E t \in Tasks : Statement(t)
  \/ \E t \in Tasks : BusyTimeout(t)
  \/ \E t \in Tasks : Return(t)
  \/ \E t \in Tasks : IoFault(t)
  \/ \E t \in Handlers : Cancel(t)
  \/ Crash
  \/ Tick
  \/ ClockSetBack

Spec == Init /\ [][Next]_vars

\* tokio runs every ready task and its mutex is FIFO, so no waiter is passed
\* over for ever; a statement runs or its busy timeout ends it; the interval
\* keeps firing.
Fairness ==
  /\ \A t \in Tasks : SF_vars(Acquire(t))
  /\ \A t \in Tasks : WF_vars(Statement(t) \/ BusyTimeout(t)) /\ WF_vars(Return(t))
  /\ WF_vars(PruneTick)

FairSpec == Spec /\ Fairness

-----------------------------------------------------------------------------
(* Properties.                                                              *)

\* The anti-replay compare-and-swap of upsert_account: while an account has a
\* row, the row (its retention clock updated_at included) is only ever
\* replaced under a strictly higher lamport, whatever publishes, prunes,
\* cancellations and crashes interleave between the SELECT and the COMMIT.
BundleReplacedOnlyByNewer ==
  [][\A a \in Accounts :
       /\ account_bundles[a] # NoRow
       /\ account_bundles'[a] # NoRow
       /\ account_bundles'[a] # account_bundles[a]
       => payload_lamport(account_bundles'[a].payload)
            > payload_lamport(account_bundles[a].payload)]_vars

\* What a 204 for /v0/account is worth: for `retention` from its updated_at
\* the account is served this bundle or one with a higher lamport, across
\* concurrent publishes, prune runs, cancelled handlers and restarts.
AckedBundleProtected ==
  \A e \in acked : e.call.op = "upsert_account" /\ e.stamp >= now - retention =>
    /\ get_account(e.call.key) # NoRow
    /\ payload_lamport(get_account(e.call.key).payload) >= payload_lamport(e.call.payload)

\* What a 204 for /v1/account is worth: every later read serves a log that
\* extends the acknowledged one, for ever (logs are not pruned).
AckedLogExtended ==
  \A e \in acked : e.call.op = "put_account_log" =>
    /\ get_account_log(e.call.key) # NoRow
    /\ IsPrefix(e.call.signed_log, get_account_log(e.call.key).signed_log)

\* A stored account log is never rewritten: each step keeps it as a prefix,
\* and its updated_at moves only when the log grows.
LogAppendOnly ==
  [][\A a \in Accounts : account_logs[a] # NoRow /\ account_logs'[a] # account_logs[a] =>
       /\ account_logs'[a] # NoRow
       /\ IsStrictPrefix(account_logs[a].signed_log, account_logs'[a].signed_log)]_vars

\* What a 204 for /v0/keypackage is worth: for `retention` from received_at
\* the device is served a bundle, received no earlier, even though both prune
\* statements, other inserts and restarts come in between.
AckedKeyPackageServed ==
  \A e \in acked : e.call.op = "insert" /\ e.stamp >= now - retention =>
    \E r \in latest(e.call.key) : r.received_at >= e.stamp

\* `latest` serves the bundle inserted last (store.rs: "the most recently
\* received bundle"): reading the clock under the write lock makes timestamp
\* order the insertion order of a device's rows.
LatestIsLastInserted ==
  \A d \in Devices : \A r \in latest(d), s \in ofDevice(d) : s.rowid <= r.rowid

\* prune_key_packages does what it says when it returns: at most
\* max_per_identity rows per device, none older than its cutoff, although its
\* two DELETEs are separate transactions.
PruneBoundsHistory ==
  pc[Pruner] = "return" /\ call[Pruner].op = "prune_key_packages"
                        /\ outcome[Pruner] = "Updated" =>
    /\ \A d \in Devices : Cardinality(ofDevice(d)) <= max_per_identity
    /\ \A r \in keypackages : r.received_at >= stamp[Pruner]

\* The reason for write_lock: while no handler is cancelled, no mutation of any
\* table fails with SQLITE_BUSY, neither at once (the upgrade of a snapshot)
\* nor after the busy timeout.
NoBusy == \A t \in Tasks : outcome[t] \notin {"Busy", "Timeout"}

\* The comment in upsert_account: without the lock "concurrent mutations can
\* otherwise race to upgrade their shared read locks and fail with SQLITE_BUSY".
NoUpgradeRace == \A t \in Tasks : outcome[t] # "Busy"

\* README, POST /v0/keypackage: 204 on success, 400 on malformed input or a
\* bad signature; a valid bundle is stored.
ValidKeyPackageStored ==
  \A t \in Tasks : pc[t] = "return" /\ call[t].op = "insert" => outcome[t] = "Updated"

\* README, anti-replay: "a replayed older-but-still-valid bundle cannot
\* downgrade the device list".
ReplayNeverDowngrades ==
  \A e \in acked : e.call.op = "upsert_account" /\ get_account(e.call.key) # NoRow =>
    payload_lamport(get_account(e.call.key).payload) >= payload_lamport(e.call.payload)

\* Every submission gets its answer: nobody waits for ever for the write
\* lock, for a connection or for SQLite.
CallsReturn == \A t \in Handlers : pc[t] = "lock" ~> pc[t] = "idle"

\* Retention is enforced: an account row past its retention does not stay.
ExpiredRowsGo ==
  \A a \in Accounts : expired(a, now - retention) ~> ~expired(a, now - retention)
=============================================================================
