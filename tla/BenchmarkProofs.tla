-------------------------- MODULE BenchmarkProofs --------------------------
(***************************************************************************)
(* What the benchmark leaves behind, that its flows fail only with the     *)
(* server, and that its report is true, for any number of workers and      *)
(* flows: theorems about Benchmark.                                        *)
(***************************************************************************)
EXTENDS Benchmark, ResultProofs

\* The tables of a database that was never written, or was removed.
EmptyTables ==
  /\ keypackages = {}
  /\ account_bundles = [a \in Accounts |-> NoRow]
  /\ account_logs = [a \in Accounts |-> NoRow]

\* A server that is down does nothing; main exits only when it is down.
CleanInv ==
  /\ phase = "down" => \A t \in Tasks : pc[t] = "idle"
  /\ stage \in {"args", "spawn", "remove", "exited"} => phase = "down"
  /\ stage = "args" => config = None
  /\ stage \in {"args", "spawn"} => EmptyTables
  /\ stage = "exited" /\ config # None /\ ~config.keep_db => EmptyTables

\* While the server is down only the clock moves in it.
LEMMA DownIsQuiet ==
  ASSUME CleanInv, phase = "down",
         server \/ serverFault \/ \E w \in Threads : exercise_business_flow(w)
  PROVE  UNCHANGED <<phase, pc, keypackages, account_bundles, account_logs, stage, config>>
<1>1. ASSUME NEW w \in Threads, exercise_business_flow(w)
      PROVE  UNCHANGED <<phase, pc, keypackages, account_bundles, account_logs, stage, config>>
  BY <1>1 DEF exercise_business_flow, send, post, receive, fetch, fetchFails, sendFails, Conclude,
    WorkerBecomes, allVars, vars, tables, locals, service
<1>2. ASSUME server
      PROVE  UNCHANGED <<phase, pc, keypackages, account_bundles, account_logs, stage, config>>
  <2>1. \A t \in Tasks : ~Acquire(t) /\ ~BusyTimeout(t) /\ ~Return(t)
    BY DEF CleanInv, Acquire, TakeGuard, BusyTimeout, Return, Answer
  <2>2. \A t \in Tasks : ~Statement(t)
    BY DEF CleanInv, Statement, insert, insertConflict, pruneOld, pruneExcess, prune_accounts,
      Autocommit, Select, Write, BeginWrite, WriteBusy, Commit, Rollback
  <2>3. ~startNode /\ ~subscribeKeys /\ ~subscribeAccts /\ ~spawnIngest /\ ~bind
    BY DEF startNode, subscribeKeys, subscribeAccts, spawnIngest, bind, Advance
  <2>4. ~startFails /\ ~kill /\ ~ingest /\ ~prune /\ \A m \in Messages : ~deliver(m)
    BY DEF startFails, kill, ingest, recv, Ingesting, prune, deliver, Subscribed, Running
  <2>5. clock
    BY <1>2, <2>1, <2>2, <2>3, <2>4 DEF server, inStore, respond, Tasks
  <2> QED
    BY <1>2, <2>5 DEF server, clock, Tick, ClockSetBack, tables, locals, service, bench
<1>3. ~serverFault
  BY DEF CleanInv, serverFault, ioFault, IoFault
<1> QED
  BY <1>1, <1>2, <1>3

\* The process goes down in one way, and main comes to its end in three.
LEMMA CleanStep == CleanInv /\ [BenchmarkNext]_benchVars => CleanInv'
<1> SUFFICES ASSUME CleanInv, [BenchmarkNext]_benchVars PROVE CleanInv'
  OBVIOUS
<1> USE DEF CleanInv
<1>1. ASSUME UNCHANGED <<phase, pc, keypackages, account_bundles, account_logs, stage, config>>
      PROVE  CleanInv'
  BY <1>1 DEF EmptyTables
<1>2. CASE server \/ serverFault \/ \E w \in Threads : exercise_business_flow(w)
  <2>1. CASE phase = "down"
    BY <1>1, <1>2, <2>1, DownIsQuiet
  <2>2. CASE phase # "down"
    <3>1. UNCHANGED <<stage, config>>
      BY <1>2 DEF server, serverFault, bench, exercise_business_flow, send, receive, fetch,
        fetchFails, sendFails,
        Conclude, WorkerBecomes
    <3>2. ASSUME phase' = "down" PROVE Down
      <4>1. ASSUME NEW w \in Threads, exercise_business_flow(w) PROVE phase' = phase
        BY <4>1 DEF exercise_business_flow, send, post, receive, fetch, fetchFails, sendFails,
          allVars, service
      <4>2. ASSUME server PROVE Down
        BY <2>2, <3>2, <4>2 DEF server, startNode, subscribeKeys, subscribeAccts, spawnIngest, bind,
          Advance, startFails, kill, deliver, ingest, recv, respond, prune, inStore, clock, service
      <4>3. ASSUME serverFault PROVE phase' = phase
        BY <4>3 DEF serverFault, ioFault, service
      <4> QED
        BY <1>2, <2>2, <3>2, <4>1, <4>2, <4>3
    <3> QED
      BY <2>2, <3>1, <3>2 DEF Down, ProcessEnds
  <2> QED
    BY <2>1, <2>2
<1>3. CASE main
  <2>1. CASE parse_args \/ refuses
    BY <2>1 DEF parse_args, refuses, MainReturnsAtOnce, allVars, vars, tables, locals, service,
      EmptyTables
  <2>2. CASE start_local_server
    BY <2>2 DEF start_local_server, MainGoto, open, Advance
  <2>3. CASE wait_until_ready
    BY <2>3 DEF wait_until_ready, MainGoto, MainReturns, allVars, vars, locals, service
  <2>4. CASE unknownKeyPackage \/ unknownAccount \/ readFails
    BY <2>4 DEF unknownKeyPackage, unknownAccount, readFails, Expect, MainGoto, MainReturns,
      allVars, vars,
      locals, service
  <2>5. CASE malformedKeyPackage
    BY <2>5 DEF malformedKeyPackage, Expect, MainGoto, MainReturns, post, allVars, vars,
      locals, service
  <2>6. CASE spawnWorkers \/ join
    BY <2>6 DEF spawnWorkers, join, MainReturns, allVars, vars, locals, service
  <2>7. CASE dropKill
    BY <2>7 DEF dropKill, MainGoto, Down, ProcessEnds, allVars, vars, locals, service
  <2>8. CASE dropRemove
    BY <2>8 DEF dropRemove, MainGoto, locals, service, EmptyTables
  <2> QED
    BY <1>3, <2>1, <2>2, <2>3, <2>4, <2>5, <2>6, <2>7, <2>8 DEF main
<1>4. CASE exited \/ UNCHANGED benchVars
  BY <1>1, <1>4 DEF exited, benchVars, allVars, vars, tables, locals, service, bench
<1> QED
  BY <1>2, <1>3, <1>4 DEF BenchmarkNext

\* However the benchmark ends, by success, by a failed check or worker, by bad
\* arguments or by a server that died, it leaves no server and no database that
\* it was not asked to keep: Drop for LocalServer runs on every way out.
THEOREM LeavesNothing == BenchmarkSpec => []LeavesNothingBehind
<1>1. BenchmarkInit => CleanInv
  BY DEF BenchmarkInit, ServiceInit, Init, CleanInv, EmptyTables
<1>2. CleanInv => LeavesNothingBehind
  BY DEF CleanInv, LeavesNothingBehind, EmptyTables
<1> QED
  BY <1>1, <1>2, CleanStep, PTL DEF BenchmarkSpec

-----------------------------------------------------------------------------
(* What the flows are owed.                                                   *)

\* A client that waits for its answers, a database in a file that keeps at least
\* one keypackage per device, and a network on which nobody signs with the keys
\* of the flows, as in a benchmark that nobody interrupts.
Undisturbed ==
  /\ "crash" \in Faults /\ Cancellable = {} /\ ~is_memory /\ max_per_identity # 0
  /\ KeysUnused

\* The server reads from a device list the version that the client wrote, for
\* the two versions of a flow.
HeaderCarries ==
  \A version \in {1, 2} : payload_lamport(account_payload(version, <<>>)) = version

\* The clock stays within one retention of T for as long as there is a server.
Within(T) ==
  stage \in {"args", "spawn", "exited"} \/ (T <= now /\ now <= T + retention)

\* Until main removes the database.
Kept == stage # "exited" \/ config.keep_db

\* How many keypackages, and which device list, a flow has in the tables when
\* it comes to a step; 8 is the end of the flow.
PackageAt(w, o, step, T) ==
  LET rows == ofDevice(device_key(w, o))
  IN  IF step = 1 THEN rows = {}
      ELSE \E r \in rows : /\ rows = {r}
                           /\ r.bundle = keypackage_payload(w, o)
                           /\ r.received_at >= T

versionAt(step) == IF step <= 3 THEN 0 ELSE IF step <= 6 THEN 1 ELSE 2

ListAt(w, o, step, T) ==
  LET row == account_bundles[account_key(w, o)]
  IN  IF step <= 3 THEN row = NoRow
      ELSE /\ row # NoRow
           /\ row.payload = account_payload(versionAt(step), <<>>)
           /\ row.updated_at >= T

\* A worker's flows: the earlier ones are complete, the later ones not begun.
stepOf(w, o, step) ==
  IF o < worker[w].operation THEN 8 ELSE IF o = worker[w].operation THEN step ELSE 1

Progress(w, step, T) ==
  config # None /\ Kept => \A o \in 0 .. config.operations - 1 :
    PackageAt(w, o, stepOf(w, o, step), T) /\ ListAt(w, o, stepOf(w, o, step), T)

\* The POST a worker is waiting for: in the store, answered there, or answered.
Posted(w) == posts(w, worker[w].operation)[worker[w].step]

InFlight(w, T) ==
  /\ phase = "serving" /\ request[w] # None /\ reply[w] = None
  /\ call[w] = apply(Posted(w).body)
  /\ \/ /\ pc[w] \in {"lock", "ready", "write", "commit"}
        /\ pc[w] # "lock" => stamp[w] >= T
        /\ pc[w] \in {"write", "commit"} => worker[w].step \in {3, 6}
        /\ Progress(w, worker[w].step, T)
     \/ /\ pc[w] = "return"
        /\ status(result(outcome[w])) = Posted(w).expected
        /\ Progress(w, worker[w].step + 1, T)

Answered(w, T) ==
  /\ pc[w] = "idle" /\ reply[w] # None
  /\ status(reply[w].result) = Posted(w).expected
  /\ Progress(w, worker[w].step + 1, T)

\* A statement of the POST met an I/O error: its worker will be told, or is.
Faulted(w) ==
  /\ phase = "serving" /\ request[w] # None /\ reply[w] = None
  /\ call[w] = apply(Posted(w).body)
  /\ pc[w] = "return" /\ outcome[w] = "Io" /\ w \in unlucky

Failed(w) ==
  /\ pc[w] = "idle" /\ reply[w] # None
  /\ status(reply[w].result) = 500 /\ w \in unlucky

\* A worker and its handler agree, or the server is gone.
FlowInv(w, T) ==
  \/ worker[w].state = "Err" /\ pc[w] = "idle" /\ (phase = "down" \/ w \in unlucky)
  \/ worker[w].state = "running" /\ worker[w].sent /\ phase = "down" /\ reply[w] = None
  \/ /\ worker[w].state # "Err" /\ ~worker[w].sent
     /\ pc[w] = "idle" /\ Progress(w, worker[w].step, T)
  \/ /\ worker[w].state = "running" /\ worker[w].sent
     /\ InFlight(w, T) \/ Answered(w, T) \/ Faulted(w) \/ Failed(w)

WorkerRecords ==
  [state : {"unspawned", "running", "Ok", "Err"}, operation : Nat, step : 1 .. 7, sent : BOOLEAN]

\* Where a worker is.
WorkerTyped(w) ==
  /\ worker[w] \in WorkerRecords
  /\ worker[w].state = "unspawned" => worker[w] = idleWorker
  /\ worker[w].sent => worker[w].step \in {1, 3, 5, 6}
  /\ worker[w].state = "running" => worker[w].operation < split_work(w)
  /\ worker[w].state = "Ok" => worker[w].operation = split_work(w) /\ worker[w].step = 1

ValidArguments == {a \in Arguments : a.operations > 0 /\ a.concurrency > 0}

\* Where main is.
Early == {"wait", "keypackage404", "account404", "malformed400", "start"}
MainInv ==
  /\ stage \in {"args", "spawn", "join", "kill", "remove", "exited"} \cup Early
  /\ config \in ValidArguments \cup {None}
  /\ stage \in {"spawn", "join", "kill", "remove"} \cup Early => config # None
  /\ stage \in {"args", "spawn"} \cup Early => \A w \in Threads : worker[w].state = "unspawned"
  /\ stage \in Early \ {"wait"} => phase \in {"serving", "down"}
  /\ \A w \in Threads : worker[w].state # "unspawned" =>
       phase \in {"serving", "down"} /\ config # None /\ w < workers

\* The ingest thread serves messages of the network that passed the checks.
IngestInv ==
  pc[Ingest] # "idle" =>
    \E m \in Messages : m.kind \in Kinds /\ admit(m) = "Ok" /\ call[Ingest] = apply(m)

BenchInv(T) ==
  /\ TypeInv /\ CallerTypes /\ MutexInv /\ NoBusy
  /\ CleanInv /\ MainInv /\ IngestInv
  /\ stamp[Pruner] <= T
  /\ worker \in [Threads -> WorkerRecords]
  /\ \A w \in Threads : WorkerTyped(w) /\ FlowInv(w, T)

-----------------------------------------------------------------------------
(* The arithmetic of the keys and of the shares of work.                      *)

\* A multiple of S leaves room for S numbers before the next.
LEMMA Blocks ==
  ASSUME NEW S \in Nat, NEW u \in Nat, NEW w \in Nat, u < w
  PROVE  u * S \in Nat /\ w * S \in Nat /\ u * S + S <= w * S
<1>1. w - u - 1 \in Nat /\ w = u + 1 + (w - u - 1)
  OBVIOUS
<1> DEFINE d == w - u - 1
<1>2. w * S = u * S + S + d * S
  BY <1>1
<1>3. u * S \in Nat /\ d * S \in Nat
  BY <1>1
<1> HIDE DEF d
<1> QED
  BY <1>2, <1>3

\* Quotient and remainder.
LEMMA Division ==
  ASSUME NEW n \in Nat, NEW k \in Nat \ {0}
  PROVE  /\ n \div k \in Nat /\ n % k \in 0 .. k - 1
         /\ n = (n \div k) * k + (n % k)
  OBVIOUS

\* The first n % k workers do one operation more: dealing the operations out in
\* turn, the worker w does its operation o as number o * k + w.
LEMMA Shares ==
  ASSUME NEW n \in Nat, NEW k \in Nat \ {0}, NEW w \in 0 .. k - 1, NEW o \in Nat
  PROVE  o < n \div k + (IF w < n % k THEN 1 ELSE 0) <=> o * k + w < n
<1> DEFINE q == n \div k
           r == n % k
<1>1. q \in Nat /\ r \in 0 .. k - 1 /\ n = q * k + r
  BY Division
<1> HIDE DEF q, r
<1>0. q * k \in Nat /\ o * k \in Nat
  BY <1>1
<1>2. CASE o < q
  <2>1. o * k + k <= q * k
    BY <1>1, <1>2, Blocks
  <2> QED
    BY <1>0, <1>1, <1>2, <2>1 DEF q, r
<1>3. CASE o = q
  BY <1>0, <1>1, <1>3 DEF q, r
<1>4. CASE q < o
  <2>1. q * k + k <= o * k
    BY <1>1, <1>4, Blocks
  <2> QED
    BY <1>0, <1>1, <1>4, <2>1 DEF q, r
<1> QED
  BY <1>1, <1>2, <1>3, <1>4

\* Workers number their operations apart: no two flows share a sequence number.
LEMMA SequenceInjective ==
  ASSUME NEW w \in Threads, NEW u \in Threads,
         NEW o \in 0 .. SequenceShift - 1, NEW p \in 0 .. SequenceShift - 1
  PROVE  /\ sequence(w, o) \in Nat
         /\ sequence(w, o) = sequence(u, p) => w = u /\ o = p
<1>1. w \in Nat /\ u \in Nat /\ SequenceShift \in Nat
  BY BenchmarkAssumption DEF Threads
<1>2. w * SequenceShift \in Nat /\ u * SequenceShift \in Nat
  BY <1>1
<1>3. w < u => w * SequenceShift + SequenceShift <= u * SequenceShift
  BY <1>1, Blocks
<1>4. u < w => u * SequenceShift + SequenceShift <= w * SequenceShift
  BY <1>1, Blocks
<1> QED
  BY <1>1, <1>2, <1>3, <1>4 DEF sequence

\* Hence no two flows share a key.
LEMMA KeysApart ==
  ASSUME NEW w \in Threads, NEW u \in Threads,
         NEW o \in 0 .. SequenceShift - 1, NEW p \in 0 .. SequenceShift - 1
  PROVE  /\ device_key(w, o) = device_key(u, p) => w = u /\ o = p
         /\ account_key(w, o) = account_key(u, p) => w = u /\ o = p
  BY SequenceInjective DEF device_key, account_key

\* Every worker has some of the operations to do.
LEMMA SplitBounds ==
  ASSUME config \in ValidArguments, NEW w \in Threads, w < workers
  PROVE  /\ workers \in 1 .. config.operations /\ workers <= MaxConcurrency
         /\ split_work(w) \in 1 .. config.operations
         /\ config.operations \in 1 .. SequenceShift
<1>1. /\ config.operations \in Nat \ {0} /\ config.operations <= SequenceShift
      /\ config.concurrency \in Nat \ {0} /\ config.concurrency <= MaxConcurrency
      /\ SequenceShift \in Nat /\ MaxConcurrency \in Nat
  BY BenchmarkAssumption DEF ValidArguments
<1>2. workers \in 1 .. config.operations /\ workers <= MaxConcurrency
  BY <1>1 DEF workers, minimum
<1> DEFINE n == config.operations
           k == workers
<1>3. n \in Nat \ {0} /\ k \in Nat \ {0} /\ w \in 0 .. k - 1 /\ k <= n
  BY <1>1, <1>2 DEF Threads
<1>4. split_work(w) = n \div k + (IF w < n % k THEN 1 ELSE 0) /\ split_work(w) \in Nat
  <2>1. n \div k \in Nat
    BY <1>3, Division
  <2> QED
    BY <2>1 DEF split_work
<1> HIDE DEF n, k
<1>5. 0 < split_work(w)
  <2>1. 0 < n \div k + (IF w < n % k THEN 1 ELSE 0) <=> 0 * k + w < n
    BY <1>3, Shares
  <2> QED
    BY <1>3, <1>4, <2>1
<1>6. ~(n < split_work(w))
  <2>1. n * k \in Nat /\ n <= n * k
    <3>1. n * k = n * (k - 1) + n /\ n * (k - 1) \in Nat
      BY <1>3
    <3> QED
      BY <1>3, <3>1
  <2>2. ~(n * k + w < n)
    BY <1>3, <2>1
  <2>3. n < n \div k + (IF w < n % k THEN 1 ELSE 0) <=> n * k + w < n
    BY <1>3, Shares
  <2> QED
    BY <1>4, <2>2, <2>3
<1> QED
  BY <1>1, <1>2, <1>3, <1>4, <1>5, <1>6 DEF n

-----------------------------------------------------------------------------
(* What the benchmark posts.                                                  *)

\* The store call a POST of a flow is meant to be, and the answer to it.
FlowCall(w, o, step) ==
  IF step = 1
  THEN [op |-> "insert", key |-> device_key(w, o), bundle |-> keypackage_payload(w, o)]
  ELSE [op |-> "upsert_account", key |-> account_key(w, o),
        payload |-> account_payload(IF step = 6 THEN 2 ELSE 1, <<>>)]

FlowStatus(step) == IF step = 5 THEN 409 ELSE 204

\* The POSTs of a flow are genuine, and enter the store under the flow's keys.
LEMMA PostApplies ==
  ASSUME NEW a \in Arguments, NEW w \in Threads, NEW o \in 0 .. a.operations - 1,
         NEW step \in {1, 3, 5, 6}
  PROVE  /\ posts(w, o)[step].body \in Submissions
         /\ posts(w, o)[step].body.kind \in Kinds
         /\ admit(posts(w, o)[step].body) = "Ok"
         /\ apply(posts(w, o)[step].body) = FlowCall(w, o, step)
         /\ FlowCall(w, o, step) \in Calls
         /\ posts(w, o)[step].expected = FlowStatus(step)
<1> DEFINE s == posts(w, o)[step].body
           version == IF step = 6 THEN 2 ELSE 1
<1>1. s \in Submissions /\ device_key(w, o) \in Devices /\ account_key(w, o) \in Accounts
  BY FlowsAssumption
<1>2. posts(w, o)[step].expected = IF step = 5 THEN 409 ELSE 204
  BY DEF posts, publish_account
<1>3. /\ step = 1 => s = signed("keypackage", device_key(w, o), keypackage_payload(w, o))
      /\ step # 1 => s = signed("account", account_key(w, o), account_payload(version, <<>>))
  BY DEF posts, publish_account
<1> HIDE DEF s
<1>4. /\ s.decodes /\ s.keyLen = 32 /\ s.sigLen = 64 /\ s.by = s.key /\ s.over = s.payload
      /\ s.kind \in Kinds \ {"log"}
      /\ step = 1 => s.kind = "keypackage" /\ s.key = device_key(w, o)
                     /\ s.payload = keypackage_payload(w, o)
      /\ step # 1 => s.kind = "account" /\ s.key = account_key(w, o)
                     /\ s.payload = account_payload(version, <<>>)
  BY <1>3 DEF signed, Kinds
<1>5. step # 1 => payload_lamport(s.payload) \in Nat
  BY <1>4, FlowsAssumption, DataAssumption
<1>6. Genuine(s)
  BY <1>1, <1>4, <1>5 DEF Genuine, CurvePoints
<1>7. admit(s) = "Ok" /\ apply(s) \in Calls
  BY <1>1, <1>4, <1>6, AdmitsGenuine, AdmittedAssumption
<1> QED
  BY <1>1, <1>2, <1>4, <1>7 DEF s, apply, FlowCall, FlowStatus

\* The POST that main expects a 400 for gets it.
LEMMA MalformedRefused == malformed \in Submissions /\ admit(malformed) \in Refusals
<1>1. malformed.kind = "keypackage" /\ malformed.decodes = FALSE
  BY DEF malformed, signed
<1>2. malformed \in Submissions /\ malformed.kind \in Kinds /\ ~Genuine(malformed)
  BY <1>1, FlowsAssumption DEF Genuine, Kinds
<1> QED
  BY <1>2, AdmitsGenuine

-----------------------------------------------------------------------------
(* What other tasks leave alone.                                              *)

\* A device's only keypackage, not older than the prune's cutoff, stays, and
\* only an insert for the device adds one.
LEMMA DeviceRowsStay ==
  ASSUME TypeInv, max_per_identity # 0, NEW T \in Nat, stamp[Pruner] <= T,
         NEW t \in Tasks, Statement(t), NEW d \in Devices,
         \A r \in ofDevice(d) : r.received_at >= T,
         \A r, s \in ofDevice(d) : r = s,
         ~(call[t].op = "insert" /\ call[t].key = d)
  PROVE  ofDevice(d)' = ofDevice(d)
<1> USE DEF TypeInv, TypeOK
<1>1. CASE insert(t)
  BY <1>1 DEF insert, Autocommit, ofDevice
<1>2. CASE pruneOld(t)
  <2>1. t = Pruner
    BY <1>2 DEF pruneOld, Autocommit, CallTyped, Calls, InsertCalls, UpsertCalls, PutCalls, Tasks
  <2>2. \A r \in ofDevice(d) : r.received_at \in Nat /\ ~(r.received_at < stamp[t])
    BY <2>1 DEF ofDevice, KeyPackageRows, Tasks
  <2> QED
    BY <1>2, <2>2 DEF pruneOld, ofDevice
<1>3. CASE pruneExcess(t)
  <2>1. ASSUME NEW r \in ofDevice(d) PROVE ~(rowNumber(r) > max_per_identity)
    <3>1. r.device_id = d /\ r.received_at \in Nat
      BY DEF ofDevice, KeyPackageRows
    <3>2. {s \in ofDevice(r.device_id) : s.received_at > r.received_at} = {}
      BY <3>1
    <3>3. rowNumber(r) = 1 + 0
      BY <3>2, FS_EmptySet DEF rowNumber
    <3> QED
      BY <3>3, BoundsAssumption
  <2> QED
    BY <1>3, <2>1 DEF pruneExcess, ofDevice
<1>4. CASE ~insert(t) /\ ~pruneOld(t) /\ ~pruneExcess(t)
  <2>1. UNCHANGED keypackages
    BY <1>4 DEF Statement, insertConflict, prune_accounts, Select, Write, BeginWrite, WriteBusy,
      Commit, Rollback, tables
  <2> QED
    BY <2>1 DEF ofDevice
<1> QED
  BY <1>1, <1>2, <1>3, <1>4

\* So does an account's row, and only a COMMIT for the account changes it.
LEMMA ListRowStays ==
  ASSUME TypeInv, NEW T \in Nat, stamp[Pruner] <= T,
         NEW t \in Tasks, Statement(t), NEW a \in Accounts,
         account_bundles[a] # NoRow => account_bundles[a].updated_at >= T,
         ~(call[t].op = "upsert_account" /\ call[t].key = a)
  PROVE  account_bundles'[a] = account_bundles[a]
<1> USE DEF TypeInv, TypeOK
<1>1. CASE prune_accounts(t)
  <2>1. t = Pruner
    BY <1>1 DEF prune_accounts, Autocommit, CallTyped, Calls, InsertCalls, UpsertCalls, PutCalls,
      Tasks
  <2>2. account_bundles[a] # NoRow => account_bundles[a].updated_at \in Nat
    BY DEF AccountRows
  <2> QED
    BY <1>1, <2>1, <2>2 DEF prune_accounts, expired, Tasks
<1>2. CASE Commit(t)
  BY <1>2 DEF Commit
<1>3. CASE ~prune_accounts(t) /\ ~Commit(t)
  BY <1>3 DEF Statement, insert, insertConflict, pruneOld, pruneExcess, Select, Write, BeginWrite,
    WriteBusy, Rollback, tables
<1> QED
  BY <1>1, <1>2, <1>3

\* A task's own variables.
Untouched(w) ==
  /\ pc'[w] = pc[w] /\ call'[w] = call[w]
  /\ stamp'[w] = stamp[w] /\ outcome'[w] = outcome[w]

\* Only its own steps touch them.
LEMMA OthersLeave ==
  ASSUME TypeInv, NEW w \in Tasks, NEW t \in Tasks, t # w,
         Statement(t) \/ Acquire(t) \/ BusyTimeout(t) \/ Return(t) \/ IoFault(t)
           \/ \E c : Submit(t, c)
  PROVE  Untouched(w)
<1> USE DEF TypeInv, TypeOK, Untouched
<1>1. ASSUME Acquire(t) \/ BusyTimeout(t) \/ Return(t) \/ IoFault(t) PROVE Untouched(w)
  BY <1>1 DEF Acquire, TakeGuard, BusyTimeout, IoFault, Return, Finish, Enter, Reset, Goto
<1>2. ASSUME NEW c, Submit(t, c) PROVE Untouched(w)
  BY <1>2 DEF Submit, Enter, Goto
<1>3. ASSUME insert(t) \/ insertConflict(t) \/ pruneOld(t) \/ pruneExcess(t) \/ prune_accounts(t)
      PROVE  Untouched(w)
  BY <1>3 DEF insert, insertConflict, pruneOld, pruneExcess, prune_accounts, Finish, Goto
<1>4. ASSUME Select(t) \/ Write(t) \/ WriteBusy(t) \/ Commit(t) \/ Rollback(t) PROVE Untouched(w)
  BY <1>4 DEF Select, Write, BeginWrite, WriteBusy, Commit, Rollback, Finish, Reset, Goto
<1> QED
  BY <1>1, <1>2, <1>3, <1>4 DEF Statement

-----------------------------------------------------------------------------
(* The benchmark uses the process as ChatStore describes it.                  *)

\* A worker that runs is at one of the operations it was asked for.
LEMMA RunningWorker ==
  ASSUME NEW T, BenchInv(T), NEW w \in Threads, worker[w].state = "running"
  PROVE  /\ config \in ValidArguments /\ config \in Arguments /\ w < workers
         /\ worker[w].operation \in 0 .. config.operations - 1
         /\ split_work(w) \in 1 .. config.operations
         /\ worker[w].operation \in Nat /\ worker[w].step \in 1 .. 7
<1>1. /\ config \in ValidArguments /\ w < workers
      /\ worker[w].operation \in Nat /\ worker[w].operation < split_work(w)
      /\ worker[w].step \in 1 .. 7
  BY DEF BenchInv, MainInv, WorkerTyped, WorkerRecords
<1>2. split_work(w) \in 1 .. config.operations /\ config.operations \in Nat
  BY <1>1, SplitBounds
<1> QED
  BY <1>1, <1>2 DEF ValidArguments

\* A handler in the store is there for the POST its worker waits for.
LEMMA InService ==
  ASSUME NEW T, BenchInv(T), NEW w \in Threads, pc[w] # "idle"
  PROVE  /\ worker[w].state = "running" /\ worker[w].sent /\ worker[w].step \in {1, 3, 5, 6}
         /\ InFlight(w, T) \/ Faulted(w)
         /\ pc[w] # "return" => InFlight(w, T)
         /\ phase = "serving" /\ request[w] # None /\ reply[w] = None /\ Kept
         /\ call[w] = FlowCall(w, worker[w].operation, worker[w].step)
         /\ Posted(w).expected = FlowStatus(worker[w].step)
<1>1. w \in Tasks
  BY BenchmarkAssumption DEF Tasks, Http
<1>2. phase # "down" /\ Kept
  BY <1>1 DEF BenchInv, CleanInv, Kept
<1>3. worker[w].sent => worker[w].step \in {1, 3, 5, 6}
  BY DEF BenchInv, WorkerTyped
<1>4. /\ worker[w].state = "running" /\ worker[w].sent /\ worker[w].step \in {1, 3, 5, 6}
      /\ InFlight(w, T) \/ Faulted(w)
  BY <1>2, <1>3 DEF BenchInv, FlowInv, Answered, Failed
<1> DEFINE o == worker[w].operation
           i == worker[w].step
<1>5. o \in 0 .. config.operations - 1 /\ config \in Arguments /\ i \in {1, 3, 5, 6}
  BY <1>4, RunningWorker
<1>6. /\ Posted(w) = posts(w, o)[i] /\ call[w] = apply(Posted(w).body)
      /\ phase = "serving" /\ request[w] # None /\ reply[w] = None
      /\ pc[w] # "return" => InFlight(w, T)
  BY <1>4 DEF Posted, InFlight, Faulted
<1> HIDE DEF o, i
<1>7. call[w] = FlowCall(w, o, i) /\ Posted(w).expected = FlowStatus(i)
  BY <1>5, <1>6, PostApplies
<1> QED
  BY <1>2, <1>4, <1>6, <1>7 DEF o, i

\* No other task in the store is at a key of the worker's.
LEMMA ForeignKeys ==
  ASSUME KeysUnused, NEW T, BenchInv(T), NEW w \in Threads, NEW t \in Handlers, t # w,
         pc[t] # "idle", config # None, NEW o \in 0 .. config.operations - 1
  PROVE  /\ ~(call[t].op = "insert" /\ call[t].key = device_key(w, o))
         /\ ~(call[t].op = "upsert_account" /\ call[t].key = account_key(w, o))
<1>0. config \in Arguments /\ config.operations \in Nat /\ config.operations <= SequenceShift
      /\ SequenceShift \in Nat
  BY BenchmarkAssumption DEF BenchInv, MainInv, ValidArguments
<1>1. CASE t = Ingest
  <2>1. PICK m \in Messages : m.kind \in Kinds /\ admit(m) = "Ok" /\ call[t] = apply(m)
    BY <1>1 DEF BenchInv, IngestInv
  <2>2. m.key \notin {device_key(w, o), account_key(w, o)}
    <3>1. m.by \notin {device_key(w, o), account_key(w, o)}
      BY <1>0 DEF KeysUnused
    <3>2. m.by = m.key
      BY <2>1, AdmitsGenuine DEF Genuine, verify_strict
    <3> QED
      BY <3>1, <3>2
  <2>3. call[t].key = m.key
    BY <2>1 DEF apply, Kinds
  <2> QED
    BY <2>2, <2>3
<1>2. CASE t \in Threads
  <2> DEFINE p == worker[t].operation
  <2>1. worker[t].state = "running" /\ call[t] = FlowCall(t, p, worker[t].step)
    BY <1>2, InService
  <2>2. p \in 0 .. config.operations - 1
    BY <1>2, <2>1, RunningWorker
  <2>3. device_key(t, p) # device_key(w, o) /\ account_key(t, p) # account_key(w, o)
    <3>1. p \in 0 .. SequenceShift - 1 /\ o \in 0 .. SequenceShift - 1
      BY <1>0, <2>2
    <3> HIDE DEF p
    <3> QED
      BY <1>2, <3>1, KeysApart
  <2> HIDE DEF p
  <2> QED
    BY <2>1, <2>3 DEF FlowCall
<1> QED
  BY <1>1, <1>2, BenchmarkAssumption DEF Http

\* Apart from the removal of its files, whatever happens to the server could
\* happen to it anyway: the benchmark is one of its clients.
LEMMA IsService ==
  ASSUME "crash" \in Faults, NEW T, BenchInv(T), [BenchmarkNext]_benchVars, ~dropRemove
  PROVE  [ServiceNext]_allVars
<1>1. ASSUME NEW w \in Threads, send(w) PROVE ServiceNext
  <2>1. worker[w].state = "running" /\ worker[w].step \in {1, 3, 5, 6}
    BY <1>1 DEF send, Working
  <2>2. worker[w].operation \in 0 .. config.operations - 1 /\ config \in Arguments
    BY <2>1, RunningWorker
  <2>3. posts(w, worker[w].operation)[worker[w].step].body \in Submissions
    BY <2>1, <2>2, FlowsAssumption
  <2> QED
    BY <1>1, <2>3, BenchmarkAssumption DEF send, ServiceNext
<1>2. ASSUME NEW w \in Threads, receive(w) \/ fetch(w) \/ fetchFails(w) \/ sendFails(w)
      PROVE   UNCHANGED allVars
  BY <1>2 DEF receive, fetch, fetchFails, sendFails
<1>3. CASE malformedKeyPackage
  <2>1. 0 \in Http
    <3>1. config \in ValidArguments
      BY <1>3 DEF malformedKeyPackage, Expect, BenchInv, MainInv, Early
    <3> QED
      BY <3>1, BenchmarkAssumption DEF ValidArguments, Threads
  <2> QED
    BY <1>3, <2>1, MalformedRefused DEF malformedKeyPackage, ServiceNext
<1>4. CASE dropKill
  BY <1>4 DEF dropKill, kill, ServiceNext
<1>5. CASE start_local_server
  BY <1>5 DEF start_local_server, Starting, ServiceNext
<1>6. CASE parse_args \/ refuses \/ wait_until_ready \/ unknownKeyPackage \/ unknownAccount
           \/ readFails \/ spawnWorkers \/ join \/ exited \/ UNCHANGED benchVars
  BY <1>6 DEF parse_args, refuses, wait_until_ready, unknownKeyPackage, unknownAccount, readFails,
    spawnWorkers, join, exited, benchVars
<1>7. CASE server \/ serverFault
  BY <1>7 DEF server, serverFault, ServiceNext, Starting
<1> QED
  BY <1>1, <1>2, <1>3, <1>4, <1>5, <1>6, <1>7 DEF BenchmarkNext, main, exercise_business_flow

\* The part of the invariant that is the server's own.
LEMMA ServerInvStep ==
  ASSUME Undisturbed, NEW T, BenchInv(T), [BenchmarkNext]_benchVars
  PROVE  TypeInv' /\ CallerTypes' /\ MutexInv' /\ NoBusy'
<1> USE DEF BenchInv, Undisturbed
<1>1. CASE dropRemove
  <2>1. TypeInv'
    BY <1>1 DEF dropRemove, TypeInv, TypeOK, CallTyped, Transacting, tables, locks, locals
  <2>2. CallerTypes' /\ MutexInv' /\ NoBusy'
    BY <1>1 DEF dropRemove, CallerTypes, AnswerTypes, InboundType, MutexInv, NoBusy, locks, locals,
      service
  <2> QED
    BY <2>1, <2>2
<1>2. CASE ~dropRemove
  <2>1. [ServiceNext]_allVars
    BY <1>2, IsService
  <2>2. [Next]_vars
    BY <2>1, ServiceStep DEF CallerTypes
  <2> QED
    BY <2>1, <2>2, TypeStep, MutexStep, CallerTypesStep
<1> QED
  BY <1>1, <1>2

-----------------------------------------------------------------------------
(* Steps in which a worker and its handler take no part.                      *)

\* The rows of a flow stay while others use the store: their keys differ, and
\* within the retention the prune finds nothing.
LEMMA FlowRowsStay ==
  ASSUME Undisturbed, NEW T \in Nat, BenchInv(T), NEW w \in Threads, config # None,
         NEW o \in 0 .. config.operations - 1, NEW i \in 1 .. 8,
         NEW t \in Tasks, t # w, Statement(t)
  PROVE  /\ PackageAt(w, o, i, T) => PackageAt(w, o, i, T)'
         /\ ListAt(w, o, i, T) => ListAt(w, o, i, T)'
<1> DEFINE d == device_key(w, o)
           a == account_key(w, o)
<1>1. d \in Devices /\ a \in Accounts
  BY FlowsAssumption DEF BenchInv, MainInv, ValidArguments
<1>2. ~(call[t].op = "insert" /\ call[t].key = d)
      /\ ~(call[t].op = "upsert_account" /\ call[t].key = a)
  <2>1. pc[t] # "idle"
    BY DEF Statement, insert, insertConflict, pruneOld, pruneExcess, prune_accounts, Autocommit,
      Select, Write, BeginWrite, WriteBusy, Commit, Rollback
  <2>2. CASE t \in Handlers
    BY <2>1, <2>2, ForeignKeys DEF Undisturbed
  <2>3. CASE t = Pruner
    BY <2>1, <2>3 DEF BenchInv, TypeInv, CallTyped, PruneCalls
  <2> QED
    BY <2>2, <2>3 DEF Tasks
<1>3. TypeInv /\ stamp[Pruner] <= T /\ max_per_identity # 0
  BY DEF BenchInv, Undisturbed
<1> HIDE DEF d, a
<1>4. ASSUME PackageAt(w, o, i, T) PROVE PackageAt(w, o, i, T)'
  <2>1. /\ \A r \in ofDevice(d) : r.received_at >= T
        /\ \A r, s \in ofDevice(d) : r = s
    BY <1>4 DEF PackageAt, d
  <2>2. ofDevice(d)' = ofDevice(d)
    BY <1>1, <1>2, <1>3, <2>1, DeviceRowsStay
  <2> QED
    BY <1>4, <2>2 DEF PackageAt, d
<1>5. ASSUME ListAt(w, o, i, T) PROVE ListAt(w, o, i, T)'
  <2>1. account_bundles[a] # NoRow => account_bundles[a].updated_at >= T
    BY <1>5 DEF ListAt, a
  <2>2. account_bundles'[a] = account_bundles[a]
    BY <1>1, <1>2, <1>3, <2>1, ListRowStays
  <2> QED
    BY <1>5, <2>2 DEF ListAt, a
<1> QED
  BY <1>4, <1>5

\* So all of a worker's flows do.
LEMMA ProgressStays ==
  ASSUME Undisturbed, NEW T \in Nat, BenchInv(T), NEW w \in Threads,
         worker'[w].operation = worker[w].operation, UNCHANGED config, Kept' => Kept,
         UNCHANGED <<keypackages, account_bundles>> \/ \E t \in Tasks \ {w} : Statement(t),
         NEW i \in 1 .. 8, Progress(w, i, T)
  PROVE  Progress(w, i, T)'
<1> SUFFICES ASSUME config # None, Kept, NEW o \in 0 .. config.operations - 1,
                    NEW j \in 1 .. 8, j = stepOf(w, o, i)
             PROVE  PackageAt(w, o, j, T)' /\ ListAt(w, o, j, T)'
  BY DEF Progress, stepOf
<1>1. PackageAt(w, o, j, T) /\ ListAt(w, o, j, T)
  BY DEF Progress
<1>2. CASE UNCHANGED <<keypackages, account_bundles>>
  BY <1>1, <1>2 DEF PackageAt, ListAt, ofDevice
<1>3. CASE \E t \in Tasks \ {w} : Statement(t)
  BY <1>1, <1>3, FlowRowsStay
<1> QED
  BY <1>2, <1>3

\* A worker and its handler agree for as long as neither moves.
LEMMA FlowFrame ==
  ASSUME Undisturbed, NEW T \in Nat, BenchInv(T), NEW w \in Threads, worker'[w] = worker[w],
         UNCHANGED config, Kept' => Kept,
         UNCHANGED <<keypackages, account_bundles>> \/ \E t \in Tasks \ {w} : Statement(t),
         Untouched(w), request'[w] = request[w], unlucky \subseteq unlucky',
         (phase' = phase /\ reply'[w] = reply[w]) \/ worker[w].state = "unspawned"
  PROVE  FlowInv(w, T)'
<1>1. FlowInv(w, T) /\ worker[w].step \in 1 .. 7 /\ (worker[w].state = "unspawned" => ~worker[w].sent)
  BY DEF BenchInv, WorkerTyped, WorkerRecords, idleWorker
<1>2. PICK i \in 1 .. 7 : i = worker[w].step
  BY <1>1
<1>3. i \in 1 .. 8 /\ i + 1 \in 1 .. 8
  OBVIOUS
<1>4. Progress(w, i, T) => Progress(w, i, T)'
  BY <1>3, ProgressStays
<1>5. Progress(w, i + 1, T) => Progress(w, i + 1, T)'
  BY <1>3, ProgressStays
<1> QED
  BY <1>1, <1>2, <1>4, <1>5 DEF FlowInv, InFlight, Answered, Faulted, Failed, Posted, Untouched

-----------------------------------------------------------------------------
(* Steps of the handler that serves a worker.                                 *)

\* The GETs, and the POST that is refused, leave a flow where it is.
LEMMA QuietStep ==
  ASSUME NEW T, NEW w, NEW i \in {2, 4, 5, 7}, Progress(w, i, T) PROVE Progress(w, i + 1, T)
<1> SUFFICES ASSUME config # None, Kept, NEW o \in 0 .. config.operations - 1
             PROVE  /\ PackageAt(w, o, stepOf(w, o, i + 1), T)
                    /\ ListAt(w, o, stepOf(w, o, i + 1), T)
  BY DEF Progress
<1>1. PackageAt(w, o, stepOf(w, o, i), T) /\ ListAt(w, o, stepOf(w, o, i), T)
  BY DEF Progress
<1>2. ASSUME PackageAt(w, o, i, T), ListAt(w, o, i, T)
      PROVE  PackageAt(w, o, i + 1, T) /\ ListAt(w, o, i + 1, T)
  BY <1>2 DEF PackageAt, ListAt, versionAt
<1> QED
  BY <1>1, <1>2 DEF stepOf

\* A statement of the handler changes rows of its worker's current flow only.
LEMMA FlowMoves ==
  ASSUME NEW T \in Nat, BenchInv(T), NEW w \in Threads, UNCHANGED <<stage, config, worker>>,
         worker[w].state = "running", NEW i \in 1 .. 7, Progress(w, i, T), Kept,
         PackageAt(w, worker[w].operation, i, T) /\ ListAt(w, worker[w].operation, i, T) =>
           PackageAt(w, worker[w].operation, i + 1, T)' /\ ListAt(w, worker[w].operation, i + 1, T)',
         \A o \in 0 .. config.operations - 1 : o # worker[w].operation =>
           /\ ofDevice(device_key(w, o))' = ofDevice(device_key(w, o))
           /\ account_bundles'[account_key(w, o)] = account_bundles[account_key(w, o)]
  PROVE  Progress(w, i + 1, T)'
<1>1. config # None /\ worker[w].operation \in 0 .. config.operations - 1
  <2>1. config # None
    BY DEF BenchInv, MainInv
  <2> QED
    BY <2>1, RunningWorker
<1> SUFFICES ASSUME NEW o \in 0 .. config.operations - 1
             PROVE  /\ PackageAt(w, o, stepOf(w, o, i + 1), T)'
                    /\ ListAt(w, o, stepOf(w, o, i + 1), T)'
  BY DEF Progress
<1>2. PackageAt(w, o, stepOf(w, o, i), T) /\ ListAt(w, o, stepOf(w, o, i), T)
  BY <1>1 DEF Progress
<1>3. CASE o = worker[w].operation
  BY <1>2, <1>3 DEF stepOf
<1>4. CASE o # worker[w].operation
  <2>1. PICK j \in {1, 8} : /\ j = stepOf(w, o, i)
                            /\ j = stepOf(w, o, i + 1) /\ j = stepOf(w, o, i + 1)'
    BY <1>4 DEF stepOf
  <2>2. PackageAt(w, o, j, T)' /\ ListAt(w, o, j, T)'
    BY <1>2, <1>4, <2>1 DEF PackageAt, ListAt
  <2> QED
    BY <2>1, <2>2
<1> QED
  BY <1>3, <1>4

\* The keypackage of a flow is inserted, once.
LEMMA FlowInserts ==
  ASSUME NEW T \in Nat, BenchInv(T), NEW w \in Threads, UNCHANGED <<stage, config, worker>>,
         insert(w) \/ insertConflict(w)
  PROVE  /\ worker[w].step = 1 /\ insert(w) /\ Progress(w, 2, T)'
         /\ pc'[w] = "return" /\ outcome'[w] = "Updated"
<1> DEFINE o == worker[w].operation
           d == device_key(w, o)
<1>0. w \in Tasks /\ TypeInv
  BY BenchmarkAssumption DEF Tasks, Http, BenchInv
<1>1. pc[w] = "ready" /\ call[w].op = "insert"
  BY DEF insert, insertConflict, Autocommit
<1>2. /\ worker[w].state = "running" /\ InFlight(w, T) /\ Kept
      /\ call[w] = FlowCall(w, o, worker[w].step)
  BY <1>1, InService
<1>3. worker[w].step = 1 /\ call[w].key = d /\ call[w].bundle = keypackage_payload(w, o)
  BY <1>1, <1>2 DEF FlowCall
<1>4. stamp[w] >= T /\ Progress(w, 1, T)
  BY <1>1, <1>2, <1>3 DEF InFlight
<1>5. config # None /\ o \in 0 .. config.operations - 1 /\ config \in Arguments
  <2>1. config # None
    BY <1>2 DEF BenchInv, MainInv
  <2> QED
    BY <1>2, <2>1, RunningWorker
<1>6. ofDevice(d) = {} /\ ListAt(w, o, 1, T)
  BY <1>2, <1>4, <1>5 DEF Progress, stepOf, PackageAt
<1>7. insert(w)
  BY <1>3, <1>6 DEF insertConflict, sameKey
<1>8. PICK row : /\ keypackages' = keypackages \cup {row}
                 /\ row.device_id = d /\ row.received_at = stamp[w]
                 /\ row.bundle = keypackage_payload(w, o)
  <2>1. PICK id : keypackages' = keypackages \cup
                    {[rowid |-> id, device_id |-> call[w].key,
                      received_at |-> stamp[w], bundle |-> call[w].bundle]}
    BY <1>7 DEF insert
  <2> DEFINE new == [rowid |-> id, device_id |-> call[w].key,
                     received_at |-> stamp[w], bundle |-> call[w].bundle]
  <2>2. /\ keypackages' = keypackages \cup {new}
        /\ new.device_id = d /\ new.received_at = stamp[w]
        /\ new.bundle = keypackage_payload(w, o)
    BY <1>3, <2>1
  <2> HIDE DEF new
  <2> QED
    BY <2>2
<1>9. UNCHANGED account_bundles /\ pc'[w] = "return" /\ outcome'[w] = "Updated"
  BY <1>0, <1>7 DEF insert, Finish, Goto, TypeInv, TypeOK
<1>10. ofDevice(d)' = {row}
  BY <1>6, <1>8 DEF ofDevice
<1>11. PackageAt(w, o, 2, T)' /\ ListAt(w, o, 2, T)'
  <2>1. (o = worker[w].operation)'
    OBVIOUS
  <2>2. ListAt(w, o, 2, T)'
    BY <1>6, <1>9 DEF ListAt
  <2>3. PackageAt(w, o, 2, T)'
    BY <1>4, <1>8, <1>10 DEF PackageAt
  <2> QED
    BY <2>2, <2>3
<1>12. ASSUME NEW p \in 0 .. config.operations - 1, p # o
       PROVE  ofDevice(device_key(w, p))' = ofDevice(device_key(w, p))
  <2>1. /\ config.operations \in Nat /\ config.operations <= SequenceShift
        /\ SequenceShift \in Nat
    BY <1>5, BenchmarkAssumption
  <2>2. p \in 0 .. SequenceShift - 1 /\ o \in 0 .. SequenceShift - 1
    BY <1>5, <2>1
  <2>3. device_key(w, p) # d
    BY <1>12, <2>2, KeysApart
  <2> QED
    BY <1>8, <2>3 DEF ofDevice
<1>13. Progress(w, 2, T)'
  <2>1. PICK i \in 1 .. 7 : i = 1
    OBVIOUS
  <2>2. Progress(w, i + 1, T)'
    BY <1>2, <1>4, <1>9, <1>11, <1>12, <2>1, FlowMoves
  <2> QED
    BY <2>1, <2>2
<1> QED
  BY <1>3, <1>7, <1>9, <1>13

\* A device list of a flow is stored, under the next version.
LEMMA FlowCommits ==
  ASSUME NEW T \in Nat, BenchInv(T), NEW w \in Threads, UNCHANGED <<stage, config, worker>>,
         Commit(w)
  PROVE  /\ worker[w].step \in {3, 6} /\ Progress(w, worker[w].step + 1, T)'
         /\ pc'[w] = "return" /\ outcome'[w] = "Updated"
<1> DEFINE o == worker[w].operation
           a == account_key(w, o)
<1>0. w \in Tasks /\ TypeInv
  BY BenchmarkAssumption DEF Tasks, Http, BenchInv
<1>1. pc[w] = "commit"
  BY DEF Commit
<1>2. /\ worker[w].state = "running" /\ InFlight(w, T) /\ Kept
      /\ call[w] = FlowCall(w, o, worker[w].step)
  BY <1>1, InService
<1>3. PICK i \in 1 .. 7 : i = worker[w].step /\ i \in {3, 6}
  BY <1>1, <1>2 DEF InFlight
<1>4. stamp[w] >= T /\ Progress(w, i, T)
  BY <1>1, <1>2, <1>3 DEF InFlight
<1>5. /\ call[w].op = "upsert_account" /\ call[w].key = a
      /\ call[w].payload = account_payload(IF i = 6 THEN 2 ELSE 1, <<>>)
  BY <1>2, <1>3 DEF FlowCall
<1>6. config # None /\ o \in 0 .. config.operations - 1 /\ config \in Arguments
  <2>1. config # None
    BY <1>2 DEF BenchInv, MainInv
  <2> QED
    BY <1>2, <2>1, RunningWorker
<1>7. a \in Accounts
  BY <1>6, FlowsAssumption
<1>8. /\ account_bundles' = [account_bundles EXCEPT ![a] =
           [payload |-> call[w].payload, updated_at |-> stamp[w]]]
      /\ UNCHANGED keypackages
      /\ pc'[w] = "return" /\ outcome'[w] = "Updated"
  BY <1>0, <1>5 DEF Commit, Finish, Goto, TypeInv, TypeOK
<1>9. ASSUME PackageAt(w, o, i, T) PROVE PackageAt(w, o, i + 1, T)'
  BY <1>3, <1>8, <1>9 DEF PackageAt, ofDevice
<1>10. ListAt(w, o, i + 1, T)'
  <2>1. account_bundles'[a] = [payload |-> call[w].payload, updated_at |-> stamp[w]]
    BY <1>0, <1>7, <1>8 DEF TypeInv, TypeOK
  <2>2. account_bundles'[a] # NoRow
    <3>1. call[w] \in Calls
      BY <1>0, <1>1, <1>5 DEF TypeInv, CallTyped, PruneCalls
    <3>2. account_bundles'[a] \in AccountRows
      BY <1>0, <1>5, <2>1, <3>1 DEF Calls, InsertCalls, UpsertCalls, PutCalls, AccountRows, TypeInv,
        TypeOK
    <3> QED
      BY <3>2, DataAssumption DEF AccountRows
  <2> QED
    BY <1>3, <1>4, <1>5, <2>1, <2>2 DEF ListAt, versionAt
<1>11. ASSUME NEW p \in 0 .. config.operations - 1, p # o
       PROVE  account_bundles'[account_key(w, p)] = account_bundles[account_key(w, p)]
  <2>1. /\ config.operations \in Nat /\ config.operations <= SequenceShift
        /\ SequenceShift \in Nat
    BY <1>6, BenchmarkAssumption
  <2>2. p \in 0 .. SequenceShift - 1 /\ o \in 0 .. SequenceShift - 1
    BY <1>6, <2>1
  <2>3. account_key(w, p) # a /\ account_key(w, p) \in Accounts
    BY <1>6, <1>11, <2>2, KeysApart, FlowsAssumption
  <2> QED
    BY <1>0, <1>8, <2>3 DEF TypeInv, TypeOK
<1>12. Progress(w, i + 1, T)'
  <2>1. \A p \in 0 .. config.operations - 1 :
          ofDevice(device_key(w, p))' = ofDevice(device_key(w, p))
    BY <1>8 DEF ofDevice
  <2> QED
    BY <1>2, <1>4, <1>9, <1>10, <1>11, <2>1, FlowMoves
<1>13. Progress(w, worker[w].step + 1, T)'
  BY <1>3, <1>12
<1> QED
  BY <1>3, <1>8, <1>13

\* The SELECT lets the first list and the next version pass, and refuses the
\* list that is already stored.
LEMMA FlowSelects ==
  ASSUME HeaderCarries, NEW T \in Nat, BenchInv(T), NEW w \in Threads, Select(w)
  PROVE  /\ call'[w] = call[w] /\ stamp'[w] = stamp[w]
         /\ IF worker[w].step = 5 THEN pc'[w] = "return" /\ outcome'[w] = "Stale"
            ELSE pc'[w] = "write" /\ worker[w].step \in {3, 6}
<1> DEFINE o == worker[w].operation
           a == account_key(w, o)
           i == worker[w].step
<1>0. w \in Tasks /\ TypeInv
  BY BenchmarkAssumption DEF Tasks, Http, BenchInv
<1>1. pc[w] = "ready" /\ call[w].op \in ReadsFirst
  BY DEF Select
<1>2. /\ worker[w].state = "running" /\ InFlight(w, T) /\ Kept /\ i \in {1, 3, 5, 6}
      /\ call[w] = FlowCall(w, o, i)
  BY <1>1, InService
<1>3. /\ i \in {3, 5, 6} /\ call[w].op = "upsert_account" /\ call[w].key = a
      /\ call[w].payload = account_payload(IF i = 6 THEN 2 ELSE 1, <<>>)
  BY <1>1, <1>2 DEF FlowCall, ReadsFirst
<1>4. Progress(w, i, T)
  BY <1>1, <1>2 DEF InFlight
<1>5. config # None /\ o \in 0 .. config.operations - 1
  <2>1. config # None
    BY <1>2 DEF BenchInv, MainInv
  <2> QED
    BY <1>2, <2>1, RunningWorker
<1>6. ListAt(w, o, i, T)
  BY <1>2, <1>4, <1>5 DEF Progress, stepOf
<1>7. Verdict(call[w]) = IF i = 5 THEN "Stale" ELSE "Updated"
  <2>0. Verdict(call[w]) = upsert_account(call[w])
    BY <1>3 DEF Verdict
  <2>1. /\ payload_lamport(account_payload(1, <<>>)) = 1
        /\ payload_lamport(account_payload(2, <<>>)) = 2
    BY DEF HeaderCarries
  <2>2. CASE i = 3
    BY <1>3, <1>6, <2>0, <2>2 DEF ListAt, upsert_account
  <2>3. CASE i = 5
    BY <1>3, <1>6, <2>0, <2>1, <2>3 DEF ListAt, versionAt, upsert_account
  <2>4. CASE i = 6
    BY <1>3, <1>6, <2>0, <2>1, <2>4 DEF ListAt, versionAt, upsert_account
  <2> QED
    BY <1>3, <2>2, <2>3, <2>4
<1> HIDE DEF i
<1>8. CASE i = 5
  BY <1>0, <1>7, <1>8 DEF Select, Finish, Goto, TypeInv, TypeOK, i
<1>9. CASE i # 5
  BY <1>0, <1>3, <1>7, <1>9 DEF Select, Goto, TypeInv, TypeOK, i
<1> QED
  BY <1>8, <1>9 DEF i

\* Whatever the handler does in the store, its worker's flow goes on: the lock
\* keeps it from failing, so it ends with the outcome the flow expects.
LEMMA FlowInStore ==
  ASSUME Undisturbed, HeaderCarries, NEW T \in Nat, BenchInv(T), Within(T), NoBusy',
         NEW w \in Threads,
         UNCHANGED <<service, bench>>, Acquire(w) \/ Statement(w) \/ BusyTimeout(w)
  PROVE  FlowInv(w, T)'
<1>0. w \in Handlers /\ w \in Tasks /\ w # Pruner /\ TypeInv
      /\ UNCHANGED <<stage, config, worker, phase, request, reply>>
  BY BenchmarkAssumption, TasksAssumption DEF Tasks, Http, BenchInv, service, bench
<1>1. pc[w] \notin {"idle", "return"}
  BY DEF Acquire, TakeGuard, Statement, insert, insertConflict, pruneOld, pruneExcess,
    prune_accounts, Autocommit, Select, Write, BeginWrite, WriteBusy, Commit, Rollback, BusyTimeout
<1>2. /\ worker[w].state = "running" /\ worker[w].sent /\ InFlight(w, T)
      /\ call[w] = FlowCall(w, worker[w].operation, worker[w].step)
      /\ Posted(w).expected = FlowStatus(worker[w].step)
  BY <1>1, InService
<1>3. PICK i \in 1 .. 7 : i = worker[w].step /\ i \in {1, 3, 5, 6}
  BY <1>1, InService
<1>4. i \in 1 .. 8 /\ i + 1 \in 1 .. 8
  OBVIOUS
<1>5. UNCHANGED <<keypackages, account_bundles>> =>
        (Progress(w, i, T) => Progress(w, i, T)') /\ (Progress(w, i + 1, T) => Progress(w, i + 1, T)')
  BY <1>0, <1>4, ProgressStays DEF Kept
\* Before the return, and at it.
<1>6. ASSUME call'[w] = call[w], pc'[w] \in {"ready", "write", "commit"},
             pc'[w] \in {"write", "commit"} => i \in {3, 6}, stamp'[w] >= T, Progress(w, i, T)'
      PROVE  FlowInv(w, T)'
  BY <1>0, <1>2, <1>3, <1>6 DEF FlowInv, InFlight, Posted
<1>7. ASSUME call'[w] = call[w], pc'[w] = "return",
             status(result(outcome'[w])) = FlowStatus(i), Progress(w, i + 1, T)'
      PROVE  FlowInv(w, T)'
  BY <1>0, <1>2, <1>3, <1>7 DEF FlowInv, InFlight, Posted
<1>8. CASE Acquire(w)
  <2>1. /\ pc[w] = "lock" /\ pc'[w] = "ready" /\ call'[w] = call[w] /\ stamp'[w] = now
        /\ UNCHANGED <<keypackages, account_bundles>>
    BY <1>0, <1>8 DEF Acquire, TakeGuard, Goto, tables, TypeInv, TypeOK
  <2>2. stamp'[w] >= T
    <3>1. stage \notin {"args", "spawn", "exited"}
      BY <1>2 DEF BenchInv, CleanInv, InFlight
    <3> QED
      BY <2>1, <3>1, BoundsAssumption DEF Within, BenchInv, TypeInv, TypeOK, Time
  <2> QED
    BY <1>2, <1>3, <1>5, <1>6, <2>1, <2>2 DEF InFlight
<1>9. ~BusyTimeout(w) /\ ~WriteBusy(w)
  <2>1. outcome'[w] \notin {"Busy", "Timeout"}
    BY <1>0 DEF NoBusy
  <2> QED
    BY <1>0, <2>1 DEF BusyTimeout, WriteBusy, Finish, TypeInv, TypeOK
<1>10. CASE insert(w) \/ insertConflict(w)
  <2>1. worker[w].step = 1 /\ insert(w) /\ Progress(w, 2, T)'
        /\ pc'[w] = "return" /\ outcome'[w] = "Updated"
    BY <1>0, <1>10, FlowInserts
  <2>2. call'[w] = call[w]
    BY <2>1 DEF insert, Finish
  <2> QED
    BY <1>3, <1>7, <2>1, <2>2 DEF status, result, FlowStatus
<1>11. CASE Select(w)
  <2>1. pc[w] = "ready" /\ UNCHANGED <<keypackages, account_bundles>>
    BY <1>11 DEF Select, tables
  <2>2. Progress(w, i, T)' /\ stamp[w] >= T
    BY <1>2, <1>3, <1>5, <2>1 DEF InFlight
  <2>3. CASE i = 5
    <3>1. Progress(w, i + 1, T)'
      BY <1>2, <1>3, <1>5, <2>1, <2>3, QuietStep DEF InFlight
    <3>2. call'[w] = call[w] /\ pc'[w] = "return" /\ outcome'[w] = "Stale"
      BY <1>0, <1>3, <1>11, <2>3, FlowSelects
    <3>3. status(result(outcome'[w])) = FlowStatus(i)
      BY <2>3, <3>2 DEF status, result, FlowStatus
    <3> QED
      BY <1>7, <3>1, <3>2, <3>3
  <2>4. CASE i # 5
    <3>1. call'[w] = call[w] /\ stamp'[w] = stamp[w] /\ pc'[w] = "write" /\ i \in {3, 6}
      BY <1>3, <1>11, <2>4, FlowSelects
    <3> QED
      BY <1>6, <2>2, <3>1
  <2> QED
    BY <2>3, <2>4
<1>12. CASE Write(w)
  <2>1. /\ pc[w] = "write" /\ pc'[w] = "commit" /\ UNCHANGED <<keypackages, account_bundles>>
        /\ call'[w] = call[w] /\ stamp'[w] = stamp[w]
    BY <1>0, <1>12 DEF Write, BeginWrite, Goto, tables, TypeInv, TypeOK
  <2> QED
    BY <1>2, <1>3, <1>5, <1>6, <2>1 DEF InFlight
<1>13. CASE Commit(w)
  <2>1. /\ i \in {3, 6} /\ Progress(w, i + 1, T)'
        /\ pc'[w] = "return" /\ outcome'[w] = "Updated"
    <3>1. /\ worker[w].step \in {3, 6} /\ Progress(w, worker[w].step + 1, T)'
          /\ pc'[w] = "return" /\ outcome'[w] = "Updated"
      BY <1>0, <1>13, FlowCommits
    <3> QED
      BY <1>0, <1>3, <3>1
  <2>2. call'[w] = call[w]
    BY <1>13 DEF Commit, Finish
  <2> QED
    BY <1>7, <2>1, <2>2 DEF status, result, FlowStatus
<1>14. ~pruneOld(w) /\ ~pruneExcess(w) /\ ~prune_accounts(w) /\ ~Rollback(w)
  <2>1. call[w].op \in {"insert", "upsert_account"} /\ pc[w] # "rollback"
    BY <1>2 DEF FlowCall, InFlight
  <2> QED
    BY <2>1 DEF pruneOld, pruneExcess, prune_accounts, Autocommit, Rollback
<1> QED
  BY <1>8, <1>9, <1>10, <1>11, <1>12, <1>13, <1>14 DEF Statement

\* The answer is the one the worker waits for, or 500 after an I/O error.
LEMMA FlowResponds ==
  ASSUME Undisturbed, NEW T \in Nat, BenchInv(T), NEW w \in Threads,
         UNCHANGED <<bench, unlucky>>, respond(w)
  PROVE  FlowInv(w, T)'
<1>0. w \in Handlers /\ w \in Tasks /\ TypeInv /\ UNCHANGED <<stage, config, worker>>
  BY BenchmarkAssumption DEF Tasks, Http, BenchInv, bench
<1>1. pc[w] = "return" /\ UNCHANGED <<keypackages, account_bundles>>
  BY DEF respond, Return, Answer, tables
<1>2. /\ worker[w].state = "running" /\ worker[w].sent /\ request[w] # None
      /\ InFlight(w, T) \/ Faulted(w)
      /\ call[w] = FlowCall(w, worker[w].operation, worker[w].step)
  BY <1>1, InService
<1>3. PICK i \in 1 .. 7 : i = worker[w].step
  BY <1>2, RunningWorker
<1>4. i + 1 \in 1 .. 8
  OBVIOUS
<1>5. InFlight(w, T) =>
        status(result(outcome[w])) = Posted(w).expected /\ Progress(w, i + 1, T)'
  BY <1>0, <1>1, <1>3, <1>4, ProgressStays DEF InFlight, Kept
<1>6. pc'[w] = "idle"
  BY <1>0, <1>2 DEF respond, Return, Reset, Goto, FlowCall, TypeInv, TypeOK
<1>7. reply'[w] = [of |-> request[w], result |-> result(outcome[w])] /\ reply'[w] # None
  <2>1. reply'[w] = [of |-> request[w], result |-> result(outcome[w])]
    BY <1>0, <1>2 DEF respond, Replied, BenchInv, CallerTypes, AnswerTypes
  <2>2. request[w] \in Submissions \cup Messages
    BY <1>0, <1>2 DEF BenchInv, CallerTypes, AnswerTypes
  <2>3. result(outcome[w]) \in {"Ok", "Stale", "Forked", "Internal"}
    BY DEF result
  <2> QED
    BY <2>1, <2>2, <2>3, RepliesAssumption
<1>8. CASE InFlight(w, T)
  BY <1>0, <1>2, <1>3, <1>5, <1>6, <1>7, <1>8 DEF FlowInv, Answered, Posted
<1>9. CASE Faulted(w)
  <2>1. status(reply'[w].result) = 500 /\ w \in unlucky'
    BY <1>7, <1>9 DEF Faulted, result, status
  <2> QED
    BY <1>0, <1>2, <1>6, <1>7, <2>1 DEF FlowInv, Failed
<1> QED
  BY <1>2, <1>8, <1>9

-----------------------------------------------------------------------------
(* Steps of a worker.                                                         *)

\* Its POST enters the store: nobody else is in its handler.
LEMMA FlowSends ==
  ASSUME Undisturbed, NEW T \in Nat, BenchInv(T), NEW w \in Threads, send(w)
  PROVE  FlowInv(w, T)'
<1> DEFINE o == worker[w].operation
           s == Posted(w).body
<1>0. w \in Handlers /\ w \in Tasks /\ TypeInv /\ CallerTypes /\ phase = "serving"
  BY BenchmarkAssumption DEF Tasks, Http, BenchInv, send, post
<1>1. PICK i \in 1 .. 7 : i = worker[w].step /\ i \in {1, 3, 5, 6}
  BY DEF send
<1>2. worker[w].state = "running" /\ ~worker[w].sent
  BY DEF send, Working
<1>3. Progress(w, i, T)
  BY <1>1, <1>2 DEF BenchInv, FlowInv
<1>4. /\ worker' = [worker EXCEPT ![w] = [worker[w] EXCEPT !.sent = TRUE]]
      /\ UNCHANGED <<stage, config>> /\ phase' = "serving"
  BY <1>0 DEF send, WorkerBecomes, post
<1>5. /\ worker'[w].sent /\ worker'[w].state = "running"
      /\ worker'[w].operation = o /\ worker'[w].step = i
  BY <1>1, <1>2, <1>4 DEF BenchInv
<1>6. s \in Submissions /\ admit(s) = "Ok"
  BY <1>1, <1>2, RunningWorker, PostApplies DEF Posted
<1>7. Submit(w, apply(s)) /\ request' = [request EXCEPT ![w] = s]
      /\ reply' = [reply EXCEPT ![w] = None]
  BY <1>6 DEF send, post, Serve, submit_key_package, submit_account, submit_account_log, Posted
<1>8. /\ call'[w] = apply(s) /\ pc'[w] = "lock"
      /\ request'[w] # None /\ reply'[w] = None
      /\ UNCHANGED <<keypackages, account_bundles>>
  BY <1>0, <1>6, <1>7, CallersAssumption DEF Submit, Enter, Goto, tables, TypeInv, TypeOK,
    CallerTypes,
    AnswerTypes
<1>9. Progress(w, i, T)'
  <2>1. i \in 1 .. 8
    OBVIOUS
  <2> QED
    BY <1>3, <1>4, <1>5, <1>8, <2>1, ProgressStays DEF Kept
<1>10. Posted(w)' = Posted(w)
  BY <1>1, <1>5 DEF Posted
<1> HIDE DEF s
<1>11. InFlight(w, T)'
  BY <1>4, <1>5, <1>8, <1>9, <1>10 DEF InFlight, s
<1> QED
  BY <1>5, <1>11 DEF FlowInv

\* A request that went well brings the flow to its next step, or the worker to
\* its next flow.
LEMMA FlowConcludes ==
  ASSUME Undisturbed, NEW T \in Nat, BenchInv(T), NEW w \in Threads, UNCHANGED allVars,
         worker[w].state = "running", pc[w] = "idle", Progress(w, worker[w].step + 1, T),
         Conclude(w, TRUE)
  PROVE  FlowInv(w, T)'
<1>1. /\ worker[w].step \in 1 .. 7 /\ worker[w].operation \in Nat
      /\ config.operations \in Nat
  BY RunningWorker, BenchmarkAssumption DEF ValidArguments
<1>2. UNCHANGED <<keypackages, account_bundles, pc, stage, config>>
  BY DEF allVars, vars, tables, locals, Conclude, WorkerBecomes
<1>3. PICK i \in 1 .. 7 : i = worker[w].step
  BY <1>1
<1>4. CASE i # 7
  <2>1. worker'[w] = [worker[w] EXCEPT !.step = i + 1, !.sent = FALSE]
    BY <1>3, <1>4 DEF Conclude, WorkerBecomes, BenchInv
  <2>2. /\ worker'[w].operation = worker[w].operation /\ worker'[w].step = i + 1
        /\ worker'[w].state = "running" /\ ~worker'[w].sent
    BY <2>1 DEF BenchInv
  <2>3. Progress(w, i + 1, T)'
    BY <1>2, <1>3, <2>2, ProgressStays DEF Kept
  <2> QED
    BY <1>2, <2>2, <2>3 DEF FlowInv
<1>5. CASE i = 7
  <2>1. worker'[w] = [worker[w] EXCEPT !.step = 1, !.operation = worker[w].operation + 1,
                        !.state = IF worker[w].operation + 1 = split_work(w) THEN "Ok" ELSE "running"]
    BY <1>3, <1>5 DEF Conclude, WorkerBecomes, BenchInv
  <2>2. /\ worker'[w].operation = worker[w].operation + 1 /\ worker'[w].step = 1
        /\ worker'[w].state # "Err" /\ ~worker'[w].sent
    <3>1. worker[w].sent => worker[w].step \in {1, 3, 5, 6}
      BY DEF BenchInv, WorkerTyped
    <3> QED
      BY <1>3, <1>5, <2>1, <3>1 DEF BenchInv
  <2>3. Progress(w, 1, T)'
    <3> SUFFICES ASSUME config # None, Kept, NEW o \in 0 .. config.operations - 1,
                        NEW j \in {1, 8}, j = stepOf(w, o, 8)
                 PROVE  PackageAt(w, o, j, T)' /\ ListAt(w, o, j, T)'
      BY <1>1, <1>2, <2>2 DEF Progress, Kept, stepOf
    <3>1. PackageAt(w, o, j, T) /\ ListAt(w, o, j, T)
      BY <1>3, <1>5 DEF Progress
    <3> QED
      BY <1>2, <3>1 DEF PackageAt, ListAt, ofDevice
  <2> QED
    BY <1>2, <2>2, <2>3 DEF FlowInv
<1> QED
  BY <1>4, <1>5

\* The answer to a POST is the one it waits for, unless the POST met an I/O error.
LEMMA FlowReceives ==
  ASSUME Undisturbed, NEW T \in Nat, BenchInv(T), NEW w \in Threads, receive(w), UNCHANGED unlucky
  PROVE  FlowInv(w, T)'
<1>1. worker[w].state = "running" /\ worker[w].sent /\ reply[w] # None /\ UNCHANGED allVars
  BY DEF receive, Working
<1>2. CASE Answered(w, T)
  <2>1. pc[w] = "idle" /\ Progress(w, worker[w].step + 1, T)
    BY <1>2 DEF Answered
  <2>2. Conclude(w, TRUE)
    BY <1>2 DEF receive, Answered, Posted, Conclude
  <2> QED
    BY <1>1, <2>1, <2>2, FlowConcludes
<1>3. CASE Failed(w)
  <2>1. worker[w].step \in {1, 3, 5, 6}
    BY <1>1 DEF BenchInv, WorkerTyped
  <2>2. Posted(w).expected \in {204, 409}
    BY <1>1, <2>1, RunningWorker, PostApplies DEF Posted, FlowStatus
  <2>3. Conclude(w, FALSE)
    BY <1>3, <2>2 DEF receive, Failed, Posted, Conclude
  <2>4. worker'[w].state = "Err"
    BY <2>3 DEF Conclude, WorkerBecomes, BenchInv
  <2> QED
    BY <1>1, <1>3, <2>4 DEF FlowInv, Failed, allVars, vars, locals
<1> QED
  BY <1>1, <1>2, <1>3 DEF BenchInv, FlowInv, InFlight, Faulted

\* A GET finds the flow's own rows.
LEMMA FlowFetches ==
  ASSUME Undisturbed, NEW T \in Nat \ {0}, BenchInv(T), NEW w \in Threads, fetch(w)
  PROVE  FlowInv(w, T)'
<1> DEFINE o == worker[w].operation
           d == device_key(w, o)
           a == account_key(w, o)
<1>1. /\ worker[w].state = "running" /\ phase = "serving" /\ UNCHANGED allVars /\ TypeInv
      /\ CallerTypes
  BY DEF fetch, Working, BenchInv
<1>2. PICK i \in {2, 4, 7} : i = worker[w].step
  BY DEF fetch
<1>3. pc[w] = "idle" /\ Progress(w, i, T)
  <2>1. worker[w].sent => worker[w].step \in {1, 3, 5, 6}
    BY DEF BenchInv, WorkerTyped
  <2> QED
    BY <1>1, <1>2, <2>1 DEF BenchInv, FlowInv
<1>4. config # None /\ config \in Arguments /\ o \in 0 .. config.operations - 1 /\ Kept
  <2>1. config # None
    BY <1>1 DEF BenchInv, MainInv
  <2> QED
    BY <1>1, <2>1, RunningWorker DEF fetch, Working, Kept
<1>5. PackageAt(w, o, i, T) /\ ListAt(w, o, i, T)
  BY <1>3, <1>4 DEF Progress, stepOf
<1>6. ASSUME i = 2 PROVE gets(w, o)[2]
  <2>1. PICK r \in ofDevice(d) : ofDevice(d) = {r} /\ r.bundle = keypackage_payload(w, o)
    BY <1>5, <1>6 DEF PackageAt
  <2>2. r.received_at \in Nat
    BY <1>1, <2>1 DEF ofDevice, TypeInv, TypeOK, KeyPackageRows
  <2>3. r \in latest(d)
    BY <2>1, <2>2 DEF latest
  <2>4. servedKeyPackage(w, o)
    BY <2>1, <2>3 DEF servedKeyPackage, fetch_key_package
  <2> QED
    BY <2>4 DEF gets
<1>7. ASSUME i # 2 PROVE gets(w, o)[i]
  <2>1. /\ account_bundles[a] # NoRow
        /\ account_bundles[a].payload = account_payload(IF i = 4 THEN 1 ELSE 2, <<>>)
        /\ account_bundles[a].updated_at >= T
    BY <1>2, <1>5, <1>7 DEF ListAt, versionAt
  <2>2. a \in Accounts
    BY <1>4, FlowsAssumption
  <2>3. account_bundles[a].updated_at \in Nat
    BY <1>1, <2>1, <2>2 DEF TypeInv, TypeOK, AccountRows
  <2>4. account_bundles[a].updated_at > 0
    BY <2>1, <2>3
  <2>5. servedAccount(w, o, IF i = 4 THEN 1 ELSE 2)
    BY <2>1, <2>4 DEF servedAccount, fetch_account, get_account
  <2> QED
    BY <1>2, <1>7, <2>5 DEF gets
<1>8. Progress(w, worker[w].step + 1, T)
  BY <1>2, <1>3, QuietStep
<1>9. Conclude(w, TRUE)
  <2>1. gets(w, o)[i] /\ Conclude(w, gets(w, o)[i])
    BY <1>2, <1>6, <1>7 DEF fetch
  <2> QED
    BY <2>1 DEF Conclude
<1> QED
  BY <1>1, <1>3, <1>8, <1>9, FlowConcludes

\* Its connection fails only when the server is gone: the server that it was
\* started with is never asked to drain.
LEMMA FlowFails ==
  ASSUME NEW T, BenchInv(T), NEW w \in Threads, sendFails(w)
  PROVE  FlowInv(w, T)'
<1>1. phase = "down" /\ phase' = "down"
  BY DEF sendFails, Working, BenchInv, MainInv, allVars, service
<1>2. pc'[w] = "idle"
  <2>1. w \in Tasks
    BY BenchmarkAssumption DEF Tasks, Http
  <2> QED
    BY <1>1, <2>1 DEF BenchInv, CleanInv, sendFails, allVars, vars, locals
<1>3. worker'[w].state = "Err"
  BY DEF sendFails, Conclude, WorkerBecomes, BenchInv
<1> QED
  BY <1>1, <1>2, <1>3 DEF FlowInv

\* A GET of its own met an I/O error: nobody is in its handler.
LEMMA FlowFetchFails ==
  ASSUME NEW T, BenchInv(T), NEW w \in Threads, fetchFails(w)
  PROVE  FlowInv(w, T)'
<1>1. /\ worker[w].state = "running" /\ phase = "serving" /\ UNCHANGED pc
      /\ worker[w].step \in {2, 4, 7} /\ w \in unlucky'
  BY DEF fetchFails, Working, allVars, vars, locals
<1>2. pc[w] = "idle"
  BY <1>1 DEF BenchInv, WorkerTyped, FlowInv
<1>3. worker'[w].state = "Err"
  BY DEF fetchFails, Conclude, WorkerBecomes, BenchInv
<1> QED
  BY <1>1, <1>2, <1>3 DEF FlowInv

\* The other workers' requests do not concern it.
LEMMA FlowOfOthers ==
  ASSUME Undisturbed, NEW T \in Nat, BenchInv(T), NEW w \in Threads,
         NEW u \in Threads \ {w}, exercise_business_flow(u)
  PROVE  FlowInv(w, T)'
<1>0. w \in Handlers /\ u \in Handlers /\ w \in Tasks /\ u \in Tasks /\ TypeInv /\ CallerTypes
  BY BenchmarkAssumption DEF Tasks, Http, BenchInv
<1>1. worker'[w] = worker[w] /\ UNCHANGED <<stage, config>> /\ unlucky \subseteq unlucky'
  BY DEF exercise_business_flow, send, receive, fetch, fetchFails, sendFails, Conclude,
    WorkerBecomes, BenchInv
<1>2. ASSUME UNCHANGED allVars PROVE FlowInv(w, T)'
  BY <1>1, <1>2, FlowFrame DEF Kept, Untouched, allVars, vars, tables, locals, service
<1>3. CASE send(u)
  <2> DEFINE s == Posted(u).body
  <2>1. Serve(u, s) /\ phase' = phase
    BY <1>3 DEF send, post, submit_key_package, submit_account, submit_account_log, Posted
  <2> HIDE DEF s
  <2>2. request'[w] = request[w] /\ reply'[w] = reply[w]
    BY <1>0, <2>1 DEF Serve, Replied, CallerTypes, AnswerTypes
  <2>3. Submit(u, apply(s)) \/ UNCHANGED vars
    BY <2>1 DEF Serve
  <2>4. Untouched(w) /\ UNCHANGED <<keypackages, account_bundles>>
    <3>1. CASE Submit(u, apply(s))
      BY <1>0, <3>1, OthersLeave DEF Submit, tables
    <3> QED
      BY <2>3, <3>1 DEF vars, tables, locals, Untouched
  <2> QED
    BY <1>1, <2>1, <2>2, <2>4, FlowFrame DEF Kept
<1> QED
  BY <1>2, <1>3 DEF exercise_business_flow, receive, fetch, fetchFails, sendFails

-----------------------------------------------------------------------------
(* Steps of the server.                                                       *)

\* When the server goes, its tables stay: a worker has its answer, has not
\* asked, or will never be answered.
LEMMA FlowDown ==
  ASSUME Undisturbed, NEW T \in Nat, BenchInv(T), NEW w \in Threads,
         UNCHANGED <<config, worker, unlucky>>, Kept' => Kept, Down
  PROVE  FlowInv(w, T)'
<1>0. w \in Tasks
  BY BenchmarkAssumption DEF Tasks, Http
<1>1. /\ phase' = "down" /\ pc'[w] = "idle" /\ UNCHANGED reply
      /\ UNCHANGED <<keypackages, account_bundles>>
  BY <1>0 DEF Down, ProcessEnds, Undisturbed, tables
<1>2. FlowInv(w, T) /\ worker[w].step \in 1 .. 7
  BY DEF BenchInv, WorkerTyped, WorkerRecords
<1>3. PICK i \in 1 .. 7 : i = worker[w].step
  BY <1>2
<1>4. i \in 1 .. 8 /\ i + 1 \in 1 .. 8
  OBVIOUS
<1>5. /\ Progress(w, i, T) => Progress(w, i, T)'
      /\ Progress(w, i + 1, T) => Progress(w, i + 1, T)'
  BY <1>1, <1>4, ProgressStays
<1> QED
  BY <1>1, <1>2, <1>3, <1>5 DEF FlowInv, InFlight, Answered, Faulted, Failed, Posted

\* Whatever the server does, prunes and messages of the network included.
LEMMA FlowServed ==
  ASSUME Undisturbed, HeaderCarries, NEW T \in Nat, BenchInv(T), Within(T), NoBusy',
         NEW w \in Threads, server
  PROVE  FlowInv(w, T)'
<1>0. /\ w \in Handlers /\ w \in Tasks /\ w # Ingest /\ w # Pruner /\ Pruner \in Tasks
      /\ Ingest \in Handlers /\ TypeInv /\ CallerTypes
  BY BenchmarkAssumption, CallersAssumption, TasksAssumption DEF Tasks, Http, BenchInv
<1>1. UNCHANGED <<stage, config, worker, unlucky>> /\ (Kept' => Kept)
  BY DEF server, bench, Kept
<1>2. ASSUME UNCHANGED <<pc, call, stamp, outcome>>, UNCHANGED <<request, reply, phase>>,
             UNCHANGED <<keypackages, account_bundles>>
      PROVE  FlowInv(w, T)'
  BY <1>1, <1>2, FlowFrame DEF Untouched
<1>3. CASE startNode \/ subscribeKeys \/ subscribeAccts \/ spawnIngest \/ bind
  <2>1. phase \in Running \ {"serving"} /\ UNCHANGED <<vars, request, reply>>
    BY <1>3 DEF startNode, subscribeKeys, subscribeAccts, spawnIngest, bind, Advance, Running
  <2>2. worker[w].state = "unspawned"
    <3>1. phase \notin {"serving", "down"}
      BY <2>1 DEF Running
    <3> QED
      BY <3>1 DEF BenchInv, MainInv
  <2> QED
    BY <1>1, <2>1, <2>2, FlowFrame DEF Untouched, vars, tables, locals
<1>4. CASE startFails \/ kill
  BY <1>1, <1>4, FlowDown DEF startFails, kill
<1>5. ASSUME NEW m \in Messages, deliver(m) PROVE FlowInv(w, T)'
  BY <1>2, <1>5 DEF deliver, vars, tables, locals
<1>6. CASE ingest
  <2>1. PICK m : Serve(Ingest, m) /\ phase' = phase
    BY <1>6 DEF ingest, recv, ingest_keypackage, ingest_account
  <2>2. request'[w] = request[w] /\ reply'[w] = reply[w]
    BY <1>0, <2>1 DEF Serve, Replied, CallerTypes, AnswerTypes
  <2>3. Untouched(w) /\ UNCHANGED <<keypackages, account_bundles>>
    <3>1. CASE Submit(Ingest, apply(m))
      <4>1. Ingest \in Tasks
        BY <1>0 DEF Tasks
      <4> QED
        BY <1>0, <3>1, <4>1, OthersLeave DEF Submit, tables
    <3> QED
      BY <2>1, <3>1 DEF Serve, vars, tables, locals, Untouched
  <2> QED
    BY <1>1, <2>1, <2>2, <2>3, FlowFrame
<1>7. ASSUME NEW t \in Handlers, respond(t) PROVE FlowInv(w, T)'
  <2>1. CASE t = w
    BY <1>7, <2>1, FlowResponds DEF server
  <2>2. CASE t # w
    <3>1. /\ request'[w] = request[w] /\ reply'[w] = reply[w] /\ phase' = phase
          /\ UNCHANGED <<keypackages, account_bundles>>
      BY <1>0, <1>7, <2>2 DEF respond, Replied, Return, Answer, tables, CallerTypes, AnswerTypes
    <3>2. Untouched(w)
      BY <1>0, <1>7, <2>2, OthersLeave DEF respond, Tasks
    <3> QED
      BY <1>1, <3>1, <3>2, FlowFrame
  <2> QED
    BY <2>1, <2>2
<1>8. CASE prune
  <2>1. UNCHANGED <<request, reply, phase, keypackages, account_bundles>>
    BY <1>8 DEF prune, service, PruneTick, Return, Answer, tables
  <2>2. Untouched(w)
    <3>1. CASE PruneTick
      BY <1>0, <3>1 DEF PruneTick, Enter, Goto, Untouched, TypeInv, TypeOK
    <3>2. CASE Return(Pruner)
      BY <1>0, <3>2, OthersLeave
    <3> QED
      BY <1>8, <3>1, <3>2 DEF prune
  <2> QED
    BY <1>1, <2>1, <2>2, FlowFrame
<1>9. ASSUME NEW t \in Tasks, inStore(t) PROVE FlowInv(w, T)'
  <2>1. UNCHANGED service /\ UNCHANGED bench /\ (Acquire(t) \/ Statement(t) \/ BusyTimeout(t))
    BY <1>9 DEF inStore, server
  <2>2. CASE t = w
    BY <2>1, <2>2, FlowInStore
  <2>3. CASE t # w
    <3>1. UNCHANGED <<keypackages, account_bundles>> \/ \E u \in Tasks \ {w} : Statement(u)
      BY <2>1, <2>3 DEF Acquire, TakeGuard, BusyTimeout, tables
    <3>2. Untouched(w)
      BY <1>0, <2>1, <2>3, OthersLeave
    <3> QED
      BY <1>1, <2>1, <3>1, <3>2, FlowFrame DEF service
  <2> QED
    BY <2>2, <2>3
<1>10. CASE clock
  BY <1>2, <1>10 DEF clock, Tick, ClockSetBack, tables, locals, service
<1> QED
  BY <1>3, <1>4, <1>5, <1>6, <1>7, <1>8, <1>9, <1>10 DEF server

\* An I/O error concerns the worker whose request met it.
LEMMA FlowFaults ==
  ASSUME Undisturbed, NEW T \in Nat, BenchInv(T), NEW w \in Threads, serverFault
  PROVE  FlowInv(w, T)'
<1>0. w \in Tasks /\ TypeInv
  BY BenchmarkAssumption DEF Tasks, Http, BenchInv
<1>1. PICK t \in Tasks : /\ IoFault(t) /\ UNCHANGED <<service, bench>>
                        /\ unlucky' = unlucky \cup ({t} \cap Threads)
  BY DEF serverFault, ioFault
<1>2. /\ UNCHANGED <<stage, config, worker, request, reply, phase, call>>
      /\ UNCHANGED <<keypackages, account_bundles>>
      /\ unlucky \subseteq unlucky' /\ pc[t] \notin {"idle", "return"}
  BY <1>1 DEF service, bench, IoFault, Finish, tables
<1>3. CASE t = w
  <2>1. worker[w].state = "running" /\ worker[w].sent /\ InFlight(w, T)
    BY <1>2, <1>3, InService
  <2>2. pc'[w] = "return" /\ outcome'[w] = "Io" /\ w \in unlucky'
    BY <1>0, <1>1, <1>3 DEF IoFault, Finish, Goto, TypeInv, TypeOK
  <2>3. Faulted(w)'
    BY <1>2, <2>1, <2>2 DEF InFlight, Faulted, Posted
  <2> QED
    BY <1>2, <2>1, <2>3 DEF FlowInv
<1>4. CASE t # w
  <2>1. Untouched(w)
    BY <1>0, <1>1, <1>4, OthersLeave
  <2> QED
    BY <1>2, <2>1, FlowFrame DEF Kept
<1> QED
  BY <1>3, <1>4

-----------------------------------------------------------------------------
(* Steps of main.                                                             *)

\* Nothing of the flows is in a fresh database.
LEMMA FlowStarts ==
  ASSUME NEW T, BenchInv(T), NEW w \in Threads, parse_args
  PROVE  FlowInv(w, T)'
<1>0. w \in Tasks
  BY BenchmarkAssumption DEF Tasks, Http
<1>1. /\ EmptyTables /\ pc[w] = "idle" /\ worker[w] = idleWorker
      /\ UNCHANGED <<worker, pc, keypackages, account_bundles>>
  BY <1>0 DEF parse_args, BenchInv, CleanInv, MainInv, Early, WorkerTyped, allVars, vars, tables,
    locals
<1>2. config' \in Arguments
  BY DEF parse_args
<1>3. ASSUME NEW o \in 0 .. config'.operations - 1
      PROVE  PackageAt(w, o, 1, T)' /\ ListAt(w, o, 1, T)'
  <2>1. account_key(w, o) \in Accounts
    BY <1>2, FlowsAssumption
  <2> QED
    BY <1>1, <2>1 DEF EmptyTables, PackageAt, ListAt, ofDevice
<1>4. Progress(w, 1, T)'
  BY <1>1, <1>3 DEF Progress, stepOf, idleWorker
<1> QED
  BY <1>1, <1>4 DEF FlowInv, idleWorker

\* A worker starts where an unspawned one stands.
LEMMA FlowSpawns ==
  ASSUME Undisturbed, NEW T \in Nat, BenchInv(T), NEW w \in Threads, spawnWorkers
  PROVE  FlowInv(w, T)'
<1>1. /\ worker[w] = idleWorker /\ UNCHANGED <<config, pc, keypackages, account_bundles>>
      /\ Kept
  BY DEF spawnWorkers, BenchInv, MainInv, Early, WorkerTyped, allVars, vars, tables, locals, Kept
<1>2. worker'[w] \in {idleWorker, [idleWorker EXCEPT !.state = "running"]}
  BY DEF spawnWorkers
<1>3. /\ worker'[w].state # "Err" /\ ~worker'[w].sent
      /\ worker'[w].operation = 0 /\ worker'[w].step = 1
  BY <1>2 DEF idleWorker
<1>4. pc[w] = "idle" /\ Progress(w, 1, T)
  BY <1>1 DEF BenchInv, FlowInv, idleWorker
<1>5. Progress(w, 1, T)'
  <2>1. 1 \in 1 .. 8 /\ worker'[w].operation = worker[w].operation
    BY <1>1, <1>3 DEF idleWorker
  <2> QED
    BY <1>1, <1>4, <2>1, ProgressStays
<1> QED
  BY <1>1, <1>3, <1>4, <1>5 DEF FlowInv

\* The flows of the workers are not main's: it starts them, and removes what
\* they left when the server is gone.
LEMMA FlowOfMain ==
  ASSUME Undisturbed, NEW T \in Nat, BenchInv(T), NEW w \in Threads, main
  PROVE  FlowInv(w, T)'
<1>0. w \in Handlers /\ w \in Tasks /\ UNCHANGED unlucky
  BY BenchmarkAssumption DEF Tasks, Http, main
<1>1. ASSUME UNCHANGED allVars, UNCHANGED <<config, worker>>, stage # "exited"
      PROVE  FlowInv(w, T)'
  BY <1>0, <1>1, FlowFrame DEF Untouched, allVars, vars, tables, locals, service, Kept
<1>2. CASE refuses \/ wait_until_ready \/ unknownKeyPackage \/ unknownAccount \/ readFails \/ join
  <2>1. UNCHANGED allVars /\ worker' = worker /\ stage # "exited"
    BY <1>2 DEF refuses, MainReturnsAtOnce, wait_until_ready, unknownKeyPackage, unknownAccount,
      readFails, join, Expect, MainGoto, MainReturns
  <2>2. config' = config
    BY <1>2 DEF refuses, MainReturnsAtOnce, wait_until_ready, unknownKeyPackage, unknownAccount,
      readFails, join, Expect, MainGoto, MainReturns
  <2> QED
    BY <1>1, <2>1, <2>2
<1>3. CASE start_local_server
  <2>1. /\ UNCHANGED <<vars, request, reply, config, worker>>
        /\ stage = "spawn" /\ worker[w].state = "unspawned"
    BY <1>3 DEF start_local_server, open, Advance, MainGoto, BenchInv, MainInv
  <2> QED
    BY <1>0, <2>1, FlowFrame DEF Untouched, vars, tables, locals, Kept
<1>4. CASE malformedKeyPackage
  <2>1. /\ UNCHANGED <<config, worker>> /\ stage = "malformed400"
        /\ worker[w].state = "unspawned"
    BY <1>4 DEF malformedKeyPackage, Expect, MainGoto, MainReturns, BenchInv, MainInv, Early
  <2>2. UNCHANGED <<vars, request>>
    <3>1. admit(malformed) # "Ok"
      BY MalformedRefused DEF Refusals
    <3> QED
      BY <1>4, <3>1 DEF malformedKeyPackage, post, submit_key_package, submit_account,
        submit_account_log, Serve, allVars, service
  <2> QED
    BY <1>0, <2>1, <2>2, FlowFrame DEF Untouched, vars, tables, locals, Kept
<1>5. CASE dropKill
  <2>1. UNCHANGED <<config, worker>> /\ stage # "exited"
    BY <1>5 DEF dropKill, MainGoto
  <2> QED
    BY <1>0, <1>1, <1>5, <2>1, FlowDown DEF dropKill, Kept
<1>6. CASE dropRemove
  <2>1. /\ UNCHANGED <<config, worker, pc, call, stamp, outcome, request, reply, phase>>
        /\ stage = "remove" /\ stage' = "exited" /\ phase = "down"
    BY <1>6 DEF dropRemove, MainGoto, locals, service, BenchInv, CleanInv
  <2>2. CASE config.keep_db
    BY <1>0, <1>6, <2>1, <2>2, FlowFrame DEF dropRemove, Untouched, tables, Kept
  <2>3. CASE ~config.keep_db
    <3>1. \A i : Progress(w, i, T)'
      BY <2>1, <2>3 DEF Progress, Kept
    <3> QED
      BY <1>0, <2>1, <3>1 DEF BenchInv, FlowInv, InFlight, Answered, Faulted, Failed, Posted
  <2> QED
    BY <2>2, <2>3
<1> QED
  BY <1>2, <1>3, <1>4, <1>5, <1>6, FlowStarts, FlowSpawns DEF main

\* Every step keeps a worker and its handler in agreement.
LEMMA FlowStep ==
  ASSUME Undisturbed, HeaderCarries, NEW T \in Nat \ {0}, BenchInv(T), Within(T), NoBusy',
         [BenchmarkNext]_benchVars, NEW w \in Threads
  PROVE  FlowInv(w, T)'
<1>1. CASE exited \/ UNCHANGED benchVars
  BY <1>1, FlowFrame DEF exited, benchVars, bench, Untouched, allVars, vars, tables, locals,
    service, Kept
<1>2. ASSUME exercise_business_flow(w) PROVE FlowInv(w, T)'
  BY <1>2, FlowSends, FlowReceives, FlowFetches, FlowFails,
    FlowFetchFails DEF exercise_business_flow
<1> QED
  BY <1>1, <1>2, FlowOfOthers, FlowServed, FlowFaults, FlowOfMain DEF BenchmarkNext

-----------------------------------------------------------------------------
(* The rest of the invariant.                                                 *)

\* Where a worker is, after a step of its own.
LEMMA WorkerStep ==
  ASSUME NEW T, BenchInv(T), NEW u \in Threads, exercise_business_flow(u)
  PROVE  /\ UNCHANGED <<stage, config>>
         /\ worker' \in [Threads -> WorkerRecords]
         /\ worker[u].state = "running" /\ worker'[u].state # "unspawned" /\ WorkerTyped(u)'
         /\ \A w \in Threads \ {u} : worker'[w] = worker[w]
<1> DEFINE me == worker[u]
           done == [me EXCEPT !.step = 1, !.operation = me.operation + 1,
                              !.state = IF me.operation + 1 = split_work(u) THEN "Ok" ELSE "running"]
<1>1. me.state = "running" /\ UNCHANGED <<stage, config>>
  BY DEF exercise_business_flow, send, receive, fetch, fetchFails, sendFails, Working, Conclude,
    WorkerBecomes
<1>2. /\ me.operation \in Nat /\ me.step \in 1 .. 7 /\ split_work(u) \in Nat
      /\ me.operation < split_work(u)
  BY <1>1, RunningWorker DEF BenchInv, WorkerTyped
<1>3. me.sent => me.step \in {1, 3, 5, 6}
  BY DEF BenchInv, WorkerTyped
<1>4. PICK r : /\ worker' = [worker EXCEPT ![u] = r]
               /\ \/ r = [me EXCEPT !.sent = TRUE] /\ me.step \in {1, 3, 5, 6}
                  \/ r = [me EXCEPT !.state = "Err"]
                  \/ r = [me EXCEPT !.step = me.step + 1, !.sent = FALSE] /\ me.step < 7
                  \/ r = done
  <2>1. CASE send(u)
    BY <2>1 DEF send, WorkerBecomes
  <2>2. ASSUME NEW b, Conclude(u, b)
        PROVE  \E r : /\ worker' = [worker EXCEPT ![u] = r]
                      /\ \/ r = [me EXCEPT !.state = "Err"]
                         \/ r = [me EXCEPT !.step = me.step + 1, !.sent = FALSE] /\ me.step < 7
                         \/ r = done
    BY <2>2 DEF Conclude, WorkerBecomes
  <2> QED
    BY <2>1, <2>2 DEF exercise_business_flow, receive, fetch, fetchFails, sendFails
<1>5. me \in WorkerRecords
  BY DEF BenchInv
<1> HIDE DEF me
<1>6. /\ r \in WorkerRecords /\ r.state # "unspawned"
      /\ r.sent => r.step \in {1, 3, 5, 6}
      /\ r.state = "running" => r.operation < split_work(u)
      /\ r.state = "Ok" => r.operation = split_work(u) /\ r.step = 1
  <2> USE DEF WorkerRecords
  <2>1. CASE r = [me EXCEPT !.sent = TRUE] /\ me.step \in {1, 3, 5, 6}
    BY <1>1, <1>2, <1>3, <1>5, <2>1
  <2>2. CASE r = [me EXCEPT !.state = "Err"]
    BY <1>1, <1>2, <1>3, <1>5, <2>2
  <2>3. CASE r = [me EXCEPT !.step = me.step + 1, !.sent = FALSE] /\ me.step < 7
    <3>1. r = [state |-> "running", operation |-> me.operation, step |-> me.step + 1, sent |-> FALSE]
      BY <1>1, <1>5, <2>3
    <3>2. me.step + 1 \in 1 .. 7
      BY <1>2, <2>3
    <3> QED
      BY <1>2, <3>1, <3>2
  <2>4. CASE r = done
    <3>1. r = [state |-> IF me.operation + 1 = split_work(u) THEN "Ok" ELSE "running",
               operation |-> me.operation + 1, step |-> 1, sent |-> me.sent]
      BY <1>1, <1>5, <2>4
    <3>2. me.operation + 1 \in Nat
          /\ (me.operation + 1 = split_work(u) \/ me.operation + 1 < split_work(u))
      BY <1>2
    <3>3. me.sent \in BOOLEAN
      BY <1>5
    <3> HIDE DEF done
    <3>4. CASE me.operation + 1 = split_work(u)
      BY <3>1, <3>2, <3>3, <3>4
    <3>5. CASE me.operation + 1 # split_work(u)
      BY <3>1, <3>2, <3>3, <3>5
    <3> QED
      BY <3>4, <3>5
  <2> QED
    BY <1>4, <2>1, <2>2, <2>3, <2>4
<1>7. worker'[u] = r /\ \A w \in Threads \ {u} : worker'[w] = worker[w]
  BY <1>4 DEF BenchInv
<1>8. worker' \in [Threads -> WorkerRecords]
  BY <1>4, <1>6 DEF BenchInv
<1>9. split_work(u)' = split_work(u)
  BY <1>1 DEF split_work, workers
<1>10. WorkerTyped(u)'
  BY <1>6, <1>7, <1>9 DEF WorkerTyped
<1> QED
  BY <1>1, <1>6, <1>7, <1>8, <1>10 DEF me

\* And after any step.
LEMMA WorkersStep ==
  ASSUME NEW T, BenchInv(T), [BenchmarkNext]_benchVars
  PROVE  /\ worker' \in [Threads -> WorkerRecords]
         /\ \A w \in Threads : WorkerTyped(w)'
<1>1. ASSUME NEW u \in Threads, exercise_business_flow(u), NEW w \in Threads PROVE WorkerTyped(w)'
  <2>1. UNCHANGED config /\ (w = u \/ worker'[w] = worker[w])
    BY <1>1, WorkerStep
  <2>2. CASE worker'[w] = worker[w]
    BY <2>1, <2>2 DEF BenchInv, WorkerTyped, split_work, workers
  <2> QED
    BY <1>1, <2>1, <2>2, WorkerStep
<1>2. CASE parse_args
  <2>1. UNCHANGED worker /\ \A w \in Threads : worker[w] = idleWorker
    BY <1>2 DEF parse_args, BenchInv, MainInv, Early, WorkerTyped
  <2> QED
    BY <2>1 DEF BenchInv, WorkerTyped, idleWorker
<1>3. CASE spawnWorkers
  <2>1. /\ config \in ValidArguments /\ UNCHANGED config
        /\ worker' = [w \in Threads |-> IF w < workers
                                        THEN [idleWorker EXCEPT !.state = "running"]
                                        ELSE idleWorker]
    BY <1>3 DEF spawnWorkers, BenchInv, MainInv, Early
  <2>2. ASSUME NEW w \in Threads, w < workers
        PROVE  worker'[w].operation < split_work(w)'
    <3>1. split_work(w)' = split_work(w)
      BY <2>1 DEF split_work, workers
    <3> QED
      BY <2>1, <2>2, <3>1, SplitBounds DEF idleWorker
  <2>3. ASSUME NEW w \in Threads
        PROVE  worker'[w] \in WorkerRecords /\ WorkerTyped(w)'
    <3>1. CASE w < workers
      <4>1. worker'[w] = [state |-> "running", operation |-> 0, step |-> 1, sent |-> FALSE]
        BY <2>1, <3>1 DEF idleWorker
      <4> QED
        BY <2>2, <3>1, <4>1 DEF WorkerTyped, WorkerRecords
    <3>2. CASE ~(w < workers)
      BY <2>1, <3>2 DEF WorkerTyped, WorkerRecords, idleWorker
    <3> QED
      BY <3>1, <3>2
  <2>4. worker' \in [Threads -> WorkerRecords]
    BY <2>1, <2>3
  <2> QED
    BY <2>3, <2>4
<1>4. ASSUME UNCHANGED <<config, worker>>
      PROVE  \A w \in Threads : WorkerTyped(w)'
  BY <1>4 DEF BenchInv, WorkerTyped, split_work, workers
<1>5. CASE refuses \/ start_local_server \/ wait_until_ready \/ join \/ dropKill \/ dropRemove
  BY <1>4, <1>5 DEF refuses, MainReturnsAtOnce, start_local_server, wait_until_ready, join,
    dropKill,
    dropRemove, MainGoto, MainReturns, BenchInv
<1>6. CASE unknownKeyPackage \/ unknownAccount \/ readFails \/ malformedKeyPackage
  BY <1>4, <1>6 DEF unknownKeyPackage, unknownAccount, readFails, malformedKeyPackage, Expect,
    MainGoto, MainReturns, BenchInv
<1>7. CASE server \/ serverFault \/ exited \/ UNCHANGED benchVars
  BY <1>4, <1>7 DEF server, serverFault, exited, benchVars, bench, BenchInv
<1>8. ASSUME NEW u \in Threads, exercise_business_flow(u)
      PROVE  worker' \in [Threads -> WorkerRecords]
  BY <1>8, WorkerStep
<1> QED
  BY <1>1, <1>2, <1>3, <1>5, <1>6, <1>7, <1>8 DEF BenchmarkNext, main

\* The prune's cutoff does not pass T: it reads the clock while the server runs.
LEMMA CutoffStays ==
  ASSUME Undisturbed, NEW T \in Nat, BenchInv(T), Within(T), [ServiceNext]_allVars
  PROVE  stamp'[Pruner] <= T
<1>0. Pruner \in Tasks /\ TypeInv /\ CallerTypes /\ stamp[Pruner] \in Nat /\ stamp[Pruner] <= T
  BY DEF BenchInv, Tasks, TypeInv, TypeOK
<1>1. ASSUME stamp'[Pruner] \in {0, stamp[Pruner]} PROVE stamp'[Pruner] <= T
  BY <1>0, <1>1
<1>2. ASSUME NEW t \in Tasks \ {Pruner}, Untouched(Pruner) PROVE stamp'[Pruner] <= T
  BY <1>0, <1>2 DEF Untouched
<1>3. CASE Acquire(Pruner)
  <2>1. stamp'[Pruner] = saturating_sub(now, retention) /\ pc[Pruner] = "lock"
    BY <1>0, <1>3 DEF Acquire, TakeGuard, TypeInv, TypeOK
  <2>2. now <= T + retention
    <3>1. stage \notin {"args", "spawn", "exited"}
      BY <1>0, <2>1 DEF BenchInv, CleanInv
    <3> QED
      BY <3>1 DEF Within
  <2> QED
    BY <1>0, <2>1, <2>2, BoundsAssumption DEF saturating_sub, TypeInv, TypeOK, Time
<1>4. CASE Statement(Pruner) \/ BusyTimeout(Pruner) \/ Return(Pruner) \/ IoFault(Pruner) \/ PruneTick
  <2>1. CASE BusyTimeout(Pruner) \/ Return(Pruner) \/ IoFault(Pruner) \/ PruneTick
    BY <1>0, <1>1, <2>1 DEF BusyTimeout, IoFault, Return, Finish, Enter, Reset, PruneTick, TypeInv,
      TypeOK
  <2>2. CASE Statement(Pruner)
    BY <1>0, <1>1, <2>2 DEF Statement, insert, insertConflict, pruneOld, pruneExcess,
      prune_accounts, Select, Write, BeginWrite, WriteBusy, Commit, Rollback, Finish, Reset,
        TypeInv, TypeOK
  <2> QED
    BY <1>4, <2>1, <2>2
<1>5. ASSUME NEW t \in Tasks \ {Pruner},
             Statement(t) \/ Acquire(t) \/ BusyTimeout(t) \/ Return(t) \/ \E c : Submit(t, c)
      PROVE  stamp'[Pruner] <= T
  BY <1>0, <1>2, <1>5, OthersLeave
<1>6. ASSUME NEW t \in Tasks \ {Pruner}, IoFault(t) \/ Cancel(t) PROVE stamp'[Pruner] <= T
  BY <1>0, <1>1, <1>6 DEF IoFault, Cancel, Finish, Reset, locals, TypeInv, TypeOK
<1>7. CASE ProcessEnds \/ Tick \/ ClockSetBack \/ UNCHANGED vars
  BY <1>0, <1>1, <1>7 DEF ProcessEnds, Tick, ClockSetBack, vars, locals
<1> QED
  BY <1>3, <1>4, <1>5, <1>6, <1>7, EntersAdmitted, TasksAssumption DEF Inner, Tasks, BenchInv

\* The ingest thread has nothing but messages to serve.
LEMMA IngestStep ==
  ASSUME TypeInv, CallerTypes, IngestInv, [ServiceNext]_allVars PROVE IngestInv'
<1>0. Ingest \in Handlers /\ Ingest \in Tasks
  BY CallersAssumption DEF Tasks
<1> SUFFICES ASSUME pc'[Ingest] # "idle"
             PROVE  \E m \in Messages : m.kind \in Kinds /\ admit(m) = "Ok" /\ call'[Ingest] = apply(m)
  BY DEF IngestInv
<1>1. ASSUME Untouched(Ingest)
      PROVE  \E m \in Messages : m.kind \in Kinds /\ admit(m) = "Ok" /\ call'[Ingest] = apply(m)
  BY <1>1 DEF Untouched, IngestInv
<1>2. CASE Inner
  BY <1>0, <1>2, InnerKeepsCall DEF IngestInv
<1>3. CASE ingest
  <2>1. PICK m \in Messages : m.kind \in Kinds /\ Serve(Ingest, m)
    BY <1>3 DEF ingest, recv, ingest_keypackage, ingest_account, CallerTypes, InboundType, Kinds
  <2>2. admit(m) = "Ok" /\ call'[Ingest] = apply(m)
    BY <1>0, <2>1 DEF Serve, Submit, Enter, Goto, TypeInv, TypeOK, vars, locals
  <2> QED
    BY <2>1, <2>2
<1>4. ASSUME NEW h \in Http, NEW s, post(h, s)
      PROVE  \E m \in Messages : m.kind \in Kinds /\ admit(m) = "Ok" /\ call'[Ingest] = apply(m)
  <2>1. h \in Tasks /\ h # Ingest
    BY DEF Tasks, Http
  <2>2. Submit(h, apply(s)) \/ UNCHANGED vars
    BY <1>4 DEF post, submit_key_package, submit_account, submit_account_log, Serve
  <2>3. Untouched(Ingest)
    BY <1>0, <2>1, <2>2, OthersLeave DEF Untouched, vars, locals
  <2> QED
    BY <1>1, <2>3
<1>5. CASE Starting \/ shutdown_signal \/ nodeStops \/ (\E m \in Messages : deliver(m))
           \/ UNCHANGED allVars
  <2>1. UNCHANGED vars
    BY <1>5 DEF Starting, open, skipDelivery, startNode, subscribeKeys, subscribeAccts, spawnIngest,
      bind, shutdown_signal, Advance, nodeStops, deliver, allVars
  <2> QED
    BY <1>1, <2>1 DEF Untouched, vars, locals
<1>6. CASE startFails \/ exit \/ kill \/ prune \/ clock
  BY <1>2, <1>6 DEF startFails, exit, kill, Down, prune, clock, Inner, Tasks
<1>7. ASSUME NEW t \in Tasks,
             inStore(t) \/ ioFault(t) \/ (t \in Handlers /\ (respond(t) \/ hangUp(t)))
      PROVE  Inner
  BY <1>7 DEF inStore, ioFault, respond, hangUp, Inner
<1> QED
  BY <1>2, <1>3, <1>4, <1>5, <1>6, <1>7 DEF ServiceNext, Tasks, Http

\* A server that serves goes on serving or goes down.
LEMMA PhaseStays ==
  ASSUME "crash" \in Faults, NEW T, BenchInv(T), [BenchmarkNext]_benchVars, ~start_local_server,
         phase \in {"serving", "down"}
  PROVE  phase' \in {"serving", "down"}
<1>1. CASE server
  <2>1. ~startNode /\ ~subscribeKeys /\ ~subscribeAccts /\ ~spawnIngest /\ ~bind
    BY DEF startNode, subscribeKeys, subscribeAccts, spawnIngest, bind, Advance
  <2> QED
    BY <1>1, <2>1 DEF server, startFails, kill, Down, deliver, ingest, recv, respond, prune,
      inStore,
      clock, service
<1>2. ASSUME NEW u \in Threads, exercise_business_flow(u) PROVE phase' = phase
  BY <1>2 DEF exercise_business_flow, send, post, receive, fetch, fetchFails, sendFails, allVars,
    service
<1>3. CASE main
  <2>1. CASE malformedKeyPackage \/ dropKill \/ dropRemove
    BY <2>1 DEF malformedKeyPackage, post, dropKill, Down, dropRemove, allVars, service
  <2>2. CASE UNCHANGED allVars
    BY <2>2 DEF allVars, service
  <2>3. CASE parse_args \/ refuses \/ wait_until_ready \/ unknownKeyPackage \/ unknownAccount
             \/ readFails \/ spawnWorkers \/ join
    BY <2>2, <2>3 DEF parse_args, refuses, wait_until_ready, unknownKeyPackage, unknownAccount,
      readFails, spawnWorkers, join
  <2> QED
    BY <1>3, <2>1, <2>3 DEF main
<1>4. ASSUME serverFault PROVE phase' = phase
  BY <1>4 DEF serverFault, ioFault, service
<1> QED
  BY <1>1, <1>2, <1>3, <1>4 DEF BenchmarkNext, exited, benchVars, allVars, service

\* Where main is, after any step.
LEMMA MainStep ==
  ASSUME "crash" \in Faults, NEW T, BenchInv(T), [BenchmarkNext]_benchVars
  PROVE  MainInv'
<1>0. MainInv /\ \A w \in Threads : worker[w].state = "unspawned" => worker[w] = idleWorker
  BY DEF BenchInv, WorkerTyped
<1> USE DEF MainInv, Early
<1>1. ASSUME UNCHANGED <<stage, config, worker>>, ~start_local_server PROVE MainInv'
  BY <1>0, <1>1, PhaseStays DEF workers
<1>2. CASE server \/ serverFault \/ exited \/ UNCHANGED benchVars
  <2>1. UNCHANGED <<stage, config, worker>>
    BY <1>2 DEF server, serverFault, exited, benchVars, bench
  <2>2. CASE stage = "spawn"
    BY <1>0, <2>1, <2>2
  <2> QED
    BY <1>1, <2>1, <2>2 DEF start_local_server
<1>3. ASSUME NEW u \in Threads, exercise_business_flow(u) PROVE MainInv'
  <2>1. /\ UNCHANGED <<stage, config>> /\ worker[u].state = "running"
        /\ \A w \in Threads \ {u} : worker'[w] = worker[w]
    BY <1>3, WorkerStep
  <2>2. phase' = phase
    BY <1>3 DEF exercise_business_flow, send, post, receive, fetch, fetchFails, sendFails,
      allVars, service
  <2> QED
    BY <1>0, <2>1, <2>2 DEF workers
<1>4. CASE parse_args
  <2>1. /\ stage = "args" /\ stage' = "spawn" /\ UNCHANGED worker
        /\ config' \in ValidArguments /\ config' # None
    BY <1>4, BenchmarkAssumption DEF parse_args, ValidArguments
  <2> QED
    BY <1>0, <2>1
<1>5. CASE refuses
  BY <1>0, <1>5 DEF refuses, MainReturnsAtOnce, allVars, service, workers
<1>6. CASE start_local_server
  BY <1>0, <1>6 DEF start_local_server, MainGoto
<1>7. CASE wait_until_ready
  BY <1>0, <1>7 DEF wait_until_ready, MainGoto, MainReturns, allVars, service, workers
<1>8. CASE unknownKeyPackage \/ unknownAccount \/ readFails \/ malformedKeyPackage
  <2>1. /\ stage \in Early \ {"wait"} /\ phase' = phase /\ UNCHANGED <<config, worker>>
        /\ stage' \in (Early \ {"wait"}) \cup {"kill"}
    BY <1>8 DEF unknownKeyPackage, unknownAccount, readFails, malformedKeyPackage, Expect, MainGoto,
      MainReturns, post, allVars, service
  <2> QED
    BY <1>0, <2>1 DEF workers
<1>9. CASE spawnWorkers
  <2>1. /\ stage = "start" /\ stage' = "join" /\ phase' = phase /\ UNCHANGED config
        /\ worker' = [w \in Threads |-> IF w < workers
                                        THEN [idleWorker EXCEPT !.state = "running"]
                                        ELSE idleWorker]
    BY <1>9 DEF spawnWorkers, allVars, service
  <2>2. \A w \in Threads : worker'[w].state # "unspawned" => w < workers
    BY <2>1 DEF idleWorker
  <2> QED
    BY <1>0, <2>1, <2>2 DEF workers
<1>10. CASE join
  <2>1. /\ stage = "join" /\ stage' \in {"join", "kill"} /\ phase' = phase
        /\ UNCHANGED <<config, worker>>
    BY <1>10 DEF join, MainReturns, allVars, service
  <2> QED
    BY <1>0, <2>1 DEF workers
<1>11. CASE dropKill \/ dropRemove
  <2>1. /\ stage \in {"kill", "remove"} /\ stage' \in {"remove", "exited"}
        /\ phase' \in {phase, "down"} /\ UNCHANGED <<config, worker>>
    BY <1>11 DEF dropKill, dropRemove, MainGoto, Down, allVars, service
  <2> QED
    BY <1>0, <2>1 DEF workers
<1> QED
  BY <1>2, <1>3, <1>4, <1>5, <1>6, <1>7, <1>8, <1>9, <1>10, <1>11 DEF BenchmarkNext, main

\* The invariant holds at first, and every step keeps it.
LEMMA BenchStart == ASSUME NEW T \in Nat, BenchmarkInit PROVE BenchInv(T)
<1>1. ServiceInit
  BY DEF BenchmarkInit
<1>2. CallerTypes
  BY <1>1, CallersAssumption DEF ServiceInit, CallerTypes, AnswerTypes, InboundType
<1>3. TypeInv /\ MutexInv /\ NoBusy
  BY <1>1, TypeInit, MutexInit DEF ServiceInit
<1>4. /\ \A t \in Tasks : pc[t] = "idle" /\ stamp[t] = 0
      /\ EmptyTables /\ phase = "down"
  BY <1>1 DEF ServiceInit, Init, EmptyTables
<1>5. stage = "args" /\ config = None /\ worker = [w \in Threads |-> idleWorker]
  BY DEF BenchmarkInit
<1>6. CleanInv /\ MainInv
  BY <1>4, <1>5 DEF CleanInv, MainInv, Early, idleWorker
<1>7. IngestInv /\ stamp[Pruner] <= T
  BY <1>4, CallersAssumption DEF IngestInv, Tasks
<1>8. ASSUME NEW w \in Threads PROVE worker[w] \in WorkerRecords /\ WorkerTyped(w) /\ FlowInv(w, T)
  <2>1. worker[w] = idleWorker /\ w \in Tasks
    BY <1>5, BenchmarkAssumption DEF Tasks, Http
  <2>2. WorkerTyped(w)
    BY <2>1 DEF WorkerTyped, WorkerRecords, idleWorker
  <2>3. FlowInv(w, T)
    BY <1>4, <1>5, <2>1 DEF FlowInv, Progress, idleWorker
  <2> QED
    BY <2>2, <2>3 DEF WorkerTyped
<1>9. worker \in [Threads -> WorkerRecords]
  BY <1>5, <1>8
<1> QED
  BY <1>2, <1>3, <1>6, <1>7, <1>8, <1>9 DEF BenchInv

\* As long as the clock is where Within says.
LEMMA BenchStep ==
  ASSUME Undisturbed, HeaderCarries, NEW T \in Nat \ {0}, BenchInv(T), Within(T),
         [BenchmarkNext]_benchVars
  PROVE  BenchInv(T)'
<1>1. TypeInv' /\ CallerTypes' /\ MutexInv' /\ NoBusy'
  BY ServerInvStep
<1>2. CleanInv'
  BY CleanStep DEF BenchInv
<1>3. MainInv'
  BY MainStep DEF Undisturbed
<1>4. IngestInv' /\ stamp'[Pruner] <= T
  <2>1. CASE dropRemove
    BY <2>1 DEF dropRemove, locals, BenchInv, IngestInv
  <2>2. CASE ~dropRemove
    <3>1. [ServiceNext]_allVars
      BY <2>2, IsService DEF Undisturbed
    <3>2. IngestInv'
      BY <3>1, IngestStep DEF BenchInv
    <3>3. stamp'[Pruner] <= T
      BY <3>1, CutoffStays
    <3> QED
      BY <3>2, <3>3
  <2> QED
    BY <2>1, <2>2
<1>5. worker' \in [Threads -> WorkerRecords] /\ \A w \in Threads : WorkerTyped(w)'
  BY WorkersStep
<1>6. \A w \in Threads : FlowInv(w, T)'
  BY <1>1, FlowStep
<1> QED
  BY <1>1, <1>2, <1>3, <1>4, <1>5, <1>6 DEF BenchInv

-----------------------------------------------------------------------------
(* Theorems.                                                                  *)

\* With any number of workers and of flows, whatever the prune task does, whatever
\* reaches the server from the network under keys other than the flows', and
\* whatever I/O error another task meets, a flow of exercise_business_flow fails
\* only with the server, or by an I/O error of one of its own requests.  The times
\* that the server reads have to fall within one retention of some time T: the
\* benchmark runs for less than the 30 days of the default.
THEOREM FlowsSucceed ==
  ASSUME Undisturbed, HeaderCarries, NEW T \in Nat \ {0}
  PROVE  BenchmarkSpec /\ []Within(T) => []FlowsFailOnlyWithServer
<1>1. BenchmarkInit => BenchInv(T)
  BY BenchStart
<1>2. BenchInv(T) /\ Within(T) /\ [BenchmarkNext]_benchVars => BenchInv(T)'
  BY BenchStep
<1>3. BenchInv(T) => FlowsFailOnlyWithServer
  BY DEF BenchInv, FlowInv, FlowsFailOnlyWithServer
<1> QED
  BY <1>1, <1>2, <1>3, PTL DEF BenchmarkSpec

-----------------------------------------------------------------------------
(* The report.                                                                *)

\* What main knows of its workers: those it has joined did all their flows, and
\* it reports success when it has joined them all.
VerdictInv ==
  /\ verdict \in {"none", "Ok", "Err"} /\ joined \in Nat
  /\ stage \in {"args", "spawn", "join"} \cup Early => verdict = "none"
  /\ stage \in {"args", "spawn"} \cup Early => joined = 0
  /\ stage = "join" =>
       joined <= workers /\ \A w \in Threads : w < joined => worker[w].state = "Ok"
  /\ verdict = "Ok" =>
       config # None /\ \A w \in Threads : w < workers => worker[w].state = "Ok"

\* Every step keeps it so: a worker that is done stays done.
LEMMA VerdictStep ==
  ASSUME NEW T, BenchInv(T), VerdictInv, [BenchmarkNext]_benchVars
  PROVE  VerdictInv'
<1> USE DEF VerdictInv, Early
<1>0. MainInv
  BY DEF BenchInv
<1>1. ASSUME UNCHANGED <<stage, config, worker, joined, verdict>> PROVE VerdictInv'
  BY <1>1 DEF workers
<1>2. CASE server \/ serverFault \/ exited \/ UNCHANGED benchVars
  BY <1>1, <1>2 DEF server, serverFault, exited, benchVars, bench
<1>3. ASSUME NEW u \in Threads, exercise_business_flow(u) PROVE VerdictInv'
  <2>1. /\ UNCHANGED <<stage, config>> /\ worker[u].state = "running"
        /\ \A w \in Threads \ {u} : worker'[w] = worker[w]
    BY <1>3, WorkerStep
  <2>2. UNCHANGED <<joined, verdict>>
    BY <1>3 DEF exercise_business_flow, send, receive, fetch, fetchFails, sendFails, Conclude,
      WorkerBecomes
  <2>3. \A w \in Threads : worker[w].state = "Ok" => worker'[w].state = "Ok"
    BY <2>1
  <2> QED
    BY <2>1, <2>2, <2>3 DEF workers
<1>4. CASE parse_args
  BY <1>4 DEF parse_args
<1>5. CASE refuses \/ start_local_server \/ wait_until_ready
  BY <1>5 DEF refuses, MainReturnsAtOnce, start_local_server, wait_until_ready, MainGoto,
    MainReturns
<1>6. CASE unknownKeyPackage \/ unknownAccount \/ readFails \/ malformedKeyPackage
  BY <1>6 DEF unknownKeyPackage, unknownAccount, readFails, malformedKeyPackage, Expect, MainGoto,
    MainReturns
<1>7. CASE spawnWorkers
  <2>1. /\ stage' = "join" /\ joined' = 0 /\ verdict' = "none" /\ UNCHANGED config
        /\ config \in ValidArguments
    BY <1>0, <1>7 DEF spawnWorkers, MainInv
  <2>2. 0 <= workers' /\ \A w \in Threads : ~(w < 0)
    BY <2>1, BenchmarkAssumption DEF workers, minimum, ValidArguments, Threads
  <2> QED
    BY <2>1, <2>2
<1>8. CASE join
  <2>1. stage = "join" /\ UNCHANGED <<config, worker>> /\ config \in ValidArguments /\ config # None
    BY <1>0, <1>8 DEF join, MainReturns, MainInv
  <2>2. workers' = workers /\ workers \in Nat
    BY <2>1, BenchmarkAssumption DEF workers, minimum, ValidArguments
  <2>3. CASE joined = workers /\ MainReturns("Ok")
    BY <2>1, <2>2, <2>3 DEF MainReturns
  <2>4. CASE MainReturns("Err")
    BY <2>1, <2>2, <2>4 DEF MainReturns
  <2>5. CASE /\ joined < workers /\ worker[joined].state = "Ok" /\ joined' = joined + 1
             /\ UNCHANGED <<stage, config, worker, verdict>>
    <3>1. ASSUME NEW w \in Threads, w < joined + 1 PROVE w < joined \/ w = joined
      BY <3>1 DEF Threads
    <3> QED
      BY <2>1, <2>2, <2>5, <3>1
  <2> QED
    BY <1>8, <2>3, <2>4, <2>5 DEF join
<1>9. CASE dropKill \/ dropRemove
  BY <1>9 DEF dropKill, dropRemove, MainGoto, workers
<1> QED
  BY <1>2, <1>3, <1>4, <1>5, <1>6, <1>7, <1>8, <1>9 DEF BenchmarkNext, main

\* A number is one multiple of k and one remainder below k.
LEMMA DivisionUnique ==
  ASSUME NEW k \in Nat \ {0}, NEW q \in Nat, NEW o \in Nat, NEW r \in 0 .. k - 1,
         NEW w \in 0 .. k - 1,
         q * k + r = o * k + w
  PROVE  q = o /\ r = w
<1>1. q * k \in Nat /\ o * k \in Nat
  OBVIOUS
<1>2. q < o => q * k + k <= o * k
  BY Blocks
<1>3. o < q => o * k + k <= q * k
  BY Blocks
<1> QED
  BY <1>1, <1>2, <1>3

\* The shares of the workers are the operations that were asked for, each dealt
\* once: as many keys are published.
LEMMA FlowsCounted ==
  ASSUME config \in ValidArguments
  PROVE  Cardinality({device_key(f[1], f[2]) : f \in Flows}) = config.operations
<1> DEFINE n == config.operations
           k == workers
           keys == {device_key(f[1], f[2]) : f \in Flows}
           g == [i \in 1 .. n |-> device_key((i - 1) % k, (i - 1) \div k)]
<1>1. /\ n \in Nat \ {0} /\ n <= SequenceShift /\ SequenceShift \in Nat
      /\ k \in Nat \ {0} /\ k <= MaxConcurrency /\ MaxConcurrency \in Nat
  BY BenchmarkAssumption DEF ValidArguments, workers, minimum
<1>2. /\ \A w \in 0 .. k - 1 : w \in Threads /\ w < workers
      /\ \A w \in Threads : w < workers => w \in 0 .. k - 1
  BY <1>1 DEF Threads
<1>3. ASSUME NEW w \in 0 .. k - 1 PROVE split_work(w) = n \div k + (IF w < n % k THEN 1 ELSE 0)
  BY DEF split_work
<1>4. ASSUME NEW w \in 0 .. k - 1 PROVE split_work(w) \in 1 .. n
  BY <1>2, SplitBounds
<1> HIDE DEF n, k
<1>5. ASSUME NEW w \in 0 .. k - 1, NEW o \in Nat
      PROVE  <<w, o>> \in Flows <=> o * k + w < n
  <2>1. o < split_work(w) <=> o * k + w < n
    <3>1. o < n \div k + (IF w < n % k THEN 1 ELSE 0) <=> o * k + w < n
      BY <1>1, Shares
    <3>2. split_work(w) = n \div k + (IF w < n % k THEN 1 ELSE 0)
      BY <1>3
    <3> QED
      BY <3>1, <3>2
  <2>2. o < split_work(w) => o \in 0 .. n - 1
    BY <1>1, <1>4
  <2> QED
    BY <1>2, <2>1, <2>2 DEF Flows, n
<1>6. ASSUME NEW i \in 1 .. n
      PROVE  /\ (i - 1) % k \in 0 .. k - 1 /\ (i - 1) \div k \in Nat
             /\ i - 1 = ((i - 1) \div k) * k + ((i - 1) % k)
             /\ <<(i - 1) % k, (i - 1) \div k>> \in Flows
  <2>1. i - 1 \in Nat /\ i - 1 < n
    BY <1>1
  <2>2. /\ (i - 1) % k \in 0 .. k - 1 /\ (i - 1) \div k \in Nat
        /\ i - 1 = ((i - 1) \div k) * k + ((i - 1) % k)
    BY <1>1, <2>1, Division
  <2> QED
    BY <1>5, <2>1, <2>2
<1>7. g \in [1 .. n -> keys]
  <2>1. ASSUME NEW i \in 1 .. n PROVE device_key((i - 1) % k, (i - 1) \div k) \in keys
    <3>1. PICK f \in Flows : f = <<(i - 1) % k, (i - 1) \div k>>
      BY <1>6
    <3>2. f[1] = (i - 1) % k /\ f[2] = (i - 1) \div k
      BY <3>1
    <3> QED
      BY <3>2
  <2> QED
    BY <2>1
<1>8. ASSUME NEW i \in 1 .. n, NEW j \in 1 .. n, g[i] = g[j] PROVE i = j
  <2> DEFINE w == (i - 1) % k
             o == (i - 1) \div k
             u == (j - 1) % k
             p == (j - 1) \div k
  <2>1. /\ w \in Threads /\ u \in Threads
        /\ o \in 0 .. SequenceShift - 1 /\ p \in 0 .. SequenceShift - 1
        /\ i - 1 = o * k + w /\ j - 1 = p * k + u
    <3>1. w \in 0 .. k - 1 /\ u \in 0 .. k - 1 /\ <<w, o>> \in Flows /\ <<u, p>> \in Flows
          /\ i - 1 = o * k + w /\ j - 1 = p * k + u
      BY <1>6
    <3>2. o \in 0 .. n - 1 /\ p \in 0 .. n - 1
      BY <3>1 DEF Flows, n
    <3> QED
      BY <1>1, <1>2, <3>1, <3>2
  <2>2. device_key(w, o) = device_key(u, p)
    BY <1>8
  <2> HIDE DEF w, o, u, p
  <2>3. w = u /\ o = p
    BY <2>1, <2>2, KeysApart
  <2> QED
    BY <2>1, <2>3
<1>9. ASSUME NEW d \in keys PROVE \E i \in 1 .. n : g[i] = d
  <2>1. PICK f \in Flows : d = device_key(f[1], f[2])
    OBVIOUS
  <2>2. PICK w \in Threads, o \in 0 .. n - 1 : f = <<w, o>> /\ w < workers
    BY <2>1 DEF Flows, n
  <2>3. w \in 0 .. k - 1 /\ o \in Nat /\ d = device_key(w, o)
    BY <1>1, <1>2, <2>1, <2>2
  <2>4. o * k + w < n /\ o * k \in Nat
    BY <1>1, <1>5, <2>1, <2>2, <2>3
  <2>5. PICK i \in 1 .. n : i = o * k + w + 1
    BY <1>1, <2>3, <2>4
  <2>6. (i - 1) % k = w /\ (i - 1) \div k = o
    <3> DEFINE r == (i - 1) % k
               q == (i - 1) \div k
    <3>1. r \in 0 .. k - 1 /\ q \in Nat /\ i - 1 = q * k + r
      BY <1>6
    <3>2. i - 1 = o * k + w
      BY <2>3, <2>4, <2>5
    <3> HIDE DEF r, q
    <3>3. q = o /\ r = w
      BY <1>1, <2>3, <3>1, <3>2, DivisionUnique
    <3> QED
      BY <3>3 DEF r, q
  <2> QED
    BY <2>3, <2>6
<1> HIDE DEF g, keys
<1>10. g \in Bijection(1 .. n, keys)
  BY <1>7, <1>8, <1>9 DEF Bijection, Injection, IsInjective, Surjection
<1>11. Cardinality(keys) = n
  BY <1>1, <1>10, FS_CountingElements DEF ExistsBijection
<1> QED
  BY <1>11 DEF keys, n

\* A worker that is done has left every one of its flows in the tables.
LEMMA DoneIsStored ==
  ASSUME Undisturbed, HeaderCarries, NEW T \in Nat, BenchInv(T), Kept,
         NEW w \in Threads, worker[w].state = "Ok", w < workers, config \in ValidArguments,
         NEW o \in 0 .. config.operations - 1, o < split_work(w)
  PROVE  /\ \E r \in keypackages : r.device_id = device_key(w, o)
         /\ account_bundles[account_key(w, o)] # NoRow
         /\ payload_lamport(account_bundles[account_key(w, o)].payload) = 2
<1>1. worker[w].operation = split_work(w) /\ worker[w].step = 1
  BY DEF BenchInv, WorkerTyped
<1>2. Progress(w, 1, T)
  BY <1>1 DEF BenchInv, FlowInv
<1>3. stepOf(w, o, 1) = 8
  BY <1>1 DEF stepOf
<1>4. config # None
  BY BenchmarkAssumption DEF ValidArguments
<1>5. PackageAt(w, o, 8, T) /\ ListAt(w, o, 8, T)
  BY <1>2, <1>3, <1>4 DEF Progress
<1>6. \E r \in keypackages : r.device_id = device_key(w, o)
  BY <1>5 DEF PackageAt, ofDevice
<1>7. /\ account_bundles[account_key(w, o)] # NoRow
      /\ account_bundles[account_key(w, o)].payload = account_payload(2, <<>>)
  BY <1>5 DEF ListAt, versionAt
<1> QED
  BY <1>6, <1>7 DEF HeaderCarries

\* Hence a report of success is true.
LEMMA ReportHolds ==
  ASSUME Undisturbed, HeaderCarries, NEW T \in Nat, BenchInv(T), VerdictInv PROVE ReportIsTrue
<1> SUFFICES ASSUME verdict = "Ok", Kept
             PROVE  /\ Cardinality({device_key(f[1], f[2]) : f \in Flows}) = config.operations
                    /\ \A f \in Flows :
                         /\ \E r \in keypackages : r.device_id = device_key(f[1], f[2])
                         /\ account_bundles[account_key(f[1], f[2])] # NoRow
                         /\ payload_lamport(account_bundles[account_key(f[1], f[2])].payload) = 2
  BY DEF ReportIsTrue, Kept
<1>1. config \in ValidArguments /\ \A w \in Threads : w < workers => worker[w].state = "Ok"
  BY DEF VerdictInv, BenchInv, MainInv
<1>2. ASSUME NEW f \in Flows
      PROVE  /\ \E r \in keypackages : r.device_id = device_key(f[1], f[2])
             /\ account_bundles[account_key(f[1], f[2])] # NoRow
             /\ payload_lamport(account_bundles[account_key(f[1], f[2])].payload) = 2
  <2>1. PICK w \in Threads, o \in 0 .. config.operations - 1 :
               f[1] = w /\ f[2] = o /\ w < workers /\ o < split_work(w)
    BY DEF Flows
  <2> QED
    BY <1>1, <2>1, DoneIsStored
<1> QED
  BY <1>1, <1>2, FlowsCounted

\* Under the same hypotheses: when the benchmark reports success, every flow it
\* counts is in the database, its keypackage and its second device list; and it
\* counts as many flows as were asked for, on keys no two of them share:
\* split_work hands out every operation once, remainder included, and the
\* sequence numbers of the workers are apart.
THEOREM ReportTrue ==
  ASSUME Undisturbed, HeaderCarries, NEW T \in Nat \ {0}
  PROVE  BenchmarkSpec /\ []Within(T) => []ReportIsTrue
<1>1. BenchmarkInit => BenchInv(T) /\ VerdictInv
  BY BenchStart DEF BenchmarkInit, VerdictInv, Early
<1>2. BenchInv(T) /\ VerdictInv /\ Within(T) /\ [BenchmarkNext]_benchVars =>
        BenchInv(T)' /\ VerdictInv'
  BY BenchStep, VerdictStep
<1>3. BenchInv(T) /\ VerdictInv => ReportIsTrue
  BY ReportHolds
<1> QED
  BY <1>1, <1>2, <1>3, PTL DEF BenchmarkSpec

-----------------------------------------------------------------------------
(* The header at the widths of the code.  The recursion over the bytes of a   *)
(* u64 is unrolled, so no induction is needed.                                *)

Bytes == 0 .. 255

\* A byte and a u64 as they are in the code.
CodeWidths == ByteBase = 256 /\ LamportBytes = 8 /\ BUNDLE_DOMAIN \in Seq(Bytes)

\* The lowest byte of a number, and the rest of it.
lowest(n) == n % 256
rest(n) == n \div 256

\* The number that eight bytes come to, the lowest first.
word(b) ==
  b[1] + 256 * (b[2] + 256 * (b[3] + 256 * (b[4] + 256 * (b[5] + 256 * (b[6] + 256 * (b[7] +
    256 * b[8]))))))

\* Bytes are numbers.
LEMMA BytesAreNumbers == Bytes \subseteq Nat
BY DEF Bytes

\* A number is its lowest byte and the rest.
LEMMA SplitByte ==
  ASSUME NEW n \in Nat
  PROVE  rest(n) \in Nat /\ lowest(n) \in Bytes /\ n = lowest(n) + 256 * rest(n)
BY SMT DEF lowest, rest, Bytes

\* A byte is its own lowest byte.
LEMMA LastByte ==
  ASSUME NEW n \in Nat, n < 256
  PROVE  lowest(n) = n
BY SMT DEF lowest

\* Splitting off a byte divides the bound by 256.
LEMMA RestSmaller ==
  ASSUME NEW n \in Nat, NEW k \in Nat, n < 256 * k
  PROVE  rest(n) < k
BY SMT DEF rest

\* The recursion over eight bytes, unrolled.  A function of this kind exists, so
\* the definition's is one, and there is only one.
LEMMA EightBytes ==
  ASSUME ByteBase = 256, NEW b \in Seq(Bytes), Len(b) = 8
  PROVE  from_le_bytes(b) = word(b)
<1> DEFINE step(v) == [i \in 1 .. Len(b) + 1 |->
                         IF i > Len(b) THEN 0 ELSE b[i] + ByteBase * v[i + 1]]
           f == CHOOSE v : v = step(v)
<1>1. from_le_bytes(b) = f[1]
  BY DEF from_le_bytes
<1>2. \E v : v = step(v)
  <2> DEFINE h8 == b[8] + 256 * 0
             h7 == b[7] + 256 * h8
             h6 == b[6] + 256 * h7
             h5 == b[5] + 256 * h6
             h4 == b[4] + 256 * h5
             h3 == b[3] + 256 * h4
             h2 == b[2] + 256 * h3
             h1 == b[1] + 256 * h2
             h == [i \in 1 .. 9 |-> IF i = 1 THEN h1 ELSE IF i = 2 THEN h2 ELSE IF i = 3 THEN h3
                    ELSE IF i = 4 THEN h4 ELSE IF i = 5 THEN h5 ELSE IF i = 6 THEN h6
                    ELSE IF i = 7 THEN h7 ELSE IF i = 8 THEN h8 ELSE 0]
  <2>1. /\ h[1] = h1 /\ h[2] = h2 /\ h[3] = h3 /\ h[4] = h4 /\ h[5] = h5 /\ h[6] = h6
        /\ h[7] = h7 /\ h[8] = h8 /\ h[9] = 0 /\ DOMAIN h = 1 .. 9
    OBVIOUS
  <2>2. ASSUME NEW i \in 1 .. 9
        PROVE  h[i] = (IF i > 8 THEN 0 ELSE b[i] + 256 * h[i + 1])
    <3>1. i = 1 \/ i = 2 \/ i = 3 \/ i = 4 \/ i = 5 \/ i = 6 \/ i = 7 \/ i = 8 \/ i = 9
      OBVIOUS
    <3> HIDE DEF h
    <3> QED
      BY <2>1, <3>1
  <2>3. h = [i \in 1 .. 9 |-> h[i]]
    OBVIOUS
  <2> HIDE DEF h
  <2>4. step(h) = [i \in 1 .. 9 |-> IF i > 8 THEN 0 ELSE b[i] + 256 * h[i + 1]]
    OBVIOUS
  <2>5. h = step(h)
    BY <2>2, <2>3, <2>4
  <2> QED
    BY <2>5
<1>3. f = step(f)
  BY <1>2
<1> HIDE DEF f
<1>4. /\ \A i \in 1 .. 8 : f[i] = b[i] + 256 * f[i + 1]
      /\ f[9] = 0
  BY <1>3
<1>5. \A i \in 1 .. 8 : b[i] \in Nat
  <2>1. \A i \in 1 .. 8 : b[i] \in Bytes
    BY ElementOfSeq
  <2> QED
    BY <2>1, BytesAreNumbers, Zenon
<1> HIDE DEF step
<1>6. /\ f[8] = b[8] + 256 * f[9] /\ f[7] = b[7] + 256 * f[8] /\ f[6] = b[6] + 256 * f[7]
      /\ f[5] = b[5] + 256 * f[6] /\ f[4] = b[4] + 256 * f[5] /\ f[3] = b[3] + 256 * f[4]
      /\ f[2] = b[2] + 256 * f[3] /\ f[1] = b[1] + 256 * f[2]
  BY <1>4
<1>7. f[8] = b[8]
  BY <1>4, <1>5, <1>6
<1> QED
  BY <1>1, <1>6, <1>7 DEF word

\* to_le_bytes splits off the lowest byte seven times.
LEMMA Remainders ==
  ASSUME CodeWidths, NEW n \in Nat
  PROVE  \E f : /\ f[1] = n
                /\ \A i \in 1 .. 7 : f[i + 1] = rest(f[i])
                /\ to_le_bytes(n) = [i \in 1 .. 8 |-> lowest(f[i])]
<1> DEFINE step(v) == [i \in 1 .. LamportBytes |-> IF i = 1 THEN n ELSE rest(v[i - 1])]
           f == CHOOSE v : v = step(v)
<1>1. to_le_bytes(n) = [i \in 1 .. LamportBytes |-> lowest(f[i])]
  BY DEF to_le_bytes, rest, lowest, CodeWidths
<1>2. \E v : v = step(v)
  <2> DEFINE h2 == rest(n)
             h3 == rest(h2)
             h4 == rest(h3)
             h5 == rest(h4)
             h6 == rest(h5)
             h7 == rest(h6)
             h8 == rest(h7)
             h == [i \in 1 .. 8 |-> IF i = 1 THEN n ELSE IF i = 2 THEN h2 ELSE IF i = 3 THEN h3
                    ELSE IF i = 4 THEN h4 ELSE IF i = 5 THEN h5 ELSE IF i = 6 THEN h6
                    ELSE IF i = 7 THEN h7 ELSE h8]
  <2>1. /\ h[1] = n /\ h[2] = rest(h[1]) /\ h[3] = rest(h[2]) /\ h[4] = rest(h[3])
        /\ h[5] = rest(h[4]) /\ h[6] = rest(h[5]) /\ h[7] = rest(h[6])
        /\ h[8] = rest(h[7])
    BY SMT
  <2>2. h = [i \in 1 .. 8 |-> h[i]]
    BY SMT
  <2> HIDE DEF h
  <2>3. ASSUME NEW i \in 1 .. 8
        PROVE  h[i] = (IF i = 1 THEN n ELSE rest(h[i - 1]))
    <3>1. i = 1 \/ i = 2 \/ i = 3 \/ i = 4 \/ i = 5 \/ i = 6 \/ i = 7 \/ i = 8
      BY SMT
    <3> QED
      BY <2>1, <3>1, SMT
  <2>4. step(h) = [i \in 1 .. 8 |-> IF i = 1 THEN n ELSE rest(h[i - 1])]
    BY SMT DEF CodeWidths
  <2>5. h = step(h)
    BY <2>2, <2>3, <2>4, SMT
  <2> QED
    BY <2>5
<1>3. f = step(f)
  BY <1>2
<1> HIDE DEF f
<1>4. f[1] = n /\ \A i \in 1 .. 7 : f[i + 1] = rest(f[i])
  BY <1>3, SMT DEF CodeWidths
<1>5. to_le_bytes(n) = [i \in 1 .. 8 |-> lowest(f[i])]
  BY <1>1, SMT DEF CodeWidths
<1> QED
  BY <1>4, <1>5

\* 2^64
Range64 == 256 * 256 * 256 * 256 * 256 * 256 * 256 * 256

\* A u64 is the eight bytes of to_le_bytes.
LEMMA LittleEndian ==
  ASSUME CodeWidths, NEW n \in Nat, n < Range64
  PROVE  /\ to_le_bytes(n) \in Seq(Bytes) /\ Len(to_le_bytes(n)) = 8
         /\ from_le_bytes(to_le_bytes(n)) = n
<1> DEFINE b == to_le_bytes(n)
<1>1. PICK f : /\ f[1] = n
               /\ \A i \in 1 .. 7 : f[i + 1] = rest(f[i])
               /\ b = [i \in 1 .. 8 |-> lowest(f[i])]
  BY Remainders
<1> HIDE DEF b
<1>2. /\ f[2] = rest(f[1]) /\ f[3] = rest(f[2]) /\ f[4] = rest(f[3])
      /\ f[5] = rest(f[4]) /\ f[6] = rest(f[5]) /\ f[7] = rest(f[6])
      /\ f[8] = rest(f[7])
  BY <1>1, SMT
<1>3. f[1] \in Nat /\ f[2] \in Nat /\ f[3] \in Nat /\ f[4] \in Nat
  BY <1>1, <1>2, SplitByte
<1>4. f[5] \in Nat /\ f[6] \in Nat /\ f[7] \in Nat /\ f[8] \in Nat
  BY <1>2, <1>3, SplitByte
<1>5. \A i \in 1 .. 8 : f[i] \in Nat
  BY <1>3, <1>4, SMT
<1>6. b \in Seq(Bytes) /\ Len(b) = 8
  <2>1. b \in [1 .. 8 -> Bytes]
    BY <1>1, <1>5, SplitByte, Zenon
  <2>2. 8 \in Nat
    BY SMT
  <2>3. b \in Seq(Bytes)
    BY <2>1, <2>2, SeqDef, Zenon
  <2> QED
    BY <2>1, <2>3, LenProperties, SMT
<1>7. f[8] < 256
  <2> DEFINE r2 == 256 * 256
             r3 == 256 * r2
             r4 == 256 * r3
             r5 == 256 * r4
             r6 == 256 * r5
             r7 == 256 * r6
  <2>1. r2 \in Nat /\ r3 \in Nat /\ r4 \in Nat /\ r5 \in Nat /\ r6 \in Nat /\ r7 \in Nat
    BY SMT
  <2>2. f[1] < 256 * r7
    BY <1>1, SMT DEF Range64
  <2> HIDE DEF r7
  <2>3. f[2] < r7
    BY <1>2, <1>3, <2>1, <2>2, RestSmaller
  <2> USE DEF r7
  <2> HIDE DEF r6
  <2>4. f[3] < r6
    BY <1>2, <1>3, <2>1, <2>3, RestSmaller
  <2> USE DEF r6
  <2> HIDE DEF r5
  <2>5. f[4] < r5
    BY <1>2, <1>3, <2>1, <2>4, RestSmaller
  <2> USE DEF r5
  <2> HIDE DEF r4
  <2>6. f[5] < r4
    BY <1>2, <1>3, <2>1, <2>5, RestSmaller
  <2> USE DEF r4
  <2> HIDE DEF r3
  <2>7. f[6] < r3
    BY <1>2, <1>4, <2>1, <2>6, RestSmaller
  <2> USE DEF r3
  <2> HIDE DEF r2
  <2>8. f[7] < r2
    BY <1>2, <1>4, <2>1, <2>7, RestSmaller
  <2> QED
    BY <1>2, <1>4, <2>8, RestSmaller DEF r2
<1>8. /\ f[1] = b[1] + 256 * f[2] /\ f[2] = b[2] + 256 * f[3] /\ f[3] = b[3] + 256 * f[4]
      /\ f[4] = b[4] + 256 * f[5] /\ f[5] = b[5] + 256 * f[6] /\ f[6] = b[6] + 256 * f[7]
      /\ f[7] = b[7] + 256 * f[8] /\ f[8] = b[8]
  <2>1. ASSUME NEW i \in 1 .. 7 PROVE f[i] = b[i] + 256 * f[i + 1]
    <3>1. i \in 1 .. 8 /\ b[i] = lowest(f[i]) /\ f[i + 1] = rest(f[i])
      BY <1>1, SMT
    <3>2. f[i] \in Nat
      BY <1>5, <3>1
    <3>3. f[i] = lowest(f[i]) + 256 * rest(f[i])
      BY <3>2, SplitByte, Zenon
    <3> QED
      BY <3>1, <3>3, Zenon
  <2>2. f[8] = b[8]
    <3>1. b[8] = lowest(f[8])
      BY <1>1, SMT
    <3> QED
      BY <1>4, <1>7, <3>1, LastByte, Zenon
  <2> QED
    BY <2>1, <2>2, SMT
<1>9. from_le_bytes(b) = n
  <2>1. from_le_bytes(b) = word(b)
    BY <1>6, EightBytes DEF CodeWidths
  <2> QED
    BY <1>1, <1>8, <2>1, SMT DEF word
<1> QED
  BY <1>6, <1>9 DEF b

\* get(1..9) of what follows the domain, of length k, in a payload p.
LEMMA HeaderSlice ==
  ASSUME NEW p \in Seq(Bytes), NEW k \in Nat, Len(p) >= k + 9
  PROVE  /\ SubSeq(p, k + 2, k + 9) \in Seq(Bytes)
         /\ Len(SubSeq(p, k + 2, k + 9)) = 8
         /\ \A i \in 1 .. 8 : SubSeq(p, k + 2, k + 9)[i] = p[k + 1 + i]
<1> DEFINE m == k + 2
           l == k + 9
<1>1. ASSUME NEW i \in m .. l PROVE p[i] \in Bytes
  <2>1. i \in 1 .. Len(p)
    BY LenProperties, SMT
  <2> QED
    BY <2>1, ElementOfSeq, Zenon
<1>2. m \in Int /\ l \in Int /\ m <= l /\ l - m + 1 = 8
  BY SMT
<1>3. \A i \in 1 .. 8 : m + i - 1 = k + 1 + i
  BY SMT
<1> HIDE DEF m, l
<1>4. /\ SubSeq(p, m, l) \in Seq(Bytes)
      /\ Len(SubSeq(p, m, l)) = IF m <= l THEN l - m + 1 ELSE 0
      /\ \A i \in 1 .. l - m + 1 : SubSeq(p, m, l)[i] = p[m + i - 1]
  BY <1>1, <1>2, SubSeqProperties
<1>5. /\ SubSeq(p, m, l) \in Seq(Bytes) /\ Len(SubSeq(p, m, l)) = 8
      /\ \A i \in 1 .. 8 : SubSeq(p, m, l)[i] = p[k + 1 + i]
  BY <1>2, <1>3, <1>4, Zenon
<1> QED
  BY <1>5 DEF m, l

\* A byte put before a number below k.
LEMMA PrependByte ==
  ASSUME NEW k \in Nat, NEW h \in Nat, h < k, NEW b \in Bytes
  PROVE  b + 256 * h \in Nat /\ b + 256 * h < 256 * k
BY SMT DEF Bytes

\* Eight bytes come to a number below 2^64.
LEMMA WordRange ==
  ASSUME NEW b, \A i \in 1 .. 8 : b[i] \in Bytes
  PROVE  word(b) \in 0 .. Range64 - 1
<1> DEFINE r1 == 256
           r2 == 256 * r1
           r3 == 256 * r2
           r4 == 256 * r3
           r5 == 256 * r4
           r6 == 256 * r5
           r7 == 256 * r6
           r8 == 256 * r7
           h1 == b[8]
           h2 == b[7] + 256 * h1
           h3 == b[6] + 256 * h2
           h4 == b[5] + 256 * h3
           h5 == b[4] + 256 * h4
           h6 == b[3] + 256 * h5
           h7 == b[2] + 256 * h6
           h8 == b[1] + 256 * h7
<1>0. /\ b[1] \in Bytes /\ b[2] \in Bytes /\ b[3] \in Bytes /\ b[4] \in Bytes
      /\ b[5] \in Bytes /\ b[6] \in Bytes /\ b[7] \in Bytes /\ b[8] \in Bytes
  BY SMT
<1>1. r1 \in Nat /\ r2 \in Nat /\ r3 \in Nat /\ r4 \in Nat /\ r5 \in Nat /\ r6 \in Nat /\ r7 \in Nat
  BY SMT
<1>2. Range64 = r8
  BY SMT DEF Range64
<1>3. h1 \in Nat /\ h1 < r1
  BY <1>0, SMT DEF Bytes
<1> HIDE DEF h1, r1
<1>4. h2 \in Nat /\ h2 < r2
  BY <1>0, <1>1, <1>3, PrependByte, Zenon
<1> HIDE DEF h2, r2
<1>5. h3 \in Nat /\ h3 < r3
  BY <1>0, <1>1, <1>4, PrependByte, Zenon
<1> HIDE DEF h3, r3
<1>6. h4 \in Nat /\ h4 < r4
  BY <1>0, <1>1, <1>5, PrependByte, Zenon
<1> HIDE DEF h4, r4
<1>7. h5 \in Nat /\ h5 < r5
  BY <1>0, <1>1, <1>6, PrependByte, Zenon
<1> HIDE DEF h5, r5
<1>8. h6 \in Nat /\ h6 < r6
  BY <1>0, <1>1, <1>7, PrependByte, Zenon
<1> HIDE DEF h6, r6
<1>9. h7 \in Nat /\ h7 < r7
  BY <1>0, <1>1, <1>8, PrependByte, Zenon
<1> HIDE DEF h7, r7
<1>10. h8 \in Nat /\ h8 < r8
  BY <1>0, <1>1, <1>9, PrependByte, Zenon
<1> HIDE DEF h8, r8
<1>11. h8 \in 0 .. Range64 - 1
  BY <1>2, <1>10, SMT DEF Range64
<1> QED
  BY <1>11, Zenon DEF word, h1, h2, h3, h4, h5, h6, h7, h8

\* What payload_lamport reads is a u64, whatever the bytes, or nothing: it never
\* overflows, and a payload with a foreign domain or a short header has no lamport.
THEOREM LamportIsWord ==
  ASSUME CodeWidths, NEW payload \in Seq(Bytes)
  PROVE  payload_lamport(payload) \in 0 .. Range64 - 1 \cup {None}
<1> DEFINE k == Len(BUNDLE_DOMAIN)
           b == SubSeq(payload, k + 2, k + 9)
<1>1. k \in Nat /\ Len(payload) \in Nat
  BY LenProperties DEF CodeWidths
<1>2. k + 1 + LamportBytes = k + 9
  BY <1>1, SMT DEF CodeWidths
<1>3. \/ payload_lamport(payload) = None
      \/ Len(payload) >= k + 9 /\ payload_lamport(payload) = from_le_bytes(b)
  <2>1. payload_lamport(payload) =
          IF IsPrefix(BUNDLE_DOMAIN, payload) /\ Len(payload) >= k + 1 + LamportBytes
          THEN from_le_bytes(SubSeq(payload, k + 2, k + 1 + LamportBytes)) ELSE None
    BY DEF payload_lamport
  <2> QED
    BY <1>2, <2>1, Zenon
<1> HIDE DEF k
<1>4. ASSUME Len(payload) >= k + 9 PROVE from_le_bytes(b) \in 0 .. Range64 - 1
  <2>1. b \in Seq(Bytes) /\ Len(b) = 8
    BY <1>1, <1>4, HeaderSlice
  <2> HIDE DEF b
  <2>2. \A i \in 1 .. 8 : b[i] \in Bytes
    BY <2>1, ElementOfSeq
  <2>3. from_le_bytes(b) = word(b)
    BY <2>1, EightBytes DEF CodeWidths
  <2>4. word(b) \in 0 .. Range64 - 1
    BY <2>2, WordRange, Zenon
  <2> QED
    BY <2>3, <2>4, Zenon
<1> QED
  BY <1>3, <1>4, Zenon

\* The lamport that the client encodes is the one that payload_lamport reads, for
\* every u64 and whatever follows the header: both sides agree on the offset
\* behind the domain and the version, and on the order of the bytes.
THEOREM HeaderRoundTrip ==
  ASSUME CodeWidths, NEW n \in Nat, n < Range64, NEW devices \in Seq(Bytes)
  PROVE  payload_lamport(account_payload(n, devices)) = n
<1> DEFINE d == BUNDLE_DOMAIN
           k == Len(d)
           b == to_le_bytes(n)
           p == account_payload(n, devices)
<1>1. d \in Seq(Bytes) /\ k \in Nat /\ b \in Seq(Bytes) /\ Len(b) = 8
  BY LittleEndian DEF CodeWidths
<1>2. p = d \o <<1>> \o b \o devices
  BY DEF account_payload
<1> HIDE DEF d, k, b, p
<1> DEFINE e == d \o <<1>>
           c == e \o b
<1>3. <<1>> \in Seq(Bytes) /\ Len(<<1>>) = 1
  BY DEF Bytes
<1>4. /\ e \in Seq(Bytes) /\ Len(e) = k + 1 /\ \A i \in 1 .. k : e[i] = d[i]
  BY <1>1, <1>3, ConcatProperties DEF k
<1> HIDE DEF e
<1>5. /\ c \in Seq(Bytes) /\ Len(c) = k + 9
      /\ \A i \in 1 .. k : c[i] = d[i]
      /\ \A i \in 1 .. 8 : c[k + 1 + i] = b[i]
  <2>1. /\ c \in Seq(Bytes) /\ Len(c) = Len(e) + Len(b)
        /\ \A i \in 1 .. Len(e) + Len(b) : c[i] = IF i <= Len(e) THEN e[i] ELSE b[i - Len(e)]
    BY <1>1, <1>4, ConcatProperties
  <2> QED
    BY <1>1, <1>4, <2>1
<1> HIDE DEF c
<1>6. /\ p \in Seq(Bytes) /\ Len(p) = k + 9 + Len(devices) /\ Len(devices) \in Nat
      /\ \A i \in 1 .. k : p[i] = d[i]
      /\ \A i \in 1 .. 8 : p[k + 1 + i] = b[i]
  <2>1. /\ p \in Seq(Bytes) /\ Len(p) = Len(c) + Len(devices) /\ Len(devices) \in Nat
        /\ \A i \in 1 .. Len(c) + Len(devices) :
             p[i] = IF i <= Len(c) THEN c[i] ELSE devices[i - Len(c)]
    <3>1. p = c \o devices
      BY <1>2 DEF c, e
    <3> QED
      BY <1>5, <3>1, ConcatProperties, LenProperties
  <2>2. Len(p) = k + 9 + Len(devices)
    BY <1>5, <2>1
  <2>3. ASSUME NEW i \in 1 .. k + 9 PROVE p[i] = c[i]
    <3>1. i \in 1 .. Len(c) + Len(devices) /\ i <= Len(c)
      BY <1>1, <1>5, <2>1, SMT
    <3> QED
      BY <2>1, <3>1, Zenon
  <2>4. ASSUME NEW i \in 1 .. k PROVE p[i] = d[i]
    <3>1. i \in 1 .. k + 9
      BY <1>1, SMT
    <3> QED
      BY <1>5, <2>3, <3>1, Zenon
  <2>5. ASSUME NEW i \in 1 .. 8 PROVE p[k + 1 + i] = b[i]
    <3>1. k + 1 + i \in 1 .. k + 9
      BY <1>1, SMT
    <3> QED
      BY <1>5, <2>3, <3>1, Zenon
  <2> QED
    BY <2>1, <2>2, <2>4, <2>5, Zenon
<1>7. SubSeq(d, 1, k) = SubSeq(p, 1, k)
  BY <1>1, <1>6 DEF k
<1>8. SubSeq(p, k + 2, k + 9) = b
  <2> DEFINE q == SubSeq(p, k + 2, k + 9)
  <2>1. Len(p) >= k + 9
    BY <1>1, <1>6, SMT
  <2>2. q \in Seq(Bytes) /\ Len(q) = 8 /\ \A i \in 1 .. 8 : q[i] = p[k + 1 + i]
    BY <1>1, <1>6, <2>1, HeaderSlice
  <2> HIDE DEF q
  <2>3. \A i \in 1 .. 8 : q[i] = b[i]
    BY <1>6, <2>2, Zenon
  <2>4. q = b
    BY <1>1, <2>2, <2>3, SeqEqual
  <2> QED
    BY <2>4 DEF q
<1>9. IsPrefix(d, p)
  BY <1>1, <1>6, <1>7 DEF IsPrefix, k
<1>10. Len(p) >= k + 9
  BY <1>1, <1>6
<1>11. payload_lamport(p) = from_le_bytes(SubSeq(p, k + 2, k + 9))
  <2>1. k + 1 + LamportBytes = k + 9
    BY <1>1, SMT DEF CodeWidths
  <2>2. payload_lamport(p) =
          IF IsPrefix(d, p) /\ Len(p) >= k + 1 + LamportBytes
          THEN from_le_bytes(SubSeq(p, k + 2, k + 1 + LamportBytes)) ELSE None
    BY DEF payload_lamport, d, k
  <2> QED
    BY <1>9, <1>10, <2>1, <2>2, Zenon
<1> QED
  BY <1>8, <1>11, LittleEndian DEF b, p

\* A byte is a u64.
LEMMA RangeAboveByte == \A n \in Nat : n < 256 => n < Range64
<1> DEFINE k == 256 * 256 * 256 * 256
<1>1. k \in Nat /\ k >= 256
  BY SMT
<1> HIDE DEF k
<1>2. k * 256 * 256 * 256 * 256 \in Nat /\ k * 256 * 256 * 256 * 256 >= 256
  BY <1>1, SMT
<1>3. Range64 = k * 256 * 256 * 256 * 256
  BY Zenon DEF Range64, k
<1> QED
  BY <1>2, <1>3

\* So what the theorems on the flows suppose of the header is true of the code.
LEMMA CodeCarries == CodeWidths => HeaderCarries
<1> SUFFICES ASSUME CodeWidths, NEW version \in {1, 2}
             PROVE  payload_lamport(account_payload(version, <<>>)) = version
  BY DEF HeaderCarries
<1>1. version \in Nat /\ version < Range64
  <2>1. version \in Nat /\ version < 256
    BY SMT
  <2> QED
    BY <2>1, RangeAboveByte
<1>2. <<>> \in Seq(Bytes)
  BY EmptySeq
<1> QED
  BY <1>1, <1>2, HeaderRoundTrip
=============================================================================
