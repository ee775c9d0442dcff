----------------------------- MODULE Benchmark -----------------------------
(***************************************************************************)
(* The end-to-end benchmark (src/examples/benchmark.rs) against the process *)
(* it starts: a client program whose worker threads drive a fresh server    *)
(* through the same business flow, each on keys of its own, and which       *)
(* removes server and database when it ends.  The server is ChatStore, one  *)
(* HTTP handler per worker; a GET is a single read of its tables.           *)
(***************************************************************************)
EXTENDS ChatStore

CONSTANTS
  Arguments,       \* the command lines tried: operations, concurrency, keep_db
  MaxConcurrency,  \* a bound on their concurrency
  SequenceShift,   \* 2^32: the first sequence number of worker 1
  UnknownKey       \* "0".repeat(64): nobody's key

Threads == 0 .. MaxConcurrency - 1

\* Each worker has its own connection; the server is started with --bind and
\* --db only, so delivery is on.
ASSUME BenchmarkAssumption ==
  /\ Http = Threads
  /\ ~no_delivery
  /\ MaxConcurrency \in Nat /\ SequenceShift \in Nat
  /\ Arguments \subseteq [operations : Nat, concurrency : Nat, keep_db : BOOLEAN]
  /\ None \notin Arguments
  /\ \A a \in Arguments : a.operations <= SequenceShift /\ a.concurrency <= MaxConcurrency
  /\ UnknownKey \in Accounts

VARIABLES
  stage,    \* how far main has come
  config,   \* the parsed arguments
  worker,   \* thread -> its progress through its flows
  joined,   \* threads whose result main has taken
  verdict,  \* what main returns: "Ok" or "Err"; "none" while it runs
  unlucky   \* history: threads one of whose requests met an I/O error

bench == <<stage, config, worker, joined, verdict>>
benchVars == <<allVars, bench, unlucky>>

idleWorker == [state |-> "unspawned", operation |-> 0, step |-> 1, sent |-> FALSE]

BenchmarkInit ==
  /\ ServiceInit
  /\ stage = "args"
  /\ config = None
  /\ worker = [w \in Threads |-> idleWorker]
  /\ joined = 0
  /\ verdict = "none"
  /\ unlucky = {}

-----------------------------------------------------------------------------
(* The work and its keys.                                                   *)

minimum(a, b) == IF a < b THEN a ELSE b

workers == minimum(config.concurrency, config.operations)

\* A faulty variant: the remainder is not handed out.
split_workDropsRemainder(w) == config.operations \div workers

split_work(w) ==
  config.operations \div workers + (IF w < config.operations % workers THEN 1 ELSE 0)

\* A faulty variant: every worker counts from the same number.
sequenceShared(w, operation) == operation

sequence(w, operation) == w * SequenceShift + operation

\* signing_key is injective in its seed: a key is its seed.
device_key(w, operation)  == 2 * sequence(w, operation)
account_key(w, operation) == 2 * sequence(w, operation) + 1

keypackage_payload(w, operation) == <<sequence(w, operation)>>

\* A body signed and encoded as the server expects it.
signed(kind, key, payload) ==
  [kind |-> kind, decodes |-> TRUE, upper |-> FALSE, key |-> key, keyLen |-> 32,
   payload |-> payload, by |-> key, over |-> payload, sigLen |-> 64]

malformed ==
  [signed("keypackage", None, <<>>) EXCEPT !.decodes = FALSE, !.keyLen = 9, !.sigLen = 2]

publish_account(w, operation, version, expected) ==
  [body |-> signed("account", account_key(w, operation), account_payload(version, <<>>)),
   expected |-> expected]

\* The POSTs of one flow, by their place among its seven requests.
posts(w, operation) ==
  [step \in {1, 3, 5, 6} |->
     CASE step = 1 -> [body |-> signed("keypackage", device_key(w, operation),
                                       keypackage_payload(w, operation)),
                       expected |-> 204]
       [] step = 3 -> publish_account(w, operation, 1, 204)
       [] step = 5 -> publish_account(w, operation, 1, 409)
       [] step = 6 -> publish_account(w, operation, 2, 204)]

\* Its keys are keys, its POSTs are submissions, its two device lists payloads.
ASSUME FlowsAssumption ==
  /\ malformed \in Submissions
  /\ \A a \in Arguments : \A w \in Threads, operation \in 0 .. a.operations - 1 :
       /\ device_key(w, operation) \in Devices /\ account_key(w, operation) \in Accounts
       /\ \A step \in {1, 3, 5, 6} : posts(w, operation)[step].body \in Submissions
  /\ \A version \in {1, 2} : account_payload(version, <<>>) \in AccountPayloads

\* The seeds are fixed and the server is on the public network: whoever reads
\* signing_key can sign with the flows' keys.  That nobody does so while the
\* benchmark runs is nothing the code ensures; what is said of the flows is said
\* under this hypothesis, which the instance satisfies.
KeysUnused ==
  \A m \in Messages, a \in Arguments : \A w \in Threads, operation \in 0 .. a.operations - 1 :
    m.by \notin {device_key(w, operation), account_key(w, operation)}

\* verify_response: the GET serves the payload that was published.
servedKeyPackage(w, operation) ==
  \E r \in fetch_key_package([key |-> device_key(w, operation), upper |-> FALSE]) :
    r.bundle = keypackage_payload(w, operation)

servedAccount(w, operation, version) ==
  LET row == fetch_account([key |-> account_key(w, operation), upper |-> FALSE])
  IN  row # NoRow /\ row.payload = account_payload(version, <<>>)
                  /\ (version = 1 => row.updated_at > 0)

\* The GETs of one flow, likewise.
gets(w, operation) ==
  [step \in {2, 4, 7} |->
     CASE step = 2 -> servedKeyPackage(w, operation)
       [] step = 4 -> servedAccount(w, operation, 1)
       [] step = 7 -> servedAccount(w, operation, 2)]

-----------------------------------------------------------------------------
(* main.                                                                    *)

MainGoto(to) == stage' = to /\ UNCHANGED <<config, worker, joined, verdict>>

\* The server is left running: what main would do without Drop.
MainReturnsAtOnce(answer) ==
  /\ stage' = "exited" /\ verdict' = answer
  /\ UNCHANGED <<config, worker, joined>>

\* main returns: LocalServer is dropped on the way out.
MainReturns(answer) ==
  /\ stage' = "kill" /\ verdict' = answer
  /\ UNCHANGED <<config, worker, joined>>

parse_args ==
  /\ stage = "args"
  /\ config' \in {a \in Arguments : a.operations > 0 /\ a.concurrency > 0}
  /\ stage' = "spawn"
  /\ UNCHANGED <<allVars, worker, joined, verdict>>

\* --help, an unknown option, a value that is missing, no number or zero; a
\* server binary that is not there, a port or process that cannot be had.
refuses ==
  /\ stage \in {"args", "spawn"}
  /\ MainReturnsAtOnce("Err")
  /\ UNCHANGED allVars

\* The clock is past 1970; the child opens its fresh database.
start_local_server == stage = "spawn" /\ now > 0 /\ open /\ MainGoto("wait")

\* The server answers within five seconds, or main gives up (as it does when
\* it cannot build its client).
wait_until_ready ==
  /\ stage = "wait"
  /\ \/ phase = "serving" /\ MainGoto("keypackage404")
     \/ MainReturns("Err")
  /\ UNCHANGED allVars

\* expect_status: the check passes and main goes on, or it fails and returns,
\* as it does when the server is gone.
Expect(from, passes, to) ==
  /\ stage = from
  /\ IF phase = "serving" /\ passes THEN MainGoto(to) ELSE MainReturns("Err")

unknownKeyPackage ==
  /\ Expect("keypackage404",
            fetch_key_package([key |-> UnknownKey, upper |-> FALSE]) = {}, "account404")
  /\ UNCHANGED allVars

unknownAccount ==
  /\ Expect("account404",
            fetch_account([key |-> UnknownKey, upper |-> FALSE]) = NoRow, "malformed400")
  /\ UNCHANGED allVars

\* The SELECT of a GET meets an error: main is answered 500 in place of 404.
readFails ==
  /\ "io" \in Faults
  /\ stage \in {"keypackage404", "account404"} /\ phase = "serving"
  /\ MainReturns("Err")
  /\ UNCHANGED allVars

malformedKeyPackage ==
  /\ Expect("malformed400", status(admit(malformed)) = 400, "start")
  /\ IF phase = "serving" THEN post(0, malformed) ELSE UNCHANGED allVars

spawnWorkers ==
  /\ stage = "start"
  /\ worker' = [w \in Threads |-> IF w < workers
                                  THEN [idleWorker EXCEPT !.state = "running"]
                                  ELSE idleWorker]
  /\ stage' = "join"
  /\ UNCHANGED <<allVars, config, joined, verdict>>

\* Threads are joined in order; the first error ends the benchmark.
join ==
  /\ stage = "join"
  /\ \/ joined = workers /\ MainReturns("Ok")
     \/ joined < workers /\ worker[joined].state = "Err" /\ MainReturns("Err")
     \/ /\ joined < workers /\ worker[joined].state = "Ok"
        /\ joined' = joined + 1
        /\ UNCHANGED <<stage, config, worker, verdict>>
  /\ UNCHANGED allVars

\* Drop for LocalServer: the child is killed and waited for, then its files go.
dropKill ==
  /\ stage = "kill"
  /\ IF phase = "down" THEN UNCHANGED allVars ELSE Down
  /\ MainGoto("remove")

dropRemove ==
  /\ stage = "remove"
  /\ IF config.keep_db THEN UNCHANGED tables
     ELSE /\ keypackages' = {}
          /\ account_bundles' = [a \in Accounts |-> NoRow]
          /\ account_logs' = [a \in Accounts |-> NoRow]
  /\ MainGoto("exited")
  /\ UNCHANGED <<locks, locals, now, acked, service>>

-----------------------------------------------------------------------------
(* The worker threads.                                                      *)

Working(w) == worker[w].state = "running" /\ stage # "exited"

WorkerBecomes(w, record) ==
  /\ worker' = [worker EXCEPT ![w] = record]
  /\ UNCHANGED <<stage, config, joined, verdict>>

\* The request was answered as expected, or the worker returns the error.
Conclude(w, asExpected) ==
  LET me   == worker[w]
      next == IF me.step < 7
              THEN [me EXCEPT !.step = me.step + 1, !.sent = FALSE]
              ELSE [me EXCEPT !.step = 1, !.operation = me.operation + 1,
                              !.state = IF me.operation + 1 = split_work(w)
                                        THEN "Ok" ELSE "running"]
  IN  WorkerBecomes(w, IF asExpected THEN next ELSE [me EXCEPT !.state = "Err"])

send(w) ==
  /\ Working(w) /\ ~worker[w].sent
  /\ worker[w].step \in {1, 3, 5, 6}
  /\ post(w, posts(w, worker[w].operation)[worker[w].step].body)
  /\ WorkerBecomes(w, [worker[w] EXCEPT !.sent = TRUE])

receive(w) ==
  /\ Working(w) /\ worker[w].sent
  /\ reply[w] # None
  /\ Conclude(w, status(reply[w].result)
                   = posts(w, worker[w].operation)[worker[w].step].expected)
  /\ UNCHANGED allVars

fetch(w) ==
  /\ Working(w) /\ worker[w].step \in {2, 4, 7}
  /\ phase = "serving"
  /\ Conclude(w, gets(w, worker[w].operation)[worker[w].step])
  /\ UNCHANGED allVars

\* The SELECT of the GET meets an error: 500.
fetchFails(w) ==
  /\ "io" \in Faults
  /\ Working(w) /\ worker[w].step \in {2, 4, 7}
  /\ phase = "serving"
  /\ Conclude(w, FALSE)
  /\ unlucky' = unlucky \cup {w}
  /\ UNCHANGED allVars

\* The connection is refused or reset: the server is gone.
sendFails(w) ==
  /\ Working(w) /\ phase # "serving"
  /\ worker[w].sent => reply[w] = None
  /\ Conclude(w, FALSE)
  /\ UNCHANGED allVars

exercise_business_flow(w) ==
  \/ (send(w) \/ receive(w) \/ fetch(w) \/ sendFails(w)) /\ UNCHANGED unlucky
  \/ fetchFails(w)

-----------------------------------------------------------------------------
(* The server meanwhile: every action of ChatStore but those that need another *)
(* occasion.  It is started once (open), its POSTs are the benchmark's (post), *)
(* delivery is on (skipDelivery), nobody hangs up on it (hangUp) or sends it   *)
(* Ctrl-C (shutdown_signal, exit), and the node stays (nodeStops).             *)

server ==
  /\ \/ startNode \/ subscribeKeys \/ subscribeAccts \/ spawnIngest \/ bind
     \/ startFails \/ kill
     \/ \E m \in Messages : deliver(m)
     \/ ingest
     \/ \E t \in Handlers : respond(t)
     \/ prune
     \/ \E t \in Tasks : inStore(t)
     \/ clock
  /\ UNCHANGED <<bench, unlucky>>

\* A statement of any task fails; where it is a POST's, its thread will be told.
serverFault ==
  \E t \in Tasks :
    /\ ioFault(t)
    /\ unlucky' = unlucky \cup ({t} \cap Threads)
    /\ UNCHANGED bench

main ==
  /\ \/ parse_args \/ refuses \/ start_local_server \/ wait_until_ready
     \/ unknownKeyPackage \/ unknownAccount \/ readFails \/ malformedKeyPackage
     \/ spawnWorkers \/ join \/ dropKill \/ dropRemove
  /\ UNCHANGED unlucky

\* Nothing is left to do.
exited == stage = "exited" /\ UNCHANGED benchVars

BenchmarkNext ==
  \/ main
  \/ \E w \in Threads : exercise_business_flow(w)
  \/ server
  \/ serverFault
  \/ exited

BenchmarkSpec == BenchmarkInit /\ [][BenchmarkNext]_benchVars

-----------------------------------------------------------------------------
(* Properties.                                                              *)

\* The benchmark is a sound test of the server: with workers in parallel, the
\* prune task and messages from the network, a flow fails only when the server
\* is gone or one of the flow's own requests met an I/O error; never because of
\* an answer that exercise_business_flow did not expect, nor of an error that
\* the prune, the ingest thread or another worker met.
FlowsFailOnlyWithServer ==
  \A w \in Threads : worker[w].state = "Err" => phase = "down" \/ w \in unlucky

\* The flows a run of the benchmark is asked for.
Flows == {f \in Threads \X (0 .. config.operations - 1) :
            f[1] < workers /\ f[2] < split_work(f[1])}

\* "operations: {completed}" is true: when main reports success, the server's
\* database, the retained one too after the server was killed, holds as many
\* completed flows as were asked for, each with its keypackage and its second
\* device list, and a failed flow is never counted.
ReportIsTrue ==
  verdict = "Ok" /\ (stage # "exited" \/ config.keep_db) =>
    /\ Cardinality({device_key(f[1], f[2]) : f \in Flows}) = config.operations
    /\ \A f \in Flows :
         /\ \E r \in keypackages : r.device_id = device_key(f[1], f[2])
         /\ account_bundles[account_key(f[1], f[2])] # NoRow
         /\ payload_lamport(account_bundles[account_key(f[1], f[2])].payload) = 2

\* However main ends, it leaves neither a server nor, unless asked to keep it,
\* rows of a database behind (benchmark.rs: "removes that database when it exits").
LeavesNothingBehind ==
  stage = "exited" =>
    /\ phase = "down"
    /\ config # None /\ ~config.keep_db =>
         keypackages = {} /\ \A a \in Accounts : account_bundles[a] = NoRow
=============================================================================
