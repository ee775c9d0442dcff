---------------------------- MODULE StoreProofs ----------------------------
(***************************************************************************)
(* Theorems about Store, for every value of its constants.                 *)
(***************************************************************************)
EXTENDS StoreInvariants, TLAPS

-----------------------------------------------------------------------------
(* Type correctness.                                                        *)

\* An empty store with idle tasks is typed.
LEMMA TypeInit == Init => TypeInv
  BY TasksAssumption, BoundsAssumption
  DEF Init, TypeInv, TypeOK, CallTyped, Transacting, Time, Outcomes, Tasks

\* Every step keeps the types, and a task keeps a call of its own kind.
LEMMA TypeStep == TypeInv /\ [Next]_vars => TypeInv'
<1> SUFFICES ASSUME TypeInv, [Next]_vars PROVE TypeInv'
  OBVIOUS
<1> USE TasksAssumption, BoundsAssumption DEF TypeInv
<1>1. ASSUME NEW t \in Handlers, NEW c \in Calls, Submit(t, c) PROVE TypeInv'
  BY <1>1 DEF Submit, Enter, Goto, TypeOK, CallTyped, Transacting, tables, locks, Tasks, Outcomes
<1>2. CASE PruneTick
  BY <1>2 DEF PruneTick, Enter, Goto, TypeOK, CallTyped, Transacting, tables, locks, Tasks,
    Outcomes, PruneCalls
<1>3. ASSUME NEW t \in Tasks, Acquire(t) PROVE TypeInv'
  BY <1>3 DEF Acquire, TakeGuard, Goto, saturating_sub, TypeOK, CallTyped, Transacting, tables,
    Time
<1>4. ASSUME NEW t \in Tasks, Statement(t) PROVE TypeInv'
  <2>1. CASE insert(t)
    <3>1. call[t] \in InsertCalls
      BY <2>1 DEF insert, Autocommit, TypeOK, CallTyped, Transacting, ReadsFirst, Calls, UpsertCalls, PutCalls,
        InsertCalls, PruneCalls
    <3>2. PICK id \in {1} \cup {r.rowid + 1 : r \in keypackages} :
          keypackages' = keypackages \cup
            {[rowid |-> id, device_id |-> call[t].key,
              received_at |-> stamp[t], bundle |-> call[t].bundle]}
      BY <2>1 DEF insert
    <3>3. id \in Nat
      BY <3>2 DEF TypeOK, KeyPackageRows
    <3>4. [rowid |-> id, device_id |-> call[t].key, received_at |-> stamp[t],
           bundle |-> call[t].bundle] \in KeyPackageRows
      BY <3>1, <3>3 DEF TypeOK, InsertCalls, KeyPackageRows
    <3>5. keypackages' \in SUBSET KeyPackageRows
      BY <3>2, <3>4 DEF TypeOK
    <3>6. /\ Autocommit(t, "ready", "insert") /\ Overtake(t) /\ Finish(t, "Updated")
          /\ UNCHANGED <<account_bundles, account_logs, write_lock, sqlite_writer,
                         dropped, now, acked>>
      BY <2>1 DEF insert
    <3> QED
      BY <3>5, <3>6 DEF Autocommit, Overtake, Finish, Goto, TypeOK, CallTyped, Transacting, Outcomes
  <2>2. CASE insertConflict(t)
    BY <2>2 DEF insertConflict, Autocommit, Finish, Goto, TypeOK, CallTyped, Transacting, tables, locks, Outcomes
  <2>3. CASE pruneOld(t)
    BY <2>3 DEF pruneOld, Overtake, Goto, TypeOK, CallTyped, Transacting, Autocommit
  <2>4. CASE pruneExcess(t)
    BY <2>4 DEF pruneExcess, Overtake, Finish, Goto, TypeOK, CallTyped, Transacting, Outcomes,
      Autocommit
  <2>5. CASE prune_accounts(t)
    BY <2>5 DEF prune_accounts, Overtake, Finish, Goto, TypeOK, CallTyped, Transacting, Outcomes,
      Autocommit
  <2>6. CASE Select(t)
    BY <2>6 DEF Select, Finish, Goto, Verdict, upsert_account, put_account_log,
      freshness, TypeOK, CallTyped, Transacting, tables, Outcomes
  <2>7. CASE Write(t)
    BY <2>7 DEF Write, BeginWrite, Goto, TypeOK, CallTyped, Transacting, tables
  <2>8. CASE WriteBusy(t)
    BY <2>8 DEF WriteBusy, Finish, Goto, TypeOK, CallTyped, Transacting, tables, Outcomes
  <2>9. CASE Commit(t)
    <3>1. CASE call[t].op = "upsert_account"
      <4>1. call[t] \in UpsertCalls
        BY <2>9, <3>1 DEF Commit, TypeOK, CallTyped, Transacting, ReadsFirst, Calls, UpsertCalls, PutCalls,
          InsertCalls, PruneCalls
      <4>2. [payload |-> call[t].payload, updated_at |-> stamp[t]] \in AccountRows
        BY <4>1 DEF UpsertCalls, AccountRows, TypeOK
      <4>3. account_bundles' \in [Accounts -> AccountRows \cup {NoRow}]
        BY <2>9, <3>1, <4>2 DEF Commit, TypeOK
      <4>4. /\ pc[t] = "commit" /\ Overtake(t) /\ Finish(t, "Updated")
            /\ sqlite_writer' = None
            /\ UNCHANGED <<account_logs, keypackages, write_lock, dropped, now, acked>>
        BY <2>9, <3>1 DEF Commit
      <4> QED
        BY <4>3, <4>4 DEF Overtake, Finish, Goto, TypeOK, CallTyped, Transacting, Outcomes
    <3>2. CASE call[t].op # "upsert_account"
      <4>1. call[t] \in PutCalls
        BY <2>9, <3>2 DEF Commit, TypeOK, CallTyped, Transacting, ReadsFirst, Calls, UpsertCalls, PutCalls,
          InsertCalls, PruneCalls
      <4>2. [signed_log |-> call[t].signed_log, updated_at |-> stamp[t]] \in LogRows
        BY <4>1 DEF PutCalls, LogRows, TypeOK
      <4>3. account_logs' \in [Accounts -> LogRows \cup {NoRow}]
        BY <2>9, <3>2, <4>2 DEF Commit, TypeOK
      <4> QED
        BY <2>9, <3>2, <4>3 DEF Commit, Overtake, Finish, Goto, TypeOK, CallTyped, Transacting, Outcomes
    <3> QED
      BY <3>1, <3>2
  <2>10. CASE Rollback(t)
    BY <2>10 DEF Rollback, Reset, Goto, TypeOK, CallTyped, Transacting, tables, Outcomes
  <2> QED
    BY <1>4, <2>1, <2>2, <2>3, <2>4, <2>5, <2>6, <2>7, <2>8, <2>9, <2>10 DEF Statement
<1>5. ASSUME NEW t \in Tasks, BusyTimeout(t) PROVE TypeInv'
  BY <1>5 DEF BusyTimeout, Finish, Goto, TypeOK, CallTyped, Transacting, tables, locks, Outcomes
<1>6. ASSUME NEW t \in Tasks, Return(t) PROVE TypeInv'
  <2>1. acked' \in SUBSET [call : Calls, stamp : Nat]
    BY <1>6 DEF Return, Answer, TypeOK, CallTyped, Transacting
  <2>2. CASE call[t] = [op |-> "prune_key_packages"]
    <3>1. t = Pruner
      BY <1>6, <2>2 DEF Return, Answer, CallTyped, Transacting, ReadsFirst, Calls, InsertCalls, UpsertCalls, PutCalls
    <3> QED
      BY <1>6, <2>1, <2>2, <3>1 DEF Return, Answer, Enter, Goto, DropGuard, TypeOK,
        CallTyped, Transacting, tables, Outcomes, PruneCalls
  <2>3. CASE call[t] # [op |-> "prune_key_packages"]
    BY <1>6, <2>1, <2>3 DEF Return, Answer, Reset, Goto, DropGuard, TypeOK, CallTyped, Transacting,
      tables, Outcomes
  <2> QED
    BY <2>2, <2>3
<1>7. ASSUME NEW t \in Tasks, IoFault(t) PROVE TypeInv'
  BY <1>7 DEF IoFault, Finish, Goto, TypeOK, CallTyped, Transacting, tables, Outcomes
<1>8. ASSUME NEW t \in Handlers, Cancel(t) PROVE TypeInv'
  BY <1>8 DEF Cancel, Reset, Goto, DropGuard, TypeOK, CallTyped, Transacting, tables, locals,
    Outcomes, Tasks
<1>9. CASE Crash
  BY <1>9 DEF Crash, ProcessEnds, TypeOK, CallTyped, Transacting, tables, Outcomes
<1>10. CASE Tick
  BY <1>10 DEF Tick, TypeOK, CallTyped, Transacting, tables, locks, locals, Time
<1>11. CASE ClockSetBack
  BY <1>11 DEF ClockSetBack, TypeOK, CallTyped, Transacting, tables, locks, locals, Time
<1>12. CASE UNCHANGED vars
  BY <1>12 DEF vars, TypeOK, CallTyped, Transacting, tables, locks, locals
<1> QED
  BY <1>1, <1>2, <1>3, <1>4, <1>5, <1>6, <1>7, <1>8, <1>9, <1>10, <1>11, <1>12 DEF Next

\* Store is type-correct: no interleaving of the methods of src/src/store.rs
\* puts a row, a lock or a local outside its type.
THEOREM TypeCorrect == Spec => []TypeOK
<1>1. TypeInv => TypeOK
  BY DEF TypeInv
<1> QED
  BY <1>1, TypeInit, TypeStep, PTL DEF Spec

-----------------------------------------------------------------------------
(* The compare-and-swap of upsert_account and put_account_log.              *)

\* Steps that change neither account table decide nothing anew.
LEMMA VerdictStable ==
  ASSUME UNCHANGED <<account_bundles, account_logs>>, NEW t,
         call'[t] = call[t]
  PROVE  Verdict(call[t])' = Verdict(call[t])
  BY DEF Verdict, upsert_account, put_account_log

\* With no transaction open, no decision is pending.
LEMMA SwapInit == Init => SwapInv
  BY TypeInit DEF Init, SwapInv, WriterCommits, ReadStillHolds

\* A COMMIT overtakes every other open snapshot, so no step of any task makes
\* a decision that can still be written wrong.
LEMMA SwapStep == SwapInv /\ [Next]_vars => SwapInv'
<1> SUFFICES ASSUME SwapInv, [Next]_vars PROVE WriterCommits' /\ ReadStillHolds'
  BY TypeStep DEF SwapInv
<1> USE TasksAssumption
<1> DEFINE Kept(t) == /\ call'[t] = call[t]
                      /\ \/ pc[t] = "commit"
                         \/ pc[t] = "write" /\ t \notin outdated
\* A step that leaves the account tables alone, and after which whoever may
\* write could write before, keeps the decisions.
<1>0. ASSUME UNCHANGED <<account_bundles, account_logs>>,
             \A t \in Tasks : pc'[t] = "commit" \/ (pc'[t] = "write" /\ t \notin outdated')
                              => Kept(t)
      PROVE  ReadStillHolds'
  BY <1>0, VerdictStable DEF ReadStillHolds, SwapInv
<1> HIDE DEF Kept
<1>1. ASSUME NEW t \in Handlers, NEW c \in Calls, Submit(t, c)
      PROVE  WriterCommits' /\ ReadStillHolds'
  BY <1>1, <1>0 DEF Submit, Enter, Goto, SwapInv, TypeInv, TypeOK, WriterCommits, Kept,
    tables, locks, Tasks
<1>2. CASE PruneTick
  BY <1>2, <1>0 DEF PruneTick, Enter, Goto, SwapInv, TypeInv, TypeOK, WriterCommits, Kept,
    tables, locks, Tasks
<1>3. ASSUME NEW t \in Tasks, Acquire(t) PROVE WriterCommits' /\ ReadStillHolds'
  BY <1>3, <1>0 DEF Acquire, TakeGuard, Goto, SwapInv, TypeInv, TypeOK, WriterCommits, Kept,
    tables
<1>4. ASSUME NEW t \in Tasks, Statement(t) PROVE WriterCommits' /\ ReadStillHolds'
  <2>1. CASE insert(t)
    BY <2>1, <1>0 DEF insert, Autocommit, Overtake, Finish, Goto, SwapInv, TypeInv, TypeOK,
      WriterCommits, Kept
  <2>2. CASE insertConflict(t)
    BY <2>2, <1>0 DEF insertConflict, Autocommit, Finish, Goto, SwapInv, TypeInv, TypeOK,
      WriterCommits, Kept, tables, locks
  <2>3. CASE pruneOld(t)
    BY <2>3, <1>0 DEF pruneOld, Autocommit, Overtake, Goto, SwapInv, TypeInv, TypeOK,
      WriterCommits, Kept
  <2>4. CASE pruneExcess(t)
    BY <2>4, <1>0 DEF pruneExcess, Autocommit, Overtake, Finish, Goto, SwapInv, TypeInv,
      TypeOK, WriterCommits, Kept
  <2>5. CASE prune_accounts(t)
    <3>1. WriterCommits' /\ \A u \in Tasks : pc'[u] # "commit"
      BY <2>5 DEF prune_accounts, Autocommit, Finish, Goto, SwapInv, TypeInv, TypeOK,
        WriterCommits
    <3>2. CASE \E a \in Accounts : expired(a, stamp[t])
      BY <2>5, <3>1, <3>2 DEF prune_accounts, Overtake, Finish, Goto, SwapInv, TypeInv,
        TypeOK, ReadStillHolds
    <3>3. CASE ~ \E a \in Accounts : expired(a, stamp[t])
      <4>1. UNCHANGED <<account_bundles, account_logs>>
        BY <2>5, <3>3 DEF prune_accounts, SwapInv, TypeInv, TypeOK
      <4> QED
        BY <2>5, <3>1, <3>3, <4>1, <1>0 DEF prune_accounts, Finish, Goto, SwapInv, TypeInv,
          TypeOK, Kept
    <3> QED
      BY <3>1, <3>2, <3>3
  <2>6. CASE Select(t)
    <3>1. WriterCommits'
      BY <2>6 DEF Select, Finish, Goto, SwapInv, TypeInv, TypeOK, WriterCommits
    <3>2. UNCHANGED <<account_bundles, account_logs, call>>
      BY <2>6 DEF Select, Finish, tables
    <3>3. ASSUME NEW u \in Tasks,
                 pc'[u] = "commit" \/ (pc'[u] = "write" /\ u \notin outdated')
          PROVE  Verdict(call[u]) = "Updated"
      BY <2>6, <3>3 DEF Select, Finish, Goto, SwapInv, TypeInv, TypeOK, ReadStillHolds
    <3> QED
      BY <3>1, <3>2, <3>3, VerdictStable DEF ReadStillHolds
  <2>7. CASE Write(t)
    BY <2>7, <1>0 DEF Write, BeginWrite, Goto, SwapInv, TypeInv, TypeOK, WriterCommits,
      Kept, tables
  <2>8. CASE WriteBusy(t)
    BY <2>8, <1>0 DEF WriteBusy, Finish, Goto, SwapInv, TypeInv, TypeOK, WriterCommits,
      Kept, tables
  <2>9. CASE Commit(t)
    <3>1. \A u \in Tasks : pc'[u] # "commit"
      BY <2>9 DEF Commit, Finish, Goto, SwapInv, TypeInv, TypeOK, WriterCommits
    <3>2. \A u \in Tasks : pc'[u] = "write" => u \in outdated'
      BY <2>9 DEF Commit, Overtake, Finish, Goto, SwapInv, TypeInv, TypeOK
    <3> QED
      BY <3>1, <3>2 DEF WriterCommits, ReadStillHolds
  <2>10. CASE Rollback(t)
    BY <2>10, <1>0 DEF Rollback, Reset, Goto, SwapInv, TypeInv, TypeOK, WriterCommits,
      Kept, tables
  <2> QED
    BY <1>4, <2>1, <2>2, <2>3, <2>4, <2>5, <2>6, <2>7, <2>8, <2>9, <2>10 DEF Statement
<1>5. ASSUME NEW t \in Tasks, BusyTimeout(t) PROVE WriterCommits' /\ ReadStillHolds'
  BY <1>5, <1>0 DEF BusyTimeout, Finish, Goto, SwapInv, TypeInv, TypeOK, WriterCommits,
    Kept, tables, locks
<1>6. ASSUME NEW t \in Tasks, Return(t) PROVE WriterCommits' /\ ReadStillHolds'
  BY <1>6, <1>0 DEF Return, Answer, Enter, Reset, Goto, SwapInv, TypeInv, TypeOK,
    WriterCommits, Kept, tables
<1>7. ASSUME NEW t \in Tasks, IoFault(t) PROVE WriterCommits' /\ ReadStillHolds'
  BY <1>7, <1>0 DEF IoFault, Finish, Goto, SwapInv, TypeInv, TypeOK, WriterCommits, Kept,
    tables
<1>8. ASSUME NEW t \in Handlers, Cancel(t) PROVE WriterCommits' /\ ReadStillHolds'
  BY <1>8, <1>0 DEF Cancel, Reset, Goto, SwapInv, TypeInv, TypeOK, WriterCommits, Kept,
    tables, locals, Tasks
<1>9. CASE Crash
  BY <1>9 DEF Crash, ProcessEnds, WriterCommits, ReadStillHolds
<1>10. CASE Tick
  BY <1>10, <1>0 DEF Tick, SwapInv, WriterCommits, Kept, tables, locks, locals
<1>11. CASE ClockSetBack
  BY <1>11, <1>0 DEF ClockSetBack, SwapInv, WriterCommits, Kept, tables, locks, locals
<1>12. CASE UNCHANGED vars
  BY <1>12, <1>0 DEF vars, SwapInv, WriterCommits, Kept, tables, locks, locals
<1> QED
  BY <1>1, <1>2, <1>3, <1>4, <1>5, <1>6, <1>7, <1>8, <1>9, <1>10, <1>11, <1>12 DEF Next

\* A transaction that can still write has decided by the current row: between
\* the SELECT and the COMMIT of upsert_account and put_account_log no step of
\* another task, of a prune or of a cancelled handler makes the decision stale.
THEOREM DecisionsHold == Spec => []ReadStillHolds
<1>1. SwapInv => ReadStillHolds
  BY DEF SwapInv
<1> QED
  BY <1>1, SwapInit, SwapStep, PTL DEF Spec

\* The account row changes only by the prune's DELETE, by the loss of an
\* in-memory database, and by a COMMIT whose decision still holds.
LEMMA BundleStep ==
  ASSUME SwapInv, [Next]_vars, NEW a \in Accounts,
         account_bundles[a] # NoRow, account_bundles'[a] # NoRow,
         account_bundles'[a] # account_bundles[a]
  PROVE  payload_lamport(account_bundles'[a].payload)
           > payload_lamport(account_bundles[a].payload)
<1>1. account_bundles \in [Accounts -> AccountRows \cup {NoRow}]
  BY DEF SwapInv, TypeInv, TypeOK
<1>2. ~Crash /\ \A t \in Tasks : ~prune_accounts(t)
  BY <1>1 DEF Crash, ProcessEnds, prune_accounts, tables
<1>3. PICK t \in Tasks : Commit(t)
  <2>1. ASSUME NEW t \in Tasks, Statement(t), ~Commit(t) PROVE FALSE
    BY <1>2, <2>1 DEF Statement, insert, insertConflict, pruneOld, pruneExcess, Select,
      Write, BeginWrite, WriteBusy, Rollback, tables
  <2> QED
    BY <1>2, <2>1 DEF Next, Submit, PruneTick, Acquire, TakeGuard, BusyTimeout, Return,
      Answer, IoFault, Cancel, Tick, ClockSetBack, vars, tables
<1>4. /\ call[t].op = "upsert_account"
      /\ call[t].key = a
      /\ account_bundles'[a] = [payload |-> call[t].payload, updated_at |-> stamp[t]]
  BY <1>1, <1>3 DEF Commit
<1>5. call[t] \in UpsertCalls
  BY <1>3, <1>4 DEF Commit, SwapInv, TypeInv, TypeOK, CallTyped, Calls, InsertCalls,
    UpsertCalls, PutCalls, PruneCalls
<1>6. upsert_account(call[t]) = "Updated"
  BY <1>3, <1>4 DEF Commit, SwapInv, ReadStillHolds, Verdict
<1>7. ~(payload_lamport(call[t].payload) <= payload_lamport(account_bundles[a].payload))
  BY <1>4, <1>6 DEF upsert_account
<1>8. /\ payload_lamport(call[t].payload) \in Nat
      /\ payload_lamport(account_bundles[a].payload) \in Nat
  BY <1>1, <1>5, DataAssumption DEF UpsertCalls, AccountRows
<1> QED
  BY <1>4, <1>7, <1>8

\* upsert_account is a compare-and-swap on the lamport: while a row exists no
\* step of any task, cancelled or not, replaces it (or its updated_at) except
\* under a strictly higher lamport.
THEOREM BundleMonotone == Spec => BundleReplacedOnlyByNewer
<1>1. SwapInv /\ [Next]_vars =>
        [\A a \in Accounts :
           /\ account_bundles[a] # NoRow
           /\ account_bundles'[a] # NoRow
           /\ account_bundles'[a] # account_bundles[a]
           => payload_lamport(account_bundles'[a].payload)
                > payload_lamport(account_bundles[a].payload)]_vars
  BY BundleStep
<1> QED
  BY <1>1, SwapInit, SwapStep, PTL DEF Spec, BundleReplacedOnlyByNewer

\* A log is never lost to a restart: the database is a file, or nothing crashes.
Durable == is_memory => "crash" \notin Faults

\* The row of an account's log changes only by a COMMIT whose decision holds.
LEMMA LogStep ==
  ASSUME Durable, SwapInv, [Next]_vars, NEW a \in Accounts,
         account_logs[a] # NoRow, account_logs'[a] # account_logs[a]
  PROVE  /\ account_logs'[a] # NoRow
         /\ IsStrictPrefix(account_logs[a].signed_log, account_logs'[a].signed_log)
<1>1. account_logs \in [Accounts -> LogRows \cup {NoRow}]
  BY DEF SwapInv, TypeInv, TypeOK
<1>2. ~Crash
  BY DEF Crash, ProcessEnds, tables, Durable
<1>3. PICK t \in Tasks : Commit(t)
  <2>1. ASSUME NEW t \in Tasks, Statement(t), ~Commit(t) PROVE FALSE
    BY <2>1 DEF Statement, insert, insertConflict, pruneOld, pruneExcess, prune_accounts,
      Select, Write, BeginWrite, WriteBusy, Rollback, tables
  <2> QED
    BY <1>2, <2>1 DEF Next, Submit, PruneTick, Acquire, TakeGuard, BusyTimeout, Return,
      Answer, IoFault, Cancel, Tick, ClockSetBack, vars, tables
<1>4. /\ call[t].op # "upsert_account"
      /\ call[t].key = a
      /\ account_logs'[a] = [signed_log |-> call[t].signed_log, updated_at |-> stamp[t]]
  BY <1>1, <1>3 DEF Commit
<1>5. call[t] \in PutCalls
  BY <1>3, <1>4 DEF Commit, SwapInv, TypeInv, TypeOK, CallTyped, Transacting, ReadsFirst,
    Calls, InsertCalls, UpsertCalls, PutCalls, PruneCalls
<1>6. put_account_log(call[t]) = "Updated"
  BY <1>3, <1>4 DEF Commit, SwapInv, ReadStillHolds, Verdict
<1>7. freshness(account_logs[a].signed_log, call[t].signed_log) = "Updated"
  BY <1>4, <1>6 DEF put_account_log
<1>8. IsStrictPrefix(account_logs[a].signed_log, call[t].signed_log)
  BY <1>7 DEF freshness
<1>9. account_logs'[a] \in LogRows
  BY <1>4, <1>5 DEF PutCalls, LogRows, SwapInv, TypeInv, TypeOK
<1> QED
  BY <1>4, <1>8, <1>9, DataAssumption DEF LogRows

\* put_account_log is append-only: no step rewrites, shortens or removes a
\* stored log, or moves its updated_at without growing it.
THEOREM LogsAppendOnly ==
  ASSUME Durable PROVE Spec => LogAppendOnly
<1>1. SwapInv /\ [Next]_vars =>
        [\A a \in Accounts : account_logs[a] # NoRow /\ account_logs'[a] # account_logs[a] =>
           /\ account_logs'[a] # NoRow
           /\ IsStrictPrefix(account_logs[a].signed_log, account_logs'[a].signed_log)]_vars
  BY LogStep
<1> QED
  BY <1>1, SwapInit, SwapStep, PTL DEF Spec, LogAppendOnly

-----------------------------------------------------------------------------
(* What write_lock is for.                                                  *)

\* Nobody is in a method at first.
LEMMA MutexInit == Init => MutexInv /\ NoBusy
  BY DEF Init, MutexInv, NoBusy, Guarded

\* Without cancellation the guard is held until the method returns, so each
\* step of a method finds SQLite free and its own snapshot current.
LEMMA MutexStep ==
  ASSUME Cancellable = {}
  PROVE  TypeInv /\ MutexInv /\ NoBusy /\ [Next]_vars => MutexInv' /\ NoBusy'
<1> SUFFICES ASSUME TypeInv, MutexInv, NoBusy, [Next]_vars PROVE MutexInv' /\ NoBusy'
  OBVIOUS
<1> USE TasksAssumption DEF TypeInv, TypeOK, MutexInv, NoBusy, Guarded
<1>1. ASSUME NEW t \in Handlers, NEW c \in Calls, Submit(t, c) PROVE MutexInv' /\ NoBusy'
  BY <1>1 DEF Submit, Enter, Goto, locks, Tasks
<1>2. CASE PruneTick
  BY <1>2 DEF PruneTick, Enter, Goto, locks, Tasks
<1>3. ASSUME NEW t \in Tasks, Acquire(t) PROVE MutexInv' /\ NoBusy'
  BY <1>3 DEF Acquire, TakeGuard, Goto
<1>4. ASSUME NEW t \in Tasks, Statement(t) PROVE MutexInv' /\ NoBusy'
  \* The statement's task is the only one past the lock, so nothing is overtaken.
  <2>0. ASSUME pc[t] \in Guarded, Overtake(t) PROVE outdated' = {}
    BY <2>0 DEF Overtake
  <2>1. CASE insert(t)
    BY <2>0, <2>1 DEF insert, Autocommit, Finish, Goto
  <2>2. CASE insertConflict(t)
    BY <2>2 DEF insertConflict, Autocommit, Finish, Goto, locks
  <2>3. CASE pruneOld(t)
    BY <2>0, <2>3 DEF pruneOld, Autocommit, Goto
  <2>4. CASE pruneExcess(t)
    BY <2>0, <2>4 DEF pruneExcess, Autocommit, Finish, Goto
  <2>5. CASE prune_accounts(t)
    BY <2>0, <2>5 DEF prune_accounts, Autocommit, Finish, Goto
  <2>6. CASE Select(t)
    BY <2>6 DEF Select, Verdict, upsert_account, put_account_log, freshness, Finish, Goto
  <2>7. CASE Write(t)
    BY <2>7 DEF Write, BeginWrite, Goto
  <2>8. CASE WriteBusy(t)
    BY <2>8 DEF WriteBusy
  <2>9. CASE Commit(t)
    BY <2>0, <2>9 DEF Commit, Finish, Goto
  <2>10. CASE Rollback(t)
    BY <2>10 DEF Rollback
  <2> QED
    BY <1>4, <2>1, <2>2, <2>3, <2>4, <2>5, <2>6, <2>7, <2>8, <2>9, <2>10 DEF Statement
<1>5. ASSUME NEW t \in Tasks, BusyTimeout(t) PROVE MutexInv' /\ NoBusy'
  BY <1>5 DEF BusyTimeout
<1>6. ASSUME NEW t \in Tasks, Return(t) PROVE MutexInv' /\ NoBusy'
  BY <1>6 DEF Return, Answer, DropGuard, Enter, Reset, Goto
<1>7. ASSUME NEW t \in Tasks, IoFault(t) PROVE MutexInv' /\ NoBusy'
  BY <1>7 DEF IoFault, Finish, Goto
<1>8. ASSUME NEW t \in Handlers, Cancel(t) PROVE MutexInv' /\ NoBusy'
  BY <1>8 DEF Cancel
<1>9. CASE Crash
  BY <1>9 DEF Crash, ProcessEnds
<1>10. CASE Tick \/ ClockSetBack \/ UNCHANGED vars
  BY <1>10 DEF Tick, ClockSetBack, vars, locks, locals
<1> QED
  BY <1>1, <1>2, <1>3, <1>4, <1>5, <1>6, <1>7, <1>8, <1>9, <1>10 DEF Next

\* While no handler is cancelled, a method of store.rs past its lock().await is
\* alone with the database until it returns, error paths included.
THEOREM MutualExclusion ==
  ASSUME Cancellable = {} PROVE Spec => []MutexInv
<1> QED
  BY TypeInit, TypeStep, MutexInit, MutexStep, PTL DEF Spec

\* While no handler is cancelled the write lock does what upsert_account's
\* comment wants of it, for any number of tasks and either kind of database:
\* no mutation meets SQLITE_BUSY, at once or after the busy timeout.
THEOREM LockPreventsBusy ==
  ASSUME Cancellable = {} PROVE Spec => []NoBusy
<1> QED
  BY TypeInit, TypeStep, MutexInit, MutexStep, PTL DEF Spec
=============================================================================
