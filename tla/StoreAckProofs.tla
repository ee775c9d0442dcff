--------------------------- MODULE StoreAckProofs ---------------------------
(***************************************************************************)
(* What an acknowledgement is worth: theorems about Store for every value  *)
(* of its constants, on top of the compare-and-swap of StoreProofs.        *)
(***************************************************************************)
EXTENDS StoreProofs

-----------------------------------------------------------------------------
(* Prefixes.                                                                *)

\* IsPrefix compares lengths and elements.
LEMMA PrefixByElements ==
  ASSUME NEW S, NEW s \in Seq(S), NEW t \in Seq(S)
  PROVE  IsPrefix(s, t) <=> Len(s) <= Len(t) /\ \A i \in 1 .. Len(s) : s[i] = t[i]
<1>1. ASSUME Len(s) <= Len(t)
      PROVE  SubSeq(s, 1, Len(s)) = SubSeq(t, 1, Len(s))
               <=> \A i \in 1 .. Len(s) : s[i] = t[i]
  BY <1>1
<1> QED
  BY <1>1 DEF IsPrefix

\* Every log is a prefix of itself.
LEMMA PrefixReflexive ==
  ASSUME NEW S, NEW s \in Seq(S) PROVE IsPrefix(s, s)
  BY PrefixByElements

\* An extension of an extension is an extension.
LEMMA PrefixTransitive ==
  ASSUME NEW S, NEW s \in Seq(S), NEW t \in Seq(S), NEW u \in Seq(S),
         IsPrefix(s, t), IsPrefix(t, u)
  PROVE  IsPrefix(s, u)
  BY PrefixByElements

-----------------------------------------------------------------------------
(* Who returns success, and what is acknowledged.                           *)

\* A task comes to return success by a statement of its own.
LEMMA EarnedStep ==
  ASSUME TypeInv, [Next]_vars, NEW t \in Tasks, Succeeded(t)'
  PROVE  (Succeeded(t) /\ UNCHANGED <<call[t], stamp[t]>>) \/ Statement(t)
<1> USE TasksAssumption DEF TypeInv, TypeOK, Succeeded
<1>1. ASSUME NEW u \in Handlers, NEW c \in Calls, Submit(u, c)
      PROVE  Succeeded(t) /\ UNCHANGED <<call[t], stamp[t]>>
  BY <1>1 DEF Submit, Enter, Goto, Tasks
<1>2. ASSUME PruneTick PROVE Succeeded(t) /\ UNCHANGED <<call[t], stamp[t]>>
  BY <1>2 DEF PruneTick, Enter, Goto, Tasks
<1>3. ASSUME NEW u \in Tasks, Acquire(u)
      PROVE  Succeeded(t) /\ UNCHANGED <<call[t], stamp[t]>>
  BY <1>3 DEF Acquire, TakeGuard, Goto
<1>4. ASSUME NEW u \in Tasks, Statement(u), u # t
      PROVE  Succeeded(t) /\ UNCHANGED <<call[t], stamp[t]>>
  <2>1. CASE insert(u) \/ insertConflict(u) \/ pruneOld(u)
    BY <1>4, <2>1 DEF insert, insertConflict, pruneOld, Finish, Goto
  <2>2. CASE pruneExcess(u) \/ prune_accounts(u) \/ Select(u)
    BY <1>4, <2>2 DEF pruneExcess, prune_accounts, Select, Finish, Goto
  <2>3. CASE Write(u) \/ WriteBusy(u) \/ Commit(u) \/ Rollback(u)
    BY <1>4, <2>3 DEF Write, BeginWrite, WriteBusy, Commit, Rollback, Finish, Reset, Goto
  <2> QED
    BY <1>4, <2>1, <2>2, <2>3 DEF Statement
<1>5. ASSUME NEW u \in Tasks, BusyTimeout(u)
      PROVE  Succeeded(t) /\ UNCHANGED <<call[t], stamp[t]>>
  BY <1>5 DEF BusyTimeout, Finish, Goto
<1>6. ASSUME NEW u \in Tasks, Return(u)
      PROVE  Succeeded(t) /\ UNCHANGED <<call[t], stamp[t]>>
  BY <1>6 DEF Return, Answer, Enter, Reset, Goto
<1>7. ASSUME NEW u \in Tasks, IoFault(u)
      PROVE  Succeeded(t) /\ UNCHANGED <<call[t], stamp[t]>>
  BY <1>7 DEF IoFault, Finish, Goto
<1>8. ASSUME NEW u \in Handlers, Cancel(u)
      PROVE  Succeeded(t) /\ UNCHANGED <<call[t], stamp[t]>>
  BY <1>8 DEF Cancel, Reset, Goto, locals, Tasks
<1>9. ~Crash
  BY DEF Crash, ProcessEnds
<1>10. ASSUME Tick \/ ClockSetBack \/ UNCHANGED vars
       PROVE  Succeeded(t) /\ UNCHANGED <<call[t], stamp[t]>>
  BY <1>10 DEF Tick, ClockSetBack, vars, locals
<1> QED
  BY <1>1, <1>2, <1>3, <1>4, <1>5, <1>6, <1>7, <1>8, <1>9, <1>10 DEF Next

\* For a method that reads first, the step that earns success is a SELECT that
\* found the identical log, or a COMMIT.
LEMMA SuccessStep ==
  ASSUME TypeInv, [Next]_vars, NEW t \in Tasks, Succeeded(t)',
         call'[t].op \in ReadsFirst
  PROVE  \/ Succeeded(t) /\ UNCHANGED <<call[t], stamp[t]>>
         \/ Select(t) /\ outcome'[t] = Verdict(call[t]) /\ UNCHANGED <<call, stamp, tables>>
         \/ Commit(t) /\ UNCHANGED <<call, stamp>>
<1> USE TasksAssumption DEF TypeInv, TypeOK, Succeeded, ReadsFirst
<1>1. ASSUME Statement(t)
      PROVE  \/ Select(t) /\ outcome'[t] = Verdict(call[t]) /\ UNCHANGED <<call, stamp, tables>>
             \/ Commit(t) /\ UNCHANGED <<call, stamp>>
  <2>1. ~insert(t) /\ ~insertConflict(t) /\ ~pruneOld(t) /\ ~pruneExcess(t) /\ ~prune_accounts(t)
    BY DEF insert, insertConflict, pruneOld, pruneExcess, prune_accounts, Autocommit,
      Finish, Goto
  <2>2. ~Write(t) /\ ~WriteBusy(t) /\ ~Rollback(t)
    BY DEF Write, BeginWrite, WriteBusy, Rollback, Finish, Reset, Goto
  <2>3. ASSUME Select(t) PROVE outcome'[t] = Verdict(call[t]) /\ UNCHANGED <<call, stamp, tables>>
    BY <2>3 DEF Select, Finish, Goto
  <2>4. ASSUME Commit(t) PROVE UNCHANGED <<call, stamp>>
    BY <2>4 DEF Commit, Finish
  <2> QED
    BY <1>1, <2>1, <2>2, <2>3, <2>4 DEF Statement
<1> QED
  BY <1>1, EarnedStep

\* Only Return acknowledges, and only a call whose method succeeded.
LEMMA AckStep ==
  ASSUME TypeInv, [Next]_vars, NEW e \in acked'
  PROVE  \/ e \in acked
         \/ \E t \in Tasks : /\ Succeeded(t)
                             /\ e = [call |-> call[t], stamp |-> stamp[t]]
                             /\ UNCHANGED <<tables, now>>
<1>1. ASSUME NEW t \in Tasks, Statement(t) PROVE acked' = acked
  BY <1>1 DEF Statement, insert, insertConflict, pruneOld, pruneExcess, prune_accounts,
    Select, Write, BeginWrite, WriteBusy, Commit, Rollback
<1>2. ASSUME NEW t \in Tasks, Return(t), e \notin acked
      PROVE  /\ Succeeded(t)
             /\ e = [call |-> call[t], stamp |-> stamp[t]]
             /\ UNCHANGED <<tables, now>>
  BY <1>2 DEF Return, Answer, Succeeded
<1> QED
  BY <1>1, <1>2 DEF Next, Submit, PruneTick, Acquire, TakeGuard, BusyTimeout, IoFault,
    Cancel, Crash, ProcessEnds, Tick, ClockSetBack, vars

-----------------------------------------------------------------------------
(* Acknowledged account logs.                                               *)

\* A log that is stored or extended stays so: logs only grow.
LEMMA ExtendedStep ==
  ASSUME Durable, SwapInv, [Next]_vars, NEW c \in PutCalls, Extended(c)
  PROVE  Extended(c)'
<1> DEFINE a == c.key
<1>1. a \in Accounts /\ c.signed_log \in Seq(Entries)
  BY DataAssumption DEF PutCalls
<1>2. account_logs[a] \in LogRows /\ account_logs'[a] \in LogRows \cup {NoRow}
  BY <1>1, TypeStep DEF Extended, SwapInv, TypeInv, TypeOK
<1>3. CASE account_logs'[a] = account_logs[a]
  BY <1>3 DEF Extended
<1>4. CASE account_logs'[a] # account_logs[a]
  <2>1. /\ account_logs'[a] # NoRow
        /\ IsPrefix(account_logs[a].signed_log, account_logs'[a].signed_log)
    BY <1>1, <1>4, LogStep DEF Extended, IsStrictPrefix
  <2>2. /\ account_logs[a].signed_log \in Seq(Entries)
        /\ account_logs'[a].signed_log \in Seq(Entries)
    BY <1>2, <2>1, DataAssumption DEF LogRows
  <2>3. IsPrefix(c.signed_log, account_logs[a].signed_log)
    BY DEF Extended
  <2> HIDE DEF a
  <2>4. IsPrefix(c.signed_log, account_logs'[a].signed_log)
    BY <1>1, <2>1, <2>2, <2>3, PrefixTransitive
  <2> QED
    BY <2>1, <2>4 DEF Extended, a
<1> QED
  BY <1>3, <1>4

\* A method that succeeds has its log stored, and acknowledging changes no row.
LEMMA LogAckStep ==
  ASSUME Durable PROVE SwapInv /\ LogAckInv /\ [Next]_vars => LogAckInv'
<1> SUFFICES ASSUME SwapInv, LogAckInv, [Next]_vars PROVE LogAckInv'
  OBVIOUS
<1>0. TypeInv /\ TypeInv'
  BY TypeStep DEF SwapInv
<1>1. ASSUME NEW t \in Tasks, Succeeded(t)', call'[t].op = "put_account_log"
      PROVE  Extended(call[t])'
  <2>1. call'[t] \in PutCalls
    BY <1>0, <1>1 DEF Succeeded, TypeInv, TypeOK, CallTyped, Calls, InsertCalls,
      UpsertCalls, PutCalls, PruneCalls
  <2>2. CASE Succeeded(t) /\ UNCHANGED <<call[t], stamp[t]>>
    <3>1. PICK c \in PutCalls : c = call[t] /\ c = call'[t]
      BY <2>1, <2>2
    <3>2. Extended(c)
      BY <1>1, <2>2, <3>1 DEF LogAckInv, Extended
    <3>3. Extended(c)'
      BY <3>2, ExtendedStep
    <3> QED
      BY <3>1, <3>3 DEF Extended
  <2>3. CASE Select(t) /\ outcome'[t] = Verdict(call[t]) /\ UNCHANGED <<call, stamp, tables>>
    <3>1. put_account_log(call[t]) = "Identical"
      BY <1>0, <1>1, <2>3 DEF Select, Verdict, Succeeded, Finish, Goto, TypeInv, TypeOK
    <3>2. /\ account_logs[call[t].key] # NoRow
          /\ call[t].signed_log = account_logs[call[t].key].signed_log
      BY <3>1 DEF put_account_log, freshness
    <3>3. IsPrefix(call[t].signed_log, call[t].signed_log)
      BY <2>1, <2>3, PrefixReflexive, DataAssumption DEF PutCalls
    <3> QED
      BY <2>3, <3>2, <3>3 DEF Extended, tables
  <2>4. CASE Commit(t) /\ UNCHANGED <<call, stamp>>
    <3>1. call[t] \in PutCalls /\ call[t].op = "put_account_log"
      BY <1>1, <2>1, <2>4
    <3>2. account_logs'[call[t].key]
            = [signed_log |-> call[t].signed_log, updated_at |-> stamp[t]]
      BY <1>0, <2>4, <3>1 DEF Commit, PutCalls, TypeInv, TypeOK
    <3>3. account_logs'[call[t].key] \in LogRows
      BY <1>0, <3>1, <3>2 DEF PutCalls, LogRows, TypeInv, TypeOK
    <3>4. IsPrefix(call[t].signed_log, call[t].signed_log)
      BY <3>1, PrefixReflexive, DataAssumption DEF PutCalls
    <3> QED
      BY <2>4, <3>2, <3>3, <3>4, DataAssumption DEF Extended, LogRows
  <2> QED
    BY <1>0, <1>1, <2>2, <2>3, <2>4, SuccessStep DEF ReadsFirst
<1>2. ASSUME NEW e \in acked', e.call.op = "put_account_log"
      PROVE  Extended(e.call)'
  <2>1. PICK c \in PutCalls : c = e.call
    BY <1>0, <1>2 DEF TypeInv, TypeOK, Calls, InsertCalls, UpsertCalls, PutCalls
  <2>2. Extended(c)
    <3>1. CASE e \in acked
      BY <1>2, <2>1, <3>1 DEF LogAckInv
    <3>2. CASE \E t \in Tasks : Succeeded(t) /\ e = [call |-> call[t], stamp |-> stamp[t]]
      BY <1>2, <2>1, <3>2 DEF LogAckInv
    <3> QED
      BY <1>0, <1>2, <3>1, <3>2, AckStep
  <2>3. Extended(c)'
    BY <2>2, ExtendedStep
  <2> QED
    BY <2>1, <2>3 DEF Extended
<1> QED
  BY <1>1, <1>2 DEF LogAckInv

\* An acknowledged account log is never lost or rewritten: every later GET
\* serves a log that extends it, whatever writers, cancellations, I/O errors,
\* restarts and clock changes come after.
THEOREM AckedLogsExtended ==
  ASSUME Durable PROVE Spec => []AckedLogExtended
<1>1. Init => LogAckInv
  BY DEF Init, LogAckInv, Succeeded
<1>2. LogAckInv => AckedLogExtended
  BY DEF LogAckInv, Extended, AckedLogExtended, get_account_log
<1> QED
  BY <1>1, <1>2, SwapInit, SwapStep, LogAckStep, PTL DEF Spec

-----------------------------------------------------------------------------
(* Acknowledged device-list bundles.                                        *)

\* All timestamps start at zero, with the clock.
LEMMA StampInit == Init => StampInv
  BY TasksAssumption, BoundsAssumption DEF Init, StampInv, StampsPast, RowsPast, CutoffPast,
    DecidersGuarded, DecidersLater, RowsEarlier, Deciding, Tasks

\* The clock is read under the guard, so while it is not set back timestamps
\* grow in the order in which decisions are made.
LEMMA StampStep ==
  ASSUME "clock" \notin Faults PROVE SwapInv /\ StampInv /\ [Next]_vars => StampInv'
<1> SUFFICES ASSUME SwapInv, StampInv, [Next]_vars PROVE StampInv'
  OBVIOUS
<1> USE TasksAssumption, BoundsAssumption DEF SwapInv, TypeInv, TypeOK, StampInv, Deciding,
    StampsPast, RowsPast, CutoffPast, DecidersGuarded, DecidersLater, RowsEarlier
\* An account call names an account.
<1>0. /\ \A t \in Tasks : pc[t] # "idle" /\ call[t].op = "upsert_account" =>
           call[t].key \in Accounts
      /\ \A t \in Tasks : stamp[t] \in Nat
      /\ \A a \in Accounts : account_bundles[a] # NoRow => account_bundles[a].updated_at \in Nat
      /\ now \in Nat
  BY DEF CallTyped, Calls, InsertCalls, UpsertCalls, PutCalls, PruneCalls, Time, AccountRows
<1>1. ASSUME NEW t \in Handlers, NEW c \in Calls, Submit(t, c) PROVE StampInv'
  BY <1>0, <1>1 DEF Submit, Enter, Goto, tables, locks, Tasks
<1>2. CASE PruneTick
  BY <1>0, <1>2 DEF PruneTick, Enter, Goto, tables, locks, Tasks
<1>3. ASSUME NEW t \in Tasks, Acquire(t) PROVE StampInv'
  <2>1. StampsPast' /\ RowsPast' /\ CutoffPast'
    BY <1>0, <1>3 DEF Acquire, TakeGuard, saturating_sub, Goto, tables, Tasks
  <2>2. DecidersGuarded'
    BY <1>3 DEF Acquire, TakeGuard, Goto
  <2>3. ASSUME t # Pruner
        PROVE  stamp' = [stamp EXCEPT ![t] = now] /\ pc' = [pc EXCEPT ![t] = "ready"]
    BY <1>3, <2>3 DEF Acquire, TakeGuard, Goto
  <2>4. ~Deciding(Pruner)'
    BY <1>3 DEF Acquire, TakeGuard, Goto, CallTyped, PruneCalls, ReadsFirst, Tasks
  <2>5. DecidersLater'
    BY <1>0, <1>3, <2>3, <2>4 DEF Acquire, TakeGuard, Goto
  <2>6. RowsEarlier'
    BY <1>0, <1>3, <2>3, <2>4 DEF Acquire, TakeGuard, Goto, tables
  <2> QED
    BY <2>1, <2>2, <2>5, <2>6
<1>4. ASSUME NEW t \in Tasks, Statement(t) PROVE StampInv'
  <2>1. CASE insert(t)
    BY <2>1 DEF insert, Finish, Goto
  <2>2. CASE insertConflict(t)
    BY <2>2 DEF insertConflict, Finish, Goto, tables, locks
  <2>3. CASE pruneOld(t)
    BY <2>3 DEF pruneOld, Goto
  <2>4. CASE pruneExcess(t)
    BY <2>4 DEF pruneExcess, Finish, Goto
  <2>5. CASE prune_accounts(t)
    <3>1. \A a \in Accounts : account_bundles'[a] \in {account_bundles[a], NoRow}
      BY <2>5 DEF prune_accounts
    <3>2. /\ Finish(t, "Updated") /\ UNCHANGED <<write_lock, now>>
      BY <2>5 DEF prune_accounts
    <3>3. StampsPast' /\ RowsPast' /\ CutoffPast' /\ DecidersGuarded' /\ DecidersLater'
      BY <3>1, <3>2 DEF Finish, Goto
    <3>4. RowsEarlier'
      BY <1>0, <3>1, <3>2 DEF Finish, Goto
    <3> QED
      BY <3>3, <3>4
  <2>6. CASE Select(t)
    BY <2>6 DEF Select, Finish, Goto, tables
  <2>7. CASE Write(t)
    BY <2>7 DEF Write, BeginWrite, Goto, Transacting, tables
  <2>8. CASE WriteBusy(t)
    BY <2>8 DEF WriteBusy, Finish, Goto, tables
  <2>9. CASE Commit(t)
    <3>1. /\ Finish(t, "Updated") /\ UNCHANGED <<write_lock, now>>
          /\ \A u \in Tasks : pc[u] = "commit" => u = t
      BY <2>9 DEF Commit, WriterCommits
    <3>2. \A a \in Accounts : account_bundles'[a] # account_bundles[a] =>
            account_bundles'[a].updated_at = stamp[t]
      BY <2>9 DEF Commit
    <3>3. StampsPast' /\ RowsPast' /\ CutoffPast' /\ DecidersGuarded' /\ DecidersLater'
      BY <3>1, <3>2 DEF Finish, Goto
    <3>4. RowsEarlier'
      BY <1>0, <2>9, <3>1, <3>2 DEF Commit, Finish, Goto
    <3> QED
      BY <3>3, <3>4
  <2>10. CASE Rollback(t)
    BY <1>0, <2>10 DEF Rollback, Reset, Goto, tables
  <2> QED
    BY <1>4, <2>1, <2>2, <2>3, <2>4, <2>5, <2>6, <2>7, <2>8, <2>9, <2>10 DEF Statement
<1>5. ASSUME NEW t \in Tasks, BusyTimeout(t) PROVE StampInv'
  BY <1>5 DEF BusyTimeout, Finish, Goto, tables, locks
<1>6. ASSUME NEW t \in Tasks, Return(t) PROVE StampInv'
  <2>1. \A u \in Tasks : u # t => pc'[u] = pc[u] /\ call'[u] = call[u] /\ stamp'[u] = stamp[u]
    BY <1>6 DEF Return, Answer, Enter, Reset, Goto
  <2>2. pc'[t] \in {"lock", "idle"} /\ stamp'[t] = 0
    BY <1>6 DEF Return, Answer, Enter, Reset, Goto
  <2>3. UNCHANGED <<account_bundles, now>> /\ DropGuard(t)
    BY <1>6 DEF Return, Answer, tables
  <2> QED
    BY <1>0, <2>1, <2>2, <2>3 DEF DropGuard, Tasks
<1>7. ASSUME NEW t \in Tasks, IoFault(t) PROVE StampInv'
  BY <1>7 DEF IoFault, Finish, Goto, tables
<1>8. ASSUME NEW t \in Handlers, Cancel(t) PROVE StampInv'
  <2>1. \A u \in Tasks : u # t => pc'[u] = pc[u] /\ call'[u] = call[u] /\ stamp'[u] = stamp[u]
    BY <1>8 DEF Cancel, Reset, Goto, locals, Tasks
  <2>2. /\ \/ pc'[t] = "idle" /\ stamp'[t] = 0
           \/ pc'[t] = "rollback" /\ stamp'[t] = stamp[t]
           \/ /\ pc'[t] = pc[t] /\ call'[t] = call[t] /\ stamp'[t] = stamp[t]
              /\ ~Deciding(t)
    BY <1>8 DEF Cancel, Reset, Goto, locals, Tasks, ReadsFirst
  <2>3. UNCHANGED <<account_bundles, now>> /\ DropGuard(t)
    BY <1>8 DEF Cancel, tables
  <2> QED
    BY <1>0, <2>1, <2>2, <2>3 DEF DropGuard, Tasks
<1>9. CASE Crash
  BY <1>0, <1>9 DEF Crash, ProcessEnds, tables, Tasks
<1>10. CASE Tick
  BY <1>0, <1>10 DEF Tick, tables, locks, locals, Tasks
<1>11. CASE UNCHANGED vars
  BY <1>11 DEF vars, tables, locks, locals
<1> QED
  BY <1>1, <1>2, <1>3, <1>4, <1>5, <1>6, <1>7, <1>8, <1>9, <1>10, <1>11
  DEF Next, ClockSetBack

\* now_ms() under the guard orders the timestamps of store.rs as the decisions
\* are ordered: while the system clock is not set back, no row is ahead of the
\* clock and no writer, cancelled or not, replaces a row with a later one.
THEOREM StampsOrdered ==
  ASSUME "clock" \notin Faults PROVE Spec => []StampInv
<1> QED
  BY SwapInit, SwapStep, StampInit, StampStep, PTL DEF Spec

\* Within its retention a bundle is not pruned, and a bundle that replaces it
\* has a higher lamport and starts its own retention later.
LEMMA ProtectedStep ==
  ASSUME Durable, "clock" \notin Faults, SwapInv, StampInv, [Next]_vars,
         NEW c \in UpsertCalls, NEW s \in Nat, Protected(c, s)
  PROVE  Protected(c, s)'
<1> USE BoundsAssumption
<1> DEFINE a == c.key
<1>1. /\ a \in Accounts /\ now \in Nat /\ now' \in Nat
      /\ account_bundles \in [Accounts -> AccountRows \cup {NoRow}]
      /\ account_bundles' \in [Accounts -> AccountRows \cup {NoRow}]
  BY TypeStep DEF UpsertCalls, SwapInv, TypeInv, TypeOK, Time
<1>2. now <= now'
  <2>1. ASSUME NEW t \in Tasks, Statement(t) PROVE now' = now
    BY <2>1 DEF Statement, insert, insertConflict, pruneOld, pruneExcess, prune_accounts,
      Select, Write, BeginWrite, WriteBusy, Commit, Rollback
  <2> QED
    BY <1>1, <2>1 DEF Next, Submit, PruneTick, Acquire, TakeGuard, BusyTimeout, Return,
      Answer, IoFault, Cancel, Crash, ProcessEnds, Tick, ClockSetBack, vars
<1> SUFFICES ASSUME s + retention >= now'
             PROVE  /\ account_bundles'[a] # NoRow
                    /\ payload_lamport(account_bundles'[a].payload) >= payload_lamport(c.payload)
                    /\ account_bundles'[a].updated_at >= s
  BY DEF Protected
<1>3. /\ account_bundles[a] \in AccountRows
      /\ payload_lamport(account_bundles[a].payload) >= payload_lamport(c.payload)
      /\ account_bundles[a].updated_at >= s
  BY <1>1, <1>2 DEF Protected
<1>4. CASE account_bundles'[a] = account_bundles[a]
  BY <1>3, <1>4, DataAssumption DEF Protected, AccountRows
<1>5. CASE account_bundles'[a] # account_bundles[a]
  <2>1. PICK t \in Tasks : Commit(t) \/ prune_accounts(t)
    <3>1. ASSUME NEW t \in Tasks, Statement(t), ~Commit(t), ~prune_accounts(t) PROVE FALSE
      BY <1>5, <3>1 DEF Statement, insert, insertConflict, pruneOld, pruneExcess, Select,
        Write, BeginWrite, WriteBusy, Rollback, tables
    <3>2. ~Crash
      BY <1>5 DEF Crash, ProcessEnds, tables, Durable
    <3> QED
      BY <1>5, <3>1, <3>2 DEF Next, Submit, PruneTick, Acquire, TakeGuard, BusyTimeout,
        Return, Answer, IoFault, Cancel, Tick, ClockSetBack, vars, tables
  <2>2. ~prune_accounts(t)
    <3> SUFFICES ASSUME prune_accounts(t) PROVE FALSE
      OBVIOUS
    <3>1. t = Pruner
      BY DEF prune_accounts, Autocommit, SwapInv, TypeInv, CallTyped, Calls, InsertCalls,
        UpsertCalls, PutCalls
    <3>2. account_bundles[a].updated_at < stamp[Pruner] /\ now' = now
      BY <1>1, <1>5, <3>1 DEF prune_accounts, expired
    <3>3. stamp[Pruner] \in Nat /\ account_bundles[a].updated_at \in Nat
      BY <1>3, <3>1 DEF AccountRows, SwapInv, TypeInv, TypeOK
    <3> QED
      BY <1>1, <1>3, <3>2, <3>3 DEF StampInv, CutoffPast
  <2>3. /\ call[t].op = "upsert_account"
        /\ call[t].key = a
        /\ account_bundles'[a] = [payload |-> call[t].payload, updated_at |-> stamp[t]]
        /\ pc[t] = "commit"
    BY <1>1, <1>5, <2>1, <2>2 DEF Commit
  <2>4. call[t] \in UpsertCalls /\ stamp[t] \in Nat
    BY <2>3 DEF SwapInv, TypeInv, TypeOK, CallTyped, Calls, InsertCalls, UpsertCalls,
      PutCalls, PruneCalls
  <2>5. account_bundles'[a] # NoRow
    <3>1. account_bundles'[a] \in AccountRows
      BY <2>3, <2>4 DEF UpsertCalls, AccountRows
    <3> QED
      BY <3>1, DataAssumption DEF AccountRows
  <2>6. account_bundles[a] # NoRow
    BY <1>3, DataAssumption DEF AccountRows
  <2>7. payload_lamport(account_bundles'[a].payload) > payload_lamport(account_bundles[a].payload)
    BY <1>1, <1>5, <2>5, <2>6, BundleStep
  <2>8. account_bundles'[a].updated_at >= account_bundles[a].updated_at
    BY <2>3, <2>6 DEF StampInv, RowsEarlier
  <2>9. /\ payload_lamport(account_bundles[a].payload) \in Nat
        /\ payload_lamport(c.payload) \in Nat
        /\ payload_lamport(account_bundles'[a].payload) \in Nat
        /\ account_bundles[a].updated_at \in Nat /\ account_bundles'[a].updated_at \in Nat
    BY <1>3, <2>3, <2>4, DataAssumption DEF UpsertCalls, AccountRows
  <2> QED
    BY <1>3, <2>5, <2>7, <2>8, <2>9
<1> QED
  BY <1>4, <1>5

\* A method that succeeds has its bundle stored under its own timestamp.
LEMMA BundleAckStep ==
  ASSUME Durable, "clock" \notin Faults
  PROVE  SwapInv /\ StampInv /\ BundleAckInv /\ [Next]_vars => BundleAckInv'
<1> SUFFICES ASSUME SwapInv, StampInv, BundleAckInv, [Next]_vars PROVE BundleAckInv'
  OBVIOUS
<1>0. TypeInv /\ TypeInv'
  BY TypeStep DEF SwapInv
<1>1. ASSUME NEW t \in Tasks, Succeeded(t)', call'[t].op = "upsert_account"
      PROVE  Protected(call[t], stamp[t])'
  <2>1. call'[t] \in UpsertCalls /\ stamp'[t] \in Nat
    BY <1>0, <1>1 DEF Succeeded, TypeInv, TypeOK, CallTyped, Calls, InsertCalls,
      UpsertCalls, PutCalls, PruneCalls
  <2>2. CASE Succeeded(t) /\ UNCHANGED <<call[t], stamp[t]>>
    <3>1. PICK c \in UpsertCalls, s \in Nat :
            c = call[t] /\ c = call'[t] /\ s = stamp[t] /\ s = stamp'[t]
      BY <2>1, <2>2
    <3>2. Protected(c, s)
      BY <1>1, <2>2, <3>1 DEF BundleAckInv
    <3>3. Protected(c, s)'
      BY <3>2, ProtectedStep
    <3> QED
      BY <3>1, <3>3 DEF Protected
  <2>3. CASE Select(t) /\ outcome'[t] = Verdict(call[t]) /\ UNCHANGED <<call, stamp, tables>>
    <3>1. Verdict(call[t]) \in {"Stale", "Updated"}
      BY <1>1, <2>3 DEF Verdict, upsert_account
    <3> QED
      BY <1>0, <1>1, <2>3, <3>1 DEF Select, Succeeded, Goto, TypeInv, TypeOK
  <2>4. CASE Commit(t) /\ UNCHANGED <<call, stamp>>
    <3>1. account_bundles'[call[t].key]
            = [payload |-> call[t].payload, updated_at |-> stamp[t]]
      BY <1>0, <1>1, <2>1, <2>4 DEF Commit, UpsertCalls, TypeInv, TypeOK
    <3>2. account_bundles'[call[t].key] # NoRow
      BY <2>1, <2>4, <3>1, DataAssumption DEF UpsertCalls
    <3>3. payload_lamport(call[t].payload) \in Nat
      BY <2>1, <2>4, DataAssumption DEF UpsertCalls
    <3> QED
      BY <2>1, <2>4, <3>1, <3>2, <3>3 DEF Protected
  <2> QED
    BY <1>0, <1>1, <2>2, <2>3, <2>4, SuccessStep DEF ReadsFirst
<1>2. ASSUME NEW e \in acked', e.call.op = "upsert_account"
      PROVE  Protected(e.call, e.stamp)'
  <2>1. PICK c \in UpsertCalls, s \in Nat : c = e.call /\ s = e.stamp
    BY <1>0, <1>2 DEF TypeInv, TypeOK, Calls, InsertCalls, UpsertCalls, PutCalls
  <2>2. Protected(c, s)
    <3>1. CASE e \in acked
      BY <1>2, <2>1, <3>1 DEF BundleAckInv
    <3>2. CASE \E t \in Tasks : Succeeded(t) /\ e = [call |-> call[t], stamp |-> stamp[t]]
      BY <1>2, <2>1, <3>2 DEF BundleAckInv
    <3> QED
      BY <1>0, <1>2, <3>1, <3>2, AckStep
  <2>3. Protected(c, s)'
    BY <2>2, ProtectedStep
  <2> QED
    BY <2>1, <2>3 DEF Protected
<1> QED
  BY <1>1, <1>2 DEF BundleAckInv

\* A 204 for POST /v0/account holds for a full retention: until then the account
\* is served this bundle or one with a higher lamport, whatever publishes,
\* prunes, cancellations, I/O errors and restarts come after, as long as the
\* system clock is not set back.
THEOREM AckedBundlesProtected ==
  ASSUME Durable, "clock" \notin Faults PROVE Spec => []AckedBundleProtected
<1>1. Init => BundleAckInv
  BY DEF Init, BundleAckInv, Succeeded
<1>2. SwapInv /\ BundleAckInv => AckedBundleProtected
  <2> SUFFICES ASSUME SwapInv, BundleAckInv, NEW e \in acked,
                      e.call.op = "upsert_account", e.stamp >= now - retention
               PROVE  /\ get_account(e.call.key) # NoRow
                      /\ payload_lamport(get_account(e.call.key).payload)
                           >= payload_lamport(e.call.payload)
    BY DEF AckedBundleProtected
  <2>1. e.stamp + retention >= now
    BY BoundsAssumption DEF SwapInv, TypeInv, TypeOK, Time
  <2>2. Protected(e.call, e.stamp)
    BY DEF BundleAckInv
  <2> QED
    BY <2>1, <2>2 DEF Protected, get_account
<1> QED
  BY <1>1, <1>2, SwapInit, SwapStep, StampInit, StampStep, BundleAckStep, PTL DEF Spec
=============================================================================
