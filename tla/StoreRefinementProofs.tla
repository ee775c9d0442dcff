----------------------- MODULE StoreRefinementProofs -----------------------
(***************************************************************************)
(* Store implements Registry, for every value of the constants.            *)
(***************************************************************************)
EXTENDS StoreRefinement, StoreAckProofs, FiniteSetTheorems

\* A call of a handler inside a method is pending, and has its answer only when
\* the method is about to return.
LEMMA Mapped ==
  ASSUME TypeInv, NEW h \in Handlers, pc[h] \notin {"idle", "rollback"}
  PROVE  /\ call[h] \in Calls
         /\ pendingCalls[h] = call[h] /\ pendingCalls[h] # None
         /\ pc[h] # "return" => givenAnswers[h] = "none"
         /\ pc[h] = "return" => givenAnswers[h] = outcome[h]
  BY TasksAssumption, CallsAssumption
  DEF TypeInv, CallTyped, Tasks, pendingCalls, givenAnswers

\* A method that finishes answers its call.
LEMMA FinishAnswers ==
  ASSUME TypeInv, NEW h \in Handlers, NEW result, Finish(h, result),
         pc[h] \notin {"idle", "rollback"}, UNCHANGED acked
  PROVE  R!Answered(h, result)
  BY DEF TypeInv, TypeOK, Finish, Goto, Tasks, pendingCalls, givenAnswers, servedCalls, R!Answered

\* A method that ends with an error fails its call.
LEMMA FinishFails ==
  ASSUME TypeInv, NEW h \in Handlers,
         NEW error \in {"Constraint", "Busy", "Timeout", "Io"}, Finish(h, error),
         pc[h] \notin {"idle", "rollback", "return"}, UNCHANGED <<tables, acked>>
  PROVE  R!Fail(h)
<1>1. R!Answered(h, error)
  BY FinishAnswers
<1> QED
  BY <1>1, Mapped DEF R!Fail, R!maps, tables

\* The prune task is no caller, and a caller's step on its way is not seen.
LEMMA Unseen ==
  ASSUME UNCHANGED <<tables, acked>>,
         \A h \in Handlers :
           /\ pc'[h] = pc[h] \/ {pc[h], pc'[h]} \subseteq {"lock", "ready", "write", "commit"}
           /\ call'[h] = call[h] /\ outcome'[h] = outcome[h]
  PROVE  UNCHANGED R!vars
  BY DEF tables, R!vars, R!maps, pendingCalls, givenAnswers, servedCalls

\* A caller that leaves takes its call back.
LEMMA ResetForgets ==
  ASSUME TypeInv, NEW h \in Handlers, Reset(h), UNCHANGED tables
  PROVE  R!Forget(h)
  BY DEF TypeInv, TypeOK, Reset, Goto, Tasks, pendingCalls, givenAnswers, tables,
    R!Forget, R!maps

-----------------------------------------------------------------------------
(* The invariant.                                                           *)

\* Timestamps are read from the clock, a method that returns has a result, and
\* a table is finite.
Stamped  == \A t \in Tasks : stamp[t] \in Time
Resulted == \A t \in Tasks : pc[t] = "return" => outcome[t] # "none"
MapInv   == Stamped /\ Resulted /\ IsFiniteSet(keypackages)

\* Nothing is stored, running or stamped at first.
LEMMA MapInit == Init => MapInv
  BY BoundsAssumption, FS_EmptySet DEF Init, MapInv, Stamped, Resulted, Time

\* A table grows by one row at a time; every way out of a method names a result.
LEMMA MapStep == TypeInv /\ MapInv /\ [Next]_vars => MapInv'
<1> SUFFICES ASSUME TypeInv, MapInv, [Next]_vars PROVE MapInv'
  OBVIOUS
<1> USE TasksAssumption, BoundsAssumption DEF TypeInv, TypeOK, MapInv, Stamped, Resulted
<1>1. ASSUME NEW t \in Handlers, NEW c \in Calls, Submit(t, c) PROVE MapInv'
  BY <1>1 DEF Submit, Enter, Goto, tables, Tasks, Time
<1>2. CASE PruneTick
  BY <1>2 DEF PruneTick, Enter, Goto, tables, Tasks, Time
<1>3. ASSUME NEW t \in Tasks, Acquire(t) PROVE MapInv'
  BY <1>3 DEF Acquire, TakeGuard, Goto, saturating_sub, tables, Time
<1>4. ASSUME NEW t \in Tasks, Statement(t) PROVE MapInv'
  <2>1. CASE insert(t)
    <3>1. PICK row : keypackages' = keypackages \cup {row}
      BY <2>1 DEF insert
    <3>2. IsFiniteSet(keypackages')
      BY <3>1, FS_AddElement
    <3> QED
      BY <2>1, <3>2 DEF insert, Finish, Goto
  <2>2. CASE insertConflict(t)
    BY <2>2 DEF insertConflict, Finish, Goto, tables
  <2>3. CASE pruneOld(t)
    <3>1. IsFiniteSet(keypackages')
      BY <2>3, FS_Subset DEF pruneOld
    <3> QED
      BY <2>3, <3>1 DEF pruneOld, Goto
  <2>4. CASE pruneExcess(t)
    <3>1. IsFiniteSet(keypackages')
      BY <2>4, FS_Subset DEF pruneExcess
    <3> QED
      BY <2>4, <3>1 DEF pruneExcess, Finish, Goto
  <2>5. CASE prune_accounts(t)
    BY <2>5 DEF prune_accounts, Finish, Goto
  <2>6. CASE Select(t)
    BY <2>6 DEF Select, Verdict, upsert_account, put_account_log, freshness, Finish, Goto,
      tables
  <2>7. CASE Write(t) \/ WriteBusy(t)
    BY <2>7 DEF Write, BeginWrite, WriteBusy, Finish, Goto, tables
  <2>8. CASE Commit(t)
    BY <2>8 DEF Commit, Finish, Goto
  <2>9. CASE Rollback(t)
    BY <2>9 DEF Rollback, Reset, Goto, tables, Time
  <2> QED
    BY <1>4, <2>1, <2>2, <2>3, <2>4, <2>5, <2>6, <2>7, <2>8, <2>9 DEF Statement
<1>5. ASSUME NEW t \in Tasks, BusyTimeout(t) PROVE MapInv'
  BY <1>5 DEF BusyTimeout, Finish, Goto, tables
<1>6. ASSUME NEW t \in Tasks, Return(t) PROVE MapInv'
  BY <1>6 DEF Return, Answer, Enter, Reset, Goto, tables, Time
<1>7. ASSUME NEW t \in Tasks, IoFault(t) PROVE MapInv'
  BY <1>7 DEF IoFault, Finish, Goto, tables
<1>8. ASSUME NEW t \in Handlers, Cancel(t) PROVE MapInv'
  BY <1>8 DEF Cancel, Reset, Goto, tables, locals, Tasks, Time
<1>9. CASE Crash
  <2>1. keypackages' = {} \/ keypackages' = keypackages
    BY <1>9 DEF Crash, ProcessEnds, tables
  <2>2. IsFiniteSet(keypackages')
    BY <2>1, FS_EmptySet
  <2>3. Stamped' /\ Resulted'
    BY <1>9 DEF Crash, ProcessEnds, Time
  <2> QED
    BY <2>2, <2>3
<1>10. CASE Tick \/ ClockSetBack \/ UNCHANGED vars
  BY <1>10 DEF Tick, ClockSetBack, vars, tables, locals
<1> QED
  BY <1>1, <1>2, <1>3, <1>4, <1>5, <1>6, <1>7, <1>8, <1>9, <1>10 DEF Next

-----------------------------------------------------------------------------
(* Every step of a method is one step of the promise, or none.              *)

\* A DELETE of the prune takes rows older than every row it leaves.
LEMMA ExcessIsOldest ==
  ASSUME TypeInv, IsFiniteSet(keypackages), NEW r \in keypackages, NEW s \in keypackages,
         r.device_id = s.device_id,
         rowNumber(r) > max_per_identity, ~(rowNumber(s) > max_per_identity)
  PROVE  r.received_at < s.received_at
<1> DEFINE above(x) == {y \in ofDevice(x.device_id) : y.received_at > x.received_at}
<1> SUFFICES ASSUME ~(r.received_at < s.received_at) PROVE FALSE
  OBVIOUS
<1>1. \A x \in keypackages : x.received_at \in Nat
  BY DEF TypeInv, TypeOK, KeyPackageRows
<1>2. above(r) \subseteq above(s) /\ above(s) \subseteq keypackages
  BY <1>1 DEF ofDevice
<1>3. rowNumber(r) = 1 + Cardinality(above(r)) /\ rowNumber(s) = 1 + Cardinality(above(s))
  BY DEF rowNumber
<1> HIDE DEF above
<1>4. IsFiniteSet(above(s)) /\ IsFiniteSet(above(r))
  BY <1>2, FS_Subset
<1>5. Cardinality(above(r)) <= Cardinality(above(s))
  BY <1>2, <1>4, FS_Subset
<1>6. Cardinality(above(r)) \in Nat /\ Cardinality(above(s)) \in Nat
  BY <1>4, FS_CardinalityType
<1> QED
  BY <1>3, <1>5, <1>6, BoundsAssumption

\* An INSERT adds the row the caller asked for.
LEMMA InsertAdds ==
  ASSUME TypeInv, MapInv, NEW h \in Tasks, insert(h)
  PROVE  h \in Handlers /\ R!AddKeyPackage(h)
<1>1. /\ pc[h] = "ready" /\ call[h].op = "insert" /\ Finish(h, "Updated")
      /\ UNCHANGED <<acked, account_bundles, account_logs>>
  BY DEF insert, Autocommit
<1>2. h \in Handlers
  BY <1>1 DEF TypeInv, CallTyped, Tasks, PruneCalls
<1>3. R!Answered(h, "Updated")
  BY <1>1, <1>2, FinishAnswers
<1>4. R!Open(h, "insert") /\ pendingCalls[h] = call[h]
  BY <1>1, <1>2, Mapped DEF R!Open
<1>5. stamp[h] \in Time
  BY DEF MapInv, Stamped
<1>6. \E at \in Time, id \in {1} \cup {r.rowid + 1 : r \in keypackages} :
        /\ \A r \in keypackages : r.rowid < id
        /\ keypackages' = keypackages \cup
             {[rowid |-> id, device_id |-> pendingCalls[h].key, received_at |-> at,
               bundle |-> pendingCalls[h].bundle]}
  BY <1>4, <1>5 DEF insert
<1> QED
  BY <1>1, <1>2, <1>3, <1>4, <1>6 DEF R!AddKeyPackage

\* The prune's DELETEs are expiries.
LEMMA PruneExpires ==
  ASSUME TypeInv, MapInv, NEW t \in Tasks, pruneOld(t) \/ pruneExcess(t) \/ prune_accounts(t)
  PROVE  R!Expire
<1>1. t = Pruner
  BY DEF pruneOld, pruneExcess, prune_accounts, Autocommit, TypeInv, CallTyped, Calls,
    InsertCalls, UpsertCalls, PutCalls
<1>2. UNCHANGED <<account_logs, pendingCalls, givenAnswers, servedCalls>>
  BY <1>1, TasksAssumption DEF pruneOld, pruneExcess, prune_accounts, Finish, Goto,
    TypeInv, TypeOK, Tasks, pendingCalls, givenAnswers, servedCalls
<1>3. /\ account_bundles \in [Accounts -> AccountRows \cup {NoRow}]
      /\ stamp[t] \in Nat
      /\ \A r \in keypackages : r.received_at \in Nat
      /\ \A a \in Accounts : account_bundles[a] # NoRow => account_bundles[a].updated_at \in Nat
  BY DEF TypeInv, TypeOK, KeyPackageRows, AccountRows
<1>4. ASSUME pruneOld(t) \/ pruneExcess(t)
      PROVE  /\ keypackages' \subseteq keypackages
             /\ \A r \in keypackages \ keypackages', s \in keypackages' :
                  r.device_id = s.device_id => r.received_at < s.received_at
             /\ UNCHANGED account_bundles
  <2>1. CASE pruneOld(t)
    BY <1>3, <2>1 DEF pruneOld
  <2>2. CASE pruneExcess(t)
    BY <2>2, ExcessIsOldest DEF pruneExcess, MapInv
  <2> QED
    BY <1>4, <2>1, <2>2
<1>5. CASE pruneOld(t) \/ pruneExcess(t)
  BY <1>2, <1>3, <1>4, <1>5 DEF R!Expire
<1>6. CASE prune_accounts(t)
  <2>1. UNCHANGED keypackages
    BY <1>6 DEF prune_accounts
  <2>2. account_bundles' = [a \in Accounts |-> IF expired(a, stamp[t]) THEN NoRow
                                               ELSE account_bundles[a]]
    BY <1>6 DEF prune_accounts
  <2>3. \A a \in Accounts : account_bundles'[a] # account_bundles[a] <=> expired(a, stamp[t])
    BY <2>2 DEF expired
  <2>4. ASSUME NEW a \in Accounts, NEW b \in Accounts, expired(a, stamp[t]),
               ~expired(b, stamp[t]), account_bundles[b] # NoRow
        PROVE  account_bundles[a].updated_at < account_bundles[b].updated_at
    BY <1>3, <2>4 DEF expired
  <2> QED
    BY <1>2, <1>3, <2>1, <2>2, <2>3, <2>4 DEF R!Expire
<1> QED
  BY <1>5, <1>6

\* Of two different logs at most one extends the other, so an extension is
\* Updated whichever arm of the comparison is tried first.
LEMMA ExtensionUpdates ==
  ASSUME NEW S, NEW s \in Seq(S), NEW c \in Seq(S), IsStrictPrefix(s, c)
  PROVE  freshness(s, c) = "Updated"
<1>1. ~IsPrefix(c, s)
  <2> SUFFICES ASSUME IsPrefix(c, s) PROVE s = c
    BY DEF IsStrictPrefix
  <2>1. Len(s) = Len(c) /\ \A i \in 1 .. Len(s) : s[i] = c[i]
    BY PrefixByElements DEF IsStrictPrefix
  <2> QED
    BY <2>1
<1> QED
  BY <1>1 DEF freshness, IsStrictPrefix

\* A SELECT that finds a row refusing the call answers by that row.
LEMMA SelectRefuses ==
  ASSUME TypeInv, NEW h \in Tasks, Select(h), Verdict(call[h]) # "Updated"
  PROVE  h \in Handlers /\ (R!SwapBundle(h) \/ R!ExtendLog(h))
<1>1. /\ pc[h] = "ready" /\ call[h].op \in ReadsFirst /\ Finish(h, Verdict(call[h]))
      /\ UNCHANGED <<tables, acked>>
  BY DEF Select
<1>2. h \in Handlers
  BY <1>1 DEF TypeInv, CallTyped, Tasks, PruneCalls, ReadsFirst
<1>3. R!Answered(h, Verdict(call[h]))
  BY <1>1, <1>2, FinishAnswers
<1>4. R!Open(h, call[h].op) /\ pendingCalls[h] = call[h] /\ call[h] \in Calls
  BY <1>1, <1>2, Mapped DEF R!Open
<1>5. CASE call[h].op = "upsert_account"
  <2>1. call[h] \in UpsertCalls
    BY <1>4, <1>5 DEF Calls, InsertCalls, UpsertCalls, PutCalls
  <2>2. /\ Verdict(call[h]) = "Stale"
        /\ account_bundles[call[h].key] # NoRow
        /\ payload_lamport(call[h].payload)
             <= payload_lamport(account_bundles[call[h].key].payload)
    BY <1>5 DEF Verdict, upsert_account
  <2>3. /\ payload_lamport(call[h].payload) \in Nat
        /\ payload_lamport(account_bundles[call[h].key].payload) \in Nat
    BY <2>1, <2>2, DataAssumption DEF UpsertCalls, AccountRows, TypeInv, TypeOK
  <2>4. ~Higher(call[h].payload, account_bundles[call[h].key].payload)
    BY <2>2, <2>3 DEF Higher
  <2> QED
    BY <1>1, <1>2, <1>3, <1>4, <1>5, <2>2, <2>4 DEF R!SwapBundle, tables
<1>6. CASE call[h].op = "put_account_log"
  <2>1. /\ Verdict(call[h]) = freshness(account_logs[call[h].key].signed_log, call[h].signed_log)
        /\ account_logs[call[h].key] # NoRow
    BY <1>6 DEF Verdict, put_account_log
  <2> DEFINE row == account_logs[call[h].key]
             log == call[h].signed_log
  <2>2. ~Longer(log, row.signed_log)
    <3>1. row.signed_log \in Seq(Entries) /\ log \in Seq(Entries)
      BY <1>4, <1>6, <2>1, DataAssumption DEF Calls, InsertCalls, UpsertCalls, PutCalls,
        LogRows, TypeInv, TypeOK
    <3> QED
      BY <2>1, <3>1, ExtensionUpdates DEF Longer
  <2>3. Verdict(call[h]) = CASE log = row.signed_log         -> "Identical"
                             [] Longer(row.signed_log, log)  -> "Behind"
                             [] OTHER                        -> "Diverged"
    BY <2>1, <2>2 DEF freshness, Longer, IsStrictPrefix
  <2> QED
    BY <1>1, <1>2, <1>3, <1>4, <1>6, <2>1, <2>2, <2>3 DEF R!ExtendLog, tables
<1> QED
  BY <1>1, <1>5, <1>6 DEF ReadsFirst

\* A COMMIT writes what the row at that instant allows.
LEMMA CommitSwaps ==
  ASSUME SwapInv, MapInv, NEW h \in Tasks, Commit(h)
  PROVE  h \in Handlers /\ (R!SwapBundle(h) \/ R!ExtendLog(h))
<1>1. /\ pc[h] = "commit" /\ call[h].op \in ReadsFirst /\ Finish(h, "Updated")
      /\ Verdict(call[h]) = "Updated"
      /\ UNCHANGED <<keypackages, acked>>
  BY DEF Commit, SwapInv, ReadStillHolds, TypeInv, Transacting
<1>2. h \in Handlers
  BY <1>1 DEF SwapInv, TypeInv, CallTyped, Tasks, PruneCalls, ReadsFirst
<1>3. R!Answered(h, "Updated")
  BY <1>1, <1>2, FinishAnswers DEF SwapInv
<1>4. R!Open(h, call[h].op) /\ pendingCalls[h] = call[h] /\ call[h] \in Calls
  BY <1>1, <1>2, Mapped DEF R!Open, SwapInv
<1>5. stamp[h] \in Time
  BY DEF MapInv, Stamped
<1>6. CASE call[h].op = "upsert_account"
  <2>1. call[h] \in UpsertCalls
    BY <1>4, <1>6 DEF Calls, InsertCalls, UpsertCalls, PutCalls
  <2>2. \/ account_bundles[call[h].key] = NoRow
        \/ ~(payload_lamport(call[h].payload)
               <= payload_lamport(account_bundles[call[h].key].payload))
    BY <1>1, <1>6 DEF Verdict, upsert_account
  <2>3. account_bundles[call[h].key] # NoRow =>
          /\ payload_lamport(call[h].payload) \in Nat
          /\ payload_lamport(account_bundles[call[h].key].payload) \in Nat
    BY <2>1, DataAssumption DEF UpsertCalls, AccountRows, SwapInv, TypeInv, TypeOK
  <2>4. \/ account_bundles[call[h].key] = NoRow
        \/ Higher(call[h].payload, account_bundles[call[h].key].payload)
    BY <2>2, <2>3 DEF Higher
  <2>5. \E at \in Time : account_bundles' = [account_bundles EXCEPT ![call[h].key] =
                             [payload |-> call[h].payload, updated_at |-> at]]
    BY <1>5, <1>6 DEF Commit
  <2>6. UNCHANGED account_logs
    BY <1>6 DEF Commit
  <2> QED
    BY <1>1, <1>2, <1>3, <1>4, <1>6, <2>4, <2>5, <2>6 DEF R!SwapBundle
<1>7. CASE call[h].op = "put_account_log"
  <2>1. \/ account_logs[call[h].key] = NoRow
        \/ Longer(call[h].signed_log, account_logs[call[h].key].signed_log)
    BY <1>1, <1>7 DEF Verdict, put_account_log, freshness, Longer
  <2>2. \E at \in Time : account_logs' = [account_logs EXCEPT ![call[h].key] =
                             [signed_log |-> call[h].signed_log, updated_at |-> at]]
    BY <1>5, <1>7 DEF Commit
  <2>3. UNCHANGED account_bundles
    BY <1>7 DEF Commit
  <2> QED
    BY <1>1, <1>2, <1>3, <1>4, <1>7, <2>1, <2>2, <2>3 DEF R!ExtendLog
<1> QED
  BY <1>1, <1>6, <1>7 DEF ReadsFirst

\* The guard is dropped, the caller has its answer; the prune has none to give.
LEMMA ReturnResponds ==
  ASSUME TypeInv, MapInv, NEW t \in Tasks, Return(t)
  PROVE  (t \in Handlers /\ R!Respond(t)) \/ UNCHANGED R!vars
<1>1. /\ pc[t] = "return" /\ UNCHANGED tables
      /\ acked' = IF t \in Handlers \ dropped /\ outcome[t] \in {"Updated", "Identical"}
                  THEN acked \cup {[call |-> call[t], stamp |-> stamp[t]]}
                  ELSE acked
  BY DEF Return, Answer
<1>2. CASE t \in Handlers
  <2>1. Reset(t)
    BY <1>1, <1>2, TasksAssumption DEF Return, TypeInv, CallTyped, Calls, InsertCalls, UpsertCalls,
      PutCalls
  <2>2. R!Forget(t)
    BY <1>1, <1>2, <2>1, ResetForgets
  <2>3. givenAnswers[t] = outcome[t] /\ outcome[t] # "none" /\ pendingCalls[t] = call[t]
    BY <1>1, <1>2, Mapped DEF MapInv, Resulted
  <2>4. CASE acked' = acked
    BY <1>2, <2>2, <2>3, <2>4 DEF R!Respond, servedCalls
  <2>5. CASE acked' # acked
    <3>1. /\ outcome[t] \in {"Updated", "Identical"}
          /\ acked' = acked \cup {[call |-> call[t], stamp |-> stamp[t]]}
      BY <1>1, <2>5
    <3>2. servedCalls' = servedCalls \cup {call[t]}
      <4>1. [call |-> call[t], stamp |-> stamp[t]].call = call[t]
        OBVIOUS
      <4> QED
        BY <3>1, <4>1, Zenon DEF servedCalls
    <3> QED
      BY <1>2, <2>2, <2>3, <3>1, <3>2 DEF R!Respond
  <2> QED
    BY <2>4, <2>5
<1>3. CASE t \notin Handlers
  BY <1>1, <1>3, Unseen DEF Return, Enter, Reset, Goto, TypeInv, TypeOK, Tasks
<1> QED
  BY <1>2, <1>3

\* A dropped future takes its call back, unless its statement runs on.
LEMMA CancelAbandons ==
  ASSUME TypeInv, NEW h \in Handlers, Cancel(h)
  PROVE  R!Abandon(h) \/ UNCHANGED R!vars
<1>1. UNCHANGED <<tables, acked>>
  BY DEF Cancel
<1>2. CASE pc[h] \in {"lock", "ready", "return"} /\ Reset(h)
  BY <1>1, <1>2, Mapped, ResetForgets DEF R!Abandon, servedCalls
<1>3. CASE UNCHANGED locals
  BY <1>1, <1>3, Unseen DEF locals
<1>4. CASE pc[h] \in {"write", "commit"} /\ Goto(h, "rollback") /\ UNCHANGED <<call, outcome>>
  <2>1. R!Forget(h)
    BY <1>1, <1>4 DEF Goto, TypeInv, TypeOK, Tasks, pendingCalls, givenAnswers, tables,
      R!Forget, R!maps
  <2> QED
    BY <1>1, <1>4, <2>1, Mapped DEF R!Abandon, servedCalls
<1> QED
  BY <1>2, <1>3, <1>4 DEF Cancel

\* Every step of Store is a step of Registry or is not seen by the callers.
LEMMA RefinementStep ==
  ASSUME SwapInv, MapInv, [Next]_vars PROVE [R!Next]_(R!vars)
<1> USE TasksAssumption
<1>0. TypeInv /\ pc = [t \in Tasks |-> pc[t]]
  BY DEF SwapInv, TypeInv, TypeOK
<1>1. ASSUME NEW h \in Handlers, NEW c \in Calls, Submit(h, c) PROVE R!Invoke(h, c)
  BY <1>1 DEF Submit, Enter, Goto, SwapInv, TypeInv, TypeOK, Tasks, tables, pendingCalls,
    givenAnswers, servedCalls, R!Invoke, R!maps
<1>2. CASE PruneTick
  BY <1>2, Unseen DEF PruneTick, Enter, Goto, SwapInv, TypeInv, TypeOK, Tasks
<1>3. ASSUME NEW t \in Tasks, Acquire(t) PROVE UNCHANGED R!vars
  BY <1>0, <1>3, Unseen DEF Acquire, TakeGuard, Goto, Tasks
\* A task other than a handler that fails is the prune task.
<1>4. ASSUME NEW t \in Tasks, NEW error \in {"Constraint", "Busy", "Timeout", "Io"},
             Finish(t, error), pc[t] \notin {"idle", "rollback", "return"},
             UNCHANGED <<tables, acked>>
      PROVE  (t \in Handlers /\ R!Fail(t)) \/ UNCHANGED R!vars
  <2>1. CASE t \in Handlers
    BY <1>0, <1>4, <2>1, FinishFails
  <2>2. CASE t \notin Handlers
    BY <1>4, <2>2, Unseen DEF Finish, Goto, SwapInv, TypeInv, TypeOK, Tasks
  <2> QED
    BY <2>1, <2>2
<1>5. ASSUME NEW t \in Tasks, Statement(t) PROVE [R!Next]_(R!vars)
  <2>1. CASE insert(t)
    BY <1>0, <2>1, InsertAdds DEF R!Next
  <2>2. CASE insertConflict(t)
    BY <1>4, <2>2 DEF insertConflict, Autocommit, R!Next
  <2>3. CASE pruneOld(t) \/ pruneExcess(t) \/ prune_accounts(t)
    BY <1>0, <2>3, PruneExpires DEF R!Next
  <2>4. CASE Select(t)
    <3>1. CASE Verdict(call[t]) = "Updated"
      BY <1>0, <2>4, <3>1, Unseen DEF Select, Goto, Tasks
    <3>2. CASE Verdict(call[t]) # "Updated"
      BY <1>0, <2>4, <3>2, SelectRefuses DEF R!Next
    <3> QED
      BY <3>1, <3>2
  <2>5. CASE Write(t)
    BY <1>0, <2>5, Unseen DEF Write, BeginWrite, Goto, Tasks
  <2>6. CASE WriteBusy(t)
    BY <1>4, <2>6 DEF WriteBusy, R!Next
  <2>7. CASE Commit(t)
    BY <2>7, CommitSwaps DEF R!Next
  <2>8. CASE Rollback(t)
    BY <2>8 DEF Rollback, Reset, Goto, SwapInv, TypeInv, TypeOK, Tasks, tables,
      pendingCalls, givenAnswers, servedCalls, R!vars, R!maps
  <2> QED
    BY <1>5, <2>1, <2>2, <2>3, <2>4, <2>5, <2>6, <2>7, <2>8 DEF Statement
<1>6. ASSUME NEW t \in Tasks, BusyTimeout(t) PROVE [R!Next]_(R!vars)
  BY <1>4, <1>6 DEF BusyTimeout, R!Next
<1>7. ASSUME NEW t \in Tasks, Return(t) PROVE [R!Next]_(R!vars)
  BY <1>0, <1>7, ReturnResponds DEF R!Next
<1>8. ASSUME NEW t \in Tasks, IoFault(t) PROVE [R!Next]_(R!vars)
  BY <1>4, <1>8 DEF IoFault, R!Next
<1>9. ASSUME NEW h \in Handlers, Cancel(h) PROVE [R!Next]_(R!vars)
  BY <1>0, <1>9, CancelAbandons DEF R!Next
<1>10. CASE Crash
  <2>1. /\ pendingCalls' = [h \in Handlers |-> None]
        /\ givenAnswers' = [h \in Handlers |-> "none"]
        /\ servedCalls' = servedCalls
    BY <1>10 DEF Crash, ProcessEnds, Tasks, pendingCalls, givenAnswers, servedCalls
  <2>2. R!Restart
    BY <1>10, <2>1 DEF Crash, ProcessEnds, tables, R!Restart, R!maps
  <2> QED
    BY <2>2 DEF R!Next
<1>11. CASE Tick \/ ClockSetBack \/ UNCHANGED vars
  BY <1>11, Unseen DEF Tick, ClockSetBack, vars, locals
<1> QED
  BY <1>1, <1>2, <1>3, <1>5, <1>6, <1>7, <1>8, <1>9, <1>10, <1>11 DEF Next, R!Next

\* store.rs is linearizable, for any number of handlers, cancelled or not, with
\* any fault: each insert, upsert_account and put_account_log takes effect at one
\* instant between its invocation and its answer, by the row of that instant,
\* or fails and leaves no trace; the prune removes the oldest rows only.
THEOREM StoreImplementsRegistry == Spec => ImplementsRegistry
<1>1. Init => R!Init
  BY TasksAssumption DEF Init, Tasks, pendingCalls, givenAnswers, servedCalls, R!Init
<1> QED
  BY <1>1, SwapInit, SwapStep, MapInit, MapStep, RefinementStep, PTL
  DEF Spec, SwapInv, ImplementsRegistry, R!Spec
=============================================================================
