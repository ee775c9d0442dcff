----------------------- MODULE StoreKeyPackageProofs -----------------------
(***************************************************************************)
(* The history of keypackages of a device: what is served, in which order,  *)
(* and what the prune leaves.  Theorems about Store for every value of its  *)
(* constants.                                                               *)
(***************************************************************************)
EXTENDS StoreRefinementProofs

-----------------------------------------------------------------------------
(* Invariants.                                                              *)

\* PRIMARY KEY (device_id, received_at).
PrimaryKey ==
  \A r, s \in keypackages :
    r.device_id = s.device_id /\ r.received_at = s.received_at => r = s

\* A task that is about to insert.
Inserting(t) == pc[t] = "ready" /\ call[t].op = "insert"

\* No row is ahead of the clock, nor of the timestamp the next row will have,
\* and a device's rows were inserted in the order of their timestamps.
ReceivedPast   == \A r \in keypackages : r.received_at <= now
InsertersLater == \A t \in Tasks : Inserting(t) => \A r \in keypackages : r.received_at <= stamp[t]
InsertOrder    == \A r, s \in keypackages :
  r.device_id = s.device_id /\ r.received_at < s.received_at => r.rowid < s.rowid
OrderInv == PrimaryKey /\ ReceivedPast /\ InsertersLater /\ InsertOrder

\* A device with rows has a latest one, and within retention of s one that is
\* no earlier than s.
HasLatest  == \A d \in Devices : ofDevice(d) # {} => latest(d) # {}
Held(d, s) == s + retention >= now => \E r \in ofDevice(d) : r.received_at >= s

\* Acknowledged keypackages, and those about to be, are held.
KeyPackageAckInv ==
  /\ HasLatest
  /\ \A t \in Tasks : Succeeded(t) /\ call[t].op = "insert" => Held(call[t].key, stamp[t])
  /\ \A e \in acked : e.call.op = "insert" => Held(e.call.key, e.stamp)

\* The prune task past its first DELETE, and past its second.
Pruned == /\ pc[Pruner] = "return" /\ outcome[Pruner] = "Updated"
          /\ call[Pruner].op = "prune_key_packages"
HistoryInv ==
  /\ pc[Pruner] = "excess" \/ Pruned => \A r \in keypackages : r.received_at >= stamp[Pruner]
  /\ Pruned => \A d \in Devices : Cardinality(ofDevice(d)) <= max_per_identity

-----------------------------------------------------------------------------
(* What a step does to the rows, the clock and a waiting insert.            *)

\* Only an INSERT, the prune's two DELETEs and the loss of an in-memory
\* database change the rows.
LEMMA RowsStep ==
  ASSUME TypeInv, [Next]_vars
  PROVE  \/ UNCHANGED keypackages
         \/ \E t \in Tasks : insert(t)
         \/ pruneOld(Pruner) \/ pruneExcess(Pruner)
         \/ Crash /\ is_memory /\ keypackages' = {}
<1>1. ASSUME NEW t \in Tasks, pruneOld(t) \/ pruneExcess(t) PROVE t = Pruner
  BY <1>1 DEF pruneOld, pruneExcess, Autocommit, TypeInv, CallTyped, Calls,
    InsertCalls, UpsertCalls, PutCalls
<1>2. ASSUME NEW t \in Tasks, Statement(t)
      PROVE  UNCHANGED keypackages \/ insert(t) \/ pruneOld(Pruner) \/ pruneExcess(Pruner)
  <2>1. CASE pruneOld(t) \/ pruneExcess(t)
    BY <1>1, <2>1
  <2>2. CASE ~(pruneOld(t) \/ pruneExcess(t))
    BY <1>2, <2>2 DEF Statement, insertConflict, prune_accounts, Select, Write, BeginWrite,
      WriteBusy, Commit, Rollback, tables
  <2> QED
    BY <2>1, <2>2
<1>3. ASSUME Crash PROVE UNCHANGED keypackages \/ (is_memory /\ keypackages' = {})
  BY <1>3 DEF Crash, ProcessEnds, tables
<1> QED
  BY <1>2, <1>3 DEF Next, Submit, PruneTick, Acquire, TakeGuard, BusyTimeout, Return,
    Answer, IoFault, Cancel, Tick, ClockSetBack, vars, tables

\* The clock that is not set back only advances.
LEMMA ClockStep ==
  ASSUME TypeInv, [Next]_vars, "clock" \notin Faults
  PROVE  now \in Nat /\ now' \in Nat /\ now <= now'
<1>1. now \in Nat /\ now' \in Nat
  BY TypeStep, BoundsAssumption DEF TypeInv, TypeOK, Time
<1>2. ASSUME NEW t \in Tasks, Statement(t) PROVE now' = now
  BY <1>2 DEF Statement, insert, insertConflict, pruneOld, pruneExcess, prune_accounts,
    Select, Write, BeginWrite, WriteBusy, Commit, Rollback
<1> QED
  BY <1>1, <1>2 DEF Next, Submit, PruneTick, Acquire, TakeGuard, BusyTimeout, Return,
    Answer, IoFault, Cancel, Crash, ProcessEnds, Tick, ClockSetBack, vars

\* A task comes to insert by obtaining the guard and reading the clock.
LEMMA InsertingStep ==
  ASSUME TypeInv, [Next]_vars, NEW t \in Tasks, Inserting(t)'
  PROVE  \/ Inserting(t) /\ stamp'[t] = stamp[t] /\ ~insert(t)
         \/ stamp'[t] = now /\ UNCHANGED <<keypackages, now>>
<1> USE TasksAssumption DEF TypeInv, TypeOK, Inserting
<1> DEFINE Waits == Inserting(t) /\ stamp'[t] = stamp[t] /\ ~insert(t)
<1>0. ASSUME insert(t) PROVE pc'[t] = "return"
  BY <1>0 DEF insert, Finish, Goto
<1>1. ASSUME NEW u \in Handlers, NEW c \in Calls, Submit(u, c) PROVE Waits
  BY <1>0, <1>1 DEF Submit, Enter, Goto, Tasks
<1>2. ASSUME PruneTick PROVE Waits
  BY <1>0, <1>2 DEF PruneTick, Enter, Goto, Tasks
<1>3. ASSUME NEW u \in Tasks, Acquire(u), u # t PROVE Waits
  BY <1>0, <1>3 DEF Acquire, TakeGuard, Goto
<1>4. ASSUME Acquire(t) PROVE stamp'[t] = now /\ UNCHANGED <<keypackages, now>>
  BY <1>4 DEF Acquire, TakeGuard, Goto, tables, CallTyped, PruneCalls
<1>5. ASSUME NEW u \in Tasks, Statement(u) PROVE Waits
  <2>1. CASE insert(u) \/ insertConflict(u) \/ pruneOld(u)
    BY <1>0, <2>1 DEF insert, insertConflict, pruneOld, Finish, Goto
  <2>2. CASE pruneExcess(u) \/ prune_accounts(u) \/ Select(u)
    BY <1>0, <2>2 DEF pruneExcess, prune_accounts, Select, Finish, Goto
  <2>3. CASE Write(u) \/ WriteBusy(u) \/ Commit(u) \/ Rollback(u)
    BY <1>0, <2>3 DEF Write, BeginWrite, WriteBusy, Commit, Rollback, Finish, Reset, Goto
  <2> QED
    BY <1>5, <2>1, <2>2, <2>3 DEF Statement
<1>6. ASSUME NEW u \in Tasks, BusyTimeout(u) \/ IoFault(u) PROVE Waits
  BY <1>0, <1>6 DEF BusyTimeout, IoFault, Finish, Goto
<1>7. ASSUME NEW u \in Tasks, Return(u) PROVE Waits
  BY <1>0, <1>7 DEF Return, Answer, Enter, Reset, Goto
<1>8. ASSUME NEW u \in Handlers, Cancel(u) PROVE Waits
  BY <1>0, <1>8 DEF Cancel, Reset, Goto, locals, Tasks
<1>9. ~Crash
  BY DEF Crash, ProcessEnds
<1>10. ASSUME Tick \/ ClockSetBack \/ UNCHANGED vars PROVE Waits
  BY <1>0, <1>10 DEF Tick, ClockSetBack, vars, locals
<1> QED
  BY <1>1, <1>2, <1>3, <1>4, <1>5, <1>6, <1>7, <1>8, <1>9, <1>10 DEF Next

\* An INSERT adds one row, whose rowid exceeds every other's and whose key is new.
LEMMA InsertRow ==
  ASSUME TypeInv, NEW t \in Tasks, insert(t)
  PROVE  /\ Inserting(t) /\ call[t] \in InsertCalls
         /\ \E row \in KeyPackageRows :
              /\ keypackages' = keypackages \cup {row}
              /\ row.device_id = call[t].key /\ row.received_at = stamp[t]
              /\ row.bundle = call[t].bundle
              /\ \A r \in keypackages :
                   /\ r.rowid < row.rowid
                   /\ r.device_id # row.device_id \/ r.received_at # row.received_at
         /\ UNCHANGED <<call, stamp, now, acked>>
<1>1. Inserting(t) /\ UNCHANGED <<call, stamp, now, acked>>
  BY DEF insert, Autocommit, Finish, Inserting
<1>2. call[t] \in InsertCalls
  BY <1>1 DEF Inserting, TypeInv, TypeOK, CallTyped, Calls, UpsertCalls, PutCalls,
    InsertCalls, PruneCalls
<1>3. PICK id \in {1} \cup {r.rowid + 1 : r \in keypackages} :
        /\ \A r \in keypackages : r.rowid < id
        /\ keypackages' = keypackages \cup
             {[rowid |-> id, device_id |-> call[t].key,
               received_at |-> stamp[t], bundle |-> call[t].bundle]}
  BY DEF insert
<1>4. id \in Nat
  BY <1>3 DEF TypeInv, TypeOK, KeyPackageRows
<1> DEFINE row == [rowid |-> id, device_id |-> call[t].key,
                   received_at |-> stamp[t], bundle |-> call[t].bundle]
<1>5. row \in KeyPackageRows
  BY <1>2, <1>4 DEF TypeInv, TypeOK, InsertCalls, KeyPackageRows
<1>6. \A r \in keypackages : r.device_id # row.device_id \/ r.received_at # row.received_at
  BY DEF insert, sameKey, ofDevice
<1> QED
  BY <1>1, <1>2, <1>3, <1>5, <1>6

\* The key stays one, whoever is cancelled and whatever the clock does.
LEMMA PrimaryKeyStep ==
  TypeInv /\ PrimaryKey /\ [Next]_vars => PrimaryKey'
<1> SUFFICES ASSUME TypeInv, PrimaryKey, [Next]_vars PROVE PrimaryKey'
  OBVIOUS
<1>1. ASSUME NEW t \in Tasks, insert(t) PROVE PrimaryKey'
  <2>1. PICK row \in KeyPackageRows :
          /\ keypackages' = keypackages \cup {row}
          /\ \A r \in keypackages :
               r.device_id # row.device_id \/ r.received_at # row.received_at
    BY <1>1, InsertRow
  <2> QED
    BY <2>1 DEF PrimaryKey
<1>2. CASE keypackages' \subseteq keypackages
  BY <1>2 DEF PrimaryKey
<1>3. CASE pruneOld(Pruner) \/ pruneExcess(Pruner)
  BY <1>2, <1>3 DEF pruneOld, pruneExcess
<1> QED
  BY <1>1, <1>2, <1>3, RowsStep

-----------------------------------------------------------------------------
(* The order of a device's history.                                         *)

\* Reading the clock under the guard makes the next row the latest.
LEMMA OrderStep ==
  ASSUME Cancellable = {}, "clock" \notin Faults
  PROVE  TypeInv /\ MutexInv /\ StampInv /\ OrderInv /\ [Next]_vars => OrderInv'
<1> SUFFICES ASSUME TypeInv, MutexInv, StampInv, OrderInv, [Next]_vars PROVE OrderInv'
  OBVIOUS
<1>0. /\ now \in Nat /\ now' \in Nat /\ now <= now'
      /\ \A t \in Tasks : stamp[t] \in Nat /\ stamp[t] <= now
      /\ \A r \in keypackages : r.received_at \in Nat /\ r.rowid \in Nat
  BY ClockStep DEF TypeInv, TypeOK, KeyPackageRows, StampInv, StampsPast
<1>1. ASSUME NEW t \in Tasks, insert(t) PROVE OrderInv'
  <2>1. PICK row \in KeyPackageRows :
              /\ keypackages' = keypackages \cup {row}
              /\ row.device_id = call[t].key /\ row.received_at = stamp[t]
              /\ \A r \in keypackages :
                   /\ r.rowid < row.rowid
                   /\ r.device_id # row.device_id \/ r.received_at # row.received_at
    BY <1>1, InsertRow
  <2>2. \A r \in keypackages : r.received_at <= row.received_at
    BY <1>1, <2>1, InsertRow DEF OrderInv, InsertersLater
  <2>3. row.received_at \in Nat /\ row.rowid \in Nat
    BY DEF KeyPackageRows
  <2>4. PrimaryKey'
    BY PrimaryKeyStep DEF OrderInv
  <2>5. ReceivedPast'
    BY <1>0, <1>1, <2>1, InsertRow DEF ReceivedPast, OrderInv
  <2>6. InsertOrder'
    BY <1>0, <2>1, <2>2, <2>3 DEF InsertOrder, OrderInv
  <2>7. \A u \in Tasks : ~Inserting(u)'
    BY <1>1 DEF insert, Autocommit, Finish, Goto, Inserting, MutexInv, Guarded, TypeInv, TypeOK
  <2> QED
    BY <2>4, <2>5, <2>6, <2>7 DEF OrderInv, InsertersLater
<1>2. ASSUME keypackages' \subseteq keypackages PROVE OrderInv'
  <2>1. PrimaryKey' /\ InsertOrder'
    BY <1>2, PrimaryKeyStep DEF InsertOrder, OrderInv
  <2>2. ReceivedPast'
    BY <1>0, <1>2 DEF ReceivedPast, OrderInv
  <2>3. InsertersLater'
    BY <1>0, <1>2, InsertingStep DEF InsertersLater, ReceivedPast, OrderInv
  <2> QED
    BY <2>1, <2>2, <2>3 DEF OrderInv
<1>3. CASE pruneOld(Pruner) \/ pruneExcess(Pruner)
  BY <1>2, <1>3 DEF pruneOld, pruneExcess
<1> QED
  BY <1>1, <1>2, <1>3, RowsStep

\* GET /v0/keypackage serves the bundle inserted last: while no handler is
\* cancelled and the clock is not set back, timestamp order is insertion order,
\* through any number of prunes, errors and restarts.
THEOREM LatestInsertedServed ==
  ASSUME Cancellable = {}, "clock" \notin Faults PROVE Spec => []LatestIsLastInserted
<1>1. Init => OrderInv
  BY DEF Init, OrderInv, PrimaryKey, ReceivedPast, InsertersLater, InsertOrder
<1>2. TypeInv /\ OrderInv => LatestIsLastInserted
  <2> SUFFICES ASSUME TypeInv, OrderInv, NEW d \in Devices, NEW r \in latest(d),
                      NEW s \in ofDevice(d)
               PROVE  s.rowid <= r.rowid
    BY DEF LatestIsLastInserted
  <2>1. /\ r \in KeyPackageRows /\ s \in KeyPackageRows
        /\ r \in keypackages /\ s \in keypackages
        /\ r.device_id = d /\ s.device_id = d /\ s.received_at <= r.received_at
    BY DEF latest, ofDevice, TypeInv, TypeOK
  <2>2. s.received_at < r.received_at \/ s = r
    BY <2>1 DEF OrderInv, PrimaryKey, KeyPackageRows
  <2> QED
    BY <2>1, <2>2 DEF OrderInv, InsertOrder, KeyPackageRows
<1> QED
  BY <1>1, <1>2, TypeInit, TypeStep, MutexInit, MutexStep, SwapInit, SwapStep, StampInit,
    StampStep, OrderStep, PTL DEF Spec

-----------------------------------------------------------------------------
(* Acknowledged keypackages.                                                *)

\* A device's latest row has ROW_NUMBER 1.
LEMMA LatestIsFirst ==
  ASSUME TypeInv, NEW d, NEW r \in latest(d) PROVE rowNumber(r) = 1
<1>1. {s \in ofDevice(r.device_id) : s.received_at > r.received_at} = {}
  BY DEF latest, ofDevice, TypeInv, TypeOK, KeyPackageRows
<1>2. Cardinality({s \in ofDevice(r.device_id) : s.received_at > r.received_at}) = 0
  BY <1>1, FS_EmptySet, Zenon
<1> QED
  BY <1>2 DEF rowNumber

\* A device that still has rows still has a latest one: the first DELETE takes it
\* only with all others, the second never.
LEMMA LatestStep ==
  ASSUME max_per_identity # 0, TypeInv, HasLatest, [Next]_vars PROVE HasLatest'
<1> SUFFICES ASSUME NEW d \in Devices, ofDevice(d)' # {} PROVE latest(d)' # {}
  BY DEF HasLatest
<1>0. /\ \A r \in keypackages : r.received_at \in Nat
      /\ stamp[Pruner] \in Nat /\ max_per_identity \in Nat
  BY BoundsAssumption DEF TypeInv, TypeOK, KeyPackageRows, Tasks
<1>1. CASE UNCHANGED keypackages
  BY <1>1 DEF HasLatest, latest, ofDevice
<1>2. ASSUME NEW t \in Tasks, insert(t) PROVE latest(d)' # {}
  <2>1. PICK row \in KeyPackageRows : keypackages' = keypackages \cup {row}
    BY <1>2, InsertRow
  <2>2. row.received_at \in Nat
    BY DEF KeyPackageRows
  <2>3. CASE row.device_id # d
    BY <2>1, <2>3 DEF HasLatest, latest, ofDevice
  <2>4. CASE row.device_id = d /\ ofDevice(d) = {}
    <3>1. row \in latest(d)'
      BY <2>1, <2>2, <2>4 DEF latest, ofDevice
    <3> QED
      BY <3>1
  <2>5. CASE row.device_id = d /\ ofDevice(d) # {}
    <3>1. PICK l \in latest(d) : TRUE
      BY <2>5 DEF HasLatest
    <3>2. l \in latest(d)' \/ row \in latest(d)'
      BY <1>0, <2>1, <2>2, <2>5 DEF latest, ofDevice
    <3> QED
      BY <3>2
  <2> QED
    BY <2>3, <2>4, <2>5
<1>3. ASSUME pruneOld(Pruner) \/ pruneExcess(Pruner) PROVE latest(d)' # {}
  <2>1. keypackages' \subseteq keypackages
    BY <1>3 DEF pruneOld, pruneExcess
  <2>2. PICK l \in latest(d) : TRUE
    BY <2>1 DEF HasLatest, ofDevice
  <2>3. PICK k \in ofDevice(d)' : k \in ofDevice(d) /\ k.received_at <= l.received_at
    BY <2>1, <2>2 DEF latest, ofDevice
  <2>4. l \in keypackages'
    <3>1. CASE pruneOld(Pruner)
      BY <1>0, <2>2, <2>3, <3>1 DEF pruneOld, latest, ofDevice
    <3>2. CASE pruneExcess(Pruner)
      <4>1. ~(rowNumber(l) > max_per_identity)
        BY <1>0, <2>2, LatestIsFirst
      <4> QED
        BY <2>2, <3>2, <4>1 DEF pruneExcess, latest, ofDevice
    <3> QED
      BY <1>3, <3>1, <3>2
  <2>5. l \in latest(d)'
    BY <2>1, <2>2, <2>4 DEF latest, ofDevice
  <2> QED
    BY <2>5
<1>4. ASSUME keypackages' = {} PROVE latest(d)' # {}
  BY <1>4 DEF ofDevice
<1> QED
  BY <1>1, <1>2, <1>3, <1>4, RowsStep

\* Within its retention the first DELETE spares the row, and the second spares
\* the latest one, which is no older.
LEMMA HeldStep ==
  ASSUME Durable, "clock" \notin Faults, max_per_identity # 0,
         TypeInv, StampInv, HasLatest, [Next]_vars,
         NEW d \in Devices, NEW s \in Nat, Held(d, s)
  PROVE  Held(d, s)'
<1> USE BoundsAssumption
<1>0. /\ now \in Nat /\ now' \in Nat /\ now <= now'
      /\ \A r \in keypackages : r.received_at \in Nat
      /\ stamp[Pruner] \in Nat
  BY ClockStep DEF TypeInv, TypeOK, KeyPackageRows, Tasks
<1> SUFFICES ASSUME s + retention >= now' PROVE \E r \in ofDevice(d)' : r.received_at >= s
  BY DEF Held
<1>1. PICK r \in ofDevice(d) : r.received_at >= s
  BY <1>0 DEF Held
<1>2. CASE keypackages \subseteq keypackages'
  BY <1>1, <1>2 DEF ofDevice
<1>3. ASSUME NEW t \in Tasks, insert(t) PROVE keypackages \subseteq keypackages'
  BY <1>3 DEF insert
<1>4. CASE pruneOld(Pruner)
  <2>1. ~(r.received_at < stamp[Pruner])
    BY <1>0, <1>1, <1>4 DEF pruneOld, StampInv, CutoffPast, ofDevice
  <2> QED
    BY <1>1, <1>4, <2>1 DEF pruneOld, ofDevice
<1>5. CASE pruneExcess(Pruner)
  <2>1. PICK l \in latest(d) : TRUE
    BY <1>1 DEF HasLatest
  <2>2. ~(rowNumber(l) > max_per_identity)
    BY <2>1, LatestIsFirst
  <2>3. l \in ofDevice(d)' /\ l.received_at >= s
    BY <1>0, <1>1, <1>5, <2>1, <2>2 DEF pruneExcess, latest, ofDevice
  <2> QED
    BY <2>3
<1> QED
  BY <1>2, <1>3, <1>4, <1>5, RowsStep DEF Durable, Crash

\* A method that succeeds has its row in the table under its own timestamp.
LEMMA KeyPackageAckStep ==
  ASSUME Durable, "clock" \notin Faults, max_per_identity # 0
  PROVE  TypeInv /\ StampInv /\ KeyPackageAckInv /\ [Next]_vars => KeyPackageAckInv'
<1> SUFFICES ASSUME TypeInv, StampInv, KeyPackageAckInv, [Next]_vars PROVE KeyPackageAckInv'
  OBVIOUS
<1>0. TypeInv' /\ HasLatest /\ HasLatest'
  BY TypeStep, LatestStep DEF KeyPackageAckInv
<1>1. ASSUME NEW t \in Tasks, Succeeded(t)', call'[t].op = "insert"
      PROVE  Held(call[t].key, stamp[t])'
  <2>1. call'[t].key \in Devices /\ stamp'[t] \in Nat
    BY <1>0, <1>1 DEF Succeeded, TypeInv, TypeOK, CallTyped, Calls, InsertCalls,
      UpsertCalls, PutCalls, PruneCalls
  <2>2. CASE Succeeded(t) /\ UNCHANGED <<call[t], stamp[t]>>
    <3>1. PICK d \in Devices, s \in Nat :
            d = call[t].key /\ d = call'[t].key /\ s = stamp[t] /\ s = stamp'[t]
      BY <2>1, <2>2
    <3>2. Held(d, s)
      BY <1>1, <2>2, <3>1 DEF KeyPackageAckInv
    <3>3. Held(d, s)'
      BY <1>0, <3>2, HeldStep
    <3> QED
      BY <3>1, <3>3 DEF Held, ofDevice
  <2>3. CASE insert(t)
    <3>1. PICK row \in KeyPackageRows : /\ keypackages' = keypackages \cup {row}
                                        /\ row.device_id = call[t].key
                                        /\ row.received_at = stamp[t]
      BY <2>3, InsertRow
    <3>2. row \in ofDevice(call[t].key)' /\ row.received_at >= stamp'[t]
      BY <2>1, <2>3, <3>1, InsertRow DEF ofDevice
    <3> QED
      BY <3>2 DEF Held
  <2>4. ASSUME Statement(t) PROVE insert(t)
    <3>1. call[t].op = "insert"
      BY <1>1, <2>4 DEF Statement, insert, insertConflict, pruneOld, pruneExcess,
        prune_accounts, Select, Write, BeginWrite, WriteBusy, Commit, Rollback, Finish,
        Reset, Goto, Succeeded, TypeInv, TypeOK
    <3>2. ~insertConflict(t) /\ ~Rollback(t) /\ pc[t] \notin {"write", "commit"}
      BY <1>1, <3>1 DEF insertConflict, Rollback, Finish, Reset, Goto, Succeeded, TypeInv,
        TypeOK, Transacting, ReadsFirst
    <3> QED
      BY <2>4, <3>1, <3>2 DEF Statement, pruneOld, pruneExcess, prune_accounts, Autocommit,
        Select, Write, BeginWrite, WriteBusy, Commit, ReadsFirst
  <2> QED
    BY <1>1, <2>2, <2>3, <2>4, EarnedStep
<1>2. ASSUME NEW e \in acked', e.call.op = "insert" PROVE Held(e.call.key, e.stamp)'
  <2>1. PICK d \in Devices, s \in Nat : d = e.call.key /\ s = e.stamp
    BY <1>0, <1>2 DEF TypeInv, TypeOK, Calls, InsertCalls, UpsertCalls, PutCalls
  <2>2. Held(d, s)
    <3>1. CASE e \in acked
      BY <1>2, <2>1, <3>1 DEF KeyPackageAckInv
    <3>2. CASE \E t \in Tasks : Succeeded(t) /\ e = [call |-> call[t], stamp |-> stamp[t]]
      BY <1>2, <2>1, <3>2 DEF KeyPackageAckInv
    <3> QED
      BY <1>2, <3>1, <3>2, AckStep
  <2>3. Held(d, s)'
    BY <1>0, <2>2, HeldStep
  <2> QED
    BY <2>1, <2>3
<1> QED
  BY <1>0, <1>1, <1>2 DEF KeyPackageAckInv

\* A 204 for POST /v0/keypackage holds for a full retention: until then the
\* device is served a bundle received no earlier, whatever inserts, prunes,
\* cancellations, errors and restarts come after, as long as the clock is not
\* set back and the prune is configured to keep at least one row per device.
THEOREM AckedKeyPackagesServed ==
  ASSUME Durable, "clock" \notin Faults, max_per_identity # 0
  PROVE  Spec => []AckedKeyPackageServed
<1>1. Init => KeyPackageAckInv
  BY DEF Init, KeyPackageAckInv, HasLatest, ofDevice, Succeeded
<1>2. TypeInv /\ KeyPackageAckInv => AckedKeyPackageServed
  <2> SUFFICES ASSUME TypeInv, KeyPackageAckInv, NEW e \in acked,
                      e.call.op = "insert", e.stamp >= now - retention
               PROVE  \E r \in latest(e.call.key) : r.received_at >= e.stamp
    BY DEF AckedKeyPackageServed
  <2>1. /\ e.call.key \in Devices /\ e.stamp \in Nat /\ e.stamp + retention >= now
        /\ \A r \in keypackages : r.received_at \in Nat
    BY BoundsAssumption DEF TypeInv, TypeOK, Calls, InsertCalls, UpsertCalls, PutCalls,
      Time, KeyPackageRows
  <2>2. PICK r \in ofDevice(e.call.key) : r.received_at >= e.stamp
    BY <2>1 DEF KeyPackageAckInv, Held
  <2>3. PICK l \in latest(e.call.key) : TRUE
    BY <2>1, <2>2 DEF KeyPackageAckInv, HasLatest
  <2>4. l.received_at >= e.stamp
    BY <2>1, <2>2, <2>3 DEF latest, ofDevice
  <2> QED
    BY <2>4
<1> QED
  BY <1>1, <1>2, TypeInit, TypeStep, SwapInit, SwapStep, StampInit, StampStep,
    KeyPackageAckStep, PTL DEF Spec

-----------------------------------------------------------------------------
(* What a prune leaves.                                                     *)

\* Rows of one device have different ROW_NUMBERs.
LEMMA RankInjective ==
  ASSUME TypeInv, PrimaryKey, IsFiniteSet(keypackages),
         NEW r \in keypackages, NEW s \in keypackages, r # s, r.device_id = s.device_id
  PROVE  rowNumber(r) # rowNumber(s)
<1> DEFINE above(x) == {y \in ofDevice(x.device_id) : y.received_at > x.received_at}
<1>1. ASSUME NEW x \in keypackages, NEW y \in keypackages, x.device_id = y.device_id,
             x.received_at < y.received_at
      PROVE  Cardinality(above(x)) # Cardinality(above(y))
  <2>1. \A z \in keypackages : z.received_at \in Nat
    BY DEF TypeInv, TypeOK, KeyPackageRows
  <2>2. above(y) \subseteq above(x) /\ above(x) \subseteq keypackages /\ above(x) # above(y)
    BY <1>1, <2>1 DEF ofDevice
  <2> HIDE DEF above
  <2>3. IsFiniteSet(above(x))
    BY <2>2, FS_Subset
  <2> QED
    BY <2>2, <2>3, FS_Subset
<1>2. r.received_at < s.received_at \/ s.received_at < r.received_at
  BY DEF PrimaryKey, TypeInv, TypeOK, KeyPackageRows
<1>3. Cardinality(above(r)) # Cardinality(above(s))
  BY <1>1, <1>2
<1>4. /\ rowNumber(r) = 1 + Cardinality(above(r)) /\ rowNumber(s) = 1 + Cardinality(above(s))
      /\ above(r) \subseteq keypackages /\ above(s) \subseteq keypackages
  BY DEF rowNumber, ofDevice
<1> HIDE DEF above
<1>5. Cardinality(above(r)) \in Nat /\ Cardinality(above(s)) \in Nat
  BY <1>4, FS_Subset, FS_CardinalityType
<1> QED
  BY <1>3, <1>4, <1>5

\* The second DELETE leaves as many rows of a device as it has ROW_NUMBERs to give.
LEMMA ExcessBounds ==
  ASSUME TypeInv, PrimaryKey, IsFiniteSet(keypackages), pruneExcess(Pruner), NEW d
  PROVE  Cardinality(ofDevice(d)') <= max_per_identity
<1> DEFINE kept == ofDevice(d)'
           rank == [r \in kept |-> rowNumber(r)]
<1>1. \A r \in kept : r \in keypackages /\ r.device_id = d /\ ~(rowNumber(r) > max_per_identity)
  BY DEF pruneExcess, ofDevice
<1>2. \A r \in keypackages : rowNumber(r) \in Nat \ {0}
  <2>1. ASSUME NEW r \in keypackages
        PROVE  IsFiniteSet({y \in ofDevice(r.device_id) : y.received_at > r.received_at})
    BY FS_Subset DEF ofDevice
  <2> QED
    BY <2>1, FS_CardinalityType DEF rowNumber
<1>3. rank \in Injection(kept, 1 .. max_per_identity)
  <2>1. \A r \in kept : rowNumber(r) \in 1 .. max_per_identity
    BY <1>1, <1>2, BoundsAssumption
  <2>2. \A r, s \in kept : rowNumber(r) = rowNumber(s) => r = s
    BY <1>1, RankInjective
  <2> QED
    BY <2>1, <2>2 DEF Injection, IsInjective
<1>4. IsFiniteSet(1 .. max_per_identity) /\ Cardinality(1 .. max_per_identity) = max_per_identity
  BY FS_Interval, BoundsAssumption
<1> HIDE DEF kept, rank
<1>5. Cardinality(kept) <= max_per_identity
  BY <1>3, <1>4, FS_Injection
<1> QED
  BY <1>5 DEF kept

\* The prune task comes past a DELETE by executing it; while it is there, it
\* holds the guard and nobody else changes the rows.
LEMMA PrunerStep ==
  ASSUME Cancellable = {}, TypeInv, MutexInv, [Next]_vars, pc'[Pruner] = "excess" \/ Pruned'
  PROVE  \/ pruneOld(Pruner) /\ pc'[Pruner] = "excess"
         \/ pruneExcess(Pruner)
         \/ UNCHANGED <<pc[Pruner], call[Pruner], outcome[Pruner], stamp[Pruner], keypackages>>
<1> USE TasksAssumption DEF TypeInv, TypeOK, Pruned
<1> DEFINE Stays == UNCHANGED <<pc[Pruner], call[Pruner], outcome[Pruner], stamp[Pruner]>>
<1>0. Pruner \in Tasks
  BY DEF Tasks
<1>1. ASSUME NEW u \in Handlers, NEW c \in Calls, Submit(u, c) PROVE Stays
  BY <1>1 DEF Submit, Enter, Goto, Tasks
<1>2. ~PruneTick
  BY <1>0 DEF PruneTick, Enter, Goto
<1>3. ASSUME NEW u \in Tasks, Acquire(u) PROVE Stays
  BY <1>0, <1>3 DEF Acquire, TakeGuard, Goto
<1>4. ASSUME NEW u \in Tasks, u # Pruner, Statement(u) PROVE Stays
  <2>1. CASE insert(u) \/ insertConflict(u) \/ pruneOld(u)
    BY <1>0, <1>4, <2>1 DEF insert, insertConflict, pruneOld, Finish, Goto
  <2>2. CASE pruneExcess(u) \/ prune_accounts(u) \/ Select(u)
    BY <1>0, <1>4, <2>2 DEF pruneExcess, prune_accounts, Select, Finish, Goto
  <2>3. CASE Write(u) \/ WriteBusy(u) \/ Commit(u) \/ Rollback(u)
    BY <1>0, <1>4, <2>3 DEF Write, BeginWrite, WriteBusy, Commit, Rollback, Finish, Reset, Goto
  <2> QED
    BY <1>4, <2>1, <2>2, <2>3 DEF Statement
<1>5. ASSUME Statement(Pruner)
      PROVE  (pruneOld(Pruner) /\ pc'[Pruner] = "excess") \/ pruneExcess(Pruner)
  <2>1. ~insert(Pruner) /\ ~insertConflict(Pruner) /\ ~prune_accounts(Pruner)
    BY <1>0 DEF insert, insertConflict, prune_accounts, Autocommit, Finish, Goto
  <2>2. ~Select(Pruner) /\ ~Write(Pruner) /\ ~WriteBusy(Pruner) /\ ~Commit(Pruner)
    BY <1>0 DEF Select, Write, BeginWrite, WriteBusy, Commit, CallTyped, Transacting,
      PruneCalls, ReadsFirst
  <2>3. ~Rollback(Pruner)
    BY <1>0 DEF Rollback, Reset, Goto
  <2>4. ASSUME pruneOld(Pruner) PROVE pc'[Pruner] = "excess"
    BY <1>0, <2>4 DEF pruneOld, Goto
  <2> QED
    BY <1>5, <2>1, <2>2, <2>3, <2>4 DEF Statement
<1>6. ASSUME NEW u \in Tasks, BusyTimeout(u) \/ IoFault(u) PROVE Stays
  BY <1>0, <1>6 DEF BusyTimeout, IoFault, Finish, Goto
<1>7. ASSUME NEW u \in Tasks, Return(u) PROVE Stays
  BY <1>0, <1>7 DEF Return, Answer, Enter, Reset, Goto
<1>8. ASSUME NEW u \in Handlers, Cancel(u) PROVE Stays
  BY <1>8 DEF Cancel
<1>9. ~Crash
  BY <1>0 DEF Crash, ProcessEnds
<1>10. ASSUME Tick \/ ClockSetBack \/ UNCHANGED vars PROVE Stays
  BY <1>10 DEF Tick, ClockSetBack, vars, locals
<1>11. \/ pruneOld(Pruner) /\ pc'[Pruner] = "excess"
       \/ pruneExcess(Pruner)
       \/ Stays
  BY <1>1, <1>2, <1>3, <1>4, <1>5, <1>6, <1>7, <1>8, <1>9, <1>10 DEF Next
<1>12. ASSUME Stays, ~pruneOld(Pruner), ~pruneExcess(Pruner) PROVE UNCHANGED keypackages
  <2>1. pc[Pruner] \in Guarded
    BY <1>12 DEF Guarded
  <2>2. ASSUME NEW u \in Tasks, insert(u) PROVE FALSE
    BY <1>0, <2>1, <2>2 DEF insert, Autocommit, MutexInv, Guarded, CallTyped, PruneCalls
  <2> QED
    BY <1>9, <1>12, <2>2, RowsStep
<1>13. ASSUME pruneOld(Pruner) PROVE pc'[Pruner] = "excess"
  BY <1>0, <1>13 DEF pruneOld, Goto
<1> QED
  BY <1>11, <1>12, <1>13

\* The guard is held across both DELETEs, so the second finds what the first left.
LEMMA HistoryStep ==
  ASSUME Cancellable = {}
  PROVE  /\ TypeInv /\ MutexInv /\ MapInv /\ PrimaryKey /\ HistoryInv
         /\ [Next]_vars
         => HistoryInv'
<1> SUFFICES ASSUME TypeInv, MutexInv, MapInv, PrimaryKey, HistoryInv, [Next]_vars,
                    pc'[Pruner] = "excess" \/ Pruned'
             PROVE  /\ \A r \in keypackages' : r.received_at >= stamp'[Pruner]
                    /\ Pruned' => \A d \in Devices :
                         Cardinality(ofDevice(d)') <= max_per_identity
  BY DEF HistoryInv
<1>0. stamp[Pruner] \in Nat /\ \A r \in keypackages : r.received_at \in Nat
  BY DEF TypeInv, TypeOK, Tasks, KeyPackageRows
<1>1. CASE pruneOld(Pruner) /\ pc'[Pruner] = "excess"
  BY <1>0, <1>1 DEF pruneOld, Pruned
<1>2. CASE pruneExcess(Pruner)
  <2>1. /\ pc[Pruner] = "excess" /\ keypackages' \subseteq keypackages
        /\ stamp'[Pruner] = stamp[Pruner]
    BY <1>2 DEF pruneExcess, Autocommit, Finish
  <2> QED
    BY <1>2, <2>1, ExcessBounds DEF HistoryInv, MapInv
<1>3. CASE UNCHANGED <<pc[Pruner], call[Pruner], outcome[Pruner], stamp[Pruner], keypackages>>
  BY <1>3 DEF HistoryInv, Pruned, ofDevice
<1> QED
  BY <1>1, <1>2, <1>3, PrunerStep

\* When prune_key_packages returns Ok, no device has more than max_per_identity
\* rows and no row is older than its cutoff, although the two DELETEs are
\* separate transactions; while no handler is cancelled, whatever the clock does.
THEOREM PruneBounds ==
  ASSUME Cancellable = {} PROVE Spec => []PruneBoundsHistory
<1>1. Init => HistoryInv /\ PrimaryKey
  BY TasksAssumption DEF Init, HistoryInv, PrimaryKey, Pruned, Tasks
<1>2. HistoryInv => PruneBoundsHistory
  BY DEF HistoryInv, Pruned, PruneBoundsHistory
<1> QED
  BY <1>1, <1>2, TypeInit, TypeStep, MutexInit, MutexStep, MapInit, MapStep,
    PrimaryKeyStep, HistoryStep, PTL DEF Spec
=============================================================================
