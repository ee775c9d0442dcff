---------------------------- MODULE ResultProofs ----------------------------
(***************************************************************************)
(* What the clients of the process may rely on: theorems about ChatStore    *)
(* for every value of its constants.                                        *)
(***************************************************************************)
EXTENDS ChatStoreProofs

-----------------------------------------------------------------------------
(* Where the rows of the tables come from.                                  *)

\* The call of a genuine submission.
Vouched(c) ==
  \E s \in Submissions \cup Messages : s.kind \in Kinds /\ Genuine(s) /\ c = apply(s)

\* Every call in the store is one.
CallsVouched == \A t \in Handlers : pc[t] # "idle" => Vouched(call[t])

\* Steps of the store in which no submission enters.
Inner ==
  \/ PruneTick
  \/ \E t \in Tasks : Acquire(t) \/ Statement(t) \/ BusyTimeout(t) \/ Return(t) \/ IoFault(t)
  \/ \E t \in Handlers : Cancel(t)
  \/ ProcessEnds \/ Tick \/ ClockSetBack \/ UNCHANGED vars

\* A submission enters the store once it is admitted, and in no other way.
LEMMA EntersAdmitted ==
  ASSUME CallerTypes, [ServiceNext]_allVars
  PROVE  \/ Inner
         \/ \E t \in Handlers, s \in Submissions \cup Messages :
              s.kind \in Kinds /\ Genuine(s) /\ Serve(t, s) /\ Submit(t, apply(s))
<1>1. ASSUME NEW t \in Handlers, NEW s \in Submissions \cup Messages, s.kind \in Kinds, Serve(t, s)
      PROVE  Inner \/ (Genuine(s) /\ Submit(t, apply(s)))
  BY <1>1, AdmitsGenuine DEF Serve, Inner
<1>2. ASSUME NEW t \in Handlers, respond(t) \/ hangUp(t) PROVE Inner
  BY <1>2 DEF respond, hangUp, Inner, Tasks
<1>3. ASSUME Uncalled \/ Down PROVE Inner
  BY <1>3 DEF Uncalled, Down, Inner, Tasks
<1> QED
  BY <1>1, <1>2, <1>3, Occasions

\* Inside the store a task keeps the call it entered with.
LEMMA InnerKeepsCall ==
  ASSUME TypeInv, Inner, NEW t \in Handlers, pc'[t] # "idle"
  PROVE  pc[t] # "idle" /\ call'[t] = call[t]
<1> USE TasksAssumption DEF TypeInv, TypeOK, Tasks
<1>1. CASE PruneTick
  BY <1>1 DEF PruneTick, Enter, Goto
<1>2. ASSUME NEW u \in Tasks, Acquire(u) PROVE pc[t] # "idle" /\ call'[t] = call[t]
  BY <1>2 DEF Acquire, TakeGuard, Goto
<1>3. ASSUME NEW u \in Tasks, Statement(u) PROVE pc[t] # "idle" /\ call'[t] = call[t]
  <2>1. CASE insert(u) \/ insertConflict(u) \/ pruneOld(u)
    BY <2>1 DEF insert, insertConflict, pruneOld, Autocommit, Finish, Goto
  <2>2. CASE pruneExcess(u) \/ prune_accounts(u) \/ Select(u)
    BY <2>2 DEF pruneExcess, prune_accounts, Select, Autocommit, Finish, Goto
  <2>3. CASE Write(u) \/ WriteBusy(u) \/ Commit(u) \/ Rollback(u)
    BY <2>3 DEF Write, BeginWrite, WriteBusy, Commit, Rollback, Finish, Reset, Goto
  <2> QED
    BY <1>3, <2>1, <2>2, <2>3 DEF Statement
<1>4. ASSUME NEW u \in Tasks, BusyTimeout(u) \/ IoFault(u)
      PROVE  pc[t] # "idle" /\ call'[t] = call[t]
  BY <1>4 DEF BusyTimeout, IoFault, Finish, Goto
<1>5. ASSUME NEW u \in Tasks, Return(u) PROVE pc[t] # "idle" /\ call'[t] = call[t]
  <2>1. ASSUME u \in Handlers, pc[u] = "return" PROVE call[u] # [op |-> "prune_key_packages"]
    BY <2>1 DEF CallTyped, Calls, InsertCalls, UpsertCalls, PutCalls
  <2> QED
    BY <1>5, <2>1 DEF Return, Answer, Enter, Reset, Goto
<1>6. ASSUME NEW u \in Handlers, Cancel(u) PROVE pc[t] # "idle" /\ call'[t] = call[t]
  BY <1>6 DEF Cancel, Reset, Goto, locals
<1>7. CASE ProcessEnds
  BY <1>7 DEF ProcessEnds
<1>8. CASE Tick \/ ClockSetBack \/ UNCHANGED vars
  BY <1>8 DEF Tick, ClockSetBack, vars, locals
<1> QED
  BY <1>1, <1>2, <1>3, <1>4, <1>5, <1>6, <1>7, <1>8 DEF Inner

\* So the calls in the store stay vouched for.
LEMMA VouchedStep ==
  ASSUME TypeInv, CallerTypes, CallsVouched, [ServiceNext]_allVars PROVE CallsVouched'
<1> SUFFICES ASSUME NEW t \in Handlers, pc'[t] # "idle" PROVE Vouched(call'[t])
  BY DEF CallsVouched, Vouched
<1>1. CASE Inner
  BY <1>1, InnerKeepsCall DEF CallsVouched
<1>2. ASSUME NEW u \in Handlers, NEW s \in Submissions \cup Messages,
             s.kind \in Kinds, Genuine(s), Submit(u, apply(s))
      PROVE  Vouched(call'[t])
  <2>1. CASE u = t
    BY <1>2, <2>1 DEF Submit, Enter, Vouched, TypeInv, TypeOK, Tasks
  <2>2. CASE u # t
    BY <1>2, <2>2 DEF Submit, Enter, Goto, CallsVouched, TypeInv, TypeOK, Tasks
  <2> QED
    BY <2>1, <2>2
<1> QED
  BY <1>1, <1>2, EntersAdmitted

\* A row that was not there is the row of a call inside its method.
NewKeyPackage(r) ==
  \E t \in Handlers : /\ pc[t] # "idle" /\ call[t].op = "insert"
                      /\ r.device_id = call[t].key /\ r.bundle = call[t].bundle
NewBundle(a) ==
  \E t \in Handlers : /\ pc[t] # "idle" /\ call[t].op = "upsert_account"
                      /\ call[t].key = a /\ account_bundles'[a].payload = call[t].payload
NewLog(a) ==
  \E t \in Handlers : /\ pc[t] # "idle" /\ call[t].op = "put_account_log"
                      /\ call[t].key = a /\ account_logs'[a].signed_log = call[t].signed_log

\* Only insert and Commit add rows.
LEMMA RowSource ==
  ASSUME TypeInv, [Next]_vars
  PROVE  /\ \A r \in keypackages' : r \in keypackages \/ NewKeyPackage(r)
         /\ \A a \in Accounts : account_bundles'[a] \in {account_bundles[a], NoRow} \/ NewBundle(a)
         /\ \A a \in Accounts : account_logs'[a] \in {account_logs[a], NoRow} \/ NewLog(a)
<1> USE DEF TypeInv
<1>1. ASSUME NEW t \in Tasks, pc[t] # "idle", call[t].op \in {"insert"} \cup ReadsFirst
      PROVE  t \in Handlers
  BY <1>1 DEF CallTyped, PruneCalls, ReadsFirst, Tasks
<1>2. ASSUME NEW t \in Tasks, insert(t)
      PROVE  /\ \A r \in keypackages' : r \in keypackages \/ NewKeyPackage(r)
             /\ UNCHANGED <<account_bundles, account_logs>>
  <2>1. t \in Handlers /\ pc[t] # "idle" /\ call[t].op = "insert"
    BY <1>1, <1>2 DEF insert, Autocommit
  <2>2. \A r \in keypackages' :
          r \in keypackages \/ (r.device_id = call[t].key /\ r.bundle = call[t].bundle)
    BY <1>2 DEF insert
  <2> QED
    BY <1>2, <2>1, <2>2 DEF NewKeyPackage, insert
<1>3. ASSUME NEW t \in Tasks, Commit(t)
      PROVE  /\ UNCHANGED keypackages
             /\ \A a \in Accounts : account_bundles'[a] = account_bundles[a] \/ NewBundle(a)
             /\ \A a \in Accounts : account_logs'[a] = account_logs[a] \/ NewLog(a)
  <2>1. /\ t \in Handlers /\ pc[t] # "idle" /\ UNCHANGED keypackages
        /\ call[t].op = "upsert_account" \/ call[t].op = "put_account_log"
    BY <1>1, <1>3 DEF Commit, Transacting, ReadsFirst
  <2>2. CASE call[t].op = "upsert_account"
    BY <1>3, <2>1, <2>2 DEF Commit, TypeOK, NewBundle
  <2>3. CASE call[t].op = "put_account_log"
    BY <1>3, <2>1, <2>3 DEF Commit, TypeOK, NewLog
  <2> QED
    BY <2>1, <2>2, <2>3
<1>4. ASSUME NEW t \in Tasks, Statement(t), ~insert(t), ~Commit(t)
      PROVE  /\ keypackages' \subseteq keypackages
             /\ \A a \in Accounts : account_bundles'[a] \in {account_bundles[a], NoRow}
             /\ UNCHANGED account_logs
  BY <1>4 DEF Statement, insertConflict, pruneOld, pruneExcess, prune_accounts, Select,
    Write, BeginWrite, WriteBusy, Rollback, tables
<1>5. ASSUME Crash
      PROVE  /\ keypackages' \subseteq keypackages
             /\ \A a \in Accounts : /\ account_bundles'[a] \in {account_bundles[a], NoRow}
                                    /\ account_logs'[a] \in {account_logs[a], NoRow}
  BY <1>5 DEF Crash, ProcessEnds, tables
<1>6. ASSUME ~Crash, \A t \in Tasks : ~Statement(t)
      PROVE  UNCHANGED <<keypackages, account_bundles, account_logs>>
  BY <1>6 DEF Next, Submit, PruneTick, Acquire, TakeGuard, BusyTimeout, Return, Answer,
    IoFault, Cancel, Tick, ClockSetBack, vars, tables
<1>7. CASE \E t \in Tasks : insert(t)
  BY <1>2, <1>7
<1>8. CASE \E t \in Tasks : Commit(t)
  BY <1>3, <1>8
<1>9. CASE \E t \in Tasks : Statement(t) /\ ~insert(t) /\ ~Commit(t)
  BY <1>4, <1>9
<1> QED
  BY <1>5, <1>6, <1>7, <1>8, <1>9

\* Proof of possession as an invariant of the process.
AuthInv == TypeInv /\ CallerTypes /\ CallsVouched /\ OnlyAuthenticStored

\* What a vouched call stores was signed by the key it is stored under.
LEMMA VouchedCall ==
  ASSUME NEW c, Vouched(c)
  PROVE  \E s \in Submissions \cup Messages :
           /\ Genuine(s) /\ s.key = c.key
           /\ c.op = "insert" => s.kind = "keypackage" /\ s.payload = c.bundle
           /\ c.op = "upsert_account" => s.kind = "account" /\ s.payload = c.payload
           /\ c.op = "put_account_log" => s.kind = "log" /\ s.payload = c.signed_log
<1>1. PICK s \in Submissions \cup Messages : s.kind \in Kinds /\ Genuine(s) /\ c = apply(s)
  BY DEF Vouched
<1> QED
  BY <1>1 DEF apply, Kinds

\* No step of the process loses it.
LEMMA AuthStep ==
  ASSUME "crash" \in Faults, AuthInv, [ServiceNext]_allVars PROVE AuthInv'
<1> USE DEF AuthInv
<1>1. [Next]_vars
  BY ServiceStep DEF CallerTypes
<1>2. TypeInv' /\ CallerTypes' /\ CallsVouched'
  BY <1>1, TypeStep, CallerTypesStep, VouchedStep
<1> DEFINE Stored(kind, key, payload) ==
             \E s \in Submissions \cup Messages :
               s.kind = kind /\ s.key = key /\ s.payload = payload /\ Genuine(s)
<1>3. \A t \in Handlers : pc[t] # "idle" =>
        /\ call[t].op = "insert" => Stored("keypackage", call[t].key, call[t].bundle)
        /\ call[t].op = "upsert_account" => Stored("account", call[t].key, call[t].payload)
        /\ call[t].op = "put_account_log" => Stored("log", call[t].key, call[t].signed_log)
  BY VouchedCall DEF CallsVouched
<1>4. \A r \in keypackages' : Stored("keypackage", r.device_id, r.bundle)
  <2>1. \A r \in keypackages : Stored("keypackage", r.device_id, r.bundle)
    BY DEF OnlyAuthenticStored
  <2> HIDE DEF Stored
  <2> QED
    BY <1>1, <1>3, <2>1, RowSource DEF NewKeyPackage
<1>5. \A a \in Accounts : account_bundles'[a] # NoRow =>
        Stored("account", a, account_bundles'[a].payload)
  <2>1. \A a \in Accounts : account_bundles[a] # NoRow =>
          Stored("account", a, account_bundles[a].payload)
    BY DEF OnlyAuthenticStored
  <2> HIDE DEF Stored
  <2> QED
    BY <1>1, <1>3, <2>1, RowSource DEF NewBundle
<1>6. \A a \in Accounts : account_logs'[a] # NoRow =>
        Stored("log", a, account_logs'[a].signed_log)
  <2>1. \A a \in Accounts : account_logs[a] # NoRow =>
          Stored("log", a, account_logs[a].signed_log)
    BY DEF OnlyAuthenticStored
  <2> HIDE DEF Stored
  <2> QED
    BY <1>1, <1>3, <2>1, RowSource DEF NewLog
<1>7. OnlyAuthenticStored'
  BY <1>4, <1>5, <1>6 DEF OnlyAuthenticStored, Genuine
<1> QED
  BY <1>2, <1>7

\* Proof of possession, by either wire, through every interleaving, cancelled
\* handler and restart: what is stored under a key is what that key signed.
THEOREM OnlyAuthentic ==
  ASSUME "crash" \in Faults PROVE ServiceSpec => []OnlyAuthenticStored
<1>1. ServiceInit => AuthInv
  BY CallersAssumption, TypeInit DEF ServiceInit, AuthInv, CallerTypes, AnswerTypes, InboundType,
    CallsVouched, OnlyAuthenticStored, Init, Tasks
<1>2. AuthInv => OnlyAuthenticStored
  BY DEF AuthInv
<1> QED
  BY <1>1, <1>2, AuthStep, PTL DEF ServiceSpec

-----------------------------------------------------------------------------
(* What a result says of the tables, and how long it does.                  *)

\* The device list is stored, or a newer one is.
Fresh(c) ==
  /\ account_bundles[c.key] # NoRow
  /\ payload_lamport(account_bundles[c.key].payload) >= payload_lamport(c.payload)

\* The stored log goes on after the submitted one.
Beyond(c) == Extended(c) /\ c.signed_log # account_logs[c.key].signed_log

\* Neither of the stored log and the submitted one extends the other.
Forks(c) ==
  /\ account_logs[c.key] # NoRow
  /\ ~IsPrefix(c.signed_log, account_logs[c.key].signed_log)
  /\ ~IsPrefix(account_logs[c.key].signed_log, c.signed_log)

\* What the result r of the call c says.
Told(c, r) ==
  /\ c.op = "upsert_account" /\ r \in {"Ok", "Stale"} => Fresh(c)
  /\ c.op = "put_account_log" /\ r = "Ok" => Extended(c)
  /\ c.op = "put_account_log" /\ r = "Stale" => Beyond(c)
  /\ c.op = "put_account_log" /\ r = "Forked" => Forks(c)

\* The prune takes the account's row: the one step that may end what was said.
Taken(a) ==
  /\ prune_accounts(Pruner) /\ expired(a, stamp[Pruner])
  /\ account_bundles'[a] = NoRow

\* Two prefixes of one log: the shorter is a prefix of the longer.
LEMMA PrefixesCompare ==
  ASSUME NEW S, NEW s \in Seq(S), NEW t \in Seq(S), NEW u \in Seq(S),
         IsPrefix(s, u), IsPrefix(t, u)
  PROVE  IsPrefix(s, t) \/ IsPrefix(t, s)
  BY PrefixByElements

\* Logs that extend each other are the same log.
LEMMA PrefixAntisymmetric ==
  ASSUME NEW S, NEW s \in Seq(S), NEW t \in Seq(S), IsPrefix(s, t), IsPrefix(t, s)
  PROVE  s = t
<1>1. Len(s) = Len(t) /\ \A i \in 1 .. Len(s) : s[i] = t[i]
  BY PrefixByElements
<1> QED
  BY <1>1, SeqEqual

\* A fork stays a fork: the stored log only grows.
LEMMA ForksStep ==
  ASSUME Durable, SwapInv, [Next]_vars, NEW c \in PutCalls, Forks(c)
  PROVE  Forks(c)'
<1>1. c.key \in Accounts /\ c.signed_log \in Seq(Entries)
  BY DataAssumption DEF PutCalls
<1>2. account_logs[c.key] \in LogRows /\ account_logs'[c.key] \in LogRows \cup {NoRow}
  BY <1>1, TypeStep DEF Forks, SwapInv, TypeInv, TypeOK
<1>3. CASE account_logs'[c.key] = account_logs[c.key]
  BY <1>3 DEF Forks
<1>4. CASE account_logs'[c.key] # account_logs[c.key]
  <2>1. /\ account_logs'[c.key] # NoRow
        /\ IsPrefix(account_logs[c.key].signed_log, account_logs'[c.key].signed_log)
    BY <1>1, <1>4, LogStep DEF Forks, IsStrictPrefix
  <2>2. PICK old \in Seq(Entries), new \in Seq(Entries) :
          old = account_logs[c.key].signed_log /\ new = account_logs'[c.key].signed_log
    BY <1>2, <2>1, DataAssumption DEF LogRows
  <2>3. ~IsPrefix(c.signed_log, old) /\ ~IsPrefix(old, c.signed_log) /\ IsPrefix(old, new)
    BY <2>1, <2>2 DEF Forks
  <2>4. ~IsPrefix(c.signed_log, new)
    BY <1>1, <2>3, PrefixesCompare
  <2>5. ~IsPrefix(new, c.signed_log)
    BY <1>1, <2>3, PrefixTransitive
  <2> QED
    BY <2>1, <2>2, <2>4, <2>5 DEF Forks
<1> QED
  BY <1>3, <1>4

\* A log that went on after another still does.
LEMMA BeyondStep ==
  ASSUME Durable, SwapInv, [Next]_vars, NEW c \in PutCalls, Beyond(c)
  PROVE  Beyond(c)'
<1>1. c.key \in Accounts /\ c.signed_log \in Seq(Entries) /\ Extended(c)
  BY DataAssumption DEF PutCalls, Beyond
<1>2. Extended(c)'
  BY <1>1, ExtendedStep
<1>3. account_logs[c.key] \in LogRows /\ account_logs'[c.key] \in LogRows
  BY <1>1, <1>2, TypeStep DEF Extended, SwapInv, TypeInv, TypeOK
<1>4. CASE account_logs'[c.key] = account_logs[c.key]
  BY <1>2, <1>4 DEF Beyond
<1>5. CASE account_logs'[c.key] # account_logs[c.key]
  <2>1. IsPrefix(account_logs[c.key].signed_log, account_logs'[c.key].signed_log)
    BY <1>1, <1>5, LogStep DEF Extended, IsStrictPrefix
  <2>2. PICK old \in Seq(Entries), new \in Seq(Entries) :
          old = account_logs[c.key].signed_log /\ new = account_logs'[c.key].signed_log
    BY <1>3, DataAssumption DEF LogRows
  <2>3. IsPrefix(c.signed_log, old) /\ IsPrefix(old, new) /\ c.signed_log # old
    BY <1>1, <2>1, <2>2 DEF Beyond, Extended
  <2>4. c.signed_log # new
    BY <1>1, <2>3, PrefixAntisymmetric
  <2> QED
    BY <1>2, <2>2, <2>4 DEF Beyond
<1> QED
  BY <1>4, <1>5

\* A device list stays, makes way for a newer one, or is pruned.
LEMMA FreshStep ==
  ASSUME Durable, SwapInv, [Next]_vars, NEW c \in UpsertCalls, Fresh(c)
  PROVE  Fresh(c)' \/ Taken(c.key)
<1>1. /\ c.key \in Accounts /\ payload_lamport(c.payload) \in Nat
      /\ account_bundles \in [Accounts -> AccountRows \cup {NoRow}]
      /\ account_bundles' \in [Accounts -> AccountRows \cup {NoRow}]
  BY TypeStep, DataAssumption DEF UpsertCalls, SwapInv, TypeInv, TypeOK
<1>2. /\ account_bundles[c.key] # NoRow
      /\ payload_lamport(account_bundles[c.key].payload) >= payload_lamport(c.payload)
  BY DEF Fresh
<1>3. ASSUME account_bundles'[c.key] = NoRow PROVE Taken(c.key)
  <2>1. ASSUME NEW t \in Tasks, Statement(t) PROVE Taken(c.key)
    <3>1. CASE prune_accounts(t)
      <4>1. t = Pruner
        BY <3>1 DEF prune_accounts, Autocommit, SwapInv, TypeInv, CallTyped, Calls,
          InsertCalls, UpsertCalls, PutCalls, Tasks
      <4>2. expired(c.key, stamp[t])
        BY <1>1, <1>2, <1>3, <3>1 DEF prune_accounts
      <4> QED
        BY <1>3, <3>1, <4>1, <4>2 DEF Taken
    <3>2. CASE Commit(t)
      <4>1. /\ account_bundles'[c.key] \in {account_bundles[c.key],
                 [payload |-> call[t].payload, updated_at |-> stamp[t]]}
            /\ account_bundles'[c.key] # account_bundles[c.key] =>
                 call[t].op = "upsert_account"
        BY <1>1, <3>2 DEF Commit
      <4>2. call[t].op = "upsert_account" =>
              [payload |-> call[t].payload, updated_at |-> stamp[t]] \in AccountRows
        BY <3>2 DEF Commit, SwapInv, TypeInv, TypeOK, CallTyped, Calls, InsertCalls,
          UpsertCalls, PutCalls, PruneCalls, AccountRows
      <4> QED
        BY <1>2, <1>3, <4>1, <4>2, DataAssumption DEF AccountRows
    <3>3. CASE ~prune_accounts(t) /\ ~Commit(t)
      BY <1>2, <1>3, <2>1, <3>3 DEF Statement, insert, insertConflict, pruneOld, pruneExcess,
        Select, Write, BeginWrite, WriteBusy, Rollback, tables
    <3> QED
      BY <3>1, <3>2, <3>3
  <2>2. ~Crash
    BY <1>2, <1>3 DEF Crash, ProcessEnds, Durable, tables
  <2> QED
    BY <1>2, <1>3, <2>1, <2>2 DEF Next, Submit, PruneTick, Acquire, TakeGuard, BusyTimeout,
      Return, Answer, IoFault, Cancel, Tick, ClockSetBack, vars, tables
<1>4. CASE account_bundles'[c.key] = account_bundles[c.key]
  BY <1>2, <1>4 DEF Fresh
<1>5. CASE account_bundles'[c.key] # account_bundles[c.key] /\ account_bundles'[c.key] # NoRow
  <2>1. payload_lamport(account_bundles'[c.key].payload)
          > payload_lamport(account_bundles[c.key].payload)
    BY <1>1, <1>2, <1>5, BundleStep
  <2>2. /\ payload_lamport(account_bundles[c.key].payload) \in Nat
        /\ payload_lamport(account_bundles'[c.key].payload) \in Nat
    BY <1>1, <1>2, <1>5, DataAssumption DEF AccountRows
  <2> QED
    BY <1>1, <1>2, <1>5, <2>1, <2>2 DEF Fresh
<1> QED
  BY <1>3, <1>4, <1>5

\* What a caller has been told, or is about to be, stays true; of a device list
\* until the prune takes it.
LEMMA ToldStep ==
  ASSUME Durable, SwapInv, [Next]_vars, NEW c \in Calls, NEW r, Told(c, r)
  PROVE  Told(c, r)' \/ (c \in UpsertCalls /\ Taken(c.key))
<1>1. /\ c.op = "upsert_account" => c \in UpsertCalls
      /\ c.op = "put_account_log" => c \in PutCalls
  BY DEF Calls, InsertCalls, UpsertCalls, PutCalls
<1>2. CASE c.op = "upsert_account"
  BY <1>1, <1>2, FreshStep DEF Told
<1>3. CASE c.op = "put_account_log"
  BY <1>1, <1>3, ExtendedStep, BeyondStep, ForksStep DEF Told
<1>4. CASE c.op \notin ReadsFirst
  BY <1>4 DEF Told, ReadsFirst
<1> QED
  BY <1>2, <1>3, <1>4 DEF ReadsFirst

\* A method comes to its end by the SELECT that refuses, by the COMMIT, by an
\* error, or it does not read first; and keeps its outcome until it returns.
\* A handler that is gone stays gone meanwhile.
LEMMA AnswerStep ==
  ASSUME TypeInv, [Next]_vars, NEW t \in Handlers, pc'[t] = "return"
  PROVE  /\ call'[t] = call[t] /\ call[t] \in Calls
         /\ t \in dropped => t \in dropped'
         /\ \/ pc[t] = "return" /\ outcome'[t] = outcome[t]
            \/ /\ Select(t) /\ outcome'[t] = Verdict(call[t]) /\ Verdict(call[t]) # "Updated"
               /\ UNCHANGED <<tables, now>>
            \/ Commit(t)
            \/ outcome'[t] \in {"Busy", "Timeout", "Io"}
            \/ call[t].op \notin ReadsFirst
<1> USE TasksAssumption DEF TypeInv, TypeOK, Tasks
<1>0. ASSUME pc[t] # "idle" PROVE call[t] \in Calls
  BY <1>0 DEF CallTyped
<1>1. ASSUME NEW u \in Handlers, NEW c \in Calls, Submit(u, c)
      PROVE  pc[t] = "return" /\ call'[t] = call[t] /\ outcome'[t] = outcome[t]
  BY <1>1 DEF Submit, Enter, Goto
<1>2. ASSUME PruneTick PROVE pc[t] = "return" /\ call'[t] = call[t] /\ outcome'[t] = outcome[t]
  BY <1>2 DEF PruneTick, Enter, Goto
<1>3. ASSUME NEW u \in Tasks, Acquire(u)
      PROVE  pc[t] = "return" /\ call'[t] = call[t] /\ outcome'[t] = outcome[t]
  BY <1>3 DEF Acquire, TakeGuard, Goto
<1>4. ASSUME NEW u \in Tasks, Statement(u), u # t
      PROVE  pc[t] = "return" /\ call'[t] = call[t] /\ outcome'[t] = outcome[t]
  <2>1. CASE insert(u) \/ insertConflict(u) \/ pruneOld(u)
    BY <1>4, <2>1 DEF insert, insertConflict, pruneOld, Finish, Goto
  <2>2. CASE pruneExcess(u) \/ prune_accounts(u) \/ Select(u)
    BY <1>4, <2>2 DEF pruneExcess, prune_accounts, Select, Finish, Goto
  <2>3. CASE Write(u) \/ WriteBusy(u) \/ Commit(u) \/ Rollback(u)
    BY <1>4, <2>3 DEF Write, BeginWrite, WriteBusy, Commit, Rollback, Finish, Reset, Goto
  <2> QED
    BY <1>4, <2>1, <2>2, <2>3 DEF Statement
<1>5. ASSUME Statement(t)
      PROVE  /\ pc[t] # "idle" /\ call'[t] = call[t]
             /\ \/ /\ Select(t) /\ outcome'[t] = Verdict(call[t]) /\ Verdict(call[t]) # "Updated"
                   /\ UNCHANGED <<tables, now>>
                \/ Commit(t)
                \/ outcome'[t] = "Busy"
                \/ call[t].op \notin ReadsFirst
  <2>1. CASE insert(t) \/ insertConflict(t) \/ pruneOld(t) \/ pruneExcess(t) \/ prune_accounts(t)
    BY <2>1 DEF insert, insertConflict, pruneOld, pruneExcess, prune_accounts, Autocommit,
      Finish, Goto, ReadsFirst
  <2>2. CASE Select(t)
    BY <2>2 DEF Select, Finish, Goto
  <2>3. CASE Write(t) \/ WriteBusy(t) \/ Commit(t) \/ Rollback(t)
    BY <2>3 DEF Write, BeginWrite, WriteBusy, Commit, Rollback, Finish, Reset, Goto
  <2> QED
    BY <1>5, <2>1, <2>2, <2>3 DEF Statement
<1>6. ASSUME NEW u \in Tasks, BusyTimeout(u) \/ IoFault(u)
      PROVE  /\ pc[t] # "idle" /\ call'[t] = call[t]
             /\ \/ pc[t] = "return" /\ outcome'[t] = outcome[t]
                \/ outcome'[t] \in {"Timeout", "Io"}
  BY <1>6 DEF BusyTimeout, IoFault, Finish, Goto
<1>7. ASSUME NEW u \in Tasks, Return(u)
      PROVE  pc[t] = "return" /\ call'[t] = call[t] /\ outcome'[t] = outcome[t]
  BY <1>7 DEF Return, Answer, Enter, Reset, Goto
<1>8. ASSUME NEW u \in Handlers, Cancel(u)
      PROVE  pc[t] = "return" /\ call'[t] = call[t] /\ outcome'[t] = outcome[t]
  BY <1>8 DEF Cancel, Reset, Goto, locals
<1>9. ~Crash
  BY DEF Crash, ProcessEnds
<1>10. ASSUME Tick \/ ClockSetBack \/ UNCHANGED vars
       PROVE  pc[t] = "return" /\ call'[t] = call[t] /\ outcome'[t] = outcome[t]
  BY <1>10 DEF Tick, ClockSetBack, vars, locals
<1>11. t \in dropped => t \in dropped'
  <2>1. ASSUME NEW u \in Tasks, Return(u) \/ Rollback(u) PROVE u # t
    BY <2>1 DEF Return, Answer, Rollback, Enter, Reset, Goto
  <2>2. ASSUME NEW u \in Tasks, Statement(u), ~Rollback(u) PROVE UNCHANGED dropped
    BY <2>2 DEF Statement, insert, insertConflict, pruneOld, pruneExcess, prune_accounts, Select,
      Write, BeginWrite, WriteBusy, Commit, locks
  <2>3. ASSUME NEW u \in Tasks, Return(u) \/ Rollback(u) PROVE dropped' = dropped \ {u}
    BY <2>3 DEF Return, Answer, Rollback
  <2>4. ASSUME NEW u \in Handlers, Cancel(u) PROVE dropped \subseteq dropped'
    BY <2>4 DEF Cancel
  <2> QED
    BY <1>9, <2>1, <2>2, <2>3, <2>4 DEF Next, Submit, PruneTick, Acquire, TakeGuard, BusyTimeout,
      IoFault, Tick, ClockSetBack, vars, locks
<1> QED
  BY <1>0, <1>1, <1>2, <1>3, <1>4, <1>5, <1>6, <1>7, <1>8, <1>9, <1>10, <1>11 DEF Next

\* A task whose caller is still there holds the guard from the lock to its
\* return, so no prune comes between its last statement and its answer.
GuardInv ==
  /\ \A t \in Tasks \ dropped : pc[t] \in Guarded => write_lock = t
  /\ \A t \in dropped : pc[t] # "idle"

\* No step of another task takes the guard away.
LEMMA GuardStep == TypeInv /\ GuardInv /\ [Next]_vars => GuardInv'
<1> SUFFICES ASSUME TypeInv, GuardInv, [Next]_vars PROVE GuardInv'
  OBVIOUS
<1> USE TasksAssumption DEF TypeInv, TypeOK, GuardInv, Guarded, Tasks
<1>1. ASSUME NEW t \in Handlers, NEW c \in Calls, Submit(t, c) PROVE GuardInv'
  BY <1>1 DEF Submit, Enter, Goto, locks
<1>2. CASE PruneTick
  BY <1>2 DEF PruneTick, Enter, Goto, locks
<1>3. ASSUME NEW t \in Tasks, Acquire(t) PROVE GuardInv'
  BY <1>3 DEF Acquire, TakeGuard, Goto
<1>4. ASSUME NEW t \in Tasks, Statement(t) PROVE GuardInv'
  <2>1. CASE insert(t) \/ insertConflict(t) \/ pruneOld(t)
    BY <2>1 DEF insert, insertConflict, pruneOld, Autocommit, Finish, Goto, locks
  <2>2. CASE pruneExcess(t) \/ prune_accounts(t) \/ Select(t)
    BY <2>2 DEF pruneExcess, prune_accounts, Select, Autocommit, Finish, Goto
  <2>3. CASE Write(t) \/ WriteBusy(t) \/ Commit(t)
    BY <2>3 DEF Write, BeginWrite, WriteBusy, Commit, Finish, Goto
  <2>4. CASE Rollback(t)
    BY <2>4 DEF Rollback, Reset, Goto
  <2> QED
    BY <1>4, <2>1, <2>2, <2>3, <2>4 DEF Statement
<1>5. ASSUME NEW t \in Tasks, BusyTimeout(t) \/ IoFault(t) PROVE GuardInv'
  BY <1>5 DEF BusyTimeout, IoFault, Finish, Goto, locks
<1>6. ASSUME NEW t \in Tasks, Return(t) PROVE GuardInv'
  BY <1>6 DEF Return, Answer, DropGuard, Enter, Reset, Goto
<1>7. ASSUME NEW t \in Handlers, Cancel(t) PROVE GuardInv'
  BY <1>7 DEF Cancel, DropGuard, Reset, Goto, locals
<1>8. CASE Crash
  BY <1>8 DEF Crash, ProcessEnds
<1>9. CASE Tick \/ ClockSetBack \/ UNCHANGED vars
  BY <1>9 DEF Tick, ClockSetBack, vars, locks, locals
<1> QED
  BY <1>1, <1>2, <1>3, <1>4, <1>5, <1>6, <1>7, <1>8, <1>9 DEF Next

\* What a method is about to tell a caller who still waits is true.
ReturnTold ==
  \A t \in Handlers \ dropped : pc[t] = "return" => Told(call[t], result(outcome[t]))

\* A refusal of the SELECT says what the row it read says.
LEMMA RefusalTold ==
  ASSUME SwapInv, NEW c \in Calls, c.op \in ReadsFirst, Verdict(c) # "Updated"
  PROVE  Told(c, result(Verdict(c)))
<1>1. CASE c.op = "upsert_account"
  <2>1. /\ Verdict(c) = "Stale" /\ account_bundles[c.key] # NoRow
        /\ payload_lamport(c.payload) <= payload_lamport(account_bundles[c.key].payload)
    BY <1>1 DEF Verdict, upsert_account
  <2>2. /\ payload_lamport(c.payload) \in Nat
        /\ payload_lamport(account_bundles[c.key].payload) \in Nat
    BY <1>1, <2>1, DataAssumption DEF Calls, InsertCalls, UpsertCalls, PutCalls, AccountRows,
      SwapInv, TypeInv, TypeOK
  <2> QED
    BY <1>1, <2>1, <2>2 DEF Told, Fresh
<1>2. CASE c.op = "put_account_log"
  <2>1. /\ account_logs[c.key] # NoRow
        /\ Verdict(c) = freshness(account_logs[c.key].signed_log, c.signed_log)
    BY <1>2 DEF Verdict, put_account_log
  <2>2. PICK stored \in Seq(Entries), mine \in Seq(Entries) :
          stored = account_logs[c.key].signed_log /\ mine = c.signed_log
    BY <1>2, <2>1, DataAssumption DEF Calls, InsertCalls, UpsertCalls, PutCalls, LogRows,
      SwapInv, TypeInv, TypeOK
  <2>3. CASE mine = stored
    <3>1. Verdict(c) = "Identical"
      BY <2>1, <2>2, <2>3 DEF freshness, IsStrictPrefix
    <3>2. IsPrefix(mine, stored)
      BY <2>3, PrefixReflexive
    <3> QED
      BY <1>2, <2>1, <2>2, <3>1, <3>2 DEF Told, Extended, result
  <2>4. CASE mine # stored /\ IsPrefix(mine, stored)
    <3>1. ~IsPrefix(stored, mine)
      BY <2>4, PrefixAntisymmetric
    <3>2. Verdict(c) = "Behind"
      BY <2>1, <2>2, <2>4, <3>1 DEF freshness, IsStrictPrefix
    <3> QED
      BY <1>2, <2>1, <2>2, <2>4, <3>2 DEF Told, Beyond, Extended, result
  <2>5. CASE mine # stored /\ ~IsPrefix(mine, stored)
    <3>1. ~IsPrefix(stored, mine) /\ Verdict(c) = "Diverged"
      BY <2>1, <2>2, <2>5 DEF freshness, IsStrictPrefix
    <3> QED
      BY <1>2, <2>1, <2>2, <2>5, <3>1 DEF Told, Forks, result
  <2> QED
    BY <2>3, <2>4, <2>5
<1> QED
  BY <1>1, <1>2 DEF ReadsFirst

\* A COMMIT stores what it reports stored.
LEMMA CommitTold ==
  ASSUME SwapInv, NEW t \in Handlers, call[t] \in Calls, Commit(t)
  PROVE  outcome'[t] = "Updated" /\ Told(call[t], "Ok")'
<1> USE DEF SwapInv, TypeInv, TypeOK, Tasks
<1>1. /\ call' = call /\ call[t].op \in ReadsFirst
      /\ outcome'[t] = "Updated"
  BY DEF Commit, Finish, Transacting
<1>2. CASE call[t].op = "upsert_account"
  <2>1. call[t].key \in Accounts /\ call[t].payload \in AccountPayloads
    BY <1>2 DEF Calls, InsertCalls, UpsertCalls, PutCalls
  <2>2. account_bundles'[call[t].key] = [payload |-> call[t].payload, updated_at |-> stamp[t]]
    BY <1>2, <2>1 DEF Commit
  <2>3. account_bundles'[call[t].key] \in AccountRows /\ payload_lamport(call[t].payload) \in Nat
    BY <2>1, <2>2, DataAssumption DEF AccountRows
  <2> QED
    BY <1>1, <1>2, <2>2, <2>3, DataAssumption DEF Told, Fresh, AccountRows
<1>3. CASE call[t].op = "put_account_log"
  <2>1. call[t].key \in Accounts /\ call[t].signed_log \in Logs
    BY <1>3 DEF Calls, InsertCalls, UpsertCalls, PutCalls
  <2>2. account_logs'[call[t].key] = [signed_log |-> call[t].signed_log, updated_at |-> stamp[t]]
    BY <1>3, <2>1 DEF Commit
  <2>3. account_logs'[call[t].key] \in LogRows /\ IsPrefix(call[t].signed_log, call[t].signed_log)
    BY <2>1, <2>2, PrefixReflexive, DataAssumption DEF LogRows
  <2> QED
    BY <1>1, <1>3, <2>2, <2>3, DataAssumption DEF Told, Extended, LogRows
<1> QED
  BY <1>1, <1>2, <1>3 DEF ReadsFirst

\* Every step keeps what is about to be returned true.
LEMMA ReturnToldStep ==
  ASSUME Durable, SwapInv, GuardInv, ReturnTold, [Next]_vars PROVE ReturnTold'
<1> SUFFICES ASSUME NEW t \in Handlers, t \notin dropped', pc'[t] = "return"
             PROVE  Told(call[t], result(outcome[t]))'
  BY DEF ReturnTold
<1>0. TypeInv
  BY DEF SwapInv
<1>1. call'[t] = call[t] /\ call[t] \in Calls /\ t \notin dropped
  BY <1>0, AnswerStep
<1>2. CASE pc[t] = "return" /\ outcome'[t] = outcome[t]
  <2>1. PICK c \in Calls, r \in {result(outcome[t])} : c = call[t] /\ Told(c, r)
    BY <1>1, <1>2 DEF ReturnTold
  <2>2. ~Taken(c.key)
    BY <1>0, <1>1, <1>2, TasksAssumption DEF Taken, prune_accounts, Autocommit, GuardInv, Guarded,
      TypeInv, TypeOK, Tasks
  <2>3. Told(c, r)'
    BY <2>1, <2>2, ToldStep
  <2> QED
    BY <1>1, <1>2, <2>1, <2>3
<1>3. CASE /\ Select(t) /\ outcome'[t] = Verdict(call[t]) /\ Verdict(call[t]) # "Updated"
           /\ UNCHANGED <<tables, now>>
  <2>1. Told(call[t], result(Verdict(call[t])))
    BY <1>1, <1>3, RefusalTold DEF Select
  <2> QED
    BY <1>1, <1>3, <2>1 DEF Told, Fresh, Beyond, Extended, Forks, tables
<1>4. CASE Commit(t)
  BY <1>1, <1>4, CommitTold DEF result, Told
<1>5. CASE outcome'[t] \in {"Busy", "Timeout", "Io"} \/ call[t].op \notin ReadsFirst
  BY <1>1, <1>5 DEF Told, result, ReadsFirst
<1> QED
  BY <1>0, <1>2, <1>3, <1>4, <1>5, AnswerStep

-----------------------------------------------------------------------------
(* The callers.                                                             *)

\* A caller waits for the method that its genuine submission entered.
RequestInv ==
  \A t \in Handlers : request[t] # None =>
    /\ t \notin dropped /\ pc[t] \notin {"idle", "rollback"}
    /\ request[t].kind \in Kinds /\ Genuine(request[t])
    /\ call[t] = apply(request[t])

\* A caller is told 400 of what is not genuine, and of nothing else.
RepliesTyped ==
  \A t \in Handlers : reply[t] # None =>
    /\ reply[t].of.kind \in Kinds
    /\ status(reply[t].result) = 400 <=> ~Genuine(reply[t].of)

\* In the store a task whose caller waits stays in its method.
LEMMA UncalledStays ==
  ASSUME TypeInv, Uncalled, NEW t \in Handlers, pc[t] \notin {"idle", "rollback"}
  PROVE  /\ pc'[t] \notin {"idle", "rollback"} /\ call'[t] = call[t]
         /\ dropped' \subseteq dropped
<1> USE TasksAssumption DEF TypeInv, TypeOK, Tasks
<1>1. pc'[t] \notin {"idle", "rollback"}
  <2>1. CASE PruneTick
    BY <2>1 DEF PruneTick, Enter, Goto
  <2>2. CASE Return(Pruner)
    BY <2>2 DEF Return, Answer, Enter, Reset, Goto
  <2>3. ASSUME NEW u \in Tasks, Acquire(u) \/ BusyTimeout(u) \/ IoFault(u)
        PROVE  pc'[t] \notin {"idle", "rollback"}
    BY <2>3 DEF Acquire, TakeGuard, BusyTimeout, IoFault, Finish, Goto
  <2>4. ASSUME NEW u \in Tasks, Statement(u) PROVE pc'[t] \notin {"idle", "rollback"}
    <3>1. CASE insert(u) \/ insertConflict(u) \/ pruneOld(u) \/ pruneExcess(u) \/ prune_accounts(u)
      BY <3>1 DEF insert, insertConflict, pruneOld, pruneExcess, prune_accounts, Finish, Goto
    <3>2. CASE Select(u) \/ Write(u) \/ WriteBusy(u) \/ Commit(u) \/ Rollback(u)
      BY <3>2 DEF Select, Write, BeginWrite, WriteBusy, Commit, Rollback, Finish, Reset, Goto
    <3> QED
      BY <2>4, <3>1, <3>2 DEF Statement
  <2>5. CASE Tick \/ ClockSetBack \/ UNCHANGED vars
    BY <2>5 DEF Tick, ClockSetBack, vars, locals
  <2> QED
    BY <2>1, <2>2, <2>3, <2>4, <2>5 DEF Uncalled
<1>2. Inner
  BY DEF Uncalled, Inner
<1>3. dropped' \subseteq dropped
  <2>1. ASSUME NEW u \in Tasks, Statement(u) PROVE dropped' \subseteq dropped
    BY <2>1 DEF Statement, insert, insertConflict, pruneOld, pruneExcess, prune_accounts, Select,
      Write, BeginWrite, WriteBusy, Commit, Rollback, locks
  <2> QED
    BY <2>1 DEF Uncalled, PruneTick, Return, Answer, Acquire, TakeGuard, BusyTimeout, IoFault,
      Tick, ClockSetBack, vars, locks
<1> QED
  BY <1>1, <1>2, <1>3, InnerKeepsCall

\* No step takes a method from under its caller.
LEMMA RequestStep ==
  ASSUME TypeInv, CallerTypes, GuardInv, RequestInv, [ServiceNext]_allVars PROVE RequestInv'
<1> SUFFICES ASSUME NEW t \in Handlers, request'[t] # None
             PROVE  /\ t \notin dropped' /\ pc'[t] \notin {"idle", "rollback"}
                    /\ request'[t].kind \in Kinds /\ Genuine(request'[t])
                    /\ call'[t] = apply(request'[t])
  BY DEF RequestInv, Genuine
<1> USE TasksAssumption DEF TypeInv, TypeOK, Tasks, CallerTypes, AnswerTypes
<1>1. CASE Uncalled /\ UNCHANGED <<request, reply>>
  BY <1>1, UncalledStays DEF RequestInv
<1>2. ASSUME NEW u \in Handlers, NEW s \in Submissions \cup Messages, s.kind \in Kinds, Serve(u, s)
      PROVE  /\ t \notin dropped' /\ pc'[t] \notin {"idle", "rollback"}
             /\ request'[t].kind \in Kinds /\ Genuine(request'[t])
             /\ call'[t] = apply(request'[t])
  <2>1. CASE Submit(u, apply(s)) /\ Genuine(s) /\ request' = [request EXCEPT ![u] = s]
    <3>1. CASE u = t
      BY <1>2, <2>1, <3>1 DEF Submit, Enter, Goto, GuardInv, locks
    <3>2. CASE u # t
      BY <2>1, <3>2 DEF Submit, Enter, Goto, RequestInv, locks
    <3> QED
      BY <3>1, <3>2
  <2>2. CASE UNCHANGED <<vars, request>>
    BY <2>2 DEF vars, locals, locks, RequestInv
  <2> QED
    BY <1>2, <2>1, <2>2, AdmitsGenuine DEF Serve
<1>3. ASSUME NEW u \in Handlers, respond(u) \/ hangUp(u)
      PROVE  /\ u # t /\ request'[t] = request[t] /\ pc'[t] = pc[t] /\ call'[t] = call[t]
             /\ t \in dropped' => t \in dropped
  <2>1. u # t /\ request'[t] = request[t]
    BY <1>3 DEF respond, hangUp
  <2>2. CASE Return(u)
    BY <2>1, <2>2 DEF Return, Answer, Enter, Reset, Goto
  <2>3. CASE Cancel(u)
    BY <2>1, <2>3 DEF Cancel, Reset, Goto, locals
  <2> QED
    BY <1>3, <2>1, <2>2, <2>3 DEF respond, hangUp
<1>4. ~Down
  BY DEF Down
<1> QED
  BY <1>1, <1>2, <1>3, <1>4, Occasions DEF RequestInv

\* The invariant of the answers.
HonestInv ==
  /\ SwapInv /\ StampInv /\ CallerTypes
  /\ GuardInv /\ ReturnTold /\ RequestInv /\ RepliesTyped

\* The last answer of t is what its result says of the tables.
Said(t) == reply[t] # None /\ Genuine(reply[t].of) => Told(apply(reply[t].of), reply[t].result)

\* A new answer is of the right code, and says what the store method returned.
LEMMA NewReply ==
  ASSUME HonestInv, [ServiceNext]_allVars, NEW t \in Handlers,
         reply'[t] # reply[t], reply'[t] # None
  PROVE  /\ reply'[t].of.kind \in Kinds
         /\ status(reply'[t].result) = 400 <=> ~Genuine(reply'[t].of)
         /\ Said(t)'
<1> USE DEF HonestInv, CallerTypes, AnswerTypes
<1>1. ASSUME NEW u \in Handlers, NEW s \in Submissions \cup Messages, s.kind \in Kinds, Serve(u, s)
      PROVE  /\ reply'[t].of \in Submissions \cup Messages
             /\ reply'[t].of.kind \in Kinds
             /\ status(reply'[t].result) = 400 /\ ~Genuine(reply'[t].of)
  <2>1. /\ reply'[t] = [of |-> s, result |-> admit(s)]
        /\ admit(s) \in Refusals /\ ~Genuine(s)
    BY <1>1, AdmitsGenuine DEF Serve, Replied
  <2> QED
    BY <1>1, <2>1 DEF status, Refusals
<1>2. ASSUME NEW u \in Handlers, respond(u)
      PROVE  /\ reply'[t].of.kind \in Kinds
             /\ status(reply'[t].result) # 400 /\ Genuine(reply'[t].of)
             /\ Told(apply(reply[t].of), reply[t].result)'
  <2>1. u = t /\ request[t] # None
    BY <1>2 DEF respond, Replied
  <2>2. /\ reply'[t] = [of |-> request[t], result |-> result(outcome[t])]
        /\ pc[t] = "return" /\ UNCHANGED <<tables, now>>
    BY <1>2, <2>1 DEF respond, Replied, Return, Answer
  <2>3. /\ request[t].kind \in Kinds /\ Genuine(request[t])
        /\ Told(apply(request[t]), result(outcome[t]))
    BY <2>1, <2>2 DEF RequestInv, ReturnTold
  <2>4. status(result(outcome[t])) # 400
    BY DEF status, result
  <2>5. Told(apply(reply[t].of), reply[t].result)'
    BY <2>2, <2>3 DEF Told, Fresh, Beyond, Extended, Forks, tables
  <2> QED
    BY <2>2, <2>3, <2>4, <2>5
<1>3. ASSUME NEW u \in Handlers, hangUp(u) PROVE FALSE
  BY <1>3 DEF hangUp
<1>4. ~Down
  BY DEF Down
<1> QED
  BY <1>1, <1>2, <1>3, <1>4, Occasions DEF Said, Genuine

\* Every step keeps the codes right.
LEMMA RepliesStep ==
  ASSUME HonestInv, [ServiceNext]_allVars PROVE RepliesTyped'
<1> SUFFICES ASSUME NEW t \in Handlers, reply'[t] # None
             PROVE  /\ reply'[t].of.kind \in Kinds
                    /\ status(reply'[t].result) = 400 <=> ~Genuine(reply'[t].of)
  BY DEF RepliesTyped, Genuine
<1> QED
  BY NewReply DEF HonestInv, RepliesTyped

\* What the README's codes say is what the answers say of the tables.
LEMMA SaidIsHeld == HonestInv => \A t \in Handlers : AnswerHolds(t) <=> Said(t)
<1> SUFFICES ASSUME HonestInv, NEW t \in Handlers, reply[t] # None
             PROVE  AnswerHolds(t) <=> Said(t)
  BY DEF AnswerHolds, Said
<1> DEFINE s == reply[t].of
           r == reply[t].result
<1>1. /\ s \in Submissions \cup Messages /\ s.kind \in Kinds
      /\ status(r) = 400 <=> ~Genuine(s)
      /\ Said(t) <=> (Genuine(s) => Told(apply(s), r))
      /\ AnswerHolds(t) <=>
           /\ s.kind = "account" /\ r \in {"Ok", "Stale"} =>
                /\ account_bundles[s.key] # NoRow
                /\ payload_lamport(account_bundles[s.key].payload) >= payload_lamport(s.payload)
           /\ s.kind = "log" /\ r \in {"Ok", "Stale", "Forked"} =>
                /\ fetch_account_log(s) # NoRow
                /\ IsPrefix(s.payload, fetch_account_log(s).signed_log) <=> r # "Forked"
                /\ r = "Stale" => s.payload # fetch_account_log(s).signed_log
                /\ ~IsStrictPrefix(fetch_account_log(s).signed_log, s.payload)
  BY DEF HonestInv, RepliesTyped, CallerTypes, AnswerTypes, AnswerHolds, Said
<1> HIDE DEF s, r
<1>2. CASE ~Genuine(s)
  BY <1>1, <1>2 DEF status
<1>3. CASE Genuine(s) /\ s.kind = "keypackage"
  BY <1>1, <1>3 DEF Told, apply
<1>4. CASE Genuine(s) /\ s.kind = "account"
  BY <1>1, <1>4 DEF Told, Fresh, apply
<1>5. CASE Genuine(s) /\ s.kind = "log"
  <2> DEFINE row == account_logs[s.key]
  <2>1. fetch_account_log(s) = row
    BY <1>5 DEF Genuine, fetch_account_log, parse_addr, Check, get_account_log
  <2>2. /\ apply(s) = [op |-> "put_account_log", key |-> s.key, signed_log |-> s.payload]
        /\ apply(s) \in Calls
    BY <1>1, <1>5, AdmitsGenuine, AdmittedAssumption DEF apply
  <2>3. Said(t) <=> /\ r \in {"Ok", "Stale"} => row # NoRow /\ IsPrefix(s.payload, row.signed_log)
                    /\ r = "Stale" => s.payload # row.signed_log
                    /\ r = "Forked" => /\ row # NoRow
                                       /\ ~IsPrefix(s.payload, row.signed_log)
                                       /\ ~IsPrefix(row.signed_log, s.payload)
    BY <1>1, <1>5, <2>2 DEF Told, Extended, Beyond, Forks
  <2>4. AnswerHolds(t) <=>
          (r \in {"Ok", "Stale", "Forked"} =>
             /\ row # NoRow
             /\ IsPrefix(s.payload, row.signed_log) <=> r # "Forked"
             /\ r = "Stale" => s.payload # row.signed_log
             /\ ~IsStrictPrefix(row.signed_log, s.payload))
    BY <1>1, <1>5, <2>1
  <2>5. ASSUME row # NoRow
        PROVE  s.payload \in Seq(Entries) /\ row.signed_log \in Seq(Entries)
    BY <2>2, <2>5, DataAssumption DEF Calls, InsertCalls, UpsertCalls, PutCalls, LogRows,
      HonestInv, SwapInv, TypeInv, TypeOK
  <2>6. ASSUME row # NoRow
        PROVE  ~IsStrictPrefix(row.signed_log, s.payload)
                 <=> (IsPrefix(row.signed_log, s.payload) => IsPrefix(s.payload, row.signed_log))
    BY <2>5, <2>6, PrefixAntisymmetric, PrefixReflexive DEF IsStrictPrefix
  <2> HIDE DEF row
  <2> QED
    BY <2>3, <2>4, <2>6
<1> QED
  BY <1>1, <1>2, <1>3, <1>4, <1>5 DEF Kinds

\* An answer stays true; of a device list, until the prune takes a row past
\* its retention.
LEMMA SaidStep ==
  ASSUME Durable, HonestInv, [Next]_vars, [ServiceNext]_allVars, NEW t \in Handlers
  PROVE  \/ Said(t)'
         \/ /\ reply'[t] = reply[t]
            /\ Said(t) => reply[t].of.kind = "account" /\ Lapses(reply[t].of.key)
<1>1. CASE reply'[t] # reply[t]
  BY <1>1, NewReply DEF Said
<1>2. CASE reply'[t] = reply[t] /\ Said(t) /\ reply[t] # None /\ Genuine(reply[t].of)
  <2>1. PICK s \in Submissions \cup Messages, r \in {reply[t].result} :
          s = reply[t].of /\ s.kind \in Kinds /\ Genuine(s) /\ Told(apply(s), r)
    BY <1>2 DEF Said, HonestInv, RepliesTyped, CallerTypes, AnswerTypes
  <2>2. PICK c \in Calls : c = apply(s)
    BY <2>1, AdmitsGenuine, AdmittedAssumption
  <2>3. CASE Told(c, r)'
    BY <1>2, <2>1, <2>2, <2>3 DEF Said
  <2>4. CASE c \in UpsertCalls /\ Taken(c.key)
    <3>1. s.kind = "account" /\ c.key = s.key
      BY <2>1, <2>2, <2>4 DEF UpsertCalls, apply, Kinds
    <3>2. expired(c.key, now - retention)
      <4>1. /\ account_bundles[c.key] \in AccountRows
            /\ account_bundles[c.key].updated_at < stamp[Pruner]
        BY <2>4 DEF Taken, expired, UpsertCalls, HonestInv, SwapInv, TypeInv, TypeOK
      <4>2. /\ account_bundles[c.key].updated_at \in Nat /\ account_bundles[c.key] # NoRow
            /\ stamp[Pruner] \in Nat /\ now \in Nat /\ retention \in Nat
        BY <2>4, <4>1, BoundsAssumption DEF AccountRows, Taken, expired, HonestInv, SwapInv,
          TypeInv, TypeOK, Tasks, Time
      <4>3. stamp[Pruner] + retention <= now
        BY <4>1, <4>2 DEF HonestInv, StampInv, CutoffPast
      <4> QED
        BY <4>1, <4>2, <4>3 DEF expired
    <3> QED
      BY <1>2, <2>1, <2>4, <3>1, <3>2 DEF Lapses, Taken
  <2> QED
    BY <2>1, <2>2, <2>3, <2>4, ToldStep DEF HonestInv
<1>3. CASE reply'[t] = reply[t] /\ Said(t) /\ ~(reply[t] # None /\ Genuine(reply[t].of))
  BY <1>3 DEF Said, Genuine
<1> QED
  BY <1>1, <1>2, <1>3

\* The status codes of the README are true when they are given and stay true,
\* with a database file and a clock that is not set back, for any number of
\* handlers and submissions, by HTTP or by the network, through failing
\* statements, cancelled requests and restarts: 400 is for what is not genuine,
\* 204 and 409 say what is stored.  What they say of a log is for ever; of a
\* device list only the prune ends it, and only past its retention.
THEOREM AnswersHonest ==
  ASSUME "crash" \in Faults, ~is_memory, "clock" \notin Faults
  PROVE  ServiceSpec => ResultsHonest
<1>1. ServiceInit => HonestInv
  BY CallersAssumption, SwapInit, StampInit DEF ServiceInit, HonestInv, CallerTypes, AnswerTypes,
    InboundType, GuardInv, Guarded, ReturnTold, RequestInv, RepliesTyped, Init, Tasks
<1>2. HonestInv /\ [ServiceNext]_allVars => HonestInv'
  <2> SUFFICES ASSUME HonestInv, [ServiceNext]_allVars PROVE HonestInv'
    OBVIOUS
  <2>1. Durable /\ SwapInv /\ TypeInv /\ CallerTypes /\ InboundType
    BY DEF Durable, HonestInv, SwapInv, CallerTypes
  <2>2. [Next]_vars
    BY <2>1, ServiceStep
  <2> QED
    BY <2>1, <2>2, SwapStep, StampStep, CallerTypesStep, GuardStep, ReturnToldStep, RequestStep,
      RepliesStep DEF HonestInv
<1>3. HonestInv /\ HonestInv' /\ [ServiceNext]_allVars =>
        [\A t \in Handlers :
           AnswerHolds(t)' \/ /\ reply'[t] = reply[t]
                              /\ AnswerHolds(t) => /\ reply[t].of.kind = "account"
                                                   /\ Lapses(reply[t].of.key)]_allVars
  <2> SUFFICES ASSUME HonestInv, [ServiceNext]_allVars, NEW t \in Handlers,
                      AnswerHolds(t) <=> Said(t), AnswerHolds(t)' <=> Said(t)'
               PROVE  AnswerHolds(t)' \/ /\ reply'[t] = reply[t]
                                         /\ AnswerHolds(t) => /\ reply[t].of.kind = "account"
                                                              /\ Lapses(reply[t].of.key)
    <3>1. HonestInv' => (\A t \in Handlers : AnswerHolds(t) <=> Said(t))'
      BY SaidIsHeld, PTL
    <3> QED
      BY <3>1, SaidIsHeld
  <2>1. Durable /\ InboundType
    BY DEF Durable, HonestInv, CallerTypes
  <2>2. [Next]_vars
    BY <2>1, ServiceStep
  <2> QED
    BY <2>1, <2>2, SaidStep
<1> QED
  BY <1>1, <1>2, <1>3, PTL DEF ServiceSpec, ResultsHonest
=============================================================================
