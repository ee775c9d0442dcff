------------------------------ MODULE Registry ------------------------------
(***************************************************************************)
(* What the store promises its callers (src/README.md and the comments in   *)
(* src/src/store.rs), without locks, connections, transactions or clocks:   *)
(* three maps on which every call takes effect at one instant between its   *)
(* invocation and its answer, decided by the row it finds at that instant,  *)
(* or fails and has no effect.  An expiry removes rows oldest first.        *)
(***************************************************************************)
EXTENDS Integers, Sequences, FiniteSets

CONSTANTS
  Callers, Calls, Accounts,
  Stamps,           \* timestamps a row may get
  Newer(_, _),      \* bundle p may replace bundle q
  Extends(_, _),    \* log p properly extends log q
  Volatile,         \* the maps do not survive a restart
  NoRow, None

VARIABLES
  keypackages, account_bundles, account_logs,
  pending,   \* caller -> the call it has made, or None
  answer,    \* caller -> its result, or "none" while it has none
  served     \* the calls answered with success

maps == <<keypackages, account_bundles, account_logs>>
vars == <<maps, pending, answer, served>>

Init ==
  /\ keypackages = {}
  /\ account_bundles = [a \in Accounts |-> NoRow]
  /\ account_logs = [a \in Accounts |-> NoRow]
  /\ pending = [h \in Callers |-> None]
  /\ answer = [h \in Callers |-> "none"]
  /\ served = {}

Invoke(h, c) ==
  /\ pending[h] = None
  /\ pending' = [pending EXCEPT ![h] = c]
  /\ UNCHANGED <<maps, answer, served>>

Open(h, op) == pending[h] # None /\ answer[h] = "none" /\ pending[h].op = op

Answered(h, result) ==
  /\ answer' = [answer EXCEPT ![h] = result]
  /\ UNCHANGED <<pending, served>>

\* A keypackage is added to its device's history.
AddKeyPackage(h) ==
  /\ Open(h, "insert")
  /\ \E at \in Stamps, id \in {1} \cup {r.rowid + 1 : r \in keypackages} :
       /\ \A r \in keypackages : r.rowid < id
       /\ keypackages' = keypackages \cup
            {[rowid |-> id, device_id |-> pending[h].key, received_at |-> at,
              bundle |-> pending[h].bundle]}
  /\ Answered(h, "Updated")
  /\ UNCHANGED <<account_bundles, account_logs>>

\* Compare-and-swap on the device list.
SwapBundle(h) ==
  /\ Open(h, "upsert_account")
  /\ LET row == account_bundles[pending[h].key]
     IN  IF row = NoRow \/ Newer(pending[h].payload, row.payload)
         THEN /\ \E at \in Stamps : account_bundles' =
                   [account_bundles EXCEPT ![pending[h].key] =
                     [payload |-> pending[h].payload, updated_at |-> at]]
              /\ Answered(h, "Updated")
         ELSE Answered(h, "Stale") /\ UNCHANGED account_bundles
  /\ UNCHANGED <<keypackages, account_logs>>

\* A log is created or extended; any other relation to the stored one is named.
ExtendLog(h) ==
  /\ Open(h, "put_account_log")
  /\ LET row == account_logs[pending[h].key]
         log == pending[h].signed_log
     IN  IF row = NoRow \/ Extends(log, row.signed_log)
         THEN /\ \E at \in Stamps : account_logs' =
                   [account_logs EXCEPT ![pending[h].key] =
                     [signed_log |-> log, updated_at |-> at]]
              /\ Answered(h, "Updated")
         ELSE /\ Answered(h, CASE log = row.signed_log         -> "Identical"
                               [] Extends(row.signed_log, log) -> "Behind"
                               [] OTHER                        -> "Diverged")
              /\ UNCHANGED account_logs
  /\ UNCHANGED <<keypackages, account_bundles>>

\* The call fails and leaves no trace.
Fail(h) ==
  /\ pending[h] # None /\ answer[h] = "none"
  /\ \E error \in {"Constraint", "Busy", "Timeout", "Io"} : Answered(h, error)
  /\ UNCHANGED maps

Forget(h) ==
  /\ pending' = [pending EXCEPT ![h] = None]
  /\ answer' = [answer EXCEPT ![h] = "none"]
  /\ UNCHANGED maps

\* The caller gets its answer, unless it has left.
Respond(h) ==
  /\ answer[h] # "none"
  /\ \/ UNCHANGED served
     \/ answer[h] \in {"Updated", "Identical"} /\ served' = served \cup {pending[h]}
  /\ Forget(h)

\* The caller leaves: its call is taken back, having had its effect or none.
Abandon(h) ==
  /\ pending[h] # None
  /\ UNCHANGED served
  /\ Forget(h)

\* Rows expire, the oldest first; account logs never do.
Expire ==
  /\ keypackages' \subseteq keypackages
  /\ \A r \in keypackages \ keypackages', s \in keypackages' :
       r.device_id = s.device_id => r.received_at < s.received_at
  /\ LET gone == {a \in Accounts : account_bundles'[a] # account_bundles[a]}
     IN  /\ account_bundles' = [a \in Accounts |-> IF a \in gone THEN NoRow
                                                   ELSE account_bundles[a]]
         /\ \A a \in gone, b \in Accounts \ gone : account_bundles[b] # NoRow =>
              account_bundles[a].updated_at < account_bundles[b].updated_at
  /\ UNCHANGED <<account_logs, pending, answer, served>>

\* The process ends and starts again: open calls are lost, the maps are not.
Restart ==
  /\ IF Volatile
     THEN /\ keypackages' = {}
          /\ account_bundles' = [a \in Accounts |-> NoRow]
          /\ account_logs' = [a \in Accounts |-> NoRow]
     ELSE UNCHANGED maps
  /\ pending' = [h \in Callers |-> None]
  /\ answer' = [h \in Callers |-> "none"]
  /\ UNCHANGED served

Next ==
  \/ \E h \in Callers :
       \/ \E c \in Calls : Invoke(h, c)
       \/ AddKeyPackage(h) \/ SwapBundle(h) \/ ExtendLog(h) \/ Fail(h)
       \/ Respond(h) \/ Abandon(h)
  \/ Expire
  \/ Restart

Spec == Init /\ [][Next]_vars
=============================================================================
