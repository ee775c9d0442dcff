-------------------------- MODULE StoreInvariants --------------------------
(***************************************************************************)
(* The strengthenings that make the properties of Store inductive.  The    *)
(* ones that carry an argument (ReadStillHolds, MutexInv, StampInv) are    *)
(* checked on instances of MCStore; StoreProofs and StoreAckProofs prove   *)
(* them all.                                                               *)
(***************************************************************************)
EXTENDS Store

\* A task in a method carries a call of its own kind.
CallTyped ==
  \A t \in Tasks : pc[t] # "idle" =>
    IF t = Pruner THEN call[t] \in PruneCalls ELSE call[t] \in Calls

\* Only the methods that read first open a transaction.
Transacting ==
  \A t \in Tasks : pc[t] \in {"write", "commit"} => call[t].op \in ReadsFirst

\* A transaction about to commit holds SQLite's write lock.
WriterCommits == \A t \in Tasks : pc[t] = "commit" => sqlite_writer = t

\* The heart of the compare-and-swap.  A transaction that may still write has
\* seen the current row: what it decided from its SELECT would be decided
\* again now, although its handler may have lost the write lock since.
ReadStillHolds ==
  \A t \in Tasks : pc[t] = "commit" \/ (pc[t] = "write" /\ t \notin outdated) =>
    Verdict(call[t]) = "Updated"

\* Types, and which calls a task can be carrying at each point of a method.
TypeInv == TypeOK /\ CallTyped /\ Transacting
\* Every write a transaction may still make is one the current row allows.
SwapInv == TypeInv /\ WriterCommits /\ ReadStillHolds

\* The steps of a method between obtaining the guard and returning.
Guarded == {"ready", "excess", "write", "commit", "return"}

\* While no handler is cancelled, write_lock excludes: the task inside a method
\* holds it, SQLite has no other writer and no snapshot is overtaken.
MutexInv ==
  /\ \A t \in Tasks : pc[t] \in Guarded => write_lock = t
  /\ \A t \in Tasks : pc[t] # "rollback"
  /\ sqlite_writer # None => pc[sqlite_writer] = "commit"
  /\ outdated = {}

\* A stored log outlives its acknowledgement.
Extended(c) ==
  /\ account_logs[c.key] # NoRow
  /\ IsPrefix(c.signed_log, account_logs[c.key].signed_log)

\* A method about to return success.
Succeeded(t) == pc[t] = "return" /\ outcome[t] \in {"Updated", "Identical"}

\* Acknowledged logs, and those about to be, are served or extended.
LogAckInv ==
  /\ \A t \in Tasks : Succeeded(t) /\ call[t].op = "put_account_log" => Extended(call[t])
  /\ \A e \in acked : e.call.op = "put_account_log" => Extended(e.call)

\* A task that has still to decide holds the guard.
Deciding(t) == pc[t] \in {"ready", "write"} /\ call[t].op \in ReadsFirst

\* Every timestamp is past, and the prune's cutoff lies a retention back.
StampsPast == \A t \in Tasks : stamp[t] <= now
RowsPast   == \A a \in Accounts :
  account_bundles[a] # NoRow => account_bundles[a].updated_at <= now
CutoffPast == stamp[Pruner] = 0 \/ stamp[Pruner] + retention <= now

\* Timestamps grow in commit order: whoever has still to decide holds the guard,
\* so its timestamp is no earlier than that of a cancelled writer still
\* committing, nor than that of the row it may replace.
DecidersGuarded == \A t \in Tasks : Deciding(t) => write_lock = t
DecidersLater   == \A t, u \in Tasks :
  Deciding(t) /\ pc[u] = "commit" => stamp[u] <= stamp[t]
RowsEarlier     == \A t \in Tasks :
  /\ Deciding(t) \/ pc[t] = "commit"
  /\ call[t].op = "upsert_account"
  /\ account_bundles[call[t].key] # NoRow
  => account_bundles[call[t].key].updated_at <= stamp[t]

\* No timestamp of store.rs lies ahead of the clock, and a device list never
\* replaces one with a later updated_at, not even by a cancelled handler.
StampInv ==
  /\ StampsPast /\ RowsPast /\ CutoffPast
  /\ DecidersGuarded /\ DecidersLater /\ RowsEarlier

\* Within retention of s the account keeps c's bundle or a newer one, in a row
\* the prune will not find older than s.
Protected(c, s) ==
  s + retention >= now =>
    /\ account_bundles[c.key] # NoRow
    /\ payload_lamport(account_bundles[c.key].payload) >= payload_lamport(c.payload)
    /\ account_bundles[c.key].updated_at >= s

\* Acknowledged bundles, and those about to be, are protected.
BundleAckInv ==
  /\ \A t \in Tasks : Succeeded(t) /\ call[t].op = "upsert_account" =>
       Protected(call[t], stamp[t])
  /\ \A e \in acked : e.call.op = "upsert_account" => Protected(e.call, e.stamp)
=============================================================================
