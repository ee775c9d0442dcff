------------------------------- MODULE Config -------------------------------
(***************************************************************************)
(* What the retention flags come to (src/src/main.rs, and the two prune     *)
(* methods of src/src/store.rs): the arithmetic from --retention-days to    *)
(* the cutoff, at its machine width, the cast of --max-per-identity, and    *)
(* the ticker that --prune-interval-secs drives, across restarts with other *)
(* flags.  Store takes the outcome as its constants; here it is computed.   *)
(* One device and one account stand for all: neither prune looks across     *)
(* them.                                                                    *)
(***************************************************************************)
EXTENDS Integers, FiniteSets

CONSTANTS
  Word,                   \* 2^64, the range of u64 and usize
  SecsPerDay, MsPerSec,   \* 24 * 3600 and 1000
  RetentionDays, MaxPerIdentity, PruneIntervals,  \* the values of the flags tried
  MaxRows, MaxTime,       \* bounds: keypackages of the device, the clock
  NoRow

\* The clock stays below 2^63 ms, some 292 million years from 1970.
ASSUME ConfigAssumption ==
  /\ Word \in Nat /\ SecsPerDay \in Nat \ {0} /\ MsPerSec \in Nat \ {0}
  /\ RetentionDays \cup MaxPerIdentity \cup PruneIntervals \subseteq 0 .. Word - 1
  /\ MaxTime \in Nat /\ MaxTime < Word \div 2
  /\ NoRow \notin Nat

VARIABLES
  cli,          \* the flags of the process
  phase,        \* "down" or "serving"
  retention,    \* the Duration handed to the prune task, in seconds
  task,         \* where the prune task is
  ticker,       \* when tick() next completes
  warned,       \* a prune of the task's last pass failed
  keypackages,  \* the device's rows: [rowid, received_at]
  account,      \* the account's updated_at, or NoRow
  now

process == <<cli, phase, retention>>
pruneTask == <<task, ticker, warned>>
rows == <<keypackages, account>>
configVars == <<process, pruneTask, rows, now>>

ConfigInit ==
  /\ cli = NoRow /\ phase = "down" /\ retention = 0
  /\ task = "none" /\ ticker = 0 /\ warned = FALSE
  /\ keypackages = {} /\ account = NoRow
  /\ now = 0

-----------------------------------------------------------------------------
as_i64(n) == IF n < Word \div 2 THEN n ELSE n - Word

saturating_sub(a, b) == IF a > b THEN a - b ELSE 0

\* A faulty variant: as_secs().
retention_msInSeconds == retention

\* as_millis() is a u128; the cast to u64 keeps its low word.
retention_ms == (retention * MsPerSec) % Word

cutoff_ms == as_i64(saturating_sub(now, retention_ms))

\* main: where the product overflows, a debug build panics and never serves,
\* and a release build wraps.
start ==
  /\ phase = "down"
  /\ \E days \in RetentionDays, most \in MaxPerIdentity, secs \in PruneIntervals,
        debug \in BOOLEAN :
       /\ debug => days * SecsPerDay < Word
       /\ cli' = [retention_days |-> days, max_per_identity |-> most,
                  prune_interval_secs |-> secs]
       /\ retention' = (days * SecsPerDay) % Word
  /\ phase' = "serving" /\ task' = "spawned"
  /\ UNCHANGED <<ticker, warned, rows, now>>

\* A faulty variant: interval_at, whose first tick is a period away.
intervalFirstLater ==
  /\ task = "spawned"
  /\ IF cli.prune_interval_secs = 0 THEN task' = "dead" ELSE task' = "tick"
  /\ ticker' = now + cli.prune_interval_secs * MsPerSec
  /\ warned' = FALSE
  /\ UNCHANGED <<process, rows, now>>

\* tokio's interval panics on a zero period, which ends the task and nothing
\* else; its first tick completes at once.
interval ==
  /\ task = "spawned"
  /\ IF cli.prune_interval_secs = 0 THEN task' = "dead" ELSE task' = "tick"
  /\ ticker' = now
  /\ warned' = FALSE
  /\ UNCHANGED <<process, rows, now>>

tick ==
  /\ task = "tick" /\ now >= ticker
  /\ task' = "keypackages"
  /\ ticker' = ticker + cli.prune_interval_secs * MsPerSec
  /\ warned' = FALSE
  /\ UNCHANGED <<process, rows, now>>

\* Both DELETEs; the rank among rows of one millisecond is SQLite's choice.
\* Either DELETE may fail: what was done before it stays.
prune_key_packages ==
  LET young == {r \in keypackages : ~(r.received_at < cutoff_ms)}
      ranked(r, order) == Cardinality({q \in young : order[q] <= order[r]})
      newestFirst == {order \in [young -> 1 .. Cardinality(young)] :
                        \A p, q \in young :
                          /\ p # q => order[p] # order[q]
                          /\ p.received_at > q.received_at => order[p] < order[q]}
  IN  /\ task = "keypackages"
      /\ \/ /\ \E order \in newestFirst :
                 keypackages' = {r \in young :
                                   ~(ranked(r, order) > as_i64(cli.max_per_identity))}
            /\ UNCHANGED warned
         \/ keypackages' \in {keypackages, young} /\ warned' = TRUE
      /\ task' = "accounts"
      /\ UNCHANGED <<process, ticker, account, now>>

prune_accounts ==
  /\ task = "accounts"
  /\ \/ /\ account' = IF account # NoRow /\ account < cutoff_ms THEN NoRow ELSE account
        /\ UNCHANGED warned
     \/ warned' = TRUE /\ UNCHANGED account
  /\ task' = "tick"
  /\ UNCHANGED <<process, ticker, keypackages, now>>

\* The handlers' writes: a new keypackage row, a refreshed account row.
insert_key_package ==
  /\ phase = "serving"
  /\ \E id \in 1 .. MaxRows :
       /\ \A r \in keypackages : r.rowid < id
       /\ keypackages' = keypackages \cup {[rowid |-> id, received_at |-> now]}
  /\ UNCHANGED <<process, pruneTask, account, now>>

upsert_account ==
  /\ phase = "serving"
  /\ account' = now
  /\ UNCHANGED <<process, pruneTask, keypackages, now>>

\* Ctrl-C, an error of main or a crash: the runtime drops the task where it is.
stop ==
  /\ phase = "serving"
  /\ cli' = NoRow /\ phase' = "down" /\ retention' = 0
  /\ task' = "none" /\ ticker' = 0 /\ warned' = FALSE
  /\ UNCHANGED <<rows, now>>

\* The task has something to do at this instant.
Due == task \in {"spawned", "keypackages", "accounts"} \/ (task = "tick" /\ now >= ticker)

\* A pass takes much less than a unit of the clock.
clock ==
  /\ now < MaxTime /\ ~Due
  /\ now' = now + 1
  /\ UNCHANGED <<process, pruneTask, rows>>

ConfigNext ==
  \/ start \/ interval \/ tick \/ prune_key_packages \/ prune_accounts
  \/ insert_key_package \/ upsert_account \/ stop \/ clock

ConfigSpec == ConfigInit /\ [][ConfigNext]_configVars

-----------------------------------------------------------------------------
(* Properties.                                                              *)

\* "Retention window in days", in milliseconds and unbounded arithmetic.
Window == cli.retention_days * SecsPerDay * MsPerSec

\* The flags that u64 milliseconds and i64 ranks can hold.
Representable == Window < Word /\ cli.max_per_identity < Word \div 2

\* Whatever flags the process was started and restarted with, as long as they
\* are representable a prune deletes no row that is within the retention window
\* and among the newest max_per_identity of its device: the conversions of
\* main.rs and of both cutoffs lose nothing.
PrunesOnlyWhatIsDue ==
  [][ phase = "serving" /\ Representable =>
        /\ \A r \in keypackages \ keypackages' :
             \/ now - r.received_at > Window
             \/ Cardinality({q \in keypackages : q.received_at >= r.received_at})
                  > cli.max_per_identity
        /\ account # NoRow /\ account' = NoRow => now - account > Window
    ]_configVars

\* After a pass that did not fail, and until the next is due, no row is older
\* than the window plus one prune interval, rows that outlived a downtime
\* included: the first tick is immediate.  A zero interval promises nothing,
\* for then the task has died.
PrunedInTime ==
  phase = "serving" /\ Representable /\ cli.prune_interval_secs > 0 /\ ~Due /\ ~warned =>
    LET oldest == Window + cli.prune_interval_secs * MsPerSec
    IN  /\ \A r \in keypackages : now - r.received_at < oldest
        /\ account # NoRow => now - account < oldest
=============================================================================
