---------------------------- MODULE ConfigProofs ----------------------------
(***************************************************************************)
(* What the retention flags come to, for every width of the machine and    *)
(* every value of the flags: theorems about Config.                        *)
(***************************************************************************)
EXTENDS Config, FiniteSetTheorems, TLAPS

Period == cli.prune_interval_secs * MsPerSec

\* The rows are of the past, and finitely many.
RowsTyped ==
  /\ now \in Nat /\ now <= MaxTime
  /\ IsFiniteSet(keypackages)
  /\ \A r \in keypackages : r.received_at \in Nat /\ r.received_at <= now
  /\ account # NoRow => account \in Nat /\ account <= now

\* The process runs with the flags it was started with.
FlagsTyped ==
  /\ phase \in {"down", "serving"}
  /\ phase = "down" => task = "none"
  /\ phase = "serving" =>
       /\ task \in {"spawned", "dead", "tick", "keypackages", "accounts"}
       /\ cli.retention_days \in Nat /\ cli.max_per_identity \in Nat
       /\ cli.prune_interval_secs \in Nat
       /\ retention = (cli.retention_days * SecsPerDay) % Word
  /\ task = "dead" => cli.prune_interval_secs = 0
  /\ ticker \in Nat /\ warned \in BOOLEAN

ConfigTypes == RowsTyped /\ FlagsTyped

\* Every row was received at t or later.
NoneBefore(t) ==
  /\ \A r \in keypackages : r.received_at >= t
  /\ account # NoRow => account >= t

\* A pass starts on the tick and is over before the clock moves; what one that
\* did not fail leaves is within the window then, and until the next tick.
PassInv ==
  /\ task = "tick" => now <= ticker
  /\ task \in {"keypackages", "accounts"} => ticker = now + Period
  /\ task = "accounts" /\ ~warned /\ Representable =>
       \A r \in keypackages : r.received_at >= now - Window
  /\ task = "tick" /\ ~warned /\ Representable /\ now < ticker =>
       /\ now >= ticker - Period
       /\ NoneBefore(ticker - Period - Window)

-----------------------------------------------------------------------------
(* The arithmetic of the flags.                                             *)

\* A product with a positive number is no smaller.
LEMMA Times == ASSUME NEW a \in Nat, NEW b \in Nat \ {0} PROVE a * b \in Nat /\ a <= a * b
<1>1. b - 1 \in Nat /\ a * b = a * (b - 1) + a
  OBVIOUS
<1>2. a * (b - 1) \in Nat
  BY <1>1
<1> QED
  BY <1>1, <1>2

\* A number the machine can hold is not wrapped.
LEMMA Fits == ASSUME NEW a \in Nat, NEW w \in Nat, a < w PROVE a % w = a
  OBVIOUS

\* Where the flags are representable the two multiplications, the cast to u64
\* and the cast to i64 lose nothing: the cutoff is `Window` before now.
LEMMA Cutoff ==
  ASSUME ConfigTypes, phase = "serving", Representable
  PROVE  /\ Window \in Nat
         /\ cutoff_ms = IF now > Window THEN now - Window ELSE 0
         /\ as_i64(cli.max_per_identity) = cli.max_per_identity
<1> DEFINE secs == cli.retention_days * SecsPerDay
           ms   == secs * MsPerSec
<1>0. Word \in Nat /\ MaxTime \in Nat /\ MaxTime < Word \div 2 /\ now \in Nat /\ now <= MaxTime
  BY ConfigAssumption DEF ConfigTypes, RowsTyped
<1>1. secs \in Nat
  BY Times, ConfigAssumption DEF ConfigTypes, FlagsTyped
<1>2. ms \in Nat /\ secs <= ms /\ ms = Window /\ ms < Word
  <2> HIDE DEF secs
  <2>1. ms \in Nat /\ secs <= ms
    BY <1>1, Times, ConfigAssumption
  <2> QED
    BY <2>1 DEF Window, Representable, secs
<1>3. retention = secs % Word
  BY DEF ConfigTypes, FlagsTyped
<1>4. retention_ms = ms
  <2> HIDE DEF secs
  <2>1. retention = secs
    BY <1>0, <1>1, <1>2, <1>3, Fits
  <2>2. ms % Word = ms
    <3> HIDE DEF ms
    <3> QED
      BY <1>0, <1>2, Fits
  <2> QED
    BY <2>1, <2>2 DEF retention_ms
<1> HIDE DEF secs, ms
<1>5. cutoff_ms = IF now > ms THEN now - ms ELSE 0
  <2>1. saturating_sub(now, ms) = IF now > ms THEN now - ms ELSE 0
    BY DEF saturating_sub
  <2>2. saturating_sub(now, ms) < Word \div 2
    BY <1>0, <1>2, <2>1
  <2> QED
    BY <1>4, <2>1, <2>2 DEF cutoff_ms, as_i64
<1>6. as_i64(cli.max_per_identity) = cli.max_per_identity
  BY DEF as_i64, Representable
<1> QED
  BY <1>2, <1>5, <1>6

-----------------------------------------------------------------------------
(* Types.                                                                   *)

\* There is no process and there are no rows.
LEMMA TypesInit == ConfigInit => ConfigTypes
<1> SUFFICES ASSUME ConfigInit PROVE ConfigTypes
  OBVIOUS
<1>1. IsFiniteSet(keypackages)
  BY FS_EmptySet DEF ConfigInit
<1>2. RowsTyped
  BY <1>1, ConfigAssumption DEF ConfigInit, RowsTyped
<1> QED
  BY <1>2 DEF ConfigInit, ConfigTypes, FlagsTyped

\* Neither DELETE adds rows, whichever of them fails.
LEMMA PruneShrinks ==
  ASSUME prune_key_packages PROVE keypackages' \subseteq keypackages
  BY DEF prune_key_packages

\* Every step keeps the types: the rows are received in the past and a process
\* keeps the flags it was started with.
LEMMA TypesStep == ConfigTypes /\ [ConfigNext]_configVars => ConfigTypes'
<1> SUFFICES ASSUME ConfigTypes, [ConfigNext]_configVars PROVE RowsTyped' /\ FlagsTyped'
  BY DEF ConfigTypes
<1> USE ConfigAssumption DEF ConfigTypes
<1>1. FlagsTyped'
  <2> USE DEF FlagsTyped
  <2>1. CASE start
    BY <2>1 DEF start
  <2>2. CASE interval
    BY <2>2 DEF interval, process, RowsTyped
  <2>3. CASE tick
    <3>1. Period \in Nat
      BY <2>3 DEF tick, Period
    <3>2. ticker' \in Nat
      BY <2>3, <3>1 DEF tick, Period
    <3> QED
      BY <2>3, <3>2 DEF tick, process
  <2>4. CASE prune_key_packages \/ prune_accounts
    BY <2>4 DEF prune_key_packages, prune_accounts, process
  <2>5. CASE stop
    BY <2>5 DEF stop
  <2>6. CASE insert_key_package \/ upsert_account \/ clock \/ UNCHANGED configVars
    BY <2>6 DEF insert_key_package, upsert_account, clock, configVars, process, pruneTask
  <2> QED
    BY <2>1, <2>2, <2>3, <2>4, <2>5, <2>6 DEF ConfigNext
<1>2. RowsTyped'
  <2> USE DEF RowsTyped
  <2>1. CASE prune_key_packages
    <3>1. keypackages' \subseteq keypackages /\ UNCHANGED <<account, now>>
      BY <2>1, PruneShrinks DEF prune_key_packages
    <3> QED
      BY <3>1, FS_Subset
  <2>2. CASE prune_accounts
    BY <2>2 DEF prune_accounts
  <2>3. CASE insert_key_package
    <3>1. PICK id \in 1 .. MaxRows :
            keypackages' = keypackages \cup {[rowid |-> id, received_at |-> now]}
      BY <2>3 DEF insert_key_package
    <3>2. IsFiniteSet(keypackages')
      BY <3>1, FS_AddElement
    <3> QED
      BY <2>3, <3>1, <3>2 DEF insert_key_package
  <2>4. CASE upsert_account
    BY <2>4 DEF upsert_account
  <2>5. CASE clock
    BY <2>5 DEF clock, rows
  <2>6. CASE start \/ interval \/ tick \/ stop \/ UNCHANGED configVars
    BY <2>6 DEF start, interval, tick, stop, configVars, rows
  <2> QED
    BY <2>1, <2>2, <2>3, <2>4, <2>5, <2>6 DEF ConfigNext
<1> QED
  BY <1>1, <1>2

-----------------------------------------------------------------------------
(* What a prune deletes.                                                    *)

\* A row that a keypackage prune deletes is older than the window, or as many
\* rows as the limit allows are no older than it.
LEMMA DeletedWasDue ==
  ASSUME ConfigTypes, phase = "serving", Representable, prune_key_packages,
         NEW r \in keypackages \ keypackages'
  PROVE  \/ now - r.received_at > Window
         \/ Cardinality({q \in keypackages : q.received_at >= r.received_at})
              > cli.max_per_identity
<1> DEFINE young == {q \in keypackages : ~(q.received_at < cutoff_ms)}
           ranked(order) == {q \in young : order[q] <= order[r]}
           newer == {q \in keypackages : q.received_at >= r.received_at}
<1>1. /\ now \in Nat /\ r.received_at \in Nat /\ IsFiniteSet(keypackages)
      /\ cli.max_per_identity \in Nat
      /\ \A q \in keypackages : q.received_at \in Nat
  BY DEF ConfigTypes, RowsTyped, FlagsTyped
<1>2. CASE r \notin young
  BY <1>1, <1>2, Cutoff
<1>3. CASE r \in young
  <2>1. PICK order \in [young -> 1 .. Cardinality(young)] :
          /\ \A p, q \in young : p.received_at > q.received_at => order[p] < order[q]
          /\ Cardinality(ranked(order)) > as_i64(cli.max_per_identity)
    BY <1>3 DEF prune_key_packages
  <2>2. IsFiniteSet(young) /\ IsFiniteSet(newer)
    BY <1>1, FS_Subset
  <2>3. Cardinality(young) \in Nat
    BY <2>2, FS_CardinalityType
  <2>4. ranked(order) \subseteq newer
    <3> SUFFICES ASSUME NEW q \in young, order[q] <= order[r] PROVE q.received_at >= r.received_at
      OBVIOUS
    <3>1. order[q] \in Int /\ order[r] \in Int
      BY <1>3, <2>1, <2>3
    <3> QED
      BY <1>1, <1>3, <2>1, <3>1
  <2>5. /\ Cardinality(ranked(order)) \in Nat /\ Cardinality(newer) \in Nat
        /\ Cardinality(ranked(order)) <= Cardinality(newer)
    <3> HIDE DEF ranked, newer
    <3> QED
      BY <2>2, <2>4, FS_Subset, FS_CardinalityType
  <2> QED
    BY <1>1, <2>1, <2>5, Cutoff
<1> QED
  BY <1>2, <1>3

\* Whatever flags the process is started and restarted with, on a machine of any
\* width: while they are representable, no prune deletes a row within the window
\* and the limit.
THEOREM PrunesOnlyDue == ConfigSpec => PrunesOnlyWhatIsDue
<1>1. ASSUME ConfigTypes, [ConfigNext]_configVars, phase = "serving", Representable,
             NEW r \in keypackages \ keypackages'
      PROVE  \/ now - r.received_at > Window
             \/ Cardinality({q \in keypackages : q.received_at >= r.received_at})
                  > cli.max_per_identity
  <2>1. prune_key_packages
    BY <1>1 DEF ConfigNext, start, interval, tick, prune_accounts, insert_key_package,
      upsert_account, stop, clock, configVars, rows
  <2> QED
    BY <1>1, <2>1, DeletedWasDue
<1>2. ASSUME ConfigTypes, [ConfigNext]_configVars, phase = "serving", Representable,
             account # NoRow, account' = NoRow
      PROVE  now - account > Window
  <2>1. CASE prune_accounts
    BY <1>2, <2>1, Cutoff DEF prune_accounts, ConfigTypes, RowsTyped
  <2>2. CASE upsert_account
    BY <1>2, <2>2, ConfigAssumption DEF upsert_account, ConfigTypes, RowsTyped
  <2> QED
    BY <1>2, <2>1, <2>2 DEF ConfigNext, start, interval, tick, prune_key_packages,
      insert_key_package, stop, clock, configVars, rows
<1>3. ConfigTypes /\ [ConfigNext]_configVars =>
        [phase = "serving" /\ Representable =>
           /\ \A r \in keypackages \ keypackages' :
                \/ now - r.received_at > Window
                \/ Cardinality({q \in keypackages : q.received_at >= r.received_at})
                     > cli.max_per_identity
           /\ account # NoRow /\ account' = NoRow => now - account > Window]_configVars
  BY <1>1, <1>2
<1> QED
  BY <1>3, TypesInit, TypesStep, PTL DEF ConfigSpec, PrunesOnlyWhatIsDue

-----------------------------------------------------------------------------
(* What a prune leaves.                                                     *)

\* Neither prune leaves a row older than the window, if it does not fail.
LEMMA PrunedToWindow ==
  ASSUME ConfigTypes, phase = "serving", Representable
  PROVE  /\ prune_key_packages /\ ~warned' =>
              \A r \in keypackages' : r.received_at >= now - Window
         /\ prune_accounts /\ ~warned' /\ account' # NoRow => account' >= now - Window
<1>1. ASSUME prune_key_packages, ~warned', NEW r \in keypackages'
      PROVE  r.received_at >= now - Window
  <2>1. r \in keypackages /\ ~(r.received_at < cutoff_ms)
    BY <1>1 DEF prune_key_packages
  <2> QED
    BY <2>1, Cutoff DEF ConfigTypes, RowsTyped
<1>2. ASSUME prune_accounts, ~warned', account' # NoRow PROVE account' >= now - Window
  <2>1. account' = account /\ ~(account < cutoff_ms)
    BY <1>2 DEF prune_accounts
  <2> QED
    BY <1>2, <2>1, Cutoff DEF ConfigTypes, RowsTyped
<1> QED
  BY <1>1, <1>2

\* The process keeps its flags, and with them what is computed from them.
Configured ==
  phase = "serving" /\ phase' = "serving" /\ UNCHANGED <<cli, retention>>

\* Only main's start and the end of the process change them.
LEMMA Unconfigured ==
  ASSUME ConfigTypes, [ConfigNext]_configVars
  PROVE  Configured \/ task' \in {"none", "spawned"}
  BY DEF ConfigNext, start, interval, tick, prune_key_packages, prune_accounts, stop,
    insert_key_package, upsert_account, clock, configVars, process, pruneTask, Configured,
    ConfigTypes, FlagsTyped

\* A pass starts on the tick, and rows that come in during it or after it are new.
LEMMA PassStep == ConfigTypes /\ PassInv /\ [ConfigNext]_configVars => PassInv'
<1> SUFFICES ASSUME ConfigTypes, PassInv, [ConfigNext]_configVars PROVE PassInv'
  OBVIOUS
<1>1. CASE task' \in {"none", "spawned"}
  BY <1>1 DEF PassInv
<1>2. CASE Configured
  <2>0. /\ phase = "serving" /\ Period \in Nat /\ Period' = Period /\ Window' = Window
        /\ Representable' = Representable /\ now \in Nat /\ ticker \in Nat
        /\ warned \in BOOLEAN
        /\ \A r \in keypackages : r.received_at \in Nat
        /\ account # NoRow => account \in Nat
    BY <1>2, ConfigAssumption DEF Configured, Period, Window, Representable, ConfigTypes,
      FlagsTyped, RowsTyped
  <2>1. Representable => Window \in Nat
    BY <2>0, Cutoff
  <2> HIDE DEF Period, Window, Representable
  <2> USE DEF PassInv, NoneBefore
  <2>2. CASE interval
    BY <2>0, <2>2 DEF interval
  <2>3. CASE tick
    <3>1. ticker = now
      BY <2>0, <2>3 DEF tick
    <3>2. ticker' = ticker + Period
      BY <2>3 DEF tick, Period
    <3> QED
      BY <2>0, <2>3, <3>1, <3>2 DEF tick
  <2>4. CASE prune_key_packages
    <3>1. ~warned' /\ Representable => \A r \in keypackages' : r.received_at >= now - Window
      BY <2>0, <2>4, PrunedToWindow
    <3>2. task = "keypackages" /\ task' = "accounts" /\ UNCHANGED <<ticker, now>>
      BY <2>4 DEF prune_key_packages
    <3> QED
      BY <2>0, <3>1, <3>2
  <2>5. CASE prune_accounts
    <3>1. ~warned' /\ Representable /\ account' # NoRow => account' >= now - Window
      BY <2>0, <2>5, PrunedToWindow
    <3>2. /\ task = "accounts" /\ task' = "tick" /\ UNCHANGED <<keypackages, ticker, now>>
          /\ ~warned' => ~warned
      BY <2>0, <2>5 DEF prune_accounts
    <3> QED
      BY <2>0, <2>1, <3>1, <3>2
  <2>6. CASE insert_key_package
    <3>1. /\ \A r \in keypackages' : r \in keypackages \/ r.received_at = now
          /\ UNCHANGED <<task, ticker, warned, account, now>>
      BY <2>6 DEF insert_key_package, pruneTask
    <3> QED
      BY <2>0, <2>1, <3>1
  <2>7. CASE upsert_account
    BY <2>0, <2>1, <2>7 DEF upsert_account, pruneTask
  <2>8. CASE clock
    BY <2>0, <2>1, <2>8 DEF clock, Due, pruneTask, rows
  <2>9. CASE UNCHANGED configVars
    BY <2>0, <2>9 DEF configVars, pruneTask, rows
  <2>10. ~start /\ ~stop
    BY <1>2 DEF Configured, start, stop
  <2> QED
    BY <2>2, <2>3, <2>4, <2>5, <2>6, <2>7, <2>8, <2>9, <2>10 DEF ConfigNext
<1> QED
  BY <1>1, <1>2, Unconfigured

\* Retention is enforced on time, whatever the flags and the restarts: after a
\* pass that did not fail no row is older than the window plus one interval.
THEOREM PrunedOnTime == ConfigSpec => []PrunedInTime
<1>1. ConfigInit => PassInv
  BY DEF ConfigInit, PassInv
<1>2. ConfigTypes /\ PassInv => PrunedInTime
  <2> SUFFICES ASSUME ConfigTypes, PassInv, phase = "serving", Representable,
                      cli.prune_interval_secs > 0, ~Due, ~warned
               PROVE  /\ \A r \in keypackages : now - r.received_at < Window + Period
                      /\ account # NoRow => now - account < Window + Period
    BY DEF PrunedInTime, Period
  <2>1. task = "tick" /\ now < ticker
    BY DEF Due, ConfigTypes, FlagsTyped, RowsTyped
  <2>2. now >= ticker - Period /\ NoneBefore(ticker - Period - Window)
    BY <2>1 DEF PassInv
  <2>3. Window \in Nat /\ Period \in Nat /\ now \in Nat /\ ticker \in Nat
    BY Cutoff, ConfigAssumption DEF Period, ConfigTypes, FlagsTyped, RowsTyped
  <2> HIDE DEF Window, Period
  <2> QED
    BY <2>1, <2>2, <2>3 DEF NoneBefore, ConfigTypes, RowsTyped
<1> QED
  BY <1>1, <1>2, TypesInit, TypesStep, PassStep, PTL DEF ConfigSpec
=============================================================================
