-------------------------- MODULE RollupLedgerProofs --------------------------
(***************************************************************************)
(* Theorems about RollupLedger for every number of rows, monitors and      *)
(* hours, every retention, day length and batch size RollupAssumption      *)
(* allows.                                                                 *)
(***************************************************************************)
EXTENDS RollupLedger, TLAPS

-----------------------------------------------------------------------------
(* The inductive invariant.                                                *)

Done(r) == record[r].st = "done"

\* The transaction that records r has written the mark of its bucket.
Holding(r) == record[r].st = "written" /\ record[r].stamp # 0

\* A result is recorded for a live monitor, by a transaction that is over soon.
Recorders ==
    \A r \in Rows :
        /\ record[r].st # "none" => record[r].mon \in RolledMons /\ record[r].began \in 1..stamps
        /\ Recording(r) => live[record[r].mon] = "live" /\ hour <= record[r].began_hour + 1

\* A mark being written is newer than the committed one of its bucket, the only
\* one there, and not beyond the horizon.
Marks ==
    /\ \A b \in Buckets : dirty[b] <= stamps
    /\ \A r \in Rows : Holding(r) =>
          /\ dirty[Bucket(r)] < record[r].stamp /\ record[r].stamp <= stamps
          /\ Markable(r)
          /\ \A q \in Rows : Holding(q) /\ Bucket(q) = Bucket(r) => q = r

\* What is counted was recorded, in the hour that counts it.
Counts ==
    /\ \A r \in raw \cup dropped : Done(r)
    /\ \A b \in Buckets : \A r \in hourly[b] : Done(r) /\ Bucket(r) = b

\* A rollup counts a row that is no longer there only when no mark can bring the
\* rebuild back to its hour.
Settled ==
    \A b \in Buckets : \A r \in hourly[b] \ raw :
        live[b[1]] = "live" => b[2] < hour - RawRetention - 1 /\ dirty[b] = 0

\* The run under the lock: what it loaded is still marked; what it has built
\* replaces nothing that is gone from the raw rows, and misses only rows whose
\* mark is newer than the one it loaded.
Run ==
    /\ \A b \in DOMAIN job.batch : job.batch[b] # 0 /\ job.batch[b] <= dirty[b]
    /\ \A b \in DOMAIN job.built :
          /\ \A r \in job.built[b] : Done(r) /\ Bucket(r) = b
          /\ live[b[1]] = "live" =>
                /\ hourly[b] \subseteq job.built[b] /\ job.built[b] \subseteq raw
                /\ \A r \in raw : Bucket(r) = b /\ record[r].stamp # 0
                      => r \in job.built[b] \/ job.batch[b] < dirty[b]
    /\ job.pc \in {"purge_rollups", "purge_raw", "purge_monitor"}
          => job.mon \in RolledMons /\ live[job.mon] # "live" /\ DOMAIN job.batch = {}

LedgerInv == Recorders /\ Marks /\ Counts /\ Settled /\ Run /\ FoldedOrMarked

-----------------------------------------------------------------------------
(* Types.                                                                  *)

\* Row r's transaction becomes x; the others keep their state.
LEMMA RecordMoves ==
    ASSUME RollupTypeOK, NEW r \in Rows, NEW x \in RecordState, record' = [record EXCEPT ![r] = x]
    PROVE  /\ record' \in [Rows -> RecordState] /\ record'[r] = x
           /\ \A q \in Rows : q # r => record'[q] = record[q]
BY DEF RollupTypeOK

LEMMA RecordType ==
    ASSUME RollupTypeOK, NEW r \in Rows
    PROVE  /\ record[r] \in RecordState /\ record[r].at \in Hours
           /\ record[r].began \in Nat /\ record[r].began_hour \in Hours /\ record[r].stamp \in Nat
BY DEF RollupTypeOK, RecordState

LEMMA HoursAreNumbers ==
    /\ Hours \subseteq Nat /\ MaxHour \in Nat /\ RawRetention \in Nat /\ RollupRetention \in Nat
    /\ DayLen \in Nat \ {0} /\ Rows \subseteq Nat
BY RollupAssumption DEF Hours, Rows

\* A run at its start.
LEMMA FreshRun ==
    /\ IsRun(NoRun) /\ NoRun.pc = "idle" /\ DOMAIN NoRun.batch = {} /\ DOMAIN NoRun.built = {}
    /\ \A p \in {"load", "advance", "prune"} :
          LET j == [NoRun EXCEPT !.pc = p]
          IN  IsRun(j) /\ j.pc = p /\ DOMAIN j.batch = {} /\ DOMAIN j.built = {}
    /\ \A m \in RolledMons :
          LET j == [NoRun EXCEPT !.pc = "purge_rollups", !.mon = m]
          IN  /\ IsRun(j) /\ j.pc = "purge_rollups" /\ j.mon = m
              /\ DOMAIN j.batch = {} /\ DOMAIN j.built = {}
BY DEF NoRun, IsRun

LEMMA BeginType ==
    ASSUME RollupTypeOK, NEW r \in Rows, NEW m \in RolledMons, NEW h \in Hours, BeginRecord(r, m, h)
    PROVE  /\ RollupTypeOK'
           /\ record'[r].st = "open" /\ record'[r].mon = m /\ record'[r].at = h /\ record'[r].stamp = 0
           /\ record'[r].began = stamps + 1 /\ record'[r].began_hour = hour
           /\ stamps' = stamps + 1
           /\ \A q \in Rows : q # r => record'[q] = record[q]
<1> DEFINE x == [st |-> "open", mon |-> m, at |-> h, began |-> stamps + 1, began_hour |-> hour, stamp |-> 0]
<1>1. /\ x \in RecordState /\ x.st = "open" /\ x.mon = m /\ x.at = h /\ x.stamp = 0
      /\ x.began = stamps + 1 /\ x.began_hour = hour
  BY DEF RecordState, RollupTypeOK
<1>2. record' = [record EXCEPT ![r] = x] /\ stamps' = stamps + 1 /\ stamps' \in Nat
  BY DEF BeginRecord, RollupTypeOK
<1> HIDE DEF x
<1>3. /\ record' \in [Rows -> RecordState] /\ record'[r] = x
      /\ \A q \in Rows : q # r => record'[q] = record[q]
  BY <1>1, <1>2, RecordMoves
<1>4. RollupTypeOK'
  BY <1>2, <1>3 DEF BeginRecord, RollupTypeOK
<1> QED BY <1>1, <1>2, <1>3, <1>4

LEMMA InsertType ==
    ASSUME RollupTypeOK, NEW r \in Rows, insertRow(r), record[r].mon \in RolledMons
    PROVE  /\ RollupTypeOK'
           /\ record'[r].st = "written" /\ record'[r].mon = record[r].mon /\ record'[r].at = record[r].at
           /\ record'[r].began = record[r].began /\ record'[r].began_hour = record[r].began_hour
           /\ record'[r].stamp # 0 => /\ Markable(r)
                                      /\ record'[r].stamp = MarkStamp(r)
           /\ stamps' = stamps + 1
           /\ \A q \in Rows : q # r => record'[q] = record[q]
<1>0. PICK n : n = IF Markable(r) THEN MarkStamp(r) ELSE 0
  OBVIOUS
<1>1. record[r] \in RecordState /\ Bucket(r) \in Buckets
  BY RecordType DEF Bucket, Buckets
<1>2. n \in Nat
  <2>1. record[r].began \in Nat /\ stamps + 1 \in Nat /\ dirty[Bucket(r)] \in Nat
    BY <1>1, RecordType DEF RollupTypeOK
  <2> QED BY <1>0, <2>1 DEF MarkStamp
<1> DEFINE x == [record[r] EXCEPT !.st = "written", !.stamp = n]
<1>3. /\ x \in RecordState /\ x.st = "written" /\ x.mon = record[r].mon /\ x.at = record[r].at
      /\ x.began = record[r].began /\ x.began_hour = record[r].began_hour /\ x.stamp = n
  BY <1>1, <1>2 DEF RecordState
<1>4. record' = [record EXCEPT ![r] = x] /\ stamps' = stamps + 1 /\ stamps' \in Nat
  BY <1>0 DEF insertRow, RollupTypeOK
<1> HIDE DEF x
<1>5. /\ record' \in [Rows -> RecordState] /\ record'[r] = x
      /\ \A q \in Rows : q # r => record'[q] = record[q]
  BY <1>3, <1>4, RecordMoves
<1>6. RollupTypeOK'
  BY <1>4, <1>5 DEF insertRow, RollupTypeOK
<1> QED BY <1>0, <1>3, <1>4, <1>5, <1>6

LEMMA CommitType ==
    ASSUME RollupTypeOK, NEW r \in Rows, CommitRecord(r), record[r].mon \in RolledMons
    PROVE  /\ RollupTypeOK'
           /\ record'[r].st = "done" /\ record'[r].mon = record[r].mon /\ record'[r].at = record[r].at
           /\ record'[r].began = record[r].began /\ record'[r].began_hour = record[r].began_hour
           /\ record'[r].stamp = record[r].stamp
           /\ \A q \in Rows : q # r => record'[q] = record[q]
           /\ \A b \in Buckets : dirty'[b] = IF b = Bucket(r) /\ record[r].stamp # 0
                                             THEN record[r].stamp ELSE dirty[b]
<1> DEFINE x == [record[r] EXCEPT !.st = "done"]
<1>1. record[r] \in RecordState /\ Bucket(r) \in Buckets /\ record[r].stamp \in Nat
  BY RecordType DEF Bucket, Buckets
<1>2. /\ x \in RecordState /\ x.st = "done" /\ x.mon = record[r].mon /\ x.at = record[r].at
      /\ x.began = record[r].began /\ x.began_hour = record[r].began_hour /\ x.stamp = record[r].stamp
  BY <1>1 DEF RecordState
<1>3. record' = [record EXCEPT ![r] = x]
  BY DEF CommitRecord
<1> HIDE DEF x
<1>4. /\ record' \in [Rows -> RecordState] /\ record'[r] = x
      /\ \A q \in Rows : q # r => record'[q] = record[q]
  BY <1>2, <1>3, RecordMoves
<1>5. /\ dirty' \in [Buckets -> Nat]
      /\ \A b \in Buckets : dirty'[b] = IF b = Bucket(r) /\ record[r].stamp # 0
                                        THEN record[r].stamp ELSE dirty[b]
  <2>1. dirty \in [Buckets -> Nat]
    BY DEF RollupTypeOK
  <2>2. CASE record[r].stamp = 0
    BY <2>1, <2>2 DEF CommitRecord
  <2>3. CASE record[r].stamp # 0
    BY <1>1, <2>1, <2>3 DEF CommitRecord
  <2> QED BY <2>2, <2>3
<1>6. RollupTypeOK'
  BY <1>4, <1>5 DEF CommitRecord, RollupTypeOK
<1> QED BY <1>2, <1>4, <1>5, <1>6

LEMMA AbortType ==
    ASSUME RollupTypeOK, NEW r \in Rows, AbortRecord(r)
    PROVE  /\ RollupTypeOK'
           /\ record'[r].st = "aborted" /\ record'[r].mon = record[r].mon
           /\ record'[r].began = record[r].began
           /\ \A q \in Rows : q # r => record'[q] = record[q]
<1> DEFINE x == [record[r] EXCEPT !.st = "aborted", !.stamp = 0]
<1>1. record[r] \in RecordState
  BY RecordType
<1>2. x \in RecordState /\ x.st = "aborted" /\ x.mon = record[r].mon /\ x.began = record[r].began
  BY <1>1 DEF RecordState
<1>3. record' = [record EXCEPT ![r] = x]
  BY DEF AbortRecord
<1> HIDE DEF x
<1>4. /\ record' \in [Rows -> RecordState] /\ record'[r] = x
      /\ \A q \in Rows : q # r => record'[q] = record[q]
  BY <1>2, <1>3, RecordMoves
<1>5. RollupTypeOK'
  BY <1>4 DEF AbortRecord, RollupTypeOK
<1> QED BY <1>2, <1>4, <1>5

\* Maintenance: what the run loads, builds and writes.
LEMMA LoadType ==
    ASSUME RollupTypeOK, loadDirtyBatch
    PROVE  /\ RollupTypeOK' /\ DOMAIN job'.built = {} /\ job'.pc \in {"rebuild", "advance"}
           /\ \A b \in DOMAIN job'.batch : b \in Buckets /\ job'.batch[b] = dirty[b] /\ dirty[b] # 0
<1>1. DOMAIN Batch \subseteq Buckets /\ \A b \in DOMAIN Batch : Batch[b] = dirty[b] /\ dirty[b] # 0
  BY DEF Batch
<1>2. Batch \in [DOMAIN Batch -> Nat]
  BY <1>1 DEF Batch, RollupTypeOK
<1> DEFINE j == [NoRun EXCEPT !.pc = "rebuild", !.batch = Batch]
<1>3. IsRun(j) /\ j.batch = Batch /\ DOMAIN j.built = {} /\ j.pc = "rebuild"
  BY <1>1, <1>2 DEF NoRun, IsRun
<1>4. job' = [NoRun EXCEPT !.pc = "advance"] \/ job' = j
  BY DEF loadDirtyBatch
<1> HIDE DEF j
<1>5. /\ IsRun(job') /\ DOMAIN job'.built = {} /\ job'.pc \in {"rebuild", "advance"}
      /\ DOMAIN job'.batch = {} \/ job'.batch = Batch
  BY <1>3, <1>4, FreshRun
<1> QED BY <1>1, <1>5 DEF loadDirtyBatch, RollupTypeOK

LEMMA RebuildBucketType ==
    ASSUME RollupTypeOK, rebuildBucket
    PROVE  /\ RollupTypeOK' /\ job'.pc = job.pc /\ job'.batch = job.batch
           /\ \E b \in DOMAIN job.batch \ DOMAIN job.built :
                 /\ DOMAIN job'.built = DOMAIN job.built \cup {b} /\ job'.built[b] = RowsOf(b)
                 /\ \A c \in DOMAIN job.built : job'.built[c] = job.built[c]
<1>1. PICK b \in DOMAIN job.batch \ DOMAIN job.built :
         job' = [job EXCEPT !.built = [c \in DOMAIN job.built \cup {b} |->
                                          IF c = b THEN RowsOf(b) ELSE job.built[c]]]
  BY DEF rebuildBucket
<1>2. PICK f : f = [c \in DOMAIN job.built \cup {b} |-> IF c = b THEN RowsOf(b) ELSE job.built[c]]
  OBVIOUS
<1>3. IsRun(job) /\ RowsOf(b) \in SUBSET Rows
  BY DEF RollupTypeOK, RowsOf
<1>4. /\ DOMAIN f = DOMAIN job.built \cup {b} /\ f[b] = RowsOf(b)
      /\ \A c \in DOMAIN job.built : f[c] = job.built[c]
      /\ f \in [DOMAIN f -> SUBSET Rows]
  BY <1>2, <1>3 DEF IsRun
<1>5. job' = [job EXCEPT !.built = f]
  BY <1>1, <1>2
<1>6. /\ IsRun(job') /\ job'.pc = job.pc /\ job'.batch = job.batch /\ job'.built = f
  BY <1>3, <1>4, <1>5 DEF IsRun
<1> QED BY <1>4, <1>6 DEF rebuildBucket, RollupTypeOK

LEMMA RebuildType ==
    ASSUME RollupTypeOK, rebuildDirtyBatchTx
    PROVE  /\ RollupTypeOK' /\ DOMAIN job'.batch = {} /\ DOMAIN job'.built = {} /\ job'.pc \in {"advance", "load"}
           /\ \A b \in Buckets : hourly'[b] = IF b \in DOMAIN job.built THEN job.built[b] ELSE hourly[b]
           /\ \A b \in Buckets : dirty'[b] = IF Consumed(b) THEN 0 ELSE dirty[b]
<1>1. /\ IsRun(job') /\ DOMAIN job'.batch = {} /\ DOMAIN job'.built = {}
      /\ job'.pc \in {"advance", "load"}
  <2>1. job' = [NoRun EXCEPT !.pc = "advance"] \/ job' = [NoRun EXCEPT !.pc = "load"]
    BY DEF rebuildDirtyBatchTx
  <2> QED BY <2>1, FreshRun
<1>2. \A b \in Buckets : Rebuilt[b] = (IF b \in DOMAIN job.built THEN job.built[b] ELSE hourly[b])
                         /\ Rebuilt[b] \in SUBSET Rows
  BY DEF Rebuilt, RollupTypeOK, IsRun
<1>3. hourly' \in [Buckets -> SUBSET Rows]
  BY <1>2 DEF rebuildDirtyBatchTx, Rebuilt
<1>4. dirty' \in [Buckets -> Nat] /\ \A b \in Buckets : dirty'[b] = IF Consumed(b) THEN 0 ELSE dirty[b]
  BY DEF rebuildDirtyBatchTx, RollupTypeOK
<1>5. \A m \in RolledMons, d \in Days : DayTotal(m, d) \in SUBSET Rows
  BY <1>2 DEF DayTotal, HoursOf, Buckets
<1>6. daily' \in [RolledMons \X Days -> SUBSET Rows]
  <2>1. \A k \in RolledMons \X Days : DayTotal(k[1], k[2]) \in SUBSET Rows /\ daily[k] \in SUBSET Rows
    BY <1>5 DEF RollupTypeOK
  <2> QED BY <2>1 DEF rebuildDirtyBatchTx
<1> QED BY <1>1, <1>2, <1>3, <1>4, <1>6 DEF rebuildDirtyBatchTx, RollupTypeOK

LEMMA AdvanceType ==
    ASSUME RollupTypeOK, advanceRollupCursor
    PROVE  RollupTypeOK' /\ DOMAIN job'.batch = {} /\ DOMAIN job'.built = {} /\ job'.pc = "prune"
<1>1. IsRun(job') /\ DOMAIN job'.batch = {} /\ DOMAIN job'.built = {} /\ job'.pc = "prune"
  BY FreshRun DEF advanceRollupCursor
<1>2. \A r \in raw : Tuple(r) \in (Hours \cup {-1}) \X (Rows \cup {0})
  BY RecordType DEF Tuple, RollupTypeOK
<1>3. cursor' \in (Hours \cup {-1}) \X (Rows \cup {0})
  BY <1>2 DEF advanceRollupCursor, RollupTypeOK
<1> QED BY <1>1, <1>3 DEF advanceRollupCursor, RollupTypeOK

LEMMA PruneTablesType ==
    ASSUME RollupTypeOK, pruneRollupTables
    PROVE  /\ RollupTypeOK' /\ job' = NoRun
           /\ \A b \in Buckets : hourly'[b] = IF Expired(b) THEN {} ELSE hourly[b]
           /\ \A b \in Buckets : Expired(b) => hourly[b] \subseteq dropped'
           /\ dropped \subseteq dropped'
           /\ \A r \in dropped' \ dropped : \E b \in Buckets : Expired(b) /\ r \in hourly[b]
<1>1. IsRun(job')
  BY FreshRun DEF pruneRollupTables
<1>2. hourly' \in [Buckets -> SUBSET Rows] /\ daily' \in [RolledMons \X Days -> SUBSET Rows]
  BY DEF pruneRollupTables, RollupTypeOK
<1>3. dropped' \subseteq Rows
  BY DEF pruneRollupTables, RollupTypeOK
<1> QED BY <1>1, <1>2, <1>3 DEF pruneRollupTables, RollupTypeOK

LEMMA StartPurgeType ==
    ASSUME RollupTypeOK, StartPurge
    PROVE  /\ RollupTypeOK' /\ DOMAIN job'.batch = {} /\ DOMAIN job'.built = {}
           /\ job'.mon \in RolledMons /\ live[job'.mon] = "tombstoned" /\ job'.pc = "purge_rollups"
<1>1. PICK m \in RolledMons : live[m] = "tombstoned" /\ job' = [NoRun EXCEPT !.pc = "purge_rollups", !.mon = m]
  BY DEF StartPurge
<1>2. /\ IsRun(job') /\ DOMAIN job'.batch = {} /\ DOMAIN job'.built = {}
      /\ job'.mon = m /\ job'.pc = "purge_rollups"
  BY <1>1, FreshRun
<1> QED BY <1>1, <1>2 DEF StartPurge, RollupTypeOK

\* The steps of a purge that has begun.
LEMMA PurgeType ==
    ASSUME RollupTypeOK, purgeRollups \/ purgeRaw \/ purgeMonitor
    PROVE  /\ RollupTypeOK' /\ UNCHANGED <<hour, stamps, record, cursor, fails, dropped>>
           /\ \/ job' = NoRun
              \/ /\ job'.mon = job.mon /\ job'.batch = job.batch /\ job'.built = job.built
                 /\ job'.pc \in {"purge_rollups", "purge_raw", "purge_monitor"}
                 /\ UNCHANGED <<live, dirty>>
           /\ \A m \in RolledMons : m # job.mon => live'[m] = live[m]
           /\ \A m \in RolledMons : live'[m] = live[m] \/ live'[m] = "gone"
           /\ \A b \in Buckets : b[1] # job.mon => hourly'[b] = hourly[b] /\ dirty'[b] = dirty[b]
           /\ \A b \in Buckets : hourly'[b] \in {{}, hourly[b]} /\ dirty'[b] \in {0, dirty[b]}
           /\ \A k \in RolledMons \X Days : k[1] # job.mon => daily'[k] = daily[k]
           /\ raw' \subseteq raw /\ \A r \in raw : record[r].mon # job.mon => r \in raw'
<1>0. /\ hourly \in [Buckets -> SUBSET Rows] /\ daily \in [RolledMons \X Days -> SUBSET Rows]
      /\ dirty \in [Buckets -> Nat] /\ live \in [RolledMons -> {"live", "tombstoned", "gone"}]
      /\ IsRun(job) /\ raw \subseteq Rows
  BY DEF RollupTypeOK
<1>1. CASE purgeRollups
  <2>1. job' = [job EXCEPT !.pc = "purge_raw"]
    BY <1>1 DEF purgeRollups
  <2>2. IsRun(job') /\ job'.mon = job.mon /\ job'.batch = job.batch /\ job'.built = job.built
        /\ job'.pc = "purge_raw"
    BY <1>0, <2>1 DEF IsRun
  <2>3. hourly' \in [Buckets -> SUBSET Rows] /\ daily' \in [RolledMons \X Days -> SUBSET Rows]
    BY <1>0, <1>1 DEF purgeRollups
  <2>4. RollupTypeOK'
    BY <1>1, <2>2, <2>3 DEF purgeRollups, RollupTypeOK
  <2> QED BY <1>1, <2>2, <2>4 DEF purgeRollups
<1>2. CASE purgeRaw
  <2>1. job' = job \/ job' = [job EXCEPT !.pc = "purge_monitor"]
    BY <1>2 DEF purgeRaw
  <2>2. job.pc = "purge_raw"
    BY <1>2 DEF purgeRaw
  <2>3. IsRun(job') /\ job'.mon = job.mon /\ job'.batch = job.batch /\ job'.built = job.built
        /\ job'.pc \in {"purge_raw", "purge_monitor"}
    BY <1>0, <2>1, <2>2 DEF IsRun
  <2>4. raw' \subseteq raw /\ \A r \in raw : record[r].mon # job.mon => r \in raw'
    BY <1>2 DEF purgeRaw
  <2>5. UNCHANGED <<hour, stamps, live, record, dirty, hourly, daily, cursor, fails, dropped>>
    BY <1>2 DEF purgeRaw
  <2>6. RollupTypeOK'
    BY <2>3, <2>4, <2>5 DEF RollupTypeOK
  <2> QED BY <2>3, <2>4, <2>5, <2>6
<1>3. CASE purgeMonitor
  <2>1. IsRun(job') /\ job' = NoRun
    BY <1>3, FreshRun DEF purgeMonitor
  <2>2. hourly' \in [Buckets -> SUBSET Rows] /\ daily' \in [RolledMons \X Days -> SUBSET Rows]
    BY <1>0, <1>3 DEF purgeMonitor
  <2>3. dirty' \in [Buckets -> Nat] /\ live' \in [RolledMons -> {"live", "tombstoned", "gone"}]
    BY <1>0, <1>3 DEF purgeMonitor
  <2>4. /\ \A m \in RolledMons : m # job.mon => live'[m] = live[m]
        /\ \A m \in RolledMons : live'[m] = live[m] \/ live'[m] = "gone"
    BY <1>0, <1>3 DEF purgeMonitor
  <2>5. RollupTypeOK'
    BY <1>3, <2>1, <2>2, <2>3 DEF purgeMonitor, RollupTypeOK
  <2> QED BY <1>3, <2>1, <2>4, <2>5 DEF purgeMonitor
<1> QED BY <1>1, <1>2, <1>3

\* The steps that touch one variable of simple type.
LEMMA OtherTypes ==
    ASSUME RollupTypeOK, \/ StartRollups \/ AbandonRun \/ TickHour
                         \/ \E m \in RolledMons : Tombstone(m)
                         \/ \E r \in Rows : pruneTenantCheckResults(r)
                         \/ UNCHANGED rollupVars
    PROVE  RollupTypeOK'
<1>1. CASE StartRollups
  BY <1>1, FreshRun DEF StartRollups, RollupTypeOK
<1>2. CASE AbandonRun
  <2>1. IsRun(job')
    BY <1>2, FreshRun DEF AbandonRun
  <2>2. fails' \in 0..MaxFails
    BY <1>2, RollupAssumption DEF AbandonRun, RollupTypeOK
  <2> QED BY <1>2, <2>1, <2>2 DEF AbandonRun, RollupTypeOK
<1>3. CASE TickHour
  BY <1>3, RollupAssumption DEF TickHour, RollupTypeOK, Hours
<1>4. ASSUME NEW m \in RolledMons, Tombstone(m)
      PROVE  RollupTypeOK'
  BY <1>4 DEF Tombstone, RollupTypeOK
<1>5. ASSUME NEW r \in Rows, pruneTenantCheckResults(r)
      PROVE  RollupTypeOK'
  BY <1>5 DEF pruneTenantCheckResults, RollupTypeOK
<1>6. CASE UNCHANGED rollupVars
  BY <1>6 DEF rollupVars, RollupTypeOK
<1> QED BY <1>1, <1>2, <1>3, <1>4, <1>5, <1>6

-----------------------------------------------------------------------------
(* The invariant holds at first and is kept by every step.                 *)

LEMMA LedgerStarts ==
    RollupInit => RollupTypeOK /\ LedgerInv
<1> SUFFICES ASSUME RollupInit PROVE RollupTypeOK /\ LedgerInv
  OBVIOUS
<1>1. NoRecord \in RecordState /\ NoRecord.st = "none"
  BY HoursAreNumbers DEF NoRecord, RecordState, Hours
<1>2. record \in [Rows -> RecordState] /\ \A r \in Rows : record[r].st = "none"
  BY <1>1 DEF RollupInit
<1>3. /\ dirty \in [Buckets -> Nat] /\ hourly \in [Buckets -> SUBSET Rows]
      /\ \A b \in Buckets : dirty[b] = 0 /\ hourly[b] = {}
  BY DEF RollupInit
<1>4. /\ daily \in [RolledMons \X Days -> SUBSET Rows]
      /\ live \in [RolledMons -> {"live", "tombstoned", "gone"}]
      /\ cursor \in (Hours \cup {-1}) \X (Rows \cup {0})
  BY DEF RollupInit
<1>5. hour \in Hours /\ stamps = 0 /\ fails \in 0..MaxFails /\ raw = {} /\ dropped = {} /\ job = NoRun
  BY HoursAreNumbers, RollupAssumption DEF RollupInit, Hours
<1>6. RollupTypeOK
  BY <1>2, <1>3, <1>4, <1>5, FreshRun DEF RollupTypeOK
<1>7. Recorders /\ Marks /\ Counts /\ Settled /\ FoldedOrMarked
  BY <1>2, <1>3, <1>5 DEF Recorders, Marks, Counts, Settled, FoldedOrMarked, Recording, Holding
<1>8. Run
  BY <1>5, FreshRun DEF Run
<1> QED BY <1>6, <1>7, <1>8 DEF LedgerInv

LEMMA BucketType ==
    ASSUME RollupTypeOK, NEW r \in Rows, record[r].mon \in RolledMons
    PROVE  Bucket(r) \in Buckets /\ Bucket(r)[1] = record[r].mon /\ Bucket(r)[2] = record[r].at
BY RecordType DEF Bucket, Buckets

\* Nothing that is counted, or was, is still to be recorded: a transaction that
\* has not committed disturbs none of it.
LEMMA OthersCounted ==
    ASSUME RollupTypeOK, LedgerInv, NEW r \in Rows, ~Done(r),
           \A q \in Rows : q # r => record'[q] = record[q],
           UNCHANGED <<hour, live, raw, dirty, hourly, job, dropped>>
    PROVE  Counts' /\ Settled' /\ Run' /\ FoldedOrMarked'
<1>1. /\ raw \cup dropped \subseteq Rows /\ IsRun(job)
      /\ \A b \in Buckets : hourly[b] \subseteq Rows
      /\ \A b \in DOMAIN job.built : b \in Buckets /\ job.built[b] \subseteq Rows
  BY DEF RollupTypeOK, IsRun
<1>2. /\ r \notin raw \cup dropped
      /\ \A b \in Buckets : r \notin hourly[b]
      /\ \A b \in DOMAIN job.built : r \notin job.built[b]
  BY DEF LedgerInv, Counts, Run
<1>3. \A q \in Rows : q # r => /\ Done(q)' = Done(q) /\ Bucket(q)' = Bucket(q)
                               /\ record'[q].stamp = record[q].stamp
                               /\ record'[q].mon = record[q].mon
  BY DEF Done, Bucket
<1>4. Counts'
  BY <1>1, <1>2, <1>3 DEF LedgerInv, Counts
<1>5. Settled'
  BY DEF LedgerInv, Settled
<1>6. Run'
  <2>1. \A q \in raw : q \in Rows /\ q # r
    BY <1>1, <1>2
  <2>2. \A b \in DOMAIN job.built : \A q \in job.built[b] : q \in Rows /\ q # r
    BY <1>1, <1>2
  <2> QED BY <1>3, <2>1, <2>2 DEF LedgerInv, Run
<1>7. FoldedOrMarked'
  BY <1>1, <1>2, <1>3 DEF LedgerInv, FoldedOrMarked
<1> QED BY <1>4, <1>5, <1>6, <1>7

LEMMA BeginKeeps ==
    ASSUME RollupTypeOK, LedgerInv, NEW r \in Rows, NEW m \in RolledMons, NEW h \in Hours,
           BeginRecord(r, m, h)
    PROVE  LedgerInv'
<1>1. /\ UNCHANGED <<hour, live, raw, dirty, hourly, job, dropped>> /\ ~Done(r)
      /\ live[m] = "live" /\ stamps \in Nat /\ hour \in Nat
  BY HoursAreNumbers DEF BeginRecord, Done, RollupTypeOK
<1>2. /\ record'[r].st = "open" /\ record'[r].mon = m
      /\ record'[r].began = stamps + 1 /\ record'[r].began_hour = hour
      /\ stamps' = stamps + 1
      /\ \A q \in Rows : q # r => record'[q] = record[q]
  BY BeginType
<1>3. Recorders'
  <2>1. ASSUME NEW q \in Rows, q # r
        PROVE  /\ record'[q].st # "none" => record'[q].mon \in RolledMons /\ record'[q].began \in 1..stamps'
               /\ record'[q].st \in {"open", "written"}
                     => live'[record'[q].mon] = "live" /\ hour' <= record'[q].began_hour + 1
    <3>1. record[q].began \in 1..stamps => record[q].began \in 1..(stamps + 1)
      BY <1>1
    <3> QED BY <1>1, <1>2, <2>1, <3>1 DEF LedgerInv, Recorders, Recording
  <2>2. /\ record'[r].mon \in RolledMons /\ record'[r].began \in 1..stamps'
        /\ live'[record'[r].mon] = "live" /\ hour' <= record'[r].began_hour + 1
    BY <1>1, <1>2
  <2> QED BY <2>1, <2>2 DEF Recorders, Recording
<1>4. Marks'
  <2>1. \A b \in Buckets : dirty[b] \in Nat /\ dirty[b] <= stamps
    BY DEF LedgerInv, Marks, RollupTypeOK
  <2>2. \A b \in Buckets : dirty'[b] <= stamps'
    BY <1>1, <1>2, <2>1
  <2>3. ~(Holding(r)')
    BY <1>2 DEF Holding
  <2>4. \A q \in Rows : q # r => /\ Holding(q)' = Holding(q) /\ Bucket(q)' = Bucket(q)
                                 /\ Markable(q)' = Markable(q) /\ record'[q].stamp = record[q].stamp
                                 /\ record[q].stamp \in Nat
    BY <1>2, RecordType DEF Holding, Bucket, Markable
  <2>5. \A q \in Rows : Holding(q)' =>
           /\ dirty[Bucket(q)] < record[q].stamp /\ record[q].stamp <= stamps' /\ Markable(q)
           /\ \A p \in Rows : Holding(p)' /\ Bucket(p) = Bucket(q) => p = q
    BY <1>1, <1>2, <2>3, <2>4 DEF LedgerInv, Marks
  <2> QED BY <1>1, <2>2, <2>3, <2>4, <2>5 DEF Marks
<1>5. Counts' /\ Settled' /\ Run' /\ FoldedOrMarked'
  BY <1>1, <1>2, OthersCounted
<1> QED BY <1>3, <1>4, <1>5 DEF LedgerInv

LEMMA InsertKeeps ==
    ASSUME RollupTypeOK, LedgerInv, NEW r \in Rows, insertRow(r)
    PROVE  RollupTypeOK' /\ LedgerInv'
<1>1. /\ UNCHANGED <<hour, live, raw, dirty, hourly, job, dropped>> /\ ~Done(r) /\ Recording(r)
      /\ record[r].st = "open" /\ stamps \in Nat
      /\ Markable(r) => ~MarkHeld(Bucket(r), r)
  BY DEF insertRow, Done, Recording, RollupTypeOK
<1>2. /\ record[r].mon \in RolledMons /\ record[r].began \in 1..stamps
      /\ live[record[r].mon] = "live" /\ hour <= record[r].began_hour + 1
  BY <1>1 DEF LedgerInv, Recorders
<1>3. /\ RollupTypeOK'
      /\ record'[r].st = "written" /\ record'[r].mon = record[r].mon /\ record'[r].at = record[r].at
      /\ record'[r].began = record[r].began /\ record'[r].began_hour = record[r].began_hour
      /\ record'[r].stamp # 0 => Markable(r) /\ record'[r].stamp = MarkStamp(r)
      /\ stamps' = stamps + 1
      /\ \A q \in Rows : q # r => record'[q] = record[q]
  BY <1>2, InsertType
<1>4. Recorders'
  <2>1. \A q \in Rows : record[q].began \in 1..stamps => record[q].began \in 1..stamps'
    BY <1>1, <1>3
  <2>2. \A q \in Rows : record'[q].st # "none" =>
           /\ record[q].st # "none" /\ record'[q].mon = record[q].mon /\ record'[q].began = record[q].began
           /\ record'[q].began_hour = record[q].began_hour
    BY <1>1, <1>3
  <2>3. \A q \in Rows : record'[q].st \in {"open", "written"} => record[q].st \in {"open", "written"}
    BY <1>1, <1>3
  <2>4. \A q \in Rows : record'[q].st # "none" => record'[q].mon \in RolledMons /\ record'[q].began \in 1..stamps'
    BY <2>1, <2>2 DEF LedgerInv, Recorders
  <2>5. \A q \in Rows : record'[q].st \in {"open", "written"} =>
           live'[record'[q].mon] = "live" /\ hour' <= record'[q].began_hour + 1
    BY <1>1, <2>2, <2>3 DEF LedgerInv, Recorders, Recording
  <2> QED BY <2>4, <2>5 DEF Recorders, Recording
<1>5. Marks'
  <2>1. \A b \in Buckets : dirty[b] \in Nat /\ dirty[b] <= stamps
    BY DEF LedgerInv, Marks, RollupTypeOK
  <2>2. \A b \in Buckets : dirty'[b] <= stamps'
    BY <1>1, <1>3, <2>1
  <2>3. \A q \in Rows : /\ Bucket(q)' = Bucket(q) /\ Markable(q)' = Markable(q)
                        /\ q # r => Holding(q)' = Holding(q) /\ record'[q].stamp = record[q].stamp
                        /\ record[q].stamp \in Nat
    BY <1>3, RecordType DEF Holding, Bucket, Markable
  <2>4. Holding(r)' => /\ dirty[Bucket(r)] < record'[r].stamp /\ record'[r].stamp <= stamps'
                       /\ Markable(r)
                       /\ \A q \in Rows : Holding(q)' /\ Bucket(q) = Bucket(r) => q = r
    <3> SUFFICES ASSUME Holding(r)'
                 PROVE  /\ dirty[Bucket(r)] < record'[r].stamp /\ record'[r].stamp <= stamps'
                        /\ Markable(r)
                        /\ \A q \in Rows : Holding(q)' /\ Bucket(q) = Bucket(r) => q = r
      OBVIOUS
    <3>1. Markable(r) /\ record'[r].stamp = MarkStamp(r)
      BY <1>3 DEF Holding
    <3>2. Bucket(r) \in Buckets
      BY <1>2, BucketType
    <3>3. dirty[Bucket(r)] < MarkStamp(r) /\ MarkStamp(r) <= stamps + 1
      BY <1>1, <1>2, <2>1, <3>2 DEF MarkStamp
    <3>4. \A q \in Rows : q # r /\ Bucket(q) = Bucket(r) => ~Holding(q)
      BY <1>1, <3>1 DEF MarkHeld, Holding
    <3> QED BY <1>3, <2>3, <3>1, <3>3, <3>4
  <2>5. ASSUME NEW q \in Rows, q # r, Holding(q)
        PROVE  /\ dirty[Bucket(q)] < record[q].stamp /\ record[q].stamp <= stamps'
               /\ Markable(q)
               /\ \A p \in Rows : Holding(p)' /\ Bucket(p) = Bucket(q) => p = q
    <3>1. /\ dirty[Bucket(q)] < record[q].stamp /\ record[q].stamp <= stamps /\ Markable(q)
          /\ \A p \in Rows : Holding(p) /\ Bucket(p) = Bucket(q) => p = q
      BY <2>5 DEF LedgerInv, Marks
    <3>2. Holding(r)' => Bucket(q) # Bucket(r)
      BY <2>3, <2>4, <2>5
    <3>3. record[q].stamp <= stamps'
      BY <1>1, <1>3, <2>3, <3>1
    <3> QED BY <2>3, <3>1, <3>2, <3>3
  <2> QED BY <1>1, <2>2, <2>3, <2>4, <2>5 DEF Marks
<1>6. Counts' /\ Settled' /\ Run' /\ FoldedOrMarked'
  BY <1>1, <1>3, OthersCounted
<1> QED BY <1>3, <1>4, <1>5, <1>6 DEF LedgerInv

LEMMA AbortKeeps ==
    ASSUME RollupTypeOK, LedgerInv, NEW r \in Rows, AbortRecord(r)
    PROVE  LedgerInv'
<1>1. UNCHANGED <<hour, stamps, live, raw, dirty, hourly, job, dropped>> /\ ~Done(r) /\ Recording(r)
  BY DEF AbortRecord, Done, Recording
<1>2. /\ record'[r].st = "aborted" /\ record'[r].mon = record[r].mon
      /\ record'[r].began = record[r].began
      /\ \A q \in Rows : q # r => record'[q] = record[q]
  BY AbortType
<1>3. Recorders'
  <2>1. record[r].mon \in RolledMons /\ record[r].began \in 1..stamps
    BY <1>1 DEF LedgerInv, Recorders, Recording
  <2> QED BY <1>1, <1>2, <2>1 DEF LedgerInv, Recorders, Recording
<1>4. Marks'
  <2>1. ~(Holding(r)')
    BY <1>2 DEF Holding
  <2>2. \A q \in Rows : q # r => /\ Holding(q)' = Holding(q) /\ Bucket(q)' = Bucket(q)
                                 /\ Markable(q)' = Markable(q) /\ record'[q].stamp = record[q].stamp
    BY <1>2 DEF Holding, Bucket, Markable
  <2> QED BY <1>1, <2>1, <2>2 DEF LedgerInv, Marks
<1>5. Counts' /\ Settled' /\ Run' /\ FoldedOrMarked'
  BY <1>1, <1>2, OthersCounted
<1> QED BY <1>3, <1>4, <1>5 DEF LedgerInv

\* The commit raises the mark of its bucket above the one a run has loaded.
LEMMA CommitKeeps ==
    ASSUME RollupTypeOK, LedgerInv, NEW r \in Rows, CommitRecord(r)
    PROVE  RollupTypeOK' /\ LedgerInv'
<1>1. /\ UNCHANGED <<hour, stamps, live, hourly, job, dropped>> /\ ~Done(r) /\ Recording(r)
      /\ record[r].st = "written" /\ raw' = raw \cup {r} /\ hour \in Nat
  BY HoursAreNumbers DEF CommitRecord, Done, Recording, RollupTypeOK
<1>2. /\ record[r].mon \in RolledMons /\ record[r].began \in 1..stamps
      /\ live[record[r].mon] = "live" /\ hour <= record[r].began_hour + 1
  BY <1>1 DEF LedgerInv, Recorders
<1>3. /\ RollupTypeOK'
      /\ record'[r].st = "done" /\ record'[r].mon = record[r].mon /\ record'[r].at = record[r].at
      /\ record'[r].began = record[r].began /\ record'[r].began_hour = record[r].began_hour
      /\ record'[r].stamp = record[r].stamp
      /\ \A q \in Rows : q # r => record'[q] = record[q]
      /\ \A b \in Buckets : dirty'[b] = IF b = Bucket(r) /\ record[r].stamp # 0
                                        THEN record[r].stamp ELSE dirty[b]
  BY <1>2, CommitType
<1>4. Bucket(r) \in Buckets /\ Bucket(r)[1] = record[r].mon /\ Bucket(r)[2] = record[r].at
  BY <1>2, BucketType
<1>5. \A q \in Rows : /\ Bucket(q)' = Bucket(q) /\ Markable(q)' = Markable(q)
                      /\ Holding(q)' <=> (Holding(q) /\ q # r)
                      /\ record'[q].stamp = record[q].stamp /\ record'[q].mon = record[q].mon
                      /\ Done(q) => Done(q)'
  BY <1>3 DEF Holding, Bucket, Markable, Done
<1>6. record[r].stamp # 0 =>
         /\ Holding(r) /\ dirty[Bucket(r)] < record[r].stamp /\ record[r].stamp <= stamps /\ Markable(r)
         /\ \A q \in Rows : Holding(q) /\ Bucket(q) = Bucket(r) => q = r
  BY <1>1 DEF LedgerInv, Marks, Holding
<1>7. \A b \in Buckets : /\ dirty[b] \in Nat /\ dirty'[b] \in Nat /\ dirty[b] <= dirty'[b]
                         /\ dirty'[b] # dirty[b] => /\ b = Bucket(r) /\ record[r].stamp # 0
                         /\ b = Bucket(r) /\ record[r].stamp # 0 => dirty[b] < dirty'[b]
  <2> TAKE b \in Buckets
  <2>1. dirty[b] \in Nat /\ dirty'[b] \in Nat
    BY <1>3 DEF RollupTypeOK
  <2>2. CASE b = Bucket(r) /\ record[r].stamp # 0
    BY <1>3, <1>6, <2>1, <2>2
  <2>3. CASE ~(b = Bucket(r) /\ record[r].stamp # 0)
    BY <1>3, <2>1, <2>3
  <2> QED BY <2>2, <2>3
<1>8. Recorders'
  BY <1>1, <1>2, <1>3 DEF LedgerInv, Recorders, Recording
<1>9. Marks'
  <2>1. ASSUME NEW b \in Buckets PROVE dirty'[b] <= stamps'
    BY <1>1, <1>3, <1>6 DEF LedgerInv, Marks
  <2>2. ASSUME NEW q \in Rows, Holding(q), q # r
        PROVE  dirty'[Bucket(q)] < record[q].stamp
    <3>1. record[q].mon \in RolledMons
      BY <2>2 DEF LedgerInv, Recorders, Holding
    <3>2. Bucket(q) \in Buckets
      BY <3>1, BucketType
    <3>3. dirty[Bucket(q)] < record[q].stamp /\ (record[r].stamp # 0 => Bucket(q) # Bucket(r))
      BY <1>6, <2>2 DEF LedgerInv, Marks
    <3> QED BY <1>3, <3>2, <3>3
  <2> QED BY <1>1, <1>5, <2>1, <2>2 DEF LedgerInv, Marks
<1>10. Counts'
  <2>1. /\ raw \cup dropped \subseteq Rows
        /\ \A b \in Buckets : hourly[b] \subseteq Rows
    BY DEF RollupTypeOK
  <2>2. Done(r)'
    BY <1>3 DEF Done
  <2> QED BY <1>1, <1>5, <2>1, <2>2 DEF LedgerInv, Counts
<1>11. Settled'
  <2>1. ASSUME NEW b \in Buckets, NEW q \in hourly[b], q \notin raw, live[b[1]] = "live"
        PROVE  b[2] < hour - RawRetention - 1 /\ dirty'[b] = 0
    <3>1. b[2] < hour - RawRetention - 1 /\ dirty[b] = 0
      BY <2>1 DEF LedgerInv, Settled
    <3>2. CASE b = Bucket(r) /\ record[r].stamp # 0
      <4>1. record[r].at >= record[r].began_hour - RawRetention
        BY <1>6, <3>2 DEF Markable
      <4>2. record[r].at \in Nat /\ record[r].began_hour \in Nat /\ RawRetention \in Nat
        BY RecordType, HoursAreNumbers
      <4>3. record[r].at < hour - RawRetention - 1
        BY <1>4, <3>1, <3>2
      <4> QED BY <1>1, <1>2, <4>1, <4>2, <4>3
    <3>3. CASE ~(b = Bucket(r) /\ record[r].stamp # 0)
      BY <1>3, <3>1, <3>3
    <3> QED BY <3>2, <3>3
  <2> QED BY <1>1, <2>1 DEF Settled
<1>12. Run'
  <2>0. /\ DOMAIN job.batch \subseteq Buckets /\ DOMAIN job.built \subseteq DOMAIN job.batch
        /\ \A b \in DOMAIN job.batch : job.batch[b] \in Nat
        /\ \A b \in DOMAIN job.built : job.built[b] \subseteq Rows
        /\ raw \subseteq Rows
    BY DEF RollupTypeOK, IsRun
  <2>1. \A b \in DOMAIN job.batch : job.batch[b] # 0 /\ job.batch[b] <= dirty'[b]
    BY <1>7, <2>0 DEF LedgerInv, Run
  <2>2. ASSUME NEW b \in DOMAIN job.built
        PROVE  \A q \in job.built[b] : Done(q)' /\ Bucket(q)' = b
    BY <1>5, <2>0 DEF LedgerInv, Run
  <2>3. ASSUME NEW b \in DOMAIN job.built, live[b[1]] = "live"
        PROVE  hourly[b] \subseteq job.built[b] /\ job.built[b] \subseteq raw \cup {r}
    BY <2>3 DEF LedgerInv, Run
  <2>4. ASSUME NEW b \in DOMAIN job.built, live[b[1]] = "live",
               NEW q \in raw \cup {r}, Bucket(q) = b, record[q].stamp # 0
        PROVE  q \in job.built[b] \/ job.batch[b] < dirty'[b]
    <3>1. /\ b \in Buckets /\ job.batch[b] \in Nat /\ dirty[b] \in Nat /\ dirty'[b] \in Nat
          /\ dirty[b] <= dirty'[b] /\ job.batch[b] <= dirty[b]
      BY <1>7, <2>0 DEF LedgerInv, Run
    <3>2. CASE q = r
      BY <1>7, <2>4, <3>1, <3>2
    <3>3. CASE q \in raw
      <4>1. q \in job.built[b] \/ job.batch[b] < dirty[b]
        BY <2>4, <3>3 DEF LedgerInv, Run
      <4> QED BY <3>1, <4>1
    <3> QED BY <3>2, <3>3
  <2>5. job.pc \in {"purge_rollups", "purge_raw", "purge_monitor"}
          => job.mon \in RolledMons /\ live[job.mon] # "live" /\ DOMAIN job.batch = {}
    BY DEF LedgerInv, Run
  <2>6. \A q \in raw' : q \in Rows
    BY <1>1, <2>0
  <2> QED BY <1>1, <1>5, <2>1, <2>2, <2>3, <2>4, <2>5, <2>6 DEF Run
<1>13. FoldedOrMarked'
  <2>1. ASSUME NEW q \in raw, record[q].stamp # 0, live[record[q].mon] = "live"
        PROVE  q \in hourly[Bucket(q)] \cup dropped \/ dirty'[Bucket(q)] # 0
    <3>1. q \in hourly[Bucket(q)] \cup dropped \/ dirty[Bucket(q)] # 0
      BY <2>1 DEF LedgerInv, FoldedOrMarked
    <3>2. q \in Rows /\ record[q].mon \in RolledMons
      BY DEF LedgerInv, Counts, Recorders, Done, RollupTypeOK
    <3>3. Bucket(q) \in Buckets
      BY <3>2, BucketType
    <3> QED BY <1>7, <3>1, <3>3
  <2>2. record[r].stamp # 0 => dirty'[Bucket(r)] # 0
    BY <1>3, <1>4
  <2>3. \A q \in raw' : q \in Rows
    BY <1>1 DEF RollupTypeOK
  <2> QED BY <1>1, <1>5, <2>1, <2>2, <2>3 DEF FoldedOrMarked
<1> QED BY <1>3, <1>8, <1>9, <1>10, <1>11, <1>12, <1>13 DEF LedgerInv

\* A run that has nothing loaded.
LEMMA EmptyRunKeeps ==
    ASSUME LedgerInv, UNCHANGED <<hour, stamps, live, record, raw, dirty, hourly, dropped>>,
           DOMAIN job'.batch = {}, DOMAIN job'.built = {},
           job'.pc \in {"purge_rollups", "purge_raw", "purge_monitor"}
             => job'.mon \in RolledMons /\ live[job'.mon] # "live"
    PROVE  LedgerInv'
<1>1. Recorders'
  BY DEF LedgerInv, Recorders, Recording
<1>2. Marks'
  BY DEF LedgerInv, Marks, Holding, Bucket, Markable
<1>3. Counts' /\ Settled' /\ FoldedOrMarked'
  BY DEF LedgerInv, Counts, Settled, FoldedOrMarked, Done, Bucket
<1>4. Run'
  BY DEF Run
<1> QED BY <1>1, <1>2, <1>3, <1>4 DEF LedgerInv

LEMMA LoadKeeps ==
    ASSUME RollupTypeOK, LedgerInv, loadDirtyBatch
    PROVE  LedgerInv'
<1>1. UNCHANGED <<hour, stamps, live, record, raw, dirty, hourly, dropped>>
  BY DEF loadDirtyBatch
<1>2. /\ DOMAIN job'.built = {} /\ job'.pc \in {"rebuild", "advance"}
      /\ \A b \in DOMAIN job'.batch : b \in Buckets /\ job'.batch[b] = dirty[b] /\ dirty[b] # 0
  BY LoadType
<1>3. Recorders'
  BY <1>1 DEF LedgerInv, Recorders, Recording
<1>4. Marks'
  BY <1>1 DEF LedgerInv, Marks, Holding, Bucket, Markable
<1>5. Counts' /\ Settled' /\ FoldedOrMarked'
  BY <1>1 DEF LedgerInv, Counts, Settled, FoldedOrMarked, Done, Bucket
<1>6. Run'
  <2>1. \A b \in DOMAIN job'.batch : job'.batch[b] # 0 /\ job'.batch[b] <= dirty'[b]
    BY <1>1, <1>2 DEF RollupTypeOK
  <2> QED BY <1>2, <2>1 DEF Run
<1> QED BY <1>3, <1>4, <1>5, <1>6 DEF LedgerInv

\* The marks of a batch stand, so retention has taken nothing its rebuild needs.
LEMMA RebuildBucketKeeps ==
    ASSUME RollupTypeOK, LedgerInv, rebuildBucket
    PROVE  LedgerInv'
<1>1. UNCHANGED <<hour, stamps, live, record, raw, dirty, hourly, dropped>> /\ job.pc = "rebuild"
  BY DEF rebuildBucket
<1>2. PICK b \in DOMAIN job.batch \ DOMAIN job.built :
         /\ DOMAIN job'.built = DOMAIN job.built \cup {b} /\ job'.built[b] = RowsOf(b)
         /\ \A c \in DOMAIN job.built : job'.built[c] = job.built[c]
  BY RebuildBucketType
<1>3. job'.pc = job.pc /\ job'.batch = job.batch
  BY RebuildBucketType
<1>4. Recorders'
  BY <1>1 DEF LedgerInv, Recorders, Recording
<1>5. Marks'
  BY <1>1 DEF LedgerInv, Marks, Holding, Bucket, Markable
<1>6. Counts' /\ Settled' /\ FoldedOrMarked'
  BY <1>1 DEF LedgerInv, Counts, Settled, FoldedOrMarked, Done, Bucket
<1>7. /\ \A r \in RowsOf(b) : Done(r) /\ Bucket(r) = b /\ r \in raw
      /\ \A r \in raw : Bucket(r) = b => r \in RowsOf(b)
  BY DEF LedgerInv, Counts, RowsOf
<1>8. live[b[1]] = "live" => hourly[b] \subseteq RowsOf(b)
  <2>1. b \in Buckets /\ job.batch[b] # 0 /\ job.batch[b] <= dirty[b]
    BY <1>2 DEF LedgerInv, Run, RollupTypeOK, IsRun
  <2>2. dirty[b] # 0
    BY <2>1 DEF RollupTypeOK, IsRun
  <2>3. \A r \in hourly[b] : Bucket(r) = b
    BY <2>1 DEF LedgerInv, Counts
  <2> QED BY <1>7, <2>1, <2>2, <2>3 DEF LedgerInv, Settled
<1>9. Run'
  <2>1. \A c \in DOMAIN job'.built :
          /\ \A r \in job'.built[c] : Done(r) /\ Bucket(r) = c
          /\ live[c[1]] = "live" =>
                /\ hourly[c] \subseteq job'.built[c] /\ job'.built[c] \subseteq raw
                /\ \A r \in raw : Bucket(r) = c /\ record[r].stamp # 0
                      => r \in job'.built[c] \/ job.batch[c] < dirty[c]
    <3> TAKE c \in DOMAIN job'.built
    <3>1. CASE c = b
      BY <1>2, <1>7, <1>8, <3>1
    <3>2. CASE c # b
      BY <1>2, <3>2 DEF LedgerInv, Run
    <3> QED BY <3>1, <3>2
  <2>2. \A r : Done(r)' = Done(r) /\ Bucket(r)' = Bucket(r)
    BY <1>1 DEF Done, Bucket
  <2>3. \A c \in DOMAIN job.batch : job.batch[c] # 0 /\ job.batch[c] <= dirty[c]
    BY DEF LedgerInv, Run
  <2> QED BY <1>1, <1>3, <2>1, <2>2, <2>3 DEF Run
<1> QED BY <1>4, <1>5, <1>6, <1>9 DEF LedgerInv

\* The conditional delete leaves the mark of every row the rebuild has missed.
LEMMA RebuildKeeps ==
    ASSUME RollupTypeOK, LedgerInv, rebuildDirtyBatchTx
    PROVE  LedgerInv'
<1>1. UNCHANGED <<hour, stamps, live, record, raw, dropped>> /\ DOMAIN job.built = DOMAIN job.batch
  BY DEF rebuildDirtyBatchTx
<1>2. /\ DOMAIN job'.batch = {} /\ DOMAIN job'.built = {} /\ job'.pc \in {"advance", "load"}
      /\ \A b \in Buckets : hourly'[b] = IF b \in DOMAIN job.built THEN job.built[b] ELSE hourly[b]
      /\ \A b \in Buckets : dirty'[b] = IF Consumed(b) THEN 0 ELSE dirty[b]
  BY RebuildType
<1>3. /\ \A b \in Buckets : dirty[b] \in Nat /\ dirty'[b] \in {0, dirty[b]}
      /\ \A b \in DOMAIN job.batch : b \in Buckets /\ job.batch[b] \in Nat
      /\ stamps \in Nat
  BY <1>2 DEF RollupTypeOK, IsRun
<1>4. Recorders'
  BY <1>1 DEF LedgerInv, Recorders, Recording
<1>5. Marks'
  <2>1. \A r \in Rows : Holding(r)' = Holding(r) /\ Bucket(r)' = Bucket(r) /\ Markable(r)' = Markable(r)
    BY <1>1 DEF Holding, Bucket, Markable
  <2>2. \A b \in Buckets : dirty'[b] <= stamps'
    BY <1>1, <1>3 DEF LedgerInv, Marks
  <2>3. ASSUME NEW r \in Rows, Holding(r)
        PROVE  dirty'[Bucket(r)] < record[r].stamp
    <3>1. record[r].mon \in RolledMons
      BY <2>3 DEF LedgerInv, Recorders, Holding
    <3>2. Bucket(r) \in Buckets /\ record[r].stamp \in Nat
      BY <3>1, BucketType, RecordType
    <3>3. dirty[Bucket(r)] < record[r].stamp
      BY <2>3 DEF LedgerInv, Marks
    <3> QED BY <1>3, <3>2, <3>3
  <2> QED BY <1>1, <2>1, <2>2, <2>3 DEF LedgerInv, Marks
<1>6. Counts'
  <2>1. \A b \in Buckets : \A r \in hourly'[b] : Done(r) /\ Bucket(r) = b
    BY <1>2 DEF LedgerInv, Counts, Run
  <2> QED BY <1>1, <2>1 DEF LedgerInv, Counts, Done, Bucket
<1>7. Settled'
  <2>1. ASSUME NEW b \in Buckets, NEW r \in hourly'[b], r \notin raw, live[b[1]] = "live"
        PROVE  b[2] < hour - RawRetention - 1 /\ dirty'[b] = 0
    <3>1. b \notin DOMAIN job.built
      BY <1>2, <2>1 DEF LedgerInv, Run
    <3>2. r \in hourly[b]
      BY <1>2, <3>1
    <3> QED BY <1>3, <2>1, <3>2 DEF LedgerInv, Settled
  <2> QED BY <1>1, <2>1 DEF Settled
<1>8. Run'
  BY <1>2 DEF Run
<1>9. FoldedOrMarked'
  <2>1. ASSUME NEW r \in raw, record[r].stamp # 0, live[record[r].mon] = "live", r \notin dropped
        PROVE  r \in hourly'[Bucket(r)] \/ dirty'[Bucket(r)] # 0
    <3>1. r \in Rows /\ record[r].mon \in RolledMons
      BY DEF LedgerInv, Counts, Recorders, Done, RollupTypeOK
    <3>2. Bucket(r) \in Buckets /\ Bucket(r)[1] = record[r].mon
      BY <3>1, BucketType
    <3>3. r \in hourly[Bucket(r)] \/ dirty[Bucket(r)] # 0
      BY <2>1 DEF LedgerInv, FoldedOrMarked
    <3>4. CASE Bucket(r) \in DOMAIN job.batch
      <4>1. r \in job.built[Bucket(r)] \/ job.batch[Bucket(r)] < dirty[Bucket(r)]
        BY <1>1, <2>1, <3>2, <3>4 DEF LedgerInv, Run
      <4>2. job.batch[Bucket(r)] < dirty[Bucket(r)] => dirty'[Bucket(r)] = dirty[Bucket(r)] /\ dirty[Bucket(r)] # 0
        BY <1>2, <1>3, <3>2, <3>4 DEF Consumed
      <4> QED BY <1>1, <1>2, <3>2, <3>4, <4>1, <4>2
    <3>5. CASE Bucket(r) \notin DOMAIN job.batch
      BY <1>1, <1>2, <3>2, <3>3, <3>5 DEF Consumed
    <3> QED BY <3>4, <3>5
  <2>2. \A r : Bucket(r)' = Bucket(r)
    BY <1>1 DEF Bucket
  <2> QED BY <1>1, <2>1, <2>2 DEF FoldedOrMarked
<1> QED BY <1>4, <1>5, <1>6, <1>7, <1>8, <1>9 DEF LedgerInv

LEMMA PruneTablesKeeps ==
    ASSUME RollupTypeOK, LedgerInv, pruneRollupTables
    PROVE  LedgerInv'
<1>1. UNCHANGED <<hour, stamps, live, record, raw, dirty>>
  BY DEF pruneRollupTables
<1>2. /\ job' = NoRun
      /\ \A b \in Buckets : hourly'[b] = IF Expired(b) THEN {} ELSE hourly[b]
      /\ \A b \in Buckets : Expired(b) => hourly[b] \subseteq dropped'
      /\ dropped \subseteq dropped'
      /\ \A r \in dropped' \ dropped : \E b \in Buckets : Expired(b) /\ r \in hourly[b]
  BY PruneTablesType
<1>3. Recorders'
  BY <1>1 DEF LedgerInv, Recorders, Recording
<1>4. Marks'
  BY <1>1 DEF LedgerInv, Marks, Holding, Bucket, Markable
<1>5. Counts'
  <2>1. /\ \A r \in raw \cup dropped' : Done(r)
        /\ \A b \in Buckets : \A r \in hourly'[b] : Done(r) /\ Bucket(r) = b
    BY <1>2 DEF LedgerInv, Counts
  <2> QED BY <1>1, <2>1 DEF Counts, Done, Bucket
<1>6. Settled'
  BY <1>1, <1>2 DEF LedgerInv, Settled
<1>7. FoldedOrMarked'
  <2>1. ASSUME NEW r \in raw, record[r].stamp # 0, live[record[r].mon] = "live"
        PROVE  r \in hourly'[Bucket(r)] \cup dropped' \/ dirty[Bucket(r)] # 0
    <3>1. r \in Rows /\ record[r].mon \in RolledMons
      BY DEF LedgerInv, Counts, Recorders, Done, RollupTypeOK
    <3>2. Bucket(r) \in Buckets
      BY <3>1, BucketType
    <3>3. r \in hourly[Bucket(r)] \cup dropped \/ dirty[Bucket(r)] # 0
      BY <2>1 DEF LedgerInv, FoldedOrMarked
    <3> QED BY <1>2, <3>2, <3>3
  <2>2. \A r : Bucket(r)' = Bucket(r)
    BY <1>1 DEF Bucket
  <2> QED BY <1>1, <2>1, <2>2 DEF FoldedOrMarked
<1>8. Run'
  BY <1>2, FreshRun DEF Run
<1> QED BY <1>3, <1>4, <1>5, <1>6, <1>7, <1>8 DEF LedgerInv

\* Retention takes a row only behind the mark horizon, and not while its hour is
\* marked.
LEMMA RetentionKeeps ==
    ASSUME RollupTypeOK, LedgerInv, NEW r \in Rows, pruneTenantCheckResults(r)
    PROVE  LedgerInv'
<1>1. /\ UNCHANGED <<hour, stamps, live, record, dirty, hourly, job, dropped>>
      /\ raw' = raw \ {r} /\ r \in raw /\ record[r].at < hour - RawRetention - 1 /\ dirty[Bucket(r)] = 0
  BY DEF pruneTenantCheckResults, Prunable, RawPruneCutoff, NotPendingRollup
<1>2. Recorders'
  BY <1>1 DEF LedgerInv, Recorders, Recording
<1>3. Marks'
  BY <1>1 DEF LedgerInv, Marks, Holding, Bucket, Markable
<1>4. Counts' /\ FoldedOrMarked'
  BY <1>1 DEF LedgerInv, Counts, FoldedOrMarked, Done, Bucket
<1>5. Settled'
  <2>1. ASSUME NEW b \in Buckets, r \in hourly[b]
        PROVE  b[2] < hour - RawRetention - 1 /\ dirty[b] = 0
    <3>1. Bucket(r) = b
      BY <2>1 DEF LedgerInv, Counts
    <3> QED BY <1>1, <3>1 DEF Bucket
  <2> QED BY <1>1, <2>1 DEF LedgerInv, Settled
<1>6. Run'
  <2>1. \A b \in DOMAIN job.built : r \notin job.built[b]
    <3> SUFFICES ASSUME NEW b \in DOMAIN job.built, r \in job.built[b] PROVE FALSE
      OBVIOUS
    <3>1. Bucket(r) = b /\ b \in DOMAIN job.batch /\ b \in Buckets /\ job.batch[b] \in Nat
      BY DEF LedgerInv, Run, RollupTypeOK, IsRun
    <3>2. job.batch[b] # 0 /\ job.batch[b] <= dirty[b]
      BY <3>1 DEF LedgerInv, Run
    <3> QED BY <1>1, <3>1, <3>2
  <2>2. \A q : Done(q)' = Done(q) /\ Bucket(q)' = Bucket(q)
    BY <1>1 DEF Done, Bucket
  <2>3. \A q \in raw' : q \in raw
    BY <1>1
  <2> QED BY <1>1, <2>1, <2>2, <2>3 DEF LedgerInv, Run
<1> QED BY <1>2, <1>3, <1>4, <1>5, <1>6 DEF LedgerInv

LEMMA TombstoneKeeps ==
    ASSUME RollupTypeOK, LedgerInv, NEW m \in RolledMons, Tombstone(m)
    PROVE  LedgerInv'
<1>1. /\ UNCHANGED <<hour, stamps, record, raw, dirty, hourly, job, dropped>>
      /\ \A r \in Rows : Recording(r) => record[r].mon # m
      /\ live' = [live EXCEPT ![m] = "tombstoned"]
  BY DEF Tombstone
<1>2. \A k \in RolledMons : (k # m => live'[k] = live[k]) /\ (live'[k] = "live" => k # m)
  BY <1>1 DEF RollupTypeOK
<1>3. Recorders'
  BY <1>1, <1>2 DEF LedgerInv, Recorders, Recording
<1>4. Marks'
  BY <1>1 DEF LedgerInv, Marks, Holding, Bucket, Markable
<1>5. Counts'
  BY <1>1 DEF LedgerInv, Counts, Done, Bucket
<1>6. \A r : Done(r)' = Done(r) /\ Bucket(r)' = Bucket(r)
  BY <1>1 DEF Done, Bucket
<1>7. \A b \in Buckets : b[1] \in RolledMons
  BY DEF Buckets
<1>8. Settled'
  BY <1>1, <1>2, <1>7 DEF LedgerInv, Settled
<1>9. Run'
  <2>1. DOMAIN job.built \subseteq Buckets
    BY DEF RollupTypeOK, IsRun
  <2>2. \A k \in RolledMons : live'[k] = "live" => live[k] = "live"
    BY <1>2
  <2> QED BY <1>1, <1>6, <1>7, <2>1, <2>2 DEF LedgerInv, Run
<1>10. FoldedOrMarked'
  <2>1. \A r \in raw : record[r].mon \in RolledMons
    BY DEF LedgerInv, Counts, Recorders, Done, RollupTypeOK
  <2> QED BY <1>1, <1>2, <1>6, <2>1 DEF LedgerInv, FoldedOrMarked
<1> QED BY <1>3, <1>4, <1>5, <1>8, <1>9, <1>10 DEF LedgerInv

LEMMA PurgeKeeps ==
    ASSUME RollupTypeOK, LedgerInv, purgeRollups \/ purgeRaw \/ purgeMonitor
    PROVE  LedgerInv'
<1>1. job.mon \in RolledMons /\ live[job.mon] # "live" /\ DOMAIN job.batch = {} /\ DOMAIN job.built = {}
  BY DEF purgeRollups, purgeRaw, purgeMonitor, LedgerInv, Run, RollupTypeOK, IsRun
<1>2. /\ UNCHANGED <<hour, stamps, record, dropped>>
      /\ \/ job' = NoRun
         \/ /\ job'.mon = job.mon /\ job'.batch = job.batch /\ job'.built = job.built
            /\ UNCHANGED <<live, dirty>>
      /\ \A m \in RolledMons : m # job.mon => live'[m] = live[m]
      /\ \A m \in RolledMons : live'[m] = live[m] \/ live'[m] = "gone"
      /\ \A b \in Buckets : b[1] # job.mon => hourly'[b] = hourly[b] /\ dirty'[b] = dirty[b]
      /\ \A b \in Buckets : hourly'[b] \in {{}, hourly[b]} /\ dirty'[b] \in {0, dirty[b]}
      /\ raw' \subseteq raw /\ \A r \in raw : record[r].mon # job.mon => r \in raw'
  BY PurgeType
<1>3. \A m \in RolledMons : live'[m] = "live" => live[m] = "live" /\ m # job.mon
  BY <1>1, <1>2
<1>4. \A r : Done(r)' = Done(r) /\ Bucket(r)' = Bucket(r) /\ Recording(r)' = Recording(r)
             /\ Holding(r)' = Holding(r) /\ Markable(r)' = Markable(r)
  BY <1>2 DEF Done, Bucket, Recording, Holding, Markable
<1>5. \A r \in Rows : record[r].st # "none" => /\ record[r].mon \in RolledMons /\ Bucket(r) \in Buckets
                                               /\ Bucket(r)[1] = record[r].mon
  BY BucketType DEF LedgerInv, Recorders
<1>6. \A b \in Buckets : b[1] \in RolledMons
  BY DEF Buckets
<1>7. Recorders'
  <2>1. \A r \in Rows : Recording(r) => live'[record[r].mon] = "live"
    <3> SUFFICES ASSUME NEW r \in Rows, Recording(r) PROVE live'[record[r].mon] = "live"
      OBVIOUS
    <3>1. live[record[r].mon] = "live" /\ record[r].mon \in RolledMons
      BY <1>5 DEF LedgerInv, Recorders, Recording
    <3> QED BY <1>1, <1>2, <3>1
  <2> QED BY <1>2, <1>4, <2>1 DEF LedgerInv, Recorders
<1>8. Marks'
  <2>1. \A b \in Buckets : dirty[b] \in Nat /\ stamps \in Nat
    BY DEF RollupTypeOK
  <2>2. \A b \in Buckets : dirty'[b] <= stamps
    BY <1>2, <2>1 DEF LedgerInv, Marks
  <2>3. \A r \in Rows : Holding(r) => dirty'[Bucket(r)] < record[r].stamp
    <3> SUFFICES ASSUME NEW r \in Rows, Holding(r) PROVE dirty'[Bucket(r)] < record[r].stamp
      OBVIOUS
    <3>1. Bucket(r) \in Buckets /\ dirty[Bucket(r)] < record[r].stamp /\ record[r].stamp \in Nat
      BY <1>5, RecordType DEF LedgerInv, Marks, Holding
    <3> QED BY <1>2, <2>1, <3>1
  <2> QED BY <1>2, <1>4, <2>2, <2>3 DEF LedgerInv, Marks
<1>9. Counts'
  BY <1>2, <1>4 DEF LedgerInv, Counts
<1>10. Settled'
  <2>1. ASSUME NEW b \in Buckets, NEW r \in hourly'[b], r \notin raw', live'[b[1]] = "live"
        PROVE  b[2] < hour - RawRetention - 1 /\ dirty'[b] = 0
    <3>1. live[b[1]] = "live" /\ b[1] # job.mon
      BY <1>3, <1>6, <2>1
    <3>2. r \in hourly[b] /\ dirty'[b] = dirty[b]
      BY <1>2, <3>1
    <3>3. r \in Rows /\ Done(r) /\ Bucket(r) = b
      BY <3>2 DEF LedgerInv, Counts, RollupTypeOK
    <3>4. record[r].mon # job.mon
      BY <1>5, <3>1, <3>3 DEF Done
    <3>5. r \notin raw
      BY <1>2, <2>1, <3>4
    <3> QED BY <3>1, <3>2, <3>5 DEF LedgerInv, Settled
  <2> QED BY <1>2, <2>1 DEF Settled
<1>11. Run'
  <2>1. DOMAIN job'.batch = {} /\ DOMAIN job'.built = {}
    BY <1>1, <1>2, FreshRun
  <2>2. job'.pc \in {"purge_rollups", "purge_raw", "purge_monitor"} => job'.mon = job.mon /\ UNCHANGED live
    BY <1>2, FreshRun
  <2> QED BY <1>1, <2>1, <2>2 DEF Run
<1>12. FoldedOrMarked'
  <2>1. ASSUME NEW r \in raw', record[r].stamp # 0, live'[record[r].mon] = "live"
        PROVE  r \in hourly'[Bucket(r)] \cup dropped \/ dirty'[Bucket(r)] # 0
    <3>1. r \in raw /\ r \in Rows /\ record[r].st # "none"
      BY <1>2 DEF LedgerInv, Counts, Done, RollupTypeOK
    <3>2. live[record[r].mon] = "live" /\ record[r].mon # job.mon
      BY <1>3, <1>5, <2>1, <3>1
    <3>3. hourly'[Bucket(r)] = hourly[Bucket(r)] /\ dirty'[Bucket(r)] = dirty[Bucket(r)]
      BY <1>2, <1>5, <3>1, <3>2
    <3> QED BY <2>1, <3>1, <3>2, <3>3 DEF LedgerInv, FoldedOrMarked
  <2> QED BY <1>2, <1>4, <2>1 DEF FoldedOrMarked
<1> QED BY <1>7, <1>8, <1>9, <1>10, <1>11, <1>12 DEF LedgerInv

LEMMA TickHourKeeps ==
    ASSUME RollupTypeOK, LedgerInv, TickHour
    PROVE  LedgerInv'
<1>1. /\ UNCHANGED <<stamps, live, record, raw, dirty, hourly, job, dropped>>
      /\ \A r \in Rows : Recording(r) => record[r].began_hour = hour
      /\ hour' = hour + 1 /\ hour \in Nat /\ RawRetention \in Nat
  BY HoursAreNumbers DEF TickHour, RollupTypeOK
<1>2. Recorders'
  BY <1>1 DEF LedgerInv, Recorders, Recording
<1>3. Marks'
  BY <1>1 DEF LedgerInv, Marks, Holding, Bucket, Markable
<1>4. Counts' /\ FoldedOrMarked'
  BY <1>1 DEF LedgerInv, Counts, FoldedOrMarked, Done, Bucket
<1>5. Settled'
  <2>1. \A b \in Buckets : b[2] \in Nat
    BY HoursAreNumbers DEF Buckets
  <2>2. \A b \in Buckets : b[2] < hour - RawRetention - 1 => b[2] < hour' - RawRetention - 1
    BY <1>1, <2>1
  <2> QED BY <1>1, <2>2 DEF LedgerInv, Settled
<1>6. Run'
  <2>1. \A q : Done(q)' = Done(q) /\ Bucket(q)' = Bucket(q)
    BY <1>1 DEF Done, Bucket
  <2> QED BY <1>1, <2>1 DEF LedgerInv, Run
<1> QED BY <1>2, <1>3, <1>4, <1>5, <1>6 DEF LedgerInv

LEMMA LedgerStep ==
    RollupTypeOK /\ LedgerInv /\ [RollupNext]_rollupVars => RollupTypeOK' /\ LedgerInv'
<1> SUFFICES ASSUME RollupTypeOK, LedgerInv, [RollupNext]_rollupVars
             PROVE  RollupTypeOK' /\ LedgerInv'
  OBVIOUS
<1>1. ASSUME NEW r \in Rows, NEW m \in RolledMons, NEW h \in Hours, BeginRecord(r, m, h)
      PROVE  RollupTypeOK' /\ LedgerInv'
  BY <1>1, BeginType, BeginKeeps
<1>2. ASSUME NEW r \in Rows, insertRow(r)
      PROVE  RollupTypeOK' /\ LedgerInv'
  BY <1>2, InsertKeeps
<1>3. ASSUME NEW r \in Rows, CommitRecord(r)
      PROVE  RollupTypeOK' /\ LedgerInv'
  BY <1>3, CommitKeeps
<1>4. ASSUME NEW r \in Rows, AbortRecord(r)
      PROVE  RollupTypeOK' /\ LedgerInv'
  BY <1>4, AbortType, AbortKeeps
<1>5. CASE StartRollups
  <2>1. DOMAIN job'.batch = {} /\ DOMAIN job'.built = {} /\ job'.pc = "load"
    BY <1>5, FreshRun DEF StartRollups
  <2> QED BY <1>5, <2>1, OtherTypes, EmptyRunKeeps DEF StartRollups
<1>6. CASE loadDirtyBatch
  BY <1>6, LoadType, LoadKeeps
<1>7. CASE rebuildBucket
  BY <1>7, RebuildBucketType, RebuildBucketKeeps
<1>8. CASE rebuildDirtyBatchTx
  BY <1>8, RebuildType, RebuildKeeps
<1>9. CASE advanceRollupCursor
  BY <1>9, AdvanceType, EmptyRunKeeps DEF advanceRollupCursor
<1>10. CASE pruneRollupTables
  BY <1>10, PruneTablesType, PruneTablesKeeps
<1>11. CASE AbandonRun
  <2>1. DOMAIN job'.batch = {} /\ DOMAIN job'.built = {} /\ job'.pc = "idle"
    BY <1>11, FreshRun DEF AbandonRun
  <2> QED BY <1>11, <2>1, OtherTypes, EmptyRunKeeps DEF AbandonRun
<1>12. ASSUME NEW r \in Rows, pruneTenantCheckResults(r)
       PROVE  RollupTypeOK' /\ LedgerInv'
  BY <1>12, OtherTypes, RetentionKeeps
<1>13. ASSUME NEW m \in RolledMons, Tombstone(m)
       PROVE  RollupTypeOK' /\ LedgerInv'
  BY <1>13, OtherTypes, TombstoneKeeps
<1>14. CASE StartPurge
  <2>1. /\ RollupTypeOK' /\ DOMAIN job'.batch = {} /\ DOMAIN job'.built = {}
        /\ job'.mon \in RolledMons /\ live[job'.mon] # "live"
    BY <1>14, StartPurgeType
  <2> QED BY <1>14, <2>1, EmptyRunKeeps DEF StartPurge
<1>15. CASE purgeRollups \/ purgeRaw \/ purgeMonitor
  BY <1>15, PurgeType, PurgeKeeps
<1>16. CASE TickHour
  BY <1>16, OtherTypes, TickHourKeeps
<1>17. CASE UNCHANGED rollupVars
  <2>1. RollupTypeOK'
    BY <1>17, OtherTypes
  <2>2. Recorders' /\ Marks' /\ Counts' /\ Settled' /\ FoldedOrMarked'
    BY <1>17 DEF rollupVars, LedgerInv, Recorders, Marks, Counts, Settled, FoldedOrMarked,
                 Recording, Holding, Done, Bucket, Markable
  <2>3. \A q : Done(q)' = Done(q) /\ Bucket(q)' = Bucket(q)
    BY <1>17 DEF rollupVars, Done, Bucket
  <2>4. Run'
    BY <1>17, <2>3 DEF rollupVars, LedgerInv, Run
  <2> QED BY <2>1, <2>2, <2>4 DEF LedgerInv
<1> QED BY <1>1, <1>2, <1>3, <1>4, <1>5, <1>6, <1>7, <1>8, <1>9, <1>10, <1>11, <1>12, <1>13, <1>14,
           <1>15, <1>16, <1>17
        DEF RollupNext, RecordRow, runRollupMaintenance, runRetentionCleanup, runPurge

-----------------------------------------------------------------------------
(* The days.                                                               *)

\* An hour of a day is not before its first; a day whose first hour is kept is
\* kept.
LEMMA DayDivision ==
    /\ \A h \in Nat : DayLen * (h \div DayLen) <= h
    /\ \A d \in Nat, c \in Int : c <= d * DayLen => ~(d < c \div DayLen)
<1>1. DayLen \in Nat /\ DayLen > 0
  BY HoursAreNumbers
<1>2. \A c \in Int : c \div DayLen \in Int /\ DayLen * (c \div DayLen) <= c
  BY <1>1
<1>3. ASSUME NEW d \in Nat, NEW c \in Int, c <= d * DayLen, d < c \div DayLen
      PROVE  FALSE
  <2>1. PICK q \in Int : q = c \div DayLen
    BY <1>2
  <2>2. d + 1 <= q /\ DayLen * q <= d * DayLen
    BY <1>1, <1>2, <1>3, <2>1
  <2>3. DayLen * (d + 1) <= DayLen * q
    BY <1>1, <2>2
  <2>4. DayLen * (d + 1) = d * DayLen + DayLen
    BY <1>1
  <2> QED BY <1>1, <2>2, <2>3, <2>4
<1> QED BY <1>2, <1>3

LEMMA DaysAreNumbers ==
    /\ Days \subseteq Nat
    /\ \A d \in Days : \A h \in HoursOf(d) : h \in Hours /\ d * DayLen <= h
<1>1. \A d \in Days : d \in Nat
  BY DEF Days
<1>2. ASSUME NEW d \in Days, NEW h \in HoursOf(d)
      PROVE  h \in Hours /\ d * DayLen <= h
  <2>1. h \in Hours /\ h \in Nat /\ d = h \div DayLen
    BY HoursAreNumbers DEF HoursOf
  <2>2. DayLen * d <= h
    BY <2>1, DayDivision
  <2> QED BY <1>1, <2>1, <2>2, HoursAreNumbers
<1> QED BY <1>1, <1>2

\* The hours of a kept day are kept, and its total with them.
DaySum(m, d) == daily[<<m, d>>] = UNION {hourly[<<m, h>>] : h \in HoursOf(d)}

LEMMA DaysStep ==
    RollupTypeOK /\ LedgerInv /\ DailyIsSumOfHourly /\ [RollupNext]_rollupVars => DailyIsSumOfHourly'
<1> SUFFICES ASSUME RollupTypeOK, LedgerInv, DailyIsSumOfHourly, [RollupNext]_rollupVars,
                    NEW m \in RolledMons, NEW d \in Days,
                    live'[m] = "live", d * DayLen >= hour' - RollupRetention
             PROVE  DaySum(m, d)'
  BY DEF DailyIsSumOfHourly, DaySum, RollupCutoff
<1>0. /\ hour \in Nat /\ RollupRetention \in Nat /\ d \in Nat /\ d * DayLen \in Int
      /\ <<m, d>> \in RolledMons \X Days
      /\ \A h \in HoursOf(d) : <<m, h>> \in Buckets
  BY HoursAreNumbers, DaysAreNumbers DEF RollupTypeOK, Buckets
<1>1. live[m] = "live" /\ d * DayLen >= hour - RollupRetention => DaySum(m, d)
  BY DEF DailyIsSumOfHourly, DaySum, RollupCutoff
<1>2. CASE UNCHANGED <<hour, live, hourly, daily>>
  BY <1>1, <1>2 DEF DaySum
<1>3. CASE rebuildDirtyBatchTx
  <2>1. /\ \A b \in Buckets : hourly'[b] = IF b \in DOMAIN job.built THEN job.built[b] ELSE hourly[b]
        /\ DOMAIN job.built = DOMAIN job.batch /\ UNCHANGED <<live, hour>>
    BY <1>3, RebuildType DEF rebuildDirtyBatchTx
  <2>2. CASE \E b \in DOMAIN job.batch : b[1] = m /\ b[2] \in HoursOf(d)
    <3>1. daily'[<<m, d>>] = DayTotal(m, d)
      BY <1>0, <1>3, <2>2 DEF rebuildDirtyBatchTx
    <3>2. hourly' = Rebuilt
      BY <1>3 DEF rebuildDirtyBatchTx
    <3> QED BY <3>1, <3>2 DEF DayTotal, DaySum, HoursOf
  <2>3. CASE ~ \E b \in DOMAIN job.batch : b[1] = m /\ b[2] \in HoursOf(d)
    <3>1. daily'[<<m, d>>] = daily[<<m, d>>]
      BY <1>0, <1>3, <2>3 DEF rebuildDirtyBatchTx
    <3>2. \A h \in HoursOf(d) : hourly'[<<m, h>>] = hourly[<<m, h>>]
      <4> TAKE h \in HoursOf(d)
      <4>1. <<m, h>>[1] = m /\ <<m, h>>[2] = h
        OBVIOUS
      <4>2. <<m, h>> \notin DOMAIN job.batch
        BY <2>3, <4>1
      <4> QED BY <1>0, <2>1, <4>2
    <3> QED BY <1>1, <2>1, <3>1, <3>2, ZenonT(60) DEF DaySum, HoursOf
  <2> QED BY <2>2, <2>3
<1>4. CASE pruneRollupTables
  <2>1. UNCHANGED <<live, hour>> /\ hourly' = [b \in Buckets |-> IF Expired(b) THEN {} ELSE hourly[b]]
        /\ daily' = [k \in RolledMons \X Days |-> IF DayExpired(k) THEN {} ELSE daily[k]]
    BY <1>4 DEF pruneRollupTables
  <2>2. ~DayExpired(<<m, d>>)
    <3>1. RollupCutoff \in Int /\ RollupCutoff <= d * DayLen
      BY <1>0, <2>1 DEF RollupCutoff
    <3> QED BY <1>0, <3>1, DayDivision DEF DayExpired
  <2>3. \A h \in HoursOf(d) : ~Expired(<<m, h>>)
    <3> TAKE h \in HoursOf(d)
    <3>1. h \in Nat /\ d * DayLen <= h
      BY DaysAreNumbers, HoursAreNumbers
    <3> QED BY <1>0, <2>1, <3>1 DEF Expired, RollupCutoff
  <2>4. daily'[<<m, d>>] = daily[<<m, d>>] /\ \A h \in HoursOf(d) : hourly'[<<m, h>>] = hourly[<<m, h>>]
    BY <1>0, <2>1, <2>2, <2>3
  <2> QED BY <1>1, <2>1, <2>4 DEF DaySum, HoursOf
<1>5. CASE purgeRollups \/ purgeRaw \/ purgeMonitor
  <2>1. job.mon \in RolledMons /\ live[job.mon] # "live"
    BY <1>5 DEF purgeRollups, purgeRaw, purgeMonitor, LedgerInv, Run
  <2>2. /\ \A k \in RolledMons : k # job.mon => live'[k] = live[k]
        /\ \A k \in RolledMons : live'[k] = live[k] \/ live'[k] = "gone"
        /\ \A b \in Buckets : b[1] # job.mon => hourly'[b] = hourly[b]
        /\ \A k \in RolledMons \X Days : k[1] # job.mon => daily'[k] = daily[k]
        /\ UNCHANGED hour
    BY <1>5, PurgeType
  <2>3. live[m] = "live" /\ m # job.mon
    BY <2>1, <2>2
  <2>4. daily'[<<m, d>>] = daily[<<m, d>>] /\ \A h \in HoursOf(d) : hourly'[<<m, h>>] = hourly[<<m, h>>]
    BY <1>0, <2>2, <2>3
  <2> QED BY <1>1, <2>2, <2>3, <2>4 DEF DaySum, HoursOf
<1>6. ASSUME NEW k \in RolledMons, Tombstone(k)
      PROVE  DaySum(m, d)'
  <2>1. live' = [live EXCEPT ![k] = "tombstoned"] /\ UNCHANGED <<hour, hourly, daily>>
    BY <1>6 DEF Tombstone
  <2>2. live[m] = "live"
    BY <2>1 DEF RollupTypeOK
  <2> QED BY <1>1, <2>1, <2>2 DEF DaySum
<1>7. CASE TickHour
  <2>1. hour' = hour + 1 /\ UNCHANGED <<live, hourly, daily>>
    BY <1>7 DEF TickHour
  <2>2. d * DayLen >= hour - RollupRetention
    BY <1>0, <2>1
  <2> QED BY <1>1, <2>1, <2>2 DEF DaySum
<1>8. UNCHANGED <<hour, live, hourly, daily>> \/ rebuildDirtyBatchTx \/ pruneRollupTables
      \/ (purgeRollups \/ purgeRaw \/ purgeMonitor) \/ (\E k \in RolledMons : Tombstone(k)) \/ TickHour
  <2>1. ASSUME NEW r \in Rows, NEW k \in RolledMons, NEW h \in Hours,
               BeginRecord(r, k, h) \/ insertRow(r) \/ CommitRecord(r) \/ AbortRecord(r)
        PROVE  UNCHANGED <<hour, live, hourly, daily>>
    BY <2>1 DEF BeginRecord, insertRow, CommitRecord, AbortRecord
  <2>2. ASSUME NEW r \in Rows, insertRow(r) \/ CommitRecord(r) \/ AbortRecord(r)
        PROVE  UNCHANGED <<hour, live, hourly, daily>>
    BY <2>2 DEF insertRow, CommitRecord, AbortRecord
  <2>3. ASSUME StartRollups \/ loadDirtyBatch \/ rebuildBucket \/ advanceRollupCursor \/ AbandonRun \/ StartPurge
        PROVE  UNCHANGED <<hour, live, hourly, daily>>
    BY <2>3 DEF StartRollups, loadDirtyBatch, rebuildBucket, advanceRollupCursor, AbandonRun, StartPurge
  <2>4. ASSUME NEW r \in Rows, pruneTenantCheckResults(r)
        PROVE  UNCHANGED <<hour, live, hourly, daily>>
    BY <2>4 DEF pruneTenantCheckResults
  <2>5. CASE UNCHANGED rollupVars
    BY <2>5 DEF rollupVars
  <2> QED BY <2>1, <2>2, <2>3, <2>4, <2>5
          DEF RollupNext, RecordRow, runRollupMaintenance, runRetentionCleanup, runPurge
<1> QED BY <1>2, <1>3, <1>4, <1>5, <1>6, <1>7, <1>8

LEMMA DaysStart ==
    RollupInit => DailyIsSumOfHourly
<1> SUFFICES ASSUME RollupInit, NEW m \in RolledMons, NEW d \in Days
             PROVE  daily[<<m, d>>] = UNION {hourly[<<m, h>>] : h \in HoursOf(d)}
  BY DEF DailyIsSumOfHourly
<1>1. daily[<<m, d>>] = {} /\ \A h \in HoursOf(d) : hourly[<<m, h>>] = {}
  BY DEF RollupInit, HoursOf, Buckets
<1> QED BY <1>1

-----------------------------------------------------------------------------
(* The ledger implements the view.                                         *)

Owed == {r \in Recorded : record[r].stamp # 0}

LEMMA ViewStarts ==
    RollupInit => View!ViewInit
<1> SUFFICES ASSUME RollupInit PROVE View!ViewInit
  OBVIOUS
<1>1. /\ \A r \in Rows : record[r].st = "none"
      /\ \A b \in Buckets : hourly[b] = {}
  BY DEF RollupInit, NoRecord
<1>2. Recorded = {} /\ Counted = {}
  BY <1>1 DEF Recorded, Counted
<1> QED BY <1>2 DEF View!ViewInit

\* A row that is counted was recorded; its bucket says which monitor and hour.
LEMMA CountedRows ==
    ASSUME RollupTypeOK, LedgerInv
    PROVE  /\ Counted \subseteq Recorded /\ Owed \subseteq Recorded /\ Recorded \subseteq Rows
           /\ \A r \in Rows : Done(r) => record[r].mon \in RolledMons
           /\ \A b \in Buckets : \A r \in hourly[b] :
                 r \in Rows /\ Done(r) /\ Bucket(r) = b /\ b[1] = record[r].mon
<1>1. \A r \in Rows : Done(r) => record[r].mon \in RolledMons /\ Bucket(r)[1] = record[r].mon
  BY BucketType DEF LedgerInv, Recorders, Done
<1>2. \A b \in Buckets : \A r \in hourly[b] : r \in Rows /\ Done(r) /\ Bucket(r) = b
  BY DEF LedgerInv, Counts, RollupTypeOK
<1>3. Counted \subseteq Recorded
  BY <1>2 DEF Counted, Recorded, Done
<1> QED BY <1>1, <1>2, <1>3 DEF Owed, Recorded

LEMMA ViewStutters ==
    ASSUME Recorded' = Recorded, Owed' = Owed, Counted' = Counted
    PROVE  UNCHANGED View!viewVars
BY DEF View!viewVars, Owed

LEMMA ViewForgets ==
    ASSUME NEW S, S \in SUBSET Recorded, Recorded' = Recorded \ S, Owed' = Owed \ S, Counted' = Counted \ S
    PROVE  View!ViewNext
BY DEF View!ViewNext, View!Forget, Owed

LEMMA ViewStep ==
    RollupTypeOK /\ LedgerInv /\ [RollupNext]_rollupVars => [View!ViewNext]_(View!viewVars)
<1> SUFFICES ASSUME RollupTypeOK, LedgerInv, [RollupNext]_rollupVars
             PROVE  View!ViewNext \/ UNCHANGED View!viewVars
  OBVIOUS
<1>0. /\ Counted \subseteq Recorded /\ Owed \subseteq Recorded /\ Recorded \subseteq Rows
      /\ \A r \in Rows : Done(r) => record[r].mon \in RolledMons
      /\ \A b \in Buckets : \A r \in hourly[b] :
            r \in Rows /\ Done(r) /\ Bucket(r) = b /\ b[1] = record[r].mon
  BY CountedRows
<1>1. CASE UNCHANGED <<record, live, hourly, dropped>>
  <2>1. Recorded' = Recorded /\ Owed' = Owed /\ Counted' = Counted
    BY <1>1 DEF Recorded, Counted, Owed
  <2> QED BY <2>1, ViewStutters
<1>2. ASSUME NEW r \in Rows, ~Done(r), ~(Done(r)'), UNCHANGED <<live, hourly, dropped>>,
             \A q \in Rows : q # r => record'[q] = record[q]
      PROVE  UNCHANGED View!viewVars
  <2>1. Recorded' = Recorded
    BY <1>2 DEF Recorded, Done
  <2>2. Owed' = Owed
    BY <1>2, <2>1 DEF Owed, Recorded, Done
  <2>3. Counted' = Counted
    <3>1. \A b \in Buckets : \A q \in hourly[b] : record'[q] = record[q]
      BY <1>0, <1>2
    <3> QED BY <1>2, <3>1 DEF Counted
  <2> QED BY <2>1, <2>2, <2>3, ViewStutters
<1>3. ASSUME NEW r \in Rows, NEW m \in RolledMons, NEW h \in Hours, BeginRecord(r, m, h)
      PROVE  UNCHANGED View!viewVars
  BY <1>2, <1>3, BeginType DEF BeginRecord, Done
<1>4. ASSUME NEW r \in Rows, insertRow(r)
      PROVE  UNCHANGED View!viewVars
  <2>1. record[r].mon \in RolledMons
    BY <1>4 DEF insertRow, LedgerInv, Recorders
  <2> QED BY <1>2, <1>4, <2>1, InsertType DEF insertRow, Done
<1>5. ASSUME NEW r \in Rows, AbortRecord(r)
      PROVE  UNCHANGED View!viewVars
  BY <1>2, <1>5, AbortType DEF AbortRecord, Recording, Done
<1>6. ASSUME NEW r \in Rows, CommitRecord(r)
      PROVE  View!ViewNext
  <2>1. /\ ~Done(r) /\ Recording(r) /\ UNCHANGED <<live, hourly, dropped>>
        /\ record[r].mon \in RolledMons /\ live[record[r].mon] = "live"
    BY <1>6 DEF CommitRecord, Done, Recording, LedgerInv, Recorders
  <2>2. /\ record'[r].st = "done" /\ record'[r].mon = record[r].mon
        /\ record'[r].stamp = record[r].stamp
        /\ \A q \in Rows : q # r => record'[q] = record[q]
    BY <1>6, <2>1, CommitType
  <2>3. r \notin dropped
    BY <2>1 DEF LedgerInv, Counts
  <2>4. Recorded' = Recorded \cup {r}
    BY <2>1, <2>2, <2>3 DEF Recorded, Done
  <2>5. \E T \in SUBSET {r} : Owed' = Owed \cup T
    <3>1. CASE record[r].stamp # 0
      <4>1. Owed' = Owed \cup {r}
        BY <2>1, <2>2, <2>4, <3>1, <1>0 DEF Owed, Recorded
      <4> QED BY <4>1
    <3>2. CASE record[r].stamp = 0
      <4>1. Owed' = Owed \cup {}
        BY <2>1, <2>2, <2>4, <3>2, <1>0 DEF Owed, Recorded
      <4> QED BY <4>1
    <3> QED BY <3>1, <3>2
  <2>6. Counted' = Counted
    <3>1. \A b \in Buckets : \A q \in hourly[b] : record'[q] = record[q]
      BY <1>0, <2>1, <2>2
    <3> QED BY <2>1, <3>1 DEF Counted
  <2>7. \E S \in SUBSET Rows : \E T \in SUBSET S : Recorded' = Recorded \cup S /\ Owed' = Owed \cup T
    BY <2>4, <2>5
  <2> QED BY <2>6, <2>7 DEF View!ViewNext, View!Commit, Owed
<1>7. CASE rebuildDirtyBatchTx
  <2>1. /\ UNCHANGED <<record, live, dropped>> /\ DOMAIN job.built \subseteq Buckets
        /\ \A b \in Buckets : hourly'[b] = IF b \in DOMAIN job.built THEN job.built[b] ELSE hourly[b]
    BY <1>7, RebuildType DEF rebuildDirtyBatchTx, RollupTypeOK, IsRun
  <2>2. Recorded' = Recorded /\ Owed' = Owed
    BY <2>1 DEF Recorded, Owed
  <2>3. Counted \subseteq Counted'
    <3> SUFFICES ASSUME NEW r \in Counted PROVE r \in Counted'
      OBVIOUS
    <3>1. PICK b \in Buckets : r \in hourly[b]
      BY DEF Counted
    <3>2. live[record[r].mon] = "live" /\ r \notin dropped /\ b[1] = record[r].mon
      BY <1>0, <3>1 DEF Counted
    <3>3. b \in DOMAIN job.built => hourly[b] \subseteq job.built[b]
      BY <3>2 DEF LedgerInv, Run
    <3>4. r \in hourly'[b]
      BY <2>1, <3>1, <3>3
    <3> QED BY <2>1, <3>1, <3>2, <3>4 DEF Counted
  <2>4. Counted' \subseteq Recorded
    <3> SUFFICES ASSUME NEW r \in Counted' PROVE r \in Recorded
      OBVIOUS
    <3>1. PICK b \in Buckets : r \in hourly'[b]
      BY DEF Counted
    <3>2. live[record[r].mon] = "live" /\ r \notin dropped
      BY <2>1 DEF Counted
    <3>3. r \in Rows /\ Done(r)
      BY <1>0, <2>1, <3>1 DEF LedgerInv, Run, RollupTypeOK, IsRun
    <3> QED BY <3>2, <3>3 DEF Recorded, Done
  <2>5. \E S \in SUBSET Recorded : Counted' = Counted \cup S
    <3>1. Counted' = Counted \cup Counted'
      BY <2>3
    <3> QED BY <2>4, <3>1
  <2> QED BY <2>2, <2>5 DEF View!ViewNext, View!Refresh, Owed
<1>8. CASE pruneRollupTables
  <2>1. /\ UNCHANGED <<record, live>>
        /\ \A b \in Buckets : hourly'[b] = IF Expired(b) THEN {} ELSE hourly[b]
        /\ \A b \in Buckets : Expired(b) => hourly[b] \subseteq dropped'
        /\ dropped \subseteq dropped'
    BY <1>8, PruneTablesType DEF pruneRollupTables
  <2>2. PICK S : S = Recorded \cap dropped'
    OBVIOUS
  <2>3. Recorded' = Recorded \ S
    BY <2>1, <2>2 DEF Recorded
  <2>4. Owed' = Owed \ S
    BY <2>1, <2>3 DEF Owed
  <2>5. Counted' = Counted \ S
    <3>1. ASSUME NEW r \in Counted, r \notin S
          PROVE  r \in Counted'
      <4>1. r \in Recorded /\ r \notin dropped'
        BY <1>0, <2>2, <3>1
      <4>2. PICK b \in Buckets : r \in hourly[b]
        BY <3>1 DEF Counted
      <4>3. r \in hourly'[b]
        BY <2>1, <4>1, <4>2
      <4> QED BY <2>1, <3>1, <4>1, <4>2, <4>3 DEF Counted
    <3>2. ASSUME NEW r \in Counted'
          PROVE  r \in Counted /\ r \notin S
      <4>1. PICK b \in Buckets : r \in hourly'[b]
        BY <3>2 DEF Counted
      <4>2. r \in hourly[b] /\ r \notin dropped' /\ r \notin dropped /\ live[record[r].mon] = "live"
        BY <2>1, <3>2, <4>1 DEF Counted
      <4> QED BY <2>2, <4>1, <4>2 DEF Counted
    <3> QED BY <3>1, <3>2
  <2> QED BY <2>2, <2>3, <2>4, <2>5, ViewForgets
<1>9. ASSUME NEW m \in RolledMons, Tombstone(m)
      PROVE  View!ViewNext
  <2>1. UNCHANGED <<record, hourly, dropped>> /\ live' = [live EXCEPT ![m] = "tombstoned"]
    BY <1>9 DEF Tombstone
  <2>2. \A k \in RolledMons : live'[k] = "live" <=> live[k] = "live" /\ k # m
    BY <2>1 DEF RollupTypeOK
  <2>3. PICK S : S = {r \in Recorded : record[r].mon = m}
    OBVIOUS
  <2>4. \A r \in Rows : Done(r) => (live'[record[r].mon] = "live" <=> live[record[r].mon] = "live" /\ record[r].mon # m)
    BY <1>0, <2>2
  <2>5. Recorded' = Recorded \ S
    BY <2>1, <2>3, <2>4 DEF Recorded, Done
  <2>6. Owed' = Owed \ S
    BY <2>1, <2>5 DEF Owed
  <2>7. Counted' = Counted \ S
    <3>1. \A r : r \in UNION {hourly[b] : b \in Buckets} => r \in Rows /\ Done(r)
      BY <1>0
    <3>2. \A r : r \in Counted => r \in Recorded
      BY <1>0
    <3> QED BY <2>1, <2>3, <2>4, <3>1, <3>2 DEF Counted
  <2> QED BY <2>3, <2>5, <2>6, <2>7, ViewForgets
<1>10. CASE purgeRollups \/ purgeRaw \/ purgeMonitor
  <2>1. job.mon \in RolledMons /\ live[job.mon] # "live"
    BY <1>10 DEF purgeRollups, purgeRaw, purgeMonitor, LedgerInv, Run
  <2>2. /\ \A k \in RolledMons : k # job.mon => live'[k] = live[k]
        /\ \A k \in RolledMons : live'[k] = live[k] \/ live'[k] = "gone"
        /\ \A b \in Buckets : b[1] # job.mon => hourly'[b] = hourly[b]
        /\ \A b \in Buckets : hourly'[b] \in {{}, hourly[b]}
        /\ UNCHANGED <<record, dropped>>
    BY <1>10, PurgeType
  <2>3. \A k \in RolledMons : live'[k] = "live" <=> live[k] = "live"
    BY <2>1, <2>2
  <2>4. Recorded' = Recorded
    BY <1>0, <2>2, <2>3 DEF Recorded, Done
  <2>5. Owed' = Owed
    BY <2>2, <2>4 DEF Owed
  <2>6. ASSUME NEW r \in Counted
        PROVE  r \in Counted'
    <3>1. PICK b \in Buckets : r \in hourly[b]
      BY DEF Counted
    <3>2. /\ live[record[r].mon] = "live" /\ r \notin dropped /\ b[1] = record[r].mon
          /\ record[r].mon \in RolledMons
      BY <1>0, <3>1 DEF Counted
    <3>3. r \in hourly'[b] /\ live'[record[r].mon] = "live"
      BY <2>1, <2>2, <2>3, <3>1, <3>2
    <3> QED BY <2>2, <3>1, <3>2, <3>3 DEF Counted
  <2>7. ASSUME NEW r \in Counted'
        PROVE  r \in Counted
    <3>1. PICK b \in Buckets : r \in hourly'[b]
      BY <2>7 DEF Counted
    <3>2. r \in hourly[b]
      BY <2>2, <3>1
    <3>3. live[record[r].mon] = "live" /\ r \notin dropped
      BY <1>0, <2>2, <2>3, <2>7, <3>1, <3>2 DEF Counted
    <3> QED BY <3>1, <3>2, <3>3 DEF Counted
  <2> QED BY <2>4, <2>5, <2>6, <2>7, ViewStutters
<1>11. CASE \/ StartRollups \/ loadDirtyBatch \/ rebuildBucket \/ advanceRollupCursor
            \/ AbandonRun \/ StartPurge \/ TickHour \/ UNCHANGED rollupVars
            \/ \E r \in Rows : pruneTenantCheckResults(r)
  <2>1. UNCHANGED <<record, live, hourly, dropped>>
    BY <1>11 DEF StartRollups, loadDirtyBatch, rebuildBucket, advanceRollupCursor, AbandonRun, StartPurge,
                 TickHour, rollupVars, pruneTenantCheckResults
  <2> QED BY <1>1, <2>1
<1> QED BY <1>3, <1>4, <1>5, <1>6, <1>7, <1>8, <1>9, <1>10, <1>11
        DEF RollupNext, RecordRow, runRollupMaintenance, runRetentionCleanup, runPurge

-----------------------------------------------------------------------------
(* The theorems.                                                           *)

\* Rollup maintenance, retention and the purge keep the tables, the marks and
\* the run under the lock in the shape their statements give them.
THEOREM RollupTypeCorrect == RollupSpec => []RollupTypeOK
<1>1. RollupTypeOK /\ LedgerInv /\ [RollupNext]_rollupVars => RollupTypeOK' /\ LedgerInv'
  BY LedgerStep
<1> QED BY <1>1, LedgerStarts, PTL DEF RollupSpec

\* No interleaving of recording and rebuilding loses a row: the rebuild counts it
\* or leaves the mark that makes the next one count it (rebuildDirtyBatchTx).
THEOREM RowsAreFoldedOrMarked == RollupSpec => []FoldedOrMarked
<1>1. RollupTypeOK /\ LedgerInv /\ [RollupNext]_rollupVars => RollupTypeOK' /\ LedgerInv'
  BY LedgerStep
<1>2. LedgerInv => FoldedOrMarked
  BY DEF LedgerInv
<1> QED BY <1>1, <1>2, LedgerStarts, PTL DEF RollupSpec

\* The rollup of a day within the retention counts what its hours count, for every
\* length of a day and every batch of its hours that is rebuilt.
THEOREM DaysAreSumsOfHours == RollupSpec => []DailyIsSumOfHourly
<1>1. RollupTypeOK /\ LedgerInv /\ [RollupNext]_rollupVars => RollupTypeOK' /\ LedgerInv'
  BY LedgerStep
<1>2. RollupTypeOK /\ LedgerInv /\ DailyIsSumOfHourly /\ [RollupNext]_rollupVars => DailyIsSumOfHourly'
  BY DaysStep
<1> QED BY <1>1, <1>2, LedgerStarts, DaysStart, PTL DEF RollupSpec

\* The ledger implements what the view of its readers may ever show: a rollup
\* counts no row that was not recorded, and loses none it has counted, until the
\* row's history is given up as a whole (retention waits for the marks, and stays
\* behind the mark horizon).
THEOREM LedgerImplementsView == RollupSpec => View!ViewSafety
<1>1. RollupTypeOK /\ LedgerInv /\ [RollupNext]_rollupVars => RollupTypeOK' /\ LedgerInv'
  BY LedgerStep
<1>2. RollupTypeOK /\ LedgerInv /\ [RollupNext]_rollupVars => [View!ViewNext]_(View!viewVars)
  BY ViewStep
<1> QED BY <1>1, <1>2, LedgerStarts, ViewStarts, PTL DEF RollupSpec, View!ViewSafety

=============================================================================
