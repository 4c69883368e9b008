----------------------------- MODULE WorkerProofs -----------------------------
(***************************************************************************)
(* Theorems about AiJobs for every set of triages, analyses and relays,    *)
(* and every time limit and cap that AiJobsAssumption allows.              *)
(***************************************************************************)
EXTENDS AiJobs, FiniteSetTheorems, TLAPS

-----------------------------------------------------------------------------
(* Types.                                                                  *)

JobStatus == {"none", "pending", "ready", "failed", "skipped"}
RowRecord == [status : JobStatus, age : Nat, enq : Nat, run : Nat \cup {NotStarted}, attempts : Nat]
CopyRecord == [st : {"none", "queued", "waiting", "running"}, n : Nat, t : Nat, age : Nat, held : BOOLEAN]
RelayRecord == [pc : {"idle", "waiting", "tx", "publish", "undo"}, jobs : SUBSET Triages]

AiJobsTypes ==
    /\ jobRow \in [Jobs -> RowRecord]
    /\ copy \in [Jobs -> [Slots -> CopyRecord]]
    /\ dupAge \in [Triages -> Nat]
    /\ jobLock \in [Jobs -> Slots \cup {0, Ghost}]
    /\ relay \in [Relays -> RelayRecord]
    /\ request \in [Analyses -> {"idle", "publishing", "failing"}]
    /\ disturbed \in SUBSET Jobs /\ jobFaults \in Nat

\* The greatest of the limits exists: ages are numbers, and no limit is missed.
LEMMA OldestAgeIsLast ==
    /\ OldestAge \in Nat
    /\ \A n \in {TriageNotStartedAfter, LockCeiling, TriageFailAfter, HourlyWindow} : n < OldestAge
<1> DEFINE L == {TriageNotStartedAfter, LockCeiling, TriageFailAfter, HourlyWindow}
<1>1. /\ TriageNotStartedAfter \in Nat /\ LockCeiling \in Nat
      /\ TriageFailAfter \in Nat /\ HourlyWindow \in Nat
  BY AiJobsAssumption
<1>2. \E n \in L : \A m \in L : m <= n
  BY <1>1
<1>3. (CHOOSE n \in L : \A m \in L : m <= n) \in L
  BY <1>2
<1>4. \A m \in L : m <= CHOOSE n \in L : \A k \in L : k <= n
  BY <1>2
<1> DEFINE c == CHOOSE n \in L : \A m \in L : m <= n
<1>5. OldestAge = 1 + c
  BY DEF OldestAge
<1> HIDE DEF c
<1>6. c \in Nat /\ \A m \in L : m <= c
  BY <1>1, <1>3, <1>4 DEF c
<1> QED BY <1>1, <1>5, <1>6


\* An age never goes back, and passes a limit if it was past it.
LEMMA OlderAges ==
    ASSUME NEW n \in Nat
    PROVE  /\ Older(n) \in Nat /\ n <= Older(n) /\ Older(n) <= n + 1
           /\ OlderOutcome(n) \in Nat /\ n <= OlderOutcome(n)
BY OldestAgeIsLast, AiJobsAssumption DEF Older, OlderOutcome

LEMMA RowTypes ==
    ASSUME AiJobsTypes, NEW j \in Jobs
    PROVE  /\ NewRow \in RowRecord
           /\ \A s \in JobStatus : Settled(j, s) \in RowRecord /\ Guarded(j, s) \in RowRecord
           /\ [jobRow[j] EXCEPT !.run = 0] \in RowRecord
           /\ [jobRow[j] EXCEPT !.enq = 0, !.attempts = @ + 1] \in RowRecord
           /\ jobRow[j].attempts > 0 => [jobRow[j] EXCEPT !.attempts = @ - 1] \in RowRecord
           /\ AgedRow(j) \in RowRecord
<1>1. jobRow[j] \in RowRecord
  BY DEF AiJobsTypes
<1>2. jobRow[j].age \in Nat /\ jobRow[j].enq \in Nat /\ jobRow[j].run \in Nat \cup {NotStarted}
      /\ jobRow[j].attempts \in Nat /\ jobRow[j].status \in JobStatus
  BY <1>1 DEF RowRecord
<1>3. NewRow \in RowRecord
  BY DEF NewRow, NoRow, RowRecord, JobStatus, NotStarted
<1>4. \A s \in JobStatus : Settled(j, s) \in RowRecord /\ Guarded(j, s) \in RowRecord
  BY <1>1, <1>2 DEF Settled, Guarded, NoRow, RowRecord, NotStarted
<1>5. /\ [jobRow[j] EXCEPT !.run = 0] \in RowRecord
      /\ [jobRow[j] EXCEPT !.enq = 0, !.attempts = @ + 1] \in RowRecord
      /\ jobRow[j].attempts > 0 => [jobRow[j] EXCEPT !.attempts = @ - 1] \in RowRecord
  <2>1. \A r \in RowRecord, x \in Nat :
           /\ [r EXCEPT !.run = 0] \in RowRecord /\ [r EXCEPT !.attempts = x] \in RowRecord
           /\ [r EXCEPT !.enq = 0, !.attempts = x] \in RowRecord
    BY DEF RowRecord
  <2>2. /\ jobRow[j].attempts + 1 \in Nat
        /\ jobRow[j].attempts > 0 => jobRow[j].attempts - 1 \in Nat
    BY <1>2
  <2> QED BY <1>1, <2>1, <2>2
<1>6. AgedRow(j) \in RowRecord
  <2>1. /\ Older(jobRow[j].age) \in Nat /\ OlderOutcome(jobRow[j].age) \in Nat
        /\ Older(jobRow[j].enq) \in Nat
        /\ jobRow[j].run # NotStarted => Older(jobRow[j].run) \in Nat
    BY <1>2, OlderAges
  <2> QED BY <1>1, <1>2, <2>1 DEF AgedRow, RowRecord
<1> QED BY <1>3, <1>4, <1>5, <1>6

LEMMA CopyTypes ==
    ASSUME AiJobsTypes, NEW j \in Jobs, NEW c \in Slots
    PROVE  /\ NewCopy \in CopyRecord /\ NoCopy \in CopyRecord
           /\ \A d \in Nat : Back(j, c, d) \in CopyRecord
           /\ [copy[j][c] EXCEPT !.st = "waiting", !.n = @ + 1, !.t = 1] \in CopyRecord
           /\ [copy[j][c] EXCEPT !.st = "running", !.n = @ + 1, !.t = 0] \in CopyRecord
           /\ [copy[j][c] EXCEPT !.held = FALSE] \in CopyRecord
           /\ (copy[j][c].st = "waiting" => copy[j][c].t > 0) => AgedCopy(j, c) \in CopyRecord
           /\ copy[j][c].n * RunTime \in Nat
<1>1. copy[j][c] \in CopyRecord
  BY DEF AiJobsTypes
<1>2. copy[j][c].n \in Nat /\ copy[j][c].t \in Nat /\ copy[j][c].age \in Nat
      /\ copy[j][c].held \in BOOLEAN /\ copy[j][c].st \in {"none", "queued", "waiting", "running"}
  BY <1>1 DEF CopyRecord
<1>3. NewCopy \in CopyRecord /\ NoCopy \in CopyRecord
  BY DEF NewCopy, NoCopy, CopyRecord
<1>4. \A d \in Nat : Back(j, c, d) \in CopyRecord
  BY <1>1, <1>3 DEF Back, CopyRecord
<1>5. /\ [copy[j][c] EXCEPT !.st = "waiting", !.n = @ + 1, !.t = 1] \in CopyRecord
      /\ [copy[j][c] EXCEPT !.st = "running", !.n = @ + 1, !.t = 0] \in CopyRecord
      /\ [copy[j][c] EXCEPT !.held = FALSE] \in CopyRecord
  <2>1. /\ \A m \in CopyRecord, x \in Nat : [m EXCEPT !.st = "waiting", !.n = x, !.t = 1] \in CopyRecord
        /\ \A m \in CopyRecord, x \in Nat : [m EXCEPT !.st = "running", !.n = x, !.t = 0] \in CopyRecord
        /\ \A m \in CopyRecord : [m EXCEPT !.held = FALSE] \in CopyRecord
    <3>1. \A m \in CopyRecord, x \in Nat : [m EXCEPT !.st = "waiting", !.n = x, !.t = 1] \in CopyRecord
      BY DEF CopyRecord
    <3>2. \A m \in CopyRecord, x \in Nat : [m EXCEPT !.st = "running", !.n = x, !.t = 0] \in CopyRecord
      BY DEF CopyRecord
    <3>3. \A m \in CopyRecord : [m EXCEPT !.held = FALSE] \in CopyRecord
      BY DEF CopyRecord
    <3> QED BY <3>1, <3>2, <3>3
  <2>2. copy[j][c].n + 1 \in Nat
    BY <1>2
  <2> QED BY <1>1, <2>1, <2>2
<1>6. ASSUME copy[j][c].st = "waiting" => copy[j][c].t > 0
      PROVE  AgedCopy(j, c) \in CopyRecord
  <2> DEFINE m == copy[j][c]
             expired == j \in Triages /\ m.age >= TriageMaxAge
             age == IF j \in Triages /\ ~expired THEN m.age + 1 ELSE m.age
  <2>1. age \in Nat /\ expired \in BOOLEAN
    BY <1>2
  <2>2. /\ m \in CopyRecord /\ NoCopy \in CopyRecord
        /\ [m EXCEPT !.age = age] \in CopyRecord
        /\ m.t > 0 => [m EXCEPT !.age = age, !.t = @ - 1] \in CopyRecord
        /\ [m EXCEPT !.age = age, !.t = @ + 1, !.held = @ /\ ~expired] \in CopyRecord
    <3>1. \A r \in CopyRecord, x \in Nat, y \in Nat, b \in BOOLEAN :
             /\ [r EXCEPT !.age = x] \in CopyRecord
             /\ [r EXCEPT !.age = x, !.t = y] \in CopyRecord
             /\ [r EXCEPT !.age = x, !.t = y, !.held = b] \in CopyRecord
      BY DEF CopyRecord
    <3>2. /\ m.t + 1 \in Nat
          /\ m.t > 0 => m.t - 1 \in Nat
          /\ (m.held /\ ~expired) \in BOOLEAN
      BY <1>2
    <3>3. m \in CopyRecord /\ NoCopy \in CopyRecord
      BY <1>1, <1>3
    <3> DEFINE h == m.held /\ ~expired
    <3>4. h \in BOOLEAN
      BY <3>2
    <3>5. [m EXCEPT !.age = age, !.t = @ + 1, !.held = @ /\ ~expired]
             = [m EXCEPT !.age = age, !.t = m.t + 1, !.held = h]
      OBVIOUS
    <3> HIDE DEF age, expired, m, h
    <3>6. /\ [m EXCEPT !.age = age] \in CopyRecord
          /\ m.t > 0 => [m EXCEPT !.age = age, !.t = m.t - 1] \in CopyRecord
      BY <2>1, <3>1, <3>2, <3>3
    <3>7. [m EXCEPT !.age = age, !.t = m.t + 1, !.held = h] \in CopyRecord
      BY <2>1, <3>1, <3>2, <3>3, <3>4
    <3> QED BY <3>3, <3>5, <3>6, <3>7
  <2>3. AgedCopy(j, c) = CASE m.st = "none" -> m
          [] m.st = "queued" -> IF expired THEN NoCopy ELSE [m EXCEPT !.age = age]
          [] m.st = "waiting" -> IF expired THEN NoCopy ELSE [m EXCEPT !.age = age, !.t = @ - 1]
          [] m.st = "running" -> [m EXCEPT !.age = age, !.t = @ + 1, !.held = @ /\ ~expired]
    BY DEF AgedCopy
  <2> HIDE DEF age, expired
  <2> QED BY <1>2, <1>6, <2>2, <2>3
<1>7. copy[j][c].n * RunTime \in Nat
  <2>1. RunTime \in Nat
    BY AiJobsAssumption
  <2> QED BY <1>2, <2>1
<1> QED BY <1>3, <1>4, <1>5, <1>6, <1>7


\* Store adds at most one fresh message, to the job it is for.
LEMMA StoreTypes ==
    ASSUME AiJobsTypes, NEW j \in Jobs, Store(j)
    PROVE  /\ copy' \in [Jobs -> [Slots -> CopyRecord]] /\ dupAge' \in [Triages -> Nat]
           /\ disturbed' \in SUBSET Jobs
<1>1. CASE ~Stores(j)
  BY <1>1 DEF Store, AiJobsTypes
<1>2. CASE Stores(j)
  <2>1. PICK slot \in Slots : copy' = [copy EXCEPT ![j][slot] = NewCopy]
    BY <1>2 DEF Store, Slots
  <2>2. dupAge' = IF j \in Triages THEN [dupAge EXCEPT ![j] = 0] ELSE dupAge
    BY <1>2 DEF Store
  <2>3. disturbed' \in {disturbed, disturbed \cup {j}}
    BY <1>2, SMTT(30) DEF Store
  <2>4. copy' \in [Jobs -> [Slots -> CopyRecord]]
    BY <2>1, CopyTypes, ZenonT(60) DEF AiJobsTypes
  <2>5. dupAge' \in [Triages -> Nat]
    BY <2>2 DEF AiJobsTypes
  <2> QED BY <2>3, <2>4, <2>5 DEF AiJobsTypes
<1> QED BY <1>1, <1>2

\* A tick of the relay keeps the types.
LEMMA RelayTypes ==
    ASSUME AiJobsTypes, NEW r \in Relays,
           \/ ClaimTx(r) \/ CommitTick(r) \/ UndoPublish(r) \/ AbortTick(r) \/ RelayCrash(r)
           \/ \E j \in Triages : PublishJob(r, j) \/ PublishJobFails(r, j)
    PROVE  AiJobsTypes'
<1>1. relay[r] \in RelayRecord /\ relay[r].jobs \in SUBSET Triages /\ relay \in [Relays -> RelayRecord]
  BY DEF AiJobsTypes, RelayRecord
<1>2. Triages \subseteq Jobs
  BY DEF Jobs
<1>3. JobFault => jobFaults' \in Nat
  BY DEF JobFault, AiJobsTypes
<1>4. \A T \in SUBSET Triages, p \in {"idle", "waiting", "tx", "publish", "undo"} :
         [pc |-> p, jobs |-> T] \in RelayRecord
  BY DEF RelayRecord
<1>5. WaitingRelay \in RelayRecord
  BY DEF WaitingRelay, RelayRecord
<1>6. CASE ClaimTx(r)
  <2>1. PICK claimed \in SUBSET {j \in Triages : jobRow[j].status = "none"} :
           relay' = [relay EXCEPT ![r] = [pc |-> "tx", jobs |-> claimed]]
    BY <1>6 DEF ClaimTx
  <2>2. relay' \in [Relays -> RelayRecord]
    BY <1>1, <1>4, <2>1
  <2> QED BY <1>6, <2>2 DEF ClaimTx, AiJobsTypes
<1>7. CASE CommitTick(r)
  <2> DEFINE inserted == {j \in relay[r].jobs : jobRow[j].status = "none"}
             republished == {j \in Triages : Republishes(j)}
             publish == inserted \cup republished
  <2>1. jobRow' = [j \in Jobs |->
                     CASE j \in inserted -> NewRow
                       [] j \in republished -> [jobRow[j] EXCEPT !.enq = 0, !.attempts = @ + 1]
                       [] j \in Triages /\ RelayFails(j) -> Settled(j, "failed")
                       [] OTHER -> jobRow[j]]
    BY <1>7 DEF CommitTick
  <2>2. relay' = [relay EXCEPT ![r] = IF publish = {} THEN WaitingRelay
                                         ELSE [pc |-> "publish", jobs |-> publish]]
    BY <1>7 DEF CommitTick
  <2>3. publish \in SUBSET Triages
    BY <1>1
  <2>4. UNCHANGED <<copy, dupAge, jobLock, request, disturbed, jobFaults>>
    BY <1>7 DEF CommitTick
  <2> HIDE DEF inserted, republished, publish
  <2>5. relay' \in [Relays -> RelayRecord]
    BY <1>1, <1>4, <1>5, <2>2, <2>3
  <2>6. \A j \in Jobs : jobRow'[j] \in RowRecord
    BY <2>1, RowTypes DEF AiJobsTypes, JobStatus
  <2>7. jobRow' \in [Jobs -> RowRecord]
    BY <2>1, <2>6
  <2> QED BY <2>4, <2>5, <2>7 DEF AiJobsTypes
<1>8. CASE UndoPublish(r)
  <2>1. relay' \in [Relays -> RelayRecord]
    BY <1>1, <1>5, <1>8 DEF UndoPublish
  <2>2. jobRow' = [j \in Jobs |-> IF j \in relay[r].jobs /\ Pending(j) /\ jobRow[j].attempts > 0
                              THEN [jobRow[j] EXCEPT !.attempts = @ - 1] ELSE jobRow[j]]
    BY <1>8 DEF UndoPublish
  <2>3. \A j \in Jobs : jobRow'[j] \in RowRecord
    BY <2>2, RowTypes DEF AiJobsTypes
  <2> QED BY <1>8, <2>1, <2>2, <2>3 DEF UndoPublish, AiJobsTypes
<1>9. CASE AbortTick(r) \/ RelayCrash(r)
  <2>1. relay' \in [Relays -> RelayRecord]
    BY <1>1, <1>5, <1>9 DEF AbortTick, RelayCrash
  <2> QED BY <1>3, <1>9, <2>1 DEF AbortTick, RelayCrash, AiJobsTypes
<1>10. ASSUME NEW j \in Triages, PublishJob(r, j)
       PROVE  AiJobsTypes'
  <2>1. relay' = [relay EXCEPT ![r] = IF relay[r].jobs = {j} THEN WaitingRelay
                                     ELSE [relay[r] EXCEPT !.jobs = relay[r].jobs \ {j}]]
    BY <1>1, <1>10 DEF PublishJob
  <2>2. [relay[r] EXCEPT !.jobs = relay[r].jobs \ {j}] \in RelayRecord
    BY <1>1 DEF RelayRecord
  <2>3. relay' \in [Relays -> RelayRecord]
    BY <1>1, <1>5, <2>1, <2>2
  <2> QED BY <1>2, <1>10, <2>3, StoreTypes DEF PublishJob, AiJobsTypes
<1>11. ASSUME NEW j \in Triages, PublishJobFails(r, j)
       PROVE  AiJobsTypes'
  <2>1. relay' \in [Relays -> RelayRecord]
    BY <1>1, <1>11 DEF PublishJobFails, RelayRecord
  <2>2. /\ copy' \in [Jobs -> [Slots -> CopyRecord]] /\ dupAge' \in [Triages -> Nat]
        /\ disturbed' \in SUBSET Jobs
    BY <1>2, <1>11, StoreTypes DEF PublishJobFails, AiJobsTypes
  <2> QED BY <1>3, <1>11, <2>1, <2>2 DEF PublishJobFails, AiJobsTypes
<1> QED BY <1>6, <1>7, <1>8, <1>9, <1>10, <1>11

\* A request, the sweep and the broker keep the types.
LEMMA RequestTypes ==
    ASSUME AiJobsTypes, AnalysisStep \/ SweepStale \/ StoreLost \/ \E j \in Jobs : SessionEnds(j)
    PROVE  AiJobsTypes'
<1>1. Analyses \subseteq Jobs
  BY DEF Jobs
<1>2. JobFault => jobFaults' \in Nat
  BY DEF JobFault, AiJobsTypes
<1>3. ASSUME NEW j \in Analyses, RequestAIAnalysis(j) PROVE AiJobsTypes'
  BY <1>1, <1>3, RowTypes DEF RequestAIAnalysis, AiJobsTypes
<1>4. ASSUME NEW j \in Analyses, Enqueue(j) PROVE AiJobsTypes'
  <2>1. request' \in [Analyses -> {"idle", "publishing", "failing"}]
    BY <1>4 DEF Enqueue, AiJobsTypes
  <2> QED BY <1>1, <1>4, <2>1, StoreTypes DEF Enqueue, AiJobsTypes
<1>5. ASSUME NEW j \in Analyses, EnqueueFails(j) PROVE AiJobsTypes'
  <2>1. request' \in [Analyses -> {"idle", "publishing", "failing"}]
    BY <1>5 DEF EnqueueFails, AiJobsTypes
  <2>2. /\ copy' \in [Jobs -> [Slots -> CopyRecord]] /\ dupAge' \in [Triages -> Nat]
        /\ disturbed' \in SUBSET Jobs
    BY <1>1, <1>5, StoreTypes DEF EnqueueFails, AiJobsTypes
  <2> QED BY <1>2, <1>5, <2>1, <2>2 DEF EnqueueFails, AiJobsTypes
<1>6. ASSUME NEW j \in Analyses, FailPendingAIAnalysis(j) \/ RequestCrash(j) PROVE AiJobsTypes'
  <2>1. Guarded(j, "failed") \in RowRecord
    BY <1>1, RowTypes DEF JobStatus
  <2> QED BY <1>2, <1>6, <2>1 DEF FailPendingAIAnalysis, RequestCrash, AiJobsTypes
<1>7. CASE SweepStale
  <2>1. \A j \in Jobs : Guarded(j, "failed") \in RowRecord /\ jobRow[j] \in RowRecord
    BY RowTypes DEF JobStatus, AiJobsTypes
  <2> QED BY <1>7, <2>1 DEF SweepStale, AiJobsTypes
<1>8. CASE StoreLost
  <2>1. \A j \in Jobs, c \in Slots : /\ [copy[j][c] EXCEPT !.held = FALSE] \in CopyRecord
                                     /\ NoCopy \in CopyRecord
    BY CopyTypes, ZenonT(60)
  <2>2. copy' \in [Jobs -> [Slots -> CopyRecord]]
    BY <1>8, <2>1 DEF StoreLost
  <2>3. dupAge' \in [Triages -> Nat]
    BY <1>8, AiJobsAssumption DEF StoreLost
  <2> QED BY <1>2, <1>8, <2>2, <2>3, SMTT(30) DEF StoreLost, AiJobsTypes
<1>9. ASSUME NEW j \in Jobs, SessionEnds(j) PROVE AiJobsTypes'
  BY <1>9 DEF SessionEnds, AiJobsTypes
<1> QED BY <1>3, <1>4, <1>5, <1>6, <1>7, <1>8, <1>9 DEF AnalysisStep


\* A delivery, the end of a run and a lost worker keep the types.
LEMMA DeliveryTypes ==
    ASSUME AiJobsTypes, NEW j \in Jobs, NEW c \in Slots,
           \/ DeliverBusy(j, c) \/ DeliverSettled(j, c) \/ DeliverRun(j, c)
           \/ \E o \in Outcomes(j) : Finish(j, c, o)
           \/ \E d \in 1..RetryDelay : SettleDelivery(j, c, d)
           \/ LeaveUnrecorded(j, c) \/ \E s \in {0, Ghost} : WorkerLost(j, c, s)
    PROVE  AiJobsTypes'
<1>1. JobFault => jobFaults' \in Nat
  BY DEF JobFault, AiJobsTypes
<1>2. \A m \in CopyRecord : [copy EXCEPT ![j][c] = m] \in [Jobs -> [Slots -> CopyRecord]]
  BY DEF AiJobsTypes
<1>3. \A w \in RowRecord : [jobRow EXCEPT ![j] = w] \in [Jobs -> RowRecord]
  BY DEF AiJobsTypes
<1>4. \A l \in Slots \cup {0, Ghost} : [jobLock EXCEPT ![j] = l] \in [Jobs -> Slots \cup {0, Ghost}]
  BY DEF AiJobsTypes
<1>5. CASE DeliverBusy(j, c)
  <2>1. copy' \in [Jobs -> [Slots -> CopyRecord]]
    <3> DEFINE m == IF copy[j][c].n + 1 >= MaxDeliveries THEN NoCopy
                    ELSE [copy[j][c] EXCEPT !.st = "waiting", !.n = copy[j][c].n + 1, !.t = 1]
    <3>1. m \in CopyRecord
      BY CopyTypes, ZenonT(60)
    <3>2. copy' = [copy EXCEPT ![j][c] = m]
      BY <1>5, SMTT(30) DEF DeliverBusy
    <3> QED BY <1>2, <3>1, <3>2, SMTT(30)
  <2> QED BY <1>5, <2>1 DEF DeliverBusy, AiJobsTypes
<1>6. CASE DeliverSettled(j, c)
  BY <1>2, <1>6, CopyTypes, ZenonT(60) DEF DeliverSettled, AiJobsTypes
<1>7. CASE DeliverRun(j, c)
  <2>1. copy' = [copy EXCEPT ![j][c] = [copy[j][c] EXCEPT !.st = "running", !.n = copy[j][c].n + 1, !.t = 0]]
    BY <1>7, ZenonT(60) DEF DeliverRun, AiJobsTypes
  <2>2. copy' \in [Jobs -> [Slots -> CopyRecord]]
    BY <1>2, <2>1, CopyTypes, ZenonT(60)
  <2>3. jobRow' \in {jobRow, [jobRow EXCEPT ![j] = [jobRow[j] EXCEPT !.run = 0]]}
    BY <1>7 DEF DeliverRun
  <2>4. jobRow' \in [Jobs -> RowRecord]
    BY <1>3, <2>3, RowTypes DEF AiJobsTypes
  <2>5. jobLock' \in [Jobs -> Slots \cup {0, Ghost}]
    BY <1>4, <1>7 DEF DeliverRun
  <2> QED BY <1>7, <2>2, <2>4, <2>5 DEF DeliverRun, AiJobsTypes
<1>8. ASSUME NEW o \in Outcomes(j), Finish(j, c, o) PROVE AiJobsTypes'
  <2>1. Guarded(j, o) \in RowRecord
    BY RowTypes, ZenonT(60) DEF Outcomes, JobStatus
  <2>2. /\ jobRow' \in [Jobs -> RowRecord] /\ copy' \in [Jobs -> [Slots -> CopyRecord]]
        /\ jobLock' \in [Jobs -> Slots \cup {0, Ghost}]
    BY <1>2, <1>3, <1>4, <1>8, <2>1, CopyTypes, ZenonT(60) DEF Finish
  <2> QED BY <1>8, <2>2 DEF Finish, AiJobsTypes
<1>9. ASSUME NEW d \in 1..RetryDelay, SettleDelivery(j, c, d) PROVE AiJobsTypes'
  <2>1. Guarded(j, "failed") \in RowRecord
    BY RowTypes DEF JobStatus
  <2>2. jobRow' \in [Jobs -> RowRecord]
    BY <1>3, <1>9, <2>1 DEF SettleDelivery, AiJobsTypes
  <2>3. d \in Nat
    BY AiJobsAssumption, SMTT(30)
  <2>4. copy' \in [Jobs -> [Slots -> CopyRecord]] /\ jobLock' \in [Jobs -> Slots \cup {0, Ghost}]
    BY <1>2, <1>4, <1>9, <2>3, CopyTypes DEF SettleDelivery
  <2> QED BY <1>9, <2>2, <2>4 DEF SettleDelivery, AiJobsTypes
<1>10. CASE LeaveUnrecorded(j, c)
  <2>1. copy' \in [Jobs -> [Slots -> CopyRecord]] /\ jobLock' \in [Jobs -> Slots \cup {0, Ghost}]
    BY <1>2, <1>4, <1>10, CopyTypes, ZenonT(60) DEF LeaveUnrecorded
  <2> QED BY <1>1, <1>10, <2>1, SMTT(30) DEF LeaveUnrecorded, AiJobsTypes
<1>11. ASSUME NEW s \in {0, Ghost}, WorkerLost(j, c, s) PROVE AiJobsTypes'
  <2>1. copy' \in [Jobs -> [Slots -> CopyRecord]] /\ jobLock' \in [Jobs -> Slots \cup {0, Ghost}]
    BY <1>2, <1>4, <1>11, CopyTypes, ZenonT(60) DEF WorkerLost
  <2> QED BY <1>1, <1>11, <2>1, SMTT(30) DEF WorkerLost, AiJobsTypes
<1> QED BY <1>5, <1>6, <1>7, <1>8, <1>9, <1>10, <1>11

LEMMA PassTimeTypes ==
    ASSUME AiJobsTypes, PassTime
    PROVE  AiJobsTypes'
<1>1. jobRow' \in [Jobs -> RowRecord]
  BY RowTypes, ZenonT(60) DEF PassTime
<1>2. copy' \in [Jobs -> [Slots -> CopyRecord]]
  BY CopyTypes, ZenonT(60) DEF PassTime
<1>3. dupAge' \in [Triages -> Nat]
  BY DEF PassTime, AiJobsTypes
<1>4. relay' \in [Relays -> RelayRecord]
  BY DEF PassTime, IdleRelay, RelayRecord
<1> QED BY <1>1, <1>2, <1>3, <1>4 DEF PassTime, AiJobsTypes

LEMMA AiJobsTypesStep == AiJobsTypes /\ [AiJobsNext]_jobVars => AiJobsTypes'
<1> SUFFICES ASSUME AiJobsTypes, [AiJobsNext]_jobVars
             PROVE  AiJobsTypes'
  OBVIOUS
<1>1. CASE RelayStep \/ RelayFault
  BY <1>1, RelayTypes DEF RelayStep, RelayFault
<1>2. CASE AnalysisStep \/ SweepStale \/ StoreLost \/ \E j \in Jobs : SessionEnds(j)
  BY <1>2, RequestTypes
<1>3. CASE DeliverJob \/ EndRun \/ WorkerFault
  BY <1>3, DeliveryTypes DEF DeliverJob, EndRun, WorkerFault
<1>4. CASE PassTime
  BY <1>4, PassTimeTypes
<1>5. CASE UNCHANGED jobVars
  BY <1>5 DEF jobVars, AiJobsTypes
<1> QED BY <1>1, <1>2, <1>3, <1>4, <1>5 DEF AiJobsNext

LEMMA AiJobsTypesInit == AiJobsInit => AiJobsTypes
<1>1. NoRow \in RowRecord /\ NoCopy \in CopyRecord
  BY DEF NoRow, NoCopy, RowRecord, CopyRecord, JobStatus
<1>2. IdleRelay \in RelayRecord
  BY DEF IdleRelay, RelayRecord
<1>3. TriageDuplicatesWindow + 1 \in Nat
  BY AiJobsAssumption
<1> QED BY <1>1, <1>2, <1>3 DEF AiJobsInit, AiJobsTypes


-----------------------------------------------------------------------------
(* The caps of the relay.                                                  *)

\* One tick at a time is between its claim and its commit, and what it claims
\* fits under both caps.
OneTick == \A r, q \in Relays : relay[r].pc = "tx" /\ relay[q].pc = "tx" => r = q
ClaimsFit ==
    \A r \in Relays : relay[r].pc = "tx" /\ relay[r].jobs # {} =>
        /\ Cardinality(Used \cup relay[r].jobs) <= TriageMaxPerHour
        /\ Cardinality(Backlog \cup relay[r].jobs) <= RelayMaxPending

CapsInv == AiJobsTypes /\ OneTick /\ ClaimsFit /\ CapsAreExact

\* A row counts against a cap only if it did before.
CountsNoMore(j) ==
    /\ Pending(j)' => Pending(j)
    /\ jobRow'[j].status \notin {"none", "skipped"} =>
          jobRow[j].status \notin {"none", "skipped"} /\ jobRow[j].age <= jobRow'[j].age

LEMMA SmallerCounts ==
    ASSUME NEW S, NEW T, T \subseteq S, IsFiniteSet(S), NEW n \in Nat, Cardinality(S) <= n
    PROVE  Cardinality(T) <= n
<1>1. IsFiniteSet(T) /\ Cardinality(T) <= Cardinality(S)
  BY FS_Subset
<1>2. Cardinality(T) \in Nat /\ Cardinality(S) \in Nat
  BY <1>1, FS_CardinalityType
<1> QED BY <1>1, <1>2

\* A step after which no triage counts that did not, and which begins no claim.
LEMMA CapsKept ==
    ASSUME CapsInv, AiJobsTypes', \A j \in Triages : CountsNoMore(j),
           \A r \in Relays : relay'[r].pc = "tx" => relay'[r] = relay[r]
    PROVE  CapsInv'
<1>1. Triages \subseteq Jobs
  BY DEF Jobs
<1>2. Backlog' \subseteq Backlog
  BY DEF Backlog, CountsNoMore
<1>3. Used' \subseteq Used
  <2> SUFFICES ASSUME NEW j \in Triages, j \in Used'
               PROVE  j \in Used
    BY DEF Used
  <2>1. jobRow[j].age \in Nat /\ jobRow'[j].age \in Nat /\ HourlyWindow \in Nat
    BY <1>1, AiJobsAssumption DEF CapsInv, AiJobsTypes, RowRecord
  <2> QED BY <2>1 DEF Used, CountsNoMore
<1>4. \A T \in SUBSET Triages : IsFiniteSet(T)
  BY AiJobsAssumption, FS_Subset
<1>5. TriageMaxPerHour \in Nat /\ RelayMaxPending \in Nat
  BY AiJobsAssumption
<1>6. Used \subseteq Triages /\ Backlog \subseteq Triages
  BY DEF Used, Backlog
<1>7. CapsAreExact'
  BY <1>2, <1>3, <1>4, <1>5, <1>6, SmallerCounts DEF CapsInv, CapsAreExact
<1>8. ClaimsFit'
  <2> SUFFICES ASSUME NEW r \in Relays, relay'[r].pc = "tx", relay'[r].jobs # {}
               PROVE  /\ Cardinality(Used' \cup relay'[r].jobs) <= TriageMaxPerHour
                      /\ Cardinality(Backlog' \cup relay'[r].jobs) <= RelayMaxPending
    BY DEF ClaimsFit
  <2>1. relay'[r] = relay[r]
    OBVIOUS
  <2>2. relay[r].jobs \subseteq Triages
    BY DEF CapsInv, AiJobsTypes, RelayRecord
  <2> DEFINE C == relay[r].jobs
  <2>3. /\ Cardinality(Used \cup C) <= TriageMaxPerHour
        /\ Cardinality(Backlog \cup C) <= RelayMaxPending
    BY <2>1 DEF CapsInv, ClaimsFit
  <2>4. IsFiniteSet(Used \cup C) /\ IsFiniteSet(Backlog \cup C)
    BY <1>4, <1>6, <2>2
  <2>5. Used' \cup C \subseteq Used \cup C /\ Backlog' \cup C \subseteq Backlog \cup C
    BY <1>2, <1>3
  <2> HIDE DEF C
  <2>6. /\ Cardinality(Used' \cup C) <= TriageMaxPerHour
        /\ Cardinality(Backlog' \cup C) <= RelayMaxPending
    BY <1>5, <2>3, <2>4, <2>5, SmallerCounts
  <2> QED BY <2>1, <2>6 DEF C
<1>9. OneTick'
  BY DEF CapsInv, OneTick
<1> QED BY <1>7, <1>8, <1>9 DEF CapsInv

\* ClaimTx counts under the lock of the relay.
LEMMA CapsClaim ==
    ASSUME CapsInv, AiJobsTypes', NEW r \in Relays, ClaimTx(r)
    PROVE  CapsInv'
<1>1. PICK claimed \in SUBSET {j \in Triages : jobRow[j].status = "none"} :
         /\ claimed # {} => /\ Cardinality(Used) + Cardinality(claimed) <= TriageMaxPerHour
                            /\ Cardinality(Backlog) + Cardinality(claimed) <= RelayMaxPending
         /\ relay' = [relay EXCEPT ![r] = [pc |-> "tx", jobs |-> claimed]]
  BY DEF ClaimTx
<1>2. UNCHANGED <<jobRow, copy, dupAge, jobLock, request, disturbed, jobFaults>>
  BY DEF ClaimTx
<1>3. \A q \in Relays : relay[q].pc # "tx"
  BY DEF ClaimTx, RelayLockFree
<1>4. \A q \in Relays : relay'[q] = IF q = r THEN [pc |-> "tx", jobs |-> claimed] ELSE relay[q]
  BY <1>1 DEF CapsInv, AiJobsTypes
<1>5. Used' = Used /\ Backlog' = Backlog
  BY <1>2 DEF Used, Backlog, Pending
<1>6. claimed # {} => /\ Cardinality(Used \cup claimed) <= TriageMaxPerHour
                      /\ Cardinality(Backlog \cup claimed) <= RelayMaxPending
  <2>1. IsFiniteSet(Used) /\ IsFiniteSet(Backlog) /\ IsFiniteSet(claimed)
    BY AiJobsAssumption, FS_Subset DEF Used, Backlog
  <2>2. Used \cap claimed = {} /\ Backlog \cap claimed = {}
    BY DEF Used, Backlog, Pending
  <2>3. /\ Cardinality(Used \cup claimed) = Cardinality(Used) + Cardinality(claimed)
        /\ Cardinality(Backlog \cup claimed) = Cardinality(Backlog) + Cardinality(claimed)
    <3>1. Cardinality({}) = 0
      BY FS_EmptySet
    <3>2. /\ Cardinality(Used) \in Nat /\ Cardinality(Backlog) \in Nat /\ Cardinality(claimed) \in Nat
      BY <2>1, FS_CardinalityType
    <3>3. /\ Cardinality(Used \cup claimed) = Cardinality(Used) + Cardinality(claimed) - Cardinality(Used \cap claimed)
          /\ Cardinality(Backlog \cup claimed)
                = Cardinality(Backlog) + Cardinality(claimed) - Cardinality(Backlog \cap claimed)
      BY <2>1, FS_Union
    <3>4. Cardinality(Used \cap claimed) = 0 /\ Cardinality(Backlog \cap claimed) = 0
      BY <2>2, <3>1
    <3> QED BY <3>2, <3>3, <3>4
  <2> QED BY <1>1, <2>3
<1>7. OneTick' /\ ClaimsFit'
  <2>1. \A q \in Relays : relay'[q].pc = "tx" => q = r
    BY <1>3, <1>4
  <2>2. relay'[r].jobs = claimed
    BY <1>4
  <2> QED BY <1>5, <1>6, <2>1, <2>2 DEF OneTick, ClaimsFit
<1>8. CapsAreExact'
  BY <1>5 DEF CapsInv, CapsAreExact
<1> QED BY <1>7, <1>8 DEF CapsInv

\* CommitTick adds the rows of its claim and no others.
LEMMA CapsCommit ==
    ASSUME CapsInv, AiJobsTypes', NEW r \in Relays, CommitTick(r)
    PROVE  CapsInv'
<1> DEFINE C == relay[r].jobs
           inserted == {j \in C : jobRow[j].status = "none"}
           republished == {j \in Triages : Republishes(j)}
           publish == inserted \cup republished
           next(j) == CASE j \in inserted -> NewRow
                        [] j \in republished -> [jobRow[j] EXCEPT !.enq = 0, !.attempts = @ + 1]
                        [] j \in Triages /\ RelayFails(j) -> Settled(j, "failed")
                        [] OTHER -> jobRow[j]
<1>1. /\ jobRow' = [j \in Jobs |-> next(j)]
      /\ relay' = [relay EXCEPT ![r] = IF publish = {} THEN WaitingRelay
                                         ELSE [pc |-> "publish", jobs |-> publish]]
      /\ relay[r].pc = "tx"
  BY DEF CommitTick
<1>2. C \subseteq Triages /\ Triages \subseteq Jobs
  BY DEF CapsInv, AiJobsTypes, RelayRecord, Jobs
<1>3. \A q \in Relays : relay'[q].pc # "tx"
  <2>1. relay'[r].pc # "tx"
    <3> HIDE DEF publish
    <3> QED BY <1>1 DEF CapsInv, AiJobsTypes, WaitingRelay
  <2>2. \A q \in Relays : q # r => relay'[q] = relay[q]
    <3> HIDE DEF publish
    <3> QED BY <1>1 DEF CapsInv, AiJobsTypes
  <2> QED BY <1>1, <2>1, <2>2 DEF CapsInv, OneTick
<1>4. \A j \in Triages \ C : CountsNoMore(j)
  <2> SUFFICES ASSUME NEW j \in Triages, j \notin C
               PROVE  CountsNoMore(j)
    OBVIOUS
  <2>1. jobRow[j] \in RowRecord
    BY <1>2 DEF CapsInv, AiJobsTypes
  <2>2. j \notin inserted /\ (j \in republished <=> Republishes(j)) /\ jobRow'[j] = next(j)
    BY <1>1, <1>2
  <2> HIDE DEF inserted, republished, publish
  <2>3. CASE Republishes(j)
    <3>0. ~RelayFails(j)
      BY <2>1, <2>3, AiJobsAssumption
         DEF Republishes, RelayFails, RunTimedOut, NotStartedInTime, NotStarted, RowRecord
    <3>1. jobRow'[j] = [jobRow[j] EXCEPT !.enq = 0, !.attempts = @ + 1]
      BY <2>2, <2>3, <3>0
    <3> QED BY <2>1, <2>3, <3>1 DEF CountsNoMore, Pending, RowRecord, Republishes
  <2>4. CASE ~Republishes(j) /\ RelayFails(j)
    <3>1. jobRow'[j] = Settled(j, "failed")
      BY <2>2, <2>4
    <3> QED BY <2>1, <2>4, <3>1 DEF CountsNoMore, Pending, RowRecord, Settled, NoRow, RelayFails
  <2>5. CASE ~Republishes(j) /\ ~RelayFails(j)
    <3>1. jobRow'[j] = jobRow[j]
      BY <2>2, <2>5
    <3> QED BY <2>1, <3>1 DEF CountsNoMore, Pending, RowRecord
  <2> QED BY <2>3, <2>4, <2>5
<1>5. Backlog' \subseteq Backlog \cup C
  BY <1>4 DEF Backlog, CountsNoMore
<1>6. Used' \subseteq Used \cup C
  <2> SUFFICES ASSUME NEW j \in Triages \ C, j \in Used'
               PROVE  j \in Used
    BY DEF Used
  <2>1. jobRow[j].age \in Nat /\ jobRow'[j].age \in Nat /\ HourlyWindow \in Nat
    BY <1>2, AiJobsAssumption DEF CapsInv, AiJobsTypes, RowRecord
  <2> HIDE DEF C
  <2> QED BY <1>4, <2>1 DEF Used, CountsNoMore
<1>7. CapsAreExact'
  <2>1. IsFiniteSet(Used \cup C) /\ IsFiniteSet(Backlog \cup C)
    BY <1>2, AiJobsAssumption, FS_Subset DEF Used, Backlog
  <2>2. TriageMaxPerHour \in Nat /\ RelayMaxPending \in Nat
    BY AiJobsAssumption
  <2>3. /\ Cardinality(Used \cup C) <= TriageMaxPerHour
        /\ Cardinality(Backlog \cup C) <= RelayMaxPending
    <3>1. CASE C = {}
      <4>1. Used \cup C = Used /\ Backlog \cup C = Backlog
        BY <3>1
      <4> QED BY <4>1 DEF CapsInv, CapsAreExact
    <3>2. CASE C # {}
      BY <1>1, <3>2 DEF CapsInv, ClaimsFit
    <3> QED BY <3>1, <3>2
  <2> HIDE DEF C
  <2> QED BY <1>5, <1>6, <2>1, <2>2, <2>3, SmallerCounts DEF CapsAreExact
<1>8. OneTick' /\ ClaimsFit'
  BY <1>3 DEF OneTick, ClaimsFit
<1> QED BY <1>7, <1>8 DEF CapsInv


\* What the other steps do to the row of a triage.
LEMMA RowsCountNoMore ==
    ASSUME AiJobsTypes, NEW j \in Jobs,
           \/ jobRow'[j] = jobRow[j]
           \/ jobRow'[j] = [jobRow[j] EXCEPT !.run = 0]
           \/ jobRow'[j] = [jobRow[j] EXCEPT !.attempts = @ - 1]
           \/ \E s \in {"ready", "failed", "skipped"} : jobRow'[j] = Guarded(j, s)
           \/ jobRow'[j] = AgedRow(j)
    PROVE  CountsNoMore(j)
<1>1. jobRow[j] \in RowRecord
  BY DEF AiJobsTypes
<1>2. jobRow[j].age \in Nat
  BY <1>1 DEF RowRecord
<1>3. CASE \/ jobRow'[j] = jobRow[j]
           \/ jobRow'[j] = [jobRow[j] EXCEPT !.run = 0]
           \/ jobRow'[j] = [jobRow[j] EXCEPT !.attempts = @ - 1]
  <2>1. jobRow'[j].status = jobRow[j].status /\ jobRow'[j].age = jobRow[j].age
    BY <1>1, <1>3 DEF RowRecord
  <2> QED BY <1>2, <2>1 DEF CountsNoMore, Pending
<1>4. CASE \E s \in {"ready", "failed", "skipped"} : jobRow'[j] = Guarded(j, s)
  <2>1. PICK s \in {"ready", "failed", "skipped"} : jobRow'[j] = Guarded(j, s)
    BY <1>4
  <2>2. CASE Pending(j)
    <3>1. jobRow'[j].status = s /\ jobRow'[j].age = jobRow[j].age
      BY <2>1, <2>2 DEF Guarded, Settled, NoRow
    <3> QED BY <1>2, <2>2, <3>1 DEF CountsNoMore, Pending
  <2>3. CASE ~Pending(j)
    <3>1. jobRow'[j] = jobRow[j]
      BY <2>1, <2>3 DEF Guarded
    <3> QED BY <1>2, <3>1 DEF CountsNoMore, Pending
  <2> QED BY <2>2, <2>3
<1>5. CASE jobRow'[j] = AgedRow(j)
  <2>1. jobRow[j].status = jobRow'[j].status
    BY <1>1, <1>5 DEF AgedRow, RowRecord
  <2>2. jobRow'[j].age \in {jobRow[j].age, Older(jobRow[j].age), OlderOutcome(jobRow[j].age)}
    BY <1>1, <1>5 DEF AgedRow, RowRecord
  <2>3. jobRow[j].age <= jobRow'[j].age
    BY <1>2, <2>2, OlderAges
  <2> QED BY <2>1, <2>3 DEF CountsNoMore, Pending
<1> QED BY <1>3, <1>4, <1>5

LEMMA CapsStep == CapsInv /\ [AiJobsNext]_jobVars => CapsInv'
<1> SUFFICES ASSUME CapsInv, [AiJobsNext]_jobVars
             PROVE  CapsInv'
  OBVIOUS
<1>1. AiJobsTypes /\ AiJobsTypes'
  BY AiJobsTypesStep DEF CapsInv
<1>2. Triages \subseteq Jobs /\ Triages \cap Analyses = {}
  BY AiJobsAssumption DEF Jobs
<1>3. jobRow \in [Jobs -> RowRecord] /\ relay \in [Relays -> RelayRecord]
  BY <1>1 DEF AiJobsTypes
<1>4. ASSUME jobRow' = jobRow, relay' = relay PROVE CapsInv'
  BY <1>1, <1>2, <1>4, CapsKept, RowsCountNoMore
<1>5. ASSUME NEW r \in Relays, AbortTick(r) \/ RelayCrash(r) \/ UndoPublish(r)
                               \/ \E j \in Triages : PublishJob(r, j) \/ PublishJobFails(r, j)
      PROVE CapsInv'
  <2>1. \A j \in Triages : CountsNoMore(j)
    <3>1. \A j \in Triages : \/ jobRow'[j] = jobRow[j]
                             \/ jobRow'[j] = [jobRow[j] EXCEPT !.attempts = @ - 1]
      BY <1>2, <1>3, <1>5 DEF AbortTick, RelayCrash, UndoPublish, PublishJob, PublishJobFails
    <3> QED BY <1>1, <1>2, <3>1, RowsCountNoMore
  <2>2. \A q \in Relays : q # r => relay'[q] = relay[q]
    BY <1>3, <1>5 DEF AbortTick, RelayCrash, UndoPublish, PublishJob, PublishJobFails
  <2>3. relay'[r].pc # "tx"
    BY <1>3, <1>5 DEF AbortTick, RelayCrash, UndoPublish, PublishJob, PublishJobFails, WaitingRelay,
                      RelayRecord
  <2> QED BY <1>1, <2>1, <2>2, <2>3, CapsKept
<1>6. CASE RelayStep \/ RelayFault
  BY <1>1, <1>5, <1>6, CapsClaim, CapsCommit DEF RelayStep, RelayFault
<1>7. CASE AnalysisStep
  <2>1. PICK j \in Analyses : RequestAIAnalysis(j) \/ Enqueue(j) \/ EnqueueFails(j)
                              \/ FailPendingAIAnalysis(j) \/ RequestCrash(j)
    BY <1>7 DEF AnalysisStep
  <2>2. relay' = relay /\ \A i \in Triages : jobRow'[i] = jobRow[i]
    BY <1>2, <1>3, <2>1 DEF RequestAIAnalysis, Enqueue, EnqueueFails, FailPendingAIAnalysis, RequestCrash
  <2> QED BY <1>1, <1>2, <2>2, CapsKept, RowsCountNoMore
<1>8. CASE SweepStale
  <2>1. relay' = relay /\ \A i \in Triages : jobRow'[i] = jobRow[i]
    BY <1>2, <1>3, <1>8 DEF SweepStale, StaleJobs
  <2> QED BY <1>1, <1>2, <2>1, CapsKept, RowsCountNoMore
<1>9. CASE StoreLost \/ \E j \in Jobs : SessionEnds(j)
  BY <1>4, <1>9 DEF StoreLost, SessionEnds
<1>10. ASSUME NEW j \in Jobs, NEW c \in Slots,
              \/ DeliverBusy(j, c) \/ DeliverSettled(j, c) \/ DeliverRun(j, c)
              \/ \E o \in Outcomes(j) : Finish(j, c, o)
              \/ \E d \in 1..RetryDelay : SettleDelivery(j, c, d)
              \/ LeaveUnrecorded(j, c) \/ \E s \in {0, Ghost} : WorkerLost(j, c, s)
       PROVE  CapsInv'
  <2>1. relay' = relay
    BY <1>10 DEF DeliverBusy, DeliverSettled, DeliverRun, Finish, SettleDelivery, LeaveUnrecorded, WorkerLost
  <2>2. \A i \in Triages : \/ jobRow'[i] = jobRow[i] \/ jobRow'[i] = [jobRow[i] EXCEPT !.run = 0]
                           \/ \E s \in {"ready", "failed", "skipped"} : jobRow'[i] = Guarded(i, s)
    BY <1>2, <1>3, <1>10 DEF DeliverBusy, DeliverSettled, DeliverRun, Finish, SettleDelivery, LeaveUnrecorded,
                             WorkerLost, Outcomes
  <2> QED BY <1>1, <1>2, <2>1, <2>2, CapsKept, RowsCountNoMore
<1>11. CASE DeliverJob \/ EndRun \/ WorkerFault
  BY <1>10, <1>11 DEF DeliverJob, EndRun, WorkerFault
<1>12. CASE PassTime
  <2>1. \A i \in Triages : jobRow'[i] = AgedRow(i)
    BY <1>2, <1>12 DEF PassTime
  <2>2. \A r \in Relays : relay'[r].pc # "tx"
    BY <1>12 DEF PassTime, IdleRelay
  <2> QED BY <1>1, <1>2, <2>1, <2>2, CapsKept, RowsCountNoMore
<1>13. CASE UNCHANGED jobVars
  BY <1>4, <1>13 DEF jobVars
<1> QED BY <1>6, <1>7, <1>8, <1>9, <1>11, <1>12, <1>13 DEF AiJobsNext

LEMMA CapsStart == AiJobsInit => CapsInv
<1> SUFFICES ASSUME AiJobsInit PROVE CapsInv
  OBVIOUS
<1>1. AiJobsTypes
  BY AiJobsTypesInit
<1>2. Used = {} /\ Backlog = {}
  BY DEF AiJobsInit, Used, Backlog, Pending, NoRow, Jobs
<1>3. CapsAreExact
  BY <1>2, FS_EmptySet, AiJobsAssumption DEF CapsAreExact
<1>4. OneTick /\ ClaimsFit
  BY DEF AiJobsInit, OneTick, ClaimsFit, IdleRelay
<1> QED BY <1>1, <1>3, <1>4 DEF CapsInv

\* The caps on triages in an hour and on triages under way hold at every moment, however many replicas
\* run the relay: a tick counts and claims under the relay's advisory lock, and commits before it lets go.
THEOREM CapsHoldExactly == AiJobsSpec => []CapsAreExact
<1>1. CapsInv => CapsAreExact
  BY DEF CapsInv
<1> QED BY <1>1, CapsStart, CapsStep, PTL DEF AiJobsSpec


-----------------------------------------------------------------------------
(* The job locks.                                                          *)

\* A run holds the lock of its job, so that a job has one run; a lock is held by
\* a run, or by the session of a worker that died.
LocksHeld == \A j \in Jobs, c \in Slots : Running(j, c) => jobLock[j] = c
LocksBacked ==
    \A j \in Jobs : /\ \A c \in Slots : jobLock[j] = c => Running(j, c)
                    /\ jobLock[j] = Ghost => j \in disturbed

LockInv == AiJobsTypes /\ LocksHeld /\ LocksBacked

\* A step that begins and ends no run.
LEMMA LocksKept ==
    ASSUME LockInv, AiJobsTypes', jobLock' = jobLock, disturbed \subseteq disturbed',
           \A j \in Jobs, c \in Slots : Running(j, c)' <=> Running(j, c)
    PROVE  LockInv'
<1>1. LocksHeld'
  BY DEF LockInv, LocksHeld
<1>2. LocksBacked'
  BY DEF LockInv, LocksBacked
<1> QED BY <1>1, <1>2 DEF LockInv

\* Store begins no run.
LEMMA StoreRunsNothing ==
    ASSUME AiJobsTypes, NEW j \in Jobs, Store(j)
    PROVE  /\ \A i \in Jobs, c \in Slots : Running(i, c)' <=> Running(i, c)
           /\ disturbed \subseteq disturbed'
<1>1. CASE ~Stores(j)
  BY <1>1 DEF Store, Running
<1>2. CASE Stores(j)
  <2>1. PICK slot \in Slots : copy[j][slot].st = "none" /\ copy' = [copy EXCEPT ![j][slot] = NewCopy]
    BY <1>2 DEF Store, Slots
  <2>2. disturbed \subseteq disturbed'
    BY <1>2 DEF Store
  <2>3. NewCopy.st = "queued"
    BY DEF NewCopy, NoCopy
  <2> QED BY <2>1, <2>2, <2>3 DEF Running, AiJobsTypes
<1> QED BY <1>1, <1>2

\* What is left of a message after a delivery is not running.
LEMMA BackIsOver ==
    ASSUME AiJobsTypes, NEW j \in Jobs, NEW c \in Slots, NEW d \in Nat
    PROVE  Back(j, c, d).st \in {"none", "waiting"}
BY DEF Back, NoCopy, AiJobsTypes, CopyRecord

LEMMA AgedIsSame ==
    ASSUME AiJobsTypes, NEW j \in Jobs, NEW c \in Slots
    PROVE  AgedCopy(j, c).st = "running" <=> copy[j][c].st = "running"
<1>1. copy[j][c] \in CopyRecord /\ copy[j][c].st \in {"none", "queued", "waiting", "running"}
  BY DEF AiJobsTypes, CopyRecord
<1>2. NoCopy.st = "none"
  BY DEF NoCopy
<1> QED BY <1>1, <1>2 DEF AgedCopy, CopyRecord

\* A run ends: the lock is free, or a dead worker's.
LEMMA LocksReleased ==
    ASSUME LockInv, AiJobsTypes', NEW j \in Jobs, NEW c \in Slots, Running(j, c),
           NEW m \in CopyRecord, m.st # "running", copy' = [copy EXCEPT ![j][c] = m],
           \/ jobLock' = [jobLock EXCEPT ![j] = 0] /\ disturbed \subseteq disturbed'
           \/ jobLock' = [jobLock EXCEPT ![j] = Ghost] /\ disturbed' = disturbed \cup {j}
    PROVE  LockInv'
<1>1. \A i \in Jobs, b \in Slots : Running(i, b)' <=> Running(i, b) /\ i # j
  <2>1. jobLock[j] = c /\ \A b \in Slots : Running(j, b) => b = c
    BY DEF LockInv, LocksHeld
  <2> QED BY <2>1 DEF Running, LockInv, AiJobsTypes
<1>2. /\ jobLock'[j] \in {0, Ghost} /\ (jobLock'[j] = Ghost => j \in disturbed')
      /\ \A i \in Jobs : i # j => jobLock'[i] = jobLock[i]
      /\ disturbed \subseteq disturbed'
  BY DEF LockInv, AiJobsTypes, Ghost
<1>3. LocksHeld'
  BY <1>1, <1>2 DEF LockInv, LocksHeld
<1>4. LocksBacked'
  <2> SUFFICES ASSUME NEW i \in Jobs
               PROVE  /\ \A b \in Slots : jobLock'[i] = b => Running(i, b)'
                      /\ jobLock'[i] = Ghost => i \in disturbed'
    BY DEF LocksBacked
  <2>1. CASE i = j
    BY <1>2, <2>1 DEF Ghost, Slots
  <2>2. CASE i # j
    <3>1. jobLock'[i] = jobLock[i]
      BY <1>2, <2>2
    <3>2. \A b \in Slots : jobLock[i] = b => Running(i, b)
      BY DEF LockInv, LocksBacked
    <3> QED BY <1>1, <1>2, <2>2, <3>1, <3>2 DEF LockInv, LocksBacked
  <2> QED BY <2>1, <2>2
<1> QED BY <1>3, <1>4 DEF LockInv

LEMMA LockStep == LockInv /\ [AiJobsNext]_jobVars => LockInv'
<1> SUFFICES ASSUME LockInv, [AiJobsNext]_jobVars
             PROVE  LockInv'
  OBVIOUS
<1>1. AiJobsTypes /\ AiJobsTypes'
  BY AiJobsTypesStep DEF LockInv
<1>2. Triages \subseteq Jobs /\ Analyses \subseteq Jobs
  BY DEF Jobs
<1>3. ASSUME UNCHANGED <<copy, jobLock, disturbed>> PROVE LockInv'
  BY <1>1, <1>3, LocksKept DEF Running
<1>4. ASSUME NEW j \in Jobs, Store(j) \/ UNCHANGED <<copy, dupAge, disturbed>>, jobLock' = jobLock
      PROVE  LockInv'
  BY <1>1, <1>3, <1>4, StoreRunsNothing, LocksKept, SMTT(30)
<1>5. CASE RelayStep
  BY <1>2, <1>3, <1>4, <1>5 DEF RelayStep, ClaimTx, CommitTick, UndoPublish, PublishJob
<1>6. CASE RelayFault
  BY <1>2, <1>3, <1>4, <1>6 DEF RelayFault, AbortTick, RelayCrash, PublishJobFails
<1>7. CASE AnalysisStep
  BY <1>2, <1>3, <1>4, <1>7
     DEF AnalysisStep, RequestAIAnalysis, Enqueue, EnqueueFails, FailPendingAIAnalysis, RequestCrash
<1>8. CASE SweepStale
  BY <1>3, <1>8 DEF SweepStale
<1>9. CASE StoreLost
  <2>1. \A j \in Jobs, c \in Slots : Running(j, c)' <=> Running(j, c)
    BY <1>1, <1>9 DEF StoreLost, Running, NoCopy, AiJobsTypes, CopyRecord
  <2> QED BY <1>1, <1>9, <2>1, LocksKept DEF StoreLost
<1>10. ASSUME NEW j \in Jobs, SessionEnds(j) PROVE LockInv'
  <2>1. /\ \A c \in Slots : ~Running(j, c)
        /\ jobLock'[j] = 0 /\ \A i \in Jobs : i # j => jobLock'[i] = jobLock[i]
    BY <1>10 DEF SessionEnds, LockInv, LocksHeld, AiJobsTypes, Ghost, Slots
  <2>2. UNCHANGED <<copy, disturbed>>
    BY <1>10 DEF SessionEnds
  <2> QED BY <1>1, <2>1, <2>2 DEF LockInv, LocksHeld, LocksBacked, Running, Ghost, Slots
<1>11. ASSUME NEW j \in Jobs, NEW c \in Slots, DeliverBusy(j, c) \/ DeliverSettled(j, c) PROVE LockInv'
  <2>1. ~Running(j, c)
    BY <1>11 DEF DeliverBusy, DeliverSettled, CopyDue, Running
  <2>2. PICK m : m.st # "running" /\ copy' = [copy EXCEPT ![j][c] = m]
    <3>1. /\ NoCopy.st = "none"
          /\ [copy[j][c] EXCEPT !.st = "waiting", !.n = @ + 1, !.t = 1].st = "waiting"
      BY <1>1 DEF NoCopy, AiJobsTypes, CopyRecord
    <3> QED BY <1>11, <3>1 DEF DeliverBusy, DeliverSettled
  <2>3. \A i \in Jobs, b \in Slots : Running(i, b)' <=> Running(i, b)
    BY <1>1, <2>1, <2>2 DEF Running, AiJobsTypes
  <2> QED BY <1>1, <1>11, <2>3, LocksKept DEF DeliverBusy, DeliverSettled
<1>12. ASSUME NEW j \in Jobs, NEW c \in Slots, DeliverRun(j, c) PROVE LockInv'
  <2>1. PICK m \in CopyRecord : m.st = "running" /\ copy' = [copy EXCEPT ![j][c] = m]
    <3>1. [copy[j][c] EXCEPT !.st = "running", !.n = @ + 1, !.t = 0] \in CopyRecord
      BY <1>1, CopyTypes
    <3>2. [copy[j][c] EXCEPT !.st = "running", !.n = @ + 1, !.t = 0].st = "running"
      BY <1>1 DEF AiJobsTypes, CopyRecord
    <3>3. copy' = [copy EXCEPT ![j][c] = [copy[j][c] EXCEPT !.st = "running", !.n = @ + 1, !.t = 0]]
      <4>1. copy' = [copy EXCEPT ![j][c].st = "running", ![j][c].n = @ + 1, ![j][c].t = 0]
        BY <1>12 DEF DeliverRun
      <4>2. copy \in [Jobs -> [Slots -> CopyRecord]]
        BY <1>1 DEF AiJobsTypes
      <4> QED BY <4>1, <4>2
    <3> QED BY <3>1, <3>2, <3>3
  <2>2. \A b \in Slots : ~Running(j, b)
    BY <1>12 DEF DeliverRun, LockInv, LocksHeld, Slots
  <2>3. \A i \in Jobs, b \in Slots : Running(i, b)' <=> Running(i, b) \/ (i = j /\ b = c)
    BY <1>1, <2>1 DEF Running, AiJobsTypes
  <2>4. jobLock'[j] = c /\ (\A i \in Jobs : i # j => jobLock'[i] = jobLock[i]) /\ disturbed' = disturbed
    <3>1. jobLock' = [jobLock EXCEPT ![j] = c] /\ disturbed' = disturbed
      BY <1>12 DEF DeliverRun
    <3>2. jobLock \in [Jobs -> Slots \cup {0, Ghost}]
      BY <1>1 DEF AiJobsTypes
    <3> QED BY <3>1, <3>2
  <2>5. LocksHeld'
    BY <2>2, <2>3, <2>4 DEF LockInv, LocksHeld
  <2>6. LocksBacked'
    <3> SUFFICES ASSUME NEW i \in Jobs
                 PROVE  /\ \A b \in Slots : jobLock'[i] = b => Running(i, b)'
                        /\ jobLock'[i] = Ghost => i \in disturbed'
      BY DEF LocksBacked
    <3>1. CASE i = j
      BY <2>3, <2>4, <3>1 DEF Ghost, Slots
    <3>2. CASE i # j
      BY <2>3, <2>4, <3>2 DEF LockInv, LocksBacked
    <3> QED BY <3>1, <3>2
  <2> QED BY <1>1, <2>5, <2>6 DEF LockInv
<1>13. ASSUME NEW j \in Jobs, NEW c \in Slots, NEW o \in Outcomes(j), Finish(j, c, o) PROVE LockInv'
  <2>1. NoCopy \in CopyRecord /\ NoCopy.st # "running"
    BY <1>1, CopyTypes DEF NoCopy
  <2> QED BY <1>1, <1>13, <2>1, LocksReleased DEF Finish
<1>14. ASSUME NEW j \in Jobs, NEW c \in Slots, NEW d \in Nat, NEW l \in {0, Ghost}, Running(j, c),
              copy' = [copy EXCEPT ![j][c] = Back(j, c, d)], jobLock' = [jobLock EXCEPT ![j] = l],
              \/ disturbed' = disturbed /\ l = 0
              \/ disturbed' = disturbed \cup {j}
       PROVE  LockInv'
  <2>1. Back(j, c, d) \in CopyRecord /\ Back(j, c, d).st # "running"
    BY <1>1, CopyTypes, BackIsOver
  <2>2. disturbed \subseteq disturbed'
    BY <1>14
  <2> QED BY <1>1, <1>14, <2>1, <2>2, LocksReleased
<1>15. ASSUME NEW j \in Jobs, NEW c \in Slots, NEW d \in 1..RetryDelay, SettleDelivery(j, c, d) PROVE LockInv'
  <2>1. d \in Nat
    BY AiJobsAssumption
  <2> QED BY <1>14, <1>15, <2>1 DEF SettleDelivery
<1>16. ASSUME NEW j \in Jobs, NEW c \in Slots, LeaveUnrecorded(j, c) PROVE LockInv'
  BY <1>14, <1>16 DEF LeaveUnrecorded
<1>17. ASSUME NEW j \in Jobs, NEW c \in Slots, NEW s \in {0, Ghost}, WorkerLost(j, c, s) PROVE LockInv'
  BY <1>1, <1>14, <1>17, CopyTypes DEF WorkerLost
<1>18. CASE PassTime
  <2>1. \A j \in Jobs, c \in Slots : Running(j, c)' <=> Running(j, c)
    BY <1>1, <1>18, AgedIsSame DEF PassTime, Running
  <2> QED BY <1>1, <1>18, <2>1, LocksKept DEF PassTime
<1>19. CASE UNCHANGED jobVars
  BY <1>3, <1>19 DEF jobVars
<1> QED BY <1>5, <1>6, <1>7, <1>8, <1>9, <1>10, <1>11, <1>12, <1>13, <1>15, <1>16, <1>17, <1>18, <1>19
        DEF AiJobsNext, DeliverJob, EndRun, WorkerFault

LEMMA LockStart == AiJobsInit => LockInv
<1> SUFFICES ASSUME AiJobsInit PROVE LockInv
  OBVIOUS
<1>1. \A j \in Jobs, c \in Slots : ~Running(j, c)
  BY DEF AiJobsInit, Running, NoCopy
<1>2. \A j \in Jobs : jobLock[j] = 0
  BY DEF AiJobsInit
<1> QED BY <1>1, <1>2, AiJobsTypesInit DEF LockInv, LocksHeld, LocksBacked, Ghost, Slots


\* A row loses its pending status under a run that goes on only in three ways, and two of them wait for
\* the run.
LEMMA SweepStep ==
    ASSUME LockInv, [AiJobsNext]_jobVars, NEW j \in Analyses, NEW c \in Slots,
           Running(j, c), Running(j, c)', Pending(j), ~Pending(j)'
    PROVE  jobRow[j].age > LockCeiling \/ request[j] = "failing"
<1>1. AiJobsTypes /\ jobLock[j] = c /\ j \in Jobs /\ j \notin Triages
  BY AiJobsAssumption DEF LockInv, LocksHeld, Jobs
<1>2. jobRow \in [Jobs -> RowRecord] /\ jobRow[j] \in RowRecord
  BY <1>1 DEF AiJobsTypes
<1>3. jobRow'[j] # jobRow[j]
  BY DEF Pending
<1>4. ASSUME NEW r \in Relays,
             \/ ClaimTx(r) \/ CommitTick(r) \/ UndoPublish(r) \/ AbortTick(r) \/ RelayCrash(r)
             \/ \E i \in Triages : PublishJob(r, i) \/ PublishJobFails(r, i)
      PROVE  FALSE
  <2>1. relay[r].jobs \subseteq Triages
    BY <1>1 DEF AiJobsTypes, RelayRecord
  <2>2. CASE CommitTick(r)
    <3> DEFINE inserted == {i \in relay[r].jobs : jobRow[i].status = "none"}
               republished == {i \in Triages : Republishes(i)}
    <3>1. jobRow' = [i \in Jobs |->
                       CASE i \in inserted -> NewRow
                         [] i \in republished -> [jobRow[i] EXCEPT !.enq = 0, !.attempts = @ + 1]
                         [] i \in Triages /\ RelayFails(i) -> Settled(i, "failed")
                         [] OTHER -> jobRow[i]]
      BY <2>2 DEF CommitTick
    <3>2. j \notin inserted /\ j \notin republished
      BY <1>1, <2>1
    <3> HIDE DEF inserted, republished
    <3> QED BY <1>1, <1>3, <3>1, <3>2
  <2>3. CASE UndoPublish(r)
    BY <1>1, <1>3, <2>1, <2>3 DEF UndoPublish
  <2>4. CASE ~CommitTick(r) /\ ~UndoPublish(r)
    BY <1>3, <1>4, <2>4 DEF ClaimTx, AbortTick, RelayCrash, PublishJob, PublishJobFails
  <2> QED BY <2>2, <2>3, <2>4
<1>5. CASE RelayStep \/ RelayFault
  BY <1>4, <1>5 DEF RelayStep, RelayFault
<1>6. CASE AnalysisStep
  <2>1. PICK i \in Analyses : RequestAIAnalysis(i) \/ Enqueue(i) \/ EnqueueFails(i)
                              \/ FailPendingAIAnalysis(i) \/ RequestCrash(i)
    BY <1>6 DEF AnalysisStep
  <2>2. CASE i = j
    BY <1>2, <1>3, <2>1, <2>2
       DEF RequestAIAnalysis, Enqueue, EnqueueFails, FailPendingAIAnalysis, RequestCrash, Pending
  <2>3. CASE i # j
    <3>1. jobRow' = jobRow \/ \E w : jobRow' = [jobRow EXCEPT ![i] = w]
      BY <2>1 DEF RequestAIAnalysis, Enqueue, EnqueueFails, FailPendingAIAnalysis, RequestCrash
    <3> QED BY <1>1, <1>2, <1>3, <2>3, <3>1
  <2> QED BY <2>2, <2>3
<1>7. CASE SweepStale
  <2>1. j \in StaleJobs
    BY <1>1, <1>3, <1>7 DEF SweepStale
  <2> QED BY <1>1, <2>1 DEF StaleJobs, Unclaimed, Slots
<1>8. CASE StoreLost \/ \E i \in Jobs : SessionEnds(i)
  BY <1>3, <1>8 DEF StoreLost, SessionEnds
<1>9. ASSUME NEW i \in Jobs, NEW b \in Slots,
             \/ DeliverBusy(i, b) \/ DeliverSettled(i, b) \/ DeliverRun(i, b)
             \/ LeaveUnrecorded(i, b) \/ \E s \in {0, Ghost} : WorkerLost(i, b, s)
      PROVE  FALSE
  BY <1>1, <1>2, <1>3, <1>9 DEF DeliverBusy, DeliverSettled, DeliverRun, LeaveUnrecorded, WorkerLost
<1>10. ASSUME NEW i \in Jobs, NEW b \in Slots,
              \/ \E o \in Outcomes(i) : Finish(i, b, o)
              \/ \E d \in 1..RetryDelay : SettleDelivery(i, b, d)
       PROVE  FALSE
  <2>1. i = j
    <3>1. jobRow' = jobRow \/ \E w : jobRow' = [jobRow EXCEPT ![i] = w]
      BY <1>10 DEF Finish, SettleDelivery
    <3> QED BY <1>1, <1>2, <1>3, <3>1
  <2>2. b = c
    BY <1>1, <1>10, <2>1 DEF Finish, SettleDelivery, LockInv, LocksHeld
  <2>3. copy'[j][c] = NoCopy \/ \E d \in Nat : copy'[j][c] = Back(j, c, d)
    BY <1>1, <1>10, <2>1, <2>2, AiJobsAssumption DEF Finish, SettleDelivery, AiJobsTypes
  <2> QED BY <1>1, <2>3, BackIsOver DEF Running, NoCopy
<1>11. CASE DeliverJob \/ EndRun \/ WorkerFault
  BY <1>9, <1>10, <1>11 DEF DeliverJob, EndRun, WorkerFault
<1>12. CASE PassTime
  <2>1. AgedRow(j).status = jobRow[j].status
    BY <1>2 DEF AgedRow, RowRecord
  <2> QED BY <1>1, <1>12, <2>1 DEF PassTime, Pending
<1>13. CASE UNCHANGED jobVars
  BY <1>3, <1>13 DEF jobVars
<1> QED BY <1>5, <1>6, <1>7, <1>8, <1>11, <1>12, <1>13 DEF AiJobsNext

\* The sweep takes no analysis away from a run before the run could have ended: it fails a row only when
\* the lock is free, which no run leaves it, or when the row is older than every run.
THEOREM RunsAreSpared == AiJobsSpec => SweepSparesRuns
<1>1. LockInv /\ [AiJobsNext]_jobVars =>
         [\A j \in Analyses, c \in Slots :
             (Running(j, c) /\ Running(j, c)' /\ Pending(j) /\ ~Pending(j)')
             => jobRow[j].age > LockCeiling \/ request[j] = "failing"]_jobVars
  BY SweepStep
<1> QED BY <1>1, LockStart, LockStep, PTL DEF AiJobsSpec, SweepSparesRuns


-----------------------------------------------------------------------------
(* The relay's timeout comes after every delivery.                         *)

\* From the start of one delivery to the start of the next.
Period == RunTime + RetryDelay

\* A triage whose run has begun and which the theorem is about.
Followed(j) == j \in Triages /\ j \notin disturbed /\ Pending(j) /\ jobRow[j].run # NotStarted
Publishing(j) == \E r \in Relays : relay[r].pc = "publish" /\ j \in relay[r].jobs

\* What the delivery count and the clock of a message can be.
Shaped(m) ==
    /\ m.st = "queued" => m.n = 0 /\ m.held
    /\ m.st = "waiting" => m.held /\ m.n < MaxDeliveries
    /\ m.st = "running" => m.n \in 1..MaxDeliveries /\ m.t <= RunTime

\* The run is no older than the deliveries the message has behind it.
InTime(run, m) ==
    /\ m.st # "queued"
    /\ m.st = "running" => run <= (m.n - 1) * Period + m.t
    /\ m.st = "waiting" => run + m.t <= m.n * Period

\* A second message disturbs its job.  While a relay still has to publish a job
\* that runs, the first message is there: the stream keeps it or the second is one.
Timed(j) ==
    /\ \A c \in Slots : Shaped(copy[j][c])
    /\ copy[j][2].st # "none" => j \in disturbed
    /\ Followed(j) => InTime(jobRow[j].run, copy[j][1])
    /\ Followed(j) /\ Publishing(j) => copy[j][1].st # "none" /\ copy[j][1].held

TimeoutInv == LockInv /\ \A j \in Jobs : Timed(j)

\* A job whose messages do not change.
LEMMA TimedKept ==
    ASSUME NEW j \in Jobs, Timed(j), copy'[j] = copy[j], j \in disturbed => j \in disturbed',
           Followed(j)' => Followed(j) /\ jobRow'[j].run = jobRow[j].run,
           Followed(j)' /\ Publishing(j)' => Publishing(j)
    PROVE  Timed(j)'
<1>1. \A c \in Slots : Shaped(copy'[j][c])
  BY DEF Timed
<1>2. copy'[j][2].st # "none" => j \in disturbed'
  BY DEF Timed
<1>3. Followed(j)' => InTime(jobRow'[j].run, copy'[j][1])
  BY DEF Timed
<1>4. Followed(j)' /\ Publishing(j)' => copy'[j][1].st # "none" /\ copy'[j][1].held
  BY DEF Timed
<1> QED BY <1>1, <1>2, <1>3, <1>4 DEF Timed, Shaped, InTime

\* A message of a job is replaced by what a delivery leaves of it.
LEMMA TimedDelivery ==
    ASSUME AiJobsTypes, NEW j \in Jobs, NEW c \in Slots, Timed(j),
           NEW m \in CopyRecord, copy' = [copy EXCEPT ![j][c] = m], Shaped(m),
           copy[j][c].st # "none", disturbed \subseteq disturbed',
           Followed(j)' => /\ InTime(jobRow'[j].run, m)
                           /\ Publishing(j)' => m.st # "none" /\ m.held
    PROVE  Timed(j)'
<1>1. copy'[j][c] = m /\ \A b \in Slots : b # c => copy'[j][b] = copy[j][b]
  BY DEF AiJobsTypes
<1>2. \A b \in Slots : Shaped(copy'[j][b])
  BY <1>1 DEF Timed
<1>3. copy'[j][2].st # "none" => j \in disturbed'
  BY <1>1 DEF Timed, Slots
<1>4. Followed(j)' => c = 1
  BY DEF Timed, Followed, Slots
<1>5. Followed(j)' => InTime(jobRow'[j].run, copy'[j][1])
  BY <1>1, <1>4
<1>6. Followed(j)' /\ Publishing(j)' => copy'[j][1].st # "none" /\ copy'[j][1].held
  BY <1>1, <1>4
<1> QED BY <1>2, <1>3, <1>5, <1>6 DEF Timed, Shaped, InTime

\* A message is stored, or not: a second one only for a job that has one already.
LEMMA TimedStore ==
    ASSUME AiJobsTypes, NEW j \in Jobs, \A i \in Jobs : Timed(i), jobRow' = jobRow,
           Store(j) \/ UNCHANGED <<copy, dupAge, disturbed>>,
           Followed(j) => Publishing(j), \A i \in Jobs : Publishing(i)' => Publishing(i)
    PROVE  \A i \in Jobs : Timed(i)'
<1>1. ASSUME UNCHANGED <<copy, disturbed>> PROVE \A i \in Jobs : Timed(i)'
  <2> TAKE i \in Jobs
  <2>1. Followed(i)' <=> Followed(i)
    BY <1>1 DEF Followed, Pending
  <2>2. jobRow'[i].run = jobRow[i].run /\ copy'[i] = copy[i] /\ disturbed' = disturbed
    BY <1>1
  <2> QED BY <2>1, <2>2, TimedKept
<1>2. CASE ~Stores(j)
  BY <1>1, <1>2 DEF Store
<1>3. CASE Stores(j) /\ Store(j)
  <2> DEFINE slot == IF copy[j][1].st = "none" THEN 1 ELSE 2
  <2>1. /\ copy[j][slot].st = "none" /\ copy' = [copy EXCEPT ![j][slot] = NewCopy]
        /\ disturbed' = IF slot = 2 THEN disturbed \cup {j} ELSE disturbed
    BY <1>3 DEF Store
  <2>2. slot \in Slots
    BY DEF Slots
  <2>3. Followed(j)' => FALSE
    <3>1. Followed(j)' => Followed(j) /\ slot # 2
      BY <2>1 DEF Followed, Pending
    <3>2. Followed(j) => slot = 2
      BY DEF Timed
    <3> QED BY <3>1, <3>2
  <2>4. NewCopy.st = "queued" /\ NewCopy.n = 0 /\ NewCopy.held
    BY DEF NewCopy, NoCopy
  <2>5. Timed(j)'
    <3>1. copy'[j][slot] = NewCopy /\ \A b \in Slots : b # slot => copy'[j][b] = copy[j][b]
      BY <2>1, <2>2 DEF AiJobsTypes
    <3>2. \A b \in Slots : Shaped(copy'[j][b])
      BY <2>4, <3>1 DEF Timed, Shaped
    <3>3. copy'[j][2].st # "none" => j \in disturbed'
      BY <2>1, <3>1 DEF Timed, Slots
    <3> QED BY <2>3, <3>2, <3>3 DEF Timed, Shaped
  <2>6. ASSUME NEW i \in Jobs, i # j PROVE Timed(i)'
    <3>1. copy'[i] = copy[i]
      BY <2>1, <2>2, <2>6 DEF AiJobsTypes
    <3>2. i \in disturbed <=> i \in disturbed'
      BY <2>1, <2>6
    <3>3. Followed(i)' => Followed(i) /\ jobRow'[i].run = jobRow[i].run
      BY <3>2 DEF Followed, Pending
    <3> QED BY <3>1, <3>2, <3>3, TimedKept
  <2> QED BY <2>5, <2>6
<1> QED BY <1>1, <1>2, <1>3


\* The arithmetic of deliveries.
LEMMA PeriodsAdd ==
    /\ Period \in Nat
    /\ \A n \in Nat : n * Period \in Nat /\ n * Period + Period = (n + 1) * Period
    /\ \A n \in Nat : n < MaxDeliveries => n * Period + RunTime < TriageFailAfter
<1>1. RunTime \in Nat /\ RetryDelay \in Nat /\ MaxDeliveries \in Nat \ {0} /\ TriageFailAfter \in Nat
  BY AiJobsAssumption
<1>2. Period \in Nat
  BY <1>1 DEF Period
<1>3. \A n, p \in Nat : n * p \in Nat /\ n * p + p = (n + 1) * p
  OBVIOUS
<1>4. \A n, k, p \in Nat : (n + k) * p >= n * p
  <2> TAKE n \in Nat, k \in Nat, p \in Nat
  <2>1. (n + k) * p = n * p + k * p
    OBVIOUS
  <2>2. n * p \in Nat /\ k * p \in Nat
    OBVIOUS
  <2> QED BY <2>1, <2>2
<1>5. \A n \in Nat : n < MaxDeliveries => n * Period <= (MaxDeliveries - 1) * Period
  <2> SUFFICES ASSUME NEW n \in Nat, n < MaxDeliveries
               PROVE  n * Period <= (MaxDeliveries - 1) * Period
    OBVIOUS
  <2> DEFINE k == MaxDeliveries - 1 - n
  <2>1. k \in Nat /\ n + k = MaxDeliveries - 1
    BY <1>1
  <2> HIDE DEF k
  <2>2. (n + k) * Period >= n * Period
    BY <1>2, <1>4, <2>1
  <2> QED BY <1>2, <2>1, <2>2
<1>6. (MaxDeliveries - 1) * Period + RunTime < TriageFailAfter
  <2>1. (MaxDeliveries - 1) * (RunTime + RetryDelay) = (MaxDeliveries - 1) * RunTime + (MaxDeliveries - 1) * RetryDelay
    BY <1>1
  <2>2. MaxDeliveries * RunTime = (MaxDeliveries - 1) * RunTime + RunTime
    BY <1>1
  <2>3. TriageFailAfter > MaxDeliveries * RunTime + (MaxDeliveries - 1) * RetryDelay
    BY AiJobsAssumption
  <2>4. (MaxDeliveries - 1) * RunTime \in Nat /\ (MaxDeliveries - 1) * RetryDelay \in Nat
    BY <1>1
  <2> DEFINE x == (MaxDeliveries - 1) * RunTime
             y == (MaxDeliveries - 1) * RetryDelay
             z == MaxDeliveries * RunTime
             w == (MaxDeliveries - 1) * Period
  <2>5. x \in Nat /\ y \in Nat /\ z = x + RunTime /\ w = x + y /\ TriageFailAfter > z + y
    BY <2>1, <2>2, <2>3, <2>4 DEF Period
  <2> HIDE DEF x, y, z, w
  <2>6. w + RunTime < TriageFailAfter
    BY <1>1, <2>5
  <2> QED BY <2>6 DEF w
<1>7. ASSUME NEW n \in Nat, n < MaxDeliveries PROVE n * Period + RunTime < TriageFailAfter
  <2> DEFINE x == n * Period
             w == (MaxDeliveries - 1) * Period
  <2>1. x <= w /\ w + RunTime < TriageFailAfter
    BY <1>5, <1>6, <1>7
  <2>2. x \in Nat /\ w \in Nat
    BY <1>1, <1>2, <1>3
  <2> HIDE DEF x, w
  <2>3. x + RunTime < TriageFailAfter
    BY <1>1, <2>1, <2>2
  <2> QED BY <2>3 DEF x
<1> QED BY <1>2, <1>3, <1>7


\* An unlocked, undisturbed job has no delivery to hold it up.
LEMMA BusyDisturbs ==
    ASSUME LockInv, NEW j \in Jobs, NEW c \in Slots, Timed(j), CopyDue(j, c), jobLock[j] # 0
    PROVE  j \in disturbed
<1>1. ~Running(j, c)
  BY DEF CopyDue, Running
<1>2. CASE jobLock[j] = Ghost
  BY <1>2 DEF LockInv, LocksBacked
<1>3. CASE jobLock[j] \in Slots
  <2>1. PICK b \in Slots : Running(j, b)
    BY <1>3 DEF LockInv, LocksBacked
  <2>2. copy[j][2].st # "none"
    BY <1>1, <2>1 DEF Running, CopyDue, Slots
  <2> QED BY <2>2 DEF Timed
<1> QED BY <1>2, <1>3 DEF LockInv, AiJobsTypes, Ghost, Slots

\* Only the job of a delivery changes.
LEMMA OthersKept ==
    ASSUME AiJobsTypes, NEW j \in Jobs, NEW c \in Slots, NEW m \in CopyRecord,
           copy' = [copy EXCEPT ![j][c] = m], disturbed \subseteq disturbed', relay' = relay,
           jobRow' = jobRow \/ \E w : jobRow' = [jobRow EXCEPT ![j] = w],
           NEW i \in Jobs, i # j, Timed(i)
    PROVE  Timed(i)'
<1>1. copy'[i] = copy[i] /\ jobRow'[i] = jobRow[i]
  BY DEF AiJobsTypes
<1>2. Followed(i)' => Followed(i)
  BY <1>1 DEF Followed, Pending
<1>3. Publishing(i)' <=> Publishing(i)
  BY DEF Publishing
<1> QED BY <1>1, <1>2, <1>3, TimedKept

\* What is left of a message that another delivery gets.
LEMMA BackShaped ==
    ASSUME AiJobsTypes, NEW j \in Jobs, NEW c \in Slots, NEW d \in Nat
    PROVE  /\ Shaped(Back(j, c, d))
           /\ ~Final(j, c) /\ copy[j][c].held => /\ Back(j, c, d).st = "waiting" /\ Back(j, c, d).held
                                                 /\ Back(j, c, d).n = copy[j][c].n /\ Back(j, c, d).t = d
           /\ Final(j, c) \/ ~copy[j][c].held => Back(j, c, d) = NoCopy
<1>1. copy[j][c] \in CopyRecord /\ copy[j][c].n \in Nat /\ copy[j][c].held \in BOOLEAN
  BY DEF AiJobsTypes, CopyRecord
<1>2. Final(j, c) \/ ~copy[j][c].held => Back(j, c, d) = NoCopy
  BY DEF Back
<1>3. ~Final(j, c) /\ copy[j][c].held =>
         /\ Back(j, c, d).st = "waiting" /\ Back(j, c, d).held
         /\ Back(j, c, d).n = copy[j][c].n /\ Back(j, c, d).t = d
  BY <1>1 DEF Back, CopyRecord
<1>4. Shaped(NoCopy)
  BY DEF Shaped, NoCopy
<1>5. ~Final(j, c) => copy[j][c].n < MaxDeliveries
  BY <1>1, AiJobsAssumption DEF Final
<1>6. Shaped(Back(j, c, d))
  BY <1>1, <1>2, <1>3, <1>4, <1>5 DEF Shaped
<1> QED BY <1>2, <1>3, <1>6

\* A delivery, the end of a run and a lost worker.
LEMMA DeliveryTimed ==
    ASSUME TimeoutInv, NEW j \in Jobs, NEW c \in Slots,
           \/ DeliverBusy(j, c) \/ DeliverSettled(j, c) \/ DeliverRun(j, c)
           \/ \E o \in Outcomes(j) : Finish(j, c, o)
           \/ \E d \in 1..RetryDelay : SettleDelivery(j, c, d)
           \/ LeaveUnrecorded(j, c) \/ \E s \in {0, Ghost} : WorkerLost(j, c, s)
    PROVE  \A i \in Jobs : Timed(i)'
<1>1. AiJobsTypes /\ LockInv /\ Timed(j)
  BY DEF TimeoutInv, LockInv
<1>2. /\ copy[j][c] \in CopyRecord /\ copy[j][c].n \in Nat /\ copy[j][c].t \in Nat
      /\ copy[j][c].held \in BOOLEAN
  BY <1>1 DEF AiJobsTypes, CopyRecord
<1>3. ASSUME NEW m \in CopyRecord, copy' = [copy EXCEPT ![j][c] = m], Shaped(m), relay' = relay,
             copy[j][c].st # "none", disturbed \subseteq disturbed',
             jobRow' = jobRow \/ \E w : jobRow' = [jobRow EXCEPT ![j] = w],
             Followed(j)' => InTime(jobRow'[j].run, m) /\ (Publishing(j) => m.st # "none" /\ m.held)
      PROVE  \A i \in Jobs : Timed(i)'
  <2>1. Publishing(j)' <=> Publishing(j)
    BY <1>3 DEF Publishing
  <2>2. Timed(j)'
    BY <1>1, <1>3, <2>1, TimedDelivery
  <2>3. \A i \in Jobs : i # j => Timed(i)'
    BY <1>1, <1>3, OthersKept DEF TimeoutInv
  <2> QED BY <2>2, <2>3
<1>4. NoCopy \in CopyRecord /\ Shaped(NoCopy)
  BY <1>1, CopyTypes DEF Shaped, NoCopy
<1>5. Running(j, c) => copy[j][c].st # "none"
  BY DEF Running
<1>6. CopyDue(j, c) => copy[j][c].st # "none"
  BY DEF CopyDue
<1>7. Shaped(copy[j][c])
  BY <1>1 DEF Timed
<1>8. ASSUME j \in disturbed' PROVE ~Followed(j)'
  BY <1>8 DEF Followed
<1>9. CASE DeliverBusy(j, c)
  <2> DEFINE m == IF copy[j][c].n + 1 >= MaxDeliveries THEN NoCopy
                  ELSE [copy[j][c] EXCEPT !.st = "waiting", !.n = copy[j][c].n + 1, !.t = 1]
  <2>1. m \in CopyRecord
    BY <1>1, CopyTypes, ZenonT(60)
  <2>2. copy' = [copy EXCEPT ![j][c] = m]
    BY <1>9, SMTT(30) DEF DeliverBusy
  <2>3. Shaped(m)
    <3>1. copy[j][c].held
      BY <1>7, <1>9 DEF DeliverBusy, CopyDue, Shaped
    <3>2. CASE copy[j][c].n + 1 >= MaxDeliveries
      BY <1>4, <3>2
    <3>3. CASE ~(copy[j][c].n + 1 >= MaxDeliveries)
      <4>1. m.st = "waiting" /\ m.held /\ m.n = copy[j][c].n + 1
        BY <1>2, <3>1, <3>3 DEF CopyRecord
      <4>2. copy[j][c].n + 1 < MaxDeliveries
        BY <1>2, <3>3, AiJobsAssumption
      <4> QED BY <4>1, <4>2 DEF Shaped
    <3> QED BY <3>2, <3>3
  <2>4. UNCHANGED <<jobRow, relay, disturbed>>
    BY <1>9 DEF DeliverBusy
  <2>5. j \in disturbed'
    BY <1>1, <1>9, <2>4, BusyDisturbs DEF DeliverBusy
  <2>6. copy[j][c].st # "none"
    BY <1>6, <1>9 DEF DeliverBusy
  <2> HIDE DEF m
  <2> QED BY <1>3, <1>8, <2>1, <2>2, <2>3, <2>4, <2>5, <2>6
<1>10. CASE DeliverSettled(j, c)
  <2>1. ~Followed(j)'
    BY <1>10 DEF DeliverSettled, Followed, Pending
  <2>2. UNCHANGED <<jobRow, relay, disturbed>> /\ copy' = [copy EXCEPT ![j][c] = NoCopy]
    BY <1>10 DEF DeliverSettled
  <2>3. copy[j][c].st # "none"
    BY <1>6, <1>10 DEF DeliverSettled
  <2> QED BY <1>3, <1>4, <2>1, <2>2, <2>3
<1>11. CASE DeliverRun(j, c)
  <2> DEFINE m == [copy[j][c] EXCEPT !.st = "running", !.n = copy[j][c].n + 1, !.t = 0]
  <2>1. m \in CopyRecord
    BY <1>1, CopyTypes, ZenonT(60)
  <2>2. copy' = [copy EXCEPT ![j][c] = m]
    BY <1>1, <1>11, ZenonT(60) DEF DeliverRun, AiJobsTypes
  <2>3. m.st = "running" /\ m.n = copy[j][c].n + 1 /\ m.t = 0 /\ m.held = copy[j][c].held
    BY <1>2 DEF CopyRecord
  <2>4. copy[j][c].held /\ copy[j][c].n < MaxDeliveries
    BY <1>7, <1>11, AiJobsAssumption DEF DeliverRun, CopyDue, Shaped
  <2> HIDE DEF m
  <2>5. m.n \in 1..MaxDeliveries /\ m.t <= RunTime
    BY <1>2, <2>3, <2>4, AiJobsAssumption
  <2>6. Shaped(m)
    BY <2>3, <2>5 DEF Shaped
  <2>7. UNCHANGED <<relay, disturbed>> /\ CopyDue(j, c) /\ Pending(j)
    BY <1>11 DEF DeliverRun
  <2>8. jobRow' = IF j \in Triages /\ jobRow[j].run = NotStarted THEN [jobRow EXCEPT ![j].run = 0] ELSE jobRow
    BY <1>11 DEF DeliverRun
  <2>9. jobRow' = jobRow \/ \E w : jobRow' = [jobRow EXCEPT ![j] = w]
    <3>1. [jobRow EXCEPT ![j].run = 0] = [jobRow EXCEPT ![j] = [jobRow[j] EXCEPT !.run = 0]]
      BY <1>1 DEF AiJobsTypes
    <3> QED BY <2>8, <3>1
  <2>10. ASSUME Followed(j)' PROVE InTime(jobRow'[j].run, m)
    <3>1. j \in Triages /\ j \notin disturbed
      BY <2>7, <2>10 DEF Followed
    <3>2. c = 1
      BY <2>7, <3>1, <1>6, <1>1 DEF Timed, Slots
    <3>3. copy[j][c].n * Period \in Nat
      BY <1>2, PeriodsAdd
    <3>4. (m.n - 1) * Period = copy[j][c].n * Period
      BY <1>2, <2>3
    <3>5. CASE jobRow[j].run = NotStarted
      <4>1. jobRow'[j].run = 0
        BY <1>1, <2>8, <3>1, <3>5 DEF AiJobsTypes, RowRecord
      <4> QED BY <2>3, <3>3, <3>4, <4>1 DEF InTime
    <3>6. CASE jobRow[j].run # NotStarted
      <4>1. jobRow' = jobRow /\ Followed(j)
        BY <2>7, <2>8, <3>1, <3>6 DEF Followed
      <4>2. InTime(jobRow[j].run, copy[j][1])
        BY <1>1, <4>1 DEF Timed
      <4>3. copy[j][c].st = "waiting" /\ copy[j][c].t = 0
        BY <2>7, <3>2, <4>2 DEF CopyDue, InTime
      <4>4. jobRow[j].run \in Nat
        BY <1>1, <3>6 DEF AiJobsTypes, RowRecord
      <4>5. jobRow[j].run <= copy[j][c].n * Period
        BY <3>2, <3>3, <4>2, <4>3, <4>4 DEF InTime
      <4> QED BY <2>3, <3>3, <3>4, <4>1, <4>4, <4>5 DEF InTime
    <3> QED BY <3>5, <3>6
  <2>11. copy[j][c].st # "none"
    BY <1>6, <2>7
  <2> QED BY <1>3, <2>1, <2>2, <2>3, <2>4, <2>6, <2>7, <2>9, <2>10, <2>11
<1>12. ASSUME NEW o \in Outcomes(j), Finish(j, c, o) PROVE \A i \in Jobs : Timed(i)'
  <2>1. /\ jobRow' = [jobRow EXCEPT ![j] = Guarded(j, o)] /\ copy' = [copy EXCEPT ![j][c] = NoCopy]
        /\ UNCHANGED <<relay, disturbed>> /\ Running(j, c)
    BY <1>12 DEF Finish
  <2>2. Guarded(j, o).status # "pending"
    BY DEF Guarded, Pending, Settled, NoRow, Outcomes
  <2>3. ~Followed(j)'
    BY <1>1, <2>1, <2>2 DEF Followed, Pending, AiJobsTypes
  <2> QED BY <1>3, <1>4, <1>5, <2>1, <2>3
<1>13. ASSUME NEW d \in 1..RetryDelay, SettleDelivery(j, c, d) PROVE \A i \in Jobs : Timed(i)'
  <2>1. /\ jobRow' = IF Final(j, c) THEN [jobRow EXCEPT ![j] = Guarded(j, "failed")] ELSE jobRow
        /\ copy' = [copy EXCEPT ![j][c] = Back(j, c, d)]
        /\ UNCHANGED <<relay, disturbed>> /\ Running(j, c)
    BY <1>13 DEF SettleDelivery
  <2>2. d \in Nat /\ d <= RetryDelay
    BY AiJobsAssumption
  <2>3. Back(j, c, d) \in CopyRecord /\ Shaped(Back(j, c, d))
    BY <1>1, <2>2, CopyTypes, BackShaped
  <2>4. jobRow' = jobRow \/ \E w : jobRow' = [jobRow EXCEPT ![j] = w]
    BY <2>1
  <2>5. ASSUME Followed(j)'
        PROVE  /\ InTime(jobRow'[j].run, Back(j, c, d))
               /\ Publishing(j) => Back(j, c, d).st # "none" /\ Back(j, c, d).held
    <3>1. ~Final(j, c)
      <4>1. Guarded(j, "failed").status # "pending"
        BY DEF Guarded, Pending, Settled, NoRow
      <4> QED BY <1>1, <2>1, <2>5, <4>1 DEF Followed, Pending, AiJobsTypes
    <3>2. Followed(j) /\ jobRow' = jobRow
      BY <2>1, <2>5, <3>1 DEF Followed, Pending
    <3>3. c = 1
      BY <1>1, <1>5, <2>1, <3>2 DEF Followed, Timed, Slots
    <3>4. InTime(jobRow[j].run, copy[j][c]) /\ (Publishing(j) => copy[j][c].held)
      BY <1>1, <3>2, <3>3 DEF Timed
    <3>5. CASE ~copy[j][c].held
      <4>1. Back(j, c, d) = NoCopy /\ ~Publishing(j)
        BY <1>1, <2>2, <3>4, <3>5, BackShaped
      <4> QED BY <4>1 DEF InTime, NoCopy
    <3>6. CASE copy[j][c].held
      <4> DEFINE b == Back(j, c, d)
      <4>1. b.st = "waiting" /\ b.held /\ b.n = copy[j][c].n /\ b.t = d
        BY <1>1, <2>2, <3>1, <3>6, BackShaped
      <4>2. jobRow[j].run \in Nat
        BY <1>1, <3>2 DEF Followed, AiJobsTypes, RowRecord
      <4>3. copy[j][c].n \in 1..MaxDeliveries /\ copy[j][c].t <= RunTime
        BY <1>7, <2>1 DEF Shaped, Running
      <4>4. jobRow[j].run <= (copy[j][c].n - 1) * Period + copy[j][c].t
        BY <2>1, <3>4 DEF InTime, Running
      <4> HIDE DEF b
      <4> DEFINE x == (copy[j][c].n - 1) * Period
      <4>5. x \in Nat /\ x + Period = copy[j][c].n * Period
        <5>1. copy[j][c].n - 1 \in Nat /\ (copy[j][c].n - 1) + 1 = copy[j][c].n
          BY <1>2, <4>3
        <5> QED BY <5>1, PeriodsAdd
      <4> DEFINE y == copy[j][c].n * Period
      <4>6. jobRow[j].run <= x + copy[j][c].t /\ x + Period = y
        BY <4>4, <4>5
      <4> HIDE DEF x, y
      <4>7. jobRow[j].run + d <= y
        BY <1>2, <2>2, <4>2, <4>3, <4>5, <4>6, AiJobsAssumption DEF Period
      <4> QED BY <3>2, <4>1, <4>7 DEF InTime, b, y
    <3> QED BY <1>2, <3>5, <3>6
  <2> QED BY <1>3, <1>5, <2>1, <2>3, <2>4, <2>5
<1>14. ASSUME NEW d \in Nat, Running(j, c), copy' = [copy EXCEPT ![j][c] = Back(j, c, d)],
              UNCHANGED <<relay, jobRow>>, disturbed' = disturbed \cup {j}
       PROVE  \A i \in Jobs : Timed(i)'
  <2>1. Back(j, c, d) \in CopyRecord /\ Shaped(Back(j, c, d))
    BY <1>1, CopyTypes, BackShaped
  <2> QED BY <1>3, <1>5, <1>8, <1>14, <2>1
<1>15. CASE LeaveUnrecorded(j, c)
  BY <1>14, <1>15 DEF LeaveUnrecorded
<1>16. ASSUME NEW s \in {0, Ghost}, WorkerLost(j, c, s) PROVE \A i \in Jobs : Timed(i)'
  BY <1>1, <1>14, <1>16, CopyTypes DEF WorkerLost
<1> QED BY <1>9, <1>10, <1>11, <1>12, <1>13, <1>15, <1>16


\* A tick of the relay.
LEMMA RelayTimed ==
    ASSUME TimeoutInv, NEW r \in Relays,
           \/ ClaimTx(r) \/ CommitTick(r) \/ UndoPublish(r) \/ AbortTick(r) \/ RelayCrash(r)
           \/ \E j \in Triages : PublishJob(r, j) \/ PublishJobFails(r, j)
    PROVE  \A i \in Jobs : Timed(i)'
<1>1. AiJobsTypes /\ Triages \subseteq Jobs /\ \A i \in Jobs : Timed(i)
  BY DEF TimeoutInv, LockInv, Jobs
<1>2. relay \in [Relays -> RelayRecord] /\ jobRow \in [Jobs -> RowRecord] /\ relay[r].jobs \in SUBSET Triages
  BY <1>1 DEF AiJobsTypes, RelayRecord
<1>3. ASSUME UNCHANGED <<copy, disturbed>>, NEW i \in Jobs,
             Followed(i)' => Followed(i) /\ jobRow'[i].run = jobRow[i].run,
             Followed(i)' /\ Publishing(i)' => Publishing(i)
      PROVE  Timed(i)'
  BY <1>1, <1>3, TimedKept
<1>4. ASSUME NEW w \in RelayRecord, relay' = [relay EXCEPT ![r] = w],
             w.pc = "publish" => relay[r].pc = "publish" /\ w.jobs \subseteq relay[r].jobs
      PROVE  \A i \in Jobs : Publishing(i)' => Publishing(i)
  BY <1>2, <1>4 DEF Publishing
<1>5. CASE CommitTick(r)
  <2> DEFINE inserted == {j \in relay[r].jobs : jobRow[j].status = "none"}
             republished == {j \in Triages : Republishes(j)}
             publish == inserted \cup republished
  <2>1. jobRow' = [j \in Jobs |->
                     CASE j \in inserted -> NewRow
                       [] j \in republished -> [jobRow[j] EXCEPT !.enq = 0, !.attempts = @ + 1]
                       [] j \in Triages /\ RelayFails(j) -> Settled(j, "failed")
                       [] OTHER -> jobRow[j]]
    BY <1>5 DEF CommitTick
  <2>2. relay' = [relay EXCEPT ![r] = IF publish = {} THEN WaitingRelay
                                         ELSE [pc |-> "publish", jobs |-> publish]]
    BY <1>5 DEF CommitTick
  <2>3. UNCHANGED <<copy, disturbed>>
    BY <1>5 DEF CommitTick
  <2>4. \A i \in republished : jobRow[i].run = NotStarted /\ Pending(i)
    BY DEF Republishes
  <2>5. \A i \in inserted : ~Pending(i) /\ ~RelayFails(i)
    BY DEF Pending, RelayFails
  <2>10. \A i \in republished : ~RelayFails(i)
    <3> SUFFICES ASSUME NEW i \in republished PROVE ~RelayFails(i)
      OBVIOUS
    <3>1. jobRow[i].run = NotStarted /\ jobRow[i].age <= TriageNotStartedAfter /\ i \in Jobs
      BY <1>1 DEF Republishes
    <3>2. TriageNotStartedAfter \in Nat /\ TriageFailAfter \in Nat /\ jobRow[i].age \in Nat
      BY <1>2, <3>1, AiJobsAssumption DEF RowRecord
    <3>3. ~(NotStarted > TriageFailAfter) /\ ~(jobRow[i].age > TriageNotStartedAfter)
      BY <3>1, <3>2 DEF NotStarted
    <3> QED BY <3>1, <3>3 DEF RelayFails, RunTimedOut, NotStartedInTime
  <2> SUFFICES ASSUME NEW i \in Jobs PROVE Timed(i)'
    OBVIOUS
  <2> HIDE DEF inserted, republished
  <2>6. jobRow[i] \in RowRecord
    BY <1>2
  <2>7. CASE i \in inserted
    <3>1. jobRow'[i] = NewRow
      BY <2>1, <2>4, <2>5, <2>7
    <3>2. NewRow.run = NotStarted
      BY DEF NewRow, NoRow
    <3> QED BY <1>3, <2>3, <3>1, <3>2 DEF Followed
  <2>8. CASE i \notin inserted /\ i \in republished
    <3>1. jobRow'[i] = [jobRow[i] EXCEPT !.enq = 0, !.attempts = jobRow[i].attempts + 1]
      BY <2>1, <2>8, <2>10
    <3>2. jobRow'[i].run = NotStarted
      BY <2>4, <2>6, <2>8, <3>1 DEF RowRecord
    <3> QED BY <1>3, <2>3, <3>2 DEF Followed
  <2>9. CASE i \notin inserted /\ i \notin republished
    <3>1. jobRow'[i] \in {jobRow[i], Settled(i, "failed")}
      BY <2>1, <2>9
    <3>2. Settled(i, "failed").status # "pending"
      BY DEF Settled, NoRow
    <3>3. Followed(i)' => Followed(i) /\ jobRow'[i].run = jobRow[i].run
      BY <2>3, <3>1, <3>2 DEF Followed, Pending
    <3>4. Publishing(i)' => Publishing(i)
      BY <1>2, <2>2, <2>9 DEF Publishing, WaitingRelay
    <3> QED BY <1>3, <2>3, <3>3, <3>4
  <2> QED BY <2>7, <2>8, <2>9
<1>6. CASE UndoPublish(r)
  <2>1. jobRow' = [j \in Jobs |-> IF j \in relay[r].jobs /\ Pending(j) /\ jobRow[j].attempts > 0
                              THEN [jobRow[j] EXCEPT !.attempts = @ - 1] ELSE jobRow[j]]
    BY <1>6 DEF UndoPublish
  <2>2. \A i \in Jobs : jobRow'[i].status = jobRow[i].status /\ jobRow'[i].run = jobRow[i].run
    BY <1>2, <2>1 DEF RowRecord
  <2>3. UNCHANGED <<copy, disturbed>> /\ relay' = [relay EXCEPT ![r] = WaitingRelay]
    BY <1>6 DEF UndoPublish
  <2>4. \A i \in Jobs : Followed(i)' => Followed(i)
    BY <2>2, <2>3 DEF Followed, Pending
  <2>5. \A i \in Jobs : Publishing(i)' => Publishing(i)
    BY <1>2, <2>3 DEF Publishing, WaitingRelay
  <2> QED BY <1>3, <2>2, <2>3, <2>4, <2>5
<1>7. CASE ClaimTx(r) \/ AbortTick(r) \/ RelayCrash(r)
  <2>1. UNCHANGED <<copy, disturbed, jobRow>>
    BY <1>7 DEF ClaimTx, AbortTick, RelayCrash
  <2>2. \A i \in Jobs : Followed(i)' => Followed(i)
    BY <2>1 DEF Followed, Pending
  <2>3. \E w : relay' = [relay EXCEPT ![r] = w] /\ w.pc # "publish"
    BY <1>7 DEF ClaimTx, AbortTick, RelayCrash, WaitingRelay
  <2>4. \A i \in Jobs : Publishing(i)' => Publishing(i)
    BY <1>2, <2>3 DEF Publishing
  <2> QED BY <1>3, <2>1, <2>2, <2>4
<1>8. ASSUME NEW j \in Triages, PublishJob(r, j) \/ PublishJobFails(r, j)
      PROVE  \A i \in Jobs : Timed(i)'
  <2>1. j \in Jobs /\ Publishing(j)
    BY <1>1, <1>8 DEF PublishJob, PublishJobFails, Publishing
  <2>2. jobRow' = jobRow /\ (Store(j) \/ UNCHANGED <<copy, dupAge, disturbed>>)
    BY <1>8 DEF PublishJob, PublishJobFails
  <2>3. \A i \in Jobs : Publishing(i)' => Publishing(i)
    <3>1. CASE PublishJob(r, j)
      <4>1. relay' = [relay EXCEPT ![r] = IF relay[r].jobs = {j} THEN WaitingRelay
                                         ELSE [relay[r] EXCEPT !.jobs = relay[r].jobs \ {j}]]
        BY <1>2, <3>1 DEF PublishJob
      <4>2. relay[r].pc = "publish" /\ WaitingRelay.pc # "publish"
        BY <3>1 DEF PublishJob, WaitingRelay
      <4>3. /\ [relay[r] EXCEPT !.jobs = relay[r].jobs \ {j}].jobs = relay[r].jobs \ {j}
            /\ relay[r] \in RelayRecord
        BY <1>2 DEF RelayRecord
      <4> QED BY <1>2, <4>1, <4>2, <4>3 DEF Publishing
    <3>2. CASE PublishJobFails(r, j)
      <4>1. relay' = [relay EXCEPT ![r].pc = "undo"]
        BY <3>2 DEF PublishJobFails
      <4>2. relay'[r].pc = "undo" /\ \A q \in Relays : q # r => relay'[q] = relay[q]
        BY <1>2, <4>1 DEF RelayRecord
      <4> QED BY <4>2 DEF Publishing
    <3> QED BY <1>8, <3>1, <3>2
  <2> QED BY <1>1, <2>1, <2>2, <2>3, TimedStore
<1> QED BY <1>5, <1>6, <1>7, <1>8

\* A request, the sweep and the broker.
LEMMA RequestTimed ==
    ASSUME TimeoutInv, AnalysisStep \/ SweepStale \/ StoreLost \/ \E j \in Jobs : SessionEnds(j)
    PROVE  \A i \in Jobs : Timed(i)'
<1>1. AiJobsTypes /\ Analyses \subseteq Jobs /\ \A i \in Jobs : Timed(i)
  BY DEF TimeoutInv, LockInv, Jobs
<1>2. \A j \in Analyses : j \notin Triages
  BY AiJobsAssumption
<1>3. relay' = relay
  BY DEF AnalysisStep, RequestAIAnalysis, Enqueue, EnqueueFails, FailPendingAIAnalysis, RequestCrash,
         SweepStale, StoreLost, SessionEnds
<1>4. \A i \in Jobs : Publishing(i)' <=> Publishing(i)
  BY <1>3 DEF Publishing
<1>5. ASSUME UNCHANGED <<copy, disturbed>>, \A i \in Triages : jobRow'[i] = jobRow[i]
      PROVE  \A i \in Jobs : Timed(i)'
  <2>1. \A i \in Jobs : Followed(i)' => Followed(i) /\ jobRow'[i].run = jobRow[i].run
    BY <1>5 DEF Followed, Pending
  <2> QED BY <1>1, <1>4, <1>5, <2>1, TimedKept
<1>6. ASSUME NEW j \in Analyses, jobRow' = jobRow, Store(j) \/ UNCHANGED <<copy, dupAge, disturbed>>
      PROVE  \A i \in Jobs : Timed(i)'
  <2>1. ~Followed(j) /\ j \in Jobs
    BY <1>1, <1>2 DEF Followed
  <2> QED BY <1>1, <1>4, <1>6, <2>1, TimedStore
<1>7. ASSUME NEW j \in Analyses, RequestAIAnalysis(j) \/ FailPendingAIAnalysis(j)
      PROVE  \A i \in Jobs : Timed(i)'
  <2>1. UNCHANGED <<copy, disturbed>> /\ \E w : jobRow' = [jobRow EXCEPT ![j] = w]
    BY <1>7 DEF RequestAIAnalysis, FailPendingAIAnalysis
  <2>2. \A i \in Triages : jobRow'[i] = jobRow[i]
    BY <1>1, <1>2, <2>1 DEF AiJobsTypes, Jobs
  <2> QED BY <1>5, <2>1, <2>2
<1>8. CASE AnalysisStep
  <2>1. PICK j \in Analyses : RequestAIAnalysis(j) \/ Enqueue(j) \/ EnqueueFails(j)
                              \/ FailPendingAIAnalysis(j) \/ RequestCrash(j)
    BY <1>8 DEF AnalysisStep
  <2>2. CASE Enqueue(j) \/ EnqueueFails(j)
    BY <1>6, <2>2 DEF Enqueue, EnqueueFails
  <2>3. CASE RequestCrash(j)
    BY <1>5, <2>3 DEF RequestCrash
  <2> QED BY <1>7, <2>1, <2>2, <2>3
<1>9. CASE SweepStale
  <2>1. jobRow' = [j \in Jobs |-> IF j \in StaleJobs THEN Guarded(j, "failed") ELSE jobRow[j]]
    BY <1>9 DEF SweepStale
  <2>2. \A i \in Triages : jobRow'[i] = jobRow[i]
    BY <1>2, <2>1 DEF StaleJobs, Jobs
  <2> QED BY <1>5, <1>9, <2>2 DEF SweepStale
<1>10. CASE \E j \in Jobs : SessionEnds(j)
  BY <1>5, <1>10 DEF SessionEnds
<1>11. CASE StoreLost
  <2>1. /\ copy' = [j \in Jobs |-> [c \in Slots |->
                  IF Running(j, c) THEN [copy[j][c] EXCEPT !.held = FALSE] ELSE NoCopy]]
        /\ disturbed' = disturbed \cup {j \in Jobs : \E c \in Slots : copy[j][c].st # "none"}
        /\ jobRow' = jobRow
    BY <1>11 DEF StoreLost
  <2> SUFFICES ASSUME NEW i \in Jobs PROVE Timed(i)'
    OBVIOUS
  <2>2. \A c \in Slots : Shaped(copy'[i][c])
    <3> SUFFICES ASSUME NEW c \in Slots PROVE Shaped(copy'[i][c])
      OBVIOUS
    <3>1. copy[i][c] \in CopyRecord /\ Shaped(copy[i][c])
      BY <1>1 DEF Timed, AiJobsTypes
    <3>2. CASE Running(i, c)
      <4> DEFINE m == [copy[i][c] EXCEPT !.held = FALSE]
      <4>1. m.st = "running" /\ m.n = copy[i][c].n /\ m.t = copy[i][c].t
        BY <3>1, <3>2 DEF Running, CopyRecord
      <4>2. copy'[i][c] = m
        BY <2>1, <3>2
      <4> HIDE DEF m
      <4> QED BY <3>1, <3>2, <4>1, <4>2 DEF Shaped, Running
    <3>3. CASE ~Running(i, c)
      <4>1. copy'[i][c] = NoCopy
        BY <2>1, <3>3
      <4> QED BY <4>1 DEF Shaped, NoCopy
    <3> QED BY <3>2, <3>3
  <2>3. CASE \E c \in Slots : copy[i][c].st # "none"
    <3>1. i \in disturbed'
      BY <2>1, <2>3
    <3> QED BY <2>2, <3>1 DEF Timed, Shaped, Followed
  <2>4. CASE \A c \in Slots : copy[i][c].st = "none"
    <3>1. \A c \in Slots : copy'[i][c] = NoCopy
      BY <2>1, <2>4 DEF Running
    <3>2. Followed(i)' => Followed(i) /\ ~Publishing(i)
      BY <1>1, <2>1, <2>4 DEF Followed, Pending, Timed, Slots
    <3>3. Followed(i)' => ~Publishing(i)'
      BY <1>4, <3>2
    <3>4. copy'[i][1] = NoCopy /\ copy'[i][2] = NoCopy
      BY <3>1 DEF Slots
    <3>5. InTime(jobRow'[i].run, NoCopy) /\ NoCopy.st = "none"
      BY DEF InTime, NoCopy
    <3>6. Followed(i)' => InTime(jobRow'[i].run, copy'[i][1])
      BY <3>4, <3>5
    <3> QED BY <2>2, <3>3, <3>4, <3>5, <3>6 DEF Timed, Shaped, InTime
  <2> QED BY <2>3, <2>4
<1> QED BY <1>8, <1>9, <1>10, <1>11


\* A message that outlives a unit of time keeps its deliveries and moves its clock.
LEMMA AgedClock ==
    ASSUME AiJobsTypes, NEW j \in Jobs, NEW c \in Slots
    PROVE  \/ AgedCopy(j, c).st = "none"
           \/ /\ AgedCopy(j, c).st = copy[j][c].st /\ AgedCopy(j, c).n = copy[j][c].n
              /\ \/ copy[j][c].st = "queued" /\ AgedCopy(j, c).held = copy[j][c].held
                 \/ /\ copy[j][c].st = "waiting" /\ AgedCopy(j, c).held = copy[j][c].held
                    /\ AgedCopy(j, c).t = copy[j][c].t - 1
                 \/ copy[j][c].st = "running" /\ AgedCopy(j, c).t = copy[j][c].t + 1
<1> DEFINE m == copy[j][c]
           expired == j \in Triages /\ m.age >= TriageMaxAge
           age == IF j \in Triages /\ ~expired THEN m.age + 1 ELSE m.age
<1>1. m \in CopyRecord /\ m.st \in {"none", "queued", "waiting", "running"}
  BY DEF AiJobsTypes, CopyRecord
<1>2. NoCopy.st = "none"
  BY DEF NoCopy
<1>3. AgedCopy(j, c) = CASE m.st = "none" -> m
          [] m.st = "queued" -> IF expired THEN NoCopy ELSE [m EXCEPT !.age = age]
          [] m.st = "waiting" -> IF expired THEN NoCopy ELSE [m EXCEPT !.age = age, !.t = @ - 1]
          [] m.st = "running" -> [m EXCEPT !.age = age, !.t = @ + 1, !.held = @ /\ ~expired]
  BY DEF AgedCopy
<1> HIDE DEF expired, age
<1>4. CASE m.st = "queued"
  <2>1. AgedCopy(j, c) \in {NoCopy, [m EXCEPT !.age = age]}
    BY <1>3, <1>4
  <2> QED BY <1>1, <1>2, <1>4, <2>1 DEF CopyRecord
<1>5. CASE m.st = "waiting"
  <2>1. AgedCopy(j, c) \in {NoCopy, [m EXCEPT !.age = age, !.t = m.t - 1]}
    BY <1>3, <1>5
  <2> QED BY <1>1, <1>2, <1>5, <2>1 DEF CopyRecord
<1>6. CASE m.st = "running"
  <2> DEFINE h == m.held /\ ~expired
  <2>1. AgedCopy(j, c) = [m EXCEPT !.age = age, !.t = m.t + 1, !.held = h]
    BY <1>3, <1>6
  <2> HIDE DEF h
  <2> QED BY <1>1, <1>6, <2>1 DEF CopyRecord
<1>7. CASE m.st = "none"
  BY <1>3, <1>7
<1> QED BY <1>1, <1>4, <1>5, <1>6, <1>7

\* Time ages a run no faster than the delivery it runs in.
LEMMA PassTimeTimed ==
    ASSUME TimeoutInv, PassTime
    PROVE  \A i \in Jobs : Timed(i)'
<1> SUFFICES ASSUME NEW i \in Jobs PROVE Timed(i)'
  OBVIOUS
<1>1. AiJobsTypes /\ Timed(i)
  BY DEF TimeoutInv, LockInv
<1>2. /\ \A c \in Slots : /\ copy'[i][c] = AgedCopy(i, c)
                          /\ Running(i, c) => copy[i][c].t < RunTime
                          /\ copy[i][c].st = "waiting" => copy[i][c].t > 0
      /\ jobRow'[i] = AgedRow(i) /\ disturbed' = disturbed
  BY DEF PassTime
<1>3. ~Publishing(i)'
  BY DEF PassTime, Publishing, IdleRelay
<1>4. \A c \in Slots : copy[i][c].t \in Nat /\ copy[i][c].n \in Nat
  BY <1>1 DEF AiJobsTypes, CopyRecord
<1>5. \A c \in Slots : Shaped(copy'[i][c])
  <2> TAKE c \in Slots
  <2>1. Shaped(copy[i][c]) /\ copy'[i][c] = AgedCopy(i, c)
    BY <1>1, <1>2 DEF Timed
  <2>2. copy[i][c].st = "running" => copy[i][c].t + 1 <= RunTime
    <3>1. RunTime \in Nat
      BY AiJobsAssumption
    <3> QED BY <1>2, <1>4, <3>1 DEF Running
  <2> QED BY <1>1, <2>1, <2>2, AgedClock DEF Shaped
<1>6. copy'[i][2].st # "none" => i \in disturbed'
  <2>1. AgedCopy(i, 2).st # "none" => copy[i][2].st # "none"
    BY <1>1, AgedClock DEF Slots
  <2> QED BY <1>1, <1>2, <2>1 DEF Timed, Slots
<1>7. ASSUME Followed(i)' PROVE InTime(jobRow'[i].run, copy'[i][1])
  <2>1. jobRow[i] \in RowRecord /\ i \in Triages
    BY <1>1, <1>7 DEF AiJobsTypes, Followed
  <2>2. /\ AgedRow(i).status = jobRow[i].status
        /\ AgedRow(i).run = IF Pending(i) /\ jobRow[i].run # NotStarted
                            THEN Older(jobRow[i].run) ELSE jobRow[i].run
    BY <2>1 DEF AgedRow, RowRecord
  <2>3. Followed(i)
    BY <1>2, <1>7, <2>2 DEF Followed, Pending
  <2>4. jobRow[i].run \in Nat
    BY <2>1, <2>3 DEF Followed, RowRecord
  <2>5. jobRow'[i].run \in Nat /\ jobRow'[i].run <= jobRow[i].run + 1
    BY <1>2, <2>2, <2>3, <2>4, OlderAges DEF Followed
  <2>6. InTime(jobRow[i].run, copy[i][1]) /\ 1 \in Slots
    BY <1>1, <2>3 DEF Timed, Slots
  <2>7. /\ copy[i][1].st = "running" => copy[i][1].n - 1 \in Nat
        /\ copy[i][1].n \in Nat /\ copy[i][1].t \in Nat
    BY <1>1, <1>4, <2>6, AiJobsAssumption DEF Timed, Shaped
  <2> DEFINE a == copy'[i][1]
             m == copy[i][1]
  <2>8. \/ a.st = "none"
        \/ m.st = "waiting" /\ a.st = "waiting" /\ a.n = m.n /\ a.t = m.t - 1
        \/ m.st = "running" /\ a.st = "running" /\ a.n = m.n /\ a.t = m.t + 1
    BY <1>1, <1>2, <2>6, AgedClock DEF InTime
  <2>9. CASE m.st = "waiting" /\ a.st = "waiting" /\ a.n = m.n /\ a.t = m.t - 1
    <3> DEFINE x == m.n * Period
    <3>1. x \in Nat /\ jobRow[i].run + m.t <= x
      BY <2>6, <2>7, <2>9, PeriodsAdd DEF InTime
    <3> HIDE DEF x
    <3>2. jobRow'[i].run + a.t <= x
      BY <2>4, <2>5, <2>7, <2>9, <3>1
    <3> QED BY <2>9, <3>2 DEF InTime, x
  <2>10. CASE m.st = "running" /\ a.st = "running" /\ a.n = m.n /\ a.t = m.t + 1
    <3> DEFINE x == (m.n - 1) * Period
    <3>1. x \in Nat /\ jobRow[i].run <= x + m.t
      BY <2>6, <2>7, <2>10, PeriodsAdd DEF InTime
    <3> HIDE DEF x
    <3>2. jobRow'[i].run <= x + a.t
      BY <2>4, <2>5, <2>7, <2>10, <3>1
    <3> QED BY <2>10, <3>2 DEF InTime, x
  <2> QED BY <2>8, <2>9, <2>10 DEF InTime
<1> QED BY <1>3, <1>5, <1>6, <1>7 DEF Timed, Shaped, InTime

LEMMA TimeoutStep == TimeoutInv /\ [AiJobsNext]_jobVars => TimeoutInv'
<1> SUFFICES ASSUME TimeoutInv, [AiJobsNext]_jobVars PROVE TimeoutInv'
  OBVIOUS
<1>1. LockInv'
  BY LockStep DEF TimeoutInv
<1> SUFFICES \A i \in Jobs : Timed(i)'
  BY <1>1 DEF TimeoutInv
<1>2. CASE RelayStep \/ RelayFault
  BY <1>2, RelayTimed DEF RelayStep, RelayFault
<1>3. CASE AnalysisStep \/ SweepStale \/ StoreLost \/ \E j \in Jobs : SessionEnds(j)
  BY <1>3, RequestTimed
<1>4. CASE DeliverJob \/ EndRun \/ WorkerFault
  BY <1>4, DeliveryTimed DEF DeliverJob, EndRun, WorkerFault
<1>5. CASE PassTime
  BY <1>5, PassTimeTimed
<1>6. CASE UNCHANGED jobVars
  <2>1. ASSUME NEW i \in Jobs PROVE Timed(i)'
    <3>1. Followed(i)' <=> Followed(i)
      BY <1>6 DEF jobVars, Followed, Pending
    <3>2. Publishing(i)' <=> Publishing(i)
      BY <1>6 DEF jobVars, Publishing
    <3> QED BY <1>6, <3>1, <3>2, TimedKept DEF jobVars, TimeoutInv
  <2> QED BY <2>1
<1> QED BY <1>2, <1>3, <1>4, <1>5, <1>6 DEF AiJobsNext

LEMMA TimeoutStart == AiJobsInit => TimeoutInv
<1> SUFFICES ASSUME AiJobsInit PROVE TimeoutInv
  OBVIOUS
<1>1. ASSUME NEW j \in Jobs PROVE Timed(j)
  <2>1. \A c \in Slots : copy[j][c] = NoCopy
    BY DEF AiJobsInit
  <2>2. NoCopy.st = "none" /\ 2 \in Slots
    BY DEF NoCopy, Slots
  <2>3. ~Followed(j)
    BY DEF AiJobsInit, Followed, Pending, NoRow
  <2> QED BY <2>1, <2>2, <2>3 DEF Timed, Shaped
<1> QED BY <1>1, LockStart DEF TimeoutInv

\* The only step of a relay that fails a pending row is the commit of its tick, and it fails a row whose
\* run has begun for its age alone: every delivery of the first message would have ended before.
LEMMA TimeoutFails ==
    ASSUME TimeoutInv, [AiJobsNext]_jobVars, NEW j \in Triages,
           \E r \in Relays : relay[r].pc = "tx" /\ relay'[r].pc # "tx",
           Pending(j), jobRow[j].run # NotStarted, jobRow'[j].status = "failed", j \notin disturbed,
           NEW c \in Slots
    PROVE  copy[j][c].st = "none"
<1>1. AiJobsTypes /\ j \in Jobs /\ Timed(j)
  BY DEF TimeoutInv, LockInv, Jobs
<1>2. jobRow[j].status = "pending" /\ jobRow[j].run \in Nat
  BY <1>1 DEF Pending, AiJobsTypes, RowRecord
<1>3. relay' # relay
  <2>1. PICK q \in Relays : relay[q].pc = "tx" /\ relay'[q].pc # "tx"
    OBVIOUS
  <2> QED BY <2>1, SMTT(30)
<1>4. PICK r \in Relays : CommitTick(r)
  <2>1. jobRow' # jobRow
    BY <1>2
  <2>2. ~PassTime
    BY DEF PassTime
  <2>3. \A r \in Relays : ~UndoPublish(r)
    <3> SUFFICES ASSUME NEW r \in Relays, UndoPublish(r) PROVE FALSE
      OBVIOUS
    <3>1. jobRow'[j].status = jobRow[j].status
      BY <1>1 DEF UndoPublish, AiJobsTypes, RowRecord
    <3> QED BY <1>2, <3>1
  <2> QED BY <1>3, <2>1, <2>2, <2>3, ZenonT(60)
          DEF AiJobsNext, RelayStep, RelayFault, AnalysisStep, DeliverJob, EndRun, WorkerFault, jobVars,
              ClaimTx, AbortTick, RelayCrash, PublishJob, PublishJobFails,
              RequestAIAnalysis, Enqueue, EnqueueFails, FailPendingAIAnalysis, RequestCrash, SweepStale,
              StoreLost, SessionEnds, DeliverBusy, DeliverSettled, DeliverRun, Finish, SettleDelivery,
              LeaveUnrecorded, WorkerLost
<1>5. jobRow[j].run > TriageFailAfter
  <2> DEFINE inserted == {i \in relay[r].jobs : jobRow[i].status = "none"}
             republished == {i \in Triages : Republishes(i)}
  <2>1. jobRow' = [i \in Jobs |->
                     CASE i \in inserted -> NewRow
                       [] i \in republished -> [jobRow[i] EXCEPT !.enq = 0, !.attempts = @ + 1]
                       [] i \in Triages /\ RelayFails(i) -> Settled(i, "failed")
                       [] OTHER -> jobRow[i]]
    BY <1>4 DEF CommitTick
  <2>2. j \notin inserted /\ j \notin republished
    BY <1>2 DEF Republishes
  <2> HIDE DEF inserted, republished
  <2>3. RelayFails(j)
    BY <1>1, <1>2, <2>1, <2>2
  <2> QED BY <2>3 DEF RelayFails, RunTimedOut, NotStartedInTime
<1>6. copy[j][2].st = "none" /\ Followed(j)
  BY <1>1 DEF Timed, Followed
<1>7. copy[j][1].st = "none"
  <2> DEFINE m == copy[j][1]
  <2>1. /\ m \in CopyRecord /\ m.n \in Nat /\ m.t \in Nat /\ Shaped(m) /\ InTime(jobRow[j].run, m)
        /\ m.st \in {"none", "queued", "waiting", "running"}
    BY <1>1, <1>6 DEF Timed, Slots, AiJobsTypes, CopyRecord
  <2>2. RunTime \in Nat /\ TriageFailAfter \in Nat /\ MaxDeliveries \in Nat
    BY AiJobsAssumption
  <2>3. m.st # "running"
    <3> SUFFICES ASSUME m.st = "running" PROVE FALSE
      OBVIOUS
    <3>1. m.n - 1 \in Nat /\ m.n - 1 < MaxDeliveries /\ m.t <= RunTime
      BY <2>1, <2>2 DEF Shaped
    <3> DEFINE x == (m.n - 1) * Period
    <3>2. x \in Nat /\ x + RunTime < TriageFailAfter /\ jobRow[j].run <= x + m.t
      BY <2>1, <3>1, PeriodsAdd DEF InTime
    <3> HIDE DEF x
    <3> QED BY <1>2, <1>5, <2>1, <2>2, <3>1, <3>2
  <2>4. m.st # "waiting"
    <3> SUFFICES ASSUME m.st = "waiting" PROVE FALSE
      OBVIOUS
    <3>1. m.n < MaxDeliveries
      BY <2>1 DEF Shaped
    <3> DEFINE x == m.n * Period
    <3>2. x \in Nat /\ x + RunTime < TriageFailAfter /\ jobRow[j].run + m.t <= x
      BY <2>1, <3>1, PeriodsAdd DEF InTime
    <3> HIDE DEF x
    <3> QED BY <1>2, <1>5, <2>1, <2>2, <3>2
  <2> QED BY <2>1, <2>3, <2>4 DEF InTime
<1> QED BY <1>6, <1>7 DEF Slots

\* The relay's timeout of a started triage fires only when no delivery of it is running or still to come:
\* the run is never older than the deliveries behind its message, and the assumption on TriageFailAfter is
\* that all of them together take less.
THEOREM TimeoutIsLast == AiJobsSpec => TimeoutComesLast
<1>1. TimeoutInv /\ [AiJobsNext]_jobVars =>
         [\A j \in Triages :
             (/\ \E r \in Relays : relay[r].pc = "tx" /\ relay'[r].pc # "tx"
              /\ Pending(j) /\ jobRow[j].run # NotStarted /\ jobRow'[j].status = "failed"
              /\ j \notin disturbed)
             => \A c \in Slots : copy[j][c].st = "none"]_jobVars
  BY TimeoutFails
<1> QED BY <1>1, TimeoutStart, TimeoutStep, PTL DEF AiJobsSpec, TimeoutComesLast


=============================================================================
