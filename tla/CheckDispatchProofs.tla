------------------------- MODULE CheckDispatchProofs -------------------------
(***************************************************************************)
(* Theorems about CheckDispatch for every set of monitors, schedulers and  *)
(* workers, every batch size, window and delivery limit.                   *)
(***************************************************************************)
EXTENDS CheckDispatch, TLAPS

-----------------------------------------------------------------------------
(* Facts about the operators.                                              *)

\* What publishing does to the table of stored jobs.
LEMMA StoredJobs ==
    ASSUME TypeOK, NEW new \in SUBSET Job
    PROVE  /\ DOMAIN Stored(new) = DOMAIN jobs \cup new
           /\ \A j \in DOMAIN jobs : Stored(new)[j] = jobs[j]
           /\ \A j \in new \ DOMAIN jobs :
                 Stored(new)[j] = [deliveries |-> 0, phase |-> "queued", runs |-> 0]
           /\ Stored(new) \in [DOMAIN jobs \cup new -> JobState]
<1>1. [deliveries |-> 0, phase |-> "queued", runs |-> 0] \in JobState
  BY DispatchAssumption DEF JobState, Phases
<1>2. \A j \in DOMAIN jobs : jobs[j] \in JobState
  BY DEF TypeOK
<1> QED BY <1>1, <1>2 DEF Stored

\* The jobs of one monitor's targets.
LEMMA NewJobs ==
    ASSUME TypeOK, NEW m \in Monitors, NEW L \in SUBSET Targets[m], NEW x \in Nat \cup {Null, Manual}
    PROVE  {[mon |-> m, loc |-> l, slot |-> x, at |-> now] : l \in L} \in SUBSET Job
<1>1. \A l \in L : l \in Locs
  BY DEF Locs
<1> QED BY <1>1 DEF Job, TypeOK

\* One job changes.
LEMMA JobsType ==
    ASSUME TypeOK, NEW j \in DOMAIN jobs, NEW x \in JobState, jobs' = [jobs EXCEPT ![j] = x]
    PROVE  /\ DOMAIN jobs' = DOMAIN jobs
           /\ jobs' \in [DOMAIN jobs -> JobState]
           /\ jobs'[j] = x
           /\ \A i \in DOMAIN jobs : i # j => jobs'[i] = jobs[i]
BY DEF TypeOK

\* A delivery that is handled, and one that starts a check.
LEMMA JobStateType ==
    ASSUME TypeOK, NEW j \in DOMAIN jobs
    PROVE  /\ jobs[j] \in JobState
           /\ \A p \in Phases : [jobs[j] EXCEPT !.phase = p] \in JobState
           /\ Deliverable(j) => \A p \in Phases :
                 /\ Delivered(j, p) \in JobState
                 /\ [Delivered(j, p) EXCEPT !.runs = @ + 1] \in JobState
                 /\ Delivered(j, p).deliveries = jobs[j].deliveries + 1
                 /\ Delivered(j, p).runs = jobs[j].runs /\ Delivered(j, p).phase = p
<1>1. jobs[j] \in JobState
  BY DEF TypeOK
<1>2. \A p \in Phases : [jobs[j] EXCEPT !.phase = p] \in JobState
  BY <1>1 DEF JobState
<1>3. ASSUME Deliverable(j), NEW p \in Phases
      PROVE  /\ Delivered(j, p) \in JobState
             /\ [Delivered(j, p) EXCEPT !.runs = @ + 1] \in JobState
             /\ Delivered(j, p).deliveries = jobs[j].deliveries + 1
             /\ Delivered(j, p).runs = jobs[j].runs /\ Delivered(j, p).phase = p
  <2>1. jobs[j].deliveries + 1 \in 0..MaxDeliver
    BY <1>1, <1>3, DispatchAssumption DEF JobState, Deliverable
  <2>2. jobs[j].runs + 1 \in Nat
    BY <1>1 DEF JobState
  <2>3. Delivered(j, p) \in JobState
    BY <1>1, <2>1 DEF JobState, Delivered
  <2>4. /\ Delivered(j, p).deliveries = jobs[j].deliveries + 1
        /\ Delivered(j, p).runs = jobs[j].runs /\ Delivered(j, p).phase = p
    BY <1>1 DEF JobState, Delivered
  <2>5. [Delivered(j, p) EXCEPT !.runs = @ + 1] \in JobState
    BY <2>2, <2>3, <2>4 DEF JobState
  <2> QED BY <2>3, <2>4, <2>5
<1> QED BY <1>1, <1>2, <1>3

-----------------------------------------------------------------------------
(* Types.                                                                  *)

\* What TypeOK says of batches, and of the jobs, their workers and rows.
BatchesOK ==
    /\ batch \in [Schedulers -> Batch]
    /\ \A s \in Schedulers : /\ batch[s].todo \subseteq batch[s].held
                             /\ Moved(s) \subseteq batch[s].held \ batch[s].todo
    /\ \A s, u \in Schedulers : s # u => batch[s].held \cap batch[u].held = {}

JobsOK ==
    /\ DOMAIN jobs \subseteq Job
    /\ jobs \in [DOMAIN jobs -> JobState]
    /\ working \in [Workers -> DOMAIN jobs \cup {Idle}]
    /\ rows \subseteq (DOMAIN jobs) \X {"monitor", "platform"}

\* One scheduler's transaction changes, and holds nothing another one holds.
LEMMA BatchType ==
    ASSUME BatchesOK, NEW s \in Schedulers, NEW b \in Batch, batch' = [batch EXCEPT ![s] = b],
           b.todo \subseteq b.held, {m \in Monitors : b.moved[m] # Null} \subseteq b.held \ b.todo,
           b.held \cap (Locked \ batch[s].held) = {}
    PROVE  BatchesOK'
<1>1. batch' \in [Schedulers -> Batch] /\ batch'[s] = b
  BY DEF BatchesOK
<1>2. \A u \in Schedulers : u # s => batch'[u] = batch[u]
  BY DEF BatchesOK
<1>3. \A u \in Schedulers : /\ batch'[u].todo \subseteq batch'[u].held
                            /\ Moved(u)' \subseteq batch'[u].held \ batch'[u].todo
  BY <1>1, <1>2 DEF BatchesOK, Moved
<1>4. ASSUME NEW u \in Schedulers, u # s PROVE b.held \cap batch[u].held = {}
  <2>1. batch[u].held \subseteq Locked \ batch[s].held
    BY <1>4 DEF Locked, BatchesOK
  <2> QED BY <2>1
<1>5. \A u, v \in Schedulers : u # v => batch'[u].held \cap batch'[v].held = {}
  BY <1>1, <1>2, <1>4 DEF BatchesOK
<1> QED BY <1>1, <1>3, <1>5 DEF BatchesOK

\* A transaction ends: nothing is held any more.
LEMMA NoBatchType ==
    ASSUME BatchesOK, NEW s \in Schedulers, batch' = [batch EXCEPT ![s] = NoBatch]
    PROVE  BatchesOK'
<1>1. NoBatch \in Batch /\ \A m \in Monitors : NoBatch.moved[m] = Null
  BY DEF NoBatch, Batch
<1>2. NoBatch.todo = {} /\ NoBatch.held = {}
  BY DEF NoBatch
<1> QED BY <1>1, <1>2, BatchType

LEMMA FetchType ==
    ASSUME TypeOK, NEW s \in Schedulers, fetchDueMonitors(s)
    PROVE  TypeOK'
<1>0. BatchesOK
  BY DEF TypeOK, BatchesOK
<1>1. PICK B \in SUBSET Dispatchable : batch' = [batch EXCEPT ![s] = [@ EXCEPT !.held = B, !.todo = B]]
  BY DEF fetchDueMonitors
<1>2. batch[s] = NoBatch
  BY DEF fetchDueMonitors
<1> DEFINE b == [NoBatch EXCEPT !.held = B, !.todo = B]
<1>3. B \in SUBSET Monitors
  BY DEF Dispatchable, Due, TypeOK
<1>4. b \in Batch /\ b.todo = B /\ b.held = B /\ \A m \in Monitors : b.moved[m] = Null
  BY <1>3 DEF Batch, NoBatch
<1>5. batch' = [batch EXCEPT ![s] = b]
  BY <1>1, <1>2
<1>6. b.held \cap (Locked \ batch[s].held) = {}
  BY <1>4 DEF Dispatchable
<1>7. BatchesOK'
  <2> HIDE DEF b
  <2> QED BY <1>0, <1>4, <1>5, <1>6, BatchType
<1> QED BY <1>7 DEF fetchDueMonitors, TypeOK, BatchesOK

\* New jobs are stored: workers and rows still refer to stored jobs.
LEMMA StoredType ==
    ASSUME TypeOK, NEW new \in SUBSET Job, jobs' = Stored(new), UNCHANGED <<working, rows>>
    PROVE  JobsOK'
<1>1. DOMAIN jobs' = DOMAIN jobs \cup new /\ jobs' \in [DOMAIN jobs' -> JobState]
  BY StoredJobs
<1>2. DOMAIN jobs' \subseteq Job
  BY <1>1 DEF TypeOK
<1>3. working' \in [Workers -> DOMAIN jobs' \cup {Idle}]
  BY <1>1 DEF TypeOK
<1>4. rows' \subseteq (DOMAIN jobs') \X {"monitor", "platform"}
  BY <1>1 DEF TypeOK
<1> QED BY <1>1, <1>2, <1>3, <1>4 DEF JobsOK

\* One job changes, and nothing else of the queue does.
LEMMA SettledType ==
    ASSUME TypeOK, NEW j \in DOMAIN jobs, NEW x \in JobState, jobs' = [jobs EXCEPT ![j] = x],
           working' \in [Workers -> DOMAIN jobs \cup {Idle}],
           rows' \subseteq (DOMAIN jobs) \X {"monitor", "platform"}
    PROVE  JobsOK'
<1>1. DOMAIN jobs' = DOMAIN jobs /\ jobs' \in [DOMAIN jobs -> JobState]
  BY JobsType
<1> QED BY <1>1 DEF JobsOK, TypeOK

\* The jobs a publish stores.
Published(m, stored) ==
    {[mon |-> m, loc |-> l, slot |-> nextRun[m], at |-> now] : l \in {x \in stored : ~Duplicate(m, x)}}

LEMMA PublishedType ==
    ASSUME TypeOK, NEW m \in Monitors, NEW stored \in SUBSET Targets[m]
    PROVE  Published(m, stored) \in SUBSET Job
<1>1. {x \in stored : ~Duplicate(m, x)} \in SUBSET Targets[m] /\ nextRun[m] \in Nat \cup {Null, Manual}
  BY DEF TypeOK
<1> HIDE DEF Null, Manual
<1> QED BY <1>1, NewJobs DEF Published

LEMMA PublishType ==
    ASSUME TypeOK, NEW s \in Schedulers, NEW m \in Monitors, NEW updated \in BOOLEAN,
           NEW stored \in SUBSET Targets[m], NEW acked \in SUBSET stored,
           NEW delay \in nextCheckDelay(m),
           publishMonitorJobs(s, m, stored, acked, updated, delay)
    PROVE  TypeOK'
<1>0. BatchesOK
  BY DEF TypeOK, BatchesOK
<1> DEFINE b == batch[s]
           t == IF Reschedules(acked) THEN [b.moved EXCEPT ![m] = now + delay] ELSE b.moved
           c == [b EXCEPT !.todo = b.todo \ {m}, !.moved = t, !.ok = b.ok /\ Usable(updated, acked)]
<1>1. batch' = [batch EXCEPT ![s] = c]
  BY DEF publishMonitorJobs, TypeOK
<1>2. b \in Batch /\ m \in b.todo /\ b.todo \subseteq b.held
  BY DEF publishMonitorJobs, TypeOK
<1>3. now + delay \in Nat
  BY DispatchAssumption DEF nextCheckDelay, TypeOK
<1>4. t \in [Monitors -> Nat \cup {Null}]
  BY <1>2, <1>3 DEF Batch
<1>5. \A k \in Monitors : k # m => t[k] = b.moved[k]
  BY <1>2 DEF Batch
<1>6. c \in Batch /\ c.held = b.held /\ c.todo = b.todo \ {m} /\ c.moved = t
  <2>1. (b.ok /\ Usable(updated, acked)) \in BOOLEAN
    BY <1>2 DEF Batch
  <2> HIDE DEF t
  <2> QED BY <1>2, <1>4, <2>1 DEF Batch
<1>7. {k \in Monitors : c.moved[k] # Null} \subseteq c.held \ c.todo
  <2>1. {k \in Monitors : b.moved[k] # Null} \subseteq b.held \ b.todo
    BY DEF TypeOK, Moved
  <2> HIDE DEF b, t, c
  <2> QED BY <1>2, <1>5, <1>6, <2>1
<1>8. c.held \cap (Locked \ batch[s].held) = {}
  BY <1>6
<1>9. BatchesOK'
  <2> HIDE DEF c
  <2> QED BY <1>0, <1>1, <1>2, <1>6, <1>7, <1>8, BatchType
<1>10. JobsOK'
  <2>1. jobs' = Stored(Published(m, stored)) /\ UNCHANGED <<working, rows>>
    BY DEF publishMonitorJobs, Published
  <2> QED BY <2>1, PublishedType, StoredType
<1>11. faults' \in Nat /\ UNCHANGED <<now, nextRun, enabled, edits>>
  BY DEF publishMonitorJobs, Faulty, TypeOK
<1> QED BY <1>9, <1>10, <1>11 DEF TypeOK, BatchesOK, JobsOK

\* The end of a transaction.
LEMMA EndType ==
    ASSUME TypeOK, NEW s \in Schedulers, Commit(s) \/ CommitAborted(s) \/ SchedulerFails(s)
    PROVE  TypeOK'
<1>1. BatchesOK /\ batch' = [batch EXCEPT ![s] = NoBatch]
  BY DEF TypeOK, BatchesOK, Commit, CommitAborted, SchedulerFails
<1>2. BatchesOK'
  BY <1>1, NoBatchType
<1>3. nextRun' \in [Monitors -> Nat \cup {Null}]
  <2>1. batch[s].moved \in [Monitors -> Nat \cup {Null}]
    BY DEF TypeOK, Batch
  <2> QED BY <2>1 DEF TypeOK, Commit, CommitAborted, SchedulerFails
<1>4. faults' \in Nat
  BY DEF TypeOK, Commit, CommitAborted, SchedulerFails, Faulty
<1>5. UNCHANGED <<now, enabled, jobs, working, rows, edits>>
  BY DEF Commit, CommitAborted, SchedulerFails
<1> QED BY <1>2, <1>3, <1>4, <1>5 DEF TypeOK, BatchesOK

LEMMA RunNowType ==
    ASSUME TypeOK, NEW m \in Monitors, NEW stored \in SUBSET Targets[m], RunMonitorNow(m, stored)
    PROVE  TypeOK'
<1>1. {[mon |-> m, loc |-> l, slot |-> Manual, at |-> now] : l \in stored} \in SUBSET Job
  BY NewJobs
<1>2. JobsOK'
  BY <1>1, StoredType DEF RunMonitorNow
<1>3. edits' \in Nat /\ UNCHANGED <<now, nextRun, enabled, batch, faults>>
  BY DEF RunMonitorNow, Edits, TypeOK
<1> QED BY <1>2, <1>3 DEF TypeOK, JobsOK, Moved

LEMMA EditType ==
    ASSUME TypeOK, NEW m \in Monitors, SetEnabled(m) \/ UpdateInterval(m)
    PROVE  TypeOK'
<1>1. edits' \in Nat /\ UNCHANGED <<now, batch, jobs, working, rows, faults>>
  BY DEF SetEnabled, UpdateInterval, Edits, TypeOK
<1>2. nextRun' \in [Monitors -> Nat \cup {Null}] /\ enabled' \in SUBSET Monitors
  BY DEF SetEnabled, UpdateInterval, TypeOK
<1> QED BY <1>1, <1>2 DEF TypeOK, Moved

\* The steps of a worker change jobs, working and rows only.
LEMMA WorkingFrame ==
    ASSUME Working
    PROVE  UNCHANGED <<now, nextRun, enabled, batch, faults, edits>>
BY DEF Working, SkipRedelivered, RefuseJob, publishExpiredJob, StartCheck, FinishCheck, WorkerDies, AckWaitExpires

\* What a worker step does to one job, its runs, and its row.
LEMMA SkipJob ==
    ASSUME TypeOK, NEW j \in DOMAIN jobs, NEW acked \in BOOLEAN, SkipRedelivered(j, acked)
    PROVE  \E x \in JobState : /\ jobs' = [jobs EXCEPT ![j] = x] /\ x.runs = jobs[j].runs
                               /\ x.deliveries = jobs[j].deliveries + 1
<1> DEFINE p == IF acked THEN "acked" ELSE "unacked"
           x == Delivered(j, p)
<1>1. p \in Phases /\ Deliverable(j)
  BY DEF Phases, SkipRedelivered
<1>2. x \in JobState
  BY <1>1, JobStateType
<1>3. jobs' = [jobs EXCEPT ![j] = x]
  BY DEF SkipRedelivered, Settle
<1>4. x.runs = jobs[j].runs /\ x.deliveries = jobs[j].deliveries + 1
  BY <1>1, JobStateType
<1> QED BY <1>2, <1>3, <1>4

LEMMA RefusedJob ==
    ASSUME TypeOK, NEW j \in DOMAIN jobs, NEW acked \in BOOLEAN, RefuseJob(j, acked)
    PROVE  /\ j.mon \in Unreadable \cup Unrunnable /\ UNCHANGED <<working, rows>>
           /\ \E x \in JobState : /\ jobs' = [jobs EXCEPT ![j] = x] /\ x.runs = jobs[j].runs
                                  /\ x.deliveries = jobs[j].deliveries + 1
<1> DEFINE p == IF acked THEN "acked" ELSE "unacked"
           x == Delivered(j, p)
<1>1. p \in Phases /\ Deliverable(j)
  BY DEF Phases, RefuseJob
<1>2. x \in JobState
  BY <1>1, JobStateType
<1>3. jobs' = [jobs EXCEPT ![j] = x]
  BY DEF RefuseJob, Settle
<1>4. x.runs = jobs[j].runs /\ x.deliveries = jobs[j].deliveries + 1
  BY <1>1, JobStateType
<1>5. j.mon \in Unreadable \cup Unrunnable /\ UNCHANGED <<working, rows>>
  BY DEF RefuseJob
<1> QED BY <1>2, <1>3, <1>4, <1>5

LEMMA ExpiredJob ==
    ASSUME TypeOK, NEW j \in DOMAIN jobs, NEW published \in BOOLEAN, NEW acked \in BOOLEAN,
           publishExpiredJob(j, published, acked)
    PROVE  \E x \in JobState : /\ jobs' = [jobs EXCEPT ![j] = x] /\ x.runs = jobs[j].runs
                               /\ x.deliveries = jobs[j].deliveries + 1
                               /\ x.phase = "acked" => <<j, "platform">> \in rows'
<1> DEFINE p == IF ~published THEN "queued" ELSE IF acked THEN "acked" ELSE "unacked"
           x == Delivered(j, p)
<1>1. p \in Phases /\ Deliverable(j)
  BY DEF Phases, publishExpiredJob
<1>2. x \in JobState
  BY <1>1, JobStateType
<1>3. jobs' = [jobs EXCEPT ![j] = x]
  BY DEF publishExpiredJob, Settle
<1>4. x.runs = jobs[j].runs /\ x.deliveries = jobs[j].deliveries + 1 /\ x.phase = p
  BY <1>1, JobStateType
<1>5. p = "acked" => <<j, "platform">> \in rows'
  BY DEF publishExpiredJob
<1> QED BY <1>2, <1>3, <1>4, <1>5

LEMMA StartedJob ==
    ASSUME TypeOK, NEW w \in Workers, NEW j \in DOMAIN jobs, StartCheck(w, j)
    PROVE  \E x \in JobState : /\ jobs' = [jobs EXCEPT ![j] = x] /\ x.runs = jobs[j].runs + 1
                               /\ x.deliveries = jobs[j].deliveries + 1
                               /\ x.phase = "unacked"
<1> DEFINE x == [Delivered(j, "unacked") EXCEPT !.runs = @ + 1]
<1>1. "unacked" \in Phases /\ Deliverable(j)
  BY DEF Phases, StartCheck
<1>2. x \in JobState
  BY <1>1, JobStateType
<1>3. jobs' = [jobs EXCEPT ![j] = x]
  BY DEF StartCheck, TypeOK
<1>4. x.runs = jobs[j].runs + 1 /\ x.deliveries = jobs[j].deliveries + 1 /\ x.phase = "unacked"
  BY <1>1, JobStateType DEF JobState
<1> QED BY <1>2, <1>3, <1>4

LEMMA FinishedJob ==
    ASSUME TypeOK, NEW w \in Workers, NEW published \in BOOLEAN, NEW acked \in BOOLEAN,
           FinishCheck(w, published, acked)
    PROVE  LET j == working[w]
           IN  /\ j \in DOMAIN jobs
               /\ \E x \in JobState :
                     /\ jobs' = [jobs EXCEPT ![j] = x] /\ x.runs = jobs[j].runs
                     /\ x.deliveries = jobs[j].deliveries
                     /\ x.phase = "acked" => \/ jobs[j].phase = "acked"
                                             \/ j.mon \notin Answered
                                             \/ <<j, "monitor">> \in rows'
<1> DEFINE j == working[w]
           o == jobs[j].phase
           p == IF o = "acked" \/ (Acks(j, published) /\ acked) THEN "acked"
                ELSE IF Acks(j, published) THEN o ELSE "queued"
           x == [jobs[j] EXCEPT !.phase = p]
<1>1. j \in DOMAIN jobs
  BY DEF FinishCheck, TypeOK
<1>2. jobs[j] \in JobState /\ o \in Phases
  BY <1>1, JobStateType DEF JobState
<1>3. p \in Phases
  BY <1>2 DEF Phases
<1>4. x \in JobState
  BY <1>1, <1>3, JobStateType
<1>5. jobs' = [jobs EXCEPT ![j] = x]
  BY <1>1, <1>2 DEF FinishCheck, TypeOK, JobState
<1>6. x.runs = jobs[j].runs /\ x.deliveries = jobs[j].deliveries /\ x.phase = p
  BY <1>2 DEF JobState
<1>7. p = "acked" => o = "acked" \/ j.mon \in SideEffecting \/ published
  BY DEF Acks
<1>8. published => j.mon \in Unroutable \/ <<j, "monitor">> \in rows'
  BY DEF FinishCheck, ResultRow
<1>9. j.mon \in SideEffecting \cup Unroutable => j.mon \notin Answered
  BY DEF Answered
<1> QED BY <1>1, <1>4, <1>5, <1>6, <1>7, <1>8, <1>9

LEMMA RequeuedJob ==
    ASSUME TypeOK, NEW j \in DOMAIN jobs, AckWaitExpires(j)
    PROVE  \E x \in JobState : /\ jobs' = [jobs EXCEPT ![j] = x] /\ x.runs = jobs[j].runs
                               /\ x.deliveries = jobs[j].deliveries
                               /\ x.phase = "queued"
<1> DEFINE x == [jobs[j] EXCEPT !.phase = "queued"]
<1>1. "queued" \in Phases /\ jobs[j] \in JobState
  BY JobStateType DEF Phases
<1>2. x \in JobState
  BY <1>1, JobStateType
<1>3. jobs' = [jobs EXCEPT ![j] = x]
  BY <1>1 DEF AckWaitExpires, TypeOK, JobState
<1>4. x.runs = jobs[j].runs /\ x.deliveries = jobs[j].deliveries /\ x.phase = "queued"
  BY <1>1 DEF JobState
<1> QED BY <1>2, <1>3, <1>4

LEMMA WorkingType ==
    ASSUME TypeOK, Working
    PROVE  TypeOK'
<1> USE DEF Working
<1>1. JobsOK'
  <2>1. ASSUME NEW j \in DOMAIN jobs, NEW acked \in BOOLEAN, SkipRedelivered(j, acked)
        PROVE  JobsOK'
    BY <2>1, SkipJob, SettledType, ZenonT(60) DEF SkipRedelivered, TypeOK
  <2>2. ASSUME NEW j \in DOMAIN jobs, NEW published \in BOOLEAN, NEW acked \in BOOLEAN,
               publishExpiredJob(j, published, acked)
        PROVE  JobsOK'
    <3>1. rows' \subseteq (DOMAIN jobs) \X {"monitor", "platform"} /\ working' = working
      BY <2>2 DEF publishExpiredJob, TypeOK
    <3>2. PICK x \in JobState : jobs' = [jobs EXCEPT ![j] = x]
      BY <2>2, ExpiredJob
    <3> QED BY <3>1, <3>2, SettledType DEF TypeOK
  <2>3. ASSUME NEW w \in Workers, NEW j \in DOMAIN jobs, StartCheck(w, j)
        PROVE  JobsOK'
    <3>1. working' \in [Workers -> DOMAIN jobs \cup {Idle}] /\ rows' = rows
      BY <2>3 DEF StartCheck, TypeOK
    <3> QED BY <2>3, <3>1, StartedJob, SettledType DEF TypeOK
  <2>4. ASSUME NEW w \in Workers, NEW published \in BOOLEAN, NEW acked \in BOOLEAN,
               FinishCheck(w, published, acked)
        PROVE  JobsOK'
    <3>1. working[w] \in DOMAIN jobs
      BY <2>4, FinishedJob
    <3>2. /\ working' \in [Workers -> DOMAIN jobs \cup {Idle}]
          /\ rows' \subseteq (DOMAIN jobs) \X {"monitor", "platform"}
      BY <2>4, <3>1 DEF FinishCheck, ResultRow, TypeOK
    <3> QED BY <2>4, <3>1, <3>2, FinishedJob, SettledType
  <2>5. ASSUME NEW w \in Workers, WorkerDies(w)
        PROVE  JobsOK'
    BY <2>5 DEF WorkerDies, JobsOK, TypeOK
  <2>6. ASSUME NEW j \in DOMAIN jobs, AckWaitExpires(j)
        PROVE  JobsOK'
    <3>1. UNCHANGED <<working, rows>>
      BY <2>6 DEF AckWaitExpires
    <3>2. PICK x \in JobState : jobs' = [jobs EXCEPT ![j] = x]
      BY <2>6, RequeuedJob
    <3> QED BY <3>1, <3>2, SettledType DEF TypeOK
  <2>7. ASSUME NEW j \in DOMAIN jobs, NEW acked \in BOOLEAN, RefuseJob(j, acked)
        PROVE  JobsOK'
    <3>1. UNCHANGED <<working, rows>>
      BY <2>7, RefusedJob
    <3>2. PICK x \in JobState : jobs' = [jobs EXCEPT ![j] = x]
      BY <2>7, RefusedJob
    <3> QED BY <3>1, <3>2, SettledType DEF TypeOK
  <2> QED BY <2>1, <2>2, <2>3, <2>4, <2>5, <2>6, <2>7
<1>2. UNCHANGED <<now, nextRun, enabled, batch, faults, edits>>
  BY WorkingFrame
<1> QED BY <1>1, <1>2 DEF TypeOK, JobsOK, Moved

LEMMA TypeStep ==
    ASSUME TypeOK, [Next]_vars
    PROVE  TypeOK'
<1>1. ASSUME NEW s \in Schedulers, fetchDueMonitors(s) PROVE TypeOK'
  BY <1>1, FetchType
<1>2. ASSUME NEW s \in Schedulers, Dispatch(s) PROVE TypeOK'
  <2>1. batch[s].todo \subseteq Monitors
    BY DEF TypeOK, Batch
  <2> QED BY <1>2, <2>1, PublishType DEF Dispatch
<1>3. ASSUME NEW s \in Schedulers, Commit(s) \/ CommitAborted(s) \/ SchedulerFails(s) PROVE TypeOK'
  BY <1>3, EndType
<1>4. ASSUME Api PROVE TypeOK'
  BY <1>4, RunNowType, EditType DEF Api
<1>5. ASSUME Tick PROVE TypeOK'
  BY <1>5 DEF Tick, TypeOK, Moved
<1>6. ASSUME UNCHANGED vars PROVE TypeOK'
  BY <1>6 DEF vars, TypeOK, Moved
<1> QED BY <1>1, <1>2, <1>3, <1>4, <1>5, <1>6, WorkingType DEF Next, Scheduling

LEMMA TypeInit == Init => TypeOK
<1> SUFFICES ASSUME Init PROVE TypeOK
  OBVIOUS
<1>1. NoBatch \in Batch /\ \A m \in Monitors : NoBatch.moved[m] = Null
  BY DEF NoBatch, Batch
<1>2. NoBatch.held = {} /\ NoBatch.todo = {}
  BY DEF NoBatch
<1>3. BatchesOK
  <2> HIDE DEF NoBatch
  <2> QED BY <1>1, <1>2 DEF Init, BatchesOK, Moved
<1>4. JobsOK
  BY DEF Init, JobsOK
<1>5. nextRun \in [Monitors -> Nat \cup {Null}] /\ enabled \in SUBSET Monitors
  BY DispatchAssumption DEF Init
<1> QED BY <1>3, <1>4, <1>5 DEF Init, TypeOK, BatchesOK, JobsOK

\* The type of every variable; no monitor is in two open transactions, and no
\* transaction has moved a monitor it has still to publish.
THEOREM DispatchTypeCorrect == Spec => []TypeOK
<1>1. Init => TypeOK
  BY TypeInit
<1>2. TypeOK /\ [Next]_vars => TypeOK'
  BY TypeStep
<1> QED BY <1>1, <1>2, PTL DEF Spec

-----------------------------------------------------------------------------
(* The life of a job.                                                      *)

\* What a worker may do to job j: count a delivery, run the check (a call only on
\* the first delivery), acknowledge it.
JobMove(j, x) ==
    /\ jobs' = [jobs EXCEPT ![j] = x]
    /\ x.deliveries >= jobs[j].deliveries
    /\ \/ x.runs = jobs[j].runs
       \/ /\ x.runs = jobs[j].runs + 1 /\ x.deliveries > 0
          /\ j.mon \in SideEffecting => jobs[j].deliveries = 0
    /\ x.phase = "acked" => \/ jobs[j].phase = "acked"
                            \/ j.mon \notin Answered
                            \/ \E source \in {"monitor", "platform"} : <<j, source>> \in rows'

LEMMA WorkerMove ==
    ASSUME TypeOK, Working
    PROVE  /\ rows \subseteq rows'
           /\ UNCHANGED jobs \/ \E j \in DOMAIN jobs : \E x \in JobState : JobMove(j, x)
<1> USE DEF Working
<1>0. \A j \in DOMAIN jobs : jobs[j].deliveries \in Nat /\ jobs[j].runs \in Nat
  BY JobStateType, DispatchAssumption DEF JobState
<1>1. ASSUME NEW j \in DOMAIN jobs, NEW acked \in BOOLEAN, SkipRedelivered(j, acked)
      PROVE  rows \subseteq rows' /\ \E x \in JobState : JobMove(j, x)
  <2>1. j.mon \notin Answered /\ rows' = rows
    BY <1>1 DEF SkipRedelivered, redeliveredSideEffect, Answered
  <2>2. PICK x \in JobState : /\ jobs' = [jobs EXCEPT ![j] = x] /\ x.runs = jobs[j].runs
                              /\ x.deliveries = jobs[j].deliveries + 1
    BY <1>1, SkipJob
  <2>9. x.deliveries >= jobs[j].deliveries /\ (x.deliveries = jobs[j].deliveries + 1 => x.deliveries > 0)
    <3>1. jobs[j].deliveries \in Nat
      BY <1>0
    <3> QED BY <2>2, <3>1
  <2> QED BY <2>1, <2>2, <2>9 DEF JobMove
<1>2. ASSUME NEW j \in DOMAIN jobs, NEW published \in BOOLEAN, NEW acked \in BOOLEAN,
             publishExpiredJob(j, published, acked)
      PROVE  rows \subseteq rows' /\ \E x \in JobState : JobMove(j, x)
  <2>1. rows \subseteq rows'
    BY <1>2 DEF publishExpiredJob
  <2>2. PICK x \in JobState : /\ jobs' = [jobs EXCEPT ![j] = x] /\ x.runs = jobs[j].runs
                              /\ x.deliveries = jobs[j].deliveries + 1
                              /\ x.phase = "acked" => <<j, "platform">> \in rows'
    BY <1>2, ExpiredJob
  <2>9. x.deliveries >= jobs[j].deliveries /\ (x.deliveries = jobs[j].deliveries + 1 => x.deliveries > 0)
    <3>1. jobs[j].deliveries \in Nat
      BY <1>0
    <3> QED BY <2>2, <3>1
  <2> QED BY <2>1, <2>2, <2>9 DEF JobMove
<1>3. ASSUME NEW w \in Workers, NEW j \in DOMAIN jobs, StartCheck(w, j)
      PROVE  rows \subseteq rows' /\ \E x \in JobState : JobMove(j, x)
  <2>1. rows' = rows /\ ~redeliveredSideEffect(j)
    BY <1>3 DEF StartCheck
  <2>2. PICK x \in JobState : /\ jobs' = [jobs EXCEPT ![j] = x] /\ x.runs = jobs[j].runs + 1
                              /\ x.deliveries = jobs[j].deliveries + 1
                              /\ x.phase = "unacked"
    BY <1>3, StartedJob
  <2>3. j.mon \in SideEffecting => jobs[j].deliveries = 0
    BY <1>0, <2>1 DEF redeliveredSideEffect, Redelivery
  <2>9. x.deliveries >= jobs[j].deliveries /\ (x.deliveries = jobs[j].deliveries + 1 => x.deliveries > 0)
    <3>1. jobs[j].deliveries \in Nat
      BY <1>0
    <3> QED BY <2>2, <3>1
  <2> QED BY <2>1, <2>2, <2>3, <2>9 DEF JobMove
<1>4. ASSUME NEW w \in Workers, NEW published \in BOOLEAN, NEW acked \in BOOLEAN,
             FinishCheck(w, published, acked)
      PROVE  rows \subseteq rows' /\ \E j \in DOMAIN jobs : \E x \in JobState : JobMove(j, x)
  <2> DEFINE j == working[w]
  <2>1. rows \subseteq rows'
    BY <1>4 DEF FinishCheck
  <2>2. j \in DOMAIN jobs
    BY <1>4, FinishedJob
  <2>3. PICK x \in JobState : /\ jobs' = [jobs EXCEPT ![j] = x] /\ x.runs = jobs[j].runs
                              /\ x.deliveries = jobs[j].deliveries
                              /\ x.phase = "acked" => \/ jobs[j].phase = "acked"
                                                      \/ j.mon \notin Answered
                                                      \/ <<j, "monitor">> \in rows'
    BY <1>4, FinishedJob
  <2>4. JobMove(j, x)
    <3> HIDE DEF j
    <3> QED BY <1>0, <2>2, <2>3 DEF JobMove
  <2> QED BY <2>1, <2>2, <2>4
<1>5. ASSUME NEW w \in Workers, WorkerDies(w)
      PROVE  UNCHANGED <<jobs, rows>>
  BY <1>5 DEF WorkerDies
<1>6. ASSUME NEW j \in DOMAIN jobs, AckWaitExpires(j)
      PROVE  rows \subseteq rows' /\ \E x \in JobState : JobMove(j, x)
  <2>1. rows' = rows
    BY <1>6 DEF AckWaitExpires
  <2>2. PICK x \in JobState : /\ jobs' = [jobs EXCEPT ![j] = x] /\ x.runs = jobs[j].runs
                              /\ x.deliveries = jobs[j].deliveries /\ x.phase = "queued"
    BY <1>6, RequeuedJob
  <2>9. x.deliveries >= jobs[j].deliveries /\ (x.deliveries = jobs[j].deliveries + 1 => x.deliveries > 0)
    <3>1. jobs[j].deliveries \in Nat
      BY <1>0
    <3> QED BY <2>2, <3>1
  <2> QED BY <2>1, <2>2, <2>9 DEF JobMove
<1>7. ASSUME NEW j \in DOMAIN jobs, NEW acked \in BOOLEAN, RefuseJob(j, acked)
      PROVE  rows \subseteq rows' /\ \E x \in JobState : JobMove(j, x)
  <2>1. j.mon \notin Answered /\ rows' = rows
    BY <1>7, RefusedJob DEF Answered
  <2>2. PICK x \in JobState : /\ jobs' = [jobs EXCEPT ![j] = x] /\ x.runs = jobs[j].runs
                              /\ x.deliveries = jobs[j].deliveries + 1
    BY <1>7, RefusedJob
  <2>3. x.deliveries >= jobs[j].deliveries
    <3>1. jobs[j].deliveries \in Nat
      BY <1>0
    <3> QED BY <2>2, <3>1
  <2> QED BY <2>1, <2>2, <2>3 DEF JobMove
<1> QED BY <1>1, <1>2, <1>3, <1>4, <1>5, <1>6, <1>7

\* New jobs: stored now, none for a slot the stream stored a job for within its
\* window, and no two for one slot.
Fresh(new) ==
    /\ \A j \in new : /\ j.at = now
                      /\ \A i \in DOMAIN jobs : SameSlot(i, j) => now - i.at > Window
    /\ \A i, j \in new : SameSlot(i, j) => i = j

LEMMA PublishedFresh ==
    ASSUME TypeOK, NEW m \in Monitors, NEW stored \in SUBSET Targets[m]
    PROVE  Fresh(Published(m, stored))
<1>1. now \in Int /\ Window \in Int /\ \A i \in DOMAIN jobs : i.at \in Int
  BY DispatchAssumption DEF TypeOK, Job
<1>2. ASSUME NEW j \in Published(m, stored), NEW i \in DOMAIN jobs, SameSlot(i, j)
      PROVE  now - i.at > Window
  <2>1. ~Duplicate(m, j.loc) /\ j.mon = m /\ j.slot = nextRun[m]
    BY DEF Published
  <2>2. i.mon = m /\ i.loc = j.loc /\ i.slot = nextRun[m]
    BY <1>2, <2>1 DEF SameSlot
  <2>3. ~(now - i.at <= Window)
    BY <2>1, <2>2 DEF Duplicate
  <2> QED BY <1>1, <2>3
<1>3. \A j \in Published(m, stored) : j.at = now
  BY DEF Published
<1>4. \A i, j \in Published(m, stored) : SameSlot(i, j) => i = j
  BY DEF Published, SameSlot
<1> QED BY <1>2, <1>3, <1>4 DEF Fresh

LEMMA OtherMove ==
    ASSUME TypeOK, Scheduling \/ Api \/ Tick \/ UNCHANGED vars
    PROVE  /\ UNCHANGED rows /\ now' >= now
           /\ \/ UNCHANGED jobs
              \/ UNCHANGED now /\ \E new \in SUBSET Job : jobs' = Stored(new) /\ Fresh(new)
<1>0. now \in Int
  BY DEF TypeOK
<1>1. ASSUME NEW s \in Schedulers, Dispatch(s)
      PROVE  /\ UNCHANGED <<rows, now>>
             /\ \E new \in SUBSET Job : jobs' = Stored(new) /\ Fresh(new)
  <2>1. PICK m \in batch[s].todo, updated \in BOOLEAN : \E stored \in SUBSET Targets[m],
             delay \in nextCheckDelay(m) : \E acked \in SUBSET stored :
                 publishMonitorJobs(s, m, stored, acked, updated, delay)
    BY <1>1 DEF Dispatch
  <2>2. PICK stored \in SUBSET Targets[m], delay \in nextCheckDelay(m) :
             \E acked \in SUBSET stored : publishMonitorJobs(s, m, stored, acked, updated, delay)
    BY <2>1
  <2>3. m \in Monitors
    BY DEF TypeOK, Batch
  <2>4. jobs' = Stored(Published(m, stored)) /\ UNCHANGED <<rows, now>>
    BY <2>2 DEF publishMonitorJobs, Published
  <2> QED BY <2>3, <2>4, PublishedType, PublishedFresh
<1>2. ASSUME NEW s \in Schedulers,
             fetchDueMonitors(s) \/ Commit(s) \/ CommitAborted(s) \/ SchedulerFails(s)
      PROVE  UNCHANGED <<rows, now, jobs>>
  BY <1>2 DEF fetchDueMonitors, Commit, CommitAborted, SchedulerFails
<1>3. ASSUME NEW m \in Monitors, NEW stored \in SUBSET Targets[m], RunMonitorNow(m, stored)
      PROVE  /\ UNCHANGED <<rows, now>>
             /\ \E new \in SUBSET Job : jobs' = Stored(new) /\ Fresh(new)
  <2> DEFINE new == {[mon |-> m, loc |-> l, slot |-> Manual, at |-> now] : l \in stored}
  <2>1. new \in SUBSET Job
    BY NewJobs
  <2>2. \A j \in new : j.at = now /\ j.slot = Manual
    OBVIOUS
  <2>3. jobs' = Stored(new) /\ UNCHANGED <<rows, now>>
    BY <1>3 DEF RunMonitorNow
  <2>4. Fresh(new)
    <3> HIDE DEF new
    <3> QED BY <2>2 DEF Fresh, SameSlot
  <2> QED BY <2>1, <2>3, <2>4
<1>4. ASSUME NEW m \in Monitors, SetEnabled(m) \/ UpdateInterval(m)
      PROVE  UNCHANGED <<rows, now, jobs>>
  BY <1>4 DEF SetEnabled, UpdateInterval
<1>5. ASSUME Tick \/ UNCHANGED vars
      PROVE  UNCHANGED <<rows, jobs>> /\ now' >= now
  BY <1>0, <1>5 DEF Tick, vars
<1>6. now >= now
  BY <1>0
<1> QED BY <1>1, <1>2, <1>3, <1>4, <1>5, <1>6 DEF Scheduling, Api

-----------------------------------------------------------------------------
(* At most one call for a slot.                                            *)

\* A call runs on the first delivery only; jobs of one slot lie further apart
\* than the de-duplication window.
CallInv ==
    /\ \A j \in DOMAIN jobs : /\ j.at <= now
                              /\ jobs[j].runs > 0 => jobs[j].deliveries > 0
                              /\ j.mon \in SideEffecting => jobs[j].runs <= 1
    /\ \A i, j \in DOMAIN jobs : i # j /\ SameSlot(i, j)
                                   => i.at - j.at > Window \/ j.at - i.at > Window

\* One job moves.
LEMMA CallMove ==
    ASSUME TypeOK, CallInv, NEW j \in DOMAIN jobs, NEW x \in JobState, JobMove(j, x), UNCHANGED now
    PROVE  CallInv'
<1>0. /\ jobs[j].runs \in Nat /\ jobs[j].deliveries \in Nat
      /\ x.runs \in Nat /\ x.deliveries \in Nat
  BY JobStateType, DispatchAssumption DEF JobState
<1>1. /\ DOMAIN jobs' = DOMAIN jobs /\ jobs'[j] = x
      /\ \A i \in DOMAIN jobs : i # j => jobs'[i] = jobs[i]
  BY JobsType DEF JobMove
<1>2. /\ jobs[j].runs > 0 => jobs[j].deliveries > 0
      /\ j.mon \in SideEffecting => jobs[j].runs <= 1
  BY DEF CallInv
<1>3. x.runs > 0 => x.deliveries > 0
  BY <1>0, <1>2 DEF JobMove
<1>4. j.mon \in SideEffecting => x.runs <= 1
  BY <1>0, <1>2 DEF JobMove
<1> QED BY <1>1, <1>3, <1>4 DEF CallInv, SameSlot

\* Jobs are stored.
LEMMA CallStored ==
    ASSUME TypeOK, CallInv, NEW new \in SUBSET Job, jobs' = Stored(new), Fresh(new), UNCHANGED now
    PROVE  CallInv'
<1>0. now \in Int /\ Window \in Nat /\ \A i \in DOMAIN jobs : i.at \in Int
  BY DispatchAssumption DEF TypeOK, Job
<1>1. /\ DOMAIN jobs' = DOMAIN jobs \cup new
      /\ \A i \in DOMAIN jobs : jobs'[i] = jobs[i]
      /\ \A j \in new \ DOMAIN jobs :
            jobs'[j] = [deliveries |-> 0, phase |-> "queued", runs |-> 0]
  BY StoredJobs
<1>2. \A j \in new : j.at = now
  BY DEF Fresh
<1>3. ASSUME NEW j \in DOMAIN jobs'
      PROVE  /\ j.at <= now
             /\ jobs'[j].runs > 0 => jobs'[j].deliveries > 0
             /\ j.mon \in SideEffecting => jobs'[j].runs <= 1
  <2>1. CASE j \in DOMAIN jobs
    BY <1>1, <2>1 DEF CallInv
  <2>2. CASE j \in new \ DOMAIN jobs
    <3>1. jobs'[j].runs = 0
      BY <1>1, <2>2
    <3> QED BY <1>0, <1>2, <2>2, <3>1
  <2> QED BY <1>1, <2>1, <2>2
<1>4. ASSUME NEW i \in DOMAIN jobs', NEW j \in DOMAIN jobs', i # j, SameSlot(i, j)
      PROVE  i.at - j.at > Window \/ j.at - i.at > Window
  <2>1. CASE i \in DOMAIN jobs /\ j \in DOMAIN jobs
    BY <1>4, <2>1 DEF CallInv
  <2>2. CASE i \in DOMAIN jobs /\ j \in new
    <3>1. now - i.at > Window /\ j.at = now
      BY <1>4, <2>2 DEF Fresh
    <3> QED BY <3>1
  <2>3. CASE i \in new /\ j \in DOMAIN jobs
    <3>1. SameSlot(j, i)
      BY <1>4 DEF SameSlot
    <3>2. now - j.at > Window /\ i.at = now
      BY <2>3, <3>1 DEF Fresh
    <3> QED BY <3>2
  <2>4. CASE i \in new /\ j \in new
    BY <1>4, <2>4 DEF Fresh
  <2> QED BY <1>1, <2>1, <2>2, <2>3, <2>4
<1> QED BY <1>3, <1>4 DEF CallInv, SameSlot

LEMMA CallStep ==
    ASSUME TypeOK, CallInv, [Next]_vars
    PROVE  CallInv'
<1>1. CASE Working
  <2>1. UNCHANGED now
    BY <1>1, WorkingFrame
  <2>2. CASE UNCHANGED jobs
    BY <2>1, <2>2 DEF CallInv, SameSlot
  <2> QED BY <1>1, <2>1, <2>2, WorkerMove, CallMove
<1>2. CASE Scheduling \/ Api \/ Tick \/ UNCHANGED vars
  <2>1. CASE UNCHANGED jobs
    <3>1. now' >= now /\ now' \in Nat
      BY <1>2, OtherMove, TypeStep DEF TypeOK
    <3>2. \A j \in DOMAIN jobs : j.at \in Nat /\ now \in Nat
      BY DEF TypeOK, Job
    <3>3. \A j \in DOMAIN jobs : j.at <= now'
      BY <3>1, <3>2 DEF CallInv
    <3> QED BY <2>1, <3>3 DEF CallInv, SameSlot
  <2> QED BY <1>2, <2>1, OtherMove, CallStored
<1> QED BY <1>1, <1>2 DEF Next

\* A check with a side effect runs at most once per job, whatever is redelivered;
\* two jobs of one slot that both ran were stored further apart than the window.
THEOREM CallsAreNotRepeated == Spec => []OneCallPerSlot
<1>1. Init => CallInv
  BY DEF Init, CallInv
<1>2. TypeOK /\ CallInv /\ [Next]_vars => CallInv'
  BY CallStep
<1>3. CallInv => OneCallPerSlot
  BY DEF CallInv, OneCallPerSlot
<1> QED BY <1>1, <1>2, <1>3, DispatchTypeCorrect, PTL DEF Spec

-----------------------------------------------------------------------------
(* No acknowledged job without a row.                                      *)

LEMMA AckStep ==
    ASSUME TypeOK, AckedHasResult, [Next]_vars
    PROVE  AckedHasResult'
<1>1. CASE Working
  <2>0. rows \subseteq rows'
    BY <1>1, WorkerMove
  <2>1. CASE UNCHANGED jobs
    BY <2>0, <2>1 DEF AckedHasResult
  <2>2. ASSUME NEW j \in DOMAIN jobs, NEW x \in JobState, JobMove(j, x)
        PROVE  AckedHasResult'
    <3>1. /\ DOMAIN jobs' = DOMAIN jobs /\ jobs'[j] = x
          /\ \A i \in DOMAIN jobs : i # j => jobs'[i] = jobs[i]
      BY <2>2, JobsType DEF JobMove
    <3>2. x.phase = "acked" /\ j.mon \in Answered
              => \E source \in {"monitor", "platform"} : <<j, source>> \in rows'
      BY <2>0, <2>2 DEF JobMove, AckedHasResult
    <3> QED BY <2>0, <3>1, <3>2 DEF AckedHasResult
  <2> QED BY <1>1, <2>1, <2>2, WorkerMove
<1>2. CASE Scheduling \/ Api \/ Tick \/ UNCHANGED vars
  <2>0. UNCHANGED rows
    BY <1>2, OtherMove
  <2>1. CASE UNCHANGED jobs
    BY <2>0, <2>1 DEF AckedHasResult
  <2>2. ASSUME NEW new \in SUBSET Job, jobs' = Stored(new)
        PROVE  AckedHasResult'
    <3>1. /\ DOMAIN jobs' = DOMAIN jobs \cup new
          /\ \A i \in DOMAIN jobs : jobs'[i] = jobs[i]
          /\ \A j \in new \ DOMAIN jobs :
                jobs'[j] = [deliveries |-> 0, phase |-> "queued", runs |-> 0]
      BY <2>2, StoredJobs
    <3>2. \A j \in new \ DOMAIN jobs : jobs'[j].phase = "queued"
      BY <3>1
    <3> QED BY <2>0, <3>1, <3>2 DEF AckedHasResult
  <2> QED BY <1>2, <2>1, <2>2, OtherMove
<1> QED BY <1>1, <1>2 DEF Next

\* A job that the worker neither refuses nor answers in silence (Answered) leaves
\* the queue only after a row of it was published, whichever acks, workers and
\* deliveries are lost.
THEOREM AckedJobsHaveRows == Spec => []AckedHasResult
<1>1. Init => AckedHasResult
  BY DEF Init, AckedHasResult
<1>2. TypeOK /\ AckedHasResult /\ [Next]_vars => AckedHasResult'
  BY AckStep
<1> QED BY <1>1, <1>2, DispatchTypeCorrect, PTL DEF Spec

-----------------------------------------------------------------------------
(* No slot is skipped.                                                     *)

HasJob(m) == \E j \in DOMAIN jobs : j.mon = m /\ j.slot = nextRun[m]

\* A monitor that an open transaction moves to its next slot has a job of the
\* current one in the stream.
SlotInv == \A s \in Schedulers : \A m \in Moved(s) : HasJob(m)

\* Stored jobs stay stored.
LEMMA JobsStay ==
    ASSUME TypeOK, [Next]_vars
    PROVE  DOMAIN jobs \subseteq DOMAIN jobs'
<1>1. CASE Working
  <2>1. ASSUME NEW j \in DOMAIN jobs, NEW x \in JobState, JobMove(j, x)
        PROVE  DOMAIN jobs' = DOMAIN jobs
    BY <2>1, JobsType DEF JobMove
  <2> QED BY <1>1, <2>1, WorkerMove
<1>2. CASE Scheduling \/ Api \/ Tick \/ UNCHANGED vars
  BY <1>2, OtherMove, StoredJobs
<1> QED BY <1>1, <1>2 DEF Next

\* A monitor's slot and its job are as before.
LEMMA HasJobStays ==
    ASSUME TypeOK, [Next]_vars, NEW m \in Monitors, HasJob(m), nextRun'[m] = nextRun[m]
    PROVE  HasJob(m)'
BY JobsStay DEF HasJob

\* The step that moves a monitor inside a transaction has stored its job, or
\* found it stored.
LEMMA PublishedHasJob ==
    ASSUME TypeOK, NEW s \in Schedulers, NEW m \in Monitors, NEW updated \in BOOLEAN,
           NEW stored \in SUBSET Targets[m], NEW acked \in SUBSET stored,
           NEW delay \in nextCheckDelay(m),
           publishMonitorJobs(s, m, stored, acked, updated, delay), Reschedules(acked)
    PROVE  HasJob(m)'
<1>1. PICK l \in stored : TRUE
  BY DEF Reschedules
<1>2. jobs' = Stored(Published(m, stored)) /\ UNCHANGED nextRun
  BY DEF publishMonitorJobs, Published
<1>3. DOMAIN jobs' = DOMAIN jobs \cup Published(m, stored)
  BY <1>2, PublishedType, StoredJobs
<1>4. CASE Duplicate(m, l)
  BY <1>2, <1>3, <1>4 DEF Duplicate, HasJob
<1>5. CASE ~Duplicate(m, l)
  <2> DEFINE j == [mon |-> m, loc |-> l, slot |-> nextRun[m], at |-> now]
  <2>1. j \in Published(m, stored)
    BY <1>1, <1>5 DEF Published
  <2>2. j \in DOMAIN jobs' /\ j.mon = m /\ j.slot = nextRun'[m]
    BY <1>2, <1>3, <2>1
  <2> QED BY <2>2 DEF HasJob
<1> QED BY <1>4, <1>5

\* What publishing one monitor moves in the transaction.
LEMMA PublishedMoves ==
    ASSUME TypeOK, NEW s \in Schedulers, NEW m \in Monitors, NEW updated \in BOOLEAN,
           NEW stored \in SUBSET Targets[m], NEW acked \in SUBSET stored,
           NEW delay \in nextCheckDelay(m),
           publishMonitorJobs(s, m, stored, acked, updated, delay)
    PROVE  /\ \A u \in Schedulers : u # s => Moved(u)' = Moved(u)
           /\ Moved(s)' \subseteq Moved(s) \cup (IF Reschedules(acked) THEN {m} ELSE {})
<1> DEFINE b == batch[s]
           t == IF Reschedules(acked) THEN [b.moved EXCEPT ![m] = now + delay] ELSE b.moved
           c == [b EXCEPT !.todo = b.todo \ {m}, !.moved = t, !.ok = b.ok /\ Usable(updated, acked)]
<1>1. batch' = [batch EXCEPT ![s] = c]
  BY DEF publishMonitorJobs
<1>2. b \in Batch /\ batch \in [Schedulers -> Batch]
  BY DEF TypeOK
<1>3. c.moved = t
  BY <1>2 DEF Batch
<1>4. \A k \in Monitors : k # m \/ ~Reschedules(acked) => t[k] = b.moved[k]
  BY <1>2 DEF Batch
<1>5. batch'[s] = c /\ \A u \in Schedulers : u # s => batch'[u] = batch[u]
  <2> HIDE DEF c
  <2> QED BY <1>1, <1>2
<1>6. batch'[s].moved = t
  BY <1>3, <1>5
<1> HIDE DEF t, c
<1>7. ASSUME NEW k \in Moved(s)', k \notin Moved(s) PROVE k = m /\ Reschedules(acked)
  BY <1>4, <1>6, <1>7 DEF Moved
<1> QED BY <1>5, <1>7 DEF Moved

\* A transaction that ends has moved nothing.
LEMMA EndMoves ==
    ASSUME TypeOK, NEW s \in Schedulers, batch' = [batch EXCEPT ![s] = NoBatch]
    PROVE  \A u \in Schedulers : Moved(u)' = IF u = s THEN {} ELSE Moved(u)
<1>1. \A m \in Monitors : NoBatch.moved[m] = Null
  BY DEF NoBatch
<1>2. \A u \in Schedulers : batch'[u] = IF u = s THEN NoBatch ELSE batch[u]
  BY DEF TypeOK
<1> QED BY <1>1, <1>2 DEF Moved

LEMMA FetchMoves ==
    ASSUME TypeOK, NEW s \in Schedulers, fetchDueMonitors(s)
    PROVE  \A u \in Schedulers : Moved(u)' = Moved(u)
<1>1. PICK B : batch' = [batch EXCEPT ![s] = [@ EXCEPT !.held = B, !.todo = B]]
  BY DEF fetchDueMonitors
<1>2. batch \in [Schedulers -> Batch] /\ batch[s] \in Batch
  BY DEF TypeOK
<1>3. [batch[s] EXCEPT !.held = B, !.todo = B].moved = batch[s].moved
  BY <1>2 DEF Batch
<1>4. \A u \in Schedulers : batch'[u].moved = batch[u].moved
  BY <1>1, <1>2, <1>3
<1> QED BY <1>4 DEF Moved

\* A moved monitor is held by that transaction alone.
LEMMA MovedIsLocked ==
    ASSUME TypeOK
    PROVE  /\ \A s \in Schedulers : Moved(s) \subseteq Locked
           /\ \A s, u \in Schedulers : s # u => Moved(s) \cap Moved(u) = {}
<1>1. \A s \in Schedulers : Moved(s) \subseteq batch[s].held
  BY DEF TypeOK
<1>2. \A s, u \in Schedulers : s # u => batch[s].held \cap batch[u].held = {}
  BY DEF TypeOK
<1> QED BY <1>1, <1>2 DEF Locked

\* The commit changes the slots of the monitors the transaction moved, an edit of
\* the interval that of a monitor no transaction holds; nothing else does.
LEMMA SlotMoves ==
    ASSUME TypeOK, [Next]_vars
    PROVE  \/ UNCHANGED nextRun
           \/ \E s \in Schedulers : /\ Commit(s)
                                    /\ \A m \in Monitors \ Moved(s) : nextRun'[m] = nextRun[m]
           \/ edits' # edits /\ UNCHANGED batch /\ \A m \in Locked : nextRun'[m] = nextRun[m]
<1>1. CASE Working
  BY <1>1, WorkingFrame
<1>2. ASSUME NEW s \in Schedulers, fetchDueMonitors(s) \/ Dispatch(s) \/ CommitAborted(s) \/ SchedulerFails(s)
      PROVE  UNCHANGED nextRun
  BY <1>2 DEF fetchDueMonitors, Dispatch, publishMonitorJobs, CommitAborted, SchedulerFails
<1>3. ASSUME NEW s \in Schedulers, Commit(s)
      PROVE  \A m \in Monitors \ Moved(s) : nextRun'[m] = nextRun[m]
  BY <1>3 DEF Commit
<1>4. ASSUME NEW m \in Monitors, UpdateInterval(m)
      PROVE  edits' # edits /\ UNCHANGED batch /\ \A k \in Locked : nextRun'[k] = nextRun[k]
  <2>1. edits' = edits + 1 /\ edits \in Int
    BY <1>4 DEF UpdateInterval, Edits, TypeOK
  <2>2. Locked \subseteq Monitors
    BY DEF Locked, TypeOK, Batch
  <2>3. \A k \in Monitors \ {m} : nextRun'[k] = nextRun[k]
    BY <1>4 DEF UpdateInterval, TypeOK
  <2> QED BY <1>4, <2>1, <2>2, <2>3 DEF UpdateInterval
<1>5. ASSUME NEW m \in Monitors, SetEnabled(m) \/ \E stored \in SUBSET Targets[m] : RunMonitorNow(m, stored)
      PROVE  UNCHANGED nextRun
  BY <1>5 DEF SetEnabled, RunMonitorNow
<1>6. CASE Tick \/ UNCHANGED vars
  BY <1>6 DEF Tick, vars
<1> QED BY <1>1, <1>2, <1>3, <1>4, <1>5, <1>6 DEF Next, Scheduling, Api

LEMMA SlotStep ==
    ASSUME TypeOK, SlotInv, [Next]_vars
    PROVE  SlotInv'
<1>1. ASSUME NEW s \in Schedulers, NEW m \in Moved(s)
      PROVE  m \in Monitors /\ m \in Locked /\ HasJob(m)
  BY <1>1, MovedIsLocked DEF SlotInv, Moved
<1>2. ASSUME NEW s \in Schedulers, Dispatch(s)
      PROVE  SlotInv'
  <2>1. PICK m \in batch[s].todo, updated \in BOOLEAN : \E stored \in SUBSET Targets[m],
             delay \in nextCheckDelay(m) : \E acked \in SUBSET stored :
                 publishMonitorJobs(s, m, stored, acked, updated, delay)
    BY <1>2 DEF Dispatch
  <2>2. PICK stored \in SUBSET Targets[m], delay \in nextCheckDelay(m) :
             \E acked \in SUBSET stored : publishMonitorJobs(s, m, stored, acked, updated, delay)
    BY <2>1
  <2>3. PICK acked \in SUBSET stored : publishMonitorJobs(s, m, stored, acked, updated, delay)
    BY <2>2
  <2>4. m \in Monitors
    BY DEF TypeOK, Batch
  <2>5. UNCHANGED nextRun
    BY <2>3 DEF publishMonitorJobs
  <2>6. ASSUME NEW u \in Schedulers, NEW k \in Moved(u)'
        PROVE  HasJob(k)'
    <3>1. CASE k \in Moved(u)
      BY <1>1, <2>5, <3>1, HasJobStays
    <3>2. CASE k \notin Moved(u)
      <4>1. k = m /\ Reschedules(acked)
        BY <2>3, <2>4, <2>6, <3>2, PublishedMoves
      <4>2. HasJob(m)'
        BY <2>3, <2>4, <4>1, PublishedHasJob
      <4> QED BY <4>1, <4>2
    <3> QED BY <3>1, <3>2
  <2> QED BY <2>6 DEF SlotInv
<1>3. ASSUME NEW s \in Schedulers, Commit(s) \/ CommitAborted(s) \/ SchedulerFails(s)
      PROVE  SlotInv'
  <2>1. batch' = [batch EXCEPT ![s] = NoBatch]
    BY <1>3 DEF Commit, CommitAborted, SchedulerFails
  <2>2. \A m \in Monitors \ Moved(s) : nextRun'[m] = nextRun[m]
    BY <1>3 DEF Commit, CommitAborted, SchedulerFails
  <2>3. ASSUME NEW u \in Schedulers, NEW k \in Moved(u)'
        PROVE  HasJob(k)'
    <3>1. u # s /\ k \in Moved(u)
      BY <2>1, <2>3, EndMoves
    <3>2. k \notin Moved(s)
      BY <3>1, MovedIsLocked
    <3> QED BY <1>1, <2>2, <3>1, <3>2, HasJobStays
  <2> QED BY <2>3 DEF SlotInv
<1>4. ASSUME NEW s \in Schedulers, fetchDueMonitors(s)
      PROVE  SlotInv'
  <2>1. UNCHANGED nextRun
    BY <1>4 DEF fetchDueMonitors
  <2> QED BY <1>1, <1>4, <2>1, FetchMoves, HasJobStays DEF SlotInv
<1>5. CASE UNCHANGED batch
  <2>1. \A u \in Schedulers : Moved(u)' = Moved(u)
    BY <1>5 DEF Moved
  <2>2. \A s \in Schedulers : ~Commit(s)
    <3>1. ASSUME NEW s \in Schedulers, Commit(s) PROVE FALSE
      <4>1. batch'[s] = NoBatch /\ batch[s] # NoBatch
        BY <3>1 DEF Commit, TypeOK
      <4> QED BY <1>5, <4>1
    <3> QED BY <3>1
  <2>3. \A m \in Locked : nextRun'[m] = nextRun[m]
    BY <2>2, SlotMoves
  <2> QED BY <1>1, <2>1, <2>3, HasJobStays DEF SlotInv
<1>6. ASSUME Working \/ Api \/ Tick \/ UNCHANGED vars PROVE UNCHANGED batch
  BY <1>6, WorkingFrame DEF Api, RunMonitorNow, SetEnabled, UpdateInterval, Tick, vars
<1> QED BY <1>2, <1>3, <1>4, <1>5, <1>6 DEF Next, Scheduling

LEMMA SlotInit == Init => SlotInv
<1>1. \A m \in Monitors : NoBatch.moved[m] = Null
  BY DEF NoBatch
<1> QED BY <1>1 DEF Init, SlotInv, Moved

\* The scheduler leaves a slot only when a job of it is in the stream, whatever
\* publishes, updates and transactions fail.
THEOREM SlotsAreNotSkipped == Spec => NoSlotSkipped
<1>1. TypeOK /\ SlotInv /\ [Next]_vars =>
          [edits' = edits => \A m \in Monitors : nextRun'[m] # nextRun[m] =>
              \E j \in DOMAIN jobs : j.mon = m /\ j.slot = nextRun[m]]_nextRun
  <2> SUFFICES ASSUME TypeOK, SlotInv, [Next]_vars, edits' = edits,
                      NEW m \in Monitors, nextRun'[m] # nextRun[m]
               PROVE  HasJob(m)
    BY DEF HasJob
  <2>1. PICK s \in Schedulers : \A k \in Monitors \ Moved(s) : nextRun'[k] = nextRun[k]
    BY SlotMoves
  <2> QED BY <2>1 DEF SlotInv
<1>2. TypeOK /\ SlotInv /\ [Next]_vars => SlotInv'
  BY SlotStep
<1> QED BY <1>1, <1>2, SlotInit, DispatchTypeCorrect, PTL DEF Spec, NoSlotSkipped

=============================================================================
