------------------------ MODULE OrderLifecycleProofs ------------------------
(***************************************************************************)
(* TypeOK, SomeoneMovesOn, OneStepForward, DeliveredSettles and            *)
(* JobsLeaveClosed of OrderLifecycle, for any number of orders, workers    *)
(* and requests and any attempts and stall counts.                         *)
(***************************************************************************)
EXTENDS OrderLifecycle, TLAPS

\* The entries of nextStatusMap (statusUpdateJob.js).
LEMMA MapFacts ==
    /\ DOMAIN nextStatusMap = {"pending", "processing", "shipped"}
    /\ nextStatusMap["pending"] = "processing"
    /\ nextStatusMap["processing"] = "shipped"
    /\ nextStatusMap["shipped"] = "delivered"
BY DEF nextStatusMap

\* scheduleStatusUpdateJob changes at most one job, from absent to delayed.
LEMMA ScheduleFacts ==
    ASSUME NEW js \in [Orders -> [Targets -> JobStates]], NEW o \in Orders, NEW s
    PROVE  /\ scheduleStatusUpdateJob(js, o, s) \in [Orders -> [Targets -> JobStates]]
           /\ \A p \in Orders, t \in Targets :
                scheduleStatusUpdateJob(js, o, s)[p][t] =
                    IF /\ p = o /\ s \in DOMAIN nextStatusMap /\ t = nextStatusMap[s]
                       /\ js[p][t] = "none"
                    THEN "delayed" ELSE js[p][t]
<1> DEFINE n == nextStatusMap[s]
<1>1. CASE s \in DOMAIN nextStatusMap /\ js[o][n] = "none"
  <2>1. n \in Targets
    BY <1>1, MapFacts DEF Targets
  <2>2. scheduleStatusUpdateJob(js, o, s) = [js EXCEPT ![o][n] = "delayed"]
    BY <1>1 DEF scheduleStatusUpdateJob, AddJob
  <2>3. QED
    BY <1>1, <2>1, <2>2 DEF JobStates
<1>2. CASE ~(s \in DOMAIN nextStatusMap /\ js[o][n] = "none")
  <2>1. scheduleStatusUpdateJob(js, o, s) = js
    BY <1>2 DEF scheduleStatusUpdateJob, AddJob
  <2>2. QED
    BY <1>2, <2>1
<1>3. QED
  BY <1>1, <1>2

-----------------------------------------------------------------------------
\* A worker or handler that is not idle has an order, and a worker a target.
LEMMA BusyFacts ==
    ASSUME TypeOK
    PROVE  /\ \A w \in Workers : worker[w].pc # "idle" => worker[w] \in BusyWorker
           /\ \A h \in Handlers : handler[h].pc # "idle" => handler[h] \in BusyHandler
BY DEF TypeOK, Idle, BusyWorker, BusyHandler

\* The fields of a worker that is not idle.
LEMMA BusyFields ==
    ASSUME TypeOK
    PROVE  \A w \in Workers : worker[w].pc # "idle" =>
                worker[w].o \in Orders /\ worker[w].t \in Targets
BY BusyFacts DEF BusyWorker

\* Every step of the program keeps every variable in its type.
LEMMA TypeStep == TypeOK /\ [Next]_vars => TypeOK'
<1> SUFFICES ASSUME TypeOK, [Next]_vars
             PROVE  TypeOK'
  OBVIOUS
<1>1. ASSUME NEW o \in Orders, Create(o)
      PROVE  TypeOK'
  <2>1. scheduleStatusUpdateJob(job, o, "pending") \in [Orders -> [Targets -> JobStates]]
    BY ScheduleFacts DEF TypeOK
  <2>2. CASE CreateInsert(o)
    BY <2>1, <2>2 DEF TypeOK, CreateInsert, counts
  <2>3. CASE CreateCommit(o)
    BY <2>1, <2>3 DEF TypeOK, CreateCommit, counts
  <2>4. CASE CreateRollback(o)
    BY <2>4 DEF TypeOK, CreateRollback, counts
  <2>5. QED
    BY <1>1, <2>2, <2>3, <2>4 DEF Create
<1>2. ASSUME NEW w \in Workers, NEW o \in Orders, NEW t \in Targets, TakeJob(w, o, t)
      PROVE  TypeOK'
  <2>1. [pc |-> "read", o |-> o, t |-> t] \in BusyWorker
    BY DEF BusyWorker
  <2>2. QED
    BY <1>2, <2>1 DEF TypeOK, TakeJob, counts, JobStates
<1>3. ASSUME NEW w \in Workers, JobStep(w)
      PROVE  TypeOK'
  <2>1. worker[w] \in BusyWorker
    BY <1>3, BusyFacts DEF JobStep, ReadOrder, UpdateOrder, ScheduleNext, CompleteJob
  <2>2. /\ worker[w].o \in Orders /\ worker[w].t \in Targets /\ worker[w].t \in Statuses
        /\ \A pc \in {"update", "schedule", "complete"} : [worker[w] EXCEPT !.pc = pc] \in BusyWorker
    BY <2>1 DEF BusyWorker, Statuses, Targets
  <2>3. CASE ReadOrder(w)
    <3>1. /\ worker' \in [Workers -> {Idle} \cup BusyWorker] /\ lapsed' \subseteq Orders
          /\ UNCHANGED <<row, status, job, counts, handler, touched>>
      BY <2>2, <2>3 DEF TypeOK, ReadOrder
    <3>2. QED
      BY <3>1 DEF TypeOK, counts
  <2>4. CASE UpdateOrder(w)
    BY <2>2, <2>4 DEF TypeOK, UpdateOrder, counts
  <2>5. CASE ScheduleNext(w)
    <3>1. job' \in [Orders -> [Targets -> JobStates]]
      BY <2>2, <2>5, ScheduleFacts DEF TypeOK, ScheduleNext
    <3>2. QED
      BY <2>2, <2>5, <3>1 DEF TypeOK, ScheduleNext, counts
  <2>6. CASE CompleteJob(w)
    BY <2>2, <2>6 DEF TypeOK, CompleteJob, counts, JobStates
  <2>7. QED
    BY <1>3, <2>3, <2>4, <2>5, <2>6 DEF JobStep
<1>4. ASSUME NEW w \in Workers, ThrowJob(w) \/ CrashWorker(w)
      PROVE  TypeOK'
  <2>1. worker[w].o \in Orders /\ worker[w].t \in Targets
    BY <1>4, BusyFields DEF ThrowJob, CrashWorker
  <2>2. CASE ThrowJob(w)
    BY <2>1, <2>2 DEF TypeOK, ThrowJob, JobStates
  <2>3. CASE CrashWorker(w)
    BY <2>1, <2>3 DEF TypeOK, CrashWorker, JobStates
  <2>4. QED
    BY <1>4, <2>2, <2>3
<1>5. ASSUME NEW h \in Handlers, Request(h)
      PROVE  TypeOK'
  <2>1. ASSUME NEW o \in Orders, NEW what \in {"save", "delete", "restore"},
               NEW s \in Statuses, Begin(h, o, what, s)
        PROVE  TypeOK'
    <3>1. [pc |-> what, o |-> o, put |-> Changed(o, s)] \in BusyHandler
      BY DEF BusyHandler, Changed
    <3>2. QED
      BY <2>1, <3>1 DEF TypeOK, Begin, counts
  <2>2. ASSUME NEW o \in Orders, NEW s \in Inputs, NEW c \in Customers,
               updateOrder(h, c, o, s)
        PROVE  TypeOK'
    <3>1. (IF s = "" THEN status[o] ELSE s) \in Statuses
      BY ZenonT(30), <2>2 DEF TypeOK, updateOrder
    <3>2. QED
      BY ZenonT(30), <2>1, <2>2, <3>1 DEF updateOrder
  <2>3. ASSUME NEW o \in Orders, NEW s \in Inputs, patchOrderStatus(h, o, s)
        PROVE  TypeOK'
    BY <2>1, <2>3 DEF patchOrderStatus
  <2>4. ASSUME NEW o \in Orders, softDeleteOrder(h, o) \/ restoreOrder(h, o)
        PROVE  TypeOK'
    BY <2>1, <2>4 DEF softDeleteOrder, restoreOrder, Statuses
  <2>5. ASSUME Save(h) \/ CommitDelete(h) \/ CommitRestore(h)
        PROVE  TypeOK'
    <3>1. handler[h] \in BusyHandler
      BY <2>5, BusyFacts DEF Save, CommitDelete, CommitRestore, Write
    <3>2. Put(h) \in [Orders -> Statuses]
      BY <3>1 DEF Put, TypeOK, BusyHandler
    <3>3. handler[h].o \in Orders
      BY <3>1 DEF BusyHandler
    <3>4. job' \in [Orders -> [Targets -> JobStates]]
      <4>1. job \in [Orders -> [Targets -> JobStates]]
        BY DEF TypeOK
      <4>2. scheduleStatusUpdateJob(job, handler[h].o, "undefined") \in
                [Orders -> [Targets -> JobStates]]
        BY <3>3, <4>1, ScheduleFacts
      <4>3. QED
        BY <2>5, <4>1, <4>2 DEF Save, CommitDelete, CommitRestore
    <3>5. CASE Save(h)
      BY <3>2, <3>3, <3>5 DEF TypeOK, Save, Write, counts
    <3>6. CASE CommitDelete(h)
      BY <3>2, <3>3, <3>6 DEF TypeOK, CommitDelete, Write, counts
    <3>7. CASE CommitRestore(h)
      BY <3>2, <3>3, <3>4, <3>7 DEF TypeOK, CommitRestore, Write, counts
    <3>8. QED
      BY <2>5, <3>5, <3>6, <3>7
  <2>6. CASE FailRequest(h)
    BY <2>6 DEF TypeOK, FailRequest, counts
  <2>7. QED
    BY <1>5, <2>2, <2>3, <2>4, <2>5, <2>6 DEF Request
<1>6. ASSUME NEW o \in Rescheduled, rescheduleOrder(o)
      PROVE  TypeOK'
  BY ZenonT(30), <1>6, ScriptAssumption, ScheduleFacts DEF TypeOK, rescheduleOrder, counts
<1>7. CASE UNCHANGED vars
  BY <1>7 DEF TypeOK, vars, counts
<1>8. QED
  BY <1>1, <1>2, <1>3, <1>4, <1>5, <1>6, <1>7 DEF Next

-----------------------------------------------------------------------------
\* The targets whose job an undisturbed order in status s has behind it.
Reached ==
    [pending |-> {}, processing |-> {"processing"},
     shipped |-> {"processing", "shipped"}, delivered |-> Targets,
     cancelled |-> Targets]

\* A job is active in exactly the worker that runs it.
Owned ==
    /\ \A w \in Workers : worker[w].pc # "idle" =>
            job[worker[w].o][worker[w].t] = "active"
    /\ \A v, w \in Workers :
            /\ worker[v].pc # "idle" /\ worker[w].pc # "idle"
            /\ worker[v].o = worker[w].o /\ worker[v].t = worker[w].t
            => v = w
    /\ \A o \in Orders, t \in Targets : job[o][t] = "active" =>
            \E w \in Workers : worker[w].pc # "idle" /\ worker[w].o = o /\ worker[w].t = t

\* An order that is placed, or being placed, and was not disturbed.
Tracked(o) == Undisturbed(o) /\ row[o] \in {"inserting", "live"}

\* What the rows of undisturbed orders can be.
RowsOK ==
    \A o \in Orders : Undisturbed(o) =>
        /\ row[o] # "deleted"
        /\ status[o] # "cancelled"
        /\ row[o] # "live" => status[o] = "pending"
        /\ row[o] = "absent" => \A t \in Targets : job[o][t] = "none"
        /\ \A w \in Workers : worker[w].pc = "update" /\ worker[w].o = o => row[o] = "live"

\* Where a worker on a tracked order is says what its job's target is.
WorkerOK(w) ==
    LET s == status[worker[w].o] IN
    worker[w].pc # "idle" /\ Tracked(worker[w].o) =>
        /\ worker[w].pc \in {"read", "update"} =>
                s \in DOMAIN nextStatusMap /\ worker[w].t = nextStatusMap[s]
        /\ worker[w].pc = "schedule" =>
                /\ s \in DOMAIN nextStatusMap /\ worker[w].t = s
                /\ job[worker[w].o][nextStatusMap[s]] = "none"
        /\ worker[w].pc = "complete" => worker[w].t \in Reached[s]
WorkersOK == \A w \in Workers : WorkerOK(w)

\* The jobs of a tracked order: done, next, or not there yet.
JobsOK ==
    \A o \in Orders, t \in Targets : Tracked(o) =>
        /\ job[o][t] # "failed"
        /\ job[o][t] = "completed" => t \in Reached[status[o]]
        /\ job[o][t] \in {"delayed", "active"} /\ t \notin Reached[status[o]] =>
                status[o] \in DOMAIN nextStatusMap /\ t = nextStatusMap[status[o]]
        /\ t \in Reached[status[o]] => job[o][t] \in {"active", "completed"}
        /\ /\ status[o] \in DOMAIN nextStatusMap /\ t = nextStatusMap[status[o]]
           /\ job[o][t] = "none"
           => \E w \in Workers : Runs(w, o, status[o], {"schedule"})

IInv == TypeOK /\ Owned /\ RowsOK /\ WorkersOK /\ JobsOK

-----------------------------------------------------------------------------
\* How Reached grows along nextStatusMap.
LEMMA ReachedFacts ==
    /\ Reached["pending"] = {}
    /\ \A s \in DOMAIN nextStatusMap :
        /\ nextStatusMap[s] \in Targets
        /\ nextStatusMap[s] \notin Reached[s]
        /\ nextStatusMap[s] # s
        /\ nextStatusMap[s] # "cancelled"
        /\ Reached[nextStatusMap[s]] = Reached[s] \cup {nextStatusMap[s]}
    /\ \A s, r \in DOMAIN nextStatusMap : nextStatusMap[s] = nextStatusMap[r] => s = r
    /\ \A s \in DOMAIN nextStatusMap :
        nextStatusMap[s] \in DOMAIN nextStatusMap <=> nextStatusMap[s] # "delivered"
    /\ \A s \in DOMAIN nextStatusMap, r \in DOMAIN nextStatusMap :
        r = nextStatusMap[s] => nextStatusMap[r] \notin Reached[r] /\ nextStatusMap[r] # r
BY MapFacts DEF Reached, Targets

OtherInv == Owned /\ RowsOK /\ WorkersOK /\ JobsOK

\* A step that changes none of the rows, jobs and workers keeps the invariant.
LEMMA FrameStep ==
    ASSUME OtherInv, UNCHANGED <<row, status, job, worker, touched, lapsed>>
    PROVE  OtherInv'
BY DEF OtherInv, Owned, RowsOK, WorkersOK, WorkerOK, JobsOK, Tracked, Undisturbed, Runs

\* A step that leaves a worker, its order's status and the jobs that order does
\* not have yet alone keeps what is known of the worker.
LEMMA WorkerKept ==
    ASSUME TypeOK, NEW v \in Workers, WorkerOK(v), worker'[v] = worker[v],
           \A p \in Orders : Tracked(p)' =>
                /\ Tracked(p) /\ status'[p] = status[p]
                /\ \A u \in Targets : job[p][u] = "none" => job'[p][u] = "none"
    PROVE  WorkerOK(v)'
<1> SUFFICES ASSUME worker[v].pc # "idle", Tracked(worker[v].o)'
             PROVE  WorkerOK(v)'
  BY DEF WorkerOK
<1> DEFINE p == worker[v].o
<1>1. p \in Orders /\ worker'[v].o = p
  BY BusyFields
<1>2. Tracked(p) /\ status'[p] = status[p]
  BY <1>1
<1>3. ASSUME status[p] \in DOMAIN nextStatusMap, job[p][nextStatusMap[status[p]]] = "none"
      PROVE  job'[p][nextStatusMap[status[p]]] = "none"
  BY <1>1, <1>3, ReachedFacts
<1>4. QED
  BY <1>1, <1>2, <1>3 DEF WorkerOK

\* createOrder: the hook's job is the first of the order.
LEMMA CreateStep ==
    ASSUME TypeOK, OtherInv, NEW o \in Orders, Create(o)
    PROVE  OtherInv'
<1>1. job \in [Orders -> [Targets -> JobStates]]
  BY DEF TypeOK
<1>2. "processing" \in Targets /\ "pending" \in DOMAIN nextStatusMap
  BY MapFacts DEF Targets
<1>3. CASE CreateInsert(o)
  <2>1. \A p \in Orders, t \in Targets : job'[p][t] =
            IF p = o /\ t = "processing" /\ job[p][t] = "none" THEN "delayed" ELSE job[p][t]
    BY <1>1, <1>2, <1>3, ScheduleFacts, MapFacts DEF CreateInsert
  <2>2. UNCHANGED <<status, worker, touched, lapsed>>
    BY <1>3 DEF CreateInsert
  <2>3. row[o] = "absent" /\ row' = [row EXCEPT ![o] = "inserting"]
    BY <1>3 DEF CreateInsert
  <2>4. Owned'
    BY <2>1, <2>2, BusyFields DEF OtherInv, Owned
  <2>5. RowsOK'
    BY <2>1, <2>2, <2>3 DEF OtherInv, RowsOK, Undisturbed, TypeOK
  <2>6. WorkersOK'
    BY <2>1, <2>2, <2>3, BusyFields, ReachedFacts
    DEF OtherInv, Owned, RowsOK, WorkersOK, WorkerOK, Tracked, Undisturbed, TypeOK
  <2>7. JobsOK'
    <3>1. Undisturbed(o) => status[o] = "pending" /\ \A t \in Targets : job[o][t] = "none"
      BY <2>3 DEF OtherInv, RowsOK
    <3>2. \A p \in Orders : p # o => row'[p] = row[p] /\ \A t \in Targets : job'[p][t] = job[p][t]
      BY <2>1, <2>3 DEF TypeOK
    <3>3. ASSUME NEW t \in Targets, Undisturbed(o)
          PROVE  /\ job'[o][t] = IF t = "processing" THEN "delayed" ELSE "none"
                 /\ status'[o] = "pending"
      BY <2>1, <2>2, <3>1, <3>3
    <3>4. QED
      BY <2>2, <3>2, <3>3, MapFacts, ReachedFacts
      DEF OtherInv, JobsOK, Tracked, Undisturbed, Runs
  <2>8. QED
    BY <2>4, <2>5, <2>6, <2>7 DEF OtherInv
<1>4. CASE CreateCommit(o)
  <2>1. \A p \in Orders, t \in Targets : job'[p][t] =
            IF p = o /\ t = "processing" /\ job[p][t] = "none" THEN "delayed" ELSE job[p][t]
    BY <1>1, <1>2, <1>4, ScheduleFacts, MapFacts DEF CreateCommit
  <2>2. UNCHANGED <<status, worker, touched, lapsed>>
    BY <1>4 DEF CreateCommit
  <2>3. row[o] = "inserting" /\ row' = [row EXCEPT ![o] = "live"]
    BY <1>4 DEF CreateCommit
  <2>4. Owned'
    BY <2>1, <2>2, BusyFields DEF OtherInv, Owned
  <2>5. RowsOK'
    BY <2>1, <2>2, <2>3 DEF OtherInv, RowsOK, Undisturbed, TypeOK
  <2>6. WorkersOK'
    <3>1. \A p \in Orders : row'[p] = IF p = o THEN "live" ELSE row[p]
      BY <2>3 DEF TypeOK
    <3>2. \A p \in Orders : Tracked(p)' <=> Tracked(p)
      BY <2>2, <2>3, <3>1 DEF Tracked, Undisturbed
    <3>3. Tracked(o) => job[o]["processing"] # "none"
      <4>1. Tracked(o) => status[o] = "pending"
        BY <2>3 DEF OtherInv, RowsOK, Tracked
      <4>2. \A v \in Workers : Tracked(o) => ~Runs(v, o, "pending", {"schedule"})
        BY BusyFields DEF Runs, Targets
      <4>3. QED
        BY <1>2, <4>1, <4>2, MapFacts DEF OtherInv, JobsOK
    <3>4. \A p \in Orders, u \in Targets : Tracked(p) => job'[p][u] = job[p][u]
      BY <2>1, <3>3
    <3>5. \A v \in Workers : WorkerOK(v) /\ worker'[v] = worker[v] /\ status' = status
      BY <2>2 DEF OtherInv, WorkersOK
    <3>6. QED
      BY <3>2, <3>4, <3>5, WorkerKept DEF WorkersOK
  <2>7. JobsOK'
    BY <2>1, <2>2, <2>3, MapFacts, ReachedFacts
    DEF OtherInv, RowsOK, JobsOK, Tracked, Undisturbed, TypeOK, Runs
  <2>8. QED
    BY <2>4, <2>5, <2>6, <2>7 DEF OtherInv
<1>5. CASE CreateRollback(o)
  <2>1. UNCHANGED <<status, job, worker, touched, lapsed>>
    BY <1>5 DEF CreateRollback
  <2>2. \A p \in Orders : row'[p] = IF p = o THEN "aborted" ELSE row[p]
    BY <1>5 DEF CreateRollback, TypeOK
  <2>3. row[o] = "inserting"
    BY <1>5 DEF CreateRollback
  <2>4. \A p \in Orders : Tracked(p)' => Tracked(p) /\ p # o
    BY <2>1, <2>2 DEF Tracked, Undisturbed
  <2>5. Owned'
    BY <2>1 DEF OtherInv, Owned
  <2>6. RowsOK'
    BY <2>1, <2>2, <2>3 DEF OtherInv, RowsOK, Undisturbed
  <2>7. WorkersOK'
    BY <2>1, <2>4, WorkerKept DEF OtherInv, WorkersOK
  <2>8. JobsOK'
    BY <2>1, <2>4 DEF OtherInv, JobsOK, Runs
  <2>9. QED
    BY <2>5, <2>6, <2>7, <2>8 DEF OtherInv
<1>6. QED
  BY <1>3, <1>4, <1>5 DEF Create

\* Bull hands a job to a worker.
LEMMA TakeStep ==
    ASSUME TypeOK, OtherInv, NEW w \in Workers, NEW o \in Orders, NEW t \in Targets,
           TakeJob(w, o, t)
    PROVE  OtherInv'
<1>1. /\ worker[w].pc = "idle"
      /\ job[o][t] = "delayed"
      /\ UNCHANGED <<row, status, touched, lapsed>>
  BY DEF TakeJob
<1>2. \A p \in Orders, u \in Targets :
        job'[p][u] = IF p = o /\ u = t THEN "active" ELSE job[p][u]
  BY DEF TakeJob, TypeOK
<1>3. \A v \in Workers : worker'[v] =
        IF v = w THEN [pc |-> "read", o |-> o, t |-> t] ELSE worker[v]
  BY DEF TakeJob, TypeOK
<1>4. Owned'
  BY <1>1, <1>2, <1>3, BusyFields DEF OtherInv, Owned
<1>5. RowsOK'
  BY <1>1, <1>2, <1>3 DEF OtherInv, RowsOK, Undisturbed
<1>6. WorkersOK'
  <2>1. Tracked(o) => t \notin Reached[status[o]] /\ status[o] \in DOMAIN nextStatusMap
                      /\ t = nextStatusMap[status[o]]
    BY <1>1 DEF OtherInv, JobsOK
  <2>2. QED
    <3>1. \A p \in Orders : Tracked(p)' <=> Tracked(p)
      BY <1>1 DEF Tracked, Undisturbed
    <3>2. WorkerOK(w)'
      BY <1>1, <1>3, <2>1, <3>1 DEF WorkerOK
    <3>3. ASSUME NEW v \in Workers, v # w
          PROVE  WorkerOK(v)'
      <4>1. \A p \in Orders, u \in Targets : job[p][u] = "none" => job'[p][u] = "none"
        BY <1>1, <1>2
      <4>2. WorkerOK(v) /\ worker'[v] = worker[v] /\ status' = status
        BY <1>1, <1>3, <3>3 DEF OtherInv, WorkersOK
      <4>3. QED
        BY <3>1, <4>1, <4>2, WorkerKept
    <3>4. QED
      BY <3>2, <3>3 DEF WorkersOK
<1>7. JobsOK'
  BY <1>1, <1>2, <1>3 DEF OtherInv, JobsOK, Tracked, Undisturbed, Runs
<1>8. QED
  BY <1>4, <1>5, <1>6, <1>7 DEF OtherInv

\* The processor reads the order; it goes on exactly if the order is tracked
\* and committed, because the job's target then follows the order's status.
LEMMA ReadStep ==
    ASSUME TypeOK, OtherInv, NEW w \in Workers, ReadOrder(w),
           NEW o \in Orders, NEW t \in Targets, worker[w].o = o, worker[w].t = t
    PROVE  OtherInv'
<1> DEFINE where == IF Skips(o, t) THEN "complete" ELSE "update"
<1>1. worker[w] \in BusyWorker /\ worker[w].pc = "read"
  BY BusyFacts DEF ReadOrder
<1>2. UNCHANGED <<row, status, job, touched>> /\ lapsed \subseteq lapsed'
  BY DEF ReadOrder
<1>3. \A v \in Workers : /\ v # w => worker'[v] = worker[v]
                         /\ worker'[w].pc = where
                         /\ worker'[w].o = o /\ worker'[w].t = t
  BY <1>1 DEF ReadOrder, TypeOK, BusyWorker
<1>4. where # "idle" /\ where # "schedule"
  OBVIOUS
<1>5. Owned'
  BY <1>1, <1>2, <1>3, <1>4 DEF OtherInv, Owned
<1>6. RowsOK'
  BY <1>1, <1>2, <1>3 DEF OtherInv, RowsOK, Undisturbed, Skips
<1>7. WorkersOK'
  <2>1. Tracked(o)' => row[o] = "live"
    BY <1>1, <1>2 DEF ReadOrder, Tracked, Undisturbed
  <2>2. Tracked(o)' => Tracked(o)
    BY <1>2 DEF Tracked, Undisturbed
  <2>3. Tracked(o)' => where = "update"
    BY <1>1, <2>1, <2>2, MapFacts DEF OtherInv, WorkersOK, WorkerOK, Skips
  <2>4. QED
    <3>1. \A p \in Orders : Tracked(p)' => Tracked(p)
      BY <1>2 DEF Tracked, Undisturbed
    <3>2. WorkerOK(w) /\ status' = status
      BY <1>2 DEF OtherInv, WorkersOK
    <3>3. WorkerOK(w)'
      BY <1>1, <1>3, <2>2, <2>3, <3>2 DEF WorkerOK
    <3>4. ASSUME NEW v \in Workers, v # w
          PROVE  WorkerOK(v)'
      <4>1. WorkerOK(v) /\ worker'[v] = worker[v] /\ job' = job
        BY <1>2, <1>3, <3>4 DEF OtherInv, WorkersOK
      <4>2. QED
        BY <3>1, <3>2, <4>1, WorkerKept
    <3>5. QED
      BY <3>3, <3>4 DEF WorkersOK
<1>8. JobsOK'
  BY <1>1, <1>2, <1>3 DEF OtherInv, JobsOK, Tracked, Undisturbed, Runs
<1>9. QED
  BY <1>5, <1>6, <1>7, <1>8 DEF OtherInv

\* The processor writes the status: the order moves to the job's target.
LEMMA UpdateStep ==
    ASSUME TypeOK, OtherInv, NEW w \in Workers, UpdateOrder(w),
           NEW o \in Orders, NEW t \in Targets, worker[w].o = o, worker[w].t = t
    PROVE  OtherInv'
<1> DEFINE where == IF t # "delivered" THEN "schedule" ELSE "complete"
<1>1. worker[w] \in BusyWorker /\ worker[w].pc = "update"
  BY BusyFacts DEF UpdateOrder, BusyWorker
<1>2. UNCHANGED <<row, job, touched, lapsed>>
  BY DEF UpdateOrder
<1>3. \A v \in Workers : /\ v # w => worker'[v] = worker[v]
                         /\ worker'[w].pc = where
                         /\ worker'[w].o = o /\ worker'[w].t = t
  BY <1>1 DEF UpdateOrder, TypeOK, BusyWorker
<1>4. \A p \in Orders : status'[p] = IF p = o THEN t ELSE status[p]
  BY <1>1 DEF UpdateOrder, TypeOK
<1>5. \A p \in Orders : Tracked(p)' <=> Tracked(p)
  BY <1>2 DEF Tracked, Undisturbed
<1>6. Tracked(o) => /\ status[o] \in DOMAIN nextStatusMap /\ t = nextStatusMap[status[o]]
  BY <1>1 DEF OtherInv, WorkersOK, WorkerOK
<1>7. job[o][t] = "active"
  BY <1>1 DEF OtherInv, Owned
<1>8. Owned'
  BY <1>1, <1>2, <1>3 DEF OtherInv, Owned
<1>9. RowsOK'
  BY <1>1, <1>2, <1>3, <1>4 DEF OtherInv, RowsOK, Undisturbed, Targets
<1>10. WorkersOK'
  <2>1. ASSUME NEW v \in Workers, v # w, worker[v].pc # "idle", Tracked(worker[v].o),
               worker[v].o = o
        PROVE  worker[v].pc = "complete" /\ worker[v].t \in Reached[status[o]]
    <3>1. worker[v].t # t
      BY <1>1, <2>1 DEF OtherInv, Owned
    <3>2. worker[v] \in BusyWorker
      BY <2>1, BusyFacts
    <3>3. QED
      BY <1>6, <1>7, <2>1, <3>1, <3>2 DEF OtherInv, WorkersOK, WorkerOK, BusyWorker
  <2>2. Tracked(o) /\ t # "delivered" =>
            t \in DOMAIN nextStatusMap /\ job[o][nextStatusMap[t]] = "none"
    <3>1. SUFFICES ASSUME Tracked(o), t # "delivered"
                   PROVE  t \in DOMAIN nextStatusMap /\ job[o][nextStatusMap[t]] = "none"
      OBVIOUS
    <3>2. t \in DOMAIN nextStatusMap
      BY <1>6, <3>1, ReachedFacts
    <3>3. /\ nextStatusMap[t] \in Targets
          /\ nextStatusMap[t] \notin Reached[t]
          /\ nextStatusMap[t] # t
          /\ Reached[t] = Reached[status[o]] \cup {t}
      BY <1>6, <3>1, <3>2, ReachedFacts
    <3>4. job[o][nextStatusMap[t]] \in JobStates
      BY <1>1, <3>3 DEF TypeOK
    <3>5. QED
      BY <1>1, <1>6, <3>1, <3>2, <3>3, <3>4 DEF OtherInv, JobsOK, JobStates
  <2>3. Tracked(o) => t \in Reached[t] /\ Reached[status[o]] \subseteq Reached[t]
    BY <1>6, ReachedFacts
  <2>4. SUFFICES ASSUME NEW v \in Workers, worker'[v].pc # "idle", (Tracked(worker[v].o))'
                 PROVE  LET s == status'[worker'[v].o] IN
                        /\ worker'[v].pc \in {"read", "update"} =>
                            s \in DOMAIN nextStatusMap /\ worker'[v].t = nextStatusMap[s]
                        /\ worker'[v].pc = "schedule" =>
                            /\ s \in DOMAIN nextStatusMap /\ worker'[v].t = s
                            /\ job'[worker'[v].o][nextStatusMap[s]] = "none"
                        /\ worker'[v].pc = "complete" => worker'[v].t \in Reached[s]
    BY DEF WorkersOK, WorkerOK
  <2>5. CASE v = w
    BY <1>1, <1>2, <1>3, <1>4, <1>5, <2>2, <2>3, <2>4, <2>5
  <2>6. CASE v # w /\ worker[v].o = o
    BY <1>1, <1>3, <1>4, <1>5, <2>1, <2>3, <2>4, <2>6
  <2>7. CASE v # w /\ worker[v].o # o
    <3>1. worker'[v] = worker[v] /\ worker[v].pc # "idle" /\ worker[v].o \in Orders
      BY <1>3, <2>4, <2>7, BusyFacts DEF BusyWorker
    <3>2. Tracked(worker[v].o) /\ status'[worker[v].o] = status[worker[v].o]
      BY <1>4, <1>5, <2>4, <2>7, <3>1 DEF Tracked, Undisturbed
    <3>3. QED
      BY <1>2, <3>1, <3>2 DEF OtherInv, WorkersOK, WorkerOK
  <2>8. QED
    BY <2>5, <2>6, <2>7
<1>11. JobsOK'
  <2>1. ASSUME NEW u \in Targets, Tracked(o)
        PROVE  /\ job[o][u] # "failed"
               /\ job[o][u] = "completed" => u \in Reached[t]
               /\ job[o][u] \in {"delayed", "active"} /\ u \notin Reached[t] =>
                    t \in DOMAIN nextStatusMap /\ u = nextStatusMap[t]
               /\ u \in Reached[t] => job[o][u] \in {"active", "completed"}
    BY <1>1, <1>6, <1>7, <2>1, ReachedFacts DEF OtherInv, JobsOK
  <2>2. t \in DOMAIN nextStatusMap => Runs(w, o, t, {"schedule"})'
    BY <1>1, <1>3, MapFacts DEF Runs
  <2>3. \A p \in Orders, v \in Workers :
            p # o /\ Runs(v, p, status[p], {"schedule"})
                => Runs(v, p, status[p], {"schedule"})'
    BY <1>1, <1>2, <1>3, <1>4 DEF Runs
  <2>4. QED
    BY <1>1, <1>2, <1>4, <1>5, <2>1, <2>2, <2>3 DEF OtherInv, JobsOK
<1>12. QED
  BY <1>8, <1>9, <1>10, <1>11 DEF OtherInv

\* The processor schedules the job of the next status.
LEMMA ScheduleStep ==
    ASSUME TypeOK, OtherInv, NEW w \in Workers, ScheduleNext(w),
           NEW o \in Orders, NEW t \in Targets, worker[w].o = o, worker[w].t = t
    PROVE  OtherInv'
<1>1. worker[w] \in BusyWorker /\ worker[w].pc = "schedule"
  BY BusyFacts DEF ScheduleNext
<1>2. UNCHANGED <<row, status, touched, lapsed>>
  BY DEF ScheduleNext
<1>3. \A v \in Workers : /\ v # w => worker'[v] = worker[v]
                         /\ worker'[w].pc = "complete"
                         /\ worker'[w].o = o /\ worker'[w].t = t
  BY <1>1 DEF ScheduleNext, TypeOK, BusyWorker
<1>4. \A p \in Orders, u \in Targets : job'[p][u] =
        IF p = o /\ t \in DOMAIN nextStatusMap /\ u = nextStatusMap[t] /\ job[p][u] = "none"
        THEN "delayed" ELSE job[p][u]
  <2>1. job \in [Orders -> [Targets -> JobStates]]
    BY DEF TypeOK
  <2>2. job' = scheduleStatusUpdateJob(job, o, t)
    BY DEF ScheduleNext
  <2>3. QED
    BY <2>1, <2>2, ScheduleFacts
<1>5. Tracked(o) => status[o] = t /\ t \in DOMAIN nextStatusMap
  BY <1>1 DEF OtherInv, WorkersOK, WorkerOK
<1>6. Owned'
  BY <1>1, <1>3, <1>4, BusyFields DEF OtherInv, Owned
<1>7. RowsOK'
  <2>1. job[o][t] = "active"
    BY <1>1 DEF OtherInv, Owned
  <2>2. QED
    BY <1>2, <1>3, <1>4, <2>1 DEF OtherInv, RowsOK, Undisturbed
<1>8. WorkersOK'
  <2>1. \A v \in Workers : v # w /\ worker[v].pc = "schedule" /\ worker[v].o = o => ~Tracked(o)
    <3>1. ASSUME NEW v \in Workers, worker[v].pc = "schedule", worker[v].o = o, Tracked(o)
          PROVE  worker[v].t = t
      BY <1>5, <3>1 DEF OtherInv, WorkersOK, WorkerOK
    <3>2. QED
      BY <1>1, <3>1 DEF OtherInv, Owned
  <2>2. Tracked(o) => t \in Reached[t]
    <3>1. \A u \in Targets \cap DOMAIN nextStatusMap : u \in Reached[u]
      BY MapFacts DEF Reached, Targets
    <3>2. QED
      BY <1>5, <3>1
  <2>3. \A p : Tracked(p)' <=> Tracked(p)
    BY <1>2 DEF Tracked, Undisturbed
  <2>4. WorkerOK(w)'
    BY <1>1, <1>2, <1>3, <1>5, <2>2, <2>3 DEF WorkerOK
  <2>5. ASSUME NEW v \in Workers, v # w
        PROVE  WorkerOK(v)'
    <3>1. WorkerOK(v) /\ worker'[v] = worker[v] /\ status' = status
      BY <1>2, <1>3, <2>5 DEF OtherInv, WorkersOK
    <3>2. ASSUME worker[v].pc = "schedule", Tracked(worker[v].o)
          PROVE  job'[worker[v].o][nextStatusMap[status[worker[v].o]]] = "none"
      <4>1. /\ worker[v].o \in Orders \ {o}
            /\ nextStatusMap[status[worker[v].o]] \in Targets
            /\ job[worker[v].o][nextStatusMap[status[worker[v].o]]] = "none"
        BY <2>1, <2>5, <3>1, <3>2, BusyFields, ReachedFacts DEF WorkerOK
      <4>2. QED
        BY <1>4, <4>1
    <3>3. QED
      BY <2>3, <3>1, <3>2 DEF WorkerOK
  <2>6. QED
    BY <2>4, <2>5 DEF WorkersOK
<1>9. JobsOK'
  <2>1. \A p \in Orders : Tracked(p)' <=> Tracked(p)
    BY <1>2 DEF Tracked, Undisturbed
  <2>2. \A p \in Orders, v \in Workers :
            Runs(v, p, status[p], {"schedule"}) /\ (v # w \/ p # o)
                => Runs(v, p, status[p], {"schedule"})'
    BY <1>2, <1>3 DEF Runs
  <2>3. QED
    BY <1>1, <1>2, <1>4, <1>5, <2>1, <2>2, ReachedFacts DEF OtherInv, JobsOK, Runs
<1>10. QED
  BY <1>6, <1>7, <1>8, <1>9 DEF OtherInv

\* The job is done; an undisturbed order has passed its target.
LEMMA CompleteStep ==
    ASSUME TypeOK, OtherInv, NEW w \in Workers, CompleteJob(w),
           NEW o \in Orders, NEW t \in Targets, worker[w].o = o, worker[w].t = t
    PROVE  OtherInv'
<1>1. worker[w].pc = "complete" /\ UNCHANGED <<row, status, touched, lapsed>>
  BY DEF CompleteJob
<1>2. \A p \in Orders, u \in Targets :
        job'[p][u] = IF p = o /\ u = t THEN "completed" ELSE job[p][u]
  BY DEF CompleteJob, TypeOK
<1>3. \A v \in Workers : worker'[v] = IF v = w THEN Idle ELSE worker[v]
  BY DEF CompleteJob, TypeOK
<1>4. job[o][t] = "active" /\ Idle.pc = "idle"
  BY <1>1 DEF OtherInv, Owned, Idle
<1>5. Owned'
  BY <1>1, <1>2, <1>3, <1>4, BusyFields DEF OtherInv, Owned
<1>6. RowsOK'
  BY <1>1, <1>2, <1>3, <1>4 DEF OtherInv, RowsOK, Undisturbed
<1>7. WorkersOK'
  <2>1. \A p \in Orders : Tracked(p)' <=> Tracked(p)
    BY <1>1 DEF Tracked, Undisturbed
  <2>2. WorkerOK(w)'
    BY <1>3, <1>4 DEF WorkerOK
  <2>3. ASSUME NEW v \in Workers, v # w
        PROVE  WorkerOK(v)'
    <3>1. \A p \in Orders, u \in Targets : job[p][u] = "none" => job'[p][u] = "none"
      BY <1>2, <1>4
    <3>2. WorkerOK(v) /\ worker'[v] = worker[v] /\ status' = status
      BY <1>1, <1>3, <2>3 DEF OtherInv, WorkersOK
    <3>3. QED
      BY <2>1, <3>1, <3>2, WorkerKept
  <2>4. QED
    BY <2>2, <2>3 DEF WorkersOK
<1>8. JobsOK'
  <2>1. Tracked(o) => t \in Reached[status[o]]
    BY <1>1 DEF OtherInv, WorkersOK, WorkerOK
  <2>2. QED
    BY <1>1, <1>2, <1>3, <1>4, <2>1 DEF OtherInv, JobsOK, Tracked, Undisturbed, Runs
<1>9. QED
  BY <1>5, <1>6, <1>7, <1>8 DEF OtherInv

\* An attempt throws or its worker dies: either the job waits again, before it
\* wrote anything, or the order has lapsed.
LEMMA FaultStep ==
    ASSUME TypeOK, OtherInv, NEW w \in Workers, ThrowJob(w) \/ CrashWorker(w),
           NEW o \in Orders, NEW t \in Targets, worker[w].o = o, worker[w].t = t
    PROVE  OtherInv'
<1>1. /\ worker[w].pc # "idle"
      /\ UNCHANGED <<row, status, touched>>
      /\ lapsed \subseteq lapsed'
  BY DEF ThrowJob, CrashWorker
<1>2. PICK after \in {"delayed", "failed"} :
        /\ job' = [job EXCEPT ![o][t] = after]
        /\ o \notin lapsed' => after = "delayed" /\ worker[w].pc \in {"read", "update"}
  BY DEF ThrowJob, CrashWorker
<1>3. \A p \in Orders, u \in Targets :
        job'[p][u] = IF p = o /\ u = t THEN after ELSE job[p][u]
  BY <1>2 DEF TypeOK
<1>4. \A v \in Workers : worker'[v] = IF v = w THEN Idle ELSE worker[v]
  BY DEF ThrowJob, CrashWorker, TypeOK
<1>5. job[o][t] = "active" /\ Idle.pc = "idle"
  BY <1>1 DEF OtherInv, Owned, Idle
<1>6. Owned'
  BY <1>1, <1>3, <1>4, <1>5, BusyFields DEF OtherInv, Owned
<1>7. RowsOK'
  BY <1>1, <1>3, <1>4, <1>5 DEF OtherInv, RowsOK, Undisturbed
<1>8. WorkersOK'
  <2>1. WorkerOK(w)'
    BY <1>4, <1>5 DEF WorkerOK
  <2>2. ASSUME NEW v \in Workers, v # w
        PROVE  WorkerOK(v)'
    <3>1. WorkerOK(v) /\ worker'[v] = worker[v] /\ status' = status
      BY <1>1, <1>4, <2>2 DEF OtherInv, WorkersOK
    <3>2. Tracked(worker[v].o)' => Tracked(worker[v].o)
      BY <1>1, <3>1 DEF Tracked, Undisturbed
    <3>3. ASSUME worker[v].pc = "schedule", Tracked(worker[v].o)
          PROVE  job'[worker[v].o][nextStatusMap[status[worker[v].o]]] = "none"
      <4>1. /\ worker[v].o \in Orders
            /\ nextStatusMap[status[worker[v].o]] \in Targets
            /\ job[worker[v].o][nextStatusMap[status[worker[v].o]]] = "none"
        BY <3>1, <3>3, BusyFields, ReachedFacts DEF WorkerOK
      <4>2. QED
        BY <1>3, <1>5, <4>1
    <3>4. QED
      BY <3>1, <3>2, <3>3 DEF WorkerOK
  <2>3. QED
    BY <2>1, <2>2 DEF WorkersOK
<1>9. JobsOK'
  <2>1. (Tracked(o))' => Tracked(o) /\ after = "delayed"
                         /\ worker[w].pc \in {"read", "update"}
    BY <1>1, <1>2 DEF Tracked, Undisturbed
  <2>2. (Tracked(o))' => /\ status[o] \in DOMAIN nextStatusMap
                         /\ t = nextStatusMap[status[o]] /\ t \notin Reached[status[o]]
    BY <1>1, <2>1, ReachedFacts DEF OtherInv, WorkersOK, WorkerOK
  <2>3. \A p \in Orders : (Tracked(p))' => Tracked(p)
    BY <1>1 DEF Tracked, Undisturbed
  <2>4. \A p \in Orders, v \in Workers :
            Runs(v, p, status[p], {"schedule"}) /\ v # w
                => Runs(v, p, status[p], {"schedule"})'
    BY <1>1, <1>4 DEF Runs
  <2>5. QED
    BY <1>1, <1>3, <2>1, <2>2, <2>3, <2>4 DEF OtherInv, JobsOK, Runs
<1>10. QED
  BY <1>6, <1>7, <1>8, <1>9 DEF OtherInv

\* A write of a request, or the script: the order counts as touched.
LEMMA TouchStep ==
    ASSUME TypeOK, OtherInv, NEW o \in Orders,
           touched' = touched \cup {o}, UNCHANGED <<worker, lapsed>>,
           \A p \in Orders \ {o} : row'[p] = row[p] /\ status'[p] = status[p],
           \A p \in Orders, u \in Targets :
                job'[p][u] # job[p][u] => p = o /\ job[p][u] = "none" /\ job'[p][u] = "delayed"
    PROVE  OtherInv'
<1>1. Owned'
  <2>1. \A p \in Orders, u \in Targets : job'[p][u] = "active" <=> job[p][u] = "active"
    OBVIOUS
  <2>2. \A w \in Workers : worker[w].pc # "idle" => job'[worker[w].o][worker[w].t] = "active"
    BY <2>1, BusyFields DEF OtherInv, Owned
  <2>3. \A p \in Orders, u \in Targets : job'[p][u] = "active" =>
            \E w \in Workers : worker[w].pc # "idle" /\ worker[w].o = p /\ worker[w].t = u
    BY <2>1 DEF OtherInv, Owned
  <2>4. worker' = worker /\ Owned
    BY DEF OtherInv
  <2>5. QED
    BY <2>2, <2>3, <2>4 DEF Owned
<1>2. RowsOK'
  BY DEF OtherInv, RowsOK, Undisturbed
<1>3. WorkersOK'
  <2>1. \A p \in Orders : Tracked(p)' => Tracked(p) /\ p # o
    BY DEF Tracked, Undisturbed
  <2>2. ASSUME NEW v \in Workers
        PROVE  WorkerOK(v)'
    <3>1. WorkerOK(v)
      BY DEF OtherInv, WorkersOK
    <3>2. \A p \in Orders, u \in Targets :
              p # o /\ job[p][u] = "none" => job'[p][u] = "none"
      OBVIOUS
    <3>3. QED
      BY <2>1, <3>1, <3>2, WorkerKept
  <2>3. QED
    BY <2>2 DEF WorkersOK
<1>4. JobsOK'
  BY DEF OtherInv, JobsOK, Tracked, Undisturbed, Runs
<1>5. QED
  BY <1>1, <1>2, <1>3, <1>4 DEF OtherInv

-----------------------------------------------------------------------------
\* The invariant holds before the first request.
LEMMA InitInv == Init => IInv
<1> SUFFICES ASSUME Init PROVE IInv
  OBVIOUS
<1>1. TypeOK
  BY DEF Init, TypeOK, Idle, Statuses, JobStates
<1>2. \A w \in Workers : worker[w].pc = "idle"
  BY DEF Init, Idle
<1>3. Owned /\ RowsOK /\ WorkersOK /\ JobsOK
  BY <1>2 DEF Init, Owned, RowsOK, WorkersOK, WorkerOK, JobsOK, Tracked, Undisturbed
<1>4. QED
  BY <1>1, <1>3 DEF IInv

\* Every step of the program preserves the invariant.
LEMMA InvStep == IInv /\ [Next]_vars => IInv'
<1> SUFFICES ASSUME IInv, [Next]_vars PROVE IInv'
  OBVIOUS
<1>1. TypeOK /\ OtherInv /\ TypeOK'
  BY TypeStep DEF IInv, OtherInv
<1>2. ASSUME NEW o \in Orders, Create(o)
      PROVE  OtherInv'
  BY <1>1, <1>2, CreateStep
<1>3. ASSUME NEW w \in Workers, NEW o \in Orders, NEW t \in Targets, TakeJob(w, o, t)
      PROVE  OtherInv'
  BY <1>1, <1>3, TakeStep
<1>4. ASSUME NEW w \in Workers, JobStep(w) \/ ThrowJob(w) \/ CrashWorker(w)
      PROVE  OtherInv'
  <2>1. worker[w].pc # "idle"
    BY <1>4
    DEF JobStep, ReadOrder, UpdateOrder, ScheduleNext, CompleteJob, ThrowJob, CrashWorker
  <2>2. PICK o \in Orders, t \in Targets : worker[w].o = o /\ worker[w].t = t
    BY <1>1, <2>1, BusyFacts DEF BusyWorker
  <2>3. QED
    BY <1>1, <1>4, <2>2, ReadStep, UpdateStep, ScheduleStep, CompleteStep, FaultStep
    DEF JobStep
<1>5. ASSUME NEW h \in Handlers, Request(h)
      PROVE  OtherInv'
  <2>1. ASSUME UNCHANGED <<row, status, job, worker, touched, lapsed>>
        PROVE  OtherInv'
    BY <1>1, <2>1, FrameStep
  <2>2. ASSUME NEW o \in Orders, NEW s \in Inputs,
               patchOrderStatus(h, o, s) \/ \E c \in Customers : updateOrder(h, c, o, s)
        PROVE  OtherInv'
    BY ZenonT(30), <2>1, <2>2 DEF updateOrder, patchOrderStatus, Begin
  <2>3. ASSUME NEW o \in Orders, softDeleteOrder(h, o) \/ restoreOrder(h, o)
        PROVE  OtherInv'
    BY <2>1, <2>3 DEF softDeleteOrder, restoreOrder, Begin
  <2>4. ASSUME FailRequest(h)
        PROVE  OtherInv'
    BY <2>1, <2>4 DEF FailRequest
  <2>5. ASSUME Save(h) \/ CommitDelete(h) \/ CommitRestore(h)
        PROVE  OtherInv'
    <3>1. PICK o \in Orders : handler[h].o = o
      BY <1>1, <2>5, BusyFacts DEF Save, CommitDelete, CommitRestore, Write, BusyHandler
    <3>2. touched' = touched \cup {o} /\ UNCHANGED <<worker, lapsed>>
      BY <2>5, <3>1 DEF Save, CommitDelete, CommitRestore, Write
    <3>3. \A p \in Orders \ {o} : row'[p] = row[p] /\ status'[p] = status[p]
      BY <1>1, <2>5, <3>1 DEF Save, CommitDelete, CommitRestore, Write, Put, TypeOK
    <3>4. job' = job
      BY <2>5, MapFacts DEF Save, CommitDelete, CommitRestore, scheduleStatusUpdateJob
    <3>5. QED
      BY <1>1, <3>2, <3>3, <3>4, TouchStep
  <2>6. QED
    BY <1>5, <2>2, <2>3, <2>4, <2>5 DEF Request
<1>6. ASSUME NEW o \in Rescheduled, rescheduleOrder(o)
      PROVE  OtherInv'
  <2> DEFINE js1 == scheduleStatusUpdateJob(job, o, "processing")
             js2 == scheduleStatusUpdateJob(js1, o, "shipped")
             js3 == scheduleStatusUpdateJob(js2, o, "delivered")
  <2>1. o \in Orders /\ job \in [Orders -> [Targets -> JobStates]]
    BY <1>1, ScriptAssumption DEF TypeOK
  <2>2. /\ js1 \in [Orders -> [Targets -> JobStates]]
        /\ \A p \in Orders, u \in Targets :
            js1[p][u] # job[p][u] => p = o /\ job[p][u] = "none" /\ js1[p][u] = "delayed"
    BY <2>1, ScheduleFacts
  <2>3. /\ js2 \in [Orders -> [Targets -> JobStates]]
        /\ \A p \in Orders, u \in Targets :
            js2[p][u] # js1[p][u] => p = o /\ js1[p][u] = "none" /\ js2[p][u] = "delayed"
    <3> HIDE DEF js1
    <3> QED
      BY <2>1, <2>2, ScheduleFacts
  <2>4. \A p \in Orders, u \in Targets :
            js3[p][u] # js2[p][u] => p = o /\ js2[p][u] = "none" /\ js3[p][u] = "delayed"
    <3> HIDE DEF js2
    <3> QED
      BY <2>1, <2>3, ScheduleFacts
  <2>5. /\ job' = js3 /\ touched' = touched \cup {o}
        /\ UNCHANGED <<row, status, worker, lapsed>>
    BY <1>6 DEF rescheduleOrder
  <2> HIDE DEF js1, js2, js3
  <2>6. \A p \in Orders, u \in Targets :
            job'[p][u] # job[p][u] => p = o /\ job[p][u] = "none" /\ job'[p][u] = "delayed"
    BY <2>2, <2>3, <2>4, <2>5
  <2>7. QED
    BY <1>1, <2>1, <2>5, <2>6, TouchStep
<1>7. ASSUME UNCHANGED vars
      PROVE  OtherInv'
  BY <1>1, <1>7, FrameStep DEF vars
<1>8. OtherInv'
  BY <1>2, <1>3, <1>4, <1>5, <1>6, <1>7 DEF Next
<1>9. QED
  BY <1>1, <1>8 DEF IInv, OtherInv

\* The inductive invariant: jobs are owned by the worker that runs them, and the
\* jobs and workers of an undisturbed order agree with its status.
THEOREM InvariantHolds == Spec => []IInv
BY InitInv, InvStep, PTL DEF Spec

\* Every variable of the life cycle keeps its type.
THEOREM TypeCorrect == Spec => []TypeOK
<1>1. IInv => TypeOK
  BY DEF IInv
<1>2. QED
  BY InvariantHolds, <1>1, PTL

\* An undisturbed order that is not delivered always has a job that moves it on
\* (scheduleStatusUpdateJob and statusProcessor, with retries and stalls).
THEOREM MoverExists == Spec => []SomeoneMovesOn
<1>1. IInv => SomeoneMovesOn
  <2>1. SUFFICES ASSUME IInv, NEW o \in Orders, row[o] = "live", Undisturbed(o),
                        status[o] # "delivered"
                 PROVE  /\ status[o] \in DOMAIN nextStatusMap
                        /\ \/ job[o][nextStatusMap[status[o]]] = "delayed"
                           \/ \E w \in Workers :
                                \/ Runs(w, o, nextStatusMap[status[o]], {"read", "update"})
                                \/ Runs(w, o, status[o], {"schedule"})
    BY DEF SomeoneMovesOn
  <2> DEFINE t == nextStatusMap[status[o]]
  <2>2. status[o] \in DOMAIN nextStatusMap
    BY <2>1, MapFacts DEF IInv, TypeOK, RowsOK, Statuses
  <2>3. t \in Targets /\ t \notin Reached[status[o]] /\ t # status[o]
    BY <2>2, ReachedFacts
  <2>4. job[o][t] \in {"none", "delayed", "active"}
    <3>1. Tracked(o) /\ job[o][t] \in JobStates
      BY <2>1, <2>3 DEF IInv, TypeOK, Tracked
    <3>2. job[o][t] # "failed" /\ job[o][t] # "completed"
      BY <2>1, <2>3, <3>1 DEF IInv, JobsOK
    <3>3. QED
      BY <3>1, <3>2 DEF JobStates
  <2>5. CASE job[o][t] = "none"
    BY <2>1, <2>2, <2>3, <2>5 DEF IInv, JobsOK, Tracked
  <2>6. CASE job[o][t] = "active"
    <3>1. PICK w \in Workers : worker[w].pc # "idle" /\ worker[w].o = o /\ worker[w].t = t
      BY <2>1, <2>3, <2>6 DEF IInv, Owned
    <3>2. worker[w].pc \in {"read", "update"}
      BY <2>1, <2>3, <3>1, BusyFacts DEF IInv, WorkersOK, WorkerOK, Tracked, BusyWorker
    <3>3. QED
      BY <2>2, <3>1, <3>2 DEF Runs
  <2>7. QED
    BY <2>2, <2>4, <2>5, <2>6
<1>2. QED
  BY InvariantHolds, <1>1, PTL

\* The status of an undisturbed order moves only to its successor in
\* nextStatusMap: the write of statusProcessor is never late for it.
THEOREM StepsForward == Spec => OneStepForward
<1> DEFINE Forward ==
        \A o \in Orders :
            status'[o] # status[o] /\ o \notin touched' \cup lapsed' =>
                /\ status[o] \in DOMAIN nextStatusMap
                /\ status'[o] = nextStatusMap[status[o]]
<1>1. IInv /\ [Next]_vars => [Forward]_vars
  <2> SUFFICES ASSUME IInv, Next,
                      NEW o \in Orders, status'[o] # status[o],
                      o \notin touched' \cup lapsed'
               PROVE  /\ status[o] \in DOMAIN nextStatusMap
                      /\ status'[o] = nextStatusMap[status[o]]
    OBVIOUS
  <2>1. TypeOK
    BY DEF IInv
  <2>2. ASSUME NEW w \in Workers, UpdateOrder(w)
        PROVE  /\ status[o] \in DOMAIN nextStatusMap
               /\ status'[o] = nextStatusMap[status[o]]
    <3>1. worker[w].pc = "update" /\ UNCHANGED <<touched, lapsed>>
      BY <2>2 DEF UpdateOrder
    <3>2. worker[w].o = o /\ status'[o] = worker[w].t
      BY <2>1, <2>2 DEF UpdateOrder, TypeOK
    <3>3. Tracked(o)
      BY <3>1, <3>2 DEF IInv, RowsOK, Tracked, Undisturbed
    <3>4. QED
      BY <3>1, <3>2, <3>3 DEF IInv, WorkersOK, WorkerOK
  <2>3. ASSUME NEW h \in Handlers, Save(h) \/ CommitDelete(h) \/ CommitRestore(h)
        PROVE  FALSE
    BY <2>1, <2>3 DEF Save, CommitDelete, CommitRestore, Write, Put, TypeOK
  <2>4. \/ \E w \in Workers : UpdateOrder(w)
        \/ \E h \in Handlers : Save(h) \/ CommitDelete(h) \/ CommitRestore(h)
        \/ status' = status
    BY ZenonT(30) DEF Next, Create, CreateInsert, CreateCommit, CreateRollback, TakeJob, JobStep,
           ReadOrder, ScheduleNext, CompleteJob, ThrowJob, CrashWorker, Request,
           updateOrder, patchOrderStatus, softDeleteOrder, restoreOrder, Begin,
           FailRequest, rescheduleOrder
  <2>5. QED
    BY <2>2, <2>3, <2>4
<1>2. QED
  BY InvariantHolds, <1>1, PTL DEF Spec, OneStepForward

\* A job that finds an order deleted, cancelled or delivered does not go on to
\* write it, so as long as no earlier reader is left no job changes it.
LEMMA JobsPassBy ==
    ASSUME TypeOK, NEW w \in Workers, NEW o \in Orders,
           \/ \E p \in Orders, t \in Targets : TakeJob(w, p, t)
           \/ JobStep(w) \/ ThrowJob(w) \/ CrashWorker(w),
           row[o] # "live" \/ status[o] \in {"cancelled", "delivered"},
           \A v \in Workers : worker[v].pc = "update" => worker[v].o # o
    PROVE  /\ row' = row /\ handler' = handler /\ status'[o] = status[o]
           /\ \A v \in Workers : worker'[v].pc = "update" => worker'[v].o # o
<1>1. worker \in [Workers -> {Idle} \cup BusyWorker] /\ status \in [Orders -> Statuses]
  BY DEF TypeOK
<1>2. ASSUME UNCHANGED <<row, handler>>, status'[o] = status[o],
             NEW new, worker' = [worker EXCEPT ![w] = new],
             new.pc = "update" => new.o # o
      PROVE  /\ row' = row /\ handler' = handler /\ status'[o] = status[o]
             /\ \A v \in Workers : worker'[v].pc = "update" => worker'[v].o # o
  BY <1>1, <1>2
<1>3. CASE \E p \in Orders, t \in Targets : TakeJob(w, p, t)
  <2>1. PICK p \in Orders, t \in Targets : TakeJob(w, p, t)
    BY <1>3
  <2>2. /\ UNCHANGED <<row, status, handler>>
        /\ worker' = [worker EXCEPT ![w] = [pc |-> "read", o |-> p, t |-> t]]
    BY <2>1 DEF TakeJob
  <2>3. [pc |-> "read", o |-> p, t |-> t].pc # "update" /\ status'[o] = status[o]
    BY <2>2
  <2>4. QED
    BY <1>2, <2>2, <2>3
<1>4. CASE ThrowJob(w) \/ CrashWorker(w) \/ CompleteJob(w)
  <2>1. UNCHANGED <<row, status, handler>> /\ worker' = [worker EXCEPT ![w] = Idle]
    <3>1. CASE ThrowJob(w)
      BY <3>1 DEF ThrowJob
    <3>2. CASE CrashWorker(w)
      BY <3>2 DEF CrashWorker
    <3>3. CASE CompleteJob(w)
      BY <3>3 DEF CompleteJob
    <3>4. QED
      BY <1>4, <3>1, <3>2, <3>3
  <2>2. Idle.pc # "update" /\ status'[o] = status[o]
    BY <2>1 DEF Idle
  <2>3. QED
    BY <1>2, <2>1, <2>2
<1>5. CASE ReadOrder(w) \/ UpdateOrder(w) \/ ScheduleNext(w)
  <2>1. worker[w] \in BusyWorker
    BY <1>5, BusyFacts DEF ReadOrder, UpdateOrder, ScheduleNext
  <2>2. UNCHANGED <<row, handler>>
    BY <1>5 DEF ReadOrder, UpdateOrder, ScheduleNext
  <2>3. PICK pc \in {"update", "schedule", "complete"} :
            /\ worker' = [worker EXCEPT ![w].pc = pc]
            /\ pc = "update" => ReadOrder(w) /\ ~Skips(worker[w].o, worker[w].t)
    BY <1>5 DEF ReadOrder, UpdateOrder, ScheduleNext
  <2> DEFINE new == [worker[w] EXCEPT !.pc = pc]
  <2>4. new.pc = pc /\ new.o = worker[w].o
    BY <2>1 DEF BusyWorker
  <2>5. new.pc = "update" => new.o # o
    BY <2>3, <2>4 DEF Skips
  <2>6. status'[o] = status[o]
    <3>1. CASE UpdateOrder(w)
      BY <1>1, <3>1 DEF UpdateOrder
    <3>2. CASE ReadOrder(w) \/ ScheduleNext(w)
      BY <3>2 DEF ReadOrder, ScheduleNext
    <3>3. QED
      BY <1>5, <3>1, <3>2
  <2>7. worker' = [worker EXCEPT ![w] = new]
    BY <2>3
  <2> HIDE DEF new
  <2>8. QED
    BY <1>2, <2>2, <2>5, <2>6, <2>7
<1>6. QED
  BY <1>3, <1>4, <1>5 DEF JobStep

\* No handler and no job takes up a delivered order, so once those that read it
\* before its delivery are through it is neither rewritten nor deleted.
THEOREM DeliveryIsKept == Spec => DeliveredSettles
<1> DEFINE Kept == \A o \in Orders : Settled(o) => Settled(o)'
<1>1. TypeOK /\ [Next]_vars => [Kept]_vars
  <2> SUFFICES ASSUME TypeOK, Next, NEW o \in Orders, Settled(o)
               PROVE  Settled(o)'
    OBVIOUS
  <2>1. ASSUME UNCHANGED <<status, worker, handler>>, row'[o] = row[o]
        PROVE  Settled(o)'
    BY <2>1 DEF Settled
  <2>2. ASSUME NEW p \in Orders, Create(p)
        PROVE  Settled(o)'
    <3>1. p # o
      BY <2>2 DEF Create, CreateInsert, CreateCommit, CreateRollback, Settled
    <3>2. QED
      BY <2>1, <2>2, <3>1
         DEF Create, CreateInsert, CreateCommit, CreateRollback, TypeOK
  <2>3. ASSUME NEW w \in Workers,
               \/ \E p \in Orders, t \in Targets : TakeJob(w, p, t)
               \/ JobStep(w) \/ ThrowJob(w) \/ CrashWorker(w)
        PROVE  Settled(o)'
    <3>1. /\ row' = row /\ handler' = handler /\ status'[o] = status[o]
          /\ \A v \in Workers : worker'[v].pc = "update" => worker'[v].o # o
      BY <2>3, JobsPassBy DEF Settled
    <3>2. QED
      BY <3>1 DEF Settled
  <2>4. ASSUME NEW h \in Handlers, Request(h)
        PROVE  Settled(o)'
    <3>1. ASSUME UNCHANGED worker, row'[o] = row[o], status'[o] = status[o],
                 NEW new, handler' = [handler EXCEPT ![h] = new],
                 new.pc # "idle" => new.o # o
          PROVE  Settled(o)'
      <4>1. \A g \in Handlers : handler'[g] = IF g = h THEN new ELSE handler[g]
        BY <3>1 DEF TypeOK
      <4>2. QED
        BY <3>1, <4>1 DEF Settled
    <3>2. ASSUME NEW p \in Orders, NEW what \in {"save", "delete", "restore"}, NEW s,
                 Modifiable(p) \/ row[p] = "deleted", Begin(h, p, what, s)
          PROVE  Settled(o)'
      <4>1. p # o
        BY <3>2 DEF Settled, Modifiable
      <4> DEFINE new == [pc |-> what, o |-> p, put |-> Changed(p, s)]
      <4>2. /\ UNCHANGED <<row, status, worker>>
            /\ handler' = [handler EXCEPT ![h] = new]
        BY <3>2 DEF Begin
      <4>3. new.o = p
        OBVIOUS
      <4> HIDE DEF new
      <4>4. QED
        BY <3>1, <4>1, <4>2, <4>3
    <3>3. ASSUME Save(h) \/ CommitDelete(h) \/ CommitRestore(h)
          PROVE  Settled(o)'
      <4>1. handler[h].pc # "idle" /\ handler[h].o # o
        BY <3>3 DEF Save, CommitDelete, CommitRestore, Write, Settled
      <4>2. handler[h].o \in Orders
        BY <4>1, BusyFacts DEF BusyHandler
      <4>3. row'[o] = row[o] /\ status'[o] = status[o]
        BY <3>3, <4>1, <4>2 DEF Save, CommitDelete, CommitRestore, Write, Put, TypeOK
      <4>4. UNCHANGED worker /\ handler' = [handler EXCEPT ![h] = Idle]
        BY <3>3 DEF Save, CommitDelete, CommitRestore, Write
      <4>5. Idle.pc = "idle"
        BY DEF Idle
      <4>6. QED
        BY <3>1, <4>3, <4>4, <4>5
    <3>4. ASSUME FailRequest(h)
          PROVE  Settled(o)'
      <4>1. UNCHANGED <<row, status, worker>> /\ handler' = [handler EXCEPT ![h] = Idle]
        BY <3>4 DEF FailRequest
      <4>2. Idle.pc = "idle"
        BY DEF Idle
      <4>3. QED
        BY <3>1, <4>1, <4>2
    <3>5. QED
      BY ZenonT(30), <2>4, <3>2, <3>3, <3>4
         DEF Request, updateOrder, patchOrderStatus, softDeleteOrder, restoreOrder
  <2>5. ASSUME NEW p \in Orders, rescheduleOrder(p)
        PROVE  Settled(o)'
    BY <2>1, <2>5 DEF rescheduleOrder
  <2>6. QED
    BY <2>2, <2>3, <2>4, <2>5, ScriptAssumption DEF Next
<1>2. QED
  BY TypeCorrect, <1>1, PTL DEF Spec, DeliveredSettles

\* Once the jobs that read an order before it was cancelled or deleted are
\* through, it stays so until a request takes a step: no job, retry or stalled
\* job brings it back.
THEOREM ClosedToJobs == Spec => JobsLeaveClosed
<1> DEFINE Left == \A o \in Orders : Closed(o) => Closed(o)' \/ handler' # handler
<1>1. TypeOK /\ [Next]_vars => [Left]_vars
  <2> SUFFICES ASSUME TypeOK, Next, NEW o \in Orders, Closed(o), handler' = handler
               PROVE  Closed(o)'
    OBVIOUS
  <2>1. ASSUME NEW p \in Orders, Create(p)
        PROVE  Closed(o)'
    <3>1. p # o
      BY <2>1 DEF Create, CreateInsert, CreateCommit, CreateRollback, Closed
    <3>2. row'[o] = row[o] /\ UNCHANGED <<status, worker>>
      BY <2>1, <3>1 DEF Create, CreateInsert, CreateCommit, CreateRollback, TypeOK
    <3>3. QED
      BY <3>2 DEF Closed
  <2>2. ASSUME NEW w \in Workers,
               \/ \E p \in Orders, t \in Targets : TakeJob(w, p, t)
               \/ JobStep(w) \/ ThrowJob(w) \/ CrashWorker(w)
        PROVE  Closed(o)'
    <3>1. /\ row[o] # "live" \/ status[o] \in {"cancelled", "delivered"}
          /\ \A v \in Workers : worker[v].pc = "update" => worker[v].o # o
      BY DEF Closed
    <3>2. /\ row' = row /\ status'[o] = status[o]
          /\ \A v \in Workers : worker'[v].pc = "update" => worker'[v].o # o
      BY <2>2, <3>1, JobsPassBy
    <3>3. QED
      BY <3>2 DEF Closed
  <2>3. ASSUME NEW h \in Handlers, Request(h)
        PROVE  FALSE
    <3>1. ASSUME NEW p \in Orders, NEW what \in {"save", "delete", "restore"}, NEW s,
                 Begin(h, p, what, s)
          PROVE  FALSE
      <4>1. handler[h].pc = "idle" /\ handler'[h].pc = what
        BY <3>1 DEF Begin, TypeOK
      <4>2. QED
        BY <4>1
    <3>2. ASSUME handler[h].pc # "idle", handler' = [handler EXCEPT ![h] = Idle]
          PROVE  FALSE
      BY <3>2 DEF TypeOK, Idle
    <3>3. ASSUME Save(h) \/ CommitDelete(h) \/ CommitRestore(h) \/ FailRequest(h)
          PROVE  FALSE
      BY <3>2, <3>3 DEF Save, CommitDelete, CommitRestore, Write, FailRequest
    <3>4. QED
      BY ZenonT(30), <2>3, <3>1, <3>3
         DEF Request, updateOrder, patchOrderStatus, softDeleteOrder, restoreOrder
  <2>4. ASSUME NEW p \in Orders, rescheduleOrder(p)
        PROVE  Closed(o)'
    BY <2>4 DEF rescheduleOrder, Closed
  <2>5. QED
    BY <2>1, <2>2, <2>3, <2>4, ScriptAssumption DEF Next
<1>2. QED
  BY TypeCorrect, <1>1, PTL DEF Spec, JobsLeaveClosed
=============================================================================
