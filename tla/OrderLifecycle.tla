---------------------------- MODULE OrderLifecycle ----------------------------
(***************************************************************************)
(* The life of an order's status: the delayed status jobs that move it     *)
(* along nextStatusMap (bull/), and the requests that create, update,      *)
(* delete and restore orders meanwhile (controllers/orderController.js,    *)
(* hooks/orderHooks.js).                                                   *)
(*                                                                         *)
(* statusQueue registers its processor in every process that loads it:     *)
(* the Bull process, and the server from its first scheduled job on.  Each *)
(* runs one job at a time, so a worker is such a process.  A handler or a  *)
(* job reads the order, decides, and writes later with WHERE id = ... and  *)
(* nothing else; the read and the write are two actions.  A transaction's  *)
(* row writes become visible when it commits and nobody can write the row  *)
(* between them and the commit, so they are one action with the commit.    *)
(***************************************************************************)
EXTENDS Naturals

CONSTANTS
    Orders,        \* order ids
    Customers,     \* customers who send requests
    Owner,         \* orders.customer_id
    Workers,       \* processes that run the status processor
    Handlers,      \* requests the server handles at a time
    Attempts,      \* attempts: of the job's options
    MaxStalls,     \* Bull's maxStalledCount
    Rescheduled    \* order ids that scripts/rescheduleOrder.js is run for

nextStatusMap ==
    [pending |-> "processing", processing |-> "shipped", shipped |-> "delivered"]

Statuses == {"pending", "processing", "shipped", "delivered", "cancelled"}
Targets == {"processing", "shipped", "delivered"}

\* req.body.status: a status, nothing, or something else
Inputs == Statuses \cup {"", "unknown"}

ASSUME OwnerAssumption == Owner \in [Orders -> Customers]
ASSUME BullAssumption == Attempts \in Nat \ {0} /\ MaxStalls \in Nat
ASSUME ScriptAssumption == Rescheduled \subseteq Orders

VARIABLES
    row,      \* orders: "absent", "inserting" (not committed), "aborted", "live", "deleted"
    status,   \* orders.status
    job,      \* the state of the Bull job `${orderId}-${targetStatus}`
    tries,    \* its attempts that threw
    stalls,   \* the times it was found stalled
    worker,   \* the job each worker runs and where it is in statusProcessor
    handler,  \* what each request handler read and is about to write
    touched,  \* history: orders a request or the script intervened in
    lapsed    \* history: orders whose job was lost to a fault or ran too early

counts == <<tries, stalls>>
vars == <<row, status, job, counts, worker, handler, touched, lapsed>>

Idle == [pc |-> "idle"]

Init ==
    /\ row = [o \in Orders |-> "absent"]
    /\ status = [o \in Orders |-> "pending"]
    /\ job = [o \in Orders |-> [t \in Targets |-> "none"]]
    /\ tries = [o \in Orders |-> [t \in Targets |-> 0]]
    /\ stalls = [o \in Orders |-> [t \in Targets |-> 0]]
    /\ worker = [w \in Workers |-> Idle]
    /\ handler = [h \in Handlers |-> Idle]
    /\ touched = {}
    /\ lapsed = {}

\* Queue.add ignores a jobId that exists, finished jobs included.
AddJob(js, o, t) ==
    IF js[o][t] = "none" THEN [js EXCEPT ![o][t] = "delayed"] ELSE js

scheduleStatusUpdateJob(js, o, currentStatus) ==
    IF currentStatus \in DOMAIN nextStatusMap
    THEN AddJob(js, o, nextStatusMap[currentStatus])
    ELSE js

-----------------------------------------------------------------------------
(* createOrder                                                               *)

CreateInsertWrongStatus(o) ==
    /\ row[o] = "absent"
    /\ row' = [row EXCEPT ![o] = "inserting"]
    /\ job' = scheduleStatusUpdateJob(job, o, "processing")
    /\ UNCHANGED <<status, counts, worker, handler, touched, lapsed>>

\* The afterCreate hook schedules the first job before the commit.
CreateInsert(o) ==
    /\ row[o] = "absent"
    /\ row' = [row EXCEPT ![o] = "inserting"]
    /\ job' = scheduleStatusUpdateJob(job, o, "pending")
    /\ UNCHANGED <<status, counts, worker, handler, touched, lapsed>>

\* The afterCommit callback schedules it again.
CreateCommit(o) ==
    /\ row[o] = "inserting"
    /\ row' = [row EXCEPT ![o] = "live"]
    /\ job' = scheduleStatusUpdateJob(job, o, "pending")
    /\ UNCHANGED <<status, counts, worker, handler, touched, lapsed>>

CreateRollback(o) ==
    /\ row[o] = "inserting"
    /\ row' = [row EXCEPT ![o] = "aborted"]
    /\ UNCHANGED <<status, job, counts, worker, handler, touched, lapsed>>

-----------------------------------------------------------------------------
(* statusProcessor, one job in one worker                                    *)

\* The delay is over and a free worker takes the job.
TakeJobOnce(w, o, t) ==
    /\ worker[w].pc = "idle"
    /\ job[o][t] = "delayed" /\ tries[o][t] = 0
    /\ job' = [job EXCEPT ![o][t] = "active"]
    /\ worker' = [worker EXCEPT ![w] = [pc |-> "read", o |-> o, t |-> t]]
    /\ UNCHANGED <<row, status, counts, handler, touched, lapsed>>

TakeJob(w, o, t) ==
    /\ worker[w].pc = "idle"
    /\ job[o][t] = "delayed"
    /\ job' = [job EXCEPT ![o][t] = "active"]
    /\ worker' = [worker EXCEPT ![w] = [pc |-> "read", o |-> o, t |-> t]]
    /\ UNCHANGED <<row, status, counts, handler, touched, lapsed>>

SkipsDeletedOnly(o, t) == row[o] # "live" \/ status[o] \in {"delivered", t}

\* findByPk hides a row that is deleted or not committed.
Skips(o, t) == row[o] # "live" \/ status[o] \in {"cancelled", "delivered", t}

ReadOrder(w) ==
    LET o == worker[w].o IN
    /\ worker[w].pc = "read"
    /\ worker' = [worker EXCEPT ![w].pc =
                    IF Skips(o, worker[w].t) THEN "complete" ELSE "update"]
    /\ lapsed' = IF row[o] = "inserting" THEN lapsed \cup {o} ELSE lapsed
    /\ UNCHANGED <<row, status, job, counts, handler, touched>>

UpdateOrderStopsEarly(w) ==
    /\ worker[w].pc = "update"
    /\ status' = [status EXCEPT ![worker[w].o] = worker[w].t]
    /\ worker' = [worker EXCEPT ![w].pc =
                    IF worker[w].t # "shipped" THEN "schedule" ELSE "complete"]
    /\ UNCHANGED <<row, job, counts, handler, touched, lapsed>>

UpdateOrder(w) ==
    /\ worker[w].pc = "update"
    /\ status' = [status EXCEPT ![worker[w].o] = worker[w].t]
    /\ worker' = [worker EXCEPT ![w].pc =
                    IF worker[w].t # "delivered" THEN "schedule" ELSE "complete"]
    /\ UNCHANGED <<row, job, counts, handler, touched, lapsed>>

ScheduleNextWithoutStatus(w) ==
    /\ worker[w].pc = "schedule"
    /\ job' = scheduleStatusUpdateJob(job, worker[w].o, "undefined")
    /\ worker' = [worker EXCEPT ![w].pc = "complete"]
    /\ UNCHANGED <<row, status, counts, handler, touched, lapsed>>

ScheduleNext(w) ==
    /\ worker[w].pc = "schedule"
    /\ job' = scheduleStatusUpdateJob(job, worker[w].o, worker[w].t)
    /\ worker' = [worker EXCEPT ![w].pc = "complete"]
    /\ UNCHANGED <<row, status, counts, handler, touched, lapsed>>

CompleteJob(w) ==
    /\ worker[w].pc = "complete"
    /\ job' = [job EXCEPT ![worker[w].o][worker[w].t] = "completed"]
    /\ worker' = [worker EXCEPT ![w] = Idle]
    /\ UNCHANGED <<row, status, counts, handler, touched, lapsed>>

\* An await of the processor rejects; Bull tries the job again or gives it up.
ThrowJob(w) ==
    LET o == worker[w].o
        t == worker[w].t
        again == tries[o][t] + 1 < Attempts
    IN
    /\ worker[w].pc \in {"read", "update", "schedule"}
    /\ job' = [job EXCEPT ![o][t] = IF again THEN "delayed" ELSE "failed"]
    /\ tries' = [tries EXCEPT ![o][t] = @ + 1]
    /\ lapsed' = IF again /\ worker[w].pc # "schedule" THEN lapsed ELSE lapsed \cup {o}
    /\ worker' = [worker EXCEPT ![w] = Idle]
    /\ UNCHANGED <<row, status, stalls, handler, touched>>

\* The process dies and restarts; Bull finds the job stalled.
CrashWorker(w) ==
    LET o == worker[w].o
        t == worker[w].t
        again == stalls[o][t] < MaxStalls
    IN
    /\ worker[w].pc # "idle"
    /\ job' = [job EXCEPT ![o][t] = IF again THEN "delayed" ELSE "failed"]
    /\ stalls' = [stalls EXCEPT ![o][t] = @ + 1]
    /\ lapsed' = IF again /\ worker[w].pc \in {"read", "update"} THEN lapsed
                 ELSE lapsed \cup {o}
    /\ worker' = [worker EXCEPT ![w] = Idle]
    /\ UNCHANGED <<row, status, tries, handler, touched>>

-----------------------------------------------------------------------------
(* The other request handlers: read and decide, then write                   *)

\* save and update write a column only if it differs from the value read.
Changed(o, s) == IF s = status[o] THEN "unchanged" ELSE s

Begin(h, o, what, s) ==
    /\ handler[h].pc = "idle"
    /\ handler' = [handler EXCEPT ![h] = [pc |-> what, o |-> o, put |-> Changed(o, s)]]
    /\ UNCHANGED <<row, status, job, counts, worker, touched, lapsed>>

ModifiableAlways(o) == row[o] = "live"

\* A row the default scope finds, and whose status may still be changed.
Modifiable(o) == row[o] = "live" /\ status[o] # "delivered"

updateOrder(h, c, o, s) ==
    /\ Modifiable(o)
    /\ c = Owner[o]
    /\ s \in Statuses \cup {""}
    /\ Begin(h, o, "save", IF s = "" THEN status[o] ELSE s)

PatchAnything(h, o, s) == Modifiable(o) /\ Begin(h, o, "save", s)

patchOrderStatus(h, o, s) ==
    /\ Modifiable(o)
    /\ s \in Statuses
    /\ Begin(h, o, "save", s)

softDeleteOrder(h, o) == Modifiable(o) /\ Begin(h, o, "delete", "cancelled")

restoreOrder(h, o) == row[o] = "deleted" /\ Begin(h, o, "restore", "pending")

Put(h) ==
    IF handler[h].put = "unchanged" THEN status
    ELSE [status EXCEPT ![handler[h].o] = handler[h].put]

Write(h, what, newRow) ==
    /\ handler[h].pc = what
    /\ status' = Put(h)
    /\ row' = newRow
    /\ handler' = [handler EXCEPT ![h] = Idle]
    /\ touched' = touched \cup {handler[h].o}

Save(h) == Write(h, "save", row) /\ UNCHANGED <<job, counts, worker, lapsed>>

CommitDelete(h) ==
    /\ Write(h, "delete", [row EXCEPT ![handler[h].o] = "deleted"])
    /\ UNCHANGED <<job, counts, worker, lapsed>>

\* The schedule call of restoreOrder passes the order's id and no status.
CommitRestore(h) ==
    /\ Write(h, "restore", [row EXCEPT ![handler[h].o] = "live"])
    /\ job' = scheduleStatusUpdateJob(job, handler[h].o, "undefined")
    /\ UNCHANGED <<counts, worker, lapsed>>

\* The statement or the commit fails, or the server dies.
FailRequest(h) ==
    /\ handler[h].pc # "idle"
    /\ handler' = [handler EXCEPT ![h] = Idle]
    /\ UNCHANGED <<row, status, job, counts, worker, touched, lapsed>>

\* scripts/rescheduleOrder.js; the delay it passes is not a parameter.
rescheduleOrder(o) ==
    LET js1 == scheduleStatusUpdateJob(job, o, "processing")
        js2 == scheduleStatusUpdateJob(js1, o, "shipped")
    IN
    /\ job' = scheduleStatusUpdateJob(js2, o, "delivered")
    /\ touched' = touched \cup {o}
    /\ UNCHANGED <<row, status, counts, worker, handler, lapsed>>

-----------------------------------------------------------------------------
JobStep(w) == ReadOrder(w) \/ UpdateOrder(w) \/ ScheduleNext(w) \/ CompleteJob(w)

Create(o) == CreateInsert(o) \/ CreateCommit(o) \/ CreateRollback(o)

Request(h) ==
    \/ \E o \in Orders :
        \/ \E s \in Inputs : \/ \E c \in Customers : updateOrder(h, c, o, s)
                             \/ patchOrderStatus(h, o, s)
        \/ softDeleteOrder(h, o)
        \/ restoreOrder(h, o)
    \/ Save(h) \/ CommitDelete(h) \/ CommitRestore(h) \/ FailRequest(h)

Next ==
    \/ \E o \in Orders : Create(o)
    \/ \E w \in Workers : \/ \E o \in Orders, t \in Targets : TakeJob(w, o, t)
                          \/ JobStep(w)
                          \/ ThrowJob(w)
                          \/ CrashWorker(w)
    \/ \E h \in Handlers : Request(h)
    \/ \E o \in Rescheduled : rescheduleOrder(o)

Spec == Init /\ [][Next]_vars

\* Bull hands every job whose delay is over to a free worker, and a worker
\* that neither throws nor dies goes on with its job.  No request is ever
\* obliged to arrive, and faults are never obliged to happen.
Fairness ==
    /\ \A o \in Orders, t \in Targets : WF_vars(\E w \in Workers : TakeJob(w, o, t))
    /\ \A w \in Workers : WF_vars(JobStep(w))

FairSpec == Spec /\ Fairness

-----------------------------------------------------------------------------
(* What the life cycle promises                                              *)

JobStates == {"none", "delayed", "active", "completed", "failed"}

BusyWorker == [pc : {"read", "update", "schedule", "complete"}, o : Orders, t : Targets]
BusyHandler ==
    [pc : {"save", "delete", "restore"}, o : Orders, put : Statuses \cup {"unchanged"}]

\* Every variable stays in its type.
TypeOK ==
    /\ row \in [Orders -> {"absent", "inserting", "aborted", "live", "deleted"}]
    /\ status \in [Orders -> Statuses]
    /\ job \in [Orders -> [Targets -> JobStates]]
    /\ tries \in [Orders -> [Targets -> Nat]]
    /\ stalls \in [Orders -> [Targets -> Nat]]
    /\ worker \in [Workers -> {Idle} \cup BusyWorker]
    /\ handler \in [Handlers -> {Idle} \cup BusyHandler]
    /\ touched \subseteq Orders
    /\ lapsed \subseteq Orders

\* An order nobody intervened in and no fault set back.
Undisturbed(o) == o \notin touched \cup lapsed

Runs(w, o, t, where) ==
    worker[w].pc \in where /\ worker[w].o = o /\ worker[w].t = t

\* An undisturbed order that is not delivered always has somebody who will move
\* it on: its next job waits or runs, or the job that gave it its status is
\* about to schedule the next.  Scheduling twice, in the hook and after the
\* commit, and retrying a job that failed before its update do no harm.
SomeoneMovesOn ==
    \A o \in Orders :
        row[o] = "live" /\ Undisturbed(o) /\ status[o] # "delivered" =>
            /\ status[o] \in DOMAIN nextStatusMap
            /\ \/ job[o][nextStatusMap[status[o]]] = "delayed"
               \/ \E w \in Workers :
                    \/ Runs(w, o, nextStatusMap[status[o]], {"read", "update"})
                    \/ Runs(w, o, status[o], {"schedule"})

\* The status of an undisturbed order changes only by one step along
\* nextStatusMap, whatever two workers, retries and stalled jobs do.
OneStepForward ==
    [][\A o \in Orders :
        status'[o] # status[o] /\ o \notin touched' \cup lapsed' =>
            /\ status[o] \in DOMAIN nextStatusMap
            /\ status'[o] = nextStatusMap[status[o]]]_vars

\* A delivered order, and nobody who passed the checks before it was delivered
\* is about to write it.
Settled(o) ==
    /\ row[o] = "live" /\ status[o] = "delivered"
    /\ \A h \in Handlers : handler[h].pc # "idle" => handler[h].o # o
    /\ \A w \in Workers : worker[w].pc = "update" => worker[w].o # o

\* "Delivered orders cannot be updated" (updateOrder), "cannot be modified"
\* (patchOrderStatus), "cannot be deleted" (softDeleteOrder): the checks of the
\* handlers and of statusProcessor keep a delivered order as it is for ever,
\* once the writers that read it earlier are through.
DeliveredSettles == [][\A o \in Orders : Settled(o) => Settled(o)']_vars

\* A deleted or cancelled order, and no job that read it before is about to
\* write it.
Closed(o) ==
    /\ row[o] = "deleted" \/ (row[o] = "live" /\ status[o] = "cancelled")
    /\ \A w \in Workers : worker[w].pc = "update" => worker[w].o # o

\* "is either deleted or cancelled. Skipping..." (statusProcessor): once the jobs
\* that read an order before its cancellation or deletion are through, no job,
\* retry or stalled job brings it back; only a request does.
JobsLeaveClosed ==
    [][\A o \in Orders : Closed(o) => Closed(o)' \/ handler' # handler]_vars

\* Every order that stays undisturbed is delivered.
Delivered ==
    \A o \in Orders : row[o] = "live" ~> status[o] = "delivered" \/ ~Undisturbed(o)

-----------------------------------------------------------------------------
(* What the documentation and the messages of the code say beyond that, and  *)
(* the code does not keep                                                    *)

\* "pending -> processing -> shipped -> delivered" (README.md:80), when an attempt
\* of a job fails and attempts are left: an order under way that nobody
\* intervened in, none of whose jobs was given up, still has a job that is
\* waiting or running.
RetriesKeepMoving ==
    \A o \in Orders :
        /\ row[o] = "live" /\ o \notin touched
        /\ status[o] \in {"processing", "shipped"}
        /\ \A t \in Targets : job[o][t] # "failed"
        => \E t \in Targets : job[o][t] \in {"delayed", "active"}
=============================================================================
