------------------------------ MODULE JobQueue ------------------------------
(***************************************************************************)
(* The backend's persistent job queue: JobRepository and JobManager of     *)
(* backend/homelab_backend/jobs.py, the HTTP handlers that put work into   *)
(* it, and the host and custom-task rows the jobs refer to.                *)
(*                                                                         *)
(* One action is one database call (each is a single SQLite transaction    *)
(* run in a thread) or one stretch of event-loop code between two awaits,  *)
(* so handlers, workers, deletions and shutdowns interleave exactly where  *)
(* the code awaits.  rows, hosts, tasks, checked and clock are on disk;    *)
(* everything else is lost by Stop.                                        *)
(***************************************************************************)
EXTENDS Naturals, Sequences, FiniteSets

CONSTANTS
    Workers,    \* the worker tasks of one JobManager
    Clients,    \* slots for HTTP requests being handled at the same time
    Hosts,      \* managed hosts; an id is never reused
    Tasks,      \* stored custom tasks
    Actions,    \* the job actions clients ask for
    MaxJobs,    \* bound: jobs ever created
    MaxStops,   \* bound: times the process stops
    MaxFaults,  \* bound: database calls of workers that raise
    None        \* SQL NULL, Python None

AllActions == {"test_connection", "check_updates", "update", "reboot",
               "custom_task"}
\* Actions that run under the host's lock, and those whose result carries a
\* snapshot for the host row.
Locked    == {"update", "reboot", "custom_task"}
Snapshots == {"check_updates", "update"}

\* The error codes a worker stores.
Codes == {"host_not_found", "custom_task_not_found", "custom_task_disabled",
          "execution_failed", "internal_execution_error"}

ASSUME ConstantsAssumption ==
    /\ Workers # {}
    /\ Actions \subseteq AllActions
    /\ MaxJobs \in Nat /\ MaxStops \in Nat /\ MaxFaults \in Nat
    /\ None \notin Hosts /\ None \notin Tasks /\ None \notin Codes

\* Jobs are numbered by created_at, taken just before the row is inserted.
Jobs == 1..MaxJobs

VARIABLES
    rows,     \* table jobs
    hosts,    \* ids in table hosts
    tasks,    \* table custom_tasks: "enabled", "disabled" or "absent"
    checked,  \* hosts whose row carries a status snapshot
    clock,    \* the next created_at
    up,       \* "down", "recovering" or "serving"
    queue,    \* JobManager._queue
    lockQ,    \* JobManager._host_locks: holder first, then FIFO waiters
    pc,       \* where each worker awaits
    local,    \* a worker's local variables in _async_run
    req,      \* requests being handled
    execs,    \* history: how often the executor was started for a job
    stops, faults

disk  == <<rows, hosts, tasks, checked, clock>>
vars  == <<rows, hosts, tasks, checked, clock, up, queue, lockQ, pc, local,
           req, execs, stops, faults>>

NoRow   == [state |-> "absent", action |-> None, host |-> None,
            task |-> None, error |-> None]
NoLocal == [job |-> 0, action |-> None, host |-> None, task |-> None,
            enabled |-> FALSE, error |-> None]
NoReq   == [pc |-> "none", job |-> 0, action |-> None, host |-> None,
            task |-> None, rest |-> {}]

Init ==
    /\ rows = [j \in Jobs |-> NoRow]
    /\ hosts = Hosts
    /\ tasks = [t \in Tasks |-> "enabled"]
    /\ checked = {}
    /\ clock = 1
    /\ up = "serving"
    /\ queue = <<>>
    /\ lockQ = [h \in Hosts |-> <<>>]
    /\ pc = [w \in Workers |-> "idle"]
    /\ local = [w \in Workers |-> NoLocal]
    /\ req = [c \in Clients |-> NoReq]
    /\ execs = [j \in Jobs |-> 0]
    /\ stops = 0
    /\ faults = 0

Serving == up = "serving"

-----------------------------------------------------------------------------
(* HTTP handlers: enqueueing.                                              *)

\* The host was found; a built-in action takes its created_at and goes on to
\* the INSERT, a custom task is looked up first.
HostFound(c, a, h, t, rest) ==
    /\ h \in hosts
    /\ IF a = "custom_task"
       THEN /\ req' = [req EXCEPT ![c] =
                         [pc |-> "task", job |-> 0, action |-> a, host |-> h,
                          task |-> t, rest |-> rest]]
            /\ UNCHANGED clock
       ELSE /\ clock \in Jobs
            /\ req' = [req EXCEPT ![c] =
                         [pc |-> "insert", job |-> clock, action |-> a,
                          host |-> h, task |-> None, rest |-> rest]]
            /\ clock' = clock + 1

\* async_enqueue and async_enqueue_custom up to the host lookup.  A missing
\* host answers 404 and changes nothing.
Enqueue(c, a, h, t) ==
    /\ Serving
    /\ req[c].pc = "none"
    /\ (t # None) <=> (a = "custom_task")
    /\ HostFound(c, a, h, t, {})
    /\ UNCHANGED <<rows, hosts, tasks, checked, up, queue, lockQ, pc, local,
                   execs, stops, faults>>

\* async_enqueue_custom: the task lookup; a missing (404) or a disabled (409)
\* task ends the request.
CheckTask(c) ==
    /\ Serving
    /\ req[c].pc = "task"
    /\ IF tasks[req[c].task] = "enabled"
       THEN /\ clock \in Jobs
            /\ req' = [req EXCEPT ![c].pc = "insert", ![c].job = clock]
            /\ clock' = clock + 1
       ELSE /\ req' = [req EXCEPT ![c] = NoReq]
            /\ UNCHANGED clock
    /\ UNCHANGED <<rows, hosts, tasks, checked, up, queue, lockQ, pc, local,
                   execs, stops, faults>>

\* JobRepository.async_create: the INSERT, whose foreign keys refuse a host or
\* a task deleted since its lookup (IntegrityError, the request fails).
Insert(c) ==
    /\ Serving
    /\ req[c].pc = "insert"
    /\ IF /\ req[c].host \in hosts
          /\ req[c].task # None => tasks[req[c].task] # "absent"
       THEN /\ rows' = [rows EXCEPT ![req[c].job] =
                          [state |-> "queued", action |-> req[c].action,
                           host |-> req[c].host, task |-> req[c].task,
                           error |-> None]]
            /\ req' = [req EXCEPT ![c].pc = "put"]
       ELSE /\ req' = [req EXCEPT ![c] = NoReq]
            /\ UNCHANGED rows
    /\ UNCHANGED <<hosts, tasks, checked, clock, up, queue, lockQ, pc, local,
                   execs, stops, faults>>

\* queue.put_nowait; the request is answered, or check_all_hosts goes on to
\* its next host.
Put(c) ==
    /\ Serving
    /\ req[c].pc = "put"
    /\ queue' = Append(queue, req[c].job)
    /\ req' = [req EXCEPT ![c] =
                 IF req[c].rest = {} THEN NoReq
                 ELSE [NoReq EXCEPT !.pc = "next", !.rest = req[c].rest]]
    /\ UNCHANGED <<rows, hosts, tasks, checked, clock, up, lockQ, pc, local,
                   execs, stops, faults>>

\* check_all_hosts: the list of hosts is read once.
CheckAll(c) ==
    /\ Serving
    /\ req[c].pc = "none"
    /\ "check_updates" \in Actions
    /\ hosts # {}
    /\ req' = [req EXCEPT ![c] = [NoReq EXCEPT !.pc = "next", !.rest = hosts]]
    /\ UNCHANGED <<rows, hosts, tasks, checked, clock, up, queue, lockQ, pc,
                   local, execs, stops, faults>>

\* One round of check_all_hosts.  A host deleted since the list was read
\* raises KeyError, which ends the whole request after its earlier jobs.
CheckNext(c) ==
    /\ Serving
    /\ req[c].pc = "next"
    /\ \E h \in req[c].rest :
          \/ HostFound(c, "check_updates", h, None, req[c].rest \ {h})
          \/ /\ h \notin hosts
             /\ req' = [req EXCEPT ![c] = NoReq]
             /\ UNCHANGED clock
    /\ UNCHANGED <<rows, hosts, tasks, checked, up, queue, lockQ, pc, local,
                   execs, stops, faults>>

-----------------------------------------------------------------------------
(* HTTP handlers: deletion and custom-task switches.                       *)

\* HostRepository.async_delete; jobs.host_id is ON DELETE SET NULL.
DeleteHost(h) ==
    /\ Serving
    /\ h \in hosts
    /\ hosts' = hosts \ {h}
    /\ checked' = checked \ {h}
    /\ rows' = [j \in Jobs |-> IF rows[j].host = h
                               THEN [rows[j] EXCEPT !.host = None]
                               ELSE rows[j]]
    /\ UNCHANGED <<tasks, clock, up, queue, lockQ, pc, local, req, execs,
                   stops, faults>>

\* CustomTaskRepository.async_delete; jobs.custom_task_id is SET NULL too.
DeleteTask(t) ==
    /\ Serving
    /\ tasks[t] # "absent"
    /\ tasks' = [tasks EXCEPT ![t] = "absent"]
    /\ rows' = [j \in Jobs |-> IF rows[j].task = t
                               THEN [rows[j] EXCEPT !.task = None]
                               ELSE rows[j]]
    /\ UNCHANGED <<hosts, checked, clock, up, queue, lockQ, pc, local, req,
                   execs, stops, faults>>

\* CustomTaskRepository.async_patch, as far as "enabled" goes.
SwitchTask(t) ==
    /\ Serving
    /\ tasks[t] # "absent"
    /\ \E e \in {"enabled", "disabled"} : tasks' = [tasks EXCEPT ![t] = e]
    /\ UNCHANGED <<rows, hosts, checked, clock, up, queue, lockQ, pc, local,
                   req, execs, stops, faults>>

-----------------------------------------------------------------------------
(* The worker loop and _async_run.                                         *)

ActionOf(w) == local[w].action

Goto(w, p) == pc' = [pc EXCEPT ![w] = p]

\* _async_run returned: task_done(), and the loop waits for the next job.
Return(w) ==
    /\ Goto(w, "idle")
    /\ local' = [local EXCEPT ![w] = NoLocal]

\* _finish_failure(code) is called next.
FailWith(w, code) ==
    /\ Goto(w, "fail")
    /\ local' = [local EXCEPT ![w].error = code]

Dequeue(w) ==
    /\ Serving
    /\ pc[w] = "idle"
    /\ queue # <<>>
    /\ queue' = Tail(queue)
    /\ local' = [local EXCEPT ![w].job = Head(queue)]
    /\ Goto(w, "readJob")
    /\ UNCHANGED <<rows, hosts, tasks, checked, clock, up, lockQ, req, execs,
                   stops, faults>>

\* JobRepository.async_get: a job without a host is dropped as it is.
ReadJob(w) ==
    /\ pc[w] = "readJob"
    /\ LET row == rows[local[w].job] IN
          IF row.host = None
          THEN Return(w)
          ELSE /\ Goto(w, "readHost")
               /\ local' = [local EXCEPT ![w].action = row.action,
                                         ![w].host = row.host,
                                         ![w].task = row.task]
    /\ UNCHANGED <<rows, hosts, tasks, checked, clock, up, queue, lockQ, req,
                   execs, stops, faults>>

ReadHost(w) ==
    /\ pc[w] = "readHost"
    /\ IF local[w].host \in hosts
       THEN Goto(w, "claim") /\ UNCHANGED local
       ELSE FailWith(w, "host_not_found")
    /\ UNCHANGED <<rows, hosts, tasks, checked, clock, up, queue, lockQ, req,
                   execs, stops, faults>>

\* JobRepository.async_claim: UPDATE ... WHERE state = 'queued'.
Claim(w) ==
    /\ pc[w] = "claim"
    /\ IF rows[local[w].job].state = "queued"
       THEN /\ rows' = [rows EXCEPT ![local[w].job].state = "running"]
            /\ CASE ActionOf(w) = "custom_task" /\ local[w].task = None ->
                      FailWith(w, "custom_task_not_found")
                 [] ActionOf(w) = "custom_task" /\ local[w].task # None ->
                      Goto(w, "readTask") /\ UNCHANGED local
                 [] ActionOf(w) \in Locked \ {"custom_task"} ->
                      Goto(w, "enter") /\ UNCHANGED local
                 [] OTHER ->
                      Goto(w, "start") /\ UNCHANGED local
       ELSE Return(w) /\ UNCHANGED rows
    /\ UNCHANGED <<hosts, tasks, checked, clock, up, queue, lockQ, req, execs,
                   stops, faults>>

\* CustomTaskRepository.async_get: the worker keeps its copy of the task.
ReadTask(w) ==
    /\ pc[w] = "readTask"
    /\ LET t == tasks[local[w].task] IN
          IF t = "absent"
          THEN FailWith(w, "custom_task_not_found")
          ELSE /\ Goto(w, "enter")
               /\ local' = [local EXCEPT ![w].enabled = (t = "enabled")]
    /\ UNCHANGED <<rows, hosts, tasks, checked, clock, up, queue, lockQ, req,
                   execs, stops, faults>>

\* Mutation: "_host_locks[host.id] = Lock()" instead of setdefault.
EnterFreshLock(w) ==
    /\ pc[w] = "enter"
    /\ lockQ' = [lockQ EXCEPT ![local[w].host] = <<w>>]
    /\ Goto(w, "start")
    /\ UNCHANGED <<rows, hosts, tasks, checked, clock, up, queue, local, req,
                   execs, stops, faults>>

\* "async with lock": join the host's FIFO.
EnterLock(w) ==
    /\ pc[w] = "enter"
    /\ lockQ' = [lockQ EXCEPT ![local[w].host] = Append(@, w)]
    /\ Goto(w, "start")
    /\ UNCHANGED <<rows, hosts, tasks, checked, clock, up, queue, local, req,
                   execs, stops, faults>>

Holds(w) == lockQ[local[w].host] # <<>> /\ Head(lockQ[local[w].host]) = w

\* Mutation: the lock of a custom task is acquired but not released.
ReleaseBuiltIn(w) ==
    IF ActionOf(w) \in Locked \ {"custom_task"}
    THEN lockQ' = [lockQ EXCEPT ![local[w].host] = Tail(@)]
    ELSE UNCHANGED lockQ

\* Leaving the "async with", if the action took the lock.
Release(w) ==
    IF ActionOf(w) \in Locked
    THEN lockQ' = [lockQ EXCEPT ![local[w].host] = Tail(@)]
    ELSE UNCHANGED lockQ

\* The executor is called, under the lock if the action needs it.  It refuses
\* a disabled custom task before anything reaches the host.
Start(w) ==
    /\ pc[w] = "start"
    /\ ActionOf(w) \in Locked => Holds(w)
    /\ IF ActionOf(w) = "custom_task" /\ ~local[w].enabled
       THEN /\ FailWith(w, "custom_task_disabled")
            /\ Release(w)
            /\ UNCHANGED execs
       ELSE /\ Goto(w, "exec")
            /\ execs' = [execs EXCEPT ![local[w].job] = @ + 1]
            /\ UNCHANGED <<local, lockQ>>
    /\ UNCHANGED <<rows, hosts, tasks, checked, clock, up, queue, req, stops,
                   faults>>

\* Mutation: only an update stores its snapshot.
ExecutedUnstored(w) ==
    /\ pc[w] = "exec"
    /\ Release(w)
    /\ \/ /\ Goto(w, IF ActionOf(w) = "update" THEN "status"
                      ELSE "finish")
          /\ UNCHANGED local
       \/ FailWith(w, "execution_failed")
    /\ UNCHANGED <<rows, hosts, tasks, checked, clock, up, queue, req, execs,
                   stops, faults>>

\* Mutation: a failed execution is tried again.
ExecutedRetry(w) ==
    /\ pc[w] = "exec"
    /\ \/ /\ Goto(w, IF ActionOf(w) \in Snapshots THEN "status" ELSE "finish")
          /\ Release(w)
       \/ Goto(w, "start") /\ UNCHANGED lockQ
    /\ UNCHANGED <<rows, hosts, tasks, checked, clock, up, queue, local, req,
                   execs, stops, faults>>

\* The executor returns or raises; the command timeout makes sure it does.
Executed(w) ==
    /\ pc[w] = "exec"
    /\ Release(w)
    /\ \/ /\ Goto(w, IF ActionOf(w) \in Snapshots THEN "status" ELSE "finish")
          /\ UNCHANGED local
       \/ FailWith(w, "execution_failed")
    /\ UNCHANGED <<rows, hosts, tasks, checked, clock, up, queue, req, execs,
                   stops, faults>>

\* Mutation: an upsert, which brings a deleted host back.
StoreStatusUpsert(w) ==
    /\ pc[w] = "status"
    /\ checked' = checked \cup {local[w].host}
    /\ Goto(w, "finish")
    /\ UNCHANGED <<rows, hosts, tasks, clock, up, queue, lockQ, local, req,
                   execs, stops, faults>>

\* HostRepository.async_update_status: no row, no effect.
StoreStatus(w) ==
    /\ pc[w] = "status"
    /\ checked' = checked \cup ({local[w].host} \cap hosts)
    /\ Goto(w, "finish")
    /\ UNCHANGED <<rows, hosts, tasks, clock, up, queue, lockQ, local, req,
                   execs, stops, faults>>

\* JobRepository.async_finish: terminal state and log in one transaction.
FinishSuccess(w) ==
    /\ pc[w] = "finish"
    /\ rows' = [rows EXCEPT ![local[w].job].state = "success"]
    /\ Return(w)
    /\ UNCHANGED <<hosts, tasks, checked, clock, up, queue, lockQ, req, execs,
                   stops, faults>>

\* Mutation: the error code is not stored.
FinishFailureNoCode(w) ==
    /\ pc[w] = "fail"
    /\ rows' = [rows EXCEPT ![local[w].job].state = "failed"]
    /\ Return(w)
    /\ UNCHANGED <<hosts, tasks, checked, clock, up, queue, lockQ, req, execs,
                   stops, faults>>

\* Mutation: a failed job is left queued for the next start.
FinishFailureLater(w) ==
    /\ pc[w] = "fail"
    /\ rows' = [rows EXCEPT ![local[w].job].state = "queued"]
    /\ Return(w)
    /\ UNCHANGED <<hosts, tasks, checked, clock, up, queue, lockQ, req, execs,
                   stops, faults>>

FinishFailure(w) ==
    /\ pc[w] = "fail"
    /\ rows' = [rows EXCEPT ![local[w].job].state = "failed",
                            ![local[w].job].error = local[w].error]
    /\ Return(w)
    /\ UNCHANGED <<hosts, tasks, checked, clock, up, queue, lockQ, req, execs,
                   stops, faults>>

\* A database call of the worker raises (locked or full database).  Inside the
\* try block that is an internal_execution_error; before it, or in a handler,
\* nothing catches it: the worker task ends and is never replaced.
DatabaseFault(w) ==
    /\ faults < MaxFaults
    /\ faults' = faults + 1
    /\ \/ /\ \/ pc[w] \in {"readTask", "status", "finish"}
             \/ pc[w] = "fail" /\ local[w].error = "custom_task_not_found"
          /\ FailWith(w, "internal_execution_error")
       \/ /\ \/ pc[w] \in {"readJob", "readHost", "claim"}
             \/ pc[w] = "fail" /\ local[w].error # "custom_task_not_found"
          /\ Goto(w, "dead")
          /\ UNCHANGED local
    /\ UNCHANGED <<rows, hosts, tasks, checked, clock, up, queue, lockQ, req,
                   execs, stops>>

-----------------------------------------------------------------------------
(* The life of the process.                                                *)

\* Mutation: the same manager is started again with its old queue.
StopKeepsQueue ==
    /\ up # "down"
    /\ stops < MaxStops
    /\ up' = "down"
    /\ lockQ' = [h \in Hosts |-> <<>>]
    /\ pc' = [w \in Workers |-> "idle"]
    /\ local' = [w \in Workers |-> NoLocal]
    /\ req' = [c \in Clients |-> NoReq]
    /\ stops' = stops + 1
    /\ UNCHANGED <<disk, queue, execs, faults>>

\* async_stop cancels the workers at whatever they await, or the process dies:
\* only the tables survive.
Stop ==
    /\ up # "down"
    /\ stops < MaxStops
    /\ up' = "down"
    /\ queue' = <<>>
    /\ lockQ' = [h \in Hosts |-> <<>>]
    /\ pc' = [w \in Workers |-> "idle"]
    /\ local' = [w \in Workers |-> NoLocal]
    /\ req' = [c \in Clients |-> NoReq]
    /\ stops' = stops + 1
    /\ UNCHANGED <<disk, execs, faults>>

\* Mutation: interrupted jobs are left running.
RequeueNothing ==
    /\ up = "down"
    /\ up' = "recovering"
    /\ UNCHANGED <<disk, queue, lockQ, pc, local, req, execs, stops, faults>>

\* Mutation: failed jobs are recovered too.
RequeueFailed ==
    /\ up = "down"
    /\ up' = "recovering"
    /\ rows' = [j \in Jobs |-> IF rows[j].state \in {"running", "failed"}
                               THEN [rows[j] EXCEPT !.state = "queued"]
                               ELSE rows[j]]
    /\ UNCHANGED <<hosts, tasks, checked, clock, queue, lockQ, pc, local, req,
                   execs, stops, faults>>

\* async_recover_queued, first statement: what was running is queued again.
Requeue ==
    /\ up = "down"
    /\ up' = "recovering"
    /\ rows' = [j \in Jobs |-> IF rows[j].state = "running"
                               THEN [rows[j] EXCEPT !.state = "queued"]
                               ELSE rows[j]]
    /\ UNCHANGED <<hosts, tasks, checked, clock, queue, lockQ, pc, local, req,
                   execs, stops, faults>>

Queued == {j \in Jobs : rows[j].state = "queued"}

\* q lists S in the order of created_at.
InCreationOrder(q, S) ==
    /\ \A j \in S : \E i \in 1..Len(q) : q[i] = j
    /\ \A i, k \in 1..Len(q) : i < k => q[i] < q[k]

\* Mutation: only one queued job is loaded.
LoadOne ==
    /\ up = "recovering"
    /\ queue' = IF Queued = {} THEN queue
                ELSE Append(queue, CHOOSE j \in Queued : TRUE)
    /\ up' = "serving"
    /\ UNCHANGED <<disk, lockQ, pc, local, req, execs, stops, faults>>

\* async_recover_queued, second statement, and the rest of async_start.
LoadQueue ==
    /\ up = "recovering"
    /\ \E n \in 0..MaxJobs : \E q \in [1..n -> Queued] :
          InCreationOrder(q, Queued) /\ queue' = queue \o q
    /\ up' = "serving"
    /\ UNCHANGED <<disk, lockQ, pc, local, req, execs, stops, faults>>

-----------------------------------------------------------------------------
WorkerStep(w) ==
    \/ Dequeue(w) \/ ReadJob(w) \/ ReadHost(w) \/ Claim(w) \/ ReadTask(w)
    \/ EnterLock(w) \/ Start(w) \/ Executed(w) \/ StoreStatus(w)
    \/ FinishSuccess(w) \/ FinishFailure(w)

HandlerStep(c) == CheckTask(c) \/ Insert(c) \/ Put(c) \/ CheckNext(c)

Arrival(c) ==
    \/ \E a \in Actions, h \in Hosts, t \in Tasks \cup {None} :
          Enqueue(c, a, h, t)
    \/ CheckAll(c)

Next ==
    \/ \E c \in Clients : Arrival(c) \/ HandlerStep(c)
    \/ \E h \in Hosts : DeleteHost(h)
    \/ \E t \in Tasks : DeleteTask(t) \/ SwitchTask(t)
    \/ \E w \in Workers : WorkerStep(w) \/ DatabaseFault(w)
    \/ Stop \/ Requeue \/ LoadQueue

Spec == Init /\ [][Next]_vars

\* Awaited calls return, the executor ends by its timeout, and a stopped
\* backend is started again.
Fairness ==
    /\ \A w \in Workers : WF_vars(WorkerStep(w))
    /\ \A c \in Clients : WF_vars(HandlerStep(c))
    /\ WF_vars(Requeue) /\ WF_vars(LoadQueue)

FairSpec == Spec /\ Fairness

-----------------------------------------------------------------------------
(* Properties.                                                             *)

JobStates == {"absent", "queued", "running", "success", "failed"}
Terminal  == {"success", "failed"}
WorkerPcs == {"idle", "readJob", "readHost", "claim", "readTask", "enter",
              "start", "exec", "status", "finish", "fail", "dead"}

Rows   == [state : JobStates, action : AllActions \cup {None},
           host : Hosts \cup {None}, task : Tasks \cup {None},
           error : Codes \cup {None}]
Locals == [job : Jobs \cup {0}, action : AllActions \cup {None},
           host : Hosts \cup {None}, task : Tasks \cup {None}, enabled : BOOLEAN,
           error : Codes \cup {None}]
Reqs   == [pc : {"none", "task", "insert", "put", "next"}, job : Jobs \cup {0},
           action : AllActions \cup {None}, host : Hosts \cup {None},
           task : Tasks \cup {None}, rest : SUBSET Hosts]

\* Every variable keeps its type: the tables, the queue and what workers and
\* handlers remember across an await.
TypeOK ==
    /\ rows \in [Jobs -> Rows]
    /\ hosts \subseteq Hosts
    /\ tasks \in [Tasks -> {"enabled", "disabled", "absent"}]
    /\ checked \subseteq hosts
    /\ clock \in 1..(MaxJobs + 1)
    /\ up \in {"down", "recovering", "serving"}
    /\ queue \in Seq(Jobs)
    /\ lockQ \in [Hosts -> Seq(Workers)]
    /\ pc \in [Workers -> WorkerPcs]
    /\ local \in [Workers -> Locals]
    /\ req \in [Clients -> Reqs]
    /\ execs \in [Jobs -> Nat]
    /\ stops \in 0..MaxStops
    /\ faults \in 0..MaxFaults

\* REQ-BCK-004: updates, reboots and custom tasks of one host never execute at
\* the same time, whatever the pool, cancellations and failures do.
SerializedPerHost ==
    \A v, w \in Workers :
        /\ pc[v] = "exec" /\ pc[w] = "exec"
        /\ ActionOf(v) \in Locked /\ ActionOf(w) \in Locked
        /\ local[v].host = local[w].host
        => v = w

\* Workers past the claim: the row they own is theirs alone.
Owning == {"readTask", "enter", "start", "exec", "status", "finish"}

\* Two workers never process the same job, though a job id reaches the queue
\* both from handlers and from the recovery.
OneWorkerPerJob ==
    \A v, w \in Workers :
        local[v].job = local[w].job /\ local[v].job # 0 => v = w

\* While the backend serves, no job is lost: a running row has a worker that
\* will finish it, and a queued row is in the queue, in a handler about to put
\* it there, or with a worker, unless its host is gone.  A worker that a
\* database error ended keeps its job until the next start.
NoJobLost ==
    Serving =>
        \A j \in Jobs :
            /\ rows[j].state = "running" =>
                  \E w \in Workers : local[w].job = j
                                    /\ pc[w] \in Owning \cup {"fail", "dead"}
            /\ rows[j].state = "queued" =>
                  \/ \E i \in 1..Len(queue) : queue[i] = j
                  \/ \E w \in Workers : local[w].job = j
                  \/ \E c \in Clients : req[c].pc = "put" /\ req[c].job = j
                  \/ rows[j].host = None

\* A job starts executing at most once per life of the process: only a restart
\* repeats an update or a reboot.
OncePerLife == \A j \in Jobs : execs[j] <= stops + 1

\* A success was executed, a failure names its code, and nothing else does.
OutcomeJustified ==
    \A j \in Jobs :
        /\ rows[j].state = "success" => execs[j] > 0
        /\ (rows[j].state = "failed") <=> (rows[j].error # None)

\* REQ-CMD-004: when a check or an update of an existing host reads as
\* successful, the host row already carries a snapshot.
SuccessHasStatus ==
    \A j \in Jobs :
        rows[j].state = "success" /\ rows[j].action \in Snapshots
        /\ rows[j].host # None => rows[j].host \in checked

\* No lock is leaked: every worker in a host's lock queue is about to execute
\* or executing a job of that host.
NoLockLeaked ==
    \A h \in Hosts : \A i \in 1..Len(lockQ[h]) :
        LET w == lockQ[h][i] IN
            /\ pc[w] \in {"start", "exec"}
            /\ local[w].host = h
            /\ ActionOf(w) \in Locked

\* A stored outcome is final: no retry, late failure or recovery rewrites it.
TerminalIsFinal ==
    [][\A j \in Jobs : rows[j].state \in Terminal =>
          /\ rows'[j].state = rows[j].state
          /\ rows'[j].error = rows[j].error]_vars

\* Without database errors every job is finished in the end, unless its host
\* is deleted before a worker reads it; a claimed job whose host is deleted
\* later still ends, or is queued again by a restart and left there.
JobsEnd ==
    \A j \in Jobs :
        /\ rows[j].state \in {"queued", "running"} ~>
              rows[j].state \in Terminal \/ rows[j].host = None
        /\ rows[j].state = "running" ~>
              \/ rows[j].state \in Terminal
              \/ rows[j].state = "queued" /\ rows[j].host = None

\* native-backend.md: "Ein fehlender oder geloeschter Zielhost fuehrt zu einem
\* sicheren Fehlercode": with all work done, no job of a deleted host is left
\* without its code.
DeletedHostFails ==
    /\ Serving /\ queue = <<>>
    /\ \A w \in Workers : pc[w] = "idle"
    /\ \A c \in Clients : req[c].pc = "none"
    => \A j \in Jobs :
          rows[j].state # "absent" /\ rows[j].host = None =>
              rows[j].state \in Terminal

-----------------------------------------------------------------------------
(* The promise of JobLifecycle, read off the concrete state.               *)

\* The mutating jobs at work, each with the host its worker was given.
Active ==
    {[job |-> local[w].job, host |-> local[w].host] :
        w \in {v \in Workers : pc[v] = "exec" /\ ActionOf(v) \in Locked}}

Lifecycle == INSTANCE JobLifecycle WITH
    state  <- [j \in Jobs |-> rows[j].state],
    active <- Active,
    open   <- Serving

\* The queue implements the lifecycle: every step of a handler, worker, deletion
\* or restart is a step that JobLifecycle allows, or none at all.
ImplementsLifecycle == Lifecycle!Spec

=============================================================================
