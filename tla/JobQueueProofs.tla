--------------------------- MODULE JobQueueProofs ---------------------------
(***************************************************************************)
(* Machine-checked proofs about JobQueue, for every pool of workers, every *)
(* number of clients, hosts, tasks and jobs, and any number of stops and   *)
(* database faults.                                                        *)
(***************************************************************************)
EXTENDS JobQueue, TLAPS

-----------------------------------------------------------------------------
(* Types and control: what a worker or a handler knows where it awaits.    *)

\* Past the host lookup the worker has a host; under the lock it is the head
\* of the host's lock queue.
WorkerOK(w) ==
    /\ pc[w] # "idle" => local[w].job \in Jobs
    /\ pc[w] \notin {"idle", "readJob", "dead"} => local[w].host \in Hosts
    /\ pc[w] = "exec" /\ ActionOf(w) \in Locked => Holds(w)

\* A handler that inserts or puts a job has its id.
HandlerOK(c) == req[c].pc \in {"insert", "put"} => req[c].job \in Jobs

ControlOK == /\ \A w \in Workers : WorkerOK(w)
             /\ \A c \in Clients : HandlerOK(c)

TypeInv == TypeOK /\ ControlOK

USE ConstantsAssumption DEF ConstantsAssumption, Jobs, Serving

LEMMA InitTypeInv == Init => TypeInv
  BY DEF Init, TypeInv, TypeOK, ControlOK, WorkerOK, HandlerOK, NoRow, NoLocal,
         NoReq, Rows, Locals, Reqs, JobStates, WorkerPcs

\* What a worker may rely on depends on pc, local and lockQ only.
LEMMA WorkersFrame ==
  ASSUME NEW w \in Workers, WorkerOK(w), UNCHANGED <<pc, local, lockQ>>
  PROVE  WorkerOK(w)'
  BY DEF WorkerOK, ActionOf, Holds

LEMMA HandlersFrame ==
  ASSUME NEW c \in Clients, HandlerOK(c), UNCHANGED req
  PROVE  HandlerOK(c)'
  BY DEF HandlerOK

\* A handler's record is replaced by one of the right type.
LEMMA ReqUpdate ==
  ASSUME NEW c \in Clients, NEW r \in Reqs, req \in [Clients -> Reqs],
         \A d \in Clients : HandlerOK(d),
         r.pc \in {"insert", "put"} => r.job \in Jobs,
         req' = [req EXCEPT ![c] = r]
  PROVE  req' \in [Clients -> Reqs] /\ \A d \in Clients : HandlerOK(d)'
  BY DEF HandlerOK

LEMMA NoReqType == NoReq \in Reqs /\ NoReq.pc = "none"
  BY DEF NoReq, Reqs

LEMMA FoundType ==
  ASSUME TypeInv, NEW c \in Clients, NEW a \in AllActions, NEW h \in Hosts,
         NEW t \in Tasks \cup {None}, NEW rest \in SUBSET Hosts,
         HostFound(c, a, h, t, rest)
  PROVE  req' \in [Clients -> Reqs] /\ \A d \in Clients : HandlerOK(d)'
<1> DEFINE toTask == [pc |-> "task", job |-> 0, action |-> a, host |-> h,
                      task |-> t, rest |-> rest]
           toInsert == [pc |-> "insert", job |-> clock, action |-> a,
                        host |-> h, task |-> None, rest |-> rest]
<1>1. toTask \in Reqs /\ toTask.pc = "task"
  BY DEF Reqs
<1>2. clock \in Jobs => toInsert \in Reqs /\ toInsert.job \in Jobs
  BY DEF Reqs
<1>3. \/ req' = [req EXCEPT ![c] = toTask]
      \/ clock \in Jobs /\ req' = [req EXCEPT ![c] = toInsert]
  BY DEF HostFound
<1> QED
  BY <1>1, <1>2, <1>3, ReqUpdate DEF TypeInv, ControlOK, TypeOK

\* The handlers' steps change no worker and no lock.
LEMMA HandlersTypeInv ==
  ASSUME TypeInv, NEW c \in Clients, Arrival(c) \/ HandlerStep(c)
  PROVE  TypeInv'
<1> USE DEF TypeInv, ControlOK
<1>1. ASSUME NEW a \in Actions, NEW h \in Hosts, NEW t \in Tasks \cup {None},
             Enqueue(c, a, h, t)
      PROVE  TypeInv'
  <2>1. \A w \in Workers : WorkerOK(w)'
    BY <1>1, WorkersFrame DEF Enqueue
  <2>2. req' \in [Clients -> Reqs] /\ \A d \in Clients : HandlerOK(d)'
    BY <1>1, FoundType DEF Enqueue
  <2>3. clock' \in 1..(MaxJobs + 1)
    BY <1>1 DEF Enqueue, HostFound, TypeOK
  <2> QED
    BY <1>1, <2>1, <2>2, <2>3 DEF Enqueue, TypeOK
<1>2. CASE CheckAll(c)
  <2>1. \A w \in Workers : WorkerOK(w)'
    BY <1>2, WorkersFrame DEF CheckAll
  <2>2. req' \in [Clients -> Reqs] /\ \A d \in Clients : HandlerOK(d)'
    BY <1>2 DEF CheckAll, TypeOK, Reqs, HandlerOK, NoReq
  <2> QED
    BY <1>2, <2>1, <2>2 DEF CheckAll, TypeOK
<1>3. CASE CheckTask(c)
  <2>1. \A w \in Workers : WorkerOK(w)'
    BY <1>3, WorkersFrame DEF CheckTask
  <2>2. req' \in [Clients -> Reqs] /\ \A d \in Clients : HandlerOK(d)'
    <3>1. CASE req' = [req EXCEPT ![c] = NoReq]
      BY <3>1, ReqUpdate, NoReqType DEF TypeOK
    <3>2. CASE /\ clock \in Jobs
               /\ req' = [req EXCEPT ![c].pc = "insert", ![c].job = clock]
      <4> DEFINE r == [req[c] EXCEPT !.pc = "insert", !.job = clock]
      <4>0. req \in [Clients -> Reqs]
        BY DEF TypeOK
      <4>1. r \in Reqs /\ r.job \in Jobs
        BY <3>2, <4>0 DEF Reqs
      <4>2. req' = [req EXCEPT ![c] = r]
        BY <3>2, <4>0
      <4> HIDE DEF r
      <4> QED
        BY <4>0, <4>1, <4>2, ReqUpdate
    <3> QED
      BY <1>3, <3>1, <3>2 DEF CheckTask
  <2>3. clock' \in 1..(MaxJobs + 1)
    BY <1>3 DEF CheckTask, TypeOK
  <2> QED
    BY <1>3, <2>1, <2>2, <2>3 DEF CheckTask, TypeOK
<1>4. CASE Insert(c)
  <2>1. \A w \in Workers : WorkerOK(w)'
    BY <1>4, WorkersFrame DEF Insert
  <2>2. req' \in [Clients -> Reqs] /\ \A d \in Clients : HandlerOK(d)'
    <3>1. CASE req' = [req EXCEPT ![c] = NoReq]
      BY <3>1, ReqUpdate, NoReqType DEF TypeOK
    <3>2. CASE req' = [req EXCEPT ![c].pc = "put"]
      <4> DEFINE r == [req[c] EXCEPT !.pc = "put"]
      <4>0. req[c] \in Reqs /\ req[c].job \in Jobs
        BY <1>4 DEF Insert, TypeOK, HandlerOK
      <4>1. r \in Reqs /\ r.job \in Jobs
        BY <4>0 DEF Reqs
      <4>2. req' = [req EXCEPT ![c] = r]
        BY <3>2 DEF TypeOK
      <4> QED
        BY <4>1, <4>2, ReqUpdate DEF TypeOK
    <3> QED
      BY <1>4, <3>1, <3>2 DEF Insert
  <2>3. rows' \in [Jobs -> Rows]
    <3> DEFINE row == [state |-> "queued", action |-> req[c].action,
                       host |-> req[c].host, task |-> req[c].task,
                       error |-> None]
    <3>1. row \in Rows
      BY DEF TypeOK, Reqs, Rows, JobStates
    <3>2. UNCHANGED rows \/ rows' = [rows EXCEPT ![req[c].job] = row]
      BY <1>4 DEF Insert
    <3> QED
      BY <3>1, <3>2 DEF TypeOK
  <2> QED
    BY <1>4, <2>1, <2>2, <2>3 DEF Insert, TypeOK
<1>5. CASE Put(c)
  <2>1. \A w \in Workers : WorkerOK(w)'
    BY <1>5, WorkersFrame DEF Put
  <2>2. req' \in [Clients -> Reqs] /\ \A d \in Clients : HandlerOK(d)'
    BY <1>5 DEF Put, TypeOK, Reqs, HandlerOK, NoReq
  <2>3. queue' \in Seq(Jobs)
    BY <1>5 DEF Put, TypeOK, HandlerOK
  <2> QED
    BY <1>5, <2>1, <2>2, <2>3 DEF Put, TypeOK
<1>6. CASE CheckNext(c)
  <2>1. \A w \in Workers : WorkerOK(w)'
    BY <1>6, WorkersFrame DEF CheckNext
  <2>2. req' \in [Clients -> Reqs] /\ \A d \in Clients : HandlerOK(d)'
    <3>1. CASE req' = [req EXCEPT ![c] = NoReq]
      BY <3>1, ReqUpdate, NoReqType DEF TypeOK
    <3>2. ASSUME NEW h \in req[c].rest,
                 HostFound(c, "check_updates", h, None, req[c].rest \ {h})
          PROVE  req' \in [Clients -> Reqs] /\ \A d \in Clients : HandlerOK(d)'
      <4>1. req[c].rest \subseteq Hosts
        BY DEF TypeOK, Reqs
      <4> QED
        BY <3>2, <4>1, FoundType DEF AllActions
    <3> QED
      BY <1>6, <3>1, <3>2 DEF CheckNext
  <2>3. clock' \in 1..(MaxJobs + 1)
    BY <1>6 DEF CheckNext, HostFound, TypeOK
  <2> QED
    BY <1>6, <2>1, <2>2, <2>3 DEF CheckNext, TypeOK
<1> QED
  BY <1>1, <1>2, <1>3, <1>4, <1>5, <1>6 DEF Arrival, HandlerStep

-----------------------------------------------------------------------------
(* One worker moves: pc and local change at w only, and whoever executes   *)
(* under a lock still holds it.                                            *)
LEMMA Move ==
  ASSUME TypeInv, NEW w \in Workers, NEW p \in WorkerPcs, NEW l \in Locals,
         Goto(w, p), local' = [local EXCEPT ![w] = l],
         p # "idle" => l.job \in Jobs,
         p \notin {"idle", "readJob", "dead"} => l.host \in Hosts,
         p = "exec" /\ l.action \in Locked =>
             lockQ'[l.host] # <<>> /\ Head(lockQ'[l.host]) = w,
         \A v \in Workers \ {w} :
             pc[v] = "exec" /\ ActionOf(v) \in Locked =>
                 lockQ'[local[v].host] # <<>> /\ Head(lockQ'[local[v].host]) = v
  PROVE  /\ pc' \in [Workers -> WorkerPcs]
         /\ local' \in [Workers -> Locals]
         /\ \A v \in Workers : WorkerOK(v)'
<1> USE DEF TypeInv, TypeOK, ControlOK
<1>1. pc' \in [Workers -> WorkerPcs] /\ local' \in [Workers -> Locals]
  BY DEF Goto
<1>2. WorkerOK(w)'
  BY DEF Goto, WorkerOK, ActionOf, Holds
<1>3. ASSUME NEW v \in Workers \ {w}
      PROVE  WorkerOK(v)'
  <2>1. pc'[v] = pc[v] /\ local'[v] = local[v]
    BY DEF Goto
  <2> QED
    BY <2>1 DEF WorkerOK, ActionOf, Holds
<1> QED
  BY <1>1, <1>2, <1>3

\* The same with the lock queues unchanged.
LEMMA MoveSameLocks ==
  ASSUME TypeInv, NEW w \in Workers, NEW p \in WorkerPcs, NEW l \in Locals,
         Goto(w, p), local' = [local EXCEPT ![w] = l], UNCHANGED lockQ,
         p # "idle" => l.job \in Jobs,
         p \notin {"idle", "readJob", "dead"} => l.host \in Hosts,
         p = "exec" /\ l.action \in Locked =>
             lockQ[l.host] # <<>> /\ Head(lockQ[l.host]) = w
  PROVE  /\ pc' \in [Workers -> WorkerPcs]
         /\ local' \in [Workers -> Locals]
         /\ \A v \in Workers : WorkerOK(v)'
<1>1. \A v \in Workers \ {w} :
          pc[v] = "exec" /\ ActionOf(v) \in Locked =>
              lockQ'[local[v].host] # <<>> /\ Head(lockQ'[local[v].host]) = v
  BY DEF TypeInv, ControlOK, WorkerOK, Holds
<1> QED
  BY <1>1, Move

LEMMA ReturnMove ==
  ASSUME TypeInv, NEW w \in Workers, Return(w), UNCHANGED lockQ
  PROVE  /\ pc' \in [Workers -> WorkerPcs]
         /\ local' \in [Workers -> Locals]
         /\ \A v \in Workers : WorkerOK(v)'
<1>1. NoLocal \in Locals /\ "idle" \in WorkerPcs
  BY DEF NoLocal, Locals, WorkerPcs
<1> QED
  BY <1>1, MoveSameLocks DEF Return

\* A move that leaves the worker's local variables alone.
LEMMA GotoMove ==
  ASSUME TypeInv, NEW w \in Workers, NEW p \in WorkerPcs,
         Goto(w, p), UNCHANGED <<local, lockQ>>,
         local[w].job \in Jobs,
         p # "dead" => local[w].host \in Hosts,
         p = "exec" /\ ActionOf(w) \in Locked => Holds(w)
  PROVE  /\ pc' \in [Workers -> WorkerPcs]
         /\ local' \in [Workers -> Locals]
         /\ \A v \in Workers : WorkerOK(v)'
<1>1. local[w] \in Locals /\ local' = [local EXCEPT ![w] = local[w]]
  BY DEF TypeInv, TypeOK
<1>2. p = "exec" /\ local[w].action \in Locked =>
          lockQ[local[w].host] # <<>> /\ Head(lockQ[local[w].host]) = w
  BY DEF ActionOf, Holds
<1> QED
  BY <1>1, <1>2, MoveSameLocks

LEMMA FailLocals ==
  ASSUME TypeInv, NEW w \in Workers, NEW code \in Codes, FailWith(w, code)
  PROVE  \E l \in Locals :
            /\ local' = [local EXCEPT ![w] = l]
            /\ l.job = local[w].job /\ l.host = local[w].host
<1>1. local[w] \in Locals
  BY DEF TypeInv, TypeOK
<1>2. [local[w] EXCEPT !.error = code] \in Locals
  BY <1>1 DEF Locals
<1>3. local' = [local EXCEPT ![w] = [local[w] EXCEPT !.error = code]]
  BY DEF FailWith, TypeInv, TypeOK
<1>4. /\ [local[w] EXCEPT !.error = code].job = local[w].job
      /\ [local[w] EXCEPT !.error = code].host = local[w].host
  BY <1>1 DEF Locals
<1> QED
  BY <1>2, <1>3, <1>4

LEMMA FailMove ==
  ASSUME TypeInv, NEW w \in Workers, NEW code \in Codes, FailWith(w, code),
         UNCHANGED lockQ, local[w].job \in Jobs, local[w].host \in Hosts
  PROVE  /\ pc' \in [Workers -> WorkerPcs]
         /\ local' \in [Workers -> Locals]
         /\ \A v \in Workers : WorkerOK(v)'
<1>1. PICK l \in Locals : /\ local' = [local EXCEPT ![w] = l]
                          /\ l.job = local[w].job /\ l.host = local[w].host
  BY FailLocals
<1>2. Goto(w, "fail") /\ "fail" \in WorkerPcs
  BY DEF FailWith, WorkerPcs
<1> QED
  BY <1>1, <1>2, MoveSameLocks

\* Where the lock is left: only the head leaves, so no other executor loses it.
LEMMA ReleaseMove ==
  ASSUME TypeInv, NEW w \in Workers, Release(w), local[w].host \in Hosts,
         ActionOf(w) \in Locked => Holds(w)
  PROVE  /\ lockQ' \in [Hosts -> Seq(Workers)]
         /\ \A v \in Workers \ {w} :
               pc[v] = "exec" /\ ActionOf(v) \in Locked =>
                   lockQ'[local[v].host] # <<>> /\ Head(lockQ'[local[v].host]) = v
<1>1. lockQ' \in [Hosts -> Seq(Workers)]
  <2> DEFINE q == lockQ[local[w].host]
  <2>1. q \in Seq(Workers)
    BY DEF TypeInv, TypeOK
  <2>2. ActionOf(w) \in Locked => Tail(q) \in Seq(Workers)
    BY <2>1 DEF Holds
  <2>3. \/ UNCHANGED lockQ
        \/ /\ ActionOf(w) \in Locked
           /\ lockQ' = [lockQ EXCEPT ![local[w].host] = Tail(q)]
    BY DEF Release
  <2> HIDE DEF q
  <2> QED
    BY <2>2, <2>3 DEF TypeInv, TypeOK
<1>2. ASSUME NEW v \in Workers \ {w}, pc[v] = "exec", ActionOf(v) \in Locked
      PROVE  lockQ'[local[v].host] # <<>> /\ Head(lockQ'[local[v].host]) = v
  <2>1. Holds(v) /\ local[v].host \in Hosts
    BY <1>2 DEF TypeInv, ControlOK, WorkerOK
  <2>2. CASE ActionOf(w) \in Locked
    <3>1. local[v].host # local[w].host
      BY <2>1, <2>2 DEF Holds
    <3> QED
      BY <2>1, <2>2, <3>1 DEF Release, Holds, TypeInv, TypeOK
  <2>3. CASE ActionOf(w) \notin Locked
    BY <2>1, <2>3 DEF Release, Holds
  <2> QED
    BY <2>2, <2>3
<1> QED
  BY <1>1, <1>2

LEMMA WorkersTypeInv ==
  ASSUME TypeInv, NEW w \in Workers, WorkerStep(w) \/ DatabaseFault(w)
  PROVE  TypeInv'
<1> DEFINE Moved == /\ pc' \in [Workers -> WorkerPcs]
                    /\ local' \in [Workers -> Locals]
                    /\ \A v \in Workers : WorkerOK(v)'
<1>0. /\ local[w] \in Locals
      /\ pc[w] # "idle" => local[w].job \in Jobs
      /\ pc[w] \notin {"idle", "readJob", "dead"} => local[w].host \in Hosts
  BY DEF TypeInv, TypeOK, ControlOK, WorkerOK
<1>req. UNCHANGED req => \A c \in Clients : HandlerOK(c)'
  BY DEF TypeInv, ControlOK, HandlerOK
<1>1. CASE Dequeue(w)
  <2> DEFINE l == [local[w] EXCEPT !.job = Head(queue)]
  <2>1. Head(queue) \in Jobs /\ Tail(queue) \in Seq(Jobs)
    BY <1>1 DEF Dequeue, TypeInv, TypeOK
  <2>2. l \in Locals /\ l.job = Head(queue)
    BY <1>0, <2>1 DEF Locals
  <2>3. local' = [local EXCEPT ![w] = l] /\ Goto(w, "readJob") /\ UNCHANGED lockQ
    BY <1>1 DEF Dequeue, TypeInv, TypeOK
  <2> HIDE DEF l
  <2>4. Moved
    BY <2>1, <2>2, <2>3, MoveSameLocks DEF WorkerPcs
  <2> QED
    BY <1>1, <1>req, <2>1, <2>4 DEF Dequeue, TypeInv, TypeOK, ControlOK
<1>2. CASE ReadJob(w)
  <2>1. CASE Return(w)
    BY <1>2, <2>1, <1>req, ReturnMove DEF ReadJob, TypeInv, TypeOK, ControlOK
  <2>2. CASE rows[local[w].job].host # None
    <3> DEFINE row == rows[local[w].job]
               l == [local[w] EXCEPT !.action = row.action, !.host = row.host,
                                     !.task = row.task]
    <3>1. row \in Rows
      BY <1>0, <1>2 DEF ReadJob, TypeInv, TypeOK
    <3>2. l \in Locals /\ l.job = local[w].job /\ l.host \in Hosts
      BY <1>0, <2>2, <3>1 DEF Locals, Rows
    <3>3. local' = [local EXCEPT ![w] = l] /\ Goto(w, "readHost")
      BY <1>2, <2>2 DEF ReadJob, TypeInv, TypeOK
    <3>4. Moved
      BY <1>0, <1>2, <3>2, <3>3, MoveSameLocks DEF ReadJob, WorkerPcs
    <3> QED
      BY <1>2, <1>req, <3>4 DEF ReadJob, TypeInv, TypeOK, ControlOK
  <2> QED
    BY <1>2, <2>1, <2>2 DEF ReadJob
<1>3. CASE ReadHost(w)
  <2>1. Moved
    <3>1. CASE Goto(w, "claim") /\ UNCHANGED local
      BY <1>0, <1>3, <3>1, GotoMove DEF ReadHost, WorkerPcs
    <3>2. CASE FailWith(w, "host_not_found")
      BY <1>0, <1>3, <3>2, FailMove DEF ReadHost, Codes
    <3> QED
      BY <1>3, <3>1, <3>2 DEF ReadHost
  <2> QED
    BY <1>3, <1>req, <2>1 DEF ReadHost, TypeInv, TypeOK, ControlOK
<1>4. CASE Claim(w)
  <2>1. Moved
    <3>1. CASE Return(w)
      BY <1>4, <3>1, ReturnMove DEF Claim
    <3>2. CASE FailWith(w, "custom_task_not_found")
      BY <1>0, <1>4, <3>2, FailMove DEF Claim, Codes
    <3>3. CASE \E p \in {"readTask", "enter", "start"} : Goto(w, p) /\ UNCHANGED local
      BY <1>0, <1>4, <3>3, GotoMove DEF Claim, WorkerPcs
    <3> QED
      BY <1>4, <3>1, <3>2, <3>3 DEF Claim
  <2>2. rows' \in [Jobs -> Rows]
    <3>1. rows[local[w].job] \in Rows /\ local[w].job \in Jobs
      BY <1>0, <1>4 DEF Claim, TypeInv, TypeOK
    <3>2. [rows[local[w].job] EXCEPT !.state = "running"] \in Rows
      BY <3>1 DEF Rows, JobStates
    <3>3. \/ UNCHANGED rows
          \/ rows' = [rows EXCEPT ![local[w].job] =
                        [rows[local[w].job] EXCEPT !.state = "running"]]
      BY <1>4, <3>1 DEF Claim, TypeInv, TypeOK
    <3> QED
      BY <3>1, <3>2, <3>3 DEF TypeInv, TypeOK
  <2> QED
    BY <1>4, <1>req, <2>1, <2>2 DEF Claim, TypeInv, TypeOK, ControlOK
<1>5. CASE ReadTask(w)
  <2>1. Moved
    <3>1. CASE FailWith(w, "custom_task_not_found")
      BY <1>0, <1>5, <3>1, FailMove DEF ReadTask, Codes
    <3>2. ASSUME NEW e \in BOOLEAN, Goto(w, "enter"),
                 local' = [local EXCEPT ![w].enabled = e]
          PROVE  Moved
      <4> DEFINE l == [local[w] EXCEPT !.enabled = e]
      <4>1. l \in Locals /\ l.job = local[w].job /\ l.host = local[w].host
        BY <1>0 DEF Locals
      <4>2. local' = [local EXCEPT ![w] = l]
        BY <3>2 DEF TypeInv, TypeOK
      <4> QED
        BY <1>0, <1>5, <3>2, <4>1, <4>2, MoveSameLocks DEF ReadTask, WorkerPcs
    <3> QED
      BY <1>5, <3>1, <3>2 DEF ReadTask
  <2> QED
    BY <1>5, <1>req, <2>1 DEF ReadTask, TypeInv, TypeOK, ControlOK
<1>6. CASE EnterLock(w)
  <2>1. lockQ' \in [Hosts -> Seq(Workers)]
    <3> DEFINE q == lockQ[local[w].host]
    <3>1. q \in Seq(Workers)
      BY <1>0, <1>6 DEF EnterLock, TypeInv, TypeOK
    <3>2. Append(q, w) \in Seq(Workers)
      BY <3>1
    <3>3. lockQ' = [lockQ EXCEPT ![local[w].host] = Append(q, w)]
      BY <1>6 DEF EnterLock
    <3> HIDE DEF q
    <3> QED
      BY <3>2, <3>3 DEF TypeInv, TypeOK
  <2>2. ASSUME NEW v \in Workers \ {w}, pc[v] = "exec", ActionOf(v) \in Locked
        PROVE  lockQ'[local[v].host] # <<>> /\ Head(lockQ'[local[v].host]) = v
    <3>1. Holds(v) /\ local[v].host \in Hosts
      BY <2>2 DEF TypeInv, ControlOK, WorkerOK
    <3>2. lockQ[local[v].host] \in Seq(Workers)
      BY <3>1 DEF TypeInv, TypeOK
    <3>3. \/ lockQ'[local[v].host] = lockQ[local[v].host]
          \/ lockQ'[local[v].host] = Append(lockQ[local[v].host], w)
      BY <1>6, <3>1 DEF EnterLock, TypeInv, TypeOK
    <3> QED
      BY <3>1, <3>2, <3>3 DEF Holds
  <2>3. local' = [local EXCEPT ![w] = local[w]]
    BY <1>6 DEF EnterLock, TypeInv, TypeOK
  <2>4. Moved
    BY <1>0, <1>6, <2>2, <2>3, Move DEF EnterLock, WorkerPcs
  <2> QED
    BY <1>6, <1>req, <2>1, <2>4 DEF EnterLock, TypeInv, TypeOK, ControlOK
<1>7. CASE Start(w)
  <2>1. CASE FailWith(w, "custom_task_disabled") /\ Release(w) /\ UNCHANGED execs
    <3>1. PICK l \in Locals :
             /\ local' = [local EXCEPT ![w] = l]
             /\ l.job = local[w].job /\ l.host = local[w].host
      BY <2>1, FailLocals DEF Codes
    <3>2. Moved /\ lockQ' \in [Hosts -> Seq(Workers)]
      BY <1>0, <1>7, <2>1, <3>1, ReleaseMove, Move
         DEF Start, FailWith, WorkerPcs
    <3> QED
      BY <1>7, <1>req, <2>1, <3>2 DEF Start, TypeInv, TypeOK, ControlOK
  <2>2. CASE Goto(w, "exec") /\ UNCHANGED <<local, lockQ>>
    <3>1. Moved
      BY <1>0, <1>7, <2>2, GotoMove DEF Start, WorkerPcs
    <3>2. execs' \in [Jobs -> Nat]
      <4>1. execs[local[w].job] + 1 \in Nat
        BY <1>0, <1>7 DEF Start, TypeInv, TypeOK
      <4>2. execs' = [execs EXCEPT ![local[w].job] = execs[local[w].job] + 1]
        BY <1>7, <2>2 DEF Start, FailWith, Goto, TypeInv, TypeOK
      <4> QED
        BY <4>1, <4>2 DEF TypeInv, TypeOK
    <3> QED
      BY <1>7, <1>req, <2>2, <3>1, <3>2 DEF Start, TypeInv, TypeOK, ControlOK
  <2> QED
    BY <1>7, <2>1, <2>2 DEF Start
<1>8. CASE Executed(w)
  <2>1. ActionOf(w) \in Locked => Holds(w)
    BY <1>8 DEF Executed, TypeInv, ControlOK, WorkerOK
  <2>2. PICK l \in Locals, p \in {"status", "finish", "fail"} :
            /\ Goto(w, p)
            /\ local' = [local EXCEPT ![w] = l]
            /\ l.job = local[w].job /\ l.host = local[w].host
    <3>1. CASE FailWith(w, "execution_failed")
      BY <3>1, FailLocals DEF Codes, FailWith
    <3>2. CASE UNCHANGED local
      <4>1. local' = [local EXCEPT ![w] = local[w]]
        BY <3>2 DEF TypeInv, TypeOK
      <4>2. Goto(w, "status") \/ Goto(w, "finish") \/ FailWith(w, "execution_failed")
        BY <1>8 DEF Executed
      <4> QED
        BY <1>0, <3>1, <4>1, <4>2
    <3> QED
      BY <1>8, <3>1, <3>2 DEF Executed
  <2>3. Moved /\ lockQ' \in [Hosts -> Seq(Workers)]
    BY <1>0, <1>8, <2>1, <2>2, ReleaseMove, Move DEF Executed, WorkerPcs
  <2> QED
    BY <1>8, <1>req, <2>3 DEF Executed, TypeInv, TypeOK, ControlOK
<1>9. CASE StoreStatus(w)
  <2>1. Moved
    BY <1>0, <1>9, GotoMove DEF StoreStatus, WorkerPcs
  <2> QED
    BY <1>9, <1>req, <2>1 DEF StoreStatus, TypeInv, TypeOK, ControlOK
<1>10. CASE FinishSuccess(w) \/ FinishFailure(w)
  <2>1. Moved
    BY <1>10, ReturnMove DEF FinishSuccess, FinishFailure
  <2>2. rows' \in [Jobs -> Rows]
    <3>1. rows[local[w].job] \in Rows /\ local[w].job \in Jobs
      BY <1>0, <1>10 DEF FinishSuccess, FinishFailure, TypeInv, TypeOK
    <3>2. /\ [rows[local[w].job] EXCEPT !.state = "success"] \in Rows
          /\ [rows[local[w].job] EXCEPT !.state = "failed",
                                        !.error = local[w].error] \in Rows
      BY <1>0, <3>1 DEF Rows, JobStates, Locals
    <3>3. \/ rows' = [rows EXCEPT ![local[w].job] =
                        [rows[local[w].job] EXCEPT !.state = "success"]]
          \/ rows' = [rows EXCEPT ![local[w].job] =
                        [rows[local[w].job] EXCEPT !.state = "failed",
                                                   !.error = local[w].error]]
      BY <1>10, <3>1 DEF FinishSuccess, FinishFailure, TypeInv, TypeOK
    <3> QED
      BY <3>1, <3>2, <3>3 DEF TypeInv, TypeOK
  <2> QED
    BY <1>10, <1>req, <2>1, <2>2
       DEF FinishSuccess, FinishFailure, TypeInv, TypeOK, ControlOK
<1>11. CASE DatabaseFault(w)
  <2>1. Moved
    <3>1. CASE /\ FailWith(w, "internal_execution_error")
               /\ pc[w] \in {"readTask", "status", "finish", "fail"}
      BY <1>0, <1>11, <3>1, FailMove DEF DatabaseFault, Codes
    <3>2. CASE Goto(w, "dead") /\ UNCHANGED local
      BY <1>0, <1>11, <3>2, GotoMove DEF DatabaseFault, WorkerPcs
    <3> QED
      BY <1>11, <3>1, <3>2 DEF DatabaseFault
  <2> QED
    BY <1>11, <1>req, <2>1 DEF DatabaseFault, TypeInv, TypeOK, ControlOK
<1> QED
  BY <1>1, <1>2, <1>3, <1>4, <1>5, <1>6, <1>7, <1>8, <1>9, <1>10, <1>11
     DEF WorkerStep

-----------------------------------------------------------------------------
LEMMA TypeInvInductive == TypeInv /\ [Next]_vars => TypeInv'
<1> SUFFICES ASSUME TypeInv, [Next]_vars PROVE TypeInv'
  OBVIOUS
<1>0. UNCHANGED <<pc, local, lockQ, req>> => ControlOK'
  BY DEF TypeInv, ControlOK, WorkerOK, HandlerOK, ActionOf, Holds
<1>1. CASE \E c \in Clients : Arrival(c) \/ HandlerStep(c)
  BY <1>1, HandlersTypeInv
<1>2. ASSUME NEW h \in Hosts, DeleteHost(h) PROVE TypeInv'
  <2>1. rows' \in [Jobs -> Rows]
    <3>1. ASSUME NEW j \in Jobs PROVE [rows[j] EXCEPT !.host = None] \in Rows
      <4>1. rows[j] \in Rows
        BY DEF TypeInv, TypeOK
      <4> QED
        BY <4>1 DEF Rows
    <3> QED
      BY <1>2, <3>1 DEF DeleteHost, TypeInv, TypeOK
  <2> QED
    BY <1>0, <1>2, <2>1 DEF DeleteHost, TypeInv, TypeOK
<1>3. ASSUME NEW t \in Tasks, DeleteTask(t) PROVE TypeInv'
  <2>1. rows' \in [Jobs -> Rows]
    <3>1. ASSUME NEW j \in Jobs PROVE [rows[j] EXCEPT !.task = None] \in Rows
      <4>1. rows[j] \in Rows
        BY DEF TypeInv, TypeOK
      <4> QED
        BY <4>1 DEF Rows
    <3> QED
      BY <1>3, <3>1 DEF DeleteTask, TypeInv, TypeOK
  <2> QED
    BY <1>0, <1>3, <2>1 DEF DeleteTask, TypeInv, TypeOK
<1>4. ASSUME NEW t \in Tasks, SwitchTask(t) PROVE TypeInv'
  BY <1>0, <1>4 DEF SwitchTask, TypeInv, TypeOK
<1>5. CASE \E w \in Workers : WorkerStep(w) \/ DatabaseFault(w)
  BY <1>5, WorkersTypeInv
<1>6. CASE Stop
  <2>1. ControlOK'
    BY <1>6 DEF Stop, ControlOK, WorkerOK, HandlerOK, NoReq
  <2> QED
    BY <1>6, <2>1
       DEF Stop, disk, TypeInv, TypeOK, WorkerPcs, NoLocal, Locals, NoReq, Reqs
<1>7. CASE Requeue
  <2>1. rows' \in [Jobs -> Rows]
    <3>1. ASSUME NEW j \in Jobs PROVE [rows[j] EXCEPT !.state = "queued"] \in Rows
      <4>1. rows[j] \in Rows
        BY DEF TypeInv, TypeOK
      <4> QED
        BY <4>1 DEF Rows, JobStates
    <3> QED
      BY <1>7, <3>1 DEF Requeue, TypeInv, TypeOK
  <2> QED
    BY <1>0, <1>7, <2>1 DEF Requeue, TypeInv, TypeOK
<1>8. CASE LoadQueue
  <2>1. PICK n \in 0..MaxJobs : \E q \in [1..n -> Queued] : queue' = queue \o q
    BY <1>8 DEF LoadQueue
  <2>2. PICK q \in [1..n -> Queued] : queue' = queue \o q
    BY <2>1
  <2>3. q \in Seq(Jobs)
    BY <2>2 DEF Queued
  <2>4. queue' \in Seq(Jobs)
    BY <2>2, <2>3 DEF TypeInv, TypeOK
  <2> QED
    BY <1>0, <1>8, <2>4 DEF LoadQueue, disk, TypeInv, TypeOK
<1>9. CASE UNCHANGED vars
  BY <1>0, <1>9 DEF vars, TypeInv, TypeOK
<1> QED
  BY <1>1, <1>2, <1>3, <1>4, <1>5, <1>6, <1>7, <1>8, <1>9 DEF Next

\* Types and control hold in every reachable state.
THEOREM TypeInvHolds == Spec => []TypeInv
  BY InitTypeInv, TypeInvInductive, PTL DEF Spec

\* Every variable keeps its type.
THEOREM TypeCorrect == Spec => []TypeOK
<1>1. TypeInv => TypeOK
  BY DEF TypeInv
<1> QED
  BY <1>1, TypeInvHolds, PTL

\* Updates, reboots and custom tasks of one host never execute together: an
\* executing worker is the head of its host's lock queue, and a queue has one
\* head.
THEOREM Serialized == Spec => []SerializedPerHost
<1>1. TypeInv => SerializedPerHost
  BY DEF TypeInv, ControlOK, WorkerOK, Holds, SerializedPerHost
<1> QED
  BY <1>1, TypeInvHolds, PTL

-----------------------------------------------------------------------------
(* The locks: a host's lock queue names no worker twice and only workers   *)
(* that are about to execute, or execute, a job of that host.              *)

\* A worker on its way to the lock has an action that takes it.
Takes(w) == pc[w] \in {"enter", "readTask"} => ActionOf(w) \in Locked

QueuedOnce == \A h \in Hosts : \A i, k \in 1..Len(lockQ[h]) :
                 lockQ[h][i] = lockQ[h][k] => i = k

LockInv == (\A w \in Workers : Takes(w)) /\ QueuedOnce /\ NoLockLeaked

\* Workers other than w stay where they are.
OthersStay(w) == \A v \in Workers \ {w} : pc'[v] = pc[v] /\ local'[v] = local[v]

LEMMA InitLock == Init => LockInv
  BY DEF Init, LockInv, Takes, QueuedOnce, NoLockLeaked

\* A worker outside the locks moves and touches none.
LEMMA OutsideLock ==
  ASSUME TypeInv, LockInv, NEW w \in Workers, pc[w] \notin {"start", "exec"},
         OthersStay(w), UNCHANGED lockQ, Takes(w)'
  PROVE  LockInv'
<1>1. \A v \in Workers : Takes(v)'
  BY DEF LockInv, Takes, OthersStay, ActionOf
<1>2. ASSUME NEW h \in Hosts, NEW i \in 1..Len(lockQ[h])
      PROVE  /\ lockQ[h][i] \in Workers /\ lockQ[h][i] # w
  BY DEF TypeInv, TypeOK, LockInv, NoLockLeaked
<1>3. NoLockLeaked'
  BY <1>2 DEF LockInv, NoLockLeaked, OthersStay, ActionOf
<1>4. QueuedOnce'
  BY DEF LockInv, QueuedOnce
<1> QED
  BY <1>1, <1>3, <1>4 DEF LockInv

\* A worker leaves the lock it holds, or had none.
LEMMA LeavesLock ==
  ASSUME TypeInv, LockInv, NEW w \in Workers, pc[w] \in {"start", "exec"},
         ActionOf(w) \in Locked => Holds(w), Release(w),
         OthersStay(w), pc'[w] \notin {"enter", "readTask"}
  PROVE  LockInv'
<1> DEFINE g == local[w].host
<1>0. g \in Hosts /\ lockQ \in [Hosts -> Seq(Workers)]
  BY DEF TypeInv, TypeOK, ControlOK, WorkerOK
<1>1. \A v \in Workers : Takes(v)'
  BY DEF LockInv, Takes, OthersStay, ActionOf
<1>2. ASSUME NEW h \in Hosts, NEW i \in 1..Len(lockQ'[h])
      PROVE  \E k \in 1..Len(lockQ[h]) :
               /\ lockQ'[h][i] = lockQ[h][k] /\ lockQ[h][k] # w
               /\ k = IF h = g /\ ActionOf(w) \in Locked THEN i + 1 ELSE i
  <2>1. CASE h = g /\ ActionOf(w) \in Locked
    <3>1. lockQ'[h] = Tail(lockQ[h]) /\ lockQ[h] # <<>> /\ Head(lockQ[h]) = w
      BY <1>0, <2>1 DEF Release, Holds
    <3>2. lockQ[h] \in Seq(Workers)
      BY <1>0
    <3>3. /\ i + 1 \in 1..Len(lockQ[h])
          /\ lockQ'[h][i] = lockQ[h][i + 1]
          /\ 1 \in 1..Len(lockQ[h]) /\ lockQ[h][1] = w /\ i + 1 # 1
      BY <1>2, <3>1, <3>2
    <3>4. lockQ[h][i + 1] # w
      BY <3>3 DEF LockInv, QueuedOnce
    <3> QED
      BY <2>1, <3>3, <3>4
  <2>2. CASE ~(h = g /\ ActionOf(w) \in Locked)
    <3>1. lockQ'[h] = lockQ[h]
      BY <1>0, <2>2 DEF Release
    <3>2. lockQ[h][i] # w
      BY <1>2, <2>2, <3>1 DEF LockInv, NoLockLeaked
    <3> QED
      BY <1>2, <2>2, <3>1, <3>2
  <2> QED
    BY <2>1, <2>2
<1>3. QueuedOnce'
  <2> SUFFICES ASSUME NEW h \in Hosts, NEW i \in 1..Len(lockQ'[h]),
                      NEW k \in 1..Len(lockQ'[h]), lockQ'[h][i] = lockQ'[h][k]
               PROVE  i = k
    BY DEF QueuedOnce
  <2> QED
    BY <1>2 DEF LockInv, QueuedOnce
<1>4. NoLockLeaked'
  <2> SUFFICES ASSUME NEW h \in Hosts, NEW i \in 1..Len(lockQ'[h])
               PROVE  LET v == lockQ'[h][i] IN
                        /\ pc'[v] \in {"start", "exec"}
                        /\ local'[v].host = h
                        /\ local'[v].action \in Locked
    BY DEF NoLockLeaked, ActionOf
  <2>1. PICK k \in 1..Len(lockQ[h]) :
           lockQ'[h][i] = lockQ[h][k] /\ lockQ[h][k] # w
    BY <1>2
  <2>2. lockQ[h][k] \in Workers
    BY <1>0
  <2> QED
    BY <2>1, <2>2 DEF LockInv, NoLockLeaked, OthersStay, ActionOf
<1> QED
  BY <1>1, <1>3, <1>4 DEF LockInv

LEMMA LockInductive == TypeInv /\ LockInv /\ [Next]_vars => LockInv'
<1> SUFFICES ASSUME TypeInv, LockInv, [Next]_vars PROVE LockInv'
  OBVIOUS
<1>0. UNCHANGED <<pc, local, lockQ>> => LockInv'
  BY DEF LockInv, Takes, QueuedOnce, NoLockLeaked, ActionOf
<1>1. CASE \E c \in Clients : Arrival(c) \/ HandlerStep(c)
  BY <1>0, <1>1 DEF Arrival, HandlerStep, Enqueue, CheckAll, CheckTask, Insert,
                    Put, CheckNext
<1>2. CASE \/ \E h \in Hosts : DeleteHost(h)
           \/ \E t \in Tasks : DeleteTask(t) \/ SwitchTask(t)
           \/ Requeue \/ LoadQueue \/ UNCHANGED vars
  BY <1>0, <1>2 DEF DeleteHost, DeleteTask, SwitchTask, Requeue, LoadQueue, vars
<1>3. CASE Stop
  BY <1>3 DEF Stop, LockInv, Takes, QueuedOnce, NoLockLeaked
<1>4. ASSUME NEW w \in Workers, WorkerStep(w) \/ DatabaseFault(w) PROVE LockInv'
  <2>0. /\ local[w] \in Locals /\ local \in [Workers -> Locals]
        /\ pc \in [Workers -> WorkerPcs] /\ lockQ \in [Hosts -> Seq(Workers)]
    BY DEF TypeInv, TypeOK
  <2>fail. ASSUME NEW code, FailWith(w, code) PROVE pc'[w] = "fail" /\ OthersStay(w)
    BY <2>0, <2>fail DEF FailWith, Goto, OthersStay
  <2>ret. ASSUME Return(w) PROVE pc'[w] = "idle" /\ OthersStay(w)
    BY <2>0, <2>ret DEF Return, Goto, OthersStay
  <2>go. ASSUME NEW p, Goto(w, p) PROVE pc'[w] = p /\ \A v \in Workers \ {w} : pc'[v] = pc[v]
    BY <2>0, <2>go DEF Goto
  <2>1. CASE \/ Dequeue(w) \/ ReadJob(w) \/ ReadHost(w) \/ StoreStatus(w)
             \/ FinishSuccess(w) \/ FinishFailure(w) \/ DatabaseFault(w)
    <3>1. /\ pc[w] \notin {"start", "exec"} /\ UNCHANGED lockQ
      BY <2>1 DEF Dequeue, ReadJob, ReadHost, StoreStatus, FinishSuccess,
                  FinishFailure, DatabaseFault
    <3>2. OthersStay(w) /\ pc'[w] \notin {"enter", "readTask"}
      BY <2>0, <2>1, <2>fail, <2>ret, <2>go
         DEF Dequeue, ReadJob, ReadHost, StoreStatus, FinishSuccess,
             FinishFailure, DatabaseFault, OthersStay
    <3> QED
      BY <3>1, <3>2, OutsideLock DEF Takes
  <2>2. CASE Claim(w)
    <3>1. pc[w] \notin {"start", "exec"} /\ UNCHANGED lockQ
      BY <2>2 DEF Claim
    <3>2. \/ Return(w)
          \/ \E code : FailWith(w, code)
          \/ Goto(w, "start") /\ UNCHANGED local
          \/ ActionOf(w) \in Locked /\ Goto(w, "enter") /\ UNCHANGED local
          \/ ActionOf(w) \in Locked /\ Goto(w, "readTask") /\ UNCHANGED local
      BY <2>2 DEF Claim, Locked
    <3>3. OthersStay(w) /\ Takes(w)'
      BY <2>fail, <2>ret, <2>go, <3>2 DEF OthersStay, Takes, ActionOf
    <3> QED
      BY <3>1, <3>3, OutsideLock
  <2>3. CASE ReadTask(w)
    <3>1. pc[w] = "readTask" /\ UNCHANGED lockQ
      BY <2>3 DEF ReadTask
    <3>2. \/ FailWith(w, "custom_task_not_found")
          \/ \E e \in BOOLEAN : Goto(w, "enter") /\ local' = [local EXCEPT ![w].enabled = e]
      BY <2>3 DEF ReadTask
    <3>3. ActionOf(w) \in Locked
      BY <3>1 DEF LockInv, Takes
    <3>4. ASSUME NEW e \in BOOLEAN, Goto(w, "enter"),
                 local' = [local EXCEPT ![w].enabled = e]
          PROVE  OthersStay(w) /\ Takes(w)'
      <4>1. local'[w].action = local[w].action
        BY <2>0, <3>4 DEF Locals
      <4>2. \A v \in Workers \ {w} : local'[v] = local[v]
        BY <2>0, <3>4
      <4> QED
        BY <2>go, <3>3, <3>4, <4>1, <4>2, Zenon DEF OthersStay, Takes, ActionOf
    <3>5. OthersStay(w) /\ Takes(w)'
      <4>1. CASE FailWith(w, "custom_task_not_found")
        BY <2>fail, <4>1 DEF Takes
      <4>2. CASE \E e \in BOOLEAN : Goto(w, "enter") /\ local' = [local EXCEPT ![w].enabled = e]
        BY <3>4, <4>2, Zenon
      <4> QED
        BY <3>2, <4>1, <4>2
    <3> QED
      BY <3>1, <3>5, OutsideLock
  <2>4. CASE EnterLock(w)
    <3> DEFINE g == local[w].host
    <3>0. /\ pc[w] = "enter" /\ UNCHANGED local /\ Goto(w, "start")
          /\ ActionOf(w) \in Locked /\ g \in Hosts
      BY <2>4 DEF EnterLock, LockInv, Takes, TypeInv, ControlOK, WorkerOK
    <3>1. /\ pc[w] = "enter" /\ ActionOf(w) \in Locked /\ g \in Hosts
          /\ UNCHANGED local /\ pc'[w] = "start"
          /\ OthersStay(w)
      BY <2>go, <3>0 DEF OthersStay
    <3>2. \A h \in Hosts \ {g} : lockQ'[h] = lockQ[h]
      BY <2>0, <2>4 DEF EnterLock
    <3>3. lockQ'[g] = Append(lockQ[g], w) /\ lockQ[g] \in Seq(Workers)
      BY <2>0, <2>4, <3>1 DEF EnterLock
    <3>4. ASSUME NEW h \in Hosts, NEW i \in 1..Len(lockQ[h])
          PROVE  lockQ[h][i] \in Workers /\ lockQ[h][i] # w
      <4>1. lockQ[h] \in Seq(Workers)
        BY <2>0
      <4>2. pc[lockQ[h][i]] \in {"start", "exec"}
        BY DEF LockInv, NoLockLeaked
      <4> QED
        BY <3>1, <4>1, <4>2
    <3>5. \A i \in 1..Len(lockQ'[g]) :
             \/ i \in 1..Len(lockQ[g]) /\ lockQ'[g][i] = lockQ[g][i]
             \/ i = Len(lockQ[g]) + 1 /\ lockQ'[g][i] = w
      BY <3>3
    <3>6. QueuedOnce'
      <4>1. ASSUME NEW h \in Hosts \ {g}, NEW i \in 1..Len(lockQ'[h]),
                   NEW k \in 1..Len(lockQ'[h]), lockQ'[h][i] = lockQ'[h][k]
            PROVE  i = k
        BY <3>2, <4>1 DEF LockInv, QueuedOnce
      <4>2. ASSUME NEW i \in 1..Len(lockQ'[g]), NEW k \in 1..Len(lockQ'[g]),
                   lockQ'[g][i] = lockQ'[g][k]
            PROVE  i = k
        <5>1. \A m \in 1..Len(lockQ[g]) : lockQ[g][m] # w
          BY <3>0, <3>4
        <5> QED
          BY <3>0, <3>5, <4>2, <5>1 DEF LockInv, QueuedOnce
      <4> QED
        BY <4>1, <4>2 DEF QueuedOnce
    <3>7. NoLockLeaked'
      <4>1. ASSUME NEW h \in Hosts \ {g}, NEW i \in 1..Len(lockQ'[h])
            PROVE  LET v == lockQ'[h][i] IN
                     /\ pc'[v] \in {"start", "exec"} /\ local'[v].host = h
                     /\ local'[v].action \in Locked
        BY <3>1, <3>2, <3>4, <4>1 DEF LockInv, NoLockLeaked, OthersStay, ActionOf
      <4>2. ASSUME NEW i \in 1..Len(lockQ'[g])
            PROVE  LET v == lockQ'[g][i] IN
                     /\ pc'[v] \in {"start", "exec"} /\ local'[v].host = g
                     /\ local'[v].action \in Locked
        <5>1. CASE i = Len(lockQ[g]) + 1 /\ lockQ'[g][i] = w
          BY <3>1, <5>1 DEF ActionOf
        <5>2. CASE i \in 1..Len(lockQ[g]) /\ lockQ'[g][i] = lockQ[g][i]
          <6>1. lockQ[g][i] \in Workers \ {w}
            BY <3>1, <3>4, <5>2
          <6>2. /\ pc[lockQ[g][i]] \in {"start", "exec"} /\ local[lockQ[g][i]].host = g
                /\ local[lockQ[g][i]].action \in Locked
            BY <3>1, <5>2 DEF LockInv, NoLockLeaked, ActionOf
          <6> QED
            BY <3>1, <5>2, <6>1, <6>2 DEF OthersStay
        <5> QED
          BY <3>5, <4>2, <5>1, <5>2
      <4> QED
        BY <3>1, <4>1, <4>2 DEF NoLockLeaked, ActionOf
    <3>8. \A v \in Workers : Takes(v)'
      BY <3>1 DEF LockInv, Takes, OthersStay, ActionOf
    <3> QED
      BY <3>6, <3>7, <3>8 DEF LockInv
  <2>5. CASE Start(w) /\ UNCHANGED <<local, lockQ>> /\ Goto(w, "exec")
    <3>1. pc[w] = "start" /\ pc'[w] = "exec" /\ OthersStay(w)
      BY <2>5, <2>go DEF Start, OthersStay
    <3>2. UNCHANGED <<local, lockQ>>
      BY <2>5
    <3>3. \A v \in Workers : Takes(v)'
      BY <3>1, <3>2 DEF LockInv, Takes, OthersStay, ActionOf
    <3>4. QueuedOnce'
      BY <3>2 DEF LockInv, QueuedOnce
    <3>5. ASSUME NEW h \in Hosts, NEW i \in 1..Len(lockQ[h])
          PROVE  pc'[lockQ[h][i]] \in {"start", "exec"}
      <4>1. lockQ[h][i] \in Workers
        BY <2>0
      <4>2. pc[lockQ[h][i]] \in {"start", "exec"}
        BY DEF LockInv, NoLockLeaked
      <4> QED
        BY <3>1, <4>1, <4>2 DEF OthersStay
    <3>6. NoLockLeaked'
      BY <3>2, <3>5 DEF LockInv, NoLockLeaked, ActionOf
    <3> QED
      BY <3>3, <3>4, <3>6 DEF LockInv
  <2>6. CASE Start(w) /\ FailWith(w, "custom_task_disabled") /\ Release(w)
    BY <2>6, <2>fail, LeavesLock DEF Start
  <2>7. CASE Executed(w)
    <3>1. OthersStay(w) /\ pc'[w] \notin {"enter", "readTask"}
      BY <2>7, <2>fail, <2>go DEF Executed, OthersStay
    <3> QED
      BY <2>7, <3>1, LeavesLock DEF Executed, TypeInv, ControlOK, WorkerOK
  <2>8. Start(w) => \/ UNCHANGED <<local, lockQ>> /\ Goto(w, "exec")
                    \/ FailWith(w, "custom_task_disabled") /\ Release(w)
    BY DEF Start
  <2> QED
    BY <1>4, <2>1, <2>2, <2>3, <2>4, <2>5, <2>6, <2>7, <2>8 DEF WorkerStep
<1> QED
  BY <1>1, <1>2, <1>3, <1>4 DEF Next

\* No lock is leaked: whoever stands in a host's lock queue is about to execute
\* or executing a job of that host, so a lock is free again as soon as its jobs
\* have ended, failed or been cancelled.
THEOREM LocksReleased == Spec => []NoLockLeaked
<1>1. LockInv => NoLockLeaked
  BY DEF LockInv
<1> QED
  BY <1>1, InitLock, LockInductive, InitTypeInv, TypeInvInductive, PTL DEF Spec

-----------------------------------------------------------------------------
(* Ownership: every job id is in one place at most - with a handler about  *)
(* to insert or put it, in the queue, or with one worker - and that place  *)
(* decides the state of its row.                                           *)

Pending(c) == req[c].pc \in {"insert", "put"}

Positions == 1..Len(queue)

\* Every id in use is older than the clock, so the next one is new.
Older == /\ \A c \in Clients : Pending(c) => req[c].job < clock
         /\ \A i \in Positions : queue[i] < clock
         /\ \A w \in Workers : local[w].job < clock

\* No id is in two places.
OnePlace ==
    /\ \A c, d \in Clients :
          Pending(c) /\ Pending(d) /\ req[c].job = req[d].job => c = d
    /\ \A i, k \in Positions : queue[i] = queue[k] => i = k
    /\ \A c \in Clients, i \in Positions : Pending(c) => queue[i] # req[c].job
    /\ \A c \in Clients, w \in Workers : Pending(c) => local[w].job # req[c].job
    /\ \A w \in Workers, i \in Positions : queue[i] # local[w].job
    /\ OneWorkerPerJob

\* Nothing is in use while the backend is down or recovering.
AtRest == /\ queue = <<>>
          /\ \A w \in Workers : pc[w] = "idle" /\ local[w].job = 0
          /\ \A c \in Clients : req[c].pc = "none"

PlaceInv == Older /\ OnePlace /\ (~Serving => AtRest)

\* Ids at or above the clock have no row yet.
RowsOlder == \A j \in Jobs : rows[j].state # "absent" => j < clock


LEMMA InitPlace == Init => PlaceInv /\ RowsOlder
  BY DEF Init, PlaceInv, Older, OnePlace, Pending, Positions, OneWorkerPerJob,
         RowsOlder, NoRow, NoLocal, NoReq

\* A handler takes the next id.
LEMMA TakeId ==
  ASSUME TypeInv, PlaceInv, Serving, NEW c \in Clients, clock \in Jobs,
         NEW r, req' = [req EXCEPT ![c] = r], r.job = clock,
         clock' = clock + 1, UNCHANGED <<queue, local, pc, up>>
  PROVE  PlaceInv'
<1> USE DEF TypeInv, TypeOK, Positions
<1>1. \A d \in Clients \ {c} : req'[d] = req[d]
  OBVIOUS
<1>2. req'[c].job = clock
  OBVIOUS
<1>3. \A w \in Workers : local[w].job \in Nat
  <2>1. \A w \in Workers : local[w].job \in Jobs \cup {0}
    BY DEF Locals
  <2> QED
    BY <2>1
<1>4. \A d \in Clients : req[d].job \in Nat
  <2>1. \A d \in Clients : req[d].job \in Jobs \cup {0}
    BY DEF Reqs
  <2> QED
    BY <2>1
<1>5. \A i \in Positions : queue[i] \in Jobs
  OBVIOUS
<1>6. Older'
  <2>1. ASSUME NEW d \in Clients, Pending(d)' PROVE req'[d].job < clock'
    BY <1>1, <1>2, <1>4, <2>1 DEF PlaceInv, Older, Pending
  <2>2. \A i \in Positions : queue[i] < clock'
    BY <1>5 DEF PlaceInv, Older
  <2>3. \A w \in Workers : local[w].job < clock'
    BY <1>3 DEF PlaceInv, Older
  <2> QED
    BY <2>1, <2>2, <2>3 DEF Older
<1>7. OnePlace'
  BY <1>1, <1>2, <1>3, <1>4, <1>5
     DEF PlaceInv, Older, OnePlace, Pending, OneWorkerPerJob
<1> QED
  BY <1>6, <1>7 DEF PlaceInv

\* A handler keeps its id or drops it.
LEMMA KeepId ==
  ASSUME TypeInv, PlaceInv, Serving, NEW c \in Clients,
         NEW r, req' = [req EXCEPT ![c] = r],
         r.pc \in {"insert", "put"} => Pending(c) /\ r.job = req[c].job,
         UNCHANGED <<queue, local, pc, up, clock>>
  PROVE  PlaceInv'
<1> USE DEF TypeInv, TypeOK, Positions
<1>1. \A d \in Clients : Pending(d)' => Pending(d) /\ req'[d].job = req[d].job
  BY DEF Pending
<1>2. Older'
  BY <1>1 DEF PlaceInv, Older
<1>3. OnePlace'
  BY <1>1 DEF PlaceInv, OnePlace, OneWorkerPerJob
<1> QED
  BY <1>2, <1>3 DEF PlaceInv

\* A worker keeps its id or drops it.
LEMMA WorkerKeeps ==
  ASSUME TypeInv, PlaceInv, NEW w \in Workers, pc[w] # "idle",
         \A v \in Workers : local'[v].job \in {local[v].job, 0},
         UNCHANGED <<queue, req, up, clock>>
  PROVE  PlaceInv'
<1> USE DEF TypeInv, TypeOK, Positions
<1>0. Serving
  BY DEF PlaceInv, AtRest
<1>1. clock > 0
  OBVIOUS
<1>2. Older'
  BY <1>1 DEF PlaceInv, Older, Pending
<1>3. \A i \in Positions : queue[i] # 0
  OBVIOUS
<1>4. \A c \in Clients : Pending(c) => req[c].job # 0
  BY DEF ControlOK, HandlerOK, Pending
<1>5. OnePlace'
  <2>1. OnePlace /\ UNCHANGED <<queue, req>>
    BY DEF PlaceInv
  <2>2. \A c \in Clients, v \in Workers : Pending(c) => local'[v].job # req[c].job
    BY <1>4, <2>1 DEF OnePlace
  <2>3. \A v \in Workers, i \in Positions : queue[i] # local'[v].job
    BY <1>3, <2>1 DEF OnePlace
  <2>4. OneWorkerPerJob'
    BY <2>1 DEF OnePlace, OneWorkerPerJob
  <2> QED
    BY <2>1, <2>2, <2>3, <2>4 DEF OnePlace, Pending
<1> QED
  BY <1>0, <1>2, <1>5 DEF PlaceInv

LEMMA HandlersPlace ==
  ASSUME TypeInv, PlaceInv, NEW c \in Clients, Arrival(c) \/ HandlerStep(c)
  PROVE  PlaceInv'
<1>1. NoReq.pc = "none"
  BY DEF NoReq
<1>2. ASSUME NEW a, NEW h, NEW t, NEW rest, HostFound(c, a, h, t, rest), Serving,
             UNCHANGED <<queue, local, pc, up>>
      PROVE  PlaceInv'
  <2> DEFINE toTask == [pc |-> "task", job |-> 0, action |-> a, host |-> h,
                        task |-> t, rest |-> rest]
             toInsert == [pc |-> "insert", job |-> clock, action |-> a,
                          host |-> h, task |-> None, rest |-> rest]
  <2>1. CASE a = "custom_task"
    <3>1. req' = [req EXCEPT ![c] = toTask] /\ UNCHANGED clock
      BY <1>2, <2>1 DEF HostFound
    <3>2. toTask.pc = "task"
      OBVIOUS
    <3> HIDE DEF toTask
    <3> QED
      BY <1>2, <3>1, <3>2, KeepId
  <2>2. CASE a # "custom_task"
    <3>1. /\ req' = [req EXCEPT ![c] = toInsert]
          /\ clock \in Jobs /\ clock' = clock + 1
      BY <1>2, <2>2 DEF HostFound
    <3>2. toInsert.job = clock
      OBVIOUS
    <3> HIDE DEF toInsert
    <3> QED
      BY <1>2, <3>1, <3>2, TakeId
  <2> QED
    BY <2>1, <2>2
<1>3. CASE \E a \in Actions, h \in Hosts, t \in Tasks \cup {None} : Enqueue(c, a, h, t)
  BY <1>2, <1>3 DEF Enqueue
<1>4. CASE CheckAll(c)
  <2> DEFINE r == [NoReq EXCEPT !.pc = "next", !.rest = hosts]
  <2>1. r.pc = "next"
    BY DEF NoReq
  <2> HIDE DEF r
  <2>2. req' = [req EXCEPT ![c] = r]
    BY <1>4 DEF CheckAll, r
  <2> QED
    BY <1>4, <2>1, <2>2, KeepId DEF CheckAll
<1>5. CASE CheckTask(c)
  <2>1. CASE req' = [req EXCEPT ![c] = NoReq] /\ UNCHANGED clock
    BY <1>1, <1>5, <2>1, KeepId DEF CheckTask
  <2>2. CASE /\ clock \in Jobs /\ clock' = clock + 1
             /\ req' = [req EXCEPT ![c].pc = "insert", ![c].job = clock]
    <3> DEFINE r == [req[c] EXCEPT !.pc = "insert", !.job = clock]
    <3>0. req[c] \in Reqs
      BY DEF TypeInv, TypeOK
    <3>1. r.job = clock
      BY <3>0 DEF Reqs
    <3>2. req' = [req EXCEPT ![c] = r]
      BY <2>2 DEF TypeInv, TypeOK
    <3> HIDE DEF r
    <3> QED
      BY <1>5, <2>2, <3>1, <3>2, TakeId DEF CheckTask
  <2> QED
    BY <1>5, <2>1, <2>2 DEF CheckTask
<1>6. CASE Insert(c)
  <2>1. CASE req' = [req EXCEPT ![c] = NoReq]
    BY <1>1, <1>6, <2>1, KeepId DEF Insert
  <2>2. CASE req' = [req EXCEPT ![c].pc = "put"]
    <3> DEFINE r == [req[c] EXCEPT !.pc = "put"]
    <3>0. req[c] \in Reqs
      BY DEF TypeInv, TypeOK
    <3>1. r.job = req[c].job
      BY <3>0 DEF Reqs
    <3>2. req' = [req EXCEPT ![c] = r]
      BY <2>2 DEF TypeInv, TypeOK
    <3> HIDE DEF r
    <3> QED
      BY <1>6, <3>1, <3>2, KeepId DEF Insert, Pending
  <2> QED
    BY <1>6, <2>1, <2>2 DEF Insert
<1>7. CASE Put(c)
  <2>1. Pending(c) /\ Serving
    BY <1>7 DEF Put, Pending
  <2>2. req[c].job \in Jobs
    BY <2>1 DEF TypeInv, ControlOK, HandlerOK, Pending
  <2>3. \A d \in Clients : Pending(d)' => d # c /\ req'[d] = req[d] /\ Pending(d)
    BY <1>7 DEF Put, Pending, NoReq, TypeInv, TypeOK
  <2>4. queue \in Seq(Jobs) /\ queue' = Append(queue, req[c].job)
    BY <1>7 DEF Put, TypeInv, TypeOK
  <2>5. \A i \in 1..Len(queue') :
           \/ i \in Positions /\ queue'[i] = queue[i]
           \/ i = Len(queue) + 1 /\ queue'[i] = req[c].job
    BY <2>2, <2>4 DEF Positions
  <2>6. Older'
    BY <1>7, <2>1, <2>3, <2>5 DEF Put, PlaceInv, Older, Positions
  <2>7. OnePlace'
    BY <1>7, <2>1, <2>3, <2>5
       DEF Put, PlaceInv, OnePlace, OneWorkerPerJob, Positions
  <2> QED
    BY <1>7, <2>6, <2>7 DEF Put, PlaceInv
<1>8. CASE CheckNext(c)
  <2>1. CASE req' = [req EXCEPT ![c] = NoReq] /\ UNCHANGED clock
    BY <1>1, <1>8, <2>1, KeepId DEF CheckNext
  <2>2. CASE \E h \in req[c].rest :
               HostFound(c, "check_updates", h, None, req[c].rest \ {h})
    BY <1>2, <1>8, <2>2 DEF CheckNext
  <2> QED
    BY <1>8, <2>1, <2>2 DEF CheckNext
<1> QED
  BY <1>3, <1>4, <1>5, <1>6, <1>7, <1>8 DEF Arrival, HandlerStep

LEMMA WorkersPlace ==
  ASSUME TypeInv, PlaceInv, NEW w \in Workers, WorkerStep(w) \/ DatabaseFault(w)
  PROVE  PlaceInv'
<1>1. CASE Dequeue(w)
  <2>1. queue \in Seq(Jobs) /\ queue # <<>> /\ queue' = Tail(queue)
    BY <1>1 DEF Dequeue, TypeInv, TypeOK
  <2>2. 1 \in Positions /\ Head(queue) = queue[1]
    BY <2>1 DEF Positions
  <2>3. \A i \in 1..Len(queue') : i + 1 \in Positions /\ queue'[i] = queue[i + 1]
    BY <2>1 DEF Positions
  <2>4. /\ local'[w].job = queue[1]
        /\ \A v \in Workers \ {w} : local'[v] = local[v]
    <3>1. local[w] \in Locals
      BY DEF TypeInv, TypeOK
    <3> QED
      BY <1>1, <2>2, <3>1 DEF Dequeue, TypeInv, TypeOK, Locals
  <2>5. Older'
    BY <1>1, <2>2, <2>3, <2>4 DEF Dequeue, PlaceInv, Older, Positions, Pending
  <2>6. OnePlace'
    <3>1. \A i \in 1..Len(queue') : i + 1 # 1
      BY <2>1
    <3>2. \A i, k \in 1..Len(queue') : i + 1 = k + 1 => i = k
      BY <2>1
    <3> QED
      <4>1. \A i, k \in 1..Len(queue') : queue'[i] = queue'[k] => i = k
        BY <2>3, <3>2 DEF PlaceInv, OnePlace
      <4>2. /\ \A c, d \in Clients : Pending(c)' /\ Pending(d)'
                                   /\ req'[c].job = req'[d].job => c = d
            /\ \A c \in Clients, i \in 1..Len(queue') :
                  Pending(c)' => queue'[i] # req'[c].job
        BY <1>1, <2>3 DEF Dequeue, PlaceInv, OnePlace, Pending
      <4>3. \A c \in Clients, v \in Workers :
               Pending(c)' => local'[v].job # req'[c].job
        BY <1>1, <2>2, <2>4 DEF Dequeue, PlaceInv, OnePlace, Pending
      <4>4. \A v \in Workers, i \in 1..Len(queue') : queue'[i] # local'[v].job
        BY <2>2, <2>3, <2>4, <3>1 DEF PlaceInv, OnePlace
      <4>5. OneWorkerPerJob'
        BY <2>2, <2>4 DEF PlaceInv, OnePlace, OneWorkerPerJob
      <4> QED
        BY <4>1, <4>2, <4>3, <4>4, <4>5 DEF OnePlace, Positions
  <2> QED
    BY <1>1, <2>5, <2>6 DEF Dequeue, PlaceInv
<1>2. CASE ~Dequeue(w)
  <2>1. /\ pc[w] # "idle"
        /\ UNCHANGED <<queue, req, up, clock>>
    BY <1>2 DEF WorkerStep, ReadJob, ReadHost, Claim, ReadTask, EnterLock, Start,
         Executed, StoreStatus, FinishSuccess, FinishFailure, DatabaseFault
  <2>2. \A v \in Workers : local'[v].job \in {local[v].job, 0}
    <3>0. local[w] \in Locals
      BY DEF TypeInv, TypeOK
    <3>1. \/ Return(w)
          \/ \E code : FailWith(w, code)
          \/ \E a, h, t : local' = [local EXCEPT ![w].action = a, ![w].host = h,
                                               ![w].task = t]
          \/ \E e : local' = [local EXCEPT ![w].enabled = e]
          \/ UNCHANGED local
      BY <1>2 DEF WorkerStep, ReadJob, ReadHost, Claim, ReadTask, EnterLock, Start,
           Executed, StoreStatus, FinishSuccess, FinishFailure, DatabaseFault
    <3>2. local \in [Workers -> Locals]
      BY DEF TypeInv, TypeOK
    <3>3. CASE Return(w)
      BY <3>2, <3>3 DEF Return, NoLocal
    <3>4. ASSUME NEW code, FailWith(w, code)
          PROVE  \A v \in Workers : local'[v].job \in {local[v].job, 0}
      BY <3>0, <3>2, <3>4 DEF FailWith, Locals
    <3>5. ASSUME NEW a, NEW h, NEW t,
                 local' = [local EXCEPT ![w].action = a, ![w].host = h,
                                        ![w].task = t]
          PROVE  \A v \in Workers : local'[v].job \in {local[v].job, 0}
      BY <3>0, <3>2, <3>5 DEF Locals
    <3>6. ASSUME NEW e, local' = [local EXCEPT ![w].enabled = e]
          PROVE  \A v \in Workers : local'[v].job \in {local[v].job, 0}
      BY <3>0, <3>2, <3>6 DEF Locals
    <3> QED
      BY <3>1, <3>3, <3>4, <3>5, <3>6
  <2> QED
    BY <2>1, <2>2, WorkerKeeps
<1> QED
  BY <1>1, <1>2

\* Recovery fills the empty queue with distinct old ids.
LEMMA LoadPlace ==
  ASSUME TypeInv, PlaceInv, RowsOlder, LoadQueue
  PROVE  PlaceInv'
<1>1. AtRest
  BY DEF PlaceInv, LoadQueue
<1>n. PICK n \in 0..MaxJobs : \E q \in [1..n -> Queued] :
         InCreationOrder(q, Queued) /\ queue' = queue \o q
  BY DEF LoadQueue
<1>2. PICK q \in [1..n -> Queued] :
         InCreationOrder(q, Queued) /\ queue' = queue \o q
  BY <1>n
<1>3. q \in Seq(Jobs) /\ Len(q) = n
  BY <1>2 DEF Queued
<1>4. queue' = q
  BY <1>1, <1>2, <1>3 DEF AtRest
<1>5. \A i \in 1..Len(q) : q[i] \in Jobs /\ q[i] < clock
  BY <1>2, <1>3 DEF RowsOlder, Queued
<1>6. \A i, k \in 1..Len(q) : q[i] = q[k] => i = k
  <2>1. \A i, k \in 1..Len(q) : i < k => q[i] < q[k]
    BY <1>2 DEF InCreationOrder
  <2>2. \A i, k \in 1..Len(q) : q[i] \in Nat /\ (i = k \/ i < k \/ k < i)
    BY <1>3, <1>5
  <2> QED
    BY <2>1, <2>2
<1>7. /\ UNCHANGED <<local, req, pc, clock>>
      /\ up' = "serving"
  BY DEF LoadQueue, disk
<1>8. Older'
  BY <1>1, <1>4, <1>5, <1>7 DEF Older, AtRest, Pending, Positions, PlaceInv
<1>9. OnePlace'
  BY <1>1, <1>4, <1>5, <1>6, <1>7
     DEF AtRest, OnePlace, OneWorkerPerJob, Pending, Positions, PlaceInv
<1> QED
  BY <1>7, <1>8, <1>9 DEF PlaceInv

LEMMA PlaceInductive == TypeInv /\ PlaceInv /\ RowsOlder /\ [Next]_vars => PlaceInv'
<1> SUFFICES ASSUME TypeInv, PlaceInv, RowsOlder, [Next]_vars PROVE PlaceInv'
  OBVIOUS
<1>0. UNCHANGED <<queue, req, local, pc, clock>> /\ (Serving' \/ ~Serving) => PlaceInv'
  BY DEF PlaceInv, Older, OnePlace, OneWorkerPerJob, AtRest, Pending, Positions
<1>1. CASE \E c \in Clients : Arrival(c) \/ HandlerStep(c)
  BY <1>1, HandlersPlace
<1>2. CASE \E h \in Hosts : DeleteHost(h)
  BY <1>0, <1>2 DEF DeleteHost
<1>3. CASE \E t \in Tasks : DeleteTask(t) \/ SwitchTask(t)
  BY <1>0, <1>3 DEF DeleteTask, SwitchTask
<1>4. CASE \E w \in Workers : WorkerStep(w) \/ DatabaseFault(w)
  BY <1>4, WorkersPlace
<1>5. CASE Stop
  <2>1. AtRest'
    BY <1>5 DEF Stop, AtRest, NoLocal, NoReq
  <2>2. clock' = clock /\ clock > 0
    BY <1>5 DEF Stop, disk, TypeInv, TypeOK
  <2>3. \A c \in Clients : ~Pending(c)'
    BY <2>1 DEF AtRest, Pending
  <2>4. Older'
    BY <2>1, <2>2, <2>3 DEF Older, AtRest, Positions
  <2>5. OnePlace'
    BY <2>1, <2>3 DEF OnePlace, OneWorkerPerJob, AtRest, Positions
  <2> QED
    BY <2>1, <2>4, <2>5 DEF PlaceInv
<1>6. CASE Requeue
  BY <1>0, <1>6 DEF Requeue
<1>7. CASE LoadQueue
  BY <1>7, LoadPlace
<1>8. CASE UNCHANGED vars
  BY <1>0, <1>8 DEF vars
<1> QED
  BY <1>1, <1>2, <1>3, <1>4, <1>5, <1>6, <1>7, <1>8 DEF Next

-----------------------------------------------------------------------------
(* The place of a job and the state of its row.                            *)

\* Workers that have not claimed their job, and those that have.
Before(w) == \/ pc[w] \in {"readJob", "readHost", "claim"}
             \/ pc[w] = "fail" /\ local[w].error = "host_not_found"
After(w)  == \/ pc[w] \in Owning
             \/ pc[w] = "fail" /\ local[w].error # "host_not_found"

StateOf(j) == rows[j].state

WorkerRows(w) == /\ Before(w) => StateOf(local[w].job) = "queued"
                 /\ After(w) => StateOf(local[w].job) = "running"

HandlerRows(c) == /\ req[c].pc = "insert" => StateOf(req[c].job) = "absent"
                  /\ req[c].pc = "put" => StateOf(req[c].job) = "queued"

StateInv == /\ RowsOlder
            /\ \A w \in Workers : WorkerRows(w)
            /\ \A c \in Clients : HandlerRows(c)
            /\ \A i \in Positions : StateOf(queue[i]) = "queued"

LEMMA InitState == Init => StateInv
  BY DEF Init, StateInv, RowsOlder, WorkerRows, HandlerRows, Before, After,
         Owning, Positions, NoRow, NoLocal, NoReq

\* Nothing of it changes if the states do not and everyone keeps its place.
LEMMA SameStates ==
  ASSUME TypeInv, StateInv, UNCHANGED clock,
         \A j \in Jobs : StateOf(j)' = StateOf(j),
         UNCHANGED <<queue, pc, local, req>>
  PROVE  StateInv'
<1>1. RowsOlder'
  BY DEF StateInv, RowsOlder, StateOf, TypeInv, TypeOK
<1>2. \A w \in Workers : WorkerRows(w)'
  BY DEF StateInv, WorkerRows, Before, After, Owning, TypeInv, ControlOK, WorkerOK
<1>3. \A c \in Clients : HandlerRows(c)'
  BY DEF StateInv, HandlerRows, TypeInv, ControlOK, HandlerOK
<1>4. \A i \in Positions : StateOf(queue[i])' = "queued"
  BY DEF StateInv, TypeInv, TypeOK, Positions
<1> QED
  BY <1>1, <1>2, <1>3, <1>4 DEF StateInv, Positions

\* A handler moves: no worker and no row but its own is touched.
LEMMA HandlerMoves ==
  ASSUME TypeInv, PlaceInv, StateInv, NEW c \in Clients, NEW r,
         req' = [req EXCEPT ![c] = r], UNCHANGED <<rows, pc, local, queue>>,
         clock' \in {clock, clock + 1},
         r.pc = "insert" => r.job = clock /\ clock \in Jobs,
         r.pc # "put"
  PROVE  StateInv'
<1>0. clock \in Nat
  BY DEF TypeInv, TypeOK
<1>1. RowsOlder'
  BY <1>0 DEF StateInv, RowsOlder
<1>2. \A w \in Workers : WorkerRows(w)'
  BY DEF StateInv, WorkerRows, Before, After, StateOf
<1>3. ASSUME NEW d \in Clients PROVE HandlerRows(d)'
  <2>1. CASE d # c
    BY <2>1 DEF StateInv, HandlerRows, StateOf, TypeInv, TypeOK
  <2>2. CASE d = c
    <3>1. clock \in Jobs => StateOf(clock) = "absent"
      BY DEF StateInv, RowsOlder, StateOf
    <3> QED
      BY <2>2, <3>1 DEF HandlerRows, StateOf, TypeInv, TypeOK
  <2> QED
    BY <2>1, <2>2
<1>4. \A i \in Positions : StateOf(queue[i])' = "queued"
  BY DEF StateInv, StateOf
<1> QED
  BY <1>1, <1>2, <1>3, <1>4 DEF StateInv, Positions

\* A worker moves: no row but its own changes.
LEMMA WorkerMoves ==
  ASSUME TypeInv, PlaceInv, StateInv, NEW w \in Workers, pc[w] # "idle",
         \A j \in Jobs \ {local[w].job} : StateOf(j)' = StateOf(j),
         \A v \in Workers \ {w} : pc'[v] = pc[v] /\ local'[v] = local[v],
         UNCHANGED <<queue, req, clock>>,
         WorkerRows(w)'
  PROVE  StateInv'
<1>0. local[w].job \in Jobs
  BY DEF TypeInv, ControlOK, WorkerOK
<1>1. RowsOlder'
  BY <1>0 DEF StateInv, RowsOlder, StateOf, PlaceInv, Older
<1>2. ASSUME NEW v \in Workers \ {w} PROVE WorkerRows(v)'
  <2>1. Before(v) \/ After(v) =>
           local[v].job \in Jobs /\ local[v].job # local[w].job
    BY <1>0 DEF Before, After, Owning, TypeInv, ControlOK, WorkerOK, PlaceInv,
                OnePlace, OneWorkerPerJob
  <2>2. (Before(v)' <=> Before(v)) /\ (After(v)' <=> After(v))
    BY DEF Before, After
  <2> QED
    BY <2>1, <2>2 DEF StateInv, WorkerRows
<1>3. ASSUME NEW c \in Clients PROVE HandlerRows(c)'
  <2>1. Pending(c) => req[c].job \in Jobs /\ req[c].job # local[w].job
    BY DEF TypeInv, ControlOK, HandlerOK, Pending, PlaceInv, OnePlace
  <2> QED
    BY <2>1 DEF StateInv, HandlerRows, Pending
<1>4. \A i \in Positions : StateOf(queue[i])' = "queued"
  <2>1. \A i \in Positions : queue[i] \in Jobs /\ queue[i] # local[w].job
    BY DEF TypeInv, TypeOK, Positions, PlaceInv, OnePlace
  <2> QED
    BY <2>1 DEF StateInv
<1> QED
  BY <1>1, <1>2, <1>3, <1>4 DEF StateInv, Positions

LEMMA HandlersState ==
  ASSUME TypeInv, PlaceInv, StateInv, NEW c \in Clients,
         Arrival(c) \/ HandlerStep(c)
  PROVE  StateInv'
<1>1. NoReq.pc = "none"
  BY DEF NoReq
<1>2. ASSUME NEW a, NEW h, NEW t, NEW rest, HostFound(c, a, h, t, rest),
             UNCHANGED <<rows, queue, local, pc>>
      PROVE  StateInv'
  <2> DEFINE toTask == [pc |-> "task", job |-> 0, action |-> a, host |-> h,
                        task |-> t, rest |-> rest]
             toInsert == [pc |-> "insert", job |-> clock, action |-> a,
                          host |-> h, task |-> None, rest |-> rest]
  <2>1. CASE a = "custom_task"
    <3>1. req' = [req EXCEPT ![c] = toTask] /\ clock' = clock
      BY <1>2, <2>1 DEF HostFound
    <3>2. toTask.pc = "task"
      OBVIOUS
    <3> HIDE DEF toTask
    <3> QED
      BY <1>2, <3>1, <3>2, HandlerMoves
  <2>2. CASE a # "custom_task"
    <3>1. /\ req' = [req EXCEPT ![c] = toInsert]
          /\ clock \in Jobs /\ clock' = clock + 1
      BY <1>2, <2>2 DEF HostFound
    <3>2. toInsert.job = clock /\ toInsert.pc = "insert"
      OBVIOUS
    <3> HIDE DEF toInsert
    <3> QED
      BY <1>2, <3>1, <3>2, HandlerMoves
  <2> QED
    BY <2>1, <2>2
<1>3. CASE \E a \in Actions, h \in Hosts, t \in Tasks \cup {None} : Enqueue(c, a, h, t)
  BY <1>2, <1>3 DEF Enqueue
<1>4. CASE CheckAll(c)
  <2> DEFINE r == [NoReq EXCEPT !.pc = "next", !.rest = hosts]
  <2>1. r.pc = "next"
    BY DEF NoReq
  <2>2. req' = [req EXCEPT ![c] = r]
    BY <1>4 DEF CheckAll
  <2> HIDE DEF r
  <2> QED
    BY <1>4, <2>1, <2>2, HandlerMoves DEF CheckAll
<1>5. CASE CheckTask(c)
  <2>1. CASE req' = [req EXCEPT ![c] = NoReq] /\ UNCHANGED clock
    BY <1>1, <1>5, <2>1, HandlerMoves DEF CheckTask
  <2>2. CASE /\ clock \in Jobs /\ clock' = clock + 1
             /\ req' = [req EXCEPT ![c].pc = "insert", ![c].job = clock]
    <3> DEFINE r == [req[c] EXCEPT !.pc = "insert", !.job = clock]
    <3>0. req[c] \in Reqs
      BY DEF TypeInv, TypeOK
    <3>1. r.job = clock /\ r.pc = "insert"
      BY <3>0 DEF Reqs
    <3>2. req' = [req EXCEPT ![c] = r]
      BY <2>2 DEF TypeInv, TypeOK
    <3> HIDE DEF r
    <3> QED
      BY <1>5, <2>2, <3>1, <3>2, HandlerMoves DEF CheckTask
  <2> QED
    BY <1>5, <2>1, <2>2 DEF CheckTask
<1>6. CASE Insert(c)
  <2>1. CASE req' = [req EXCEPT ![c] = NoReq] /\ UNCHANGED rows
    BY <1>1, <1>6, <2>1, HandlerMoves DEF Insert
  <2>2. CASE /\ req' = [req EXCEPT ![c].pc = "put"]
             /\ rows' = [rows EXCEPT ![req[c].job] =
                          [state |-> "queued", action |-> req[c].action,
                           host |-> req[c].host, task |-> req[c].task,
                           error |-> None]]
    <3>0. /\ Pending(c) /\ req[c].job \in Jobs /\ req[c].job < clock
          /\ UNCHANGED <<queue, pc, local, clock>>
      BY <1>6 DEF Insert, Pending, TypeInv, ControlOK, HandlerOK, PlaceInv, Older
    <3>1. /\ StateOf(req[c].job)' = "queued"
          /\ \A j \in Jobs \ {req[c].job} : StateOf(j)' = StateOf(j)
      BY <2>2, <3>0 DEF StateOf, TypeInv, TypeOK
    <3>2. /\ req'[c].job = req[c].job /\ req'[c].pc = "put"
          /\ \A d \in Clients \ {c} : req'[d] = req[d]
      <4>1. req[c] \in Reqs
        BY DEF TypeInv, TypeOK
      <4> QED
        BY <2>2, <4>1 DEF TypeInv, TypeOK, Reqs
    <3>3. RowsOlder'
      BY <3>0, <3>1 DEF StateInv, RowsOlder, StateOf
    <3>4. ASSUME NEW w \in Workers PROVE WorkerRows(w)'
      <4>1. Before(w) \/ After(w) =>
               local[w].job \in Jobs /\ local[w].job # req[c].job
        BY <3>0 DEF Before, After, Owning, TypeInv, ControlOK, WorkerOK, PlaceInv,
                    OnePlace
      <4> QED
        BY <3>0, <3>1, <4>1 DEF StateInv, WorkerRows, Before, After
    <3>5. ASSUME NEW d \in Clients PROVE HandlerRows(d)'
      <4>1. CASE d = c
        BY <3>1, <3>2, <4>1 DEF HandlerRows
      <4>2. CASE d # c
        <5>1. Pending(d) => req[d].job \in Jobs /\ req[d].job # req[c].job
          BY <3>0, <4>2 DEF TypeInv, ControlOK, HandlerOK, Pending, PlaceInv, OnePlace
        <5> QED
          BY <3>1, <3>2, <4>2, <5>1 DEF StateInv, HandlerRows, Pending
      <4> QED
        BY <4>1, <4>2
    <3>6. \A i \in Positions : StateOf(queue[i])' = "queued"
      <4>1. \A i \in Positions : queue[i] \in Jobs /\ queue[i] # req[c].job
        <5>1. \A i \in Positions : queue[i] \in Jobs
          BY DEF TypeInv, TypeOK, Positions
        <5>2. \A i \in Positions : queue[i] # req[c].job
          BY <3>0 DEF PlaceInv, OnePlace
        <5> QED
          BY <5>1, <5>2
      <4> QED
        BY <3>0, <3>1, <4>1 DEF StateInv
    <3> QED
      BY <3>0, <3>3, <3>4, <3>5, <3>6 DEF StateInv, Positions
  <2> QED
    BY <1>6, <2>1, <2>2 DEF Insert
<1>7. CASE Put(c)
  <2>1. /\ req[c].job \in Jobs /\ StateOf(req[c].job) = "queued"
        /\ UNCHANGED <<rows, pc, local, clock>>
    BY <1>7 DEF Put, TypeInv, ControlOK, HandlerOK, StateInv, HandlerRows
  <2>2. \A d \in Clients :
           req'[d].pc \in {"insert", "put"} => d # c /\ req'[d] = req[d]
    BY <1>7 DEF Put, NoReq, TypeInv, TypeOK
  <2>3. \A d \in Clients : HandlerRows(d)'
    BY <2>1, <2>2 DEF StateInv, HandlerRows, StateOf
  <2>4. queue \in Seq(Jobs) /\ queue' = Append(queue, req[c].job)
    BY <1>7 DEF Put, TypeInv, TypeOK
  <2>5. \A i \in 1..Len(queue') :
           \/ i \in Positions /\ queue'[i] = queue[i]
           \/ queue'[i] = req[c].job
    BY <2>1, <2>4 DEF Positions
  <2>6. \A i \in 1..Len(queue') : StateOf(queue'[i]) = "queued"
    BY <2>1, <2>5 DEF StateInv
  <2>7. RowsOlder' /\ \A w \in Workers : WorkerRows(w)'
    BY <2>1 DEF StateInv, RowsOlder, WorkerRows, Before, After, StateOf
  <2> QED
    BY <2>1, <2>3, <2>6, <2>7 DEF StateInv, Positions, StateOf
<1>8. CASE CheckNext(c)
  <2>1. CASE req' = [req EXCEPT ![c] = NoReq] /\ UNCHANGED clock
    BY <1>1, <1>8, <2>1, HandlerMoves DEF CheckNext
  <2>2. CASE \E h \in req[c].rest :
               HostFound(c, "check_updates", h, None, req[c].rest \ {h})
    BY <1>2, <1>8, <2>2 DEF CheckNext
  <2> QED
    BY <1>8, <2>1, <2>2 DEF CheckNext
<1> QED
  BY <1>3, <1>4, <1>5, <1>6, <1>7, <1>8 DEF Arrival, HandlerStep

LEMMA WorkersState ==
  ASSUME TypeInv, PlaceInv, StateInv, NEW w \in Workers,
         WorkerStep(w) \/ DatabaseFault(w)
  PROVE  StateInv'
<1> DEFINE Alone == /\ \A v \in Workers \ {w} : pc'[v] = pc[v] /\ local'[v] = local[v]
                    /\ UNCHANGED <<req, clock>>
<1>0. /\ local[w] \in Locals
      /\ pc[w] # "idle" => local[w].job \in Jobs
      /\ local \in [Workers -> Locals] /\ pc \in [Workers -> WorkerPcs]
      /\ rows \in [Jobs -> Rows]
  BY DEF TypeInv, TypeOK, ControlOK, WorkerOK
<1>ret. ASSUME Return(w) PROVE ~Before(w)' /\ ~After(w)' /\ WorkerRows(w)'
  BY <1>0, <1>ret DEF Return, Goto, Before, After, Owning, WorkerRows
<1>fail. ASSUME NEW code, FailWith(w, code)
         PROVE  /\ local'[w].job = local[w].job
                /\ Before(w)' <=> code = "host_not_found"
                /\ After(w)' <=> code # "host_not_found"
  <2>1. local'[w].error = code /\ local'[w].job = local[w].job
    BY <1>0, <1>fail DEF FailWith, Locals
  <2> QED
    BY <1>0, <1>fail, <2>1 DEF FailWith, Goto, Before, After, Owning
<1>alone. Alone \/ Dequeue(w)
  BY <1>0 DEF WorkerStep, ReadJob, ReadHost, Claim, ReadTask, EnterLock, Start,
       Executed, StoreStatus, FinishSuccess, FinishFailure, DatabaseFault, Goto,
       Return, FailWith
<1>rows. ASSUME UNCHANGED rows PROVE \A j \in Jobs : StateOf(j)' = StateOf(j)
  BY <1>rows DEF StateOf
<1>1. CASE Dequeue(w)
  <2>1. queue \in Seq(Jobs) /\ queue # <<>> /\ queue' = Tail(queue)
    BY <1>1 DEF Dequeue, TypeInv, TypeOK
  <2>2. StateOf(Head(queue)) = "queued"
    BY <2>1 DEF StateInv, Positions
  <2>3. \A i \in 1..Len(queue') : rows'[queue'[i]].state = "queued"
    <3>1. \A i \in 1..Len(queue') : i + 1 \in Positions /\ queue'[i] = queue[i + 1]
      BY <2>1 DEF Positions
    <3> QED
      BY <1>1, <3>1 DEF Dequeue, StateInv, StateOf
  <2>4. local'[w].job = Head(queue) /\ pc'[w] = "readJob"
    BY <1>0, <1>1 DEF Dequeue, Goto, Locals
  <2>5. WorkerRows(w)'
    BY <1>1, <2>2, <2>4 DEF Dequeue, WorkerRows, Before, After, Owning, StateOf
  <2>6. \A v \in Workers \ {w} : pc'[v] = pc[v] /\ local'[v] = local[v]
    BY <1>0, <1>1 DEF Dequeue, Goto
  <2>7. \A v \in Workers : WorkerRows(v)'
    BY <1>1, <2>5, <2>6 DEF Dequeue, StateInv, WorkerRows, Before, After, StateOf
  <2>8. RowsOlder' /\ \A c \in Clients : HandlerRows(c)'
    BY <1>1 DEF Dequeue, StateInv, RowsOlder, HandlerRows, StateOf
  <2> QED
    BY <2>3, <2>7, <2>8 DEF StateInv, Positions, StateOf
<1>2. CASE ReadJob(w)
  <2>1. WorkerRows(w)'
    <3>1. CASE pc'[w] = "readHost" /\ local'[w].job = local[w].job
      BY <1>0, <1>2, <3>1 DEF ReadJob, StateInv, WorkerRows, Before, After, Owning, StateOf
    <3>2. Return(w) \/ (pc'[w] = "readHost" /\ local'[w].job = local[w].job)
      BY <1>0, <1>2 DEF ReadJob, Goto, Locals
    <3> QED
      BY <1>ret, <3>1, <3>2
  <2> QED
    BY <1>2, <1>alone, <1>rows, <2>1, WorkerMoves DEF ReadJob, Dequeue
<1>3. CASE ReadHost(w)
  <2>1. rows'[local[w].job].state = "queued"
    BY <1>3 DEF ReadHost, StateInv, WorkerRows, Before, StateOf
  <2>2. WorkerRows(w)'
    <3>1. CASE Goto(w, "claim") /\ UNCHANGED local
      BY <1>0, <2>1, <3>1 DEF Goto, WorkerRows, Before, After, Owning, StateOf
    <3>2. CASE FailWith(w, "host_not_found")
      BY <1>fail, <2>1, <3>2 DEF WorkerRows, StateOf
    <3> QED
      BY <1>3, <3>1, <3>2 DEF ReadHost
  <2> QED
    BY <1>3, <1>alone, <1>rows, <2>2, WorkerMoves DEF ReadHost, Dequeue
<1>4. CASE Claim(w)
  <2>0. local[w].job \in Jobs /\ rows[local[w].job] \in Rows
    BY <1>0, <1>4 DEF Claim
  <2>1. rows[local[w].job].state = "queued"
    BY <1>4 DEF Claim, StateInv, WorkerRows, Before, StateOf
  <2>2. /\ rows'[local[w].job].state = "running"
        /\ \A j \in Jobs \ {local[w].job} : StateOf(j)' = StateOf(j)
    BY <1>0, <1>4, <2>0, <2>1 DEF Claim, StateOf, Rows
  <2>3. WorkerRows(w)'
    <3>1. CASE FailWith(w, "custom_task_not_found")
      BY <1>fail, <2>2, <3>1 DEF WorkerRows, StateOf
    <3>2. CASE \E p \in {"readTask", "enter", "start"} : Goto(w, p) /\ UNCHANGED local
      BY <1>0, <2>2, <3>2 DEF Goto, WorkerRows, Before, After, Owning, StateOf
    <3> QED
      BY <1>4, <2>1, <3>1, <3>2 DEF Claim
  <2> QED
    BY <1>4, <1>alone, <2>2, <2>3, WorkerMoves DEF Claim, Dequeue
<1>5. CASE ReadTask(w) \/ EnterLock(w) \/ Start(w) \/ Executed(w) \/ StoreStatus(w)
  <2>1. /\ UNCHANGED <<rows, queue>> /\ pc[w] \in Owning
    BY <1>5 DEF ReadTask, EnterLock, Start, Executed, StoreStatus, Owning
  <2>2. rows'[local[w].job].state = "running"
    BY <2>1 DEF StateInv, WorkerRows, After, StateOf
  <2>3. \/ \E code : FailWith(w, code) /\ code # "host_not_found"
        \/ pc'[w] \in Owning /\ local'[w].job = local[w].job
    <3>1. \A e : local' = [local EXCEPT ![w].enabled = e] => local'[w].job = local[w].job
      BY <1>0 DEF Locals
    <3>2. \A p : Goto(w, p) => pc'[w] = p
      BY <1>0 DEF Goto
    <3>3. CASE ReadTask(w)
      BY <3>1, <3>2, <3>3 DEF ReadTask, Owning
    <3>4. CASE EnterLock(w) \/ StoreStatus(w)
      BY <3>2, <3>4 DEF EnterLock, StoreStatus, Owning
    <3>5. CASE Start(w) \/ Executed(w)
      BY <3>2, <3>5 DEF Start, Executed, Owning
    <3> QED
      BY <1>5, <3>3, <3>4, <3>5
  <2>4. WorkerRows(w)'
    BY <1>fail, <2>2, <2>3 DEF WorkerRows, Before, After, Owning, StateOf
  <2> QED
    BY <1>5, <1>alone, <1>rows, <2>1, <2>4, WorkerMoves DEF Owning, Dequeue
<1>6. CASE FinishSuccess(w) \/ FinishFailure(w)
  <2>0. Return(w) /\ pc[w] # "idle" /\ UNCHANGED queue
    BY <1>6 DEF FinishSuccess, FinishFailure
  <2>1. \A j \in Jobs \ {local[w].job} : StateOf(j)' = StateOf(j)
    BY <1>0, <1>6 DEF FinishSuccess, FinishFailure, StateOf
  <2> QED
    BY <1>ret, <1>alone, <2>0, <2>1, WorkerMoves DEF Dequeue
<1>7. CASE DatabaseFault(w)
  <2>1. CASE /\ FailWith(w, "internal_execution_error")
             /\ After(w)
    <3>1. WorkerRows(w)'
      BY <1>fail, <1>7, <2>1
         DEF DatabaseFault, StateInv, WorkerRows, StateOf
    <3> QED
      BY <1>7, <1>alone, <1>rows, <2>1, <3>1, WorkerMoves DEF DatabaseFault, Dequeue
  <2>2. CASE Goto(w, "dead") /\ UNCHANGED local
    <3>1. WorkerRows(w)' /\ pc[w] # "idle"
      BY <1>0, <1>7, <2>2 DEF DatabaseFault, Goto, WorkerRows, Before, After, Owning
    <3> QED
      BY <1>7, <1>alone, <1>rows, <3>1, WorkerMoves DEF DatabaseFault, Dequeue
  <2> QED
    BY <1>7, <2>1, <2>2 DEF DatabaseFault, After, Owning
<1> QED
  BY <1>1, <1>2, <1>3, <1>4, <1>5, <1>6, <1>7 DEF WorkerStep

LEMMA StateInductive == TypeInv /\ PlaceInv /\ StateInv /\ [Next]_vars => StateInv'
<1> SUFFICES ASSUME TypeInv, PlaceInv, StateInv, [Next]_vars PROVE StateInv'
  OBVIOUS
<1>0. rows \in [Jobs -> Rows]
  BY DEF TypeInv, TypeOK
<1>1. CASE \E c \in Clients : Arrival(c) \/ HandlerStep(c)
  BY <1>1, HandlersState
<1>2. ASSUME NEW h \in Hosts, DeleteHost(h) PROVE StateInv'
  <2>1. \A j \in Jobs : StateOf(j)' = StateOf(j)
    BY <1>0, <1>2 DEF DeleteHost, StateOf, Rows
  <2> QED
    BY <1>2, <2>1, SameStates DEF DeleteHost
<1>3. ASSUME NEW t \in Tasks, DeleteTask(t) PROVE StateInv'
  <2>1. \A j \in Jobs : StateOf(j)' = StateOf(j)
    BY <1>0, <1>3 DEF DeleteTask, StateOf, Rows
  <2> QED
    BY <1>3, <2>1, SameStates DEF DeleteTask
<1>4. ASSUME NEW t \in Tasks, SwitchTask(t) PROVE StateInv'
  BY <1>4, SameStates DEF SwitchTask, StateOf
<1>5. CASE \E w \in Workers : WorkerStep(w) \/ DatabaseFault(w)
  BY <1>5, WorkersState
<1>6. CASE Stop
  BY <1>6 DEF Stop, disk, StateInv, RowsOlder, WorkerRows, HandlerRows, Before,
              After, Owning, Positions, NoReq
<1>7. CASE Requeue
  <2>1. AtRest
    BY <1>7 DEF Requeue, PlaceInv
  <2>2. AtRest'
    BY <1>7, <2>1 DEF Requeue, AtRest
  <2>3. RowsOlder'
    <3>1. \A j \in Jobs : rows'[j].state # "absent" => rows[j].state # "absent"
      BY <1>0, <1>7 DEF Requeue, Rows
    <3> QED
      BY <1>7, <3>1 DEF Requeue, StateInv, RowsOlder
  <2> QED
    BY <2>2, <2>3 DEF StateInv, AtRest, WorkerRows, HandlerRows, Before, After,
                      Owning, Positions
<1>8. CASE LoadQueue
  <2>1. AtRest
    BY <1>8 DEF LoadQueue, PlaceInv
  <2>n. PICK n \in 0..MaxJobs : \E q \in [1..n -> Queued] : queue' = queue \o q
    BY <1>8 DEF LoadQueue
  <2>2. PICK q \in [1..n -> Queued] : queue' = queue \o q
    BY <2>n
  <2>3. q \in Seq(Jobs) /\ Len(q) = n /\ queue' = q
    BY <2>1, <2>2 DEF Queued, AtRest
  <2>4. \A i \in 1..Len(queue') : rows'[queue'[i]].state = "queued"
    BY <1>8, <2>2, <2>3 DEF LoadQueue, disk, Queued
  <2> QED
    BY <1>8, <2>1, <2>4
       DEF LoadQueue, disk, StateInv, RowsOlder, StateOf, AtRest, WorkerRows,
           HandlerRows, Before, After, Owning, Positions
<1>9. CASE UNCHANGED vars
  BY <1>9, SameStates DEF vars, StateOf
<1> QED
  BY <1>1, <1>2, <1>3, <1>4, <1>5, <1>6, <1>7, <1>8, <1>9 DEF Next

\* The inductive invariant: types, one place per job, and the state that place
\* gives its row.
Ownership == TypeInv /\ PlaceInv /\ StateInv

\* In every reachable state.
THEOREM OwnershipHolds == Spec => []Ownership
<1>1. Init => Ownership
  BY InitTypeInv, InitPlace, InitState DEF Ownership
<1>2. Ownership /\ [Next]_vars => Ownership'
  <2>1. StateInv => RowsOlder
    BY DEF StateInv
  <2> QED
    BY <2>1, TypeInvInductive, PlaceInductive, StateInductive DEF Ownership
<1> QED
  BY <1>1, <1>2, PTL DEF Spec

\* Two workers never process the same job.
THEOREM OneWorker == Spec => []OneWorkerPerJob
<1>1. Ownership => OneWorkerPerJob
  BY DEF Ownership, PlaceInv, OnePlace
<1> QED
  BY <1>1, OwnershipHolds, PTL

-----------------------------------------------------------------------------
(* What becomes of a job: its outcome is final, was earned and comes after *)
(* its snapshot, no job is executed twice in one life of the process or    *)
(* lost, and the queue as a whole implements JobLifecycle.                 *)

-----------------------------------------------------------------------------
(* Stored outcomes.                                                        *)

\* A worker finishes only jobs that are queued or running, and everything else
\* that writes a state leaves the terminal ones alone.
LEMMA TerminalKept ==
  ASSUME Ownership, [Next]_vars, NEW j \in Jobs, rows[j].state \in Terminal
  PROVE  rows'[j].state = rows[j].state /\ rows'[j].error = rows[j].error
<1> USE DEF Ownership, Terminal
<1>0. rows \in [Jobs -> Rows]
  BY DEF TypeInv, TypeOK
<1>1. CASE UNCHANGED rows
  BY <1>1
<1>2. ASSUME NEW c \in Clients, Insert(c)
      PROVE  rows'[j] = rows[j]
  <2>1. rows[req[c].job].state = "absent"
    BY <1>2 DEF Insert, StateInv, HandlerRows, StateOf
  <2> QED
    BY <1>0, <1>2, <2>1 DEF Insert
<1>3. ASSUME NEW h \in Hosts, DeleteHost(h)
      PROVE  rows'[j].state = rows[j].state /\ rows'[j].error = rows[j].error
  BY <1>0, <1>3 DEF DeleteHost, Rows
<1>4. ASSUME NEW t \in Tasks, DeleteTask(t)
      PROVE  rows'[j].state = rows[j].state /\ rows'[j].error = rows[j].error
  BY <1>0, <1>4 DEF DeleteTask, Rows
<1>5. ASSUME NEW w \in Workers, Claim(w) PROVE rows'[j] = rows[j]
  BY <1>0, <1>5 DEF Claim
<1>6. ASSUME NEW w \in Workers, FinishSuccess(w) \/ FinishFailure(w)
      PROVE  rows'[j] = rows[j]
  <2>1. rows[local[w].job].state \in {"queued", "running"}
    BY <1>6 DEF FinishSuccess, FinishFailure, StateInv, WorkerRows, StateOf,
                Before, After, Owning
  <2> QED
    BY <1>0, <1>6, <2>1 DEF FinishSuccess, FinishFailure
<1>7. CASE Requeue
  BY <1>0, <1>7 DEF Requeue
<1>8. \/ UNCHANGED rows
      \/ \E c \in Clients : Insert(c)
      \/ \E h \in Hosts : DeleteHost(h)
      \/ \E t \in Tasks : DeleteTask(t)
      \/ \E w \in Workers : Claim(w) \/ FinishSuccess(w) \/ FinishFailure(w)
      \/ Requeue
  BY DEF Next, vars, Arrival, HandlerStep, Enqueue, CheckAll, CheckTask, Put,
         CheckNext, SwitchTask, WorkerStep, DatabaseFault, Dequeue, ReadJob,
         ReadHost, ReadTask, EnterLock, Start, Executed, StoreStatus, Stop,
         LoadQueue, disk
<1> QED
  BY <1>1, <1>2, <1>3, <1>4, <1>5, <1>6, <1>7, <1>8

\* No retry, late failure or recovery rewrites a stored outcome.
THEOREM TerminalFinal == Spec => TerminalIsFinal
<1>1. Ownership /\ [Next]_vars =>
        [\A j \in Jobs : rows[j].state \in Terminal =>
            /\ rows'[j].state = rows[j].state
            /\ rows'[j].error = rows[j].error]_vars
  BY TerminalKept
<1> QED
  BY <1>1, OwnershipHolds, PTL DEF Spec, TerminalIsFinal

-----------------------------------------------------------------------------
(* Outcomes: what a stored state says about the executions behind it.      *)

\* A worker's step concerns no other worker and no handler.
LEMMA WorkerFrame ==
  ASSUME TypeInv, NEW w \in Workers, WorkerStep(w) \/ DatabaseFault(w)
  PROVE  OthersStay(w) /\ UNCHANGED <<req, clock, hosts, tasks, up, stops>>
<1>0. local \in [Workers -> Locals] /\ pc \in [Workers -> WorkerPcs]
  BY DEF TypeInv, TypeOK
<1>1. ASSUME NEW l, NEW p, local' = [local EXCEPT ![w] = l], Goto(w, p)
      PROVE  OthersStay(w)
  BY <1>0, <1>1 DEF OthersStay, Goto
<1>2. \A code : FailWith(w, code) => OthersStay(w)
  BY <1>0 DEF FailWith, OthersStay, Goto
<1>3. Return(w) => OthersStay(w)
  BY <1>1 DEF Return
<1>4. \A p : Goto(w, p) /\ UNCHANGED local => OthersStay(w)
  BY <1>0 DEF OthersStay, Goto
<1>5. CASE Dequeue(w)
  BY <1>0, <1>5 DEF Dequeue, Goto, OthersStay
<1>6. CASE ReadJob(w)
  BY <1>0, <1>3, <1>6 DEF ReadJob, Goto, OthersStay
<1>7. CASE ReadHost(w)
  BY <1>2, <1>4, <1>7 DEF ReadHost
<1>8. CASE Claim(w)
  BY <1>2, <1>3, <1>4, <1>8 DEF Claim
<1>9. CASE ReadTask(w)
  BY <1>0, <1>2, <1>9 DEF ReadTask, Goto, OthersStay
<1>10. CASE EnterLock(w) \/ StoreStatus(w)
  BY <1>4, <1>10 DEF EnterLock, StoreStatus
<1>11. CASE Start(w) \/ Executed(w)
  BY <1>2, <1>4, <1>11 DEF Start, Executed
<1>12. CASE FinishSuccess(w) \/ FinishFailure(w)
  BY <1>3, <1>12 DEF FinishSuccess, FinishFailure
<1>13. CASE DatabaseFault(w)
  BY <1>2, <1>4, <1>13 DEF DatabaseFault
<1>14. UNCHANGED <<req, clock, hosts, tasks, up, stops>>
  BY DEF WorkerStep, Dequeue, ReadJob, ReadHost, Claim, ReadTask, EnterLock, Start,
     Executed, StoreStatus, FinishSuccess, FinishFailure, DatabaseFault
<1> QED
  BY <1>5, <1>6, <1>7, <1>8, <1>9, <1>10, <1>11, <1>12, <1>13, <1>14 DEF WorkerStep

SpentPcs == {"exec", "status", "finish", "fail", "dead"}

\* A job that was started in this life of the process is not started again: it
\* has its outcome, or a worker past the start keeps it.
Spent(j) == \/ StateOf(j) \in Terminal
            \/ \E w \in Workers : local[w].job = j /\ pc[w] \in SpentPcs

Once == \A j \in Jobs : /\ execs[j] <= stops + 1
                        /\ execs[j] = stops + 1 => Spent(j)

\* What a worker about to finish has to show for it.
Grounds(w) == /\ pc[w] \in {"exec", "status", "finish"} => execs[local[w].job] > 0
              /\ pc[w] = "fail" => local[w].error # None

OutcomeInv == Once /\ OutcomeJustified /\ \A w \in Workers : Grounds(w)

LEMMA InitOutcome == Init => OutcomeInv
  BY DEF Init, OutcomeInv, Once, OutcomeJustified, Grounds, NoRow

\* No worker moves, and no row takes or leaves an outcome.
LEMMA OutcomesKept ==
  ASSUME OutcomeInv, UNCHANGED <<pc, local, execs, stops>>,
         \A j \in Jobs : \/ /\ StateOf(j)' = StateOf(j)
                            /\ rows'[j].error = rows[j].error
                         \/ /\ StateOf(j) \notin Terminal /\ StateOf(j)' \notin Terminal
                            /\ rows'[j].error = None
  PROVE  OutcomeInv'
<1>1. Once'
  BY DEF OutcomeInv, Once, Spent
<1>2. OutcomeJustified'
  BY DEF OutcomeInv, OutcomeJustified, StateOf, Terminal
<1>3. \A w \in Workers : Grounds(w)'
  BY DEF OutcomeInv, Grounds
<1> QED
  BY <1>1, <1>2, <1>3 DEF OutcomeInv

\* A worker moves without storing an outcome or starting the executor.
LEMMA OutcomesMove ==
  ASSUME OutcomeInv, NEW w \in Workers, OthersStay(w), UNCHANGED <<execs, stops>>,
         \A j \in Jobs : \/ /\ StateOf(j)' = StateOf(j)
                            /\ rows'[j].error = rows[j].error
                         \/ /\ StateOf(j) \notin Terminal /\ StateOf(j)' \notin Terminal
                            /\ rows'[j].error = None,
         pc[w] \in SpentPcs => pc'[w] \in SpentPcs /\ local'[w].job = local[w].job,
         Grounds(w)'
  PROVE  OutcomeInv'
<1>1. Once'
  BY DEF OutcomeInv, Once, Spent, OthersStay
<1>2. OutcomeJustified'
  BY DEF OutcomeInv, OutcomeJustified, StateOf, Terminal
<1>3. \A v \in Workers : Grounds(v)'
  BY DEF OutcomeInv, Grounds, OthersStay
<1> QED
  BY <1>1, <1>2, <1>3 DEF OutcomeInv

LEMMA WorkersOutcome ==
  ASSUME Ownership, OutcomeInv, NEW w \in Workers, WorkerStep(w) \/ DatabaseFault(w)
  PROVE  OutcomeInv'
<1>j. PICK j : j = local[w].job
  OBVIOUS
<1> USE <1>j
<1>0. /\ local[w] \in Locals /\ local \in [Workers -> Locals]
      /\ pc \in [Workers -> WorkerPcs] /\ rows \in [Jobs -> Rows]
      /\ execs \in [Jobs -> Nat] /\ stops \in Nat
      /\ pc[w] # "idle" => j \in Jobs
  BY DEF Ownership, TypeInv, TypeOK, ControlOK, WorkerOK
<1>frame. OthersStay(w) /\ UNCHANGED <<req, clock, hosts, tasks, up, stops>>
  BY WorkerFrame DEF Ownership
<1>ret. ASSUME Return(w) PROVE Grounds(w)'
  BY <1>0, <1>ret DEF Return, Goto, Grounds
<1>fail. ASSUME NEW code \in Codes, FailWith(w, code)
         PROVE  pc'[w] = "fail" /\ local'[w].job = j /\ Grounds(w)'
  <2>1. local'[w].error = code /\ local'[w].job = j /\ pc'[w] = "fail"
    BY <1>0, <1>fail DEF FailWith, Goto, Locals
  <2> QED
    BY <2>1 DEF Grounds
<1>codes. /\ "host_not_found" \in Codes /\ "custom_task_not_found" \in Codes
          /\ "custom_task_disabled" \in Codes /\ "execution_failed" \in Codes
          /\ "internal_execution_error" \in Codes
  BY DEF Codes
<1>go. \A p : Goto(w, p) => pc'[w] = p
  BY <1>0 DEF Goto
<1>1. CASE Dequeue(w) \/ ReadJob(w) \/ ReadHost(w) \/ ReadTask(w) \/ EnterLock(w)
  <2>1. UNCHANGED <<rows, execs>> /\ pc[w] \notin SpentPcs
    BY <1>1 DEF Dequeue, ReadJob, ReadHost, ReadTask, EnterLock, SpentPcs
  <2>2. Grounds(w)'
    <3>1. CASE Return(w) \/ \E code \in Codes : FailWith(w, code)
      BY <1>ret, <1>fail, <3>1
    <3>2. CASE pc'[w] \in {"readJob", "readHost", "claim", "enter", "start"}
      BY <3>2 DEF Grounds
    <3>3. Dequeue(w) => Goto(w, "readJob")
      BY DEF Dequeue
    <3>4. ReadJob(w) => Return(w) \/ Goto(w, "readHost")
      BY DEF ReadJob
    <3>5. ReadHost(w) => FailWith(w, "host_not_found") \/ Goto(w, "claim")
      BY DEF ReadHost
    <3>6. ReadTask(w) => FailWith(w, "custom_task_not_found") \/ Goto(w, "enter")
      BY DEF ReadTask
    <3>7. EnterLock(w) => Goto(w, "start")
      BY DEF EnterLock
    <3> QED
      BY <1>1, <1>codes, <1>go, <3>1, <3>2, <3>3, <3>4, <3>5, <3>6, <3>7
  <2> QED
    BY <1>frame, <2>1, <2>2, OutcomesMove DEF StateOf
<1>2. CASE Claim(w)
  <2>0. pc[w] = "claim" /\ UNCHANGED execs /\ j \in Jobs
    BY <1>0, <1>2 DEF Claim
  <2>1. StateOf(j) = "queued"
    BY <2>0 DEF Ownership, StateInv, WorkerRows, Before
  <2>2. \/ \E code \in Codes : FailWith(w, code)
        \/ \E p \in {"readTask", "enter", "start"} : Goto(w, p)
    BY <1>2, <1>codes, <2>1 DEF Claim, StateOf
  <2>3. Grounds(w)'
    BY <1>fail, <1>go, <2>2 DEF Grounds
  <2>4. rows' = [rows EXCEPT ![j].state = "running"]
    BY <1>2, <2>1 DEF Claim, StateOf
  <2>5. rows[j].error = None
    BY <1>0, <2>0, <2>1 DEF OutcomeInv, OutcomeJustified, StateOf
  <2>6. ASSUME NEW i \in Jobs
        PROVE  \/ /\ StateOf(i)' = StateOf(i) /\ rows'[i].error = rows[i].error
               \/ /\ StateOf(i) \notin Terminal /\ StateOf(i)' \notin Terminal
                  /\ rows'[i].error = None
    <3>1. CASE i # j
      BY <1>0, <2>4, <3>1 DEF StateOf
    <3>2. CASE i = j
      <4>1. rows[j] \in Rows /\ rows'[j] = [rows[j] EXCEPT !.state = "running"]
        BY <1>0, <2>0, <2>4
      <4>2. rows'[j].state = "running" /\ rows'[j].error = rows[j].error
        BY <4>1 DEF Rows
      <4> QED
        BY <2>1, <2>5, <3>2, <4>2 DEF StateOf, Terminal
    <3> QED
      BY <3>1, <3>2
  <2> QED
    BY <1>frame, <2>0, <2>3, <2>6, OutcomesMove DEF SpentPcs
<1>3. CASE Start(w) /\ FailWith(w, "custom_task_disabled")
  <2>1. pc[w] = "start" /\ UNCHANGED rows
    BY <1>3 DEF Start
  <2>2. UNCHANGED execs
    BY <1>0, <1>3, <1>fail, <1>codes, <1>go DEF Start
  <2> QED
    BY <1>3, <1>fail, <1>codes, <1>frame, <2>1, <2>2, OutcomesMove
       DEF StateOf, SpentPcs
<1>4. CASE Start(w) /\ Goto(w, "exec")
  <2>0. /\ pc[w] = "start" /\ pc'[w] = "exec" /\ UNCHANGED <<rows, local>>
        /\ execs' = [execs EXCEPT ![j] = @ + 1] /\ j \in Jobs
    BY <1>0, <1>4, <1>fail, <1>codes, <1>go DEF Start
  <2>1. StateOf(j) = "running"
    BY <2>0 DEF Ownership, StateInv, WorkerRows, After, Owning
  <2>2. ~Spent(j)
    BY <2>0, <2>1
       DEF Spent, SpentPcs, Terminal, Ownership, PlaceInv, OnePlace, OneWorkerPerJob
  <2>3. execs[j] <= stops /\ execs'[j] = execs[j] + 1 /\ execs[j] \in Nat
    BY <1>0, <2>0, <2>2 DEF OutcomeInv, Once
  <2>4. \A i \in Jobs \ {j} : execs'[i] = execs[i]
    BY <1>0, <2>0
  <2>5. Spent(j)' /\ \A i \in Jobs : Spent(i) => Spent(i)'
    BY <1>frame, <2>0 DEF Spent, SpentPcs, OthersStay, StateOf
  <2>6. Once'
    <3> SUFFICES ASSUME NEW i \in Jobs
                 PROVE  execs'[i] <= stops' + 1 /\ (execs'[i] = stops' + 1 => Spent(i)')
      BY DEF Once
    <3>1. CASE i = j
      BY <1>0, <1>frame, <2>3, <2>5, <3>1
    <3>2. CASE i # j
      BY <1>0, <1>frame, <2>4, <2>5, <3>2 DEF OutcomeInv, Once
    <3> QED
      BY <3>1, <3>2
  <2>7. OutcomeJustified'
    BY <1>0, <2>0, <2>3, <2>4 DEF OutcomeInv, OutcomeJustified
  <2>8. ASSUME NEW v \in Workers PROVE Grounds(v)'
    <3>1. CASE v = w
      BY <2>0, <2>3, <3>1 DEF Grounds
    <3>2. CASE v # w
      <4>1. pc[v] \in {"exec", "status", "finish"} => local[v].job \in Jobs
        BY DEF Ownership, TypeInv, ControlOK, WorkerOK
      <4>2. local'[v] = local[v] /\ pc'[v] = pc[v]
        BY <1>frame, <3>2 DEF OthersStay
      <4>3. \A i \in Jobs : execs[i] > 0 => execs'[i] > 0
        BY <1>0, <2>3, <2>4
      <4> QED
        BY <4>1, <4>2, <4>3 DEF OutcomeInv, Grounds
    <3> QED
      BY <3>1, <3>2
  <2> QED
    BY <2>6, <2>7, <2>8 DEF OutcomeInv
<1>5. CASE Executed(w)
  <2>0. pc[w] = "exec" /\ UNCHANGED <<rows, execs>> /\ j \in Jobs
    BY <1>0, <1>5 DEF Executed
  <2>1. CASE FailWith(w, "execution_failed")
    BY <1>fail, <1>codes, <1>frame, <2>0, <2>1, OutcomesMove DEF StateOf, SpentPcs
  <2>2. CASE UNCHANGED local /\ (Goto(w, "status") \/ Goto(w, "finish"))
    <3>1. execs[j] > 0
      BY <2>0 DEF OutcomeInv, Grounds
    <3> QED
      BY <1>go, <1>frame, <2>0, <2>2, <3>1, OutcomesMove
         DEF StateOf, SpentPcs, Grounds
  <2> QED
    BY <1>5, <2>1, <2>2 DEF Executed
<1>6. CASE StoreStatus(w)
  <2>1. /\ pc[w] = "status" /\ pc'[w] = "finish" /\ UNCHANGED <<local, rows, execs>>
    BY <1>6, <1>go DEF StoreStatus
  <2> QED
    BY <1>frame, <2>1, OutcomesMove DEF OutcomeInv, Grounds, StateOf, SpentPcs
<1>7. CASE FinishSuccess(w) \/ FinishFailure(w)
  <2>0. Return(w) /\ UNCHANGED execs /\ pc[w] \in {"finish", "fail"} /\ j \in Jobs
    BY <1>0, <1>7 DEF FinishSuccess, FinishFailure
  <2>1. /\ StateOf(j) \in {"queued", "running"}
        /\ \A i \in Jobs \ {j} : rows'[i] = rows[i]
    BY <1>0, <1>7, <2>0 DEF FinishSuccess, FinishFailure, Ownership, StateInv,
       WorkerRows, Before, After, Owning
  <2>2. rows[j].error = None /\ rows[j] \in Rows
    BY <1>0, <2>0, <2>1 DEF OutcomeInv, OutcomeJustified, StateOf
  <2>3. \/ execs[j] > 0 /\ StateOf(j)' = "success" /\ rows'[j].error = None
        \/ StateOf(j)' = "failed" /\ rows'[j].error # None
    <3>1. CASE FinishSuccess(w)
      <4>1. rows'[j] = [rows[j] EXCEPT !.state = "success"] /\ pc[w] = "finish"
        BY <1>0, <2>0, <3>1 DEF FinishSuccess
      <4>2. rows'[j].state = "success" /\ rows'[j].error = None
        BY <2>2, <4>1 DEF Rows
      <4>3. execs[j] > 0
        BY <4>1 DEF OutcomeInv, Grounds
      <4> QED
        BY <4>2, <4>3 DEF StateOf
    <3>2. CASE FinishFailure(w)
      <4>1. /\ rows'[j] = [rows[j] EXCEPT !.state = "failed", !.error = local[w].error]
            /\ pc[w] = "fail"
        BY <1>0, <2>0, <3>2 DEF FinishFailure
      <4>2. rows'[j].state = "failed" /\ rows'[j].error = local[w].error
        BY <2>2, <4>1 DEF Rows
      <4>3. local[w].error # None
        BY <4>1 DEF OutcomeInv, Grounds
      <4> QED
        BY <4>2, <4>3 DEF StateOf
    <3> QED
      BY <1>7, <3>1, <3>2
  <2>4. OutcomeJustified'
    <3>1. ASSUME NEW i \in Jobs, i # j
          PROVE  /\ rows'[i].state = "success" => execs'[i] > 0
                 /\ rows'[i].state = "failed" <=> rows'[i].error # None
      BY <2>0, <2>1, <3>1 DEF OutcomeInv, OutcomeJustified
    <3>2. /\ rows'[j].state = "success" => execs'[j] > 0
          /\ rows'[j].state = "failed" <=> rows'[j].error # None
      BY <2>0, <2>3 DEF StateOf
    <3> QED
      BY <3>1, <3>2 DEF OutcomeJustified
  <2>5. Once'
    <3>1. ASSUME NEW i \in Jobs \ {j}, Spent(i) PROVE Spent(i)'
      BY <1>frame, <2>1, <3>1 DEF Spent, OthersStay, StateOf
    <3>2. Spent(j)'
      BY <2>3 DEF Spent, Terminal
    <3>3. ASSUME NEW i \in Jobs
          PROVE  execs'[i] <= stops' + 1 /\ (execs'[i] = stops' + 1 => Spent(i)')
      BY <1>frame, <2>0, <3>1, <3>2 DEF OutcomeInv, Once
    <3> QED
      BY <3>3 DEF Once
  <2>6. \A v \in Workers : Grounds(v)'
    BY <1>frame, <1>ret, <2>0 DEF OutcomeInv, Grounds, OthersStay
  <2> QED
    BY <2>4, <2>5, <2>6 DEF OutcomeInv
<1>8. CASE DatabaseFault(w)
  <2>1. UNCHANGED <<rows, execs>>
    BY <1>8 DEF DatabaseFault
  <2>2. CASE FailWith(w, "internal_execution_error")
    BY <1>fail, <1>codes, <1>frame, <2>1, <2>2, OutcomesMove DEF StateOf, SpentPcs
  <2>3. CASE Goto(w, "dead") /\ UNCHANGED local
    BY <1>go, <1>frame, <2>1, <2>3, OutcomesMove DEF StateOf, SpentPcs, Grounds
  <2> QED
    BY <1>8, <2>2, <2>3 DEF DatabaseFault
<1>9. Start(w) => FailWith(w, "custom_task_disabled") \/ Goto(w, "exec")
  BY DEF Start
<1> QED
  BY <1>1, <1>2, <1>3, <1>4, <1>5, <1>6, <1>7, <1>8, <1>9 DEF WorkerStep

\* What handlers, deletions and restarts do to the states and errors.
LEMMA OutcomeInductive == Ownership /\ OutcomeInv /\ [Next]_vars => OutcomeInv'
<1> SUFFICES ASSUME Ownership, OutcomeInv, [Next]_vars PROVE OutcomeInv'
  OBVIOUS
<1>0. rows \in [Jobs -> Rows] /\ execs \in [Jobs -> Nat] /\ stops \in Nat
  BY DEF Ownership, TypeInv, TypeOK
<1>1. ASSUME NEW c \in Clients, Insert(c) PROVE OutcomeInv'
  <2>1. UNCHANGED rows \/ (req[c].pc = "insert" /\ StateOf(req[c].job) = "absent")
    BY <1>1 DEF Insert, Ownership, StateInv, HandlerRows
  <2>2. ASSUME NEW j \in Jobs, rows'[j] # rows[j]
        PROVE  /\ StateOf(j) = "absent"
               /\ StateOf(j)' = "queued" /\ rows'[j].error = None
    BY <1>0, <1>1, <2>1, <2>2 DEF Insert, StateOf
  <2> QED
    BY <1>1, <2>2, OutcomesKept DEF Insert, StateOf, Terminal
<1>2. CASE \E c \in Clients : \/ Arrival(c) \/ CheckTask(c) \/ Put(c) \/ CheckNext(c)
  BY <1>2, OutcomesKept DEF Arrival, Enqueue, CheckAll, CheckTask, Put, CheckNext, StateOf
<1>3. ASSUME NEW h \in Hosts, DeleteHost(h) PROVE OutcomeInv'
  <2>1. \A j \in Jobs : rows'[j].state = rows[j].state /\ rows'[j].error = rows[j].error
    BY <1>0, <1>3 DEF DeleteHost, Rows
  <2> QED
    BY <1>3, <2>1, OutcomesKept DEF DeleteHost, StateOf
<1>4. ASSUME NEW t \in Tasks, DeleteTask(t) PROVE OutcomeInv'
  <2>1. \A j \in Jobs : rows'[j].state = rows[j].state /\ rows'[j].error = rows[j].error
    BY <1>0, <1>4 DEF DeleteTask, Rows
  <2> QED
    BY <1>4, <2>1, OutcomesKept DEF DeleteTask, StateOf
<1>5. CASE (\E t \in Tasks : SwitchTask(t)) \/ LoadQueue \/ UNCHANGED vars
  BY <1>5, OutcomesKept DEF SwitchTask, LoadQueue, disk, vars, StateOf
<1>6. CASE \E w \in Workers : WorkerStep(w) \/ DatabaseFault(w)
  BY <1>6, WorkersOutcome
<1>7. CASE Stop
  <2>1. Once'
    BY <1>0, <1>7 DEF Stop, OutcomeInv, Once
  <2>2. OutcomeJustified' /\ \A w \in Workers : Grounds(w)'
    BY <1>7 DEF Stop, disk, OutcomeInv, OutcomeJustified, Grounds
  <2> QED
    BY <2>1, <2>2 DEF OutcomeInv
<1>8. CASE Requeue
  <2>1. ASSUME NEW j \in Jobs, rows'[j] # rows[j]
        PROVE  /\ StateOf(j) = "running" /\ StateOf(j)' = "queued"
               /\ rows'[j].error = None
    <3>1. rows[j] \in Rows /\ rows'[j] = [rows[j] EXCEPT !.state = "queued"]
          /\ rows[j].state = "running"
      BY <1>0, <1>8, <2>1 DEF Requeue
    <3>2. rows[j].error = None
      BY <3>1 DEF OutcomeInv, OutcomeJustified
    <3> QED
      BY <3>1, <3>2 DEF StateOf, Rows
  <2> QED
    BY <1>8, <2>1, OutcomesKept DEF Requeue, StateOf, Terminal
<1> QED
  BY <1>1, <1>2, <1>3, <1>4, <1>5, <1>6, <1>7, <1>8 DEF Next, HandlerStep

\* Grounds, outcomes and the count of executions hold in every reachable state.
THEOREM OutcomeHolds == Spec => []OutcomeInv
  BY InitOutcome, OutcomeInductive, OwnershipHolds, PTL DEF Spec

\* Only a restart repeats an update or a reboot: within one life of the process
\* a job starts executing at most once, whatever fails on the way.
THEOREM ExecutedOnce == Spec => []OncePerLife
<1>1. OutcomeInv => OncePerLife
  BY DEF OutcomeInv, Once, OncePerLife
<1> QED
  BY <1>1, OutcomeHolds, PTL

\* A stored success was executed, a stored failure names its code, and no other
\* row carries one.
THEOREM OutcomesJustified == Spec => []OutcomeJustified
<1>1. OutcomeInv => OutcomeJustified
  BY DEF OutcomeInv
<1> QED
  BY <1>1, OutcomeHolds, PTL

-----------------------------------------------------------------------------
(* Snapshots: what a worker remembers of its row and its host.             *)

\* The foreign key of jobs.host_id.
ForeignKeys == \A j \in Jobs : rows[j].host \in hosts \cup {None}

\* A worker's copy of its row agrees with the row, a deleted host apart.
Copies(w) == pc[w] \notin {"idle", "readJob", "dead"} =>
                /\ rows[local[w].job].action = ActionOf(w)
                /\ rows[local[w].job].host \in {local[w].host, None}

\* A check or an update is not finished before its snapshot is stored.
Stored(w) == /\ pc[w] = "finish" /\ ActionOf(w) \in Snapshots
             /\ local[w].host \in hosts
             => local[w].host \in checked

StatusInv == /\ ForeignKeys
             /\ \A w \in Workers : Copies(w) /\ Stored(w)
             /\ SuccessHasStatus

LEMMA InitStatus == Init => StatusInv
  BY DEF Init, StatusInv, ForeignKeys, Copies, Stored, SuccessHasStatus, NoRow

\* A worker moves: rows keep action and host, snapshots only come, and a new
\* success has its snapshot.
LEMMA StatusMove ==
  ASSUME TypeInv, StatusInv, NEW w \in Workers, OthersStay(w), UNCHANGED hosts,
         checked \subseteq checked',
         \A i \in Jobs : /\ rows'[i].action = rows[i].action
                         /\ rows'[i].host = rows[i].host
                         /\ \/ rows'[i].state = rows[i].state
                            \/ rows'[i].state # "success"
                            \/ /\ rows[i].action \in Snapshots /\ rows[i].host # None
                               => rows[i].host \in checked,
         Copies(w)', Stored(w)'
  PROVE  StatusInv'
<1>1. ForeignKeys'
  BY DEF StatusInv, ForeignKeys
<1>2. ASSUME NEW v \in Workers PROVE Copies(v)' /\ Stored(v)'
  <2>1. CASE v # w
    <3>1. pc'[v] = pc[v] /\ local'[v] = local[v]
      BY <2>1 DEF OthersStay
    <3>2. pc[v] # "idle" => local[v].job \in Jobs
      BY DEF TypeInv, ControlOK, WorkerOK
    <3> QED
      BY <3>1, <3>2 DEF StatusInv, Copies, Stored, ActionOf
  <2> QED
    BY <2>1
<1>3. SuccessHasStatus'
  BY DEF StatusInv, SuccessHasStatus
<1> QED
  BY <1>1, <1>2, <1>3 DEF StatusInv

LEMMA WorkersStatus ==
  ASSUME Ownership, StatusInv, NEW w \in Workers, WorkerStep(w) \/ DatabaseFault(w)
  PROVE  StatusInv'
<1>j. PICK j : j = local[w].job
  OBVIOUS
<1> USE <1>j
<1>0. /\ TypeInv /\ local[w] \in Locals /\ local \in [Workers -> Locals]
      /\ pc \in [Workers -> WorkerPcs] /\ rows \in [Jobs -> Rows]
      /\ pc[w] # "idle" => j \in Jobs
      /\ checked \subseteq hosts
  BY DEF Ownership, TypeInv, TypeOK, ControlOK, WorkerOK
<1>frame. OthersStay(w) /\ UNCHANGED <<req, clock, hosts, tasks, up, stops>>
  BY <1>0, WorkerFrame
<1>go. \A p : Goto(w, p) => pc'[w] = p
  BY <1>0 DEF Goto
<1>copy. pc[w] \notin {"idle", "readJob", "dead"} =>
           rows[j].action = ActionOf(w) /\ rows[j].host \in {local[w].host, None}
  BY DEF StatusInv, Copies
\* The worker keeps its copy; rows and snapshots stay, and it is not at finish.
<1>same. ASSUME UNCHANGED <<rows, checked>>, pc'[w] # "finish",
                pc[w] \notin {"idle", "readJob", "dead"},
                /\ local'[w].job = j /\ local'[w].action = ActionOf(w)
                /\ local'[w].host = local[w].host
         PROVE  StatusInv'
  <2>1. Copies(w)' /\ Stored(w)'
    BY <1>copy, <1>same DEF Copies, Stored, ActionOf
  <2> QED
    BY <1>0, <1>frame, <1>same, <2>1, StatusMove
<1>none. ASSUME UNCHANGED <<rows, checked>>, pc'[w] \in {"idle", "readJob", "dead"}
         PROVE  StatusInv'
  <2>1. Copies(w)' /\ Stored(w)'
    BY <1>none DEF Copies, Stored
  <2> QED
    BY <1>0, <1>frame, <1>none, <2>1, StatusMove
<1>ret. ASSUME Return(w) PROVE pc'[w] = "idle"
  BY <1>go, <1>ret DEF Return
<1>fail. ASSUME NEW code \in Codes, FailWith(w, code)
         PROVE  /\ pc'[w] = "fail"
                /\ local'[w].job = j /\ local'[w].action = ActionOf(w)
                /\ local'[w].host = local[w].host
  BY <1>0, <1>fail DEF FailWith, Goto, Locals, ActionOf
<1>codes. /\ "host_not_found" \in Codes /\ "custom_task_not_found" \in Codes
          /\ "custom_task_disabled" \in Codes /\ "execution_failed" \in Codes
          /\ "internal_execution_error" \in Codes
  BY DEF Codes
<1>1. CASE Dequeue(w)
  BY <1>1, <1>go, <1>none DEF Dequeue
<1>2. CASE ReadJob(w)
  <2>1. CASE Return(w)
    BY <1>2, <1>ret, <1>none, <2>1 DEF ReadJob
  <2>2. CASE ~Return(w)
    <3>1. /\ pc'[w] = "readHost" /\ UNCHANGED <<rows, checked>> /\ j \in Jobs
          /\ local' = [local EXCEPT ![w].action = rows[j].action,
                                    ![w].host = rows[j].host,
                                    ![w].task = rows[j].task]
      BY <1>0, <1>2, <1>go, <2>2 DEF ReadJob
    <3>2. /\ local'[w].action = rows[j].action /\ local'[w].host = rows[j].host
          /\ local'[w].job = j
      BY <1>0, <3>1 DEF Locals
    <3>3. Copies(w)' /\ Stored(w)'
      BY <3>1, <3>2 DEF Copies, Stored, ActionOf
    <3> QED
      BY <1>0, <1>frame, <3>1, <3>3, StatusMove
  <2> QED
    BY <2>1, <2>2
<1>3. CASE ReadHost(w)
  <2>1. UNCHANGED <<rows, checked>> /\ pc[w] = "readHost"
    BY <1>3 DEF ReadHost
  <2>2. CASE Goto(w, "claim") /\ UNCHANGED local
    BY <1>go, <1>same, <2>1, <2>2 DEF ActionOf
  <2>3. CASE FailWith(w, "host_not_found")
    BY <1>fail, <1>codes, <1>same, <2>1, <2>3
  <2> QED
    BY <1>3, <2>2, <2>3 DEF ReadHost
<1>4. CASE Claim(w)
  <2>0. pc[w] = "claim" /\ UNCHANGED checked /\ j \in Jobs
    BY <1>0, <1>4 DEF Claim
  <2>1. CASE Return(w) /\ UNCHANGED rows
    BY <1>ret, <1>none, <2>0, <2>1
  <2>2. CASE rows' = [rows EXCEPT ![j].state = "running"]
             /\ (\/ FailWith(w, "custom_task_not_found")
                 \/ \E p \in {"readTask", "enter", "start"} : Goto(w, p) /\ UNCHANGED local)
    <3>1. /\ pc'[w] \in {"fail", "readTask", "enter", "start"}
          /\ local'[w].job = j /\ local'[w].action = ActionOf(w)
          /\ local'[w].host = local[w].host
      BY <1>fail, <1>codes, <1>go, <2>2 DEF ActionOf
    <3>2. ASSUME NEW i \in Jobs
          PROVE  /\ rows'[i].action = rows[i].action /\ rows'[i].host = rows[i].host
                 /\ rows'[i].state = rows[i].state \/ rows'[i].state # "success"
      <4>1. CASE i # j
        BY <1>0, <2>2, <4>1
      <4>2. CASE i = j
        <5>1. rows[j] \in Rows /\ rows'[j] = [rows[j] EXCEPT !.state = "running"]
          BY <1>0, <2>0, <2>2
        <5> QED
          BY <4>2, <5>1 DEF Rows
      <4> QED
        BY <4>1, <4>2
    <3>3. Copies(w)' /\ Stored(w)'
      <4>1. rows[j].action = ActionOf(w) /\ rows[j].host \in {local[w].host, None}
        BY <1>copy, <2>0
      <4> QED
        BY <2>0, <3>1, <3>2, <4>1 DEF Copies, Stored, ActionOf
    <3> QED
      BY <1>0, <1>frame, <2>0, <3>2, <3>3, StatusMove
  <2> QED
    BY <1>4, <2>1, <2>2 DEF Claim
<1>5. CASE ReadTask(w)
  <2>0. UNCHANGED <<rows, checked>> /\ pc[w] = "readTask"
    BY <1>5 DEF ReadTask
  <2>1. CASE FailWith(w, "custom_task_not_found")
    BY <1>fail, <1>codes, <1>same, <2>0, <2>1
  <2>2. ASSUME NEW e \in BOOLEAN, Goto(w, "enter"),
               local' = [local EXCEPT ![w].enabled = e]
        PROVE  StatusInv'
    <3>1. /\ local'[w].job = j /\ local'[w].action = ActionOf(w)
          /\ local'[w].host = local[w].host
      BY <1>0, <2>2 DEF Locals, ActionOf
    <3> QED
      BY <1>go, <1>same, <2>0, <2>2, <3>1
  <2>3. \/ FailWith(w, "custom_task_not_found")
        \/ \E e \in BOOLEAN : Goto(w, "enter") /\ local' = [local EXCEPT ![w].enabled = e]
    BY <1>5 DEF ReadTask
  <2> QED
    BY <2>1, <2>2, <2>3
<1>6. CASE EnterLock(w)
  BY <1>6, <1>go, <1>same DEF EnterLock, ActionOf
<1>7. CASE Start(w)
  <2>0. UNCHANGED <<rows, checked>> /\ pc[w] = "start"
    BY <1>7 DEF Start
  <2>1. CASE FailWith(w, "custom_task_disabled")
    BY <1>fail, <1>codes, <1>same, <2>0, <2>1
  <2>2. CASE Goto(w, "exec") /\ UNCHANGED local
    BY <1>go, <1>same, <2>0, <2>2 DEF ActionOf
  <2> QED
    BY <1>7, <2>1, <2>2 DEF Start
<1>8. CASE Executed(w)
  <2>0. UNCHANGED <<rows, checked>> /\ pc[w] = "exec"
    BY <1>8 DEF Executed
  <2>1. CASE FailWith(w, "execution_failed")
    BY <1>fail, <1>codes, <1>same, <2>0, <2>1
  <2>2. CASE Goto(w, "status") /\ UNCHANGED local
    BY <1>go, <1>same, <2>0, <2>2 DEF ActionOf
  <2>3. CASE Goto(w, "finish") /\ UNCHANGED local /\ ActionOf(w) \notin Snapshots
    <3>1. Copies(w)' /\ Stored(w)'
      BY <1>copy, <1>go, <2>0, <2>3 DEF Copies, Stored, ActionOf
    <3> QED
      BY <1>0, <1>frame, <2>0, <3>1, StatusMove
  <2> QED
    BY <1>8, <2>1, <2>2, <2>3 DEF Executed
<1>9. CASE StoreStatus(w)
  <2>1. /\ pc[w] = "status" /\ pc'[w] = "finish" /\ UNCHANGED <<rows, local>>
        /\ checked' = checked \cup ({local[w].host} \cap hosts)
    BY <1>9, <1>go DEF StoreStatus
  <2>2. Copies(w)' /\ Stored(w)'
    BY <1>copy, <1>frame, <2>1 DEF Copies, Stored, ActionOf
  <2> QED
    BY <1>0, <1>frame, <2>1, <2>2, StatusMove
<1>10. CASE FinishSuccess(w) \/ FinishFailure(w)
  <2>0. /\ pc'[w] = "idle" /\ UNCHANGED checked /\ j \in Jobs
        /\ pc[w] \in {"finish", "fail"}
    BY <1>0, <1>10, <1>ret DEF FinishSuccess, FinishFailure
  <2>1. Copies(w)' /\ Stored(w)'
    BY <2>0 DEF Copies, Stored
  <2>2. \A i \in Jobs \ {j} : rows'[i] = rows[i]
    BY <1>0, <1>10 DEF FinishSuccess, FinishFailure
  <2>3. /\ rows'[j].action = rows[j].action /\ rows'[j].host = rows[j].host
        /\ rows'[j].state # "success" \/ pc[w] = "finish"
    <3>1. rows[j] \in Rows
      BY <1>0, <2>0
    <3>2. \/ /\ rows'[j] = [rows[j] EXCEPT !.state = "success"] /\ pc[w] = "finish"
          \/ rows'[j] = [rows[j] EXCEPT !.state = "failed", !.error = local[w].error]
      BY <1>0, <1>10, <2>0 DEF FinishSuccess, FinishFailure
    <3> QED
      BY <3>1, <3>2 DEF Rows
  <2>4. pc[w] = "finish" /\ rows[j].action \in Snapshots /\ rows[j].host # None
        => rows[j].host \in checked
    <3>1. Stored(w) /\ rows[j].host \in hosts \cup {None}
      BY <2>0 DEF StatusInv, ForeignKeys
    <3> QED
      BY <1>copy, <3>1 DEF Stored
  <2>5. ASSUME NEW i \in Jobs
        PROVE  /\ rows'[i].action = rows[i].action
               /\ rows'[i].host = rows[i].host
               /\ \/ rows'[i].state = rows[i].state
                  \/ rows'[i].state # "success"
                  \/ /\ rows[i].action \in Snapshots /\ rows[i].host # None
                     => rows[i].host \in checked
    BY <2>2, <2>3, <2>4
  <2> QED
    BY <1>0, <1>frame, <2>0, <2>1, <2>5, StatusMove
<1>11. CASE DatabaseFault(w)
  <2>0. UNCHANGED <<rows, checked>>
    BY <1>11 DEF DatabaseFault
  <2>1. CASE FailWith(w, "internal_execution_error")
    <3>1. pc[w] \in {"readTask", "status", "finish", "fail"}
      BY <1>0, <1>11, <1>fail, <1>codes, <1>go, <2>1 DEF DatabaseFault
    <3> QED
      BY <1>fail, <1>codes, <1>same, <2>0, <2>1, <3>1
  <2>2. CASE Goto(w, "dead")
    BY <1>go, <1>none, <2>0, <2>2
  <2> QED
    BY <1>11, <2>1, <2>2 DEF DatabaseFault
<1> QED
  BY <1>1, <1>2, <1>3, <1>4, <1>5, <1>6, <1>7, <1>8, <1>9, <1>10, <1>11 DEF WorkerStep

\* No worker moves and no host goes; rows keep action and host.
LEMMA StatusKept ==
  ASSUME TypeInv, StatusInv, UNCHANGED <<hosts, checked, pc, local>>,
         \A i \in Jobs : /\ rows'[i].action = rows[i].action
                         /\ rows'[i].host = rows[i].host
                         /\ rows'[i].state # "success" \/ rows'[i].state = rows[i].state
  PROVE  StatusInv'
<1>1. \A w \in Workers : pc[w] # "idle" => local[w].job \in Jobs
  BY DEF TypeInv, ControlOK, WorkerOK
<1>2. ForeignKeys' /\ SuccessHasStatus'
  BY DEF StatusInv, ForeignKeys, SuccessHasStatus
<1>3. \A w \in Workers : Copies(w)' /\ Stored(w)'
  BY <1>1 DEF StatusInv, Copies, Stored, ActionOf
<1> QED
  BY <1>2, <1>3 DEF StatusInv

LEMMA StatusInductive == Ownership /\ StatusInv /\ [Next]_vars => StatusInv'
<1> SUFFICES ASSUME Ownership, StatusInv, [Next]_vars PROVE StatusInv'
  OBVIOUS
<1>0. /\ TypeInv /\ rows \in [Jobs -> Rows] /\ checked \subseteq hosts
      /\ hosts \subseteq Hosts
      /\ \A w \in Workers : pc[w] # "idle" => local[w].job \in Jobs
  BY DEF Ownership, TypeInv, TypeOK, ControlOK, WorkerOK
<1>1. ASSUME NEW c \in Clients, Insert(c) PROVE StatusInv'
  <2>1. CASE UNCHANGED rows
    BY <1>0, <1>1, <2>1, StatusKept DEF Insert
  <2>2. CASE ~UNCHANGED rows
    <3> DEFINE new == [state |-> "queued", action |-> req[c].action,
                       host |-> req[c].host, task |-> req[c].task, error |-> None]
    <3>j. PICK j : j = req[c].job
      OBVIOUS
    <3>1. /\ req[c].host \in hosts /\ rows' = [rows EXCEPT ![j] = new]
          /\ req[c].pc = "insert" /\ UNCHANGED <<hosts, checked, pc, local>>
      BY <1>1, <2>2, <3>j DEF Insert
    <3>2. \A w \in Workers : local[w].job # j
      BY <3>1, <3>j DEF Ownership, PlaceInv, OnePlace, Pending
    <3>3. j \in Jobs
      BY <3>1, <3>j DEF Ownership, TypeInv, ControlOK, HandlerOK
    <3>4. rows'[j].host \in hosts /\ rows'[j].state = "queued"
      BY <1>0, <3>1, <3>3
    <3>5. \A i \in Jobs \ {j} : rows'[i] = rows[i]
      BY <1>0, <3>1
    <3>6. ForeignKeys' /\ SuccessHasStatus'
      BY <3>1, <3>4, <3>5 DEF StatusInv, ForeignKeys, SuccessHasStatus
    <3>7. \A w \in Workers : Copies(w)' /\ Stored(w)'
      BY <1>0, <3>1, <3>2, <3>5 DEF StatusInv, Copies, Stored, ActionOf
    <3> QED
      BY <3>6, <3>7 DEF StatusInv
  <2> QED
    BY <2>1, <2>2
<1>2. CASE \E c \in Clients : \/ Arrival(c) \/ CheckTask(c) \/ Put(c) \/ CheckNext(c)
  BY <1>0, <1>2, StatusKept DEF Arrival, Enqueue, CheckAll, CheckTask, Put, CheckNext
<1>3. ASSUME NEW h \in Hosts, DeleteHost(h) PROVE StatusInv'
  <2>1. /\ hosts' = hosts \ {h} /\ checked' = checked \ {h}
        /\ UNCHANGED <<pc, local>>
    BY <1>3 DEF DeleteHost
  <2>2. ASSUME NEW i \in Jobs
        PROVE  /\ rows'[i].action = rows[i].action /\ rows'[i].state = rows[i].state
               /\ rows'[i].host = IF rows[i].host = h THEN None ELSE rows[i].host
    <3>1. rows[i] \in Rows
      BY <1>0
    <3> QED
      BY <1>3, <3>1 DEF DeleteHost, Rows
  <2>3. ForeignKeys' /\ SuccessHasStatus'
    BY <2>1, <2>2 DEF StatusInv, ForeignKeys, SuccessHasStatus
  <2>4. \A w \in Workers : Copies(w)' /\ Stored(w)'
    BY <1>0, <2>1, <2>2 DEF StatusInv, Copies, Stored, ActionOf
  <2> QED
    BY <2>3, <2>4 DEF StatusInv
<1>4. ASSUME NEW t \in Tasks, DeleteTask(t) PROVE StatusInv'
  <2>1. \A i \in Jobs : /\ rows'[i].action = rows[i].action
                        /\ rows'[i].host = rows[i].host /\ rows'[i].state = rows[i].state
    BY <1>0, <1>4 DEF DeleteTask, Rows
  <2> QED
    BY <1>0, <1>4, <2>1, StatusKept DEF DeleteTask
<1>5. CASE (\E t \in Tasks : SwitchTask(t)) \/ LoadQueue \/ UNCHANGED vars
  BY <1>0, <1>5, StatusKept DEF SwitchTask, LoadQueue, disk, vars
<1>6. CASE \E w \in Workers : WorkerStep(w) \/ DatabaseFault(w)
  BY <1>6, WorkersStatus
<1>7. CASE Stop
  BY <1>7 DEF Stop, disk, StatusInv, ForeignKeys, Copies, Stored, SuccessHasStatus
<1>8. CASE Requeue
  <2>1. \A i \in Jobs : /\ rows'[i].action = rows[i].action
                        /\ rows'[i].host = rows[i].host
                        /\ rows'[i].state # "success" \/ rows'[i].state = rows[i].state
    BY <1>0, <1>8 DEF Requeue, Rows
  <2> QED
    BY <1>0, <1>8, <2>1, StatusKept DEF Requeue
<1> QED
  BY <1>1, <1>2, <1>3, <1>4, <1>5, <1>6, <1>7, <1>8 DEF Next, HandlerStep

\* When a check or an update of an existing host reads as successful, the host
\* row carries a snapshot: the worker stores it first, and a host that is
\* deleted and takes its snapshot along also leaves the job row.
THEOREM SnapshotFirst == Spec => []SuccessHasStatus
<1>1. StatusInv => SuccessHasStatus
  BY DEF StatusInv
<1> QED
  BY <1>1, InitStatus, StatusInductive, OwnershipHolds, PTL DEF Spec

-----------------------------------------------------------------------------
(* No job is lost: while the backend serves, every row that has no outcome *)
(* is somewhere; the recovery starts from rows of which none is running.   *)

HasOwner(j) == \E w \in Workers : /\ local[w].job = j
                                  /\ pc[w] \in Owning \cup {"fail", "dead"}

HasPlace(j) == \/ \E i \in Positions : queue[i] = j
               \/ \E w \in Workers : local[w].job = j
               \/ \E c \in Clients : req[c].pc = "put" /\ req[c].job = j
               \/ rows[j].host = None

Kept(j) == /\ StateOf(j) = "running" => HasOwner(j)
           /\ StateOf(j) = "queued" => HasPlace(j)

\* An idle worker has no job.
IdleInv == \A w \in Workers : pc[w] = "idle" => local[w].job = 0

KeptInv == /\ Serving => \A j \in Jobs : Kept(j)
           /\ up = "recovering" => \A j \in Jobs : StateOf(j) # "running"

LEMMA InitKept == Init => IdleInv /\ KeptInv
  BY DEF Init, IdleInv, KeptInv, Kept, StateOf, NoRow, NoLocal

LEMMA IdleInductive == TypeInv /\ IdleInv /\ [Next]_vars => IdleInv'
<1> SUFFICES ASSUME TypeInv, IdleInv, [Next]_vars PROVE IdleInv'
  OBVIOUS
<1>0. local \in [Workers -> Locals] /\ pc \in [Workers -> WorkerPcs]
  BY DEF TypeInv, TypeOK
<1>1. ASSUME NEW w \in Workers, WorkerStep(w) \/ DatabaseFault(w) PROVE IdleInv'
  <2>1. OthersStay(w)
    BY <1>1, WorkerFrame
  <2>2. Return(w) \/ pc'[w] # "idle"
    <3>1. \A p : Goto(w, p) => pc'[w] = p
      BY <1>0 DEF Goto
    <3>2. \A code : FailWith(w, code) => pc'[w] = "fail"
      BY <3>1 DEF FailWith
    <3>3. CASE Dequeue(w) \/ ReadJob(w) \/ ReadHost(w) \/ Claim(w)
      BY <3>1, <3>2, <3>3 DEF Dequeue, ReadJob, ReadHost, Claim
    <3>4. CASE ReadTask(w) \/ EnterLock(w) \/ Start(w) \/ Executed(w) \/ StoreStatus(w)
      BY <3>1, <3>2, <3>4 DEF ReadTask, EnterLock, Start, Executed, StoreStatus
    <3>5. CASE FinishSuccess(w) \/ FinishFailure(w) \/ DatabaseFault(w)
      BY <3>1, <3>2, <3>5 DEF FinishSuccess, FinishFailure, DatabaseFault
    <3> QED
      BY <1>1, <3>3, <3>4, <3>5 DEF WorkerStep
  <2>3. Return(w) => local'[w].job = 0
    BY <1>0 DEF Return, NoLocal
  <2> QED
    BY <2>1, <2>2, <2>3 DEF IdleInv, OthersStay
<1>2. CASE Stop
  BY <1>2 DEF Stop, IdleInv, NoLocal
<1>3. UNCHANGED <<pc, local>> => IdleInv'
  BY DEF IdleInv
<1> QED
  BY <1>1, <1>2, <1>3
     DEF Next, Arrival, HandlerStep, Enqueue, CheckAll, CheckTask, Insert, Put,
         CheckNext, DeleteHost, DeleteTask, SwitchTask, Requeue, LoadQueue, vars

LEMMA WorkersKept ==
  ASSUME Ownership, IdleInv, KeptInv, NEW w \in Workers, WorkerStep(w) \/ DatabaseFault(w)
  PROVE  KeptInv'
<1>j. PICK j : j = local[w].job
  OBVIOUS
<1> USE <1>j
<1>0. /\ TypeInv /\ local[w] \in Locals /\ local \in [Workers -> Locals]
      /\ pc \in [Workers -> WorkerPcs] /\ rows \in [Jobs -> Rows]
      /\ pc[w] # "idle" => j \in Jobs
      /\ queue \in Seq(Jobs)
  BY DEF Ownership, TypeInv, TypeOK, ControlOK, WorkerOK
<1>frame. OthersStay(w) /\ UNCHANGED <<req, clock, hosts, tasks, up, stops>>
  BY <1>0, WorkerFrame
<1>up. Serving
  BY DEF Ownership, PlaceInv, AtRest, WorkerStep, Dequeue, ReadJob, ReadHost, Claim,
     ReadTask, EnterLock, Start, Executed, StoreStatus, FinishSuccess, FinishFailure,
     DatabaseFault
<1>go. \A p : Goto(w, p) => pc'[w] = p
  BY <1>0 DEF Goto
\* A job other than the worker's own stays where it is.
<1>other. ASSUME UNCHANGED queue, NEW i \in Jobs, i # j,
                 rows'[i].state = rows[i].state, rows'[i].host = rows[i].host
          PROVE  Kept(i)'
  <2>1. HasOwner(i) => HasOwner(i)'
    BY <1>frame, <1>other DEF HasOwner, OthersStay
  <2>2. HasPlace(i) => HasPlace(i)'
    BY <1>frame, <1>other DEF HasPlace, OthersStay, Positions
  <2> QED
    BY <1>up, <1>other, <2>1, <2>2 DEF KeptInv, Kept, StateOf
<1>keep. ASSUME UNCHANGED queue, Kept(j)', j \in Jobs,
                \A i \in Jobs \ {j} : rows'[i] = rows[i]
         PROVE  KeptInv'
  BY <1>frame, <1>up, <1>keep, <1>other DEF KeptInv
<1>mine. ASSUME local'[w].job = j, pc'[w] \in Owning \cup {"fail", "dead"}
         PROVE  Kept(j)'
  BY <1>mine DEF Kept, HasOwner, HasPlace
<1>fail. ASSUME NEW code \in Codes, FailWith(w, code)
         PROVE  pc'[w] = "fail" /\ local'[w].job = j
  BY <1>0, <1>fail DEF FailWith, Goto, Locals
<1>codes. /\ "host_not_found" \in Codes /\ "custom_task_not_found" \in Codes
          /\ "custom_task_disabled" \in Codes /\ "execution_failed" \in Codes
          /\ "internal_execution_error" \in Codes
  BY DEF Codes
<1>state. /\ Before(w) => rows[j].state = "queued"
          /\ After(w) => rows[j].state = "running"
  BY DEF Ownership, StateInv, WorkerRows, StateOf
<1>1. CASE Dequeue(w)
  <2>1. queue # <<>> /\ queue' = Tail(queue) /\ UNCHANGED rows /\ pc[w] = "idle"
    BY <1>1 DEF Dequeue
  <2>2. local'[w].job = queue[1]
    BY <1>0, <1>1, <2>1 DEF Dequeue, Locals
  <2>3. \A i \in Positions : i = 1 \/ (i - 1 \in 1..Len(queue') /\ queue'[i - 1] = queue[i])
    BY <1>0, <2>1 DEF Positions
  <2>4. ASSUME NEW i \in Jobs PROVE HasOwner(i) => HasOwner(i)'
    BY <1>frame, <2>1 DEF HasOwner, OthersStay, Owning
  <2>5. ASSUME NEW i \in Jobs PROVE HasPlace(i) => HasPlace(i)'
    <3>1. CASE \E k \in Positions : queue[k] = i
      BY <2>2, <2>3, <3>1 DEF HasPlace, Positions
    <3>2. CASE \E v \in Workers : local[v].job = i
      <4>1. local[w].job = 0
        BY <2>1 DEF IdleInv
      <4> QED
        BY <1>frame, <3>2, <4>1 DEF HasPlace, OthersStay
    <3> QED
      BY <1>frame, <2>1, <3>1, <3>2 DEF HasPlace
  <2> QED
    BY <1>frame, <1>up, <2>1, <2>4, <2>5 DEF KeptInv, Kept, StateOf
<1>2. CASE ReadJob(w)
  <2>0. UNCHANGED <<rows, queue>> /\ j \in Jobs /\ rows[j].state = "queued"
    BY <1>0, <1>2, <1>state DEF ReadJob, Before
  <2>1. CASE rows[j].host = None
    BY <1>keep, <2>0, <2>1 DEF Kept, HasPlace, StateOf
  <2>2. CASE rows[j].host # None
    <3>1. local'[w].job = j
      BY <1>0, <1>2, <2>2 DEF ReadJob, Locals
    <3> QED
      BY <1>keep, <2>0, <3>1 DEF Kept, HasPlace, StateOf
  <2> QED
    BY <2>1, <2>2
<1>3. CASE ReadHost(w)
  <2>0. UNCHANGED <<rows, queue>> /\ j \in Jobs /\ rows[j].state = "queued"
    BY <1>0, <1>3, <1>state DEF ReadHost, Before
  <2>1. local'[w].job = j
    BY <1>3, <1>fail, <1>codes DEF ReadHost
  <2> QED
    BY <1>keep, <2>0, <2>1 DEF Kept, HasPlace, StateOf
<1>4. CASE Claim(w)
  <2>0. pc[w] = "claim" /\ UNCHANGED queue /\ j \in Jobs
    BY <1>0, <1>4 DEF Claim
  <2>1. rows[j].state = "queued"
    BY <1>state, <2>0 DEF Before
  <2>2. rows' = [rows EXCEPT ![j].state = "running"]
    BY <1>4, <2>1 DEF Claim
  <2>3. \/ FailWith(w, "custom_task_not_found")
        \/ \E p \in {"readTask", "enter", "start"} : Goto(w, p) /\ UNCHANGED local
    BY <1>4, <2>1 DEF Claim
  <2>4. local'[w].job = j /\ pc'[w] \in Owning \cup {"fail", "dead"}
    BY <1>fail, <1>codes, <1>go, <2>3 DEF Owning
  <2> QED
    BY <1>0, <1>keep, <1>mine, <2>0, <2>2, <2>4
<1>5. CASE ReadTask(w)
  <2>0. UNCHANGED <<rows, queue>> /\ pc[w] = "readTask" /\ j \in Jobs
    BY <1>0, <1>5 DEF ReadTask
  <2>1. CASE FailWith(w, "custom_task_not_found")
    BY <1>fail, <1>codes, <1>keep, <1>mine, <2>0, <2>1
  <2>2. ASSUME NEW e \in BOOLEAN, Goto(w, "enter"),
               local' = [local EXCEPT ![w].enabled = e]
        PROVE  KeptInv'
    <3>1. local'[w].job = j
      BY <1>0, <2>2 DEF Locals
    <3> QED
      BY <1>go, <1>keep, <1>mine, <2>0, <2>2, <3>1 DEF Owning
  <2>3. \/ FailWith(w, "custom_task_not_found")
        \/ \E e \in BOOLEAN : Goto(w, "enter") /\ local' = [local EXCEPT ![w].enabled = e]
    BY <1>5 DEF ReadTask
  <2> QED
    BY <2>1, <2>2, <2>3
<1>6. CASE EnterLock(w) \/ StoreStatus(w)
  <2>1. /\ UNCHANGED <<rows, queue, local>> /\ j \in Jobs
        /\ pc'[w] \in {"start", "finish"}
    BY <1>0, <1>6, <1>go DEF EnterLock, StoreStatus
  <2> QED
    BY <1>keep, <1>mine, <2>1 DEF Owning
<1>7. CASE Start(w) \/ Executed(w)
  <2>0. UNCHANGED <<rows, queue>> /\ j \in Jobs
    BY <1>0, <1>7 DEF Start, Executed
  <2>1. local'[w].job = j /\ pc'[w] \in {"exec", "status", "finish", "fail"}
    BY <1>7, <1>fail, <1>codes, <1>go DEF Start, Executed
  <2> QED
    BY <1>keep, <1>mine, <2>0, <2>1 DEF Owning
<1>8. CASE FinishSuccess(w) \/ FinishFailure(w)
  <2>0. UNCHANGED queue /\ j \in Jobs
    BY <1>0, <1>8 DEF FinishSuccess, FinishFailure
  <2>1. \A i \in Jobs \ {j} : rows'[i] = rows[i]
    BY <1>0, <1>8 DEF FinishSuccess, FinishFailure
  <2>2. rows'[j].state \in Terminal
    <3>1. rows[j] \in Rows
      BY <1>0, <2>0
    <3>2. \/ rows'[j] = [rows[j] EXCEPT !.state = "success"]
          \/ rows'[j] = [rows[j] EXCEPT !.state = "failed", !.error = local[w].error]
      BY <1>0, <1>8, <2>0 DEF FinishSuccess, FinishFailure
    <3> QED
      BY <3>1, <3>2 DEF Rows, Terminal
  <2> QED
    BY <1>keep, <2>0, <2>1, <2>2 DEF Kept, StateOf, Terminal
<1>9. CASE DatabaseFault(w)
  <2>0. UNCHANGED <<rows, queue>> /\ j \in Jobs
    BY <1>0, <1>9 DEF DatabaseFault
  <2>1. local'[w].job = j /\ pc'[w] \in {"fail", "dead"}
    BY <1>9, <1>fail, <1>codes, <1>go DEF DatabaseFault
  <2> QED
    BY <1>keep, <1>mine, <2>0, <2>1
<1> QED
  BY <1>1, <1>2, <1>3, <1>4, <1>5, <1>6, <1>7, <1>8, <1>9 DEF WorkerStep

\* Rows keep their state, and no one who keeps a job moves.
LEMMA KeptStays ==
  ASSUME KeptInv, UNCHANGED <<up, queue, pc, local>>,
         \A i \in Jobs : /\ rows'[i].state = rows[i].state
                         /\ rows'[i].host \in {rows[i].host, None},
         \A c \in Clients : req[c].pc = "put" => req'[c] = req[c]
  PROVE  KeptInv'
<1>1. \A i \in Jobs : HasOwner(i) => HasOwner(i)'
  BY DEF HasOwner
<1>2. \A i \in Jobs : HasPlace(i) => HasPlace(i)'
  BY DEF HasPlace, Positions
<1> QED
  BY <1>1, <1>2 DEF KeptInv, Kept, StateOf

LEMMA HandlersKept ==
  ASSUME Ownership, KeptInv, NEW c \in Clients, Arrival(c) \/ HandlerStep(c)
  PROVE  KeptInv'
<1>0. /\ rows \in [Jobs -> Rows] /\ req \in [Clients -> Reqs] /\ queue \in Seq(Jobs)
      /\ req[c] \in Reqs
  BY DEF Ownership, TypeInv, TypeOK
<1>1. CASE ~Insert(c) /\ ~Put(c)
  <2>1. /\ UNCHANGED <<rows, up, queue, pc, local>>
        /\ req[c].pc # "put" /\ (\E r : req' = [req EXCEPT ![c] = r])
    <3>1. CASE CheckTask(c)
      <4>1. \/ req' = [req EXCEPT ![c] = NoReq]
            \/ req' = [req EXCEPT ![c] = [req[c] EXCEPT !.pc = "insert", !.job = clock]]
        BY <1>0, <3>1 DEF CheckTask
      <4> QED
        BY <3>1, <4>1 DEF CheckTask
    <3>2. CASE CheckAll(c)
      BY <3>2 DEF CheckAll
    <3>3. CASE CheckNext(c)
      BY <3>3 DEF CheckNext, HostFound
    <3>4. CASE \E a \in Actions, h \in Hosts, t \in Tasks \cup {None} : Enqueue(c, a, h, t)
      BY <3>4 DEF Enqueue, HostFound
    <3> QED
      BY <1>1, <3>1, <3>2, <3>3, <3>4 DEF Arrival, HandlerStep
  <2>2. \A d \in Clients : req[d].pc = "put" => req'[d] = req[d]
    BY <1>0, <2>1
  <2> QED
    BY <2>1, <2>2, KeptStays
<1>2. CASE Insert(c) /\ UNCHANGED rows
  <2>1. req[c].pc = "insert" /\ UNCHANGED <<up, queue, pc, local>>
    BY <1>2 DEF Insert
  <2>2. \A d \in Clients \ {c} : req'[d] = req[d]
    BY <1>0, <1>2 DEF Insert
  <2> QED
    BY <1>2, <2>1, <2>2, KeptStays
<1>3. CASE Insert(c) /\ ~UNCHANGED rows
  <2>j. PICK j : j = req[c].job
    OBVIOUS
  <2>1. /\ req[c].pc = "insert" /\ UNCHANGED <<up, queue, pc, local>>
        /\ req' = [req EXCEPT ![c].pc = "put"] /\ Serving
        /\ \A i \in Jobs \ {j} : rows'[i] = rows[i]
    BY <1>0, <1>3, <2>j DEF Insert
  <2>2. j \in Jobs
    BY <2>1, <2>j DEF Ownership, TypeInv, ControlOK, HandlerOK
  <2>3. req'[c].pc = "put" /\ req'[c].job = j /\ \A d \in Clients \ {c} : req'[d] = req[d]
    BY <1>0, <2>1, <2>j DEF Reqs
  <2>4. rows'[j].state = "queued"
    BY <1>0, <1>3, <2>j, <2>2 DEF Insert
  <2>5. \A i \in Jobs \ {j} : HasOwner(i) => HasOwner(i)'
    BY <2>1 DEF HasOwner
  <2>6. \A i \in Jobs \ {j} : HasPlace(i) => HasPlace(i)'
    BY <2>1, <2>3 DEF HasPlace, Positions
  <2>7. Kept(j)'
    BY <2>3, <2>4 DEF Kept, HasPlace, StateOf
  <2> QED
    BY <2>1, <2>5, <2>6, <2>7 DEF KeptInv, Kept, StateOf
<1>4. CASE Put(c)
  <2>j. PICK j : j = req[c].job
    OBVIOUS
  <2>1. /\ UNCHANGED <<rows, up, pc, local>> /\ queue' = Append(queue, j) /\ Serving
        /\ req[c].pc = "put"
    BY <1>4, <2>j DEF Put
  <2>2. j \in Jobs
    BY <2>1, <2>j DEF Ownership, TypeInv, ControlOK, HandlerOK
  <2>3. /\ \A i \in Positions : i \in 1..Len(queue') /\ queue'[i] = queue[i]
        /\ Len(queue') \in 1..Len(queue') /\ queue'[Len(queue')] = j
    BY <1>0, <2>1, <2>2 DEF Positions
  <2>4. \A d \in Clients \ {c} : req'[d] = req[d]
    BY <1>0, <1>4 DEF Put
  <2>5. \A i \in Jobs : HasPlace(i) => HasPlace(i)'
    BY <2>j, <2>1, <2>3, <2>4 DEF HasPlace, Positions
  <2>6. \A i \in Jobs : HasOwner(i) => HasOwner(i)'
    BY <2>1 DEF HasOwner
  <2> QED
    BY <2>1, <2>5, <2>6 DEF KeptInv, Kept, StateOf
<1> QED
  BY <1>1, <1>2, <1>3, <1>4

LEMMA KeptInductive == Ownership /\ IdleInv /\ KeptInv /\ [Next]_vars => KeptInv'
<1> SUFFICES ASSUME Ownership, IdleInv, KeptInv, [Next]_vars PROVE KeptInv'
  OBVIOUS
<1>0. rows \in [Jobs -> Rows] /\ MaxJobs \in Nat /\ queue \in Seq(Jobs)
  BY DEF Ownership, TypeInv, TypeOK
<1>1. CASE \E c \in Clients : Arrival(c) \/ HandlerStep(c)
  BY <1>1, HandlersKept
<1>2. ASSUME NEW h \in Hosts, DeleteHost(h) PROVE KeptInv'
  <2>1. \A i \in Jobs : /\ rows'[i].state = rows[i].state
                        /\ rows'[i].host \in {rows[i].host, None}
    BY <1>0, <1>2 DEF DeleteHost, Rows
  <2> QED
    BY <1>2, <2>1, KeptStays DEF DeleteHost
<1>3. ASSUME NEW t \in Tasks, DeleteTask(t) PROVE KeptInv'
  <2>1. \A i \in Jobs : /\ rows'[i].state = rows[i].state
                        /\ rows'[i].host \in {rows[i].host, None}
    BY <1>0, <1>3 DEF DeleteTask, Rows
  <2> QED
    BY <1>3, <2>1, KeptStays DEF DeleteTask
<1>4. CASE (\E t \in Tasks : SwitchTask(t)) \/ UNCHANGED vars
  BY <1>4, KeptStays DEF SwitchTask, vars
<1>5. CASE \E w \in Workers : WorkerStep(w) \/ DatabaseFault(w)
  BY <1>5, WorkersKept
<1>6. CASE Stop
  BY <1>6 DEF Stop, KeptInv
<1>7. CASE Requeue
  <2>1. \A j \in Jobs : rows'[j].state # "running"
    BY <1>0, <1>7 DEF Requeue, Rows
  <2> QED
    BY <1>7, <2>1 DEF Requeue, KeptInv, StateOf
<1>8. CASE LoadQueue
  <2>1. /\ UNCHANGED rows /\ up' = "serving"
        /\ \A j \in Jobs : StateOf(j) # "running"
    BY <1>8 DEF LoadQueue, disk, KeptInv
  <2>n. PICK n \in 0..MaxJobs : \E q \in [1..n -> Queued] :
           InCreationOrder(q, Queued) /\ queue' = queue \o q
    BY <1>8 DEF LoadQueue
  <2>2. PICK q \in [1..n -> Queued] : InCreationOrder(q, Queued) /\ queue' = queue \o q
    BY <2>n
  <2>3. q \in Seq(Jobs) /\ Len(q) = n
    BY <2>2 DEF Queued
  <2>4. queue = <<>>
    BY <1>8 DEF LoadQueue, Ownership, PlaceInv, AtRest
  <2>5. queue' = q
    BY <2>2, <2>3, <2>4
  <2>6. \A j \in Jobs : StateOf(j) = "queued" => \E i \in 1..Len(queue') : queue'[i] = j
    BY <2>2, <2>5 DEF InCreationOrder, Queued, StateOf
  <2> QED
    BY <2>1, <2>6 DEF KeptInv, Kept, HasPlace, Positions, StateOf
<1> QED
  BY <1>1, <1>2, <1>3, <1>4, <1>5, <1>6, <1>7, <1>8 DEF Next

\* While the backend serves no job is lost: a running row has its worker, a
\* queued row is in the queue, with a handler or a worker, or has no host.
THEOREM JobsKept == Spec => []NoJobLost
<1>1. KeptInv => NoJobLost
  BY DEF KeptInv, Kept, HasOwner, HasPlace, Positions, StateOf, NoJobLost
<1>2. Ownership => TypeInv
  BY DEF Ownership
<1> QED
  BY <1>1, <1>2, InitKept, IdleInductive, KeptInductive, OwnershipHolds, PTL DEF Spec

-----------------------------------------------------------------------------
(* The queue implements JobLifecycle: under the mapping of JobQueue every  *)
(* step is a step of the lifecycle or leaves its variables alone.          *)

States == [j \in Jobs |-> rows[j].state]

\* The job of one worker, when it is a mutating one at work.
AtWork(w) == pc[w] = "exec" /\ ActionOf(w) \in Locked

LEMMA ActiveAtWork ==
  /\ \A w \in Workers : AtWork(w) => [job |-> local[w].job, host |-> local[w].host] \in Active
  /\ \A a \in Active : \E w \in Workers : /\ AtWork(w)
                                          /\ a = [job |-> local[w].job, host |-> local[w].host]
  BY DEF Active, AtWork

LEMMA InitLifecycle == Init => Lifecycle!Init
<1> SUFFICES ASSUME Init PROVE Lifecycle!Init
  OBVIOUS
<1>1. [j \in Jobs |-> rows[j].state] = [j \in Jobs |-> "absent"]
  BY DEF Init, NoRow
<1>2. Active = {}
  BY DEF Init, Active
<1>3. Serving = TRUE
  BY DEF Init
<1> QED
  BY <1>1, <1>2, <1>3 DEF Lifecycle!Init

\* The rows keep their states and so do the workers that are at work.
LEMMA LifecycleStutters ==
  ASSUME \A j \in Jobs : rows'[j].state = rows[j].state, Active' = Active,
         Serving' = Serving
  PROVE  UNCHANGED Lifecycle!lvars
<1>1. [j \in Jobs |-> rows'[j].state] = [j \in Jobs |-> rows[j].state]
  OBVIOUS
<1> QED
  BY <1>1 DEF Lifecycle!lvars

\* One row changes its state.
LEMMA LifecycleAdvances ==
  ASSUME NEW j \in Jobs, NEW from, NEW to, rows[j].state = from, rows'[j].state = to,
         \A i \in Jobs \ {j} : rows'[i].state = rows[i].state,
         Active' = Active, Serving, Serving'
  PROVE  Lifecycle!Advance(j, from, to)
<1>1. [i \in Jobs |-> rows'[i].state] = [[i \in Jobs |-> rows[i].state] EXCEPT ![j] = to]
  OBVIOUS
<1> QED
  BY <1>1 DEF Lifecycle!Advance

\* A worker that is not at work before or after its step changes nothing there.
LEMMA ActiveSame ==
  ASSUME NEW w \in Workers, OthersStay(w), ~AtWork(w), ~AtWork(w)'
  PROVE  Active' = Active
<1>1. \A v \in Workers \ {w} : /\ AtWork(v)' <=> AtWork(v)
                               /\ local'[v] = local[v]
  BY DEF OthersStay, AtWork, ActionOf
<1>2. ASSUME NEW a PROVE a \in Active' <=> a \in Active
  <2>1. a \in Active <=> \E v \in Workers : AtWork(v) /\ a = [job |-> local[v].job, host |-> local[v].host]
    BY DEF Active, AtWork
  <2>2. a \in Active' <=> \E v \in Workers : AtWork(v)' /\ a = [job |-> local'[v].job, host |-> local'[v].host]
    BY DEF Active, AtWork, ActionOf
  <2> QED
    BY <1>1, <2>1, <2>2
<1> QED
  BY <1>2

LEMMA WorkersImplement ==
  ASSUME Ownership, KeptInv, NEW w \in Workers, WorkerStep(w) \/ DatabaseFault(w)
  PROVE  Lifecycle!Next \/ UNCHANGED Lifecycle!lvars
<1>j. PICK j : j = local[w].job
  OBVIOUS
<1>h. PICK h : h = local[w].host
  OBVIOUS
<1> USE <1>j, <1>h
<1>0. /\ TypeInv /\ local[w] \in Locals /\ local \in [Workers -> Locals]
      /\ pc \in [Workers -> WorkerPcs] /\ rows \in [Jobs -> Rows]
      /\ pc[w] # "idle" => j \in Jobs
      /\ pc[w] \notin {"idle", "readJob", "dead"} => h \in Hosts
  BY DEF Ownership, TypeInv, TypeOK, ControlOK, WorkerOK
<1>frame. OthersStay(w) /\ UNCHANGED up
  BY <1>0, WorkerFrame
<1>up. Serving /\ Serving'
  BY <1>frame DEF Ownership, PlaceInv, AtRest, WorkerStep, Dequeue, ReadJob, ReadHost, Claim,
     ReadTask, EnterLock, Start, Executed, StoreStatus, FinishSuccess, FinishFailure,
     DatabaseFault
<1>go. \A p : Goto(w, p) => pc'[w] = p
  BY <1>0 DEF Goto
<1>fail. \A code : FailWith(w, code) => pc'[w] = "fail"
  BY <1>go DEF FailWith
<1>ret. Return(w) => pc'[w] = "idle"
  BY <1>go DEF Return
<1>state. /\ Before(w) => rows[j].state = "queued"
          /\ After(w) => rows[j].state = "running"
  BY DEF Ownership, StateInv, WorkerRows, StateOf
\* The job of a worker is no one else's.
<1>own. ASSUME pc[w] # "idle", pc[w] # "exec", NEW a \in Active PROVE a.job # j
  <2>1. PICK v \in Workers : AtWork(v) /\ a = [job |-> local[v].job, host |-> local[v].host]
    BY ActiveAtWork
  <2>2. v # w /\ pc[v] # "idle"
    BY <1>own, <2>1 DEF AtWork
  <2>3. local[v].job # j
    BY <1>0, <1>own, <2>2 DEF Ownership, PlaceInv, OnePlace, OneWorkerPerJob
  <2> QED
    BY <2>1, <2>3
<1>1. CASE \/ Dequeue(w) \/ ReadJob(w) \/ ReadHost(w) \/ ReadTask(w) \/ EnterLock(w)
           \/ StoreStatus(w) \/ DatabaseFault(w)
  <2>1. UNCHANGED rows /\ pc[w] # "exec" /\ pc'[w] # "exec"
    <3>1. CASE Dequeue(w) \/ ReadJob(w) \/ ReadHost(w)
      BY <1>go, <1>fail, <1>ret, <3>1 DEF Dequeue, ReadJob, ReadHost
    <3>2. CASE ReadTask(w) \/ EnterLock(w) \/ StoreStatus(w)
      BY <1>go, <1>fail, <1>ret, <3>2 DEF ReadTask, EnterLock, StoreStatus
    <3>3. CASE DatabaseFault(w)
      BY <1>go, <1>fail, <1>ret, <3>3 DEF DatabaseFault
    <3> QED
      BY <1>1, <3>1, <3>2, <3>3
  <2>2. Active' = Active
    BY <1>frame, <2>1, ActiveSame DEF AtWork
  <2> QED
    BY <1>up, <2>1, <2>2, LifecycleStutters
<1>2. CASE Claim(w)
  <2>0. pc[w] = "claim" /\ j \in Jobs
    BY <1>0, <1>2 DEF Claim
  <2>1. rows[j].state = "queued" /\ rows[j] \in Rows
    BY <1>0, <1>state, <2>0 DEF Before
  <2>2. /\ rows' = [rows EXCEPT ![j].state = "running"]
        /\ pc'[w] # "exec"
    BY <1>2, <1>go, <1>fail, <2>1 DEF Claim
  <2>3. /\ rows'[j].state = "running"
        /\ \A i \in Jobs \ {j} : rows'[i].state = rows[i].state
    BY <1>0, <2>0, <2>1, <2>2 DEF Rows
  <2>4. Active' = Active
    BY <1>frame, <2>0, <2>2, ActiveSame DEF AtWork
  <2>5. Lifecycle!Advance(j, "queued", "running")
    BY <1>up, <2>0, <2>1, <2>3, <2>4, LifecycleAdvances
  <2> QED
    BY <2>0, <2>5 DEF Lifecycle!Next, Lifecycle!Claim
<1>3. CASE Start(w) /\ FailWith(w, "custom_task_disabled")
  <2>1. UNCHANGED rows /\ pc[w] = "start" /\ pc'[w] = "fail"
    BY <1>3, <1>fail DEF Start
  <2>2. Active' = Active
    BY <1>frame, <2>1, ActiveSame DEF AtWork
  <2> QED
    BY <1>up, <2>1, <2>2, LifecycleStutters
<1>4. CASE Start(w) /\ Goto(w, "exec")
  <2>0. /\ pc[w] = "start" /\ pc'[w] = "exec" /\ UNCHANGED <<rows, local, lockQ>>
        /\ j \in Jobs /\ h \in Hosts /\ (ActionOf(w) \in Locked => Holds(w))
    BY <1>0, <1>4, <1>go, <1>fail DEF Start
  <2>1. CASE ActionOf(w) \notin Locked
    <3>1. ~AtWork(w) /\ ~AtWork(w)'
      BY <2>0, <2>1 DEF AtWork, ActionOf
    <3>2. Active' = Active
      BY <1>frame, <3>1, ActiveSame
    <3> QED
      BY <1>up, <2>0, <3>2, LifecycleStutters
  <2>2. CASE ActionOf(w) \in Locked
    <3>1. rows[j].state = "running"
      BY <1>state, <2>0 DEF After, Owning
    <3>2. ASSUME NEW a \in Active PROVE a.job # j /\ a.host # h
      <4>1. PICK v \in Workers : AtWork(v) /\ a = [job |-> local[v].job, host |-> local[v].host]
        BY ActiveAtWork
      <4>2. v # w
        BY <2>0, <4>1 DEF AtWork
      <4>3. Holds(v)
        BY <1>0, <4>1 DEF AtWork, TypeInv, ControlOK, WorkerOK
      <4>4. local[v].host # h
        BY <2>0, <2>2, <4>2, <4>3 DEF Holds
      <4> QED
        BY <1>own, <2>0, <4>1, <4>4
    <3>3. \A v \in Workers \ {w} : (AtWork(v)' <=> AtWork(v)) /\ local'[v] = local[v]
      BY <1>frame DEF OthersStay, AtWork, ActionOf
    <3>4. ~AtWork(w) /\ AtWork(w)'
      BY <2>0, <2>2 DEF AtWork, ActionOf
    <3>5. ASSUME NEW a PROVE a \in Active' <=> a \in Active \cup {[job |-> j, host |-> h]}
      <4>1. a \in Active <=> \E v \in Workers : AtWork(v) /\ a = [job |-> local[v].job, host |-> local[v].host]
        BY DEF Active, AtWork
      <4>2. a \in Active' <=> \E v \in Workers : AtWork(v)' /\ a = [job |-> local'[v].job, host |-> local'[v].host]
        BY DEF Active, AtWork, ActionOf
      <4> QED
        BY <2>0, <3>3, <3>4, <4>1, <4>2
    <3>6. Active' = Active \cup {[job |-> j, host |-> h]}
      BY <3>5
    <3>7. [i \in Jobs |-> rows'[i].state] = [i \in Jobs |-> rows[i].state]
      BY <2>0
    <3>8. Lifecycle!Begin(j, h)
      BY <1>up, <2>0, <3>1, <3>2, <3>6, <3>7 DEF Lifecycle!Begin
    <3> QED
      BY <2>0, <3>8 DEF Lifecycle!Next
  <2> QED
    BY <2>1, <2>2
<1>5. CASE Executed(w)
  <2>0. /\ pc[w] = "exec" /\ pc'[w] # "exec" /\ UNCHANGED rows
        /\ j \in Jobs /\ h \in Hosts
    BY <1>0, <1>5, <1>go, <1>fail DEF Executed
  <2>1. CASE ActionOf(w) \notin Locked
    <3>1. ~AtWork(w) /\ ~AtWork(w)'
      BY <2>0, <2>1 DEF AtWork
    <3>2. Active' = Active
      BY <1>frame, <3>1, ActiveSame
    <3> QED
      BY <1>up, <2>0, <3>2, LifecycleStutters
  <2>2. CASE ActionOf(w) \in Locked
    <3>a. PICK b : b = [job |-> j, host |-> h]
      OBVIOUS
    <3>1. AtWork(w) /\ ~AtWork(w)'
      BY <2>0, <2>2 DEF AtWork
    <3>2. \A v \in Workers \ {w} : (AtWork(v)' <=> AtWork(v)) /\ local'[v] = local[v]
      BY <1>frame DEF OthersStay, AtWork, ActionOf
    <3>3. \A v \in Workers \ {w} : AtWork(v) => [job |-> local[v].job, host |-> local[v].host] # b
      <4>1. ASSUME NEW v \in Workers \ {w}, AtWork(v) PROVE local[v].job # j
        BY <1>0, <2>0, <4>1 DEF AtWork, Ownership, PlaceInv, OnePlace, OneWorkerPerJob
      <4>2. b.job = j
        BY <3>a
      <4> QED
        BY <4>1, <4>2
    <3>4. ASSUME NEW a PROVE a \in Active' <=> a \in Active \ {b}
      <4>1. a \in Active <=> \E v \in Workers : AtWork(v) /\ a = [job |-> local[v].job, host |-> local[v].host]
        BY DEF Active, AtWork
      <4>2. a \in Active' <=> \E v \in Workers : AtWork(v)' /\ a = [job |-> local'[v].job, host |-> local'[v].host]
        BY DEF Active, AtWork, ActionOf
      <4> QED
        BY <3>a, <3>1, <3>2, <3>3, <4>1, <4>2
    <3>5. Active' = Active \ {b} /\ b \in Active
      BY <3>a, <3>1, <3>4, ActiveAtWork
    <3>6. [i \in Jobs |-> rows'[i].state] = [i \in Jobs |-> rows[i].state]
      BY <2>0
    <3>7. Lifecycle!End(b)
      BY <1>up, <3>5, <3>6 DEF Lifecycle!End
    <3> QED
      BY <3>5, <3>7 DEF Lifecycle!Next
  <2> QED
    BY <2>1, <2>2
<1>6. CASE FinishSuccess(w) \/ FinishFailure(w)
  <2>0. /\ pc[w] \in {"finish", "fail"} /\ pc'[w] = "idle" /\ j \in Jobs
        /\ \A i \in Jobs \ {j} : rows'[i].state = rows[i].state
    BY <1>0, <1>6, <1>ret DEF FinishSuccess, FinishFailure
  <2>1. Active' = Active
    BY <1>frame, <2>0, ActiveSame DEF AtWork
  <2>2. rows[j] \in Rows
    BY <1>0, <2>0
  <2>3. CASE FinishSuccess(w)
    <3>1. rows'[j].state = "success" /\ rows[j].state = "running"
      BY <1>0, <1>state, <2>0, <2>2, <2>3 DEF FinishSuccess, Rows, After, Owning
    <3>2. Lifecycle!Advance(j, "running", "success")
      BY <1>up, <2>0, <2>1, <3>1, LifecycleAdvances
    <3> QED
      BY <1>own, <2>0, <3>2 DEF Lifecycle!Next, Lifecycle!Finish
  <2>4. CASE FinishFailure(w)
    <3>1. rows'[j].state = "failed"
      <4>1. rows'[j] = [rows[j] EXCEPT !.state = "failed", !.error = local[w].error]
        BY <1>0, <2>0, <2>4 DEF FinishFailure
      <4> QED
        BY <2>2, <4>1 DEF Rows
    <3>2. CASE rows[j].state = "running"
      <4>1. Lifecycle!Advance(j, "running", "failed")
        BY <1>up, <2>0, <2>1, <3>1, <3>2, LifecycleAdvances
      <4> QED
        BY <1>own, <2>0, <4>1 DEF Lifecycle!Next, Lifecycle!Finish
    <3>3. CASE rows[j].state = "queued"
      <4>1. Lifecycle!Advance(j, "queued", "failed")
        BY <1>up, <2>0, <2>1, <3>1, <3>3, LifecycleAdvances
      <4> QED
        BY <2>0, <4>1 DEF Lifecycle!Next, Lifecycle!Reject
    <3> QED
      BY <1>state, <2>4, <3>2, <3>3 DEF FinishFailure, Before, After
  <2> QED
    BY <1>6, <2>3, <2>4
<1>7. Start(w) => FailWith(w, "custom_task_disabled") \/ Goto(w, "exec")
  BY DEF Start
<1> QED
  BY <1>1, <1>2, <1>3, <1>4, <1>5, <1>6, <1>7 DEF WorkerStep

LEMMA StepsImplement ==
  Ownership /\ KeptInv /\ [Next]_vars => [Lifecycle!Next]_Lifecycle!lvars
<1> SUFFICES ASSUME Ownership, KeptInv, [Next]_vars
             PROVE  Lifecycle!Next \/ UNCHANGED Lifecycle!lvars
  OBVIOUS
<1>0. rows \in [Jobs -> Rows]
  BY DEF Ownership, TypeInv, TypeOK
<1>active. UNCHANGED <<pc, local>> => Active' = Active
  BY DEF Active, ActionOf
<1>same. ASSUME UNCHANGED <<pc, local>>, Serving' = Serving,
                \A i \in Jobs : rows'[i].state = rows[i].state
         PROVE  UNCHANGED Lifecycle!lvars
  BY <1>active, <1>same, LifecycleStutters
<1>1. ASSUME NEW c \in Clients, Insert(c), ~UNCHANGED rows
      PROVE  Lifecycle!Next
  <2>j. PICK j : j = req[c].job
    OBVIOUS
  <2>1. /\ req[c].pc = "insert" /\ Serving /\ UNCHANGED <<pc, local, up>>
        /\ \A i \in Jobs \ {j} : rows'[i] = rows[i]
    BY <1>0, <1>1, <2>j DEF Insert
  <2>2. j \in Jobs /\ rows[j].state = "absent"
    BY <2>1, <2>j DEF Ownership, TypeInv, ControlOK, HandlerOK, StateInv, HandlerRows, StateOf
  <2>3. rows'[j].state = "queued"
    BY <1>0, <1>1, <2>j, <2>2 DEF Insert
  <2>4. Lifecycle!Advance(j, "absent", "queued")
    BY <1>active, <2>1, <2>2, <2>3, LifecycleAdvances
  <2> QED
    BY <2>2, <2>4 DEF Lifecycle!Next, Lifecycle!Submit
<1>2. CASE \E c \in Clients : \/ Arrival(c) \/ CheckTask(c) \/ Put(c) \/ CheckNext(c)
                              \/ Insert(c) /\ UNCHANGED rows
  BY <1>2, <1>same DEF Arrival, Enqueue, CheckAll, CheckTask, Put, CheckNext, Insert
<1>3. ASSUME NEW h \in Hosts, DeleteHost(h) PROVE UNCHANGED Lifecycle!lvars
  <2>1. \A i \in Jobs : rows'[i].state = rows[i].state
    BY <1>0, <1>3 DEF DeleteHost, Rows
  <2> QED
    BY <1>3, <1>same, <2>1 DEF DeleteHost
<1>4. ASSUME NEW t \in Tasks, DeleteTask(t) PROVE UNCHANGED Lifecycle!lvars
  <2>1. \A i \in Jobs : rows'[i].state = rows[i].state
    BY <1>0, <1>4 DEF DeleteTask, Rows
  <2> QED
    BY <1>4, <1>same, <2>1 DEF DeleteTask
<1>5. CASE (\E t \in Tasks : SwitchTask(t)) \/ UNCHANGED vars
  BY <1>5, <1>same DEF SwitchTask, vars
<1>6. CASE \E w \in Workers : WorkerStep(w) \/ DatabaseFault(w)
  BY <1>6, WorkersImplement
<1>7. CASE Stop
  <2>1. Active' = {} /\ Serving' = FALSE
    BY <1>7 DEF Stop, Active
  <2>2. [j \in Jobs |-> rows'[j].state] = [j \in Jobs |-> rows[j].state]
    BY <1>7 DEF Stop, disk
  <2> QED
    BY <2>1, <2>2 DEF Lifecycle!Next, Lifecycle!Interrupt
<1>8. CASE Requeue
  <2>1. Active' = Active /\ Serving' = Serving /\ ~Serving
    BY <1>8, <1>active DEF Requeue
  <2>2. \A j \in Jobs : rows'[j].state = IF rows[j].state = "running" THEN "queued"
                                         ELSE rows[j].state
    BY <1>0, <1>8 DEF Requeue, Rows
  <2>3. [j \in Jobs |-> rows'[j].state] =
           [j \in Jobs |-> IF States[j] = "running" THEN "queued" ELSE States[j]]
    BY <2>2 DEF States
  <2> QED
    BY <2>1, <2>3 DEF States, Lifecycle!Next, Lifecycle!Requeue
<1>9. CASE LoadQueue
  <2>1. Active' = Active /\ Serving' = TRUE /\ ~Serving
    BY <1>9, <1>active DEF LoadQueue
  <2>2. \A j \in Jobs : rows[j].state # "running"
    BY <1>9 DEF LoadQueue, KeptInv, StateOf
  <2>3. [j \in Jobs |-> rows'[j].state] = [j \in Jobs |-> rows[j].state]
    BY <1>9 DEF LoadQueue, disk
  <2> QED
    BY <2>1, <2>2, <2>3 DEF Lifecycle!Next, Lifecycle!Reopen
<1> QED
  BY <1>1, <1>2, <1>3, <1>4, <1>5, <1>6, <1>7, <1>8, <1>9 DEF Next, HandlerStep

\* The queue with its workers, locks, handlers, faults and restarts implements
\* the lifecycle of JobLifecycle.
THEOREM LifecycleImplemented == Spec => ImplementsLifecycle
<1>1. Init => Lifecycle!Init
  BY InitLifecycle
<1>2. Ownership => TypeInv
  BY DEF Ownership
<1> QED
  BY <1>1, <1>2, InitKept, IdleInductive, KeptInductive, StepsImplement, OwnershipHolds,
     PTL DEF Spec, ImplementsLifecycle, Lifecycle!Spec

=============================================================================
