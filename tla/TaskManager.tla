---------------------------- MODULE TaskManager ----------------------------
(***************************************************************************)
(* The integration's TaskManager (application/task_manager.py) over the    *)
(* native adapter (adapters/native.py): it starts a backend command, polls *)
(* the jobs behind it until they end, tells its listeners, and is          *)
(* cancelled when the config entry unloads.                                *)
(*                                                                         *)
(* A run is one start that reached the backend.  Its jobs live on the      *)
(* backend and move by themselves; its tracker is an asyncio task, and the *)
(* steps below are the stretches of code between two of its awaits.        *)
(***************************************************************************)
EXTENDS Naturals, Sequences, FiniteSets

CONSTANTS
    Keys,      \* command keys: a global check, an action of a host, ...
    Callers,   \* calls of async_start in flight at the same time
    MaxRuns,   \* bound: starts that reach the backend
    Size       \* Size[r]: how many jobs run r has: one for an action of a host,
               \* one for each host there is for a check of all

ASSUME TaskAssumption ==
    /\ MaxRuns \in Nat
    /\ Size \in [1..MaxRuns -> Nat]

Runs == 1..MaxRuns

VARIABLES
    status,    \* of the config entry: "loaded", "unloading" or "unloaded"
    call,      \* calls of async_start
    used,      \* runs so far
    runKey,    \* the command of a run
    jobs,      \* backend: the phases of a run's jobs
    tracker,   \* where the tracker of a run awaits
    got,       \* phases of the batch read so far in this poll
    tasks,     \* TaskManager._tasks: the run registered for a key, or 0
    states,    \* TaskManager._states
    cancelled, \* trackers that async_cancel cancelled
    shown      \* what the listeners last saw of is_running

vars == <<status, call, used, runKey, jobs, tracker, got, tasks, states,
          cancelled, shown>>

NoCall  == [pc |-> "idle", key |-> 0, run |-> 0]
NoState == [run |-> 0, phase |-> "none"]

Init ==
    /\ status = "loaded"
    /\ call = [c \in Callers |-> NoCall]
    /\ used = 0
    /\ runKey = [r \in Runs |-> 0]
    /\ jobs = [r \in Runs |-> <<>>]
    /\ tracker = [r \in Runs |-> "none"]
    /\ got = [r \in Runs |-> <<>>]
    /\ tasks = [k \in Keys |-> 0]
    /\ states = [k \in Keys |-> NoState]
    /\ cancelled = {}
    /\ shown = [k \in Keys |-> FALSE]

-----------------------------------------------------------------------------
(* Helpers.                                                                *)

Live == {r \in Runs : tracker[r] \in {"sleep", "get", "refresh", "refreshFail"}}

\* is_running, given a registry and the trackers that are not done.
Running(reg, live) == [k \in Keys |-> reg[k] \in live]

\* _notify_listeners: until async_cancel cleared them, listeners read is_running.
Notify(reg, live) ==
    shown' = IF status = "unloaded" THEN shown ELSE Running(reg, live)

\* Mutation: a batch has succeeded as soon as one of its jobs has.
BatchPhaseAny(ps) ==
    CASE \E i \in DOMAIN ps : ps[i] = "failed"  -> "failed"
      [] (\A i \in DOMAIN ps : ps[i] # "failed")
         /\ (ps = <<>> \/ \E i \in DOMAIN ps : ps[i] = "success") -> "success"
      [] OTHER -> "waiting"

\* Mutation: the backend's own word is passed on for a job that waits.
BatchPhaseRaw(ps) ==
    CASE \E i \in DOMAIN ps : ps[i] = "failed"  -> "failed"
      [] \A i \in DOMAIN ps : ps[i] = "success" -> "success"
      [] OTHER -> "queued"

\* _batch_task; a single job is a batch of one.
BatchPhase(ps) ==
    CASE \E i \in DOMAIN ps : ps[i] = "failed"  -> "failed"
      [] \A i \in DOMAIN ps : ps[i] = "success" -> "success"
      [] (\A i \in DOMAIN ps : ps[i] # "failed")
         /\ (\E i \in DOMAIN ps : ps[i] = "running") -> "running"
      [] OTHER -> "waiting"

-----------------------------------------------------------------------------
(* async_start and async_start_custom.                                     *)

\* Nothing of this key is registered; the dispatch request is sent.  (Past the
\* bound it could only fail.)
Press(c, k) ==
    /\ used < MaxRuns
    /\ status = "loaded"
    /\ call[c].pc = "idle"
    /\ tasks[k] \notin Live
    /\ call' = [call EXCEPT ![c] = [pc |-> "sent", key |-> k, run |-> 0]]
    /\ UNCHANGED <<status, used, runKey, jobs, tracker, got, tasks,
                   states, cancelled, shown>>

\* The backend queues the jobs of the run and answers.
Accept(c) ==
    /\ call[c].pc = "sent"
    /\ used < MaxRuns
    /\ used' = used + 1
    /\ runKey' = [runKey EXCEPT ![used + 1] = call[c].key]
    /\ jobs' = [jobs EXCEPT ![used + 1] =
                  [i \in 1..Size[used + 1] |-> "waiting"]]
    /\ call' = [call EXCEPT ![c].pc = "answered", ![c].run = used + 1]
    /\ UNCHANGED <<status, tracker, got, tasks, states, cancelled, shown>>

\* The request or its answer is lost, or the backend refuses: the error is
\* raised to the caller.
CallFails(c) ==
    /\ call[c].pc \in {"sent", "answered"}
    /\ call' = [call EXCEPT ![c] = NoCall]
    /\ UNCHANGED <<status, used, runKey, jobs, tracker, got, tasks,
                   states, cancelled, shown>>

\* The answer arrives: state, tracker and registry entry, whatever they were.
Track(c) ==
    /\ call[c].pc = "answered"
    /\ LET k == call[c].key
           r == call[c].run
       IN  /\ states' = [states EXCEPT ![k] =
                           [run |-> r,
                            phase |-> BatchPhase([i \in 1..Size[r] |-> "waiting"])]]
           /\ tracker' = [tracker EXCEPT ![r] = "sleep"]
           /\ tasks' = [tasks EXCEPT ![k] = r]
           /\ Notify(tasks', Live \cup {r})
    /\ call' = [call EXCEPT ![c] = NoCall]
    /\ UNCHANGED <<status, used, runKey, jobs, got, cancelled>>

-----------------------------------------------------------------------------
(* _async_track.                                                           *)

\* Mutation: the deadline ends the loop, and nothing else.
TimeoutSilent(r) ==
    /\ tracker[r] = "sleep"
    /\ r \notin cancelled
    /\ tracker' = [tracker EXCEPT ![r] = "ended"]
    /\ Notify(tasks, Live)
    /\ UNCHANGED <<status, call, used, runKey, jobs, got, tasks, states,
                   cancelled>>

\* The "except HomelabUpdatesError" clause: the key reads as failed unless it
\* already does.
Fail(r) ==
    /\ states' = [states EXCEPT ![runKey[r]] =
                    IF @.phase = "failed" THEN @
                    ELSE [run |-> r, phase |-> "failed"]]
    /\ tracker' = [tracker EXCEPT ![r] = "ended"]
    /\ Notify(tasks, Live)
    /\ got' = [got EXCEPT ![r] = <<>>]
    /\ UNCHANGED <<status, call, used, runKey, jobs, tasks, cancelled>>

\* The poll interval is over, the deadline not yet.
Poll(r) ==
    /\ tracker[r] = "sleep"
    /\ r \notin cancelled
    /\ tracker' = [tracker EXCEPT ![r] = "get"]
    /\ UNCHANGED <<status, call, used, runKey, jobs, got, tasks, states,
                   cancelled, shown>>

Timeout(r) ==
    /\ tracker[r] = "sleep"
    /\ r \notin cancelled
    /\ Fail(r)

\* async_get_task reads the jobs of a batch one after the other.
Fetch(r) ==
    /\ tracker[r] = "get"
    /\ r \notin cancelled
    /\ Len(got[r]) < Len(jobs[r])
    /\ got' = [got EXCEPT ![r] = Append(@, jobs[r][Len(@) + 1])]
    /\ UNCHANGED <<status, call, used, runKey, jobs, tracker, tasks,
                   states, cancelled, shown>>

\* The poll is complete: the state is stored and shown; a terminal one is
\* followed by the refresh callback.
Observe(r) ==
    /\ tracker[r] = "get"
    /\ r \notin cancelled
    /\ Len(got[r]) = Len(jobs[r])
    /\ LET p == BatchPhase(got[r]) IN
          /\ states' = [states EXCEPT ![runKey[r]] = [run |-> r, phase |-> p]]
          /\ tracker' = [tracker EXCEPT ![r] =
                           CASE p = "success" -> "refresh"
                             [] p = "failed"  -> "refreshFail"
                             [] OTHER         -> "sleep"]
    /\ Notify(tasks, Live)
    /\ got' = [got EXCEPT ![r] = <<>>]
    /\ UNCHANGED <<status, call, used, runKey, jobs, tasks,
                   cancelled>>

\* Mutation: a connection error is retried at once, without looking at the
\* deadline.
PollErrorRetry(r) ==
    /\ tracker[r] = "get"
    /\ r \notin cancelled
    /\ got' = [got EXCEPT ![r] = <<>>]
    /\ UNCHANGED <<status, call, used, runKey, jobs, tracker, tasks,
                   states, cancelled, shown>>

\* The poll fails: a connection error waits for the next round, anything else
\* (authentication, invalid data) fails the run.
PollError(r) ==
    /\ tracker[r] = "get"
    /\ r \notin cancelled
    /\ \/ /\ tracker' = [tracker EXCEPT ![r] = "sleep"]
          /\ got' = [got EXCEPT ![r] = <<>>]
          /\ UNCHANGED <<status, call, used, runKey, jobs, tasks,
                         states, cancelled, shown>>
       \/ Fail(r)

\* The refresh callback has returned, whatever it achieved (see StatusRefresh):
\* a success returns, a failure raises BackendTaskError.
CallbackReturns(r) ==
    /\ r \notin cancelled
    /\ \/ /\ tracker[r] = "refresh"
          /\ tracker' = [tracker EXCEPT ![r] = "ended"]
          /\ Notify(tasks, Live)
          /\ UNCHANGED <<status, call, used, runKey, jobs, got, tasks, states,
                         cancelled>>
       \/ tracker[r] = "refreshFail" /\ Fail(r)

\* A cancelled tracker ends at whatever it awaits, through its "finally".
Cancelled(r) ==
    /\ r \in Live \cap cancelled
    /\ tracker' = [tracker EXCEPT ![r] = "ended"]
    /\ Notify(tasks, Live)
    /\ got' = [got EXCEPT ![r] = <<>>]
    /\ UNCHANGED <<status, call, used, runKey, jobs, tasks, states,
                   cancelled>>

\* Mutation: the tracker is removed without a last notification.
TrackerDoneSilent(r) ==
    /\ tracker[r] = "ended"
    /\ tracker' = [tracker EXCEPT ![r] = "gone"]
    /\ tasks' = [tasks EXCEPT ![runKey[r]] = IF @ = r THEN 0 ELSE @]
    /\ UNCHANGED <<status, call, used, runKey, jobs, got, states,
                   cancelled, shown>>

\* _async_tracker_done, the done callback.
TrackerDone(r) ==
    /\ tracker[r] = "ended"
    /\ tracker' = [tracker EXCEPT ![r] = "gone"]
    /\ IF tasks[runKey[r]] = r
       THEN /\ tasks' = [tasks EXCEPT ![runKey[r]] = 0]
            /\ Notify(tasks', Live)
       ELSE UNCHANGED <<tasks, shown>>
    /\ UNCHANGED <<status, call, used, runKey, jobs, got, states,
                   cancelled>>

-----------------------------------------------------------------------------
(* Unloading the config entry.                                             *)

\* async_unload_entry, async_cancel: cancel what is registered and running ...
Unload ==
    /\ status = "loaded"
    /\ status' = "unloading"
    /\ cancelled' = {tasks[k] : k \in Keys} \cap Live
    /\ UNCHANGED <<call, used, runKey, jobs, tracker, got, tasks, states,
                   shown>>

\* ... await it, then clear the registry and the listeners.
UnloadDone ==
    /\ status = "unloading"
    /\ \A r \in cancelled : tracker[r] = "gone"
    /\ status' = "unloaded"
    /\ tasks' = [k \in Keys |-> 0]
    /\ UNCHANGED <<call, used, runKey, jobs, tracker, got, states,
                   cancelled, shown>>

-----------------------------------------------------------------------------
(* The environment: the jobs of the backend.                               *)

\* What JobQueue does to a job: claim, finish, requeue after a restart.
JobMoves(r, i) ==
    /\ \E p \in {"waiting", "running", "success", "failed"} :
          /\ <<jobs[r][i], p>> \in
                {<<"waiting", "running">>, <<"waiting", "failed">>,
                 <<"running", "success">>, <<"running", "failed">>,
                 <<"running", "waiting">>}
          /\ jobs' = [jobs EXCEPT ![r][i] = p]
    /\ UNCHANGED <<status, call, used, runKey, tracker, got, tasks,
                   states, cancelled, shown>>

-----------------------------------------------------------------------------
TrackerStep(r) ==
    \/ Poll(r) \/ Timeout(r) \/ Fetch(r) \/ Observe(r) \/ PollError(r)
    \/ CallbackReturns(r) \/ Cancelled(r) \/ TrackerDone(r)

Next ==
    \/ \E c \in Callers :
          \/ \E k \in Keys : Press(c, k)
          \/ Accept(c) \/ CallFails(c) \/ Track(c)
    \/ \E r \in Runs : TrackerStep(r)
    \/ \E r \in Runs : \E i \in DOMAIN jobs[r] : JobMoves(r, i)
    \/ Unload \/ UnloadDone

Spec == Init /\ [][Next]_vars

\* Requests end within their timeout and sleeps end; and since the deadline
\* passes once and for all, a loop that keeps coming back to it finds it passed.
FairSpec ==
    /\ Spec
    /\ \A r \in Runs : WF_vars(TrackerStep(r)) /\ SF_vars(Timeout(r))

-----------------------------------------------------------------------------
(* Properties.                                                             *)

RunPhases == {"waiting", "running", "success", "failed"}

\* Every variable keeps its type; registered runs are runs that exist.
TypeOK ==
    /\ status \in {"loaded", "unloading", "unloaded"}
    /\ call \in [Callers -> [pc : {"idle", "sent", "answered"},
                             key : Keys \cup {0}, run : 0..MaxRuns]]
    /\ used \in 0..MaxRuns
    /\ runKey \in [Runs -> Keys \cup {0}]
    /\ jobs \in [Runs -> Seq(RunPhases)]
    /\ tracker \in [Runs -> {"none", "sleep", "get", "refresh", "refreshFail",
                             "ended", "gone"}]
    /\ got \in [Runs -> Seq(RunPhases)]
    /\ tasks \in [Keys -> 0..used]
    /\ states \in [Keys -> [run : 0..used, phase : RunPhases \cup {"none"}]]
    /\ cancelled \subseteq Runs
    /\ shown \in [Keys -> BOOLEAN]

\* REQ-CMD-003: buttons and panel never keep showing "running".  While there are
\* listeners, what they last saw is is_running, except between the end of the
\* registered tracker and its done callback, which removes it and notifies.
ListenersConverge ==
    status # "unloaded" =>
        \A k \in Keys :
            shown[k] # Running(tasks, Live)[k] =>
                \E r \in Runs : tasks[k] = r /\ tracker[r] = "ended"

\* A command nobody tracks any more reads as success or failure: no timeout,
\* lost connection or overlapping tracker leaves "waiting" behind.
SettledStateIsTerminal ==
    status = "loaded" =>
        \A k \in Keys :
            /\ states[k].run # 0
            /\ \A r \in Live : runKey[r] # k
            => states[k].phase \in {"success", "failed"}

\* A command reads as success only when every job of its run has succeeded,
\* although a batch is read job by job while the jobs move.
SuccessIsReal ==
    \A k \in Keys :
        states[k].phase = "success" =>
            \A i \in DOMAIN jobs[states[k].run] :
                jobs[states[k].run][i] = "success"

\* No tracker goes on for ever, whatever the backend does: the deadline sees to
\* it.
TrackersEnd == \A r \in Runs : []<>(tracker[r] \in {"none", "gone"})

\* REQ-OPS-001: "Setup, Unload, Reload und Task-Cancellation hinterlassen keine
\* Listener oder Hintergrundtasks."
UnloadLeavesNothing == status = "unloaded" => Live = {}

=============================================================================
