--------------------------- MODULE StatusRefresh ---------------------------
(***************************************************************************)
(* What becomes of the refresh that a finished command asks for: the end   *)
(* of a tracker (_async_track, application/task_manager.py), its callback  *)
(* (_refresh_runtime, __init__.py) and the coordinators (coordinator.py)   *)
(* behind Home Assistant's debouncer.  The entry stays loaded; what an     *)
(* unload does to a tracker is in TaskManager.                             *)
(*                                                                         *)
(* The backend is reduced to the runs whose jobs have ended, and an answer *)
(* to the runs that it shows as ended.  From Home Assistant's coordinator  *)
(* come: a request is passed on at once, put off to the end of a cooldown, *)
(* or dropped while a refresh is under way; a periodic refresh waits for   *)
(* that one and clears the cooldown; the failure of a refresh is recorded  *)
(* and not raised.                                                         *)
(***************************************************************************)
EXTENDS Naturals, FiniteSets

CONSTANTS
    Runs,           \* commands whose tracker runs
    Coordinators    \* number of coordinators: hosts, jobs, custom tasks

ASSUME RefreshAssumption == Coordinators \in Nat \ {0}

Order == 1..Coordinators
Returned == Coordinators + 1

VARIABLES
    ended,    \* backend: the runs whose jobs have ended
    at,       \* tracker of a run: 0 polls its jobs, c is about to ask
              \* coordinator c, Returned is past the callback
    waits,    \* trackers that await the refresh they asked for
    fetch,    \* refresh of a coordinator: "idle", "sent" or "read"
    asked,    \* coordinators whose refresh came from a request, not the poll
    saw,      \* what the answer under way shows
    data,     \* coordinator.data
    ok,       \* coordinator.last_update_success
    timer,    \* debouncer: "off", "cooling", or "again" with a request put off
    missed    \* history: runs whose request was dropped for an answer that does
              \* not show them, until one does

trackers == <<at, waits>>
vars == <<ended, trackers, fetch, asked, saw, data, ok, timer, missed>>

Init ==
    /\ ended = {}
    /\ at = [r \in Runs |-> 0] /\ waits = {}
    /\ fetch = [c \in Order |-> "idle"] /\ asked = {}
    /\ saw = [c \in Order |-> {}] /\ data = [c \in Order |-> {}]
    /\ ok = [c \in Order |-> TRUE]
    /\ timer = [c \in Order |-> "off"]
    /\ missed = [c \in Order |-> {}]

-----------------------------------------------------------------------------
(* The tracker.                                                            *)

\* The backend stores the outcome of the run's last job.
JobEnds(r) ==
    /\ r \notin ended
    /\ ended' = ended \cup {r}
    /\ UNCHANGED <<trackers, fetch, asked, saw, data, ok, timer, missed>>

\* _async_track reads a terminal phase and calls the refresh callback.
Observe(r) ==
    /\ at[r] = 0
    /\ r \in ended
    /\ at' = [at EXCEPT ![r] = 1]
    /\ UNCHANGED <<ended, waits, fetch, asked, saw, data, ok, timer, missed>>

\* The run whose turn it is to ask coordinator c.
Asking(r, c) == at[r] = c /\ r \notin waits

\* Mutation: a refresh that is put off ends the callback.
PutOffEnds(r, c) ==
    /\ Asking(r, c)
    /\ timer[c] # "off"
    /\ timer' = [timer EXCEPT ![c] = "again"]
    /\ at' = [at EXCEPT ![r] = Returned]
    /\ UNCHANGED <<ended, waits, fetch, asked, saw, data, ok, missed>>

\* async_request_refresh of _refresh_runtime, in the cooldown of the last one.
PutOff(r, c) ==
    /\ Asking(r, c)
    /\ timer[c] # "off"
    /\ timer' = [timer EXCEPT ![c] = "again"]
    /\ at' = [at EXCEPT ![r] = c + 1]
    /\ UNCHANGED <<ended, waits, fetch, asked, saw, data, ok, missed>>

\* ... while one is under way, which may have left the backend already ...
Drop(r, c) ==
    /\ Asking(r, c)
    /\ timer[c] = "off" /\ fetch[c] # "idle"
    /\ at' = [at EXCEPT ![r] = c + 1]
    /\ missed' = [missed EXCEPT ![c] =
                    IF fetch[c] = "read" THEN @ \cup ({r} \ saw[c]) ELSE @]
    /\ UNCHANGED <<ended, waits, fetch, asked, saw, data, ok, timer>>

\* ... or at rest: the refresh starts, and the tracker awaits its end.
AskNow(r, c) ==
    /\ Asking(r, c)
    /\ timer[c] = "off" /\ fetch[c] = "idle"
    /\ fetch' = [fetch EXCEPT ![c] = "sent"]
    /\ asked' = asked \cup {c}
    /\ waits' = waits \cup {r}
    /\ UNCHANGED <<ended, at, saw, data, ok, timer, missed>>

-----------------------------------------------------------------------------
(* A coordinator.                                                          *)

\* The cooldown is over.
TimerEnds(c) ==
    /\ timer[c] # "off"
    /\ timer' = [timer EXCEPT ![c] = "off"]
    /\ IF timer[c] = "again"
       THEN /\ fetch' = [fetch EXCEPT ![c] = "sent"]
            /\ asked' = asked \cup {c}
       ELSE UNCHANGED <<fetch, asked>>
    /\ UNCHANGED <<ended, trackers, saw, data, ok, missed>>


\* The update interval is over; a refresh clears the cooldown and what it put
\* off.
Poll(c) ==
    /\ fetch[c] = "idle"
    /\ fetch' = [fetch EXCEPT ![c] = "sent"]
    /\ timer' = [timer EXCEPT ![c] = "off"]
    /\ UNCHANGED <<ended, trackers, asked, saw, data, ok, missed>>

\* The backend answers the GET of _async_update_data.
Serve(c) ==
    /\ fetch[c] = "sent"
    /\ fetch' = [fetch EXCEPT ![c] = "read"]
    /\ saw' = [saw EXCEPT ![c] = ended]
    /\ UNCHANGED <<ended, trackers, asked, data, ok, timer, missed>>

\* A refresh ends: a requested one starts a cooldown, and the tracker that
\* awaits it goes on to the next coordinator.
RefreshEnds(c) ==
    LET awaiting == {r \in waits : at[r] = c}
    IN  /\ fetch' = [fetch EXCEPT ![c] = "idle"]
        /\ saw' = [saw EXCEPT ![c] = {}]
        /\ timer' = IF c \in asked THEN [timer EXCEPT ![c] = "cooling"] ELSE timer
        /\ asked' = asked \ {c}
        /\ waits' = waits \ awaiting
        /\ at' = [r \in Runs |-> IF r \in awaiting THEN c + 1 ELSE at[r]]

\* The answer replaces the data.
Reply(c) ==
    /\ fetch[c] = "read"
    /\ RefreshEnds(c)
    /\ data' = [data EXCEPT ![c] = saw[c]]
    /\ ok' = [ok EXCEPT ![c] = TRUE]
    /\ missed' = [missed EXCEPT ![c] = @ \ saw[c]]
    /\ UNCHANGED ended

\* UpdateFailed: the data stays, and the tracker is told nothing.
Fails(c) ==
    /\ fetch[c] # "idle"
    /\ RefreshEnds(c)
    /\ ok' = [ok EXCEPT ![c] = FALSE]
    /\ UNCHANGED <<ended, data, missed>>

-----------------------------------------------------------------------------
TrackerStep(r) ==
    Observe(r) \/ \E c \in Order : PutOff(r, c) \/ Drop(r, c) \/ AskNow(r, c)

Next ==
    \/ \E r \in Runs : JobEnds(r) \/ TrackerStep(r)
    \/ \E c \in Order :
          TimerEnds(c) \/ Poll(c) \/ Serve(c) \/ Reply(c) \/ Fails(c)

Spec == Init /\ [][Next]_vars

\* Trackers poll until their jobs end, each coordinator refreshes at its
\* interval, and not every one of its refreshes fails.
FairSpec ==
    /\ Spec
    /\ \A r \in Runs : WF_vars(TrackerStep(r))
    /\ \A c \in Order : WF_vars(Poll(c)) /\ SF_vars(Serve(c)) /\ SF_vars(Reply(c))

-----------------------------------------------------------------------------
(* Properties.                                                             *)

\* Every variable keeps its type.
TypeOK ==
    /\ ended \subseteq Runs
    /\ at \in [Runs -> 0..Returned] /\ waits \subseteq Runs
    /\ fetch \in [Order -> {"idle", "sent", "read"}]
    /\ asked \subseteq Order
    /\ saw \in [Order -> SUBSET Runs]
    /\ data \in [Order -> SUBSET Runs]
    /\ ok \in [Order -> BOOLEAN]
    /\ timer \in [Order -> {"off", "cooling", "again"}]
    /\ missed \in [Order -> SUBSET Runs]

\* Coordinator c shows the end of r, is known to show old data, or will read
\* the backend once more without waiting for the next poll.
Covered(r, c) ==
    \/ r \in data[c]
    \/ ~ok[c]
    \/ fetch[c] = "sent" \/ (fetch[c] = "read" /\ r \in saw[c])
    \/ timer[c] = "again"

\* REQ-CMD-004, as far as the code keeps it: once a tracker has asked a
\* coordinator, only a request dropped for an answer that had left the backend
\* before leaves old data there as if it were new.  No cooldown, failed refresh,
\* poll or other command loses one.
OnlyDroppedIsStale ==
    \A r \in Runs : \A c \in Order :
        at[r] > c => Covered(r, c) \/ r \in missed[c]


=============================================================================
