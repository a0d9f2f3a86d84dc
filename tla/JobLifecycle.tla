---------------------------- MODULE JobLifecycle ----------------------------
(***************************************************************************)
(* What the job queue promises, without workers, queues, locks or          *)
(* requests: a job goes queued -> running -> success or failed and stays   *)
(* there; only a restart takes it from running back to queued; and a host  *)
(* carries out one mutating job at a time, which is not reported as        *)
(* finished while it is still being carried out.                           *)
(***************************************************************************)
CONSTANTS Jobs, Hosts

VARIABLES
    state,    \* job -> "absent", "queued", "running", "success" or "failed"
    active,   \* mutating jobs at work, each with its host
    open      \* the backend serves

lvars == <<state, active, open>>

Init ==
    /\ state = [j \in Jobs |-> "absent"]
    /\ active = {}
    /\ open = TRUE

Advance(j, from, to) ==
    /\ open
    /\ state[j] = from
    /\ state' = [state EXCEPT ![j] = to]
    /\ UNCHANGED <<active, open>>

Submit(j) == Advance(j, "absent", "queued")
Claim(j)  == Advance(j, "queued", "running")

\* A job whose host is missing fails without having been claimed.
Reject(j) == Advance(j, "queued", "failed")

Finish(j) ==
    /\ \A a \in active : a.job # j
    /\ \E o \in {"success", "failed"} : Advance(j, "running", o)

\* A mutating job starts on a host that no other mutating job works on.
Begin(j, h) ==
    /\ open
    /\ state[j] = "running"
    /\ \A a \in active : a.job # j /\ a.host # h
    /\ active' = active \cup {[job |-> j, host |-> h]}
    /\ UNCHANGED <<state, open>>

End(a) ==
    /\ open
    /\ a \in active
    /\ active' = active \ {a}
    /\ UNCHANGED <<state, open>>

\* The process stops: nothing is being carried out any more ...
Interrupt ==
    /\ open' = FALSE
    /\ active' = {}
    /\ UNCHANGED state

\* ... and what was running will be done again.
Requeue ==
    /\ ~open
    /\ state' = [j \in Jobs |-> IF state[j] = "running" THEN "queued"
                                ELSE state[j]]
    /\ UNCHANGED <<active, open>>

Reopen ==
    /\ ~open
    /\ \A j \in Jobs : state[j] # "running"
    /\ open' = TRUE
    /\ UNCHANGED <<state, active>>

Next ==
    \/ \E j \in Jobs : Submit(j) \/ Claim(j) \/ Reject(j) \/ Finish(j)
    \/ \E j \in Jobs, h \in Hosts : Begin(j, h)
    \/ \E a \in active : End(a)
    \/ Interrupt \/ Requeue \/ Reopen

Spec == Init /\ [][Next]_lvars

=============================================================================
