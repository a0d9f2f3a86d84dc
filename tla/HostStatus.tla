----------------------------- MODULE HostStatus -----------------------------
(***************************************************************************)
(* What the backend knows of a managed host and how it comes to know it:   *)
(* the phases of AnsibleExecutor (automation.py), the snapshot a check or  *)
(* an update takes, and HostRepository.async_update_status (hosts.py),     *)
(* which _finish_success (jobs.py) calls after the host's lock is free.    *)
(*                                                                         *)
(* One host; a step of a job is one ansible process.  What apt and the     *)
(* file /var/run/reboot-required say changes under the job's feet only     *)
(* through other jobs: the host is managed by this backend alone.  Queue,  *)
(* claims and restarts are the subject of JobQueue; here a job is taken in *)
(* order by one of the workers.                                            *)
(***************************************************************************)
EXTENDS Naturals, FiniteSets

CONSTANTS Actions,   \* the job actions in use
          Workers,   \* number of workers
          MaxJobs    \* bound: jobs ever created

ASSUME StatusAssumption ==
    /\ Actions \subseteq {"check_updates", "update", "reboot", "custom_task"}
    /\ Workers \in Nat /\ MaxJobs \in Nat

Jobs == 1..MaxJobs
Locked    == {"update", "reboot", "custom_task"}
Snapshots == {"check_updates", "update"}

VARIABLES
    host,    \* the managed host: packages to upgrade, reboot-required file
    stored,  \* the host's row: "not yet", "yes" or "deleted"
    row,     \* the status columns of the row; checked_at is left out, because
             \* nothing compares it
    job,     \* jobs: action, phase, the snapshot in the making, and (history)
             \* the reboot file as the installation of packages left it
    lock,    \* the job that holds the host's lock, or 0
    alone,   \* history: since its claim the active job has been the only one
    quiet    \* history: the last job was a check or an update that ran alone
             \* and succeeded, and none has been claimed since

backend == <<host, stored, row, job, lock, alone, quiet>>

Hosts    == [updates : BOOLEAN, reboot : BOOLEAN]
NoStatus == [updates |-> FALSE, reboot |-> FALSE]
NoJob    == [action |-> "none", phase |-> "none", seen |-> NoStatus,
             left |-> FALSE]

BackendInit ==
    /\ host \in Hosts
    /\ stored \in {"not yet", "yes"}
    /\ row = NoStatus
    /\ job = [j \in Jobs |-> NoJob]
    /\ lock = 0
    /\ alone = FALSE
    /\ quiet = FALSE

Exists    == stored = "yes"
Active    == {j \in Jobs : job[j].phase \notin {"none", "queued", "ended"}}
Created   == {j \in Jobs : job[j].phase # "none"}
Goto(j, p) == job' = [job EXCEPT ![j].phase = p]
\* The job ends; nothing here depends on what it was any more.
End(j)     == job' = [job EXCEPT ![j] = [NoJob EXCEPT !.phase = "ended"]]

-----------------------------------------------------------------------------
(* A job waits, is taken by a worker, and waits for the lock.              *)

\* A new job for the host, whoever asks for it.
Create(a) ==
    /\ Exists
    /\ Cardinality(Created) < MaxJobs
    /\ job' = [job EXCEPT ![Cardinality(Created) + 1] =
                 [NoJob EXCEPT !.action = a, !.phase = "queued"]]

\* Mutation: every action takes the host's lock.
ClaimWaits(j) ==
    /\ job[j].phase = "queued"
    /\ Exists
    /\ \A i \in 1..(j - 1) : job[i].phase # "queued"
    /\ Cardinality(Active) < Workers
    /\ Goto(j, "wait")
    /\ alone' = (Active = {})
    /\ quiet' = FALSE
    /\ UNCHANGED <<host, stored, row, lock>>

\* _async_run: jobs start in the order of the queue; those of a deleted host
\* are left as they are.
Claim(j) ==
    /\ job[j].phase = "queued"
    /\ Exists
    /\ \A i \in 1..(j - 1) : job[i].phase # "queued"
    /\ Cardinality(Active) < Workers
    /\ Goto(j, IF job[j].action \in Locked THEN "wait" ELSE "facts")
    /\ alone' = (Active = {})
    /\ quiet' = FALSE
    /\ UNCHANGED <<host, stored, row, lock>>

EnterLock(j) ==
    /\ job[j].phase = "wait"
    /\ lock = 0
    /\ lock' = j
    /\ Goto(j, job[j].action)
    /\ UNCHANGED <<host, stored, row, alone, quiet>>

-----------------------------------------------------------------------------
(* The phases.                                                             *)

\* Packages are installed, and may ask for a reboot.
Upgraded  == [updates : {FALSE}, reboot : {host.reboot, TRUE}]
Unchanged == {host}
Partly(effects) == [updates : {host.updates} \cup {h.updates : h \in effects},
                    reboot  : {host.reboot} \cup {h.reboot : h \in effects}]

\* What an ansible process may leave behind: the reboot clears the file in
\* /run, a custom task may do anything, refreshed metadata may list more.
Effects(p) ==
    CASE p = "update"      -> Upgraded
      [] p = "reboot"      -> [updates : {host.updates}, reboot : {FALSE}]
      [] p = "custom_task" -> Hosts
      [] p = "cache"       -> [updates : {host.updates, TRUE}, reboot : {host.reboot}]
      [] OTHER             -> Unchanged

\* async_execute, _async_check: the order of the phases; the check after an
\* update leaves the metadata alone.
Following(j) ==
    LET p == job[j].phase IN
        CASE p \in {"reboot", "custom_task"} -> "store"
          [] p = "update" -> "facts"
          [] p = "facts"  -> IF job[j].action = "update" THEN "list" ELSE "cache"
          [] p = "cache"  -> "list"
          [] p = "list"   -> "stat"
          [] p = "stat"   -> "store"

Running(j) == job[j].phase \in {"update", "reboot", "custom_task", "facts",
                                "cache", "list", "stat"}

\* Mutation: the lock only covers the installation of the packages.
KeepsLockForUpdate(j) ==
    Following(j) # "store" /\ job[j].phase # "update"

\* "async with lock": held until the executor returns.
KeepsLock(j) == Following(j) # "store"

\* A process succeeds.  The package list and the reboot file are read in two
\* phases of their own.
PhaseDone(j) ==
    /\ Running(j)
    /\ host' \in Effects(job[j].phase)
    /\ job' = [job EXCEPT ![j].phase = Following(j),
                          ![j].seen =
                    CASE job[j].phase = "list" -> [@ EXCEPT !.updates = host.updates]
                      [] job[j].phase = "stat" -> [@ EXCEPT !.reboot = host.reboot]
                      [] OTHER -> @,
                          ![j].left = IF job[j].phase = "update"
                                      THEN host'.reboot ELSE @]
    /\ lock' = IF lock = j /\ ~KeepsLock(j) THEN 0 ELSE lock
    /\ UNCHANGED <<stored, row, alone, quiet>>

\* A process fails or is killed at the command timeout, perhaps after it did
\* some of its work: no snapshot, the job has failed.
PhaseFails(j) ==
    /\ Running(j)
    /\ host' \in Partly(Effects(job[j].phase))
    /\ End(j)
    /\ lock' = IF lock = j THEN 0 ELSE lock
    /\ UNCHANGED <<stored, row, alone, quiet>>

-----------------------------------------------------------------------------
(* The outcome.                                                            *)

\* async_update_status: whatever the row holds is overwritten, an id that is
\* gone matches no row; reboots and custom tasks have no snapshot.  With it the
\* job ends: that its success is stored after the snapshot is JobQueue's.
Store(j) ==
    /\ job[j].phase = "store"
    /\ row' = IF Exists /\ job[j].action \in Snapshots THEN job[j].seen ELSE row
    /\ End(j)
    /\ quiet' = (alone /\ job[j].action \in Snapshots)
    /\ UNCHANGED <<host, stored, lock, alone>>

\* async_create: a host's id is never given out again.
AddHost ==
    /\ stored = "not yet"
    /\ stored' = "yes"
    /\ UNCHANGED <<host, row, job, lock, alone, quiet>>

DeleteHost ==
    /\ Exists
    /\ stored' = "deleted"
    /\ UNCHANGED <<host, row, job, lock, alone, quiet>>

JobStep(j) == \/ Claim(j) \/ EnterLock(j)
              \/ PhaseDone(j) \/ PhaseFails(j)
              \/ Store(j)

-----------------------------------------------------------------------------
(* Properties.                                                             *)

BackendTypeOK ==
    /\ host \in Hosts
    /\ stored \in {"not yet", "yes", "deleted"}
    /\ row \in Hosts
    /\ job \in [Jobs -> [action : Actions \cup {"none"},
                         phase : {"none", "queued", "wait", "facts", "cache",
                                  "list", "stat", "update", "reboot",
                                  "custom_task", "store", "ended"},
                         seen : Hosts, left : BOOLEAN]]
    /\ lock \in 0..MaxJobs
    /\ alone \in BOOLEAN /\ quiet \in BOOLEAN

\* docs/02-architecture/native-api.md: an update job reports whether a reboot
\* is required.  It reports what its own packages left: no other update, reboot
\* or custom task gets between the installation and the check after it.
UpdateReportsItself ==
    \A j \in Jobs :
        job[j].action = "update" /\ job[j].phase = "store"
        => job[j].seen.reboot = job[j].left

\* A check or an update that ran while no other job did leaves the row as the
\* host is, until the next job starts.  (Of two that overlap, the one that
\* stores last wins, whichever looked last.)
QuietStatusIsTrue ==
    quiet /\ Exists
    => row.updates = host.updates /\ row.reboot = host.reboot

=============================================================================
