-------------------------- MODULE HostRebootProofs --------------------------
(***************************************************************************)
(* Proofs about RebootRepair and the HostStatus below it, for any workers, *)
(* number of jobs and actions that include the reboot.                     *)
(***************************************************************************)
EXTENDS RebootRepair, TLAPS

USE StatusAssumption, RepairAssumption DEF StatusAssumption, RepairAssumption, Jobs

-----------------------------------------------------------------------------
(* The inductive invariants.                                               *)

JobRecords ==
    [action : Actions \cup {"none"},
     phase : {"none", "queued", "wait", "facts", "cache", "list", "stat",
              "update", "reboot", "custom_task", "store", "ended"},
     seen : Hosts, left : BOOLEAN]

\* How far a job has come tells what it does, and whether the lock is its own
\* (r is job j, l the lock).  An update that looks at the host still holds it,
\* and the reboot file (h) is as its packages left it; what it has seen of the
\* file then is that.
Sound(r, j, l, h) ==
    /\ r.phase \notin {"none", "ended"} => r.action \in Actions
    /\ r.phase = "wait" => r.action \in Locked
    /\ r.phase \in Locked => r.action = r.phase /\ l = j
    /\ r.phase \in {"facts", "cache", "list", "stat"} => r.action \in Snapshots
    /\ r.phase = "cache" => r.action # "update"
    /\ r.action = "update" /\ r.phase \in {"facts", "list", "stat"} =>
        l = j /\ h = r.left
    /\ r.action = "update" /\ r.phase = "store" =>
        r.seen.reboot = r.left

SoundInv == \A j \in Jobs : Sound(job[j], j, lock, host.reboot)

\* A job that has been alone since its claim is the only one, after a quiet job
\* there is none, and there is none before there is a host.
AloneInv ==
    /\ alone => \A i, j \in Active : i = j
    /\ quiet => Active = {}
    /\ stored = "not yet" => Active = {} /\ ~quiet

\* What a check or an update has seen of the host h is true of it.
Truthful(r, h) ==
    r.action \in Snapshots =>
        /\ r.phase \in {"stat", "store"} => r.seen.updates = h.updates
        /\ r.phase = "store" => r.seen.reboot = h.reboot

\* So it is with a job that is alone.
SeenInv == alone => \A j \in Active : Truthful(job[j], host)

\* A coordinator that has data is past its first refresh, and is not refreshed
\* again before the listener of the issues is there.
CopyInv ==
    /\ ok => Listening \/ entry = "registering"
    /\ entry = "registering" => fetch = "idle"

EntryStates == {"unloaded", "setup", "registering", "forwarding", "loaded",
                "unloading", "failed"}

BackendInv == BackendTypeOK /\ SoundInv

-----------------------------------------------------------------------------
(* Lemmas about the operators of the model.                                *)

\* A record is what its fields are.
LEMMA RecordFields ==
    ASSUME NEW U, NEW R, NEW x \in [updates : U, reboot : R]
    PROVE  /\ x.updates \in U /\ x.reboot \in R
           /\ x = [updates |-> x.updates, reboot |-> x.reboot]
OBVIOUS

LEMMA HostFields ==
    ASSUME NEW x \in Hosts
    PROVE  /\ x.updates \in BOOLEAN /\ x.reboot \in BOOLEAN
           /\ x = [updates |-> x.updates, reboot |-> x.reboot]
BY RecordFields DEF Hosts

\* A job that has ended, and one that is new.
LEMMA NewRecords ==
    ASSUME NEW a \in Actions
    PROVE  /\ [NoJob EXCEPT !.phase = "ended"] \in JobRecords
           /\ [NoJob EXCEPT !.phase = "ended"].phase = "ended"
           /\ [NoJob EXCEPT !.action = a, !.phase = "queued"] \in JobRecords
           /\ [NoJob EXCEPT !.action = a, !.phase = "queued"].phase = "queued"
           /\ [NoJob EXCEPT !.action = a, !.phase = "queued"].action = a
<1>1. NoStatus \in Hosts
  BY DEF NoStatus, Hosts
<1>2. NoJob \in JobRecords
  BY <1>1 DEF NoJob, JobRecords
<1>. QED  BY <1>2 DEF JobRecords

\* The processes that change the reboot file are those that hold the lock; the
\* ones that look change nothing (automation.py).
LEMMA EffectsOf ==
    ASSUME host \in Hosts, NEW p, NEW h \in Effects(p) \cup Partly(Effects(p))
    PROVE  /\ h \in Hosts
           /\ p \notin Locked => h.reboot = host.reboot
           /\ p \in {"facts", "list", "stat"} => h = host
<1>1. host.updates \in BOOLEAN /\ host.reboot \in BOOLEAN
  BY DEF Hosts
<1>2. ASSUME NEW U \in SUBSET BOOLEAN, NEW R \in SUBSET BOOLEAN,
             Effects(p) = [updates : U, reboot : R]
      PROVE  /\ h \in Hosts
             /\ h.updates \in U \cup {host.updates}
             /\ h.reboot \in R \cup {host.reboot}
  <2>1. CASE h \in Effects(p)
    BY <1>2, <2>1 DEF Hosts
  <2>2. CASE h \in Partly(Effects(p))
    <3>. DEFINE us == {e.updates : e \in Effects(p)}
                rs == {e.reboot : e \in Effects(p)}
    <3>1. us \subseteq U
      BY <1>2
    <3>2. rs \subseteq R
      BY <1>2
    <3>3. h \in [updates : {host.updates} \cup us, reboot : {host.reboot} \cup rs]
      BY <2>2 DEF Partly
    <3>. HIDE DEF us, rs
    <3>4. h.updates \in {host.updates} \cup us /\ h.reboot \in {host.reboot} \cup rs
          /\ h = [updates |-> h.updates, reboot |-> h.reboot]
      BY <3>3
    <3>. QED  BY <1>1, <3>1, <3>2, <3>4 DEF Hosts
  <2>. QED  BY <2>1, <2>2
<1>3. CASE p = "update"
  <2>1. Effects(p) = [updates : {FALSE}, reboot : {host.reboot, TRUE}]
    BY <1>3 DEF Effects, Upgraded
  <2>2. {FALSE} \in SUBSET BOOLEAN /\ {host.reboot, TRUE} \in SUBSET BOOLEAN
    BY <1>1
  <2>3. h \in Hosts
    BY <1>2, <2>1, <2>2
  <2>. QED  BY <1>3, <2>3 DEF Locked
<1>4. CASE p = "reboot"
  <2>1. Effects(p) = [updates : {host.updates}, reboot : {FALSE}]
    BY <1>4 DEF Effects
  <2>2. {host.updates} \in SUBSET BOOLEAN /\ {FALSE} \in SUBSET BOOLEAN
    BY <1>1
  <2>3. h \in Hosts
    BY <1>2, <2>1, <2>2
  <2>. QED  BY <1>4, <2>3 DEF Locked
<1>5. CASE p = "custom_task"
  <2>1. Effects(p) = [updates : BOOLEAN, reboot : BOOLEAN]
    BY <1>5 DEF Effects, Hosts
  <2>2. h \in Hosts
    BY <1>2, <2>1
  <2>. QED  BY <1>5, <2>2 DEF Locked
<1>6. CASE p = "cache"
  <2>1. Effects(p) = [updates : {host.updates, TRUE}, reboot : {host.reboot}]
    BY <1>6 DEF Effects
  <2>2. {host.updates, TRUE} \in SUBSET BOOLEAN /\ {host.reboot} \in SUBSET BOOLEAN
    BY <1>1
  <2>3. h \in Hosts /\ h.reboot \in {host.reboot} \cup {host.reboot}
    BY <1>2, <2>1, <2>2
  <2>. QED  BY <1>6, <2>3
<1>7. CASE p \notin {"update", "reboot", "custom_task", "cache"}
  <2>1. Effects(p) = {host}
    BY <1>7 DEF Effects, Unchanged
  <2>2. host = [updates |-> host.updates, reboot |-> host.reboot]
    BY HostFields
  <2>3. \A e \in [updates : {host.updates}, reboot : {host.reboot}] : e = host
    <3>. SUFFICES ASSUME NEW e \in [updates : {host.updates}, reboot : {host.reboot}]
                  PROVE  e = host
      OBVIOUS
    <3>1. /\ e.updates \in {host.updates} /\ e.reboot \in {host.reboot}
          /\ e = [updates |-> e.updates, reboot |-> e.reboot]
      BY RecordFields
    <3>. QED  BY <2>2, <3>1
  <2>4. host \in [updates : {host.updates}, reboot : {host.reboot}]
    BY <2>2
  <2>5. Effects(p) = [updates : {host.updates}, reboot : {host.reboot}]
    BY <2>1, <2>3, <2>4
  <2>6. {host.updates} \in SUBSET BOOLEAN /\ {host.reboot} \in SUBSET BOOLEAN
    BY <1>1
  <2>7. /\ h \in Hosts
        /\ h.updates \in {host.updates} \cup {host.updates}
        /\ h.reboot \in {host.reboot} \cup {host.reboot}
    BY <1>2, <2>5, <2>6
  <2>8. h.updates = host.updates /\ h.reboot = host.reboot
    BY <2>7
  <2>9. h = [updates |-> h.updates, reboot |-> h.reboot]
    BY <2>7, HostFields
  <2>10. h = host
    BY <2>2, <2>8, <2>9
  <2>. QED  BY <2>7, <2>10
<1>. QED  BY <1>3, <1>4, <1>5, <1>6, <1>7

\* The order of the phases (async_execute).
LEMMA FollowingPhases ==
    ASSUME NEW j \in Jobs, Running(j)
    PROVE  /\ job[j].phase \in {"reboot", "custom_task"} => Following(j) = "store"
           /\ job[j].phase = "update" => Following(j) = "facts"
           /\ job[j].phase = "facts" =>
                Following(j) = IF job[j].action = "update" THEN "list" ELSE "cache"
           /\ job[j].phase = "cache" => Following(j) = "list"
           /\ job[j].phase = "list" => Following(j) = "stat"
           /\ job[j].phase = "stat" => Following(j) = "store"
<1>. DEFINE p == job[j].phase
<1>1. CASE p \in {"reboot", "custom_task"}
  BY <1>1 DEF Following
<1>2. CASE p = "update"
  BY <1>2 DEF Following
<1>3. CASE p = "facts"
  BY <1>3 DEF Following
<1>4. CASE p = "cache"
  BY <1>4 DEF Following
<1>5. CASE p = "list"
  BY <1>5 DEF Following
<1>6. CASE p = "stat"
  BY <1>6 DEF Following
<1>. QED  BY <1>1, <1>2, <1>3, <1>4, <1>5, <1>6 DEF Running

\* A job changes to r, while nobody takes the lock or the reboot file from the
\* job that holds the lock.
LEMMA JobChanges ==
    ASSUME BackendInv, NEW j, NEW r \in JobRecords,
           job' = [job EXCEPT ![j] = r], Sound(r, j, lock', host'.reboot),
           \A i \in Jobs : i # j /\ lock = i =>
                lock' = lock /\ host'.reboot = host.reboot
    PROVE  /\ job' \in [Jobs -> JobRecords]
           /\ SoundInv'
           /\ j \in Jobs => job'[j] = r
           /\ \A i \in Jobs : i # j => job'[i] = job[i]
<1>1. job \in [Jobs -> JobRecords]
  BY DEF BackendInv, BackendTypeOK, JobRecords
<1>2. /\ job' \in [Jobs -> JobRecords]
      /\ j \in Jobs => job'[j] = r
      /\ \A i \in Jobs : i # j => job'[i] = job[i]
  BY <1>1
<1>3. ASSUME NEW i \in Jobs PROVE Sound(job'[i], i, lock', host'.reboot)
  <2>1. CASE i = j
    BY <1>2, <2>1
  <2>2. CASE i # j
    <3>1. job'[i] = job[i] /\ Sound(job[i], i, lock, host.reboot)
      BY <1>2, <2>2 DEF BackendInv, SoundInv
    <3>2. lock = i => lock' = lock /\ host'.reboot = host.reboot
      BY <2>2
    <3>. QED  BY <3>1, <3>2 DEF Sound
  <2>. QED  BY <2>1, <2>2
<1>. QED  BY <1>2, <1>3 DEF SoundInv

-----------------------------------------------------------------------------
(* The steps of the backend.                                               *)

\* What a step of job j makes of its record.
New(j) ==
    [job[j] EXCEPT !.phase = Following(j),
                   !.seen =
            CASE job[j].phase = "list" -> [@ EXCEPT !.updates = host.updates]
              [] job[j].phase = "stat" -> [@ EXCEPT !.reboot = host.reboot]
              [] OTHER -> @,
                   !.left = IF job[j].phase = "update" THEN host'.reboot ELSE @]

LEMMA NewFields ==
    ASSUME BackendInv, NEW j \in Jobs, PhaseDone(j)
    PROVE  /\ job' = [job EXCEPT ![j] = New(j)]
           /\ New(j) \in JobRecords
           /\ New(j).phase = Following(j)
           /\ New(j).action = job[j].action
           /\ New(j).left = IF job[j].phase = "update" THEN host'.reboot
                            ELSE job[j].left
           /\ New(j).seen.updates = IF job[j].phase = "list" THEN host.updates
                                    ELSE job[j].seen.updates
           /\ New(j).seen.reboot = IF job[j].phase = "stat" THEN host.reboot
                                   ELSE job[j].seen.reboot
<1>1. job[j] \in JobRecords /\ host \in Hosts
  BY DEF BackendInv, BackendTypeOK, JobRecords
<1>2. host.updates \in BOOLEAN /\ host.reboot \in BOOLEAN
  BY <1>1, HostFields
<1>3. host' \in Hosts /\ host'.reboot \in BOOLEAN
  <2>1. host' \in Effects(job[j].phase)
    BY DEF PhaseDone
  <2>2. host' \in Hosts
    BY <1>1, <2>1, EffectsOf
  <2>. QED  BY <2>2, HostFields
<1>4. Following(j) \in {"facts", "cache", "list", "stat", "store"}
  BY FollowingPhases DEF PhaseDone, Running
<1>. DEFINE see == CASE job[j].phase = "list" -> [job[j].seen EXCEPT !.updates = host.updates]
                     [] job[j].phase = "stat" -> [job[j].seen EXCEPT !.reboot = host.reboot]
                     [] OTHER -> job[j].seen
            keep == IF job[j].phase = "update" THEN host'.reboot ELSE job[j].left
<1>5. /\ see \in Hosts
      /\ see.updates = IF job[j].phase = "list" THEN host.updates
                       ELSE job[j].seen.updates
      /\ see.reboot = IF job[j].phase = "stat" THEN host.reboot
                      ELSE job[j].seen.reboot
  <2>1. job[j].seen \in Hosts
    BY <1>1 DEF JobRecords
  <2>2. CASE job[j].phase = "list"
    BY <1>2, <2>1, <2>2 DEF Hosts
  <2>3. CASE job[j].phase = "stat"
    BY <1>2, <2>1, <2>3 DEF Hosts
  <2>4. CASE job[j].phase \notin {"list", "stat"}
    BY <2>1, <2>4
  <2>. QED  BY <2>2, <2>3, <2>4
<1>6. keep \in BOOLEAN
  BY <1>1, <1>3 DEF JobRecords
<1>7. job' = [job EXCEPT ![j] = New(j)]
  BY DEF PhaseDone, New
<1>8. New(j) = [job[j] EXCEPT !.phase = Following(j), !.seen = see, !.left = keep]
  BY DEF New
<1>. HIDE DEF see, keep
<1>9. /\ New(j) \in JobRecords /\ New(j).phase = Following(j)
      /\ New(j).action = job[j].action
      /\ New(j).seen = see /\ New(j).left = keep
  BY <1>1, <1>4, <1>5, <1>6, <1>8 DEF JobRecords
<1>. QED  BY <1>5, <1>7, <1>9 DEF keep

\* Types and the lock's order, through every step of a job.
LEMMA JobStepSound ==
    ASSUME BackendInv, NEW j \in Jobs, JobStep(j)
    PROVE  BackendInv'
<1>0. /\ BackendTypeOK /\ Sound(job[j], j, lock, host.reboot)
      /\ job[j] \in JobRecords /\ job \in [Jobs -> JobRecords]
      /\ host \in Hosts /\ row \in Hosts
  BY DEF BackendInv, BackendTypeOK, SoundInv, JobRecords
<1>9. ASSUME lock' = 0 \/ lock' = lock PROVE lock' \in 0..MaxJobs
  <2>1. lock \in 0..MaxJobs
    BY DEF BackendInv, BackendTypeOK
  <2>2. 0 \in 0..MaxJobs
    OBVIOUS
  <2>. QED  BY <1>9, <2>1, <2>2
<1>1. CASE Claim(j)
  <2>. DEFINE p == IF job[j].action \in Locked THEN "wait" ELSE "facts"
              r == [job[j] EXCEPT !.phase = p]
  <2>1. job' = [job EXCEPT ![j] = r] /\ UNCHANGED <<host, stored, row, lock>>
        /\ job[j].phase = "queued"
    BY <1>1 DEF Claim, Goto
  <2>2. r \in JobRecords /\ r.phase = p /\ r.action = job[j].action
    BY <1>0 DEF JobRecords
  <2>3. job[j].action \in Actions
    BY <1>0, <2>1 DEF Sound
  <2>4. Sound(r, j, lock', host'.reboot)
    <3>1. CASE job[j].action \in Locked
      BY <2>2, <2>3, <3>1 DEF Sound, Locked
    <3>2. CASE job[j].action \notin Locked
      <4>1. job[j].action = "check_updates"
        BY <2>3, <3>2 DEF Locked
      <4>. QED  BY <2>2, <2>3, <3>2, <4>1 DEF Sound, Locked, Snapshots
    <3>. QED  BY <3>1, <3>2
  <2>. HIDE DEF r
  <2>5. job' \in [Jobs -> JobRecords] /\ SoundInv'
    BY <2>1, <2>2, <2>4, JobChanges
  <2>6. alone' \in BOOLEAN /\ quiet' \in BOOLEAN
    BY <1>1 DEF Claim
  <2>. QED  BY <1>0, <2>1, <2>5, <2>6 DEF BackendInv, BackendTypeOK, JobRecords
<1>2. CASE EnterLock(j)
  <2>. DEFINE r == [job[j] EXCEPT !.phase = job[j].action]
  <2>1. job' = [job EXCEPT ![j] = r] /\ UNCHANGED <<host, stored, row, alone, quiet>>
        /\ job[j].phase = "wait" /\ lock = 0 /\ lock' = j
    BY <1>2 DEF EnterLock, Goto
  <2>2. job[j].action \in Locked /\ job[j].action \in Actions
    BY <1>0, <2>1 DEF Sound
  <2>3. r \in JobRecords /\ r.phase = job[j].action /\ r.action = job[j].action
    BY <1>0, <2>2 DEF JobRecords, Locked
  <2>4. Sound(r, j, lock', host'.reboot)
    BY <2>1, <2>2, <2>3 DEF Sound, Locked
  <2>. HIDE DEF r
  <2>5. \A i \in Jobs : lock # i
    BY <2>1
  <2>6. job' \in [Jobs -> JobRecords] /\ SoundInv'
    BY <2>1, <2>3, <2>4, <2>5, JobChanges
  <2>7. lock' \in 0..MaxJobs
    BY <2>1
  <2>. QED  BY <1>0, <2>1, <2>6, <2>7 DEF BackendInv, BackendTypeOK, JobRecords
<1>3. CASE PhaseDone(j)
  <2>1. /\ Running(j) /\ UNCHANGED <<stored, row, alone, quiet>>
        /\ lock' = IF lock = j /\ ~KeepsLock(j) THEN 0 ELSE lock
        /\ host' \in Effects(job[j].phase)
    BY <1>3 DEF PhaseDone
  <2>2. /\ host' \in Hosts
        /\ job[j].phase \notin Locked => host'.reboot = host.reboot
        /\ job[j].phase \in {"facts", "list", "stat"} => host' = host
    BY <1>0, <2>1, EffectsOf
  <2>3. /\ job' = [job EXCEPT ![j] = New(j)] /\ New(j) \in JobRecords
        /\ New(j).phase = Following(j)
        /\ New(j).action = job[j].action
        /\ New(j).left = IF job[j].phase = "update" THEN host'.reboot
                         ELSE job[j].left
        /\ New(j).seen.reboot = IF job[j].phase = "stat" THEN host.reboot
                                ELSE job[j].seen.reboot
    BY <1>3, NewFields
  <2>4. Following(j) # "store" => lock' = lock
    BY <2>1 DEF KeepsLock
  <2>5. Sound(New(j), j, lock', host'.reboot)
    <3>0. job[j].action \in Actions
      BY <1>0, <2>1 DEF Sound, Running
    <3>1. CASE job[j].phase \in {"reboot", "custom_task"}
      <4>1. Following(j) = "store" /\ job[j].action # "update"
        BY <1>0, <2>1, <3>1, FollowingPhases DEF Sound, Locked
      <4>. QED  BY <2>3, <3>0, <4>1 DEF Sound, Locked
    <3>2. CASE job[j].phase = "update"
      <4>1. Following(j) = "facts" /\ job[j].action = "update" /\ lock = j
        BY <1>0, <2>1, <3>2, FollowingPhases DEF Sound, Locked
      <4>. QED  BY <2>3, <2>4, <3>0, <3>2, <4>1 DEF Sound, Locked, Snapshots
    <3>3. CASE job[j].phase = "facts"
      <4>1. Following(j) = IF job[j].action = "update" THEN "list" ELSE "cache"
        BY <2>1, <3>3, FollowingPhases
      <4>. QED  BY <1>0, <2>2, <2>3, <2>4, <3>0, <3>3, <4>1 DEF Sound, Locked
    <3>4. CASE job[j].phase = "cache"
      <4>1. Following(j) = "list"
        BY <2>1, <3>4, FollowingPhases
      <4>. QED  BY <1>0, <2>3, <3>0, <3>4, <4>1 DEF Sound, Locked
    <3>5. CASE job[j].phase = "list"
      <4>1. Following(j) = "stat"
        BY <2>1, <3>5, FollowingPhases
      <4>. QED  BY <1>0, <2>2, <2>3, <2>4, <3>0, <3>5, <4>1 DEF Sound, Locked
    <3>6. CASE job[j].phase = "stat"
      <4>1. Following(j) = "store"
        BY <2>1, <3>6, FollowingPhases
      <4>. QED  BY <1>0, <2>3, <3>0, <3>6, <4>1 DEF Sound, Locked
    <3>. QED  BY <2>1, <3>1, <3>2, <3>3, <3>4, <3>5, <3>6 DEF Running
  <2>6. \A i \in Jobs : i # j /\ lock = i => lock' = lock /\ host'.reboot = host.reboot
    <3>1. job[j].phase \in Locked => lock = j
      BY <1>0 DEF Sound
    <3>. QED  BY <2>1, <2>2, <3>1
  <2>7. job' \in [Jobs -> JobRecords] /\ SoundInv'
    BY <2>3, <2>5, <2>6, JobChanges
  <2>8. lock' \in 0..MaxJobs
    <3>1. lock' = 0 \/ lock' = lock
      BY <2>1
    <3>. QED  BY <1>9, <3>1
  <2>9. /\ stored' \in {"not yet", "yes", "deleted"} /\ row' \in Hosts
        /\ alone' \in BOOLEAN /\ quiet' \in BOOLEAN
    BY <1>0, <2>1 DEF BackendTypeOK
  <2>. QED  BY <2>2, <2>7, <2>8, <2>9 DEF BackendInv, BackendTypeOK, JobRecords
<1>4. ASSUME End(j), stored' = stored, row' \in Hosts, host' \in Hosts,
             \A i \in Jobs : i # j /\ lock = i =>
                lock' = lock /\ host'.reboot = host.reboot,
             lock' \in 0..MaxJobs, alone' \in BOOLEAN, quiet' \in BOOLEAN
      PROVE  BackendInv'
  <2>. DEFINE r == [NoJob EXCEPT !.phase = "ended"]
  <2>1. job' = [job EXCEPT ![j] = r]
    BY <1>4 DEF End
  <2>2. r \in JobRecords /\ r.phase = "ended"
    BY NewRecords
  <2>. HIDE DEF r
  <2>3. Sound(r, j, lock', host'.reboot)
    BY <2>2 DEF Sound, Locked
  <2>4. job' \in [Jobs -> JobRecords] /\ SoundInv'
    BY <1>4, <2>1, <2>2, <2>3, JobChanges
  <2>. QED  BY <1>0, <1>4, <2>4 DEF BackendInv, BackendTypeOK, JobRecords
<1>5. CASE PhaseFails(j)
  <2>1. /\ End(j) /\ UNCHANGED <<stored, row, alone, quiet>>
        /\ lock' = IF lock = j THEN 0 ELSE lock
        /\ host' \in Partly(Effects(job[j].phase))
    BY <1>5 DEF PhaseFails
  <2>2. host' \in Hosts /\ (job[j].phase \notin Locked => host'.reboot = host.reboot)
    BY <1>0, <2>1, EffectsOf
  <2>3. job[j].phase \in Locked => lock = j
    BY <1>0 DEF Sound
  <2>4. lock' \in 0..MaxJobs /\ alone' \in BOOLEAN /\ quiet' \in BOOLEAN
    <3>1. lock' = 0 \/ lock' = lock
      BY <2>1
    <3>2. alone' \in BOOLEAN /\ quiet' \in BOOLEAN
      BY <1>0, <2>1 DEF BackendTypeOK
    <3>. QED  BY <1>9, <3>1, <3>2
  <2>5. \A i \in Jobs : i # j /\ lock = i => lock' = lock /\ host'.reboot = host.reboot
    BY <2>1, <2>2, <2>3
  <2>6. stored' = stored /\ row' \in Hosts
    BY <1>0, <2>1
  <2>. QED  BY <1>4, <2>1, <2>2, <2>4, <2>5, <2>6
<1>6. CASE Store(j)
  <2>1. /\ End(j) /\ UNCHANGED <<host, stored, lock, alone>> /\ quiet' \in BOOLEAN
        /\ row' = IF Exists /\ job[j].action \in Snapshots THEN job[j].seen ELSE row
    BY <1>0, <1>6 DEF Store, BackendTypeOK
  <2>2. row' \in Hosts
    BY <1>0, <2>1 DEF JobRecords
  <2>. QED  BY <1>0, <1>4, <2>1, <2>2 DEF BackendTypeOK
<1>. QED  BY <1>1, <1>2, <1>3, <1>5, <1>6 DEF JobStep

\* A new job, and a host that comes or goes.
LEMMA OthersSound ==
    ASSUME BackendInv, (\E a \in Actions : Dispatched(a)) \/ HostEdit
    PROVE  BackendInv'
<1>1. ASSUME NEW a \in Actions, Dispatched(a) PROVE BackendInv'
  <2>. DEFINE n == Cardinality(Created) + 1
              r == [NoJob EXCEPT !.action = a, !.phase = "queued"]
  <2>1. job' = [job EXCEPT ![n] = r] /\ UNCHANGED <<host, stored, row, lock, alone, quiet>>
    BY <1>1 DEF Dispatched, Create
  <2>2. r \in JobRecords /\ r.phase = "queued" /\ r.action = a
    BY NewRecords
  <2>3. Sound(r, n, lock', host'.reboot)
    BY <2>2 DEF Sound, Locked
  <2>. HIDE DEF r, n
  <2>4. job' \in [Jobs -> JobRecords] /\ SoundInv'
    BY <2>1, <2>2, <2>3, JobChanges
  <2>. QED  BY <2>1, <2>4 DEF BackendInv, BackendTypeOK, JobRecords
<1>2. CASE HostEdit
  BY <1>2 DEF HostEdit, AddHost, DeleteHost, BackendInv, BackendTypeOK, SoundInv
<1>. QED  BY <1>1, <1>2

-----------------------------------------------------------------------------
(* Jobs that are alone.                                                    *)

QuietInv == AloneInv /\ SeenInv /\ QuietStatusIsTrue

\* No step of a job lets another one in beside it but a claim, which is
\* remembered.
LEMMA JobStepQuiet ==
    ASSUME BackendInv, BackendInv', QuietInv, NEW j \in Jobs, JobStep(j)
    PROVE  QuietInv'
<1>0. /\ AloneInv /\ SeenInv /\ QuietStatusIsTrue
      /\ job[j] \in JobRecords /\ job \in [Jobs -> JobRecords]
      /\ host \in Hosts /\ row \in Hosts
      /\ stored \in {"not yet", "yes", "deleted"} /\ quiet \in BOOLEAN /\ alone \in BOOLEAN
      /\ Sound(job[j], j, lock, host.reboot)
  BY DEF QuietInv, BackendInv, BackendTypeOK, SoundInv, JobRecords
<1>1. CASE Claim(j)
  <2>. DEFINE p == IF job[j].action \in Locked THEN "wait" ELSE "facts"
  <2>1. /\ job' = [job EXCEPT ![j].phase = p]
        /\ UNCHANGED <<host, stored, row, lock>>
        /\ alone' = (Active = {}) /\ quiet' = FALSE /\ stored = "yes"
    BY <1>1 DEF Claim, Goto, Exists
  <2>2. /\ job'[j].phase \in {"wait", "facts"}
        /\ \A i \in Jobs : i # j => job'[i] = job[i]
    BY <1>0, <2>1 DEF JobRecords
  <2>3. Active' = Active \cup {j}
    BY <2>2 DEF Active
  <2>4. AloneInv'
    BY <2>1, <2>3 DEF AloneInv
  <2>5. SeenInv'
    <3>1. ASSUME alone', NEW i \in Active' PROVE Truthful(job'[i], host')
      <4>1. i = j
        BY <2>1, <2>3, <3>1
      <4>. QED  BY <2>2, <4>1 DEF Truthful
    <3>. QED  BY <3>1 DEF SeenInv
  <2>. QED  BY <2>1, <2>4, <2>5 DEF QuietInv, QuietStatusIsTrue
<1>2. ASSUME j \in Active, UNCHANGED <<stored, alone>>,
             \A i \in Jobs : i # j => job'[i] = job[i],
             j \in Active' /\ alone => Truthful(job'[j], host'),
             quiet' => j \notin Active' /\ alone,
             quiet' /\ Exists => row'.updates = host'.updates /\ row'.reboot = host'.reboot
      PROVE  QuietInv'
  <2>1. Active' \subseteq Active /\ (j \notin Active' => Active' = Active \ {j})
    BY <1>2 DEF Active
  <2>2. Exists' = Exists /\ stored # "not yet"
    BY <1>0, <1>2 DEF Exists, AloneInv
  <2>3. alone => Active = {j}
    BY <1>0, <1>2 DEF AloneInv
  <2>4. AloneInv'
    BY <1>0, <1>2, <2>1, <2>2, <2>3 DEF AloneInv
  <2>5. SeenInv'
    <3>1. ASSUME alone', NEW i \in Active' PROVE Truthful(job'[i], host')
      <4>1. i = j /\ alone
        BY <1>2, <2>1, <2>3, <3>1
      <4>. QED  BY <1>2, <2>2, <3>1, <4>1
    <3>. QED  BY <3>1 DEF SeenInv
  <2>. QED  BY <1>2, <2>2, <2>4, <2>5 DEF QuietInv, QuietStatusIsTrue
<1>3. j \in Active => /\ ~quiet
                      /\ alone => Truthful(job[j], host)
  BY <1>0 DEF AloneInv, SeenInv
<1>4. CASE EnterLock(j)
  <2>1. /\ job[j].phase = "wait" /\ job' = [job EXCEPT ![j].phase = job[j].action]
        /\ UNCHANGED <<host, stored, row, alone, quiet>>
    BY <1>4 DEF EnterLock, Goto
  <2>2. /\ job'[j].phase \in Locked
        /\ \A i \in Jobs : i # j => job'[i] = job[i]
    BY <1>0, <2>1 DEF JobRecords, Sound
  <2>3. j \in Active
    BY <2>1 DEF Active
  <2>4. Truthful(job'[j], host')
    BY <2>2 DEF Truthful, Locked
  <2>. QED  BY <1>2, <1>3, <2>1, <2>2, <2>3, <2>4
<1>5. CASE PhaseDone(j)
  <2>1. /\ Running(j) /\ UNCHANGED <<stored, row, alone, quiet>>
        /\ host' \in Effects(job[j].phase)
    BY <1>5 DEF PhaseDone
  <2>2. job[j].phase \in {"facts", "list", "stat"} => host' = host
    BY <1>0, <2>1, EffectsOf
  <2>3. /\ job' = [job EXCEPT ![j] = New(j)]
        /\ New(j).phase = Following(j)
        /\ New(j).action = job[j].action
        /\ New(j).seen.updates = IF job[j].phase = "list" THEN host.updates
                                 ELSE job[j].seen.updates
        /\ New(j).seen.reboot = IF job[j].phase = "stat" THEN host.reboot
                                ELSE job[j].seen.reboot
    BY <1>5, NewFields
  <2>4. job'[j] = New(j) /\ \A i \in Jobs : i # j => job'[i] = job[i]
    BY <1>0, <2>3
  <2>5. j \in Active
    BY <2>1 DEF Active, Running
  <2>6. alone => Truthful(New(j), host')
    <3>1. CASE job[j].phase = "list"
      <4>1. Following(j) = "stat" /\ host' = host
        BY <2>1, <2>2, <3>1, FollowingPhases
      <4>. QED  BY <2>3, <3>1, <4>1 DEF Truthful
    <3>2. CASE job[j].phase = "stat"
      <4>1. Following(j) = "store" /\ host' = host
        BY <2>1, <2>2, <3>2, FollowingPhases
      <4>. QED  BY <1>3, <2>3, <2>5, <3>2, <4>1 DEF Truthful
    <3>3. CASE job[j].phase \in {"reboot", "custom_task"}
      <4>1. job[j].action \notin Snapshots
        BY <1>0, <3>3 DEF Sound, Locked, Snapshots
      <4>. QED  BY <2>3, <4>1 DEF Truthful
    <3>4. CASE job[j].phase \in {"update", "facts", "cache"}
      <4>1. Following(j) \in {"facts", "list", "cache"}
        BY <2>1, <3>4, FollowingPhases
      <4>. QED  BY <2>3, <4>1 DEF Truthful
    <3>. QED  BY <2>1, <3>1, <3>2, <3>3, <3>4 DEF Running
  <2>. QED  BY <1>2, <1>3, <2>1, <2>4, <2>5, <2>6
<1>6. ASSUME End(j) PROVE /\ j \notin Active'
                          /\ \A i \in Jobs : i # j => job'[i] = job[i]
  <2>1. job'[j].phase = "ended"
    BY <1>0, <1>6, NewRecords DEF End
  <2>2. \A i \in Jobs : i # j => job'[i] = job[i]
    BY <1>0, <1>6 DEF End
  <2>. QED  BY <2>1, <2>2 DEF Active
<1>7. CASE PhaseFails(j)
  <2>1. End(j) /\ Running(j) /\ UNCHANGED <<stored, row, alone, quiet>>
    BY <1>7 DEF PhaseFails
  <2>2. j \in Active
    BY <2>1 DEF Active, Running
  <2>. QED  BY <1>2, <1>3, <1>6, <2>1, <2>2
<1>8. CASE Store(j)
  <2>1. /\ End(j) /\ UNCHANGED <<host, stored, lock, alone>>
        /\ job[j].phase = "store"
        /\ row' = IF Exists /\ job[j].action \in Snapshots THEN job[j].seen ELSE row
        /\ quiet' = (alone /\ job[j].action \in Snapshots)
    BY <1>8 DEF Store
  <2>2. j \in Active
    BY <2>1 DEF Active
  <2>3. quiet' /\ Exists => row'.updates = host'.updates /\ row'.reboot = host'.reboot
    BY <1>3, <2>1, <2>2 DEF Truthful
  <2>. QED  BY <1>2, <1>6, <2>1, <2>2, <2>3
<1>. QED  BY <1>1, <1>4, <1>5, <1>7, <1>8 DEF JobStep

LEMMA OthersQuiet ==
    ASSUME BackendInv, QuietInv, (\E a \in Actions : Dispatched(a)) \/ HostEdit
    PROVE  QuietInv'
<1>0. /\ AloneInv /\ SeenInv /\ QuietStatusIsTrue
      /\ job \in [Jobs -> JobRecords]
  BY DEF QuietInv, BackendInv, BackendTypeOK, JobRecords
<1>1. ASSUME NEW a \in Actions, Dispatched(a) PROVE QuietInv'
  <2>. DEFINE n == Cardinality(Created) + 1
              r == [NoJob EXCEPT !.action = a, !.phase = "queued"]
  <2>1. job' = [job EXCEPT ![n] = r] /\ UNCHANGED <<host, stored, row, lock, alone, quiet>>
    BY <1>1 DEF Dispatched, Create
  <2>2. r.phase = "queued"
    BY NewRecords
  <2>. HIDE DEF n, r
  <2>3. Active' = Active \ {n} /\ \A i \in Active' : job'[i] = job[i]
    BY <1>0, <2>1, <2>2 DEF Active
  <2>. QED  BY <1>0, <2>1, <2>3
       DEF QuietInv, AloneInv, SeenInv, QuietStatusIsTrue, Exists
<1>2. CASE HostEdit
  <2>1. /\ UNCHANGED <<host, row, job, lock, alone, quiet>> /\ Active' = Active
        /\ stored' # "not yet"
        /\ stored = "not yet" \/ ~Exists'
    BY <1>2 DEF HostEdit, AddHost, DeleteHost, Exists, Active
  <2>2. AloneInv'
    BY <1>0, <2>1 DEF AloneInv
  <2>3. CASE stored = "not yet"
    <3>1. Active = {} /\ ~quiet
      BY <1>0, <2>3 DEF AloneInv
    <3>. QED  BY <2>1, <2>2, <3>1 DEF QuietInv, SeenInv, QuietStatusIsTrue
  <2>4. CASE ~Exists'
    <3>1. SeenInv'
      BY <1>0, <2>1, <2>4 DEF SeenInv, Truthful
    <3>. QED  BY <2>2, <2>4, <3>1 DEF QuietInv, QuietStatusIsTrue
  <2>. QED  BY <2>1, <2>3, <2>4
<1>. QED  BY <1>1, <1>2

-----------------------------------------------------------------------------
(* The backend keeps its invariants whatever the integration does.         *)

\* A step of the integration leaves the backend alone or asks it for a job.
LEMMA BackendSteps ==
    ASSUME Next \/ UNCHANGED vars
    PROVE  \/ UNCHANGED backend
           \/ (\E a \in Actions : Dispatched(a)) \/ HostEdit
           \/ \E j \in Jobs : JobStep(j)
<1>1. CASE EntryStep
  BY <1>1 DEF EntryStep, SetUp, SetUpFails, Publish, SetUpDone, Poll, ServeHosts,
              FirstReply, Reply, RefreshFails, Unload, UnloadRefused,
              UnloadRaises, Unloaded, Restart
<1>2. CASE UserStep
  <2>1. CASE \E c \in Commands \cap Actions : Press(c)
    BY <2>1 DEF Press
  <2>2. CASE TrackerEnds \/ OpenFlow \/ Submit \/ CloseFlow
    BY <2>2 DEF TrackerEnds, OpenFlow, Submit, CloseFlow
  <2>3. CASE Confirmed
    <3>1. Dispatched("reboot") \/ UNCHANGED backend
      BY <2>3 DEF Confirmed
    <3>. QED  BY <3>1
  <2>4. CASE \E a \in Actions : OtherClient(a)
    BY <2>4 DEF OtherClient
  <2>. QED  BY <1>2, <2>1, <2>2, <2>3, <2>4 DEF UserStep
<1>3. CASE (BackendStep \/ HostEdit) /\ UNCHANGED integration
  BY <1>3 DEF BackendStep
<1>4. CASE UNCHANGED vars
  BY <1>4 DEF vars
<1>. QED  BY <1>1, <1>2, <1>3, <1>4 DEF Next

\* At the start there is no job.
LEMMA BackendStarts == Init => BackendInv /\ QuietInv
<1>. SUFFICES ASSUME Init PROVE BackendInv /\ QuietInv
  OBVIOUS
<1>1. /\ host \in Hosts /\ stored \in {"not yet", "yes"} /\ row = NoStatus
      /\ job = [j \in Jobs |-> NoJob] /\ lock = 0 /\ alone = FALSE /\ quiet = FALSE
  BY DEF Init, BackendInit
<1>2. NoStatus \in Hosts
  BY DEF NoStatus, Hosts
<1>3. NoJob \in JobRecords /\ NoJob.phase = "none" /\ NoJob.action = "none"
  BY <1>2 DEF NoJob, JobRecords
<1>4. job \in [Jobs -> JobRecords]
  BY <1>1, <1>3
<1>5. BackendTypeOK
  <2>1. lock \in 0..MaxJobs
    <3>1. 0 \in 0..MaxJobs
      OBVIOUS
    <3>2. lock = 0
      BY <1>1
    <3>. QED  BY <3>1, <3>2
  <2>2. stored \in {"not yet", "yes", "deleted"} /\ row \in Hosts
        /\ alone \in BOOLEAN /\ quiet \in BOOLEAN
    BY <1>1, <1>2
  <2>. QED  BY <1>1, <1>4, <2>1, <2>2 DEF BackendTypeOK, JobRecords
<1>6. SoundInv
  BY <1>1, <1>3 DEF SoundInv, Sound, Locked
<1>7. Active = {}
  BY <1>1, <1>3 DEF Active
<1>. QED  BY <1>1, <1>5, <1>6, <1>7
     DEF BackendInv, QuietInv, AloneInv, SeenInv, QuietStatusIsTrue

\* The types of the backend, and the order that the lock imposes.
THEOREM BackendHolds == Spec => []BackendInv
<1>1. Init => BackendInv
  BY BackendStarts
<1>2. BackendInv /\ [Next]_vars => BackendInv'
  <2>. SUFFICES ASSUME BackendInv, [Next]_vars PROVE BackendInv'
    OBVIOUS
  <2>1. CASE UNCHANGED backend
    BY <2>1 DEF backend, BackendInv, BackendTypeOK, SoundInv
  <2>2. CASE (\E a \in Actions : Dispatched(a)) \/ HostEdit
    BY <2>2, OthersSound
  <2>3. CASE \E j \in Jobs : JobStep(j)
    BY <2>3, JobStepSound
  <2>. QED  BY <2>1, <2>2, <2>3, BackendSteps
<1>. QED  BY <1>1, <1>2, PTL DEF Spec

\* An update reports what its own packages left of the reboot file: nothing
\* else changes that while the update holds the host's lock, from the
\* installation to the end of its check (async_execute, automation.py).
THEOREM UpdateReports == Spec => []UpdateReportsItself
<1>1. BackendInv => UpdateReportsItself
  BY DEF BackendInv, SoundInv, Sound, UpdateReportsItself
<1>. QED  BY <1>1, BackendHolds, PTL

\* A job that has been alone has looked at the host as it is.
THEOREM QuietHolds == Spec => []QuietInv
<1>1. Init => QuietInv
  BY BackendStarts
<1>2. BackendInv /\ BackendInv' /\ QuietInv /\ [Next]_vars => QuietInv'
  <2>. SUFFICES ASSUME BackendInv, BackendInv', QuietInv, [Next]_vars PROVE QuietInv'
    OBVIOUS
  <2>1. CASE UNCHANGED backend
    <3>1. UNCHANGED <<host, stored, row, job, lock, alone, quiet>>
      BY <2>1 DEF backend
    <3>2. Active' = Active /\ Exists' = Exists
      BY <3>1 DEF Active, Exists
    <3>. QED  BY <3>1, <3>2 DEF QuietInv, AloneInv, SeenInv, QuietStatusIsTrue
  <2>2. CASE (\E a \in Actions : Dispatched(a)) \/ HostEdit
    BY <2>2, OthersQuiet
  <2>3. CASE \E j \in Jobs : JobStep(j)
    BY <2>3, JobStepQuiet
  <2>. QED  BY <2>1, <2>2, <2>3, BackendSteps
<1>. QED  BY <1>1, <1>2, BackendHolds, PTL DEF Spec

\* Once a check or an update has succeeded alone, the stored status is the
\* host's until the next claim (async_update_status, hosts.py).
THEOREM QuietTrue == Spec => []QuietStatusIsTrue
<1>1. QuietInv => QuietStatusIsTrue
  BY DEF QuietInv
<1>. QED  BY <1>1, QuietHolds, PTL

-----------------------------------------------------------------------------
(* The integration's copy and its issue.                                   *)

CopyTypes ==
    /\ entry \in EntryStates
    /\ data \in Hosts \cup {NoData}
    /\ ok \in BOOLEAN
    /\ fetch \in {"idle", "sent", "read"}
    /\ answer \in Hosts \cup {NoData}
    /\ issue \in BOOLEAN /\ mine \in BOOLEAN /\ known \in BOOLEAN
    /\ flow \in {"none", "form", "starting", "orphaned"}
    /\ tracked \subseteq Commands

\* The listener decides on the data it is given (async_sync_reboot_issues).
LEMMA SyncDecides ==
    ASSUME NEW d \in Hosts \cup {NoData}, issue \in BOOLEAN, SyncIssues(d)
    PROVE  /\ issue' \in BOOLEAN /\ mine' \in BOOLEAN
           /\ (issue => mine) /\ issue' => mine' /\ Needed(d)
<1>1. Needed(d) \in BOOLEAN
  BY DEF Needed, Hosts
<1>. QED  BY <1>1 DEF SyncIssues

LEMMA CopyTyped ==
    ASSUME BackendInv, CopyTypes, [Next]_vars
    PROVE  CopyTypes'
<1>0. Snapshot \in Hosts \cup {NoData}
  BY DEF Snapshot, BackendInv, BackendTypeOK
<1>1. CASE SetUp
  BY <1>1 DEF SetUp, CopyTypes, EntryStates, shown, calls
<1>2. CASE Poll
  BY <1>2 DEF Poll, CopyTypes, shown, calls
<1>3. CASE ServeHosts
  BY <1>0, <1>3 DEF ServeHosts, CopyTypes, shown, calls
<1>4. CASE Reply
  <2>1. fetch' = "idle" /\ answer' = NoData /\ UNCHANGED <<entry, flow, tracked>>
    BY <1>4 DEF Reply, calls
  <2>2. CASE ~Listening
    BY <1>4, <2>1, <2>2 DEF Reply, CopyTypes
  <2>3. CASE Listening
    <3>1. /\ data' = answer /\ ok' = TRUE
          /\ SyncIssues(answer) /\ AddEntities(answer)
      BY <1>4, <2>3 DEF Reply
    <3>2. issue' \in BOOLEAN /\ mine' \in BOOLEAN
      BY <3>1, SyncDecides DEF CopyTypes
    <3>3. known' \in BOOLEAN
      BY <3>1 DEF AddEntities, CopyTypes
    <3>. QED  BY <2>1, <3>1, <3>2, <3>3 DEF CopyTypes
  <2>. QED  BY <2>2, <2>3
<1>5. CASE RefreshFails
  <2>1. /\ fetch' = "idle" /\ answer' = NoData
        /\ entry' = IF entry = "setup" THEN "unloaded" ELSE entry
        /\ ok' = FALSE /\ UNCHANGED <<data, known, flow, tracked>>
        /\ SyncIssues(data) \/ UNCHANGED <<issue, mine>>
    BY <1>5 DEF RefreshFails, calls
  <2>2. issue' \in BOOLEAN /\ mine' \in BOOLEAN
    BY <2>1, SyncDecides DEF CopyTypes
  <2>3. entry' \in EntryStates
    BY <2>1 DEF CopyTypes, EntryStates
  <2>. QED  BY <2>1, <2>2, <2>3 DEF CopyTypes
<1>6. CASE Unload
  BY <1>6 DEF Unload, CopyTypes, EntryStates, copy
<1>7. CASE Unloaded
  BY <1>7 DEF Unloaded, CopyTypes, EntryStates, calls
<1>8. ASSUME NEW c \in Commands \cap Actions, Press(c) PROVE CopyTypes'
  <2>1. /\ UNCHANGED <<entry, data, ok, fetch, answer, issue, mine, known, flow>>
        /\ tracked' = tracked \cup {c}
    BY <1>8 DEF Press, copy, shown
  <2>. QED  BY <2>1 DEF CopyTypes
<1>9. CASE TrackerEnds
  <2>1. /\ UNCHANGED <<entry, data, ok, fetch, answer, issue, mine, known, flow>>
        /\ tracked' \subseteq tracked
    BY <1>9 DEF TrackerEnds, copy, shown
  <2>. QED  BY <2>1 DEF CopyTypes
<1>10. CASE OpenFlow \/ Submit \/ CloseFlow
  BY <1>10 DEF OpenFlow, Submit, CloseFlow, CopyTypes, copy, shown
<1>11. CASE Confirmed
  <2>1. UNCHANGED <<entry, data, ok, fetch, answer, mine, known>>
    BY <1>11 DEF Confirmed, copy
  <2>2. flow' \in {"none", "form"} /\ (issue' = issue \/ issue' = FALSE)
    BY <1>11 DEF Confirmed
  <2>3. tracked' \subseteq tracked \cup {"reboot"}
    BY <1>11 DEF Confirmed
  <2>4. tracked' \subseteq Commands
    BY <2>3 DEF CopyTypes, Commands
  <2>5. /\ issue' \in BOOLEAN
        /\ flow' \in {"none", "form", "starting", "orphaned"}
    BY <2>2 DEF CopyTypes
  <2>6. /\ entry' \in EntryStates
        /\ data' \in Hosts \cup {NoData} /\ ok' \in BOOLEAN
        /\ fetch' \in {"idle", "sent", "read"} /\ answer' \in Hosts \cup {NoData}
        /\ mine' \in BOOLEAN /\ known' \in BOOLEAN
    BY <2>1 DEF CopyTypes
  <2>. QED  BY <2>4, <2>5, <2>6 DEF CopyTypes
<1>12. CASE UNCHANGED integration
  BY <1>12 DEF integration, copy, shown, calls, CopyTypes
<1>13. CASE FirstReply \/ SetUpFails
  BY <1>13 DEF FirstReply, SetUpFails, CopyTypes, EntryStates, shown, calls
<1>14. CASE Publish
  <2>1. /\ entry' = "forwarding" /\ SyncIssues(data)
        /\ UNCHANGED <<data, ok, fetch, answer, known, flow, tracked>>
    BY <1>14 DEF Publish, copy, calls
  <2>2. issue' \in BOOLEAN /\ mine' \in BOOLEAN
    BY <2>1, SyncDecides DEF CopyTypes
  <2>. QED  BY <2>1, <2>2 DEF CopyTypes, EntryStates
<1>15. CASE SetUpDone
  <2>1. /\ entry' = "loaded" /\ AddEntities(data)
        /\ UNCHANGED <<data, ok, fetch, answer, issue, mine, flow, tracked>>
    BY <1>15 DEF SetUpDone, copy, calls
  <2>2. known' \in BOOLEAN
    BY <2>1 DEF AddEntities, CopyTypes
  <2>. QED  BY <2>1, <2>2 DEF CopyTypes, EntryStates
<1>16. CASE UnloadRefused \/ UnloadRaises
  BY <1>16 DEF UnloadRefused, UnloadRaises, CopyTypes, EntryStates, copy, shown, calls
<1>17. CASE Restart
  BY <1>17 DEF Restart, CopyTypes, EntryStates
<1>. QED  BY <1>1, <1>2, <1>3, <1>4, <1>5, <1>6, <1>7, <1>8, <1>9, <1>10, <1>11, <1>12,
             <1>13, <1>14, <1>15, <1>16, <1>17
     DEF Next, EntryStep, UserStep, OtherClient, vars

\* The types of the integration.
THEOREM CopyHolds == Spec => []CopyTypes
<1>1. Init => CopyTypes
  BY DEF Init, CopyTypes, EntryStates
<1>2. BackendInv /\ CopyTypes /\ [Next]_vars => CopyTypes'
  BY CopyTyped
<1>. QED  BY <1>1, <1>2, BackendHolds, PTL DEF Spec

\* Every variable keeps its type, whatever order jobs, refreshes, unloads and
\* repair flows come in.
THEOREM RepairTypes == Spec => []TypeOK
<1>1. BackendInv /\ CopyTypes => TypeOK
  BY DEF BackendInv, CopyTypes, EntryStates, TypeOK
<1>. QED  BY <1>1, BackendHolds, CopyHolds, PTL

-----------------------------------------------------------------------------
(* The issue.                                                              *)

\* One step; that a failing refresh finds its listener is why CopyInv is needed.
LEMMA HintStep ==
    ASSUME CopyTypes, HintIsBacked, CopyInv, [Next]_vars
    PROVE  HintIsBacked' /\ CopyInv'
<1>1. CASE SetUp
  BY <1>1 DEF SetUp, HintIsBacked, CopyInv, Listening, shown
<1>2. CASE Poll \/ ServeHosts
  <2>1. UNCHANGED <<entry, data, ok, issue, mine>>
    BY <1>2 DEF Poll, ServeHosts, shown
  <2>2. entry # "registering"
    BY <1>2 DEF Poll, ServeHosts, CopyInv, Listening
  <2>. QED  BY <2>1, <2>2 DEF HintIsBacked, CopyInv, Listening, Needed
<1>3. CASE FirstReply \/ SetUpFails
  BY <1>3 DEF FirstReply, SetUpFails, HintIsBacked, CopyInv, Listening, shown
<1>4. CASE Reply
  <2>1. UNCHANGED entry /\ fetch' = "idle"
    BY <1>4 DEF Reply
  <2>2. CASE ~Listening
    BY <1>4, <2>1, <2>2 DEF Reply, HintIsBacked, CopyInv, Listening
  <2>3. CASE Listening
    <3>1. data' = answer /\ SyncIssues(answer)
      BY <1>4, <2>3 DEF Reply
    <3>2. issue' => mine' /\ Needed(answer)
      BY <3>1, SyncDecides DEF CopyTypes, HintIsBacked
    <3>. QED  BY <2>1, <2>3, <3>1, <3>2 DEF HintIsBacked, CopyInv, Listening, Needed
  <2>. QED  BY <2>2, <2>3
<1>5. CASE Publish
  <2>1. /\ entry' = "forwarding" /\ SyncIssues(data)
        /\ UNCHANGED <<data, ok, fetch>>
    BY <1>5 DEF Publish, copy
  <2>2. issue' => mine' /\ Needed(data)
    BY <2>1, SyncDecides DEF CopyTypes, HintIsBacked
  <2>. QED  BY <2>1, <2>2 DEF HintIsBacked, CopyInv, Listening, Needed
<1>6. CASE SetUpDone
  BY <1>6 DEF SetUpDone, HintIsBacked, CopyInv, Listening, Needed, copy
<1>7. CASE RefreshFails
  <2>1. /\ entry' = IF entry = "setup" THEN "unloaded" ELSE entry
        /\ ok' = FALSE /\ data' = data /\ fetch' = "idle"
        /\ fetch # "idle"
        /\ IF ok THEN SyncIssues(data) ELSE UNCHANGED <<issue, mine>>
    BY <1>7 DEF RefreshFails
  <2>2. CASE ok
    <3>1. Listening /\ Listening'
      BY <2>1, <2>2 DEF CopyInv, Listening
    <3>2. issue' => mine' /\ Needed(data)
      BY <2>1, <2>2, SyncDecides DEF CopyTypes, HintIsBacked
    <3>. QED  BY <2>1, <3>1, <3>2 DEF HintIsBacked, CopyInv, Needed
  <2>3. CASE ~ok
    BY <2>1, <2>3 DEF HintIsBacked, CopyInv, Listening, Needed
  <2>. QED  BY <2>2, <2>3
<1>8. CASE Unload \/ UnloadRefused \/ UnloadRaises
  <2>1. /\ entry \in {"loaded", "unloading"} /\ entry' \in {"unloading", "failed"}
        /\ UNCHANGED <<data, ok, fetch, issue, mine>>
    BY <1>8 DEF Unload, UnloadRefused, UnloadRaises, copy, shown
  <2>. QED  BY <2>1 DEF HintIsBacked, CopyInv, Listening, Needed
<1>9. CASE Unloaded \/ Restart
  BY <1>9 DEF Unloaded, Restart, HintIsBacked, CopyInv
<1>10. ASSUME NEW c \in Commands \cap Actions, Press(c) PROVE HintIsBacked' /\ CopyInv'
  BY <1>10 DEF Press, HintIsBacked, CopyInv, Listening, Needed, copy, shown
<1>11. CASE TrackerEnds \/ OpenFlow \/ Submit \/ CloseFlow
  BY <1>11 DEF TrackerEnds, OpenFlow, Submit, CloseFlow, HintIsBacked, CopyInv,
               Listening, Needed, copy, shown
<1>12. CASE Confirmed
  <2>1. UNCHANGED <<entry, data, ok, fetch, mine>> /\ (issue' = FALSE \/ issue' = issue)
    BY <1>12 DEF Confirmed, copy
  <2>. QED  BY <2>1 DEF HintIsBacked, CopyInv, Listening, Needed
<1>13. CASE UNCHANGED integration
  BY <1>13 DEF integration, copy, shown, HintIsBacked, CopyInv, Listening, Needed
<1>. QED  BY <1>1, <1>2, <1>3, <1>4, <1>5, <1>6, <1>7, <1>8, <1>9, <1>10, <1>11,
             <1>12, <1>13
     DEF Next, EntryStep, UserStep, OtherClient, vars

\* A repair issue always has its listener, its name in the runtime data and the
\* data that calls for it, in an entry whose unload was refused or raised too
\* (reboot.py, async_setup_entry, async_unload_entry).
THEOREM HintBacked == Spec => []HintIsBacked
<1>1. Init => HintIsBacked /\ CopyInv
  BY DEF Init, HintIsBacked, CopyInv
<1>2. CopyTypes /\ HintIsBacked /\ CopyInv /\ [Next]_vars => (HintIsBacked /\ CopyInv)'
  BY HintStep
<1>. QED  BY <1>1, <1>2, CopyHolds, PTL DEF Spec

=============================================================================
