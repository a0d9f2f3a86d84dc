------------------------- MODULE TaskManagerProofs -------------------------
(***************************************************************************)
(* Proofs about TaskManager, for any commands, sizes of batches, callers   *)
(* and number of runs.                                                     *)
(***************************************************************************)
EXTENDS TaskManager, SequenceTheorems, TLAPS

USE DEF Runs

-----------------------------------------------------------------------------
(* The inductive invariants.                                               *)

\* A call knows its command; the run it is answered with is that command's
\* and nobody else's, and has no tracker yet.
CallInv ==
    /\ \A c \in Callers : call[c].pc # "idle" => call[c].key \in Keys
    /\ \A c \in Callers :
        call[c].pc = "answered" =>
            /\ call[c].run \in 1..used
            /\ runKey[call[c].run] = call[c].key
            /\ tracker[call[c].run] = "none"
    /\ \A c, d \in Callers :
        call[c].pc = "answered" /\ call[d].pc = "answered" /\ c # d =>
            call[c].run # call[d].run

\* A run that exists has a command and all its jobs; only such runs are
\* tracked, a registered run is registered for its own command, and trackers
\* are cancelled only by an unload.
RunInv ==
    /\ \A r \in Runs : r <= used =>
        runKey[r] \in Keys /\ Len(jobs[r]) = Size[r]
    /\ \A r \in Runs : tracker[r] # "none" => r <= used
    /\ \A k \in Keys : tasks[k] # 0 => runKey[tasks[k]] = k
    /\ status = "loaded" => cancelled = {}

\* What a tracker has read of a batch is of as many jobs of it, and a success
\* it has read is still one; nothing has been read of a run to come.
ReadInv ==
    \A r \in Runs :
        /\ r > used => got[r] = <<>>
        /\ Len(got[r]) <= Len(jobs[r])
        /\ \A i \in 1..Len(got[r]) :
            got[r][i] = "success" => jobs[r][i] = "success"

Inv == TypeOK /\ CallInv /\ RunInv

-----------------------------------------------------------------------------
(* Helpers of the model.                                                   *)

Trackers == {"none", "sleep", "get", "refresh", "refreshFail", "ended", "gone"}

\* A batch reads as success exactly if all of its jobs do, and always as one
\* of the phases of a run (_batch_task).
LEMMA BatchReads ==
    ASSUME NEW ps
    PROVE  /\ BatchPhase(ps) \in RunPhases
           /\ BatchPhase(ps) = "success" <=>
                \A i \in DOMAIN ps : ps[i] = "success"
<1> DEFINE someFailed == \E i \in DOMAIN ps : ps[i] = "failed"
           allSucceeded == \A i \in DOMAIN ps : ps[i] = "success"
           someRuns == \E i \in DOMAIN ps : ps[i] = "running"
<1>1. CASE someFailed
  <2>1. ~allSucceeded
    BY <1>1
  <2>2. ~(\A i \in DOMAIN ps : ps[i] # "failed")
    BY <1>1
  <2>3. BatchPhase(ps) = "failed"
    BY <1>1, <2>1, <2>2 DEF BatchPhase
  <2>. QED  BY <2>1, <2>3 DEF RunPhases
<1>2. CASE ~someFailed /\ allSucceeded
  <2>1. ~someRuns
    BY <1>2
  <2>2. BatchPhase(ps) = "success"
    BY <1>2, <2>1 DEF BatchPhase
  <2>. QED  BY <1>2, <2>2 DEF RunPhases
<1>3. CASE ~someFailed /\ ~allSucceeded
  <2>1. BatchPhase(ps) \in {"running", "waiting"}
    BY <1>3 DEF BatchPhase
  <2>. QED  BY <1>3, <2>1 DEF RunPhases
<1>. QED  BY <1>1, <1>2, <1>3

\* What a notification leaves with the listeners is a truth value for every
\* command.
LEMMA NotifyTypes ==
    ASSUME NEW reg, NEW live, TypeOK, Notify(reg, live)
    PROVE  shown' \in [Keys -> BOOLEAN]
BY DEF Notify, Running, TypeOK

\* What a step of a tracker leaves alone, and what it may do to the rest: it
\* moves its own run, writes at most the state of its own command, and takes at
\* most its own entry out of the registry.
LEMMA TrackerFrame ==
    ASSUME Inv, NEW r \in Runs, TrackerStep(r)
    PROVE  /\ tracker[r] # "none"
           /\ tracker' = [tracker EXCEPT ![r] = tracker'[r]]
           /\ tracker'[r] \in Trackers \ {"none"}
           /\ UNCHANGED <<status, call, used, runKey, jobs, cancelled>>
           /\ \/ UNCHANGED tasks
              \/ tasks' = [tasks EXCEPT ![runKey[r]] = 0]
           /\ \/ UNCHANGED states
              \/ \E p \in RunPhases :
                    states' = [states EXCEPT ![runKey[r]] = [run |-> r, phase |-> p]]
           /\ got' \in [Runs -> Seq(RunPhases)]
           /\ shown' \in [Keys -> BOOLEAN]
<1>. DEFINE Goal == /\ tracker[r] # "none"
           /\ tracker' = [tracker EXCEPT ![r] = tracker'[r]]
           /\ tracker'[r] \in Trackers \ {"none"}
           /\ UNCHANGED <<status, call, used, runKey, jobs, cancelled>>
           /\ \/ UNCHANGED tasks
              \/ tasks' = [tasks EXCEPT ![runKey[r]] = 0]
           /\ \/ UNCHANGED states
              \/ \E p \in RunPhases :
                    states' = [states EXCEPT ![runKey[r]] = [run |-> r, phase |-> p]]
           /\ got' \in [Runs -> Seq(RunPhases)]
           /\ shown' \in [Keys -> BOOLEAN]
<1>. USE DEF Trackers
<1>0. TypeOK
  BY DEF Inv
<1>1. ASSUME Fail(r), tracker[r] # "none"
      PROVE  Goal
  <2>1. \/ UNCHANGED states
        \/ states' = [states EXCEPT ![runKey[r]] = [run |-> r, phase |-> "failed"]]
    <3>1. CASE states[runKey[r]].phase = "failed" /\ runKey[r] \in Keys
      <4>1. states' = states
        BY <1>0, <1>1, <3>1 DEF Fail, TypeOK
      <4>. QED  BY <4>1
    <3>2. CASE runKey[r] \notin Keys
      <4>1. states' = states
        BY <1>0, <1>1, <3>2 DEF Fail, TypeOK
      <4>. QED  BY <4>1
    <3>3. CASE states[runKey[r]].phase # "failed" /\ runKey[r] \in Keys
      BY <1>0, <1>1, <3>3 DEF Fail, TypeOK
    <3>. QED  BY <3>1, <3>2, <3>3
  <2>2. \/ UNCHANGED states
        \/ \E p \in RunPhases :
              states' = [states EXCEPT ![runKey[r]] = [run |-> r, phase |-> p]]
    BY <2>1 DEF RunPhases
  <2>3. got' \in [Runs -> Seq(RunPhases)]
    <3>1. <<>> \in Seq(RunPhases)
      BY EmptySeq
    <3>. QED  BY <1>0, <1>1, <3>1 DEF Fail, TypeOK
  <2>4. shown' \in [Keys -> BOOLEAN]
    BY <1>0, <1>1, NotifyTypes DEF Fail
  <2>5. /\ tracker' = [tracker EXCEPT ![r] = tracker'[r]]
        /\ tracker'[r] \in Trackers \ {"none"}
    BY <1>0, <1>1 DEF Fail, TypeOK
  <2>6. UNCHANGED <<status, call, used, runKey, jobs, cancelled, tasks>>
    BY <1>1 DEF Fail
  <2>. QED  BY <1>1, <2>2, <2>3, <2>4, <2>5, <2>6
<1>2. CASE Poll(r)
  BY <1>0, <1>2 DEF Poll, TypeOK
<1>3. CASE Timeout(r)
  BY <1>0, <1>1, <1>3 DEF Timeout, TypeOK
<1>4. CASE Fetch(r)
  <2>1. got' \in [Runs -> Seq(RunPhases)]
    <3>1. /\ got[r] \in Seq(RunPhases) /\ jobs[r] \in Seq(RunPhases)
          /\ Len(got[r]) < Len(jobs[r])
      BY <1>0, <1>4 DEF Fetch, TypeOK
    <3>2. Len(got[r]) \in Nat /\ Len(jobs[r]) \in Nat
      BY <3>1
    <3>3. jobs[r][Len(got[r]) + 1] \in RunPhases
      BY <3>1, <3>2, ElementOfSeq
    <3>4. Append(got[r], jobs[r][Len(got[r]) + 1]) \in Seq(RunPhases)
      BY <3>1, <3>3, AppendProperties
    <3>. QED  BY <1>0, <1>4, <3>4 DEF Fetch, TypeOK
  <2>. QED  BY <1>0, <1>4, <2>1 DEF Fetch, TypeOK
<1>5. CASE Observe(r)
  <2>1. BatchPhase(got[r]) \in RunPhases
    BY BatchReads
  <2>2. \E p \in RunPhases :
            states' = [states EXCEPT ![runKey[r]] = [run |-> r, phase |-> p]]
    BY <1>5, <2>1 DEF Observe
  <2>3. got' \in [Runs -> Seq(RunPhases)]
    <3>1. <<>> \in Seq(RunPhases)
      BY EmptySeq
    <3>. QED  BY <1>0, <1>5, <3>1 DEF Observe, TypeOK
  <2>4. shown' \in [Keys -> BOOLEAN]
    BY <1>0, <1>5, NotifyTypes DEF Observe
  <2>5. /\ tracker' = [tracker EXCEPT ![r] = tracker'[r]]
        /\ tracker'[r] \in Trackers \ {"none"}
        /\ tracker[r] # "none"
    <3>. DEFINE p == BatchPhase(got[r])
    <3>1. CASE p = "success"
      BY <1>0, <1>5, <3>1 DEF Observe, TypeOK
    <3>2. CASE p = "failed"
      BY <1>0, <1>5, <3>2 DEF Observe, TypeOK
    <3>3. CASE p \notin {"success", "failed"}
      BY <1>0, <1>5, <3>3 DEF Observe, TypeOK
    <3>. QED  BY <3>1, <3>2, <3>3
  <2>6. UNCHANGED <<status, call, used, runKey, jobs, cancelled, tasks>>
    BY <1>5 DEF Observe
  <2>. QED  BY <1>0, <2>2, <2>3, <2>4, <2>5, <2>6 DEF TypeOK
<1>6. CASE PollError(r)
  <2>1. tracker[r] = "get"
    BY <1>6 DEF PollError
  <2>2. CASE Fail(r)
    BY <1>1, <2>1, <2>2
  <2>3. CASE ~Fail(r)
    <3>1. <<>> \in Seq(RunPhases)
      BY EmptySeq
    <3>2. /\ tracker' = [tracker EXCEPT ![r] = "sleep"]
          /\ got' = [got EXCEPT ![r] = <<>>]
          /\ UNCHANGED <<status, call, used, runKey, jobs, tasks, states,
                         cancelled, shown>>
      BY <1>6, <2>3 DEF PollError
    <3>3. got' \in [Runs -> Seq(RunPhases)]
      BY <1>0, <3>1, <3>2 DEF TypeOK
    <3>. QED  BY <1>0, <2>1, <3>2, <3>3 DEF TypeOK
  <2>. QED  BY <2>2, <2>3
<1>7. CASE CallbackReturns(r)
  <2>1. CASE tracker[r] = "refreshFail" /\ Fail(r)
    BY <1>1, <2>1
  <2>2. CASE ~(tracker[r] = "refreshFail" /\ Fail(r))
    <3>1. /\ tracker[r] = "refresh"
          /\ tracker' = [tracker EXCEPT ![r] = "ended"]
          /\ Notify(tasks, Live)
          /\ UNCHANGED <<status, call, used, runKey, jobs, got, tasks,
                         states, cancelled>>
      BY <1>7, <2>2 DEF CallbackReturns
    <3>2. shown' \in [Keys -> BOOLEAN]
      BY <1>0, <3>1, NotifyTypes
    <3>. QED  BY <1>0, <3>1, <3>2 DEF TypeOK
  <2>. QED  BY <2>1, <2>2
<1>8. CASE Cancelled(r)
  <2>1. <<>> \in Seq(RunPhases)
    BY EmptySeq
  <2>2. shown' \in [Keys -> BOOLEAN]
    BY <1>0, <1>8, NotifyTypes DEF Cancelled
  <2>. QED  BY <1>0, <1>8, <2>1, <2>2 DEF Cancelled, TypeOK, Live
<1>9. CASE TrackerDone(r)
  <2>1. shown' \in [Keys -> BOOLEAN]
    <3>1. CASE tasks[runKey[r]] = r
      <4>1. Notify(tasks', Live)
        BY <1>9, <3>1 DEF TrackerDone
      <4>. QED  BY <1>0, <4>1, NotifyTypes
    <3>2. CASE tasks[runKey[r]] # r
      BY <1>0, <1>9, <3>2 DEF TrackerDone, TypeOK
    <3>. QED  BY <3>1, <3>2
  <2>2. \/ UNCHANGED tasks
        \/ tasks' = [tasks EXCEPT ![runKey[r]] = 0]
    BY <1>9 DEF TrackerDone
  <2>. QED  BY <1>0, <1>9, <2>1, <2>2 DEF TrackerDone, TypeOK
<1>. QED
  BY <1>2, <1>3, <1>4, <1>5, <1>6, <1>7, <1>8, <1>9 DEF TrackerStep

\* A step of a tracker preserves the types and the shape of calls and runs.
LEMMA TrackerKeeps ==
    ASSUME Inv, NEW r \in Runs, TrackerStep(r)
    PROVE  Inv'
<1>. USE TaskAssumption DEF TaskAssumption
<1>1. TypeOK /\ CallInv /\ RunInv
  BY DEF Inv
<1>2. /\ tracker[r] # "none"
      /\ tracker' = [tracker EXCEPT ![r] = tracker'[r]]
      /\ tracker'[r] \in Trackers \ {"none"}
      /\ UNCHANGED <<status, call, used, runKey, jobs, cancelled>>
  BY TrackerFrame
<1>3. \/ UNCHANGED tasks
      \/ tasks' = [tasks EXCEPT ![runKey[r]] = 0]
  BY TrackerFrame
<1>4. used \in Nat /\ r \in 1..used /\ runKey[r] \in Keys
  BY <1>1, <1>2 DEF TypeOK, RunInv
<1>5. TypeOK'
  <2>1. states' \in [Keys -> [run : 0..used, phase : RunPhases \cup {"none"}]]
    <3>1. CASE UNCHANGED states
      BY <1>1, <3>1 DEF TypeOK
    <3>2. ASSUME NEW p \in RunPhases,
                 states' = [states EXCEPT ![runKey[r]] = [run |-> r, phase |-> p]]
          PROVE  states' \in [Keys -> [run : 0..used, phase : RunPhases \cup {"none"}]]
      BY <1>1, <1>4, <3>2 DEF TypeOK
    <3>. QED  BY <3>1, <3>2, TrackerFrame
  <2>2. tasks' \in [Keys -> 0..used]
    <3>1. tasks \in [Keys -> 0..used] /\ 0 \in 0..used
      BY <1>1, <1>4 DEF TypeOK
    <3>. QED  BY <1>3, <3>1
  <2>3. tracker' \in [Runs -> {"none", "sleep", "get", "refresh", "refreshFail",
                               "ended", "gone"}]
    BY <1>1, <1>2 DEF TypeOK, Trackers
  <2>4. /\ got' \in [Runs -> Seq(RunPhases)]
        /\ shown' \in [Keys -> BOOLEAN]
    BY TrackerFrame
  <2>5. UNCHANGED <<status, call, used, runKey, jobs, cancelled>>
    BY <1>2
  <2>. QED  BY <1>1, <2>1, <2>2, <2>3, <2>4, <2>5 DEF TypeOK
<1>6. CallInv'
  <2>1. \A c \in Callers :
            call[c].pc = "answered" => tracker'[call[c].run] = "none"
    <3>. SUFFICES ASSUME NEW c \in Callers, call[c].pc = "answered"
                  PROVE  tracker'[call[c].run] = "none"
      OBVIOUS
    <3>1. tracker[call[c].run] = "none" /\ call[c].run \in 1..used
      BY <1>1 DEF CallInv
    <3>2. call[c].run # r
      BY <1>2, <3>1
    <3>3. call[c].run \in DOMAIN tracker
      BY <1>1, <3>1 DEF TypeOK, Runs
    <3>. HIDE DEF Runs
    <3>4. \A x \in DOMAIN tracker : x # r => tracker'[x] = tracker[x]
      BY <1>2
    <3>. QED  BY <3>1, <3>2, <3>3, <3>4
  <2>. QED  BY <1>1, <1>2, <2>1 DEF CallInv
<1>7. RunInv'
  <2>1. \A s \in Runs : tracker'[s] # "none" => s <= used
    BY <1>1, <1>2, <1>4 DEF RunInv, TypeOK
  <2>2. \A k \in Keys : tasks'[k] # 0 => runKey[tasks'[k]] = k
    BY <1>1, <1>3 DEF RunInv, TypeOK
  <2>. QED  BY <1>1, <1>2, <2>1, <2>2 DEF RunInv
<1>. QED  BY <1>5, <1>6, <1>7 DEF Inv

-----------------------------------------------------------------------------
(* Types, calls and runs.                                                  *)

\* The steps of the calls and of the entry, and those of the jobs, keep the
\* types and the shape of calls and runs.
LEMMA PressKeeps ==
    ASSUME Inv, NEW c \in Callers, NEW k \in Keys, Press(c, k)
    PROVE  Inv'
<1>1. TypeOK /\ CallInv /\ RunInv
  BY DEF Inv
<1>2. /\ call' = [call EXCEPT ![c] = [pc |-> "sent", key |-> k, run |-> 0]]
      /\ UNCHANGED <<status, used, runKey, jobs, tracker, got, tasks,
                     states, cancelled, shown>>
  BY DEF Press
<1>3. TypeOK'
  <2>1. [pc |-> "sent", key |-> k, run |-> 0] \in
            [pc : {"idle", "sent", "answered"}, key : Keys \cup {0}, run : 0..MaxRuns]
    BY TaskAssumption DEF TaskAssumption
  <2>2. call' \in [Callers -> [pc : {"idle", "sent", "answered"},
                               key : Keys \cup {0}, run : 0..MaxRuns]]
    BY <1>1, <1>2, <2>1 DEF TypeOK
  <2>3. UNCHANGED <<status, used, runKey, jobs, tracker, got, tasks,
                    states, cancelled, shown>>
    BY <1>2
  <2>. QED  BY <1>1, <2>2, <2>3 DEF TypeOK
<1>4. CallInv'
  <2>1. /\ call'[c] = [pc |-> "sent", key |-> k, run |-> 0]
        /\ \A d \in Callers : d # c => call'[d] = call[d]
    BY <1>1, <1>2 DEF TypeOK
  <2>. QED  BY <1>1, <1>2, <2>1 DEF CallInv
<1>. QED  BY <1>1, <1>2, <1>3, <1>4 DEF Inv, RunInv

LEMMA CallFailsKeeps ==
    ASSUME Inv, NEW c \in Callers, CallFails(c)
    PROVE  Inv'
<1>1. TypeOK /\ CallInv /\ RunInv
  BY DEF Inv
<1>2. /\ call' = [call EXCEPT ![c] = NoCall]
      /\ UNCHANGED <<status, used, runKey, jobs, tracker, got, tasks,
                     states, cancelled, shown>>
  BY DEF CallFails
<1>3. TypeOK'
  <2>1. NoCall \in
            [pc : {"idle", "sent", "answered"}, key : Keys \cup {0}, run : 0..MaxRuns]
    BY TaskAssumption DEF TaskAssumption, NoCall
  <2>2. call' \in [Callers -> [pc : {"idle", "sent", "answered"},
                               key : Keys \cup {0}, run : 0..MaxRuns]]
    BY <1>1, <1>2, <2>1 DEF TypeOK
  <2>3. UNCHANGED <<status, used, runKey, jobs, tracker, got, tasks,
                    states, cancelled, shown>>
    BY <1>2
  <2>. QED  BY <1>1, <2>2, <2>3 DEF TypeOK
<1>4. CallInv'
  <2>1. /\ call'[c].pc = "idle"
        /\ \A d \in Callers : d # c => call'[d] = call[d]
    BY <1>1, <1>2 DEF TypeOK, NoCall
  <2>. QED  BY <1>1, <1>2, <2>1 DEF CallInv
<1>. QED  BY <1>1, <1>2, <1>3, <1>4 DEF Inv, RunInv

\* The new run is one that no call, tracker, registry entry or state can name.
LEMMA AcceptKeeps ==
    ASSUME Inv, NEW c \in Callers, Accept(c)
    PROVE  Inv'
<1>. USE TaskAssumption DEF TaskAssumption
<1>. DEFINE r == used + 1
            k == call[c].key
            js == [i \in 1..Size[r] |-> "waiting"]
<1>1. TypeOK /\ CallInv /\ RunInv
  BY DEF Inv
<1>2. /\ used \in 0..MaxRuns /\ r \in Runs /\ r \in 1..r /\ MaxRuns \in Nat
      /\ k \in Keys /\ Size[r] \in Nat
  BY <1>1 DEF Accept, TypeOK, CallInv
<1>3. /\ used' = r
      /\ runKey' = [runKey EXCEPT ![r] = k]
      /\ jobs' = [jobs EXCEPT ![r] = js]
      /\ call' = [call EXCEPT ![c].pc = "answered", ![c].run = r]
      /\ UNCHANGED <<status, tracker, got, tasks, states, cancelled, shown>>
  BY DEF Accept
<1>4. js \in Seq(RunPhases) /\ Len(js) = Size[r]
  BY <1>2 DEF RunPhases
<1>. HIDE DEF js
<1>5. call'[c] = [pc |-> "answered", key |-> k, run |-> r]
  <2>1. /\ call \in [Callers -> [pc : {"idle", "sent", "answered"},
                                  key : Keys \cup {0}, run : 0..MaxRuns]]
    BY <1>1 DEF TypeOK
  <2>2. call[c] = [pc |-> call[c].pc, key |-> k, run |-> call[c].run]
    BY <2>1
  <2>3. call'[c] = [call[c] EXCEPT !.pc = "answered", !.run = r]
    BY <1>3, <2>1
  <2>. QED  BY <2>2, <2>3
<1>6. \A d \in Callers : d # c => call'[d] = call[d]
  <2>1. call \in [Callers -> [pc : {"idle", "sent", "answered"},
                               key : Keys \cup {0}, run : 0..MaxRuns]]
    BY <1>1 DEF TypeOK
  <2>2. call' = [call EXCEPT ![c].pc = "answered", ![c].run = r]
    BY <1>3
  <2>. QED  BY <2>1, <2>2
<1>7. TypeOK'
  <2>1. call' \in [Callers -> [pc : {"idle", "sent", "answered"},
                               key : Keys \cup {0}, run : 0..MaxRuns]]
    <3>1. call' = [d \in Callers |-> call'[d]]
      BY <1>1, <1>3 DEF TypeOK
    <3>2. r \in 0..MaxRuns
      BY <1>2
    <3>. DEFINE calls == [pc : {"idle", "sent", "answered"},
                          key : Keys \cup {0}, run : 0..MaxRuns]
    <3>3. call'[c] \in calls
      BY <1>2, <1>5, <3>2
    <3>4. \A d \in Callers : d # c => call'[d] \in calls
      BY <1>1, <1>6 DEF TypeOK
    <3>. HIDE DEF calls
    <3>5. \A d \in Callers : call'[d] \in calls
      BY <3>3, <3>4
    <3>6. call' \in [Callers -> calls]
      BY <3>1, <3>5
    <3>. QED  BY <3>6 DEF calls
  <2>2. jobs' \in [Runs -> Seq(RunPhases)] /\ runKey' \in [Runs -> Keys \cup {0}]
    BY <1>1, <1>2, <1>3, <1>4 DEF TypeOK
  <2>3. /\ tasks \in [Keys -> 0..r]
        /\ states \in [Keys -> [run : 0..r, phase : RunPhases \cup {"none"}]]
    <3>1. 0..used \subseteq 0..r
      BY <1>2
    <3>2. /\ tasks \in [Keys -> 0..used]
          /\ states \in [Keys -> [run : 0..used, phase : RunPhases \cup {"none"}]]
      BY <1>1 DEF TypeOK
    <3>. HIDE DEF r
    <3>. QED  BY <3>1, <3>2
  <2>. QED  BY <1>1, <1>2, <1>3, <2>1, <2>2, <2>3 DEF TypeOK
<1>8. tracker[r] = "none"
  BY <1>1, <1>2 DEF RunInv, TypeOK
<1>9. CallInv'
  <2>1. \A d \in Callers : d # c /\ call[d].pc = "answered" =>
            /\ call[d].run \in 1..used /\ call[d].run \in Runs /\ call[d].run # r
            /\ call[d].run \in 1..r
            /\ runKey'[call[d].run] = runKey[call[d].run]
    <3>. SUFFICES ASSUME NEW d \in Callers, d # c, call[d].pc = "answered"
                  PROVE  /\ call[d].run \in 1..used /\ call[d].run \in Runs
                         /\ call[d].run # r /\ call[d].run \in 1..r
                         /\ runKey'[call[d].run] = runKey[call[d].run]
      OBVIOUS
    <3>1. call[d].run \in 1..used
      BY <1>1 DEF CallInv
    <3>2. /\ call[d].run \in Runs /\ call[d].run # r /\ call[d].run \in 1..r
      BY <1>2, <3>1
    <3>3. runKey'[call[d].run] = runKey[call[d].run]
      BY <1>1, <1>3, <3>2 DEF TypeOK
    <3>. QED  BY <3>1, <3>2, <3>3
  <2>2. runKey'[r] = k
    BY <1>1, <1>2, <1>3 DEF TypeOK
  <2>3. /\ call'[c].pc = "answered" /\ call'[c].key = k /\ call'[c].run = r
        /\ tracker' = tracker /\ used' = r
    BY <1>3, <1>5
  <2>4. k \in Keys /\ r \in 1..r
    BY <1>2
  <2>. HIDE DEF r, k
  <2>5. \A d \in Callers : call'[d].pc # "idle" => call'[d].key \in Keys
    BY <1>1, <1>6, <2>3, <2>4 DEF CallInv
  <2>6. \A d \in Callers : call'[d].pc = "answered" =>
            /\ call'[d].run \in 1..r
            /\ runKey'[call'[d].run] = call'[d].key
            /\ tracker[call'[d].run] = "none"
    BY <1>1, <1>6, <1>8, <2>1, <2>2, <2>3, <2>4 DEF CallInv
  <2>7. \A d, e \in Callers :
            call'[d].pc = "answered" /\ call'[e].pc = "answered" /\ d # e =>
                call'[d].run # call'[e].run
    BY <1>1, <1>6, <2>1, <2>3 DEF CallInv
  <2>. QED  BY <2>3, <2>5, <2>6, <2>7 DEF CallInv
<1>10. RunInv'
  <2>1. \A s \in Runs : s <= r =>
            runKey'[s] \in Keys /\ Len(jobs'[s]) = Size[s]
    <3>. SUFFICES ASSUME NEW s \in Runs, s <= r
                  PROVE  runKey'[s] \in Keys /\ Len(jobs'[s]) = Size[s]
      OBVIOUS
    <3>1. CASE s = r
      BY <1>1, <1>2, <1>3, <1>4, <3>1 DEF TypeOK
    <3>2. CASE s # r
      <4>1. s <= used
        BY <1>2, <3>2
      <4>2. runKey'[s] = runKey[s] /\ jobs'[s] = jobs[s]
        BY <1>1, <1>2, <1>3, <3>2 DEF TypeOK
      <4>. QED  BY <1>1, <4>1, <4>2 DEF RunInv
    <3>. QED  BY <3>1, <3>2
  <2>2. \A s \in Runs : tracker[s] # "none" => s <= r
    BY <1>1, <1>2 DEF RunInv
  <2>3. \A q \in Keys : tasks[q] # 0 => runKey'[tasks[q]] = q
    BY <1>1, <1>2, <1>3 DEF RunInv, TypeOK
  <2>. QED  BY <1>1, <1>3, <2>1, <2>2, <2>3 DEF RunInv
<1>. QED  BY <1>7, <1>9, <1>10 DEF Inv

\* The answered run gets its tracker, and no other call has the same run.
LEMMA TrackKeeps ==
    ASSUME Inv, NEW c \in Callers, Track(c)
    PROVE  Inv'
<1>. USE TaskAssumption DEF TaskAssumption
<1>. DEFINE k == call[c].key
            r == call[c].run
            p == BatchPhase([i \in 1..Size[r] |-> "waiting"])
<1>1. TypeOK /\ CallInv /\ RunInv
  BY DEF Inv
<1>2. p \in RunPhases
  BY BatchReads
<1>. HIDE DEF p
<1>3. /\ call[c].pc = "answered"
      /\ k \in Keys /\ r \in 1..used /\ r \in Runs /\ used \in Nat
      /\ runKey[r] = k
  BY <1>1 DEF Track, CallInv, TypeOK
<1>4. /\ states' = [states EXCEPT ![k] = [run |-> r, phase |-> p]]
      /\ tracker' = [tracker EXCEPT ![r] = "sleep"]
      /\ tasks' = [tasks EXCEPT ![k] = r]
      /\ Notify(tasks', Live \cup {r})
      /\ call' = [call EXCEPT ![c] = NoCall]
      /\ UNCHANGED <<status, used, runKey, jobs, got, cancelled>>
  BY DEF Track, p
<1>5. TypeOK'
  <2>1. shown' \in [Keys -> BOOLEAN]
    BY <1>1, <1>4, NotifyTypes
  <2>2. call' \in [Callers -> [pc : {"idle", "sent", "answered"},
                               key : Keys \cup {0}, run : 0..MaxRuns]]
    BY <1>1, <1>4 DEF TypeOK, NoCall
  <2>3. /\ tasks' \in [Keys -> 0..used]
        /\ states' \in [Keys -> [run : 0..used, phase : RunPhases \cup {"none"}]]
    <3>1. r \in 0..used
      BY <1>3
    <3>. HIDE DEF r, k
    <3>. QED  BY <1>1, <1>2, <1>4, <3>1 DEF TypeOK
  <2>4. tracker' \in [Runs -> Trackers]
    BY <1>1, <1>4 DEF TypeOK, Trackers
  <2>5. UNCHANGED <<status, used, runKey, jobs, got, cancelled>>
    BY <1>4
  <2>. QED  BY <1>1, <2>1, <2>2, <2>3, <2>4, <2>5 DEF TypeOK, Trackers
<1>6. CallInv'
  <2>1. /\ call'[c].pc = "idle"
        /\ \A d \in Callers : d # c => call'[d] = call[d]
    BY <1>1, <1>4 DEF TypeOK, NoCall
  <2>2. \A d \in Callers : d # c /\ call[d].pc = "answered" =>
            call[d].run # r /\ tracker'[call[d].run] = "none"
    <3>. SUFFICES ASSUME NEW d \in Callers, d # c, call[d].pc = "answered"
                  PROVE  call[d].run # r /\ tracker'[call[d].run] = "none"
      OBVIOUS
    <3>1. /\ call[d].run # r
          /\ tracker[call[d].run] = "none" /\ call[d].run \in 1..used
      BY <1>1, <1>3 DEF CallInv
    <3>2. call[d].run \in DOMAIN tracker
      BY <1>1, <3>1 DEF TypeOK, Runs
    <3>. HIDE DEF r, Runs
    <3>3. \A x \in DOMAIN tracker : x # r => tracker'[x] = tracker[x]
      BY <1>4
    <3>. QED  BY <3>1, <3>2, <3>3
  <2>. QED  BY <1>1, <1>4, <2>1, <2>2 DEF CallInv
<1>7. RunInv'
  <2>1. \A s \in Runs : tracker'[s] # "none" => s <= used
    <3>1. \A s \in Runs : s # r => tracker'[s] = tracker[s]
      BY <1>1, <1>4 DEF TypeOK
    <3>2. r <= used
      BY <1>3
    <3>. HIDE DEF r
    <3>. QED  BY <1>1, <3>1, <3>2 DEF RunInv
  <2>2. \A q \in Keys : tasks'[q] # 0 => runKey[tasks'[q]] = q
    <3>1. /\ tasks'[k] = r
          /\ \A q \in Keys : q # k => tasks'[q] = tasks[q]
      BY <1>1, <1>3, <1>4 DEF TypeOK
    <3>. QED  BY <1>1, <1>3, <3>1 DEF RunInv
  <2>. QED  BY <1>1, <1>4, <2>1, <2>2 DEF RunInv
<1>. QED  BY <1>5, <1>6, <1>7 DEF Inv

\* A job moves within its run.
LEMMA JobMovesKeeps ==
    ASSUME Inv, NEW r \in Runs, NEW i \in DOMAIN jobs[r], JobMoves(r, i)
    PROVE  /\ Inv'
           /\ Len(jobs'[r]) = Len(jobs[r])
           /\ \A s \in Runs : s # r => jobs'[s] = jobs[s]
<1>1. TypeOK /\ CallInv /\ RunInv
  BY DEF Inv
<1>2. PICK p \in RunPhases : jobs' = [jobs EXCEPT ![r][i] = p]
  BY DEF JobMoves, RunPhases
<1>3. UNCHANGED <<status, call, used, runKey, tracker, got, tasks,
                  states, cancelled, shown>>
  BY DEF JobMoves
<1>4. jobs[r] \in Seq(RunPhases) /\ DOMAIN jobs[r] = 1..Len(jobs[r])
  <2>1. jobs[r] \in Seq(RunPhases)
    BY <1>1 DEF TypeOK
  <2>. QED  BY <2>1
<1>5. jobs'[r] = [jobs[r] EXCEPT ![i] = p]
  BY <1>1, <1>2 DEF TypeOK
<1>6. jobs'[r] \in Seq(RunPhases) /\ Len(jobs'[r]) = Len(jobs[r])
  BY <1>4, <1>5, ExceptSeq
<1>7. \A s \in Runs : s # r => jobs'[s] = jobs[s]
  BY <1>1, <1>2 DEF TypeOK
<1>8. jobs' \in [Runs -> Seq(RunPhases)]
  <2>1. jobs' = [s \in Runs |-> jobs'[s]]
    BY <1>1, <1>2 DEF TypeOK
  <2>2. \A s \in Runs : jobs'[s] \in Seq(RunPhases)
    BY <1>1, <1>6, <1>7 DEF TypeOK
  <2>. QED  BY <2>1, <2>2
<1>9. Inv'
  BY <1>1, <1>3, <1>6, <1>7, <1>8 DEF Inv, TypeOK, CallInv, RunInv
<1>. QED  BY <1>6, <1>7, <1>9

\* The unload cancels only runs that exist.
LEMMA UnloadKeeps ==
    ASSUME Inv, Unload \/ UnloadDone
    PROVE  Inv'
<1>1. TypeOK /\ CallInv /\ RunInv
  BY DEF Inv
<1>2. CASE Unload
  BY <1>1, <1>2 DEF Inv, Unload, Live, TypeOK, CallInv, RunInv
<1>3. CASE UnloadDone
  <2>1. 0 \in 0..used
    BY <1>1 DEF TypeOK
  <2>. QED  BY <1>1, <1>3, <2>1 DEF Inv, UnloadDone, TypeOK, CallInv, RunInv
<1>. QED  BY <1>2, <1>3

\* Every variable keeps its type, calls are answered with runs of their own,
\* and nothing but a command's own runs is registered for it.
THEOREM TypesHold == Spec => []Inv
<1>. USE TaskAssumption DEF TaskAssumption
<1>1. Init => Inv
  BY DEF Init, Inv, TypeOK, CallInv, RunInv, NoCall, NoState
<1>2. Inv /\ [Next]_vars => Inv'
  <2>. SUFFICES ASSUME Inv, [Next]_vars PROVE Inv'
    OBVIOUS
  <2>1. CASE UNCHANGED vars
    BY <2>1 DEF vars, Inv, TypeOK, CallInv, RunInv
  <2>2. ASSUME NEW c \in Callers, NEW k \in Keys, Press(c, k) PROVE Inv'
    BY <2>2, PressKeeps
  <2>3. ASSUME NEW c \in Callers, Accept(c) PROVE Inv'
    BY <2>3, AcceptKeeps
  <2>4. ASSUME NEW c \in Callers, CallFails(c) PROVE Inv'
    BY <2>4, CallFailsKeeps
  <2>5. ASSUME NEW c \in Callers, Track(c) PROVE Inv'
    BY <2>5, TrackKeeps
  <2>6. ASSUME NEW r \in Runs, TrackerStep(r) PROVE Inv'
    BY <2>6, TrackerKeeps
  <2>7. ASSUME NEW r \in Runs, NEW i \in DOMAIN jobs[r], JobMoves(r, i) PROVE Inv'
    BY <2>7, JobMovesKeeps
  <2>. QED  BY <2>1, <2>2, <2>3, <2>4, <2>5, <2>6, <2>7, UnloadKeeps DEF Next
<1>. QED  BY <1>1, <1>2, PTL DEF Spec

\* Type correctness of the task manager (task_manager.py).
THEOREM TaskTypes == Spec => []TypeOK
BY TypesHold, PTL DEF Inv

-----------------------------------------------------------------------------
(* States.                                                                 *)

\* What a tracker's step makes of the state of its command, and where the
\* tracker is afterwards: it goes on without a word, ends after the callback,
\* ends because it was cancelled, is removed, fails, or stores what it read.
WaitsOn(r) ==
    /\ UNCHANGED states
    /\ tracker[r] \in {"sleep", "get"} /\ tracker'[r] \in {"sleep", "get"}

EndsReturned(r) ==
    /\ UNCHANGED states
    /\ tracker[r] = "refresh" /\ tracker'[r] = "ended"

EndsCancelled(r) ==
    UNCHANGED states /\ r \in cancelled /\ tracker'[r] = "ended"

Removed(r) ==
    UNCHANGED states /\ tracker[r] = "ended" /\ tracker'[r] = "gone"

Failed(r) ==
    /\ tracker'[r] = "ended"
    /\ states'[runKey[r]].phase = "failed"
    /\ \/ UNCHANGED states
       \/ states' = [states EXCEPT ![runKey[r]] = [run |-> r, phase |-> "failed"]]

Stores(r) ==
    /\ tracker[r] = "get" /\ Len(got[r]) = Len(jobs[r])
    /\ states' = [states EXCEPT ![runKey[r]] = [run |-> r, phase |-> BatchPhase(got[r])]]
    /\ tracker'[r] \in {"refresh", "refreshFail", "sleep"}
    /\ BatchPhase(got[r]) \notin {"success", "failed"} => tracker'[r] = "sleep"

\* A complete poll stores what it read.
LEMMA ObserveStores ==
    ASSUME TypeOK, NEW r \in Runs, Observe(r)
    PROVE  Stores(r)
<1>. DEFINE p == BatchPhase(got[r])
<1>1. /\ tracker'[r] \in {"refresh", "refreshFail", "sleep"}
      /\ p \notin {"success", "failed"} => tracker'[r] = "sleep"
  <2>1. CASE p = "success"
    BY <2>1 DEF Observe, TypeOK
  <2>2. CASE p = "failed"
    BY <2>2 DEF Observe, TypeOK
  <2>3. CASE p \notin {"success", "failed"}
    BY <2>3 DEF Observe, TypeOK
  <2>. QED  BY <2>1, <2>2, <2>3
<1>. QED  BY <1>1 DEF Observe, Stores

\* Nothing else happens in a tracker.
LEMMA TrackerMoves ==
    ASSUME Inv, NEW r \in Runs, TrackerStep(r)
    PROVE  \/ WaitsOn(r) \/ EndsReturned(r) \/ EndsCancelled(r)
           \/ Removed(r) \/ Failed(r) \/ Stores(r)
<1>1. TypeOK /\ RunInv
  BY DEF Inv
<1>2. tracker[r] # "none"
  BY TrackerFrame
<1>3. runKey[r] \in Keys
  BY <1>1, <1>2 DEF RunInv
<1>4. ASSUME Fail(r) PROVE Failed(r)
  <2>1. tracker'[r] = "ended"
    BY <1>1, <1>4 DEF Fail, TypeOK
  <2>2. CASE states[runKey[r]].phase = "failed"
    <3>1. states' = states
      BY <1>1, <1>3, <1>4, <2>2 DEF Fail, TypeOK
    <3>. QED  BY <2>1, <2>2, <3>1 DEF Failed
  <2>3. CASE states[runKey[r]].phase # "failed"
    <3>1. states' = [states EXCEPT ![runKey[r]] = [run |-> r, phase |-> "failed"]]
      BY <1>1, <1>3, <1>4, <2>3 DEF Fail, TypeOK
    <3>2. states'[runKey[r]].phase = "failed"
      BY <1>1, <1>3, <3>1 DEF TypeOK
    <3>. QED  BY <2>1, <3>1, <3>2 DEF Failed
  <2>. QED  BY <2>2, <2>3
<1>5. CASE Poll(r)
  BY <1>1, <1>5 DEF Poll, WaitsOn, TypeOK
<1>6. CASE Timeout(r)
  BY <1>4, <1>6 DEF Timeout
<1>7. CASE Fetch(r)
  BY <1>1, <1>7 DEF Fetch, WaitsOn, TypeOK
<1>8. CASE Observe(r)
  BY <1>1, <1>8, ObserveStores DEF Observe
<1>9. CASE PollError(r)
  <2>1. CASE Fail(r)
    BY <1>4, <1>9, <2>1 DEF PollError
  <2>2. CASE ~Fail(r)
    BY <1>1, <1>9, <2>2 DEF PollError, WaitsOn, TypeOK
  <2>. QED  BY <2>1, <2>2
<1>10. CASE CallbackReturns(r)
  <2>1. CASE Fail(r)
    BY <1>4, <1>10, <2>1 DEF CallbackReturns
  <2>2. CASE ~Fail(r)
    BY <1>1, <1>10, <2>2 DEF CallbackReturns, EndsReturned, TypeOK
  <2>. QED  BY <2>1, <2>2
<1>11. CASE Cancelled(r)
  BY <1>1, <1>11 DEF Cancelled, EndsCancelled, TypeOK
<1>12. CASE TrackerDone(r)
  BY <1>1, <1>12 DEF TrackerDone, Removed, TypeOK
<1>. QED
  BY <1>5, <1>6, <1>7, <1>8, <1>9, <1>10, <1>11, <1>12 DEF TrackerStep

\* The trackers and states of other runs and commands stay as they were.
LEMMA OthersStay ==
    ASSUME Inv, NEW r \in Runs, TrackerStep(r)
    PROVE  /\ runKey[r] \in Keys
           /\ \A s \in Runs : s # r => tracker'[s] = tracker[s]
           /\ \A k \in Keys : k # runKey[r] => states'[k] = states[k]
<1>1. TypeOK /\ RunInv
  BY DEF Inv
<1>2. /\ tracker[r] # "none"
      /\ tracker' = [tracker EXCEPT ![r] = tracker'[r]]
      /\ \/ UNCHANGED states
         \/ \E p \in RunPhases :
                states' = [states EXCEPT ![runKey[r]] = [run |-> r, phase |-> p]]
  BY TrackerFrame
<1>3. runKey[r] \in Keys
  BY <1>1, <1>2 DEF RunInv
<1>4. \A s \in Runs : s # r => tracker'[s] = tracker[s]
  BY <1>1, <1>2 DEF TypeOK
<1>5. \A k \in Keys : k # runKey[r] => states'[k] = states[k]
  BY <1>1, <1>2 DEF TypeOK
<1>. QED  BY <1>3, <1>4, <1>5

\* A command without a state has no run; the state of any other names one of
\* its own runs, and one that is not terminal has an author that still polls.
Settles(k) ==
    /\ states[k].run = 0 <=> states[k].phase = "none"
    /\ states[k].run # 0 => runKey[states[k].run] = k
    /\ status = "loaded" /\ states[k].phase \in {"waiting", "running"} =>
        tracker[states[k].run] \in {"sleep", "get"}

StatesInv == \A k \in Keys : Settles(k)

\* A tracker's step, seen from any command.
LEMMA TrackerSettles ==
    ASSUME Inv, StatesInv, NEW r \in Runs, TrackerStep(r), NEW k \in Keys
    PROVE  Settles(k)'
<1>1. TypeOK /\ RunInv
  BY DEF Inv
<1>2. /\ runKey[r] \in Keys
      /\ \A s \in Runs : s # r => tracker'[s] = tracker[s]
      /\ k # runKey[r] => states'[k] = states[k]
      /\ UNCHANGED <<status, runKey, cancelled>>
  BY OthersStay, TrackerFrame
<1>3. /\ Settles(k)
      /\ states[k].phase \in RunPhases \cup {"none"}
      /\ states[k].run \in Runs \cup {0}
      /\ status = "loaded" => cancelled = {}
  <2>1. Settles(k)
    BY DEF StatesInv
  <2>2. /\ used \in 0..MaxRuns
        /\ states[k] \in [run : 0..used, phase : RunPhases \cup {"none"}]
    BY <1>1 DEF TypeOK
  <2>3. states[k].phase \in RunPhases \cup {"none"} /\ states[k].run \in 0..used
    BY <2>2
  <2>4. states[k].run \in Runs \cup {0}
    BY <2>2, <2>3, TaskAssumption DEF TaskAssumption
  <2>. QED  BY <1>1, <2>1, <2>3, <2>4 DEF RunInv
<1>4. CASE states[k].run # r /\ states'[k] = states[k]
  <2>1. states[k].run # 0 => tracker'[states[k].run] = tracker[states[k].run]
    BY <1>2, <1>3, <1>4
  <2>2. states[k].run = 0 => states[k].phase = "none"
    BY <1>3 DEF Settles
  <2>. QED  BY <1>2, <1>3, <1>4, <2>1, <2>2 DEF Settles
<1>5. CASE states[k].run = r /\ states'[k] = states[k] /\ k # runKey[r]
  <2>1. states[k].run # 0
    BY <1>5
  <2>. QED  BY <1>3, <1>5, <2>1 DEF Settles
<1>6. CASE states[k].run = r /\ states'[k] = states[k] /\ k = runKey[r]
  <2>1. CASE WaitsOn(r)
    BY <1>2, <1>3, <1>6, <2>1 DEF WaitsOn, Settles
  <2>2. CASE EndsReturned(r)
    BY <1>2, <1>3, <1>6, <2>2 DEF EndsReturned, Settles
  <2>3. CASE EndsCancelled(r)
    BY <1>2, <1>3, <1>6, <2>3 DEF EndsCancelled, Settles
  <2>4. CASE Removed(r)
    BY <1>2, <1>3, <1>6, <2>4 DEF Removed, Settles
  <2>5. CASE Failed(r)
    BY <1>2, <1>3, <1>6, <2>5 DEF Failed, Settles
  <2>6. CASE Stores(r)
    <3>1. states'[k] = [run |-> r, phase |-> BatchPhase(got[r])]
      BY <1>1, <1>6, <2>6 DEF Stores, TypeOK
    <3>2. BatchPhase(got[r]) \in RunPhases
      BY BatchReads
    <3>. QED  BY <1>2, <1>3, <1>6, <2>6, <3>1, <3>2
         DEF Stores, Settles, RunPhases
  <2>. QED  BY <2>1, <2>2, <2>3, <2>4, <2>5, <2>6, TrackerMoves
<1>7. CASE states'[k] # states[k]
  <2>1. k = runKey[r] /\ r # 0
    BY <1>2, <1>7
  <2>2. \/ Failed(r) /\ states' = [states EXCEPT ![k] = [run |-> r, phase |-> "failed"]]
        \/ Stores(r)
    BY <1>7, <2>1, TrackerMoves
       DEF WaitsOn, EndsReturned, EndsCancelled, Removed, Failed
  <2>3. CASE Failed(r) /\ states' = [states EXCEPT ![k] = [run |-> r, phase |-> "failed"]]
    <3>1. states'[k] = [run |-> r, phase |-> "failed"]
      BY <1>1, <2>3 DEF TypeOK
    <3>. QED  BY <1>2, <2>1, <3>1 DEF Settles
  <2>4. CASE Stores(r)
    <3>1. states'[k] = [run |-> r, phase |-> BatchPhase(got[r])]
      BY <1>1, <2>1, <2>4 DEF Stores, TypeOK
    <3>2. BatchPhase(got[r]) \in RunPhases
      BY BatchReads
    <3>. QED  BY <1>2, <2>1, <2>4, <3>1, <3>2
         DEF Stores, Settles, RunPhases
  <2>. QED  BY <2>2, <2>3, <2>4
<1>. QED  BY <1>4, <1>5, <1>6, <1>7

\* No step but an unload or an answered call disturbs states outside a
\* tracker.
LEMMA StatesKept ==
    ASSUME Inv, StatesInv, Inv',
           UNCHANGED <<states, tracker, cancelled>>,
           status' = "loaded" => status = "loaded",
           \A r \in Runs : r <= used => runKey'[r] = runKey[r]
    PROVE  StatesInv'
<1>. SUFFICES ASSUME NEW k \in Keys PROVE Settles(k)'
  BY DEF StatesInv
<1>1. Settles(k) /\ states[k].run \in 0..used
      /\ used \in 0..MaxRuns
  BY DEF StatesInv, Inv, TypeOK
<1>2. states[k].run # 0 => runKey'[states[k].run] = runKey[states[k].run]
  BY <1>1, TaskAssumption DEF TaskAssumption
<1>. QED  BY <1>1, <1>2 DEF Settles

\* An answered call hands the command to a run of its own.
LEMMA TrackSettles ==
    ASSUME Inv, StatesInv, NEW c \in Callers, Track(c)
    PROVE  StatesInv'
<1>. DEFINE q == call[c].key
            r == call[c].run
            p == BatchPhase([i \in 1..Size[r] |-> "waiting"])
<1>1. /\ q \in Keys /\ r \in 1..used /\ r \in Runs /\ runKey[r] = q
      /\ tracker[r] = "none"
  BY TaskAssumption DEF Track, Inv, CallInv, TypeOK, TaskAssumption
<1>2. p \in RunPhases
  BY BatchReads
<1>3. /\ states' = [states EXCEPT ![q] = [run |-> r, phase |-> p]]
      /\ tracker' = [tracker EXCEPT ![r] = "sleep"]
      /\ UNCHANGED <<status, runKey, cancelled>>
  BY DEF Track
<1>. HIDE DEF p, r, q
<1>4. /\ tracker'[r] = "sleep"
      /\ \A s \in Runs : s # r => tracker'[s] = tracker[s]
      /\ states'[q] = [run |-> r, phase |-> p]
      /\ \A k \in Keys : k # q => states'[k] = states[k]
  BY <1>1, <1>3 DEF Inv, TypeOK
<1>. SUFFICES ASSUME NEW k \in Keys PROVE Settles(k)'
  BY DEF StatesInv
<1>5. CASE k = q
  <2>1. r # 0
    BY <1>1
  <2>. QED  BY <1>1, <1>2, <1>3, <1>4, <1>5, <2>1
       DEF Settles, RunPhases
<1>6. CASE k # q
  <2>1. Settles(k)
    BY DEF StatesInv
  <2>2. states[k].run \in Runs \cup {0}
    BY TaskAssumption DEF Inv, TypeOK, TaskAssumption
  <2>3. states'[k] = states[k]
    BY <1>4, <1>6
  <2>4. CASE states[k].run = 0
    BY <2>1, <2>3, <2>4 DEF Settles
  <2>5. CASE states[k].run = r
    BY <1>1, <1>3, <1>4, <2>1, <2>3, <2>5 DEF Settles
  <2>6. CASE states[k].run \in Runs \ {r}
    BY <1>3, <1>4, <2>1, <2>3, <2>6 DEF Settles
  <2>. QED  BY <2>2, <2>4, <2>5, <2>6
<1>. QED  BY <1>5, <1>6

\* Every command's state settles, whatever its overlapping trackers do.
THEOREM StatesHold == Spec => []StatesInv
<1>1. Init => StatesInv
  BY DEF Init, NoState, StatesInv, Settles
<1>2. Inv /\ Inv' /\ StatesInv /\ [Next]_vars => StatesInv'
  <2>. SUFFICES ASSUME Inv, Inv', StatesInv, [Next]_vars PROVE StatesInv'
    OBVIOUS
  <2>1. CASE UNCHANGED vars
    BY <2>1, StatesKept DEF vars
  <2>2. ASSUME NEW c \in Callers, NEW k \in Keys, Press(c, k) PROVE StatesInv'
    BY <2>2, StatesKept DEF Press
  <2>3. ASSUME NEW c \in Callers, Accept(c) PROVE StatesInv'
    <3>1. \A r \in Runs : r <= used => runKey'[r] = runKey[r]
      BY <2>3 DEF Accept, Inv, TypeOK
    <3>. QED  BY <2>3, <3>1, StatesKept DEF Accept
  <2>4. ASSUME NEW c \in Callers, CallFails(c) PROVE StatesInv'
    BY <2>4, StatesKept DEF CallFails
  <2>5. ASSUME NEW c \in Callers, Track(c) PROVE StatesInv'
    BY <2>5, TrackSettles
  <2>6. ASSUME NEW r \in Runs, TrackerStep(r) PROVE StatesInv'
    BY <2>6, TrackerSettles DEF StatesInv
  <2>7. ASSUME NEW r \in Runs, NEW i \in DOMAIN jobs[r], JobMoves(r, i)
        PROVE StatesInv'
    BY <2>7, StatesKept DEF JobMoves
  <2>8. CASE Unload
    <3>1. cancelled = {} /\ status' # "loaded"
      BY <2>8 DEF Unload, Inv, RunInv
    <3>. QED  BY <2>8, <3>1 DEF Unload, StatesInv, Settles
  <2>9. CASE UnloadDone
    BY <2>9, StatesKept DEF UnloadDone
  <2>. QED  BY <2>1, <2>2, <2>3, <2>4, <2>5, <2>6, <2>7, <2>8, <2>9 DEF Next
<1>. QED  BY <1>1, <1>2, TypesHold, PTL DEF Spec

\* A command without a tracker reads as success or failure: the state of a
\* command is one of its own runs', and the run that wrote "waiting" or
\* "running" still polls (_async_track and its error clause).
THEOREM StatesSettle == Spec => []SettledStateIsTerminal
<1>1. Inv /\ StatesInv => SettledStateIsTerminal
  <2>. SUFFICES ASSUME Inv, StatesInv, status = "loaded", NEW k \in Keys,
                       states[k].run # 0, \A r \in Live : runKey[r] # k
                PROVE  states[k].phase \in {"success", "failed"}
    BY DEF SettledStateIsTerminal
  <2>1. Settles(k) /\ states[k].run \in Runs
        /\ states[k].phase \in RunPhases \cup {"none"}
    BY TaskAssumption DEF StatesInv, Inv, TypeOK, TaskAssumption
  <2>2. tracker[states[k].run] \notin {"sleep", "get"}
    BY <2>1 DEF Settles, Live
  <2>. QED  BY <2>1, <2>2 DEF Settles, RunPhases
<1>. QED  BY <1>1, TypesHold, StatesHold, PTL

-----------------------------------------------------------------------------
(* Successes.                                                              *)

\* What has been read stays true of the same jobs.
LEMMA ReadsKept ==
    ASSUME ReadInv, UNCHANGED <<got, jobs, used>>
    PROVE  ReadInv'
BY DEF ReadInv

\* A fetch adds what the next job is now; everything else that a tracker does
\* to what it has read is to forget it.
LEMMA TrackerReads ==
    ASSUME Inv, ReadInv, NEW r \in Runs, TrackerStep(r)
    PROVE  ReadInv'
<1>1. TypeOK /\ UNCHANGED <<jobs, used>> /\ r <= used
  BY TrackerFrame DEF Inv, RunInv
<1>2. \A s \in Runs : got[s] \in Seq(RunPhases) /\ jobs[s] \in Seq(RunPhases)
  BY <1>1 DEF TypeOK
<1>3. UNCHANGED got \/ got' = [got EXCEPT ![r] = <<>>] \/ Fetch(r)
  BY DEF TrackerStep, Poll, Timeout, Fail, Observe, PollError, CallbackReturns,
         Cancelled, TrackerDone
<1>4. CASE UNCHANGED got
  BY <1>1, <1>4, ReadsKept
<1>5. CASE got' = [got EXCEPT ![r] = <<>>]
  <2>1. /\ got'[r] = <<>>
        /\ \A s \in Runs : s # r => got'[s] = got[s]
    BY <1>1, <1>5 DEF TypeOK
  <2>2. Len(got'[r]) = 0
    BY <2>1
  <2>3. Len(jobs[r]) \in Nat
    BY <1>2
  <2>. QED  BY <1>1, <2>1, <2>2, <2>3 DEF ReadInv
<1>6. CASE Fetch(r)
  <2>. DEFINE n == Len(got[r])
              new == Append(got[r], jobs[r][n + 1])
  <2>1. /\ got'[r] = new
        /\ \A s \in Runs : s # r => got'[s] = got[s]
    BY <1>1, <1>6 DEF Fetch, TypeOK
  <2>2. n \in Nat /\ Len(jobs[r]) \in Nat /\ n < Len(jobs[r])
    BY <1>2, <1>6 DEF Fetch
  <2>3. jobs[r][n + 1] \in RunPhases
    BY <1>2, <2>2, ElementOfSeq
  <2>4. /\ Len(new) = n + 1
        /\ \A i \in 1..n : new[i] = got[r][i]
        /\ new[n + 1] = jobs[r][n + 1]
    BY <1>2, <2>3, AppendProperties
  <2>. HIDE DEF n, new
  <2>5. \A i \in 1..Len(new) : new[i] = "success" => jobs[r][i] = "success"
    <3>. SUFFICES ASSUME NEW i \in 1..(n + 1), new[i] = "success"
                  PROVE  jobs[r][i] = "success"
      BY <2>4
    <3>1. CASE i = n + 1
      BY <2>4, <3>1
    <3>2. CASE i # n + 1
      <4>1. i \in 1..n
        BY <2>2, <3>2
      <4>. QED  BY <2>4, <4>1 DEF ReadInv, n
    <3>. QED  BY <3>1, <3>2
  <2>6. Len(new) <= Len(jobs[r])
    BY <2>2, <2>4
  <2>7. ~(r > used)
    BY <1>1 DEF TypeOK
  <2>. QED  BY <1>1, <2>1, <2>5, <2>6, <2>7 DEF ReadInv
<1>. QED  BY <1>3, <1>4, <1>5, <1>6

\* A job that moves has not succeeded, and none is forgotten.
LEMMA JobStays ==
    ASSUME Inv, NEW r \in Runs, NEW i \in DOMAIN jobs[r], JobMoves(r, i)
    PROVE  \A s \in Runs : \A j \in DOMAIN jobs[s] :
                jobs[s][j] = "success" => jobs'[s][j] = "success"
<1>1. jobs \in [Runs -> Seq(RunPhases)]
  BY DEF Inv, TypeOK
<1>2. PICK p : jobs' = [jobs EXCEPT ![r][i] = p]
  BY DEF JobMoves
<1>3. jobs[r][i] # "success"
  BY DEF JobMoves
<1>4. /\ jobs'[r] = [jobs[r] EXCEPT ![i] = p]
      /\ \A s \in Runs : s # r => jobs'[s] = jobs[s]
  BY <1>1, <1>2
<1>. QED  BY <1>3, <1>4

\* What is said of successes, in passing and for good.
SuccessInv == ReadInv /\ SuccessIsReal

\* A tracker stores a success only after it read one of every job.
LEMMA TrackerSucceeds ==
    ASSUME Inv, SuccessInv, NEW r \in Runs, TrackerStep(r)
    PROVE  SuccessIsReal'
<1>1. TypeOK /\ ReadInv /\ SuccessIsReal
  BY DEF Inv, SuccessInv
<1>2. /\ runKey[r] \in Keys /\ UNCHANGED jobs
      /\ \A k \in Keys : k # runKey[r] => states'[k] = states[k]
  BY OthersStay, TrackerFrame
<1>. DEFINE q == runKey[r]
<1>3. states'[q] = states[q] \/ states'[q].phase = "failed" \/ Stores(r)
  BY TrackerMoves
     DEF WaitsOn, EndsReturned, EndsCancelled, Removed, Failed
<1>4. ASSUME states'[q].phase = "success", NEW i \in DOMAIN jobs[states'[q].run]
      PROVE  jobs[states'[q].run][i] = "success"
  <2>1. CASE states'[q] = states[q]
    BY <1>1, <1>2, <1>4, <2>1 DEF SuccessIsReal
  <2>2. CASE Stores(r)
    <3>1. states'[q] = [run |-> r, phase |-> BatchPhase(got[r])]
      BY <1>1, <1>2, <2>2 DEF Stores, TypeOK
    <3>2. got[r] \in Seq(RunPhases) /\ jobs[r] \in Seq(RunPhases)
      BY <1>1 DEF TypeOK
    <3>3. DOMAIN got[r] = 1..Len(got[r]) /\ DOMAIN jobs[r] = 1..Len(got[r])
      BY <2>2, <3>2 DEF Stores
    <3>4. \A j \in DOMAIN got[r] : got[r][j] = "success"
      BY <1>4, <3>1, BatchReads
    <3>. QED  BY <1>1, <1>4, <3>1, <3>3, <3>4 DEF ReadInv
  <2>. QED  BY <1>3, <1>4, <2>1, <2>2
<1>. QED  BY <1>1, <1>2, <1>4 DEF SuccessIsReal

\* What trackers have read and what states say of successes is true of the jobs.
THEOREM SuccessesHold == Spec => []SuccessInv
<1>1. Init => SuccessInv
  BY DEF Init, NoState, SuccessInv, ReadInv, SuccessIsReal
<1>2. Inv /\ StatesInv /\ SuccessInv /\ [Next]_vars => SuccessInv'
  <2>. SUFFICES ASSUME Inv, StatesInv, SuccessInv, [Next]_vars PROVE SuccessInv'
    OBVIOUS
  <2>0. TypeOK /\ CallInv /\ RunInv /\ ReadInv /\ SuccessIsReal
    BY DEF Inv, SuccessInv
  <2>1. ASSUME UNCHANGED <<jobs, got, states, used>> PROVE SuccessInv'
    BY <2>0, <2>1 DEF SuccessInv, ReadInv, SuccessIsReal
  <2>2. ASSUME NEW c \in Callers, Accept(c) PROVE SuccessInv'
    <3>. DEFINE n == used + 1
                js == [i \in 1..Size[n] |-> "waiting"]
    <3>1. used \in Nat /\ n \in Runs /\ n > used
      BY <2>0, <2>2, TaskAssumption DEF Accept, TypeOK, TaskAssumption
    <3>2. /\ jobs' = [jobs EXCEPT ![n] = js] /\ used' = n
          /\ UNCHANGED <<got, states>>
      BY <2>2 DEF Accept
    <3>3. got[n] = <<>>
      BY <2>0, <3>1 DEF ReadInv
    <3>4. Size[n] \in Nat
      BY <3>1, TaskAssumption DEF TaskAssumption
    <3>5. Len(js) \in Nat
      BY <3>4
    <3>. HIDE DEF js
    <3>6. jobs'[n] = js /\ \A s \in Runs : s # n => jobs'[s] = jobs[s]
      BY <2>0, <3>1, <3>2 DEF TypeOK
    <3>7. ReadInv'
      <4>. SUFFICES ASSUME NEW s \in Runs
                    PROVE  /\ s > n => got[s] = <<>>
                           /\ Len(got[s]) <= Len(jobs'[s])
                           /\ \A i \in 1..Len(got[s]) :
                                got[s][i] = "success" => jobs'[s][i] = "success"
        BY <3>2 DEF ReadInv
      <4>1. s > n => s > used
        BY <3>1
      <4>2. CASE s = n
        BY <3>1, <3>3, <3>5, <3>6, <4>2
      <4>3. CASE s # n
        BY <2>0, <3>6, <4>1, <4>3 DEF ReadInv
      <4>. QED  BY <4>2, <4>3
    <3>8. SuccessIsReal'
      <4>1. \A k \in Keys : states[k].phase = "success" =>
                states[k].run \in Runs /\ states[k].run # n
        <5>. SUFFICES ASSUME NEW k \in Keys, states[k].phase = "success"
                      PROVE  states[k].run \in Runs /\ states[k].run # n
          OBVIOUS
        <5>1. states[k].run # 0
          BY DEF StatesInv, Settles
        <5>2. states[k].run \in 0..used /\ used \in 0..MaxRuns
          BY <2>0 DEF TypeOK
        <5>. QED  BY <5>1, <5>2, TaskAssumption DEF TaskAssumption
      <4>. HIDE DEF n
      <4>. QED  BY <2>0, <3>2, <3>6, <4>1 DEF SuccessIsReal
    <3>. QED  BY <3>7, <3>8 DEF SuccessInv
  <2>3. ASSUME NEW c \in Callers, Track(c) PROVE SuccessInv'
    <3>. DEFINE q == call[c].key
                r == call[c].run
                js == [i \in 1..Size[r] |-> "waiting"]
    <3>1. /\ q \in Keys /\ r \in 1..used /\ r \in Runs /\ runKey[r] = q
          /\ Size[r] \in Nat
      <4>1. q \in Keys /\ r \in 1..used /\ runKey[r] = q
        BY <2>0, <2>3 DEF Track, CallInv
      <4>2. used \in 0..MaxRuns
        BY <2>0 DEF TypeOK
      <4>. QED  BY <4>1, <4>2, TaskAssumption DEF TaskAssumption
    <3>2. /\ states' = [states EXCEPT ![q] = [run |-> r, phase |-> BatchPhase(js)]]
          /\ UNCHANGED <<jobs, got, used>>
      BY <2>3 DEF Track
    <3>3. DOMAIN js = 1..Size[r] /\ \A i \in DOMAIN js : js[i] # "success"
      OBVIOUS
    <3>4. BatchPhase(js) = "success" => DOMAIN js = {}
      BY <3>3, BatchReads
    <3>5. Len(jobs[r]) = Size[r] /\ jobs[r] \in Seq(RunPhases)
      BY <2>0, <3>1 DEF RunInv, TypeOK
    <3>6. DOMAIN jobs[r] = DOMAIN js
      BY <3>3, <3>5
    <3>. HIDE DEF js, q, r
    <3>7. /\ states'[q] = [run |-> r, phase |-> BatchPhase(js)]
          /\ \A k \in Keys : k # q => states'[k] = states[k]
      BY <2>0, <3>1, <3>2 DEF TypeOK
    <3>8. SuccessIsReal'
      <4>. SUFFICES ASSUME NEW k \in Keys, states'[k].phase = "success",
                           NEW i \in DOMAIN jobs[states'[k].run]
                    PROVE  jobs[states'[k].run][i] = "success"
        BY <3>2 DEF SuccessIsReal
      <4>1. CASE k = q
        BY <3>4, <3>6, <3>7, <4>1
      <4>2. CASE k # q
        BY <2>0, <3>7, <4>2 DEF SuccessIsReal
      <4>. QED  BY <4>1, <4>2
    <3>9. ReadInv'
      BY <2>0, <3>2, ReadsKept
    <3>. QED  BY <3>8, <3>9 DEF SuccessInv
  <2>4. ASSUME NEW r \in Runs, TrackerStep(r) PROVE SuccessInv'
    <3>1. ReadInv'
      BY <2>0, <2>4, TrackerReads
    <3>. QED  BY <2>4, <3>1, TrackerSucceeds DEF SuccessInv
  <2>5. ASSUME NEW r \in Runs, NEW i \in DOMAIN jobs[r], JobMoves(r, i)
        PROVE SuccessInv'
    <3>1. /\ UNCHANGED <<got, states, used>>
          /\ Len(jobs'[r]) = Len(jobs[r])
          /\ \A s \in Runs : s # r => jobs'[s] = jobs[s]
          /\ TypeOK'
      BY <2>5, JobMovesKeeps DEF JobMoves, Inv
    <3>2. \A s \in Runs :
            /\ jobs[s] \in Seq(RunPhases) /\ jobs'[s] \in Seq(RunPhases)
            /\ Len(jobs'[s]) = Len(jobs[s])
      BY <2>0, <3>1 DEF TypeOK
    <3>3. \A s \in Runs :
            DOMAIN jobs[s] = 1..Len(jobs[s]) /\ DOMAIN jobs'[s] = 1..Len(jobs[s])
      BY <3>2
    <3>4. \A s \in Runs : \A j \in 1..Len(jobs[s]) :
                jobs[s][j] = "success" => jobs'[s][j] = "success"
      BY <2>5, <3>3, JobStays
    <3>5. ReadInv'
      <4>. SUFFICES ASSUME NEW s \in Runs
                    PROVE  /\ s > used => got[s] = <<>>
                           /\ Len(got[s]) <= Len(jobs'[s])
                           /\ \A i1 \in 1..Len(got[s]) :
                                got[s][i1] = "success" => jobs'[s][i1] = "success"
        BY <3>1 DEF ReadInv
      <4>1. /\ s > used => got[s] = <<>>
            /\ Len(got[s]) <= Len(jobs[s])
            /\ \A i1 \in 1..Len(got[s]) :
                got[s][i1] = "success" => jobs[s][i1] = "success"
        BY <2>0 DEF ReadInv
      <4>2. got[s] \in Seq(RunPhases)
        BY <2>0 DEF TypeOK
      <4>3. \A i1 \in 1..Len(got[s]) : i1 \in 1..Len(jobs[s])
        BY <3>2, <4>1, <4>2
      <4>. QED  BY <3>2, <3>4, <4>1, <4>3
    <3>6. SuccessIsReal'
      <4>. SUFFICES ASSUME NEW k \in Keys, states[k].phase = "success",
                           NEW j \in DOMAIN jobs'[states[k].run]
                    PROVE  jobs'[states[k].run][j] = "success"
        BY <3>1 DEF SuccessIsReal
      <4>1. states[k].run \in Runs
        <5>1. states[k].run # 0
          BY DEF StatesInv, Settles
        <5>2. states[k].run \in 0..used /\ used \in 0..MaxRuns
          BY <2>0 DEF TypeOK
        <5>. QED  BY <5>1, <5>2, TaskAssumption DEF TaskAssumption
      <4>. QED  BY <2>0, <3>3, <3>4, <4>1 DEF SuccessIsReal
    <3>. QED  BY <3>5, <3>6 DEF SuccessInv
  <2>. QED  BY <2>1, <2>2, <2>3, <2>4, <2>5
       DEF Next, vars, Press, CallFails, Unload, UnloadDone
<1>. QED  BY <1>1, <1>2, TypesHold, StatesHold, PTL DEF Spec

\* A command that reads as success has had a run all of whose jobs succeeded:
\* a batch is read job by job while the jobs move, but a success stays one
\* (_batch_task, async_get_task).
THEOREM SuccessReal == Spec => []SuccessIsReal
BY SuccessesHold, PTL DEF SuccessInv

-----------------------------------------------------------------------------
(* Listeners.                                                              *)

\* ListenersConverge for one command.
Seen(k) ==
    status # "unloaded" /\ shown[k] # (tasks[k] \in Live) =>
        tasks[k] \in Runs /\ tracker[tasks[k]] = "ended"

\* Command by command.
LEMMA SeenSuffices == ListenersConverge <=> \A k \in Keys : Seen(k)
BY DEF ListenersConverge, Seen, Running

\* After a notification, the listeners know of the registry and the trackers
\* that were shown to them.
LEMMA NotifiedSees ==
    ASSUME NEW reg, NEW live, Notify(reg, live), NEW k \in Keys,
           status # "unloaded"
    PROVE  shown'[k] = (reg[k] \in live)
BY DEF Notify, Running

\* A notification that shows the registry as it stays, and the trackers up to
\* one that has just ended.
LEMMA EndSeen ==
    ASSUME TypeOK, NEW r \in Live, UNCHANGED <<status, tasks>>,
           tracker' = [tracker EXCEPT ![r] = "ended"], Notify(tasks, Live),
           NEW k \in Keys
    PROVE  Seen(k)'
<1>1. status # "unloaded" => shown'[k] = (tasks[k] \in Live)
  BY NotifiedSees
<1>2. /\ r \in Runs /\ tracker'[r] = "ended"
      /\ \A s \in Runs : s # r => tracker'[s] = tracker[s]
  BY DEF Live, TypeOK
<1>3. CASE tasks[k] = r
  BY <1>2, <1>3 DEF Seen
<1>4. CASE tasks[k] # r
  <2>1. (tasks[k] \in Live) <=> (tasks[k] \in Live')
    BY <1>2, <1>4 DEF Live
  <2>2. (tasks[k] \in Live) = (tasks[k] \in Live')
    BY <2>1
  <2>. QED  BY <1>1, <2>2 DEF Seen
<1>. QED  BY <1>3, <1>4

\* A step after which the same trackers live and have ended.
LEMMA SameSeen ==
    ASSUME ListenersConverge, UNCHANGED <<status, tasks, shown>>, Live' = Live,
           \A r \in Runs : tracker[r] = "ended" => tracker'[r] = "ended",
           NEW k \in Keys
    PROVE  Seen(k)'
<1>1. Seen(k)
  BY SeenSuffices
<1>. QED  BY <1>1 DEF Seen

\* No step of a tracker hides from the listeners what it does.
LEMMA TrackerSeen ==
    ASSUME Inv, ListenersConverge, NEW r \in Runs, TrackerStep(r), NEW k \in Keys
    PROVE  Seen(k)'
<1>1. TypeOK /\ RunInv
  BY DEF Inv
<1>2. UNCHANGED <<status, runKey>>
  BY TrackerFrame
<1>3. ASSUME Fail(r), r \in Live PROVE Seen(k)'
  BY <1>1, <1>2, <1>3, EndSeen DEF Fail
<1>4. ASSUME tracker[r] \in {"sleep", "get"}, tracker'[r] \in {"sleep", "get"},
             tracker' = [tracker EXCEPT ![r] = tracker'[r]],
             UNCHANGED <<tasks, shown>>
      PROVE  Seen(k)'
  <2>1. \A s \in Runs : s # r => tracker'[s] = tracker[s]
    BY <1>1, <1>4 DEF TypeOK
  <2>2. Live' = Live
    BY <1>4, <2>1 DEF Live
  <2>3. \A s \in Runs : tracker[s] = "ended" => tracker'[s] = "ended"
    BY <1>4, <2>1
  <2>. QED  BY <1>2, <1>4, <2>2, <2>3, SameSeen
<1>5. /\ tracker' = [tracker EXCEPT ![r] = tracker'[r]]
      /\ \A s \in Runs : s # r => tracker'[s] = tracker[s]
  BY TrackerFrame, OthersStay
<1>6. CASE Poll(r) \/ Fetch(r)
  BY <1>1, <1>4, <1>5, <1>6 DEF Poll, Fetch, TypeOK
<1>7. CASE Timeout(r)
  BY <1>3, <1>7 DEF Timeout, Live
<1>8. CASE Observe(r)
  <2>1. Stores(r)
    BY <1>1, <1>8, ObserveStores
  <2>2. Live' = Live
    BY <1>5, <2>1 DEF Live, Stores
  <2>3. status # "unloaded" => shown'[k] = (tasks[k] \in Live)
    BY <1>8, NotifiedSees DEF Observe
  <2>. QED  BY <1>2, <1>8, <2>2, <2>3 DEF Observe, Seen
<1>9. CASE PollError(r)
  <2>1. CASE Fail(r)
    BY <1>3, <1>9, <2>1 DEF PollError, Live
  <2>2. CASE ~Fail(r)
    BY <1>1, <1>4, <1>5, <1>9, <2>2 DEF PollError, TypeOK
  <2>. QED  BY <2>1, <2>2
<1>10. CASE CallbackReturns(r)
  <2>1. CASE tracker[r] = "refreshFail" /\ Fail(r)
    BY <1>3, <2>1 DEF Live
  <2>2. CASE ~(tracker[r] = "refreshFail" /\ Fail(r))
    <3>1. r \in Live
      BY <1>10, <2>2 DEF CallbackReturns, Live
    <3>. QED  BY <1>1, <1>10, <2>2, <3>1, EndSeen DEF CallbackReturns
  <2>. QED  BY <2>1, <2>2
<1>11. CASE Cancelled(r)
  BY <1>1, <1>11, EndSeen DEF Cancelled
<1>12. CASE TrackerDone(r)
  <2>1. tracker[r] = "ended" /\ tracker'[r] = "gone"
    BY <1>1, <1>12 DEF TrackerDone, TypeOK
  <2>2. Live' = Live
    BY <1>5, <2>1 DEF Live
  <2>3. CASE tasks[runKey[r]] = r
    <3>1. Notify(tasks', Live)
      BY <1>12, <2>3 DEF TrackerDone
    <3>2. status # "unloaded" => shown'[k] = (tasks'[k] \in Live)
      BY <3>1, NotifiedSees
    <3>. QED  BY <1>2, <2>2, <3>2 DEF Seen
  <2>4. CASE tasks[runKey[r]] # r
    <3>1. UNCHANGED <<tasks, shown>>
      BY <1>12, <2>4 DEF TrackerDone
    <3>2. tasks[k] # r
      BY <1>1, <2>4 DEF RunInv
    <3>3. Seen(k)
      BY SeenSuffices
    <3>4. tasks[k] \in Runs => tracker'[tasks[k]] = tracker[tasks[k]]
      BY <1>5, <3>2
    <3>. QED  BY <1>2, <2>2, <3>1, <3>3, <3>4 DEF Seen
  <2>. QED  BY <2>3, <2>4
<1>. QED
  BY <1>6, <1>7, <1>8, <1>9, <1>10, <1>11, <1>12 DEF TrackerStep

\* REQ-CMD-003: whoever listens to the task manager knows which commands run;
\* a tracker that has ended is still shown only until its done callback
\* (_notify_listeners, _async_tracker_done).
THEOREM ListenersSee == Spec => []ListenersConverge
<1>1. Init => ListenersConverge
  <2>. SUFFICES ASSUME Init, NEW k \in Keys PROVE Seen(k)
    BY SeenSuffices
  <2>1. shown[k] = FALSE /\ tasks[k] \notin Runs
    BY DEF Init
  <2>2. (tasks[k] \in Live) = FALSE
    BY <2>1 DEF Live
  <2>. QED  BY <2>1, <2>2 DEF Seen
<1>2. Inv /\ ListenersConverge /\ [Next]_vars => ListenersConverge'
  <2>. SUFFICES ASSUME Inv, ListenersConverge, [Next]_vars, NEW k \in Keys
                PROVE  Seen(k)'
    BY SeenSuffices DEF Seen, ListenersConverge, Running, Live
  <2>0. Seen(k)
    BY SeenSuffices
  <2>1. ASSUME UNCHANGED <<status, tasks, shown, tracker>> PROVE Seen(k)'
    BY <2>0, <2>1 DEF Seen, Live
  <2>2. ASSUME NEW c \in Callers, Track(c) PROVE Seen(k)'
    <3>. DEFINE r == call[c].run
    <3>1. r \in Runs /\ tracker' = [tracker EXCEPT ![r] = "sleep"]
      BY <2>2, TaskAssumption DEF Track, Inv, CallInv, TypeOK, TaskAssumption
    <3>2. Live' = Live \cup {r}
      BY <3>1 DEF Live, Inv, TypeOK
    <3>3. Notify(tasks', Live \cup {r}) /\ UNCHANGED status
      BY <2>2 DEF Track
    <3>. HIDE DEF r
    <3>4. status # "unloaded" => shown'[k] = (tasks'[k] \in Live')
      BY <3>2, <3>3, NotifiedSees
    <3>. QED  BY <3>3, <3>4 DEF Seen
  <2>3. ASSUME NEW r \in Runs, TrackerStep(r) PROVE Seen(k)'
    BY <2>3, TrackerSeen
  <2>4. CASE Unload
    <3>1. status # "unloaded" /\ UNCHANGED <<tasks, shown, tracker>>
      BY <2>4 DEF Unload
    <3>. QED  BY <2>0, <3>1 DEF Seen, Live
  <2>5. CASE UnloadDone
    BY <2>5 DEF UnloadDone, Seen
  <2>. QED  BY <2>1, <2>2, <2>3, <2>4, <2>5
       DEF Next, vars, Press, Accept, CallFails, JobMoves
<1>. QED  BY <1>1, <1>2, TypesHold, PTL DEF Spec

=============================================================================
