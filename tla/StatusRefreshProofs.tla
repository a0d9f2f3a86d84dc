------------------------ MODULE StatusRefreshProofs ------------------------
(***************************************************************************)
(* Proofs about StatusRefresh, for any commands and coordinators.          *)
(***************************************************************************)
EXTENDS StatusRefresh, TLAPS

USE RefreshAssumption DEF RefreshAssumption, Order, Returned

-----------------------------------------------------------------------------
(* The inductive invariant.                                                *)

\* A tracker past its polls has seen its jobs end.
EndInv == \A r \in Runs : at[r] # 0 => r \in ended

\* A tracker awaits a refresh that is under way and shows its run, if anything.
WaitInv ==
    \A r \in waits :
        /\ at[r] \in Order
        /\ fetch[at[r]] # "idle"
        /\ fetch[at[r]] = "read" => r \in saw[at[r]]

\* No refresh is under way in a cooldown.
TimerInv == \A c \in Order : timer[c] # "off" => fetch[c] = "idle"

\* An answer on its way shows every run that has asked, but for those whose
\* request was dropped because of it.
ReadInv ==
    \A r \in Runs : \A c \in Order :
        at[r] > c /\ fetch[c] = "read" => r \in saw[c] \cup missed[c]

Inv == TypeOK /\ EndInv /\ WaitInv /\ TimerInv /\ ReadInv

-----------------------------------------------------------------------------
(* The types.                                                              *)

LEMMA TypesKept ==
    ASSUME TypeOK, [Next]_vars
    PROVE  TypeOK'
<1>. USE DEF TypeOK, trackers
<1>1. ASSUME NEW r \in Runs, JobEnds(r) \/ Observe(r) PROVE TypeOK'
  <2>1. ended' \subseteq Runs /\ at' \in [Runs -> 0..Returned]
    BY <1>1 DEF JobEnds, Observe
  <2>2. UNCHANGED <<waits, fetch, asked, saw, data, ok, timer, missed>>
    BY <1>1 DEF JobEnds, Observe
  <2>. QED  BY <2>1, <2>2
<1>2. ASSUME NEW r \in Runs, NEW c \in Order, PutOff(r, c) PROVE TypeOK'
  BY <1>2 DEF PutOff
<1>3. ASSUME NEW r \in Runs, NEW c \in Order, Drop(r, c) PROVE TypeOK'
  <2>1. missed' \in [Order -> SUBSET Runs]
    BY <1>3 DEF Drop
  <2>2. at' \in [Runs -> 0..Returned]
    BY <1>3 DEF Drop
  <2>. QED  BY <1>3, <2>1, <2>2 DEF Drop
<1>4. ASSUME NEW r \in Runs, NEW c \in Order, AskNow(r, c) PROVE TypeOK'
  BY <1>4 DEF AskNow
<1>5. ASSUME NEW c \in Order, TimerEnds(c) PROVE TypeOK'
  BY <1>5 DEF TimerEnds
<1>6. ASSUME NEW c \in Order, Poll(c) \/ Serve(c) PROVE TypeOK'
  <2>1. CASE Poll(c)
    BY <2>1 DEF Poll
  <2>2. CASE Serve(c)
    <3>1. saw' \in [Order -> SUBSET Runs]
      BY <2>2 DEF Serve
    <3>. QED  BY <2>2, <3>1 DEF Serve
  <2>. QED  BY <1>6, <2>1, <2>2
<1>7. ASSUME NEW c \in Order, RefreshEnds(c)
      PROVE  /\ at' \in [Runs -> 0..Returned] /\ waits' \subseteq Runs
             /\ fetch' \in [Order -> {"idle", "sent", "read"}]
             /\ asked' \subseteq Order
             /\ saw' \in [Order -> SUBSET Runs]
             /\ timer' \in [Order -> {"off", "cooling", "again"}]
  <2>1. at' \in [Runs -> 0..Returned] /\ waits' \subseteq Runs
    BY <1>7 DEF RefreshEnds
  <2>2. fetch' \in [Order -> {"idle", "sent", "read"}] /\ asked' \subseteq Order
    BY <1>7 DEF RefreshEnds
  <2>3. saw' \in [Order -> SUBSET Runs]
    BY <1>7 DEF RefreshEnds
  <2>4. timer' \in [Order -> {"off", "cooling", "again"}]
    BY <1>7 DEF RefreshEnds
  <2>. QED  BY <2>1, <2>2, <2>3, <2>4
<1>8. ASSUME NEW c \in Order, Reply(c) PROVE TypeOK'
  BY <1>7, <1>8 DEF Reply
<1>9. ASSUME NEW c \in Order, Fails(c) PROVE TypeOK'
  BY <1>7, <1>9 DEF Fails
<1>10. CASE UNCHANGED vars
  BY <1>10 DEF vars
<1>. QED  BY <1>1, <1>2, <1>3, <1>4, <1>5, <1>6, <1>8, <1>9, <1>10 DEF Next, TrackerStep

-----------------------------------------------------------------------------
(* The steps, one lemma for each.                                          *)

\* What the invariants and the property say together.
Good == Inv /\ OnlyDroppedIsStale

Parts == /\ EndInv /\ WaitInv /\ TimerInv /\ ReadInv /\ OnlyDroppedIsStale

\* A run ends, or its tracker notices.
LEMMA RunStep ==
    ASSUME Good, TypeOK', NEW r \in Runs, JobEnds(r) \/ Observe(r)
    PROVE  Parts'
<1>. USE DEF Good, Inv, TypeOK
<1>1. CASE JobEnds(r)
  BY <1>1 DEF JobEnds, trackers, Parts, EndInv, WaitInv, TimerInv, ReadInv,
              OnlyDroppedIsStale, Covered
<1>2. CASE Observe(r)
  <2>1. /\ r \notin waits /\ r \in ended /\ at[r] = 0
        /\ at' = [at EXCEPT ![r] = 1]
        /\ UNCHANGED <<ended, waits, fetch, asked, saw, data, ok, timer, missed>>
    BY <1>2 DEF Observe, WaitInv
  <2>2. EndInv' /\ WaitInv' /\ TimerInv'
    BY <2>1 DEF EndInv, WaitInv, TimerInv
  <2>3. \A s \in Runs : \A c \in Order : at'[s] > c => at[s] > c
    BY <2>1
  <2>4. ReadInv' /\ OnlyDroppedIsStale'
    BY <2>1, <2>3 DEF ReadInv, OnlyDroppedIsStale, Covered
  <2>. QED  BY <2>2, <2>4 DEF Parts
<1>. QED  BY <1>1, <1>2

\* A request that is put off or dropped moves its tracker past the coordinator.
LEMMA RequestStep ==
    ASSUME Good, TypeOK', NEW r \in Runs, NEW c \in Order,
           PutOff(r, c) \/ Drop(r, c)
    PROVE  Parts'
<1>. USE DEF Good, Inv, TypeOK
<1>1. /\ at[r] = c /\ r \notin waits
      /\ at' = [at EXCEPT ![r] = c + 1]
      /\ UNCHANGED <<ended, waits, fetch, asked, saw, data, ok>>
  BY DEF PutOff, Drop, Asking
<1>2. EndInv' /\ WaitInv'
  BY <1>1 DEF EndInv, WaitInv
<1>3. \A s \in Runs : \A d \in Order : at'[s] > d => at[s] > d \/ (s = r /\ d = c)
  BY <1>1
<1>4. CASE PutOff(r, c)
  <2>1. timer[c] # "off" /\ timer' = [timer EXCEPT ![c] = "again"] /\ UNCHANGED missed
    BY <1>4 DEF PutOff
  <2>2. TimerInv' /\ fetch[c] = "idle"
    BY <1>1, <2>1 DEF TimerInv
  <2>3. ReadInv'
    BY <1>1, <1>3, <2>1, <2>2 DEF ReadInv
  <2>4. OnlyDroppedIsStale'
    BY <1>1, <1>3, <2>1 DEF OnlyDroppedIsStale, Covered
  <2>. QED  BY <1>2, <2>2, <2>3, <2>4 DEF Parts
<1>5. CASE Drop(r, c)
  <2>1. /\ timer[c] = "off" /\ fetch[c] # "idle" /\ UNCHANGED timer
        /\ missed' = [missed EXCEPT ![c] =
                        IF fetch[c] = "read" THEN @ \cup ({r} \ saw[c]) ELSE @]
    BY <1>5 DEF Drop
  <2>2. /\ \A d \in Order : missed[d] \subseteq missed'[d]
        /\ fetch[c] = "read" => r \in saw[c] \cup missed'[c]
    BY <2>1
  <2>3. TimerInv' /\ ReadInv'
    BY <1>1, <1>3, <2>1, <2>2 DEF TimerInv, ReadInv
  <2>4. OnlyDroppedIsStale'
    <3>. SUFFICES ASSUME NEW s \in Runs, NEW d \in Order, at'[s] > d
                  PROVE  Covered(s, d)' \/ s \in missed'[d]
      BY DEF OnlyDroppedIsStale
    <3>1. CASE at[s] > d
      BY <1>1, <2>1, <2>2, <3>1 DEF OnlyDroppedIsStale, Covered
    <3>2. CASE s = r /\ d = c
      BY <1>1, <2>1, <2>2, <3>2 DEF Covered
    <3>. QED  BY <1>3, <3>1, <3>2
  <2>. QED  BY <1>2, <2>3, <2>4 DEF Parts
<1>. QED  BY <1>4, <1>5

\* A refresh starts, on request, after a cooldown or at its interval.
LEMMA StartStep ==
    ASSUME Good, TypeOK', NEW c \in Order,
           (\E r \in Runs : AskNow(r, c)) \/ TimerEnds(c) \/ Poll(c)
    PROVE  Parts'
<1>. USE DEF Good, Inv, TypeOK
<1>1. CASE (\E r \in Runs : AskNow(r, c)) \/ Poll(c) \/ (TimerEnds(c) /\ timer[c] = "again")
  <2>1. /\ fetch[c] = "idle"
        /\ fetch' = [fetch EXCEPT ![c] = "sent"]
        /\ \A d \in Order : d # c => timer'[d] = timer[d]
        /\ timer'[c] = "off"
        /\ UNCHANGED <<ended, at, saw, data, ok, missed>>
    BY <1>1 DEF AskNow, Poll, TimerEnds, TimerInv, trackers
  <2>2. \/ UNCHANGED waits
        \/ \E r \in Runs : at[r] = c /\ waits' = waits \cup {r}
    BY <1>1 DEF AskNow, Asking, Poll, TimerEnds, trackers
  <2>3. EndInv' /\ TimerInv' /\ ReadInv'
    BY <2>1 DEF EndInv, TimerInv, ReadInv
  <2>4. WaitInv'
    BY <2>1, <2>2 DEF WaitInv
  <2>5. OnlyDroppedIsStale'
    BY <2>1 DEF OnlyDroppedIsStale, Covered
  <2>. QED  BY <2>3, <2>4, <2>5 DEF Parts
<1>2. CASE TimerEnds(c) /\ timer[c] # "again"
  <2>1. /\ timer' = [timer EXCEPT ![c] = "off"]
        /\ UNCHANGED <<ended, at, waits, fetch, asked, saw, data, ok, missed>>
    BY <1>2 DEF TimerEnds, trackers
  <2>. QED  BY <1>2, <2>1 DEF Parts, EndInv, WaitInv, TimerInv, ReadInv,
                              OnlyDroppedIsStale, Covered
<1>. QED  BY <1>1, <1>2

\* The backend answers with the runs that have ended, which are all that asked.
LEMMA ServeStep ==
    ASSUME Good, TypeOK', NEW c \in Order, Serve(c)
    PROVE  Parts'
<1>. USE DEF Good, Inv, TypeOK
<1>1. /\ fetch[c] = "sent" /\ fetch' = [fetch EXCEPT ![c] = "read"]
      /\ saw' = [saw EXCEPT ![c] = ended]
      /\ UNCHANGED <<ended, at, waits, asked, data, ok, timer, missed>>
  BY DEF Serve, trackers
<1>2. \A r \in Runs : at[r] > 0 => r \in ended
  BY DEF EndInv
<1>3. EndInv' /\ TimerInv'
  BY <1>1 DEF EndInv, TimerInv
<1>4. WaitInv'
  BY <1>1, <1>2 DEF WaitInv
<1>5. ReadInv' /\ OnlyDroppedIsStale'
  BY <1>1, <1>2 DEF ReadInv, OnlyDroppedIsStale, Covered
<1>. QED  BY <1>3, <1>4, <1>5 DEF Parts

\* A refresh ends, with an answer or without.
LEMMA EndStep ==
    ASSUME Good, TypeOK', NEW c \in Order, Reply(c) \/ Fails(c)
    PROVE  Parts'
<1>. USE DEF Good, Inv, TypeOK
<1>. DEFINE awaiting == {r \in waits : at[r] = c}
<1>1. /\ fetch[c] # "idle" /\ fetch' = [fetch EXCEPT ![c] = "idle"]
      /\ saw' = [saw EXCEPT ![c] = {}]
      /\ \A d \in Order : d # c => timer'[d] = timer[d]
      /\ waits' = waits \ awaiting
      /\ at' = [r \in Runs |-> IF r \in awaiting THEN c + 1 ELSE at[r]]
      /\ UNCHANGED ended
  BY DEF Reply, Fails, RefreshEnds
<1>2. /\ \A r \in Runs : at'[r] # 0 => at[r] # 0
      /\ \A r \in waits' : at'[r] = at[r] /\ at[r] # c
      /\ \A r \in Runs : \A d \in Order :
            at'[r] > d => at[r] > d \/ (r \in awaiting /\ d = c)
  BY <1>1
<1>3. EndInv' /\ TimerInv'
  BY <1>1, <1>2 DEF EndInv, TimerInv
<1>4. WaitInv'
  BY <1>1, <1>2 DEF WaitInv
<1>5. \A d \in Order : d # c => /\ data'[d] = data[d] /\ ok'[d] = ok[d]
                                /\ missed'[d] = missed[d]
  BY DEF Reply, Fails
<1>6. ReadInv'
  BY <1>1, <1>2, <1>5 DEF ReadInv
<1>7. OnlyDroppedIsStale'
  <2>. SUFFICES ASSUME NEW r \in Runs, NEW d \in Order, at'[r] > d
                PROVE  Covered(r, d)' \/ r \in missed'[d]
    BY DEF OnlyDroppedIsStale
  <2>1. CASE d # c
    <3>1. at[r] > d
      BY <1>2, <2>1
    <3>. QED  BY <1>1, <1>5, <2>1, <3>1 DEF OnlyDroppedIsStale, Covered
  <2>2. CASE d = c /\ Reply(c)
    <3>1. /\ fetch[c] = "read" /\ data'[c] = saw[c]
          /\ missed'[c] = missed[c] \ saw[c]
      BY <2>2 DEF Reply
    <3>2. r \in saw[c] \cup missed[c]
      <4>1. CASE at[r] > c
        BY <3>1, <4>1 DEF ReadInv
      <4>2. CASE r \in awaiting
        BY <3>1, <4>2 DEF WaitInv
      <4>. QED  BY <1>2, <2>2, <4>1, <4>2
    <3>. QED  BY <2>2, <3>1, <3>2 DEF Covered
  <2>3. CASE d = c /\ Fails(c)
    BY <2>3 DEF Fails, Covered
  <2>. QED  BY <2>1, <2>2, <2>3
<1>. QED  BY <1>3, <1>4, <1>6, <1>7 DEF Parts

-----------------------------------------------------------------------------
(* The theorems.                                                           *)

LEMMA GoodStep ==
    ASSUME Good, [Next]_vars
    PROVE  Good'
<1>1. TypeOK'
  BY TypesKept DEF Good, Inv
<1>2. ASSUME NEW r \in Runs, JobEnds(r) \/ TrackerStep(r) PROVE Parts'
  <2>1. CASE JobEnds(r) \/ Observe(r)
    BY <1>1, <2>1, RunStep
  <2>2. ASSUME NEW c \in Order, PutOff(r, c) \/ Drop(r, c) PROVE Parts'
    BY <1>1, <2>2, RequestStep
  <2>3. ASSUME NEW c \in Order, AskNow(r, c) PROVE Parts'
    BY <1>1, <2>3, StartStep
  <2>. QED  BY <1>2, <2>1, <2>2, <2>3 DEF TrackerStep
<1>3. ASSUME NEW c \in Order,
             TimerEnds(c) \/ Poll(c) \/ Serve(c) \/ Reply(c) \/ Fails(c)
      PROVE  Parts'
  BY <1>1, <1>3, StartStep, ServeStep, EndStep
<1>4. ASSUME UNCHANGED vars PROVE Parts'
  <2>1. UNCHANGED <<ended, at, waits, fetch, asked, saw, data, ok, timer, missed>>
    BY <1>4 DEF vars, trackers
  <2>2. EndInv' /\ WaitInv' /\ TimerInv' /\ ReadInv'
    BY <2>1 DEF Good, Inv, EndInv, WaitInv, TimerInv, ReadInv
  <2>3. OnlyDroppedIsStale'
    BY <2>1 DEF Good, OnlyDroppedIsStale, Covered
  <2>. QED  BY <2>2, <2>3 DEF Parts
<1>5. Parts'
  <2>1. CASE \E r \in Runs : JobEnds(r) \/ TrackerStep(r)
    BY <1>2, <2>1
  <2>2. CASE \E c \in Order :
                TimerEnds(c) \/ Poll(c) \/ Serve(c) \/ Reply(c) \/ Fails(c)
    BY <1>3, <2>2
  <2>. QED  BY <1>4, <2>1, <2>2 DEF Next
<1>. QED  BY <1>1, <1>5 DEF Good, Inv, Parts

\* The invariant and the property, which carries itself with it.
THEOREM RefreshHolds == Spec => []Good
<1>1. Init => Good
  BY DEF Init, Good, Inv, TypeOK, EndInv, WaitInv, TimerInv, ReadInv,
         OnlyDroppedIsStale
<1>2. Good /\ [Next]_vars => Good'
  BY GoodStep
<1>. QED  BY <1>1, <1>2, PTL DEF Spec

\* Trackers, coordinators and debouncers keep their types.
THEOREM RefreshTypes == Spec => []TypeOK
<1>1. Good => TypeOK
  BY DEF Good, Inv
<1>. QED  BY <1>1, RefreshHolds, PTL

\* A coordinator that a finished command has asked (_refresh_runtime) shows its
\* outcome, has failed, or will read the backend again by itself, unless it
\* dropped the request for an answer that was already on its way.
THEOREM StaleOnlyIfDropped == Spec => []OnlyDroppedIsStale
<1>1. Good => OnlyDroppedIsStale
  BY DEF Good
<1>. QED  BY <1>1, RefreshHolds, PTL

=============================================================================
