----------------------------- MODULE UiPageProofs -----------------------------
(***************************************************************************)
(* The poller of the management page: proofs of its type invariant and its *)
(* three safety properties, for any number of flows under way.             *)
(*                                                                         *)
(* Each function of the script is shown once, as a function of the page,   *)
(* to keep the poller solid; the steps of the specification then only      *)
(* have to be reduced to these functions.                                  *)
(***************************************************************************)
EXTENDS UiPage, TLAPS

Pages == [ingress : BOOLEAN, connected : BOOLEAN,
          label : {"off", "connecting", "on"},
          data : {"none", "quiet", "active"}, from : {"list", "route"},
          timer : BOOLEAN, flight : BOOLEAN, busy : BOOLEAN]

Flows == [pc : {"idle", "login", "session", "lists", "job", "post", "edit",
                "logout"},
          reply : Replied, jobs : {"none", "quiet", "active"}, was : BOOLEAN]

\* Never a timer while a poll is in flight.
Single(p) == ~(p.timer /\ p.flight)

\* A timer is set for something only.
Wanted(p) == p.timer => p.connected /\ p.data = "active"

\* What is listed as active is polled.
Listed(p) == p.connected /\ p.data = "active" /\ p.from = "list" =>
                p.timer \/ p.flight

Solid(p) == p \in Pages /\ Single(p) /\ Wanted(p)

-----------------------------------------------------------------------------
(* The functions of the script.                                            *)

\* Whatever the label and the button show, the poller does not look at them.
LEMMA Cosmetics ==
  ASSUME NEW p \in Pages, NEW b \in BOOLEAN
  PROVE  LET q == [p EXCEPT !.busy = b]
             s == SetConnecting(p)
         IN  /\ q \in Pages /\ q.flight = p.flight
             /\ Solid(p) => Solid(q)
             /\ Listed(p) => Listed(q)
             /\ s \in Pages /\ s.flight = p.flight
             /\ Solid(p) => Solid(s)
             /\ Listed(p) => Listed(s)
  BY DEF Pages, SetConnecting, Solid, Single, Wanted, Listed

LEMMA StopKeeps ==
  ASSUME NEW p \in Pages
  PROVE  Solid(StopPolling(p)) /\ StopPolling(p).flight = p.flight
  BY DEF Pages, StopPolling, Solid, Single, Wanted

\* Scheduling leaves no listed job unpolled.
LEMMA ScheduleKeeps ==
  ASSUME NEW p, Solid(p)
  PROVE  LET q == SchedulePolling(p)
         IN  Solid(q) /\ Listed(q) /\ q.flight = p.flight
  BY DEF Pages, SchedulePolling, Solid, Single, Wanted, Listed

LEMMA SyncKeeps ==
  ASSUME NEW p \in Pages, Single(p)
  PROVE  LET q == SyncPolling(p)
         IN  Solid(q) /\ Listed(q) /\ q.flight = p.flight
<1>1. CASE p.connected /\ p.data = "active"
  <2>1. Solid(p)
    BY <1>1 DEF Solid, Wanted
  <2> QED
    BY <1>1, <2>1, ScheduleKeeps DEF SyncPolling
<1>2. CASE ~(p.connected /\ p.data = "active")
  BY <1>2 DEF Pages, SyncPolling, StopPolling, Solid, Single, Wanted, Listed
<1> QED
  BY <1>1, <1>2

LEMMA DisconnectKeeps ==
  ASSUME NEW p \in Pages
  PROVE  LET q == SetDisconnected(p)
         IN  Solid(q) /\ Listed(q) /\ q.flight = p.flight
  BY DEF Pages, SetDisconnected, StopPolling, Solid, Single, Wanted, Listed

LEMMA ConnectedKeeps ==
  ASSUME NEW p, Solid(p)
  PROVE  LET q == SetConnected(p)
         IN  Solid(q) /\ Listed(q) /\ q.flight = p.flight
<1> DEFINE r == [p EXCEPT !.connected = TRUE, !.label = "on"]
<1>1. r \in Pages /\ Single(r) /\ r.flight = p.flight
  BY DEF Pages, Solid, Single
<1> HIDE DEF r
<1>2. SetConnected(p) = SyncPolling(r)
  BY DEF SetConnected, r
<1> QED
  BY <1>1, <1>2, SyncKeeps

LEMMA RenderKeeps ==
  ASSUME NEW p, Solid(p), NEW jobs \in {"none", "quiet", "active"}
  PROVE  LET q == Render(p, jobs)
         IN  Solid(q) /\ Listed(q) /\ q.flight = p.flight
<1> DEFINE r == [p EXCEPT !.data = jobs, !.from = "list"]
<1>1. r \in Pages /\ Single(r) /\ r.flight = p.flight
  BY DEF Pages, Solid, Single
<1> HIDE DEF r
<1>2. Render(p, jobs) = SyncPolling(r)
  BY DEF Render, r
<1> QED
  BY <1>1, <1>2, SyncKeeps

\* A job put in front of the list comes from its address, not from a list.
LEMMA RouteKeeps ==
  ASSUME NEW p, Solid(p), NEW job \in {"none", "quiet", "active"}
  PROVE  LET q == WithRouteJob(p, job)
         IN  Solid(q) /\ (Listed(p) => Listed(q)) /\ q.flight = p.flight
<1> DEFINE q == [p EXCEPT !.data = job, !.from = "route"]
<1>1. CASE job = "none" \/ p.data = "active"
  BY <1>1 DEF WithRouteJob
<1>2. CASE ~(job = "none" \/ p.data = "active")
  <2>1. /\ q \in Pages /\ q.timer = p.timer /\ q.flight = p.flight
        /\ q.from = "route"
    BY DEF Solid, Pages
  <2>2. ~p.timer
    BY <1>2 DEF Solid, Wanted
  <2> HIDE DEF q
  <2>3. Solid(q) /\ Listed(q)
    BY <2>1, <2>2 DEF Solid, Single, Wanted, Listed
  <2>4. WithRouteJob(p, job) = q
    BY <1>2 DEF WithRouteJob, q
  <2> QED
    BY <2>1, <2>3, <2>4
<1> QED
  BY <1>1, <1>2

-----------------------------------------------------------------------------
(* The page and the flows.                                                 *)

\* The page is solid, the poll in flight is the poll flow, and listed jobs are
\* polled unless a logout is under way.
PageInv == /\ Solid(page)
           /\ page.flight <=> flow["poll"].pc # "idle"
           /\ Listed(page) \/ flow["logout"].pc # "idle"

UiInv == /\ session \in BOOLEAN
         /\ work \in {"quiet", "active"}
         /\ flow \in [Kinds -> Flows]
         /\ PageInv

LEMMA AwaitType ==
  /\ Idle \in Flows /\ Idle.pc = "idle"
  /\ \A pc \in {"login", "session", "lists", "job", "post", "edit", "logout"},
        was \in BOOLEAN :
        Await(pc, was) \in Flows /\ Await(pc, was).pc = pc
<1>1. Idle \in Flows /\ Idle.pc = "idle"
  BY DEF Idle, Flows, Replied
<1>2. ASSUME NEW pc \in {"login", "session", "lists", "job", "post", "edit", "logout"},
             NEW was \in BOOLEAN
      PROVE  Await(pc, was) \in Flows /\ Await(pc, was).pc = pc
  BY <1>1 DEF Await, Flows
<1> QED
  BY <1>1, <1>2

\* The page and the flows as the script starts, standalone or under Ingress.
LEMMA FirstState ==
  ASSUME NEW i \in BOOLEAN
  PROVE  /\ Solid(FirstPage(i)) /\ Listed(FirstPage(i)) /\ ~FirstPage(i).flight
         /\ FirstFlow(i) \in [Kinds -> Flows] /\ FirstFlow(i)["poll"].pc = "idle"
<1>1. /\ FirstPage(i) \in Pages
      /\ ~FirstPage(i).connected /\ ~FirstPage(i).timer /\ ~FirstPage(i).flight
  BY DEF FirstPage, SetConnecting, Blank, Pages
<1>2. Solid(FirstPage(i)) /\ Listed(FirstPage(i))
  BY <1>1 DEF Solid, Single, Wanted, Listed
<1>3. FirstFlow(i) \in [Kinds -> Flows] /\ FirstFlow(i)["poll"].pc = "idle"
  BY AwaitType DEF FirstFlow, Kinds
<1> QED
  BY <1>1, <1>2, <1>3

LEMMA InitUiInv == Init => UiInv
  BY FirstState, UiAssumption DEF Init, UiInv, PageInv

\* A flow goes on or ends without the page: nothing of it depends on that flow
\* unless it is the poll or the logout.
LEMMA FlowStep ==
  ASSUME UiInv, NEW k \in Kinds, NEW f \in Flows, flow' = [flow EXCEPT ![k] = f],
         k \in {"poll", "logout"} => (f.pc = "idle" <=> flow[k].pc = "idle"),
         Solid(page'), page'.flight = page.flight,
         Listed(page) => Listed(page'),
         session' \in BOOLEAN, work' \in {"quiet", "active"}
  PROVE  UiInv'
<1>1. flow' \in [Kinds -> Flows]
  BY DEF UiInv
<1>2. \A i \in {"poll", "logout"} : flow'[i].pc = "idle" <=> flow[i].pc = "idle"
  BY DEF UiInv, Kinds
<1> QED
  BY <1>1, <1>2 DEF UiInv, PageInv

LEMMA ServeKeeps ==
  ASSUME UiInv, NEW k \in Kinds, Serve(k) \/ Lose(k)
  PROVE  UiInv'
<1>0. flow[k] \in Flows /\ Solid(page) /\ flow \in [Kinds -> Flows]
  BY DEF UiInv, PageInv
<1>1. \E r \in Replied, j \in {"none", "quiet", "active"} :
         flow' = [flow EXCEPT ![k] = [flow[k] EXCEPT !.reply = r, !.jobs = j]]
  <2>00. flow[k].jobs \in {"none", "quiet", "active"}
    BY <1>0 DEF Flows
  <2>0. \A r : [flow[k] EXCEPT !.reply = r] =
                  [flow[k] EXCEPT !.reply = r, !.jobs = flow[k].jobs]
    BY <1>0 DEF Flows
  <2>1. \A r \in Replied : Replies(k, r) =>
           flow' = [flow EXCEPT ![k] = [flow[k] EXCEPT !.reply = r, !.jobs = flow[k].jobs]]
    BY <1>0, <2>0 DEF Replies
  <2>2. "ok" \in Replied /\ "denied" \in Replied /\ "error" \in Replied
    BY DEF Replied
  <2>3. CASE ServeLogin(k) \/ ServeLogout(k) \/ ServeEmpty(k) \/ ServeAction(k)
    <3>1. Replies(k, "ok") \/ Replies(k, "denied")
      BY <2>3 DEF ServeLogin, ServeLogout, ServeEmpty, ServeAction
    <3>2. PICK r \in Replied : Replies(k, r)
      BY <2>2, <3>1
    <3>3. flow' = [flow EXCEPT ![k] = [flow[k] EXCEPT !.reply = r, !.jobs = flow[k].jobs]]
      BY <2>1, <3>2
    <3> QED
      BY <2>00, <3>3
  <2>4. \A r, j : flow' = [flow EXCEPT ![k].reply = r, ![k].jobs = j] =>
           flow' = [flow EXCEPT ![k] = [flow[k] EXCEPT !.reply = r, !.jobs = j]]
    BY <1>0
  <2>5. CASE ServeLists(k)
    <3>1. PICK r \in Replied, j \in {"none", "quiet", "active"} :
             flow' = [flow EXCEPT ![k].reply = r, ![k].jobs = j]
      BY <2>2, <2>5 DEF ServeLists, UiInv
    <3>2. flow' = [flow EXCEPT ![k] = [flow[k] EXCEPT !.reply = r, !.jobs = j]]
      BY <2>4, <3>1
    <3> QED
      BY <3>2
  <2>6. CASE ServeJob(k)
    <3>1. PICK r \in Replied, j \in {"none", "quiet", "active"} :
             flow' = [flow EXCEPT ![k].reply = r, ![k].jobs = j]
      BY <2>2, <2>6 DEF ServeJob, UiInv
    <3>2. flow' = [flow EXCEPT ![k] = [flow[k] EXCEPT !.reply = r, !.jobs = j]]
      BY <2>4, <3>1
    <3> QED
      BY <3>2
  <2>7. CASE Lose(k)
    BY <2>2, <2>4, <2>7 DEF Lose
  <2> QED
    BY <2>3, <2>5, <2>6, <2>7 DEF Serve
<1>2. PICK r \in Replied, j \in {"none", "quiet", "active"} :
         flow' = [flow EXCEPT ![k] = [flow[k] EXCEPT !.reply = r, !.jobs = j]]
  BY <1>1
<1> DEFINE f == [flow[k] EXCEPT !.reply = r, !.jobs = j]
<1>3. f \in Flows /\ f.pc = flow[k].pc
  BY <1>0 DEF Flows
<1>4. /\ page' = page /\ session' \in BOOLEAN /\ work' \in {"quiet", "active"}
  BY DEF UiInv, Serve, ServeLogin, ServeLogout, ServeEmpty, ServeAction, ServeLists,
         ServeJob, Lose
<1> HIDE DEF f
<1>5. flow' = [flow EXCEPT ![k] = f]
  BY <1>2 DEF f
<1> QED
  BY <1>0, <1>3, <1>4, <1>5, FlowStep

\* The last reply of a refresh, and a refusal.
LEMMA AllKeeps ==
  ASSUME UiInv, NEW k \in Kinds
  PROVE  LET q == WithAll(k)
             d == AfterRefusal(k)
         IN  /\ Solid(q) /\ (Listed(page) => Listed(q)) /\ q.flight = page.flight
             /\ Solid(d) /\ (Listed(page) => Listed(d)) /\ d.flight = page.flight
<1>1. flow[k].jobs \in {"none", "quiet", "active"} /\ Solid(page) /\ page \in Pages
  BY DEF UiInv, PageInv, Flows, Solid
<1> QED
  BY <1>1, RenderKeeps, RouteKeeps, DisconnectKeeps DEF WithAll, AfterRefusal

\* An action, a route or a connection goes on or ends: the page becomes one
\* that keeps its poller.
LEMMA ReplyStep ==
  ASSUME UiInv, NEW k \in Kinds \ {"poll", "logout"},
         \/ Ends(k)
         \/ \E pc \in {"login", "session", "lists", "job", "post", "edit", "logout"},
               was \in BOOLEAN : Starts(k, pc, was),
         Solid(page'), page'.flight = page.flight, Listed(page) => Listed(page'),
         UNCHANGED <<session, work>>
  PROVE  UiInv'
<1>1. PICK f \in Flows : flow' = [flow EXCEPT ![k] = f]
  BY AwaitType DEF Ends, Starts
<1> QED
  BY <1>1, FlowStep DEF UiInv

LEMMA ConnectKeeps ==
  ASSUME UiInv, ConnectClick \/ ConnectReply
  PROVE  UiInv'
<1> DEFINE k == "connect"
<1>0. /\ Solid(page) /\ page \in Pages /\ k \in Kinds \ {"poll", "logout"}
      /\ flow[k].was \in BOOLEAN /\ flow[k].jobs \in {"none", "quiet", "active"}
      /\ UNCHANGED <<session, work>>
  BY DEF UiInv, PageInv, Solid, Kinds, Flows, ConnectClick, ConnectReply
<1>1. CASE ConnectClick
  <2>1. page.connected \in BOOLEAN
    BY <1>0 DEF Pages
  <2>2. Starts(k, "lists", page.connected) \/ Starts(k, "login", page.connected)
    BY <1>1 DEF ConnectClick
  <2>3. /\ Solid(page') /\ page'.flight = page.flight
        /\ Listed(page) => Listed(page')
    BY <1>0, <1>1, Cosmetics DEF ConnectClick
  <2> QED
    BY <1>0, <2>1, <2>2, <2>3, ReplyStep
<1>2. CASE Got(k, "login", "ok") /\ Starts(k, "lists", FALSE) /\ UNCHANGED page
  BY <1>0, <1>2, ReplyStep
<1>3. CASE Got(k, "lists", "ok") /\ page' = Render(page, flow[k].jobs)
           /\ Starts(k, "job", flow[k].was)
  BY <1>0, <1>3, RenderKeeps, ReplyStep
<1>4. CASE /\ page' = [SetConnected(WithAll(k)) EXCEPT !.busy = FALSE]
           /\ Ends(k)
  <2>1. Solid(WithAll(k)) /\ WithAll(k).flight = page.flight
    BY <1>0, AllKeeps
  <2>2. /\ Solid(SetConnected(WithAll(k))) /\ Listed(SetConnected(WithAll(k)))
        /\ SetConnected(WithAll(k)).flight = page.flight
    BY <2>1, ConnectedKeeps
  <2>3. Solid(page') /\ Listed(page') /\ page'.flight = page.flight
    BY <1>4, <2>2, Cosmetics DEF Solid
  <2> QED
    BY <1>0, <1>4, <2>3, ReplyStep
<1>5. CASE /\ page' = [ConnectFailed(AfterRefusal(k), flow[k].was) EXCEPT !.busy = FALSE]
           /\ Ends(k)
  <2> DEFINE d == AfterRefusal(k)
  <2>1. Solid(d) /\ d.flight = page.flight /\ (Listed(page) => Listed(d)) /\ d \in Pages
    BY <1>0, AllKeeps DEF Solid
  <2> HIDE DEF d
  <2>2. LET c == ConnectFailed(d, flow[k].was)
        IN  Solid(c) /\ c.flight = page.flight /\ (Listed(page) => Listed(c))
    BY <2>1, ConnectedKeeps, DisconnectKeeps DEF ConnectFailed
  <2>3. /\ Solid(page') /\ page'.flight = page.flight
        /\ Listed(page) => Listed(page')
    BY <1>5, <2>2, Cosmetics DEF Solid, d
  <2> QED
    BY <1>0, <1>5, <2>3, ReplyStep
<1> QED
  BY <1>1, <1>2, <1>3, <1>4, <1>5 DEF ConnectReply

LEMMA InitKeeps ==
  ASSUME UiInv, InitReply
  PROVE  UiInv'
<1> DEFINE k == "init"
<1>0. /\ Solid(page) /\ page \in Pages /\ k \in Kinds \ {"poll", "logout"}
      /\ flow[k].jobs \in {"none", "quiet", "active"}
      /\ UNCHANGED <<session, work>>
  BY DEF UiInv, PageInv, Solid, Kinds, Flows, InitReply
<1>1. CASE /\ page' = [SetConnecting(page) EXCEPT !.busy = TRUE]
           /\ Starts(k, "lists", FALSE)
  <2>1. /\ Solid(page') /\ page'.flight = page.flight
        /\ Listed(page) => Listed(page')
    BY <1>0, <1>1, Cosmetics
  <2> QED
    BY <1>0, <1>1, <2>1, ReplyStep
<1>2. CASE UNCHANGED page /\ Ends(k)
  BY <1>0, <1>2, ReplyStep
<1>3. CASE page' = Render(page, flow[k].jobs) /\ Starts(k, "job", FALSE)
  BY <1>0, <1>3, RenderKeeps, ReplyStep
<1>4. CASE page' = [SetConnected(WithAll(k)) EXCEPT !.busy = FALSE] /\ Ends(k)
  <2>1. Solid(WithAll(k)) /\ WithAll(k).flight = page.flight
    BY <1>0, AllKeeps
  <2>2. /\ Solid(SetConnected(WithAll(k))) /\ Listed(SetConnected(WithAll(k)))
        /\ SetConnected(WithAll(k)).flight = page.flight
    BY <2>1, ConnectedKeeps
  <2>3. Solid(page') /\ Listed(page') /\ page'.flight = page.flight
    BY <1>4, <2>2, Cosmetics DEF Solid
  <2> QED
    BY <1>0, <1>4, <2>3, ReplyStep
<1>5. CASE page' = FirstLoadLost(AfterRefusal(k)) /\ Ends(k)
  <2> DEFINE d == AfterRefusal(k)
             e == IF d.ingress THEN d ELSE SetDisconnected(d)
  <2>1. Solid(d) /\ d.flight = page.flight /\ (Listed(page) => Listed(d)) /\ d \in Pages
    BY <1>0, AllKeeps DEF Solid
  <2>2. page' = [e EXCEPT !.busy = FALSE]
    BY <1>5 DEF FirstLoadLost
  <2> HIDE DEF d
  <2>3. Solid(e) /\ e.flight = page.flight /\ (Listed(page) => Listed(e))
    BY <2>1, DisconnectKeeps
  <2> HIDE DEF e
  <2>4. /\ Solid(page') /\ page'.flight = page.flight
        /\ Listed(page) => Listed(page')
    BY <2>2, <2>3, Cosmetics DEF Solid
  <2> QED
    BY <1>0, <1>5, <2>4, ReplyStep
<1> QED
  BY <1>1, <1>2, <1>3, <1>4, <1>5 DEF InitReply

\* The poll and the logout: the two flows the invariant speaks of.
LEMMA PollKeeps ==
  ASSUME UiInv, TimerFires \/ PollReply
  PROVE  UiInv'
<1>0. /\ Solid(page) /\ page \in Pages /\ "poll" \in Kinds /\ "logout" # "poll"
      /\ flow \in [Kinds -> Flows] /\ UNCHANGED <<session, work>>
  BY DEF UiInv, PageInv, Solid, Kinds, TimerFires, PollReply
<1>1. CASE TimerFires /\ page.connected /\ page.data = "active"
  <2>1. /\ page' = [page EXCEPT !.timer = FALSE, !.flight = TRUE]
        /\ flow' = [flow EXCEPT !["poll"] = Await("lists", FALSE)]
    BY <1>1 DEF TimerFires, Starts
  <2>2. Solid(page') /\ Listed(page') /\ page'.flight
    BY <1>0, <2>1 DEF Solid, Single, Wanted, Listed, Pages
  <2>3. flow' \in [Kinds -> Flows] /\ flow'["poll"].pc # "idle"
    BY <1>0, <2>1, AwaitType
  <2> QED
    BY <1>0, <2>2, <2>3 DEF UiInv, PageInv
<1>2. CASE TimerFires /\ ~(page.connected /\ page.data = "active")
  BY <1>0, <1>2 DEF TimerFires, UiInv, PageInv, Solid, Wanted
<1>3. CASE PollReply
  <2> DEFINE p == IF Refused("poll") THEN AfterRefusal("poll") ELSE WithAll("poll")
             q == [p EXCEPT !.flight = FALSE]
  <2>1. Solid(p)
    BY <1>0, AllKeeps
  <2> HIDE DEF p
  <2>2. Solid(q) /\ ~q.flight
    BY <2>1 DEF Solid, Single, Wanted, Pages
  <2> HIDE DEF q
  <2>3. page' = SchedulePolling(q) /\ flow' = [flow EXCEPT !["poll"] = Idle]
    BY <1>3 DEF PollReply, Ends, p, q
  <2>4. Solid(page') /\ Listed(page') /\ ~page'.flight
    BY <2>2, <2>3, ScheduleKeeps
  <2>5. flow' \in [Kinds -> Flows] /\ flow'["poll"].pc = "idle"
    BY <1>0, <2>3, AwaitType
  <2> QED
    BY <1>0, <2>4, <2>5 DEF UiInv, PageInv
<1> QED
  BY <1>1, <1>2, <1>3

LEMMA DisconnectsKeep ==
  ASSUME UiInv, DisconnectClick \/ DisconnectReply
  PROVE  UiInv'
<1>0. /\ page \in Pages /\ "logout" \in Kinds /\ "poll" \in Kinds /\ "logout" # "poll"
      /\ flow \in [Kinds -> Flows] /\ UNCHANGED <<session, work>>
  BY DEF UiInv, PageInv, Solid, Kinds, DisconnectClick, DisconnectReply
<1>1. CASE DisconnectClick
  <2>1. Solid(page') /\ page'.flight = page.flight
    BY <1>0, <1>1, StopKeeps DEF DisconnectClick
  <2>2. /\ flow' \in [Kinds -> Flows] /\ flow'["logout"].pc # "idle"
        /\ flow'["poll"] = flow["poll"]
    BY <1>0, <1>1, AwaitType DEF DisconnectClick, Starts
  <2> QED
    BY <1>0, <2>1, <2>2 DEF UiInv, PageInv
<1>2. CASE DisconnectReply
  <2>1. Solid(page') /\ Listed(page') /\ page'.flight = page.flight
    BY <1>0, <1>2, DisconnectKeeps DEF DisconnectReply
  <2>2. flow' \in [Kinds -> Flows] /\ flow'["poll"] = flow["poll"]
    BY <1>0, <1>2, AwaitType DEF DisconnectReply, Ends
  <2> QED
    BY <1>0, <2>1, <2>2 DEF UiInv, PageInv
<1> QED
  BY <1>1, <1>2

LEMMA ActionKeeps ==
  ASSUME UiInv, ActionClick \/ ActionReply \/ OpenRoute \/ RouteReply
  PROVE  UiInv'
<1>0. /\ Solid(page) /\ "action" \in Kinds \ {"poll", "logout"}
      /\ "route" \in Kinds \ {"poll", "logout"}
      /\ flow["action"].jobs \in {"none", "quiet", "active"}
      /\ UNCHANGED <<session, work>>
  BY DEF UiInv, PageInv, Solid, Kinds, Flows, ActionClick, ActionReply, OpenRoute,
         RouteReply
<1>1. CASE ActionClick
  BY <1>0, <1>1, ReplyStep DEF ActionClick
<1>2. CASE ActionReply
  <2>1. /\ Solid(page') /\ page'.flight = page.flight
        /\ Listed(page) => Listed(page')
    <3>1. CASE UNCHANGED page
      BY <1>0, <3>1
    <3>2. ASSUME NEW jobs \in {"none", "quiet", "active"}, page' = Render(page, jobs)
          PROVE  /\ Solid(page') /\ page'.flight = page.flight
                 /\ Listed(page) => Listed(page')
      BY <1>0, <3>2, RenderKeeps
    <3>3. CASE page' = AfterRefusal("action") \/ page' = WithAll("action")
      <4>1. "action" \in Kinds
        BY <1>0
      <4> QED
        BY <3>3, <4>1, AllKeeps
    <3>4. \/ UNCHANGED page
          \/ page' = Render(page, "active") \/ page' = Render(page, flow["action"].jobs)
          \/ page' = AfterRefusal("action") \/ page' = WithAll("action")
      BY <1>2 DEF ActionReply
    <3> QED
      BY <1>0, <3>1, <3>2, <3>3, <3>4
  <2>2. Starts("action", "lists", FALSE) \/ Starts("action", "job", FALSE) \/ Ends("action")
    BY <1>2 DEF ActionReply
  <2>3. \/ Ends("action")
        \/ \E pc \in {"login", "session", "lists", "job", "post", "edit", "logout"},
              was \in BOOLEAN : Starts("action", pc, was)
    BY <2>2
  <2>4. "action" \in Kinds \ {"poll", "logout"} /\ UNCHANGED <<session, work>>
    BY <1>0
  <2> QED
    BY <2>1, <2>3, <2>4, ReplyStep
<1>3. CASE OpenRoute
  BY <1>0, <1>3, ReplyStep DEF OpenRoute
<1>4. CASE RouteReply
  <2>1. /\ Solid(page') /\ page'.flight = page.flight
        /\ Listed(page) => Listed(page')
    BY <1>0, <1>4, AllKeeps DEF RouteReply
  <2> QED
    BY <1>0, <1>4, <2>1, ReplyStep DEF RouteReply
<1> QED
  BY <1>1, <1>2, <1>3, <1>4

LEMMA UiInductive == UiInv /\ [Next]_vars => UiInv'
<1> SUFFICES ASSUME UiInv, [Next]_vars PROVE UiInv'
  OBVIOUS
<1>1. CASE Reload
  <2>1. page.ingress \in BOOLEAN
    BY DEF UiInv, PageInv, Solid, Pages
  <2> QED
    BY <1>1, <2>1, FirstState DEF Reload, UiInv, PageInv
<1>2. CASE WorkMoves \/ SessionEnds \/ SessionRenewed \/ UNCHANGED vars
  BY <1>2 DEF WorkMoves, SessionEnds, SessionRenewed, vars, UiInv, PageInv
<1> QED
  BY <1>1, <1>2, ServeKeeps, ConnectKeeps, InitKeeps, PollKeeps, DisconnectsKeep,
     ActionKeeps DEF Next, Click, Reply

\* The page, its flows and the poller fit together in every reachable state.
THEOREM UiInvHolds == Spec => []UiInv
  BY InitUiInv, UiInductive, PTL DEF Spec

\* Every variable keeps its type.
THEOREM PageTypes == Spec => []TypeOK
<1>1. UiInv => TypeOK
  BY DEF UiInv, PageInv, Solid, Pages, Flows, TypeOK
<1> QED
  BY <1>1, UiInvHolds, PTL

\* At most one poller: no timer is set while a poll is under way.
THEOREM OnePoller == Spec => []SinglePoller
<1>1. UiInv => SinglePoller
  BY DEF UiInv, PageInv, Solid, Single, Pages, SinglePoller
<1> QED
  BY <1>1, UiInvHolds, PTL

\* No timer without a connection or without an active job.
THEOREM PollerStopped == Spec => []PollerStops
<1>1. UiInv => PollerStops
  BY DEF UiInv, PageInv, Solid, Wanted, PollerStops
<1> QED
  BY <1>1, UiInvHolds, PTL

\* What a list shows as active is polled, unless a logout is under way.
THEOREM ActiveListPolled == Spec => []ListIsPolled
<1>1. UiInv => ListIsPolled
  BY DEF UiInv, PageInv, Listed, ListIsPolled
<1> QED
  BY <1>1, UiInvHolds, PTL

=============================================================================
