------------------------------- MODULE UiPage -------------------------------
(***************************************************************************)
(* The management page (UI_JAVASCRIPT of backend/homelab_backend/ui.py)    *)
(* against the session that authorizes it: connecting, disconnecting, the  *)
(* job poller, actions, the job route and reloads.  Standalone, this is a  *)
(* UI session of the backend; under Ingress it is the Supervisor's, and    *)
(* the page has neither a login nor a disconnect button.                   *)
(*                                                                         *)
(* Each kind of flow has at most one instance under way.  A flow is a      *)
(* chain of requests; the backend processes a request at one moment and    *)
(* the page handles its reply at a later one, so replies overtake clicks,  *)
(* timers and each other.  Requests issued together count as one.          *)
(***************************************************************************)
EXTENDS Naturals, FiniteSets

CONSTANT MaxFlows   \* bound: flows under way at the same time

ASSUME UiAssumption == MaxFlows \in Nat

Kinds == {"init", "connect", "logout", "poll", "action", "route"}

VARIABLES
    session,   \* the browser's cookie names a valid session
    work,      \* the backend's jobs: "active" if some are queued or running
    page,      \* the variables of the script and the connection label
    flow       \* the request each kind of flow waits for, and its reply

vars == <<session, work, page, flow>>

Idle == [pc |-> "idle", reply |-> "none", jobs |-> "none", was |-> FALSE]

Await(pc, was) == [Idle EXCEPT !.pc = pc, !.was = was]

-----------------------------------------------------------------------------
(* The functions of the script, as functions of the page.                  *)

Blank(ingress) ==
    [ingress |-> ingress,    \* ingress, as the backend served the page
     connected |-> FALSE,    \* connected
     label  |-> "off",       \* connection-label
     data   |-> "none",      \* state: cleared, or its jobs "quiet"/"active"
     from   |-> "list",      \* history: who wrote state.jobs last
     timer  |-> FALSE,       \* jobPollTimer # null
     flight |-> FALSE,       \* jobPollInFlight
     busy   |-> FALSE]       \* the connect button is disabled

\* stopJobPolling
StopPolling(p) == [p EXCEPT !.timer = FALSE]

\* Mutation: the poll in flight is not looked at.
ScheduleOverlapping(p) ==
    IF p.connected /\ p.data = "active" /\ ~p.timer
    THEN [p EXCEPT !.timer = TRUE] ELSE p

\* Mutation: scheduled whatever the connection.
ScheduleAlways(p) ==
    IF p.data = "active" /\ ~p.timer /\ ~p.flight
    THEN [p EXCEPT !.timer = TRUE] ELSE p

\* scheduleJobPolling
SchedulePolling(p) ==
    IF p.connected /\ p.data = "active" /\ ~p.timer /\ ~p.flight
    THEN [p EXCEPT !.timer = TRUE] ELSE p

\* syncJobPolling
SyncPolling(p) ==
    IF p.connected /\ p.data = "active" THEN SchedulePolling(p)
    ELSE StopPolling(p)

\* setDisconnected, with clearProtectedData
SetDisconnected(p) ==
    [StopPolling(p) EXCEPT !.connected = FALSE, !.label = "off",
                           !.data = "none", !.from = "list"]

SetConnecting(p) == [p EXCEPT !.label = "connecting"]

SetConnected(p) ==
    SyncPolling([p EXCEPT !.connected = TRUE, !.label = "on"])

\* The lists just read become the state; render() ends with syncJobPolling().
Render(p, jobs) == SyncPolling([p EXCEPT !.data = jobs, !.from = "list"])

\* loadJobRoute(): a job missing in the list is put in front of it, without a
\* syncJobPolling(); "none" stands for a job the list has.
WithRouteJob(p, job) ==
    IF job = "none" \/ p.data = "active" THEN p
    ELSE [p EXCEPT !.data = job, !.from = "route"]

-----------------------------------------------------------------------------

\* The script starts with initialize(): standalone it asks for the session,
\* under Ingress it loads the lists at once.
FirstPage(ingress) ==
    IF ingress THEN [SetConnecting(Blank(TRUE)) EXCEPT !.busy = TRUE]
    ELSE Blank(FALSE)

FirstFlow(ingress) ==
    [k \in Kinds |-> IF k # "init" THEN Idle
                     ELSE Await(IF ingress THEN "lists" ELSE "session", FALSE)]

Init ==
    /\ work \in {"quiet", "active"}
    /\ \E ingress \in BOOLEAN :
          /\ session = ingress
          /\ page = FirstPage(ingress)
          /\ flow = FirstFlow(ingress)

Free(k) ==
    /\ flow[k].pc = "idle"
    /\ Cardinality({i \in Kinds : flow[i].pc # "idle"}) < MaxFlows

Starts(k, pc, was) == flow' = [flow EXCEPT ![k] = Await(pc, was)]

-----------------------------------------------------------------------------
(* The backend.                                                            *)

\* A reply without content: accepted, refused for want of a session, or lost.
Replies(k, r) == flow' = [flow EXCEPT ![k].reply = r]

\* POST auth/login with a valid token: the old session is revoked, a new one
\* issued.
ServeLogin(k) ==
    /\ flow[k].pc = "login"
    /\ session' = TRUE
    /\ Replies(k, "ok")
    /\ UNCHANGED <<work, page>>

\* GET auth/session, PATCH/DELETE of hosts and tasks.
ServeEmpty(k) ==
    /\ flow[k].pc \in {"session", "edit"}
    /\ Replies(k, IF session THEN "ok" ELSE "denied")
    /\ UNCHANGED <<session, work, page>>

\* The lists of jobs and hosts as they are now.
ServeLists(k) ==
    /\ flow[k].pc = "lists"
    /\ flow' = [flow EXCEPT ![k].reply = IF session THEN "ok" ELSE "denied",
                            ![k].jobs = IF session THEN work ELSE "none"]
    /\ UNCHANGED <<session, work, page>>

\* GET jobs/<id>, which is active only if some job is; or its log.
ServeJob(k) ==
    /\ flow[k].pc = "job"
    /\ \E job \in {"none", "quiet", work} :
          flow' = [flow EXCEPT ![k].reply = IF session THEN "ok" ELSE "denied",
                               ![k].jobs = IF session THEN job ELSE "none"]
    /\ UNCHANGED <<session, work, page>>

\* POST hosts/<id>/actions/...: a job is queued.
ServeAction(k) ==
    /\ flow[k].pc = "post"
    /\ Replies(k, IF session THEN "ok" ELSE "denied")
    /\ work' = IF session THEN "active" ELSE work
    /\ UNCHANGED <<session, page>>

\* POST auth/logout needs no session.
ServeLogout(k) ==
    /\ flow[k].pc = "logout"
    /\ session' = FALSE
    /\ Replies(k, "ok")
    /\ UNCHANGED <<work, page>>

Serve(k) ==
    /\ flow[k].reply = "none"
    /\ \/ ServeLogin(k) \/ ServeEmpty(k) \/ ServeLists(k) \/ ServeJob(k)
       \/ ServeAction(k) \/ ServeLogout(k)

\* The request never arrives, its reply is lost, or the backend answers with
\* another error (a wrong token, 404, 500).
Lose(k) ==
    /\ flow[k].pc # "idle"
    /\ flow[k].reply \in {"none", "ok"}
    /\ flow' = [flow EXCEPT ![k].reply = "error", ![k].jobs = "none"]
    /\ UNCHANGED <<session, work, page>>

-----------------------------------------------------------------------------
(* The page: clicks, the timer, and the replies.                           *)

Ends(k) == flow' = [flow EXCEPT ![k] = Idle]

\* The reply of flow k is handled; 401 goes through setDisconnected in request().
Got(k, pc, reply) == flow[k].pc = pc /\ flow[k].reply = reply

\* The last reply of refreshDashboard(): the lists, or the job of the address.
ReadAll(k) == Got(k, "lists", "ok") \/ Got(k, "job", "ok")

WithAll(k) == IF flow[k].pc = "lists" THEN Render(page, flow[k].jobs)
              ELSE WithRouteJob(page, flow[k].jobs)

Refused(k) == flow[k].reply \in {"denied", "error"}

\* request() itself disconnects the page on a 401.
AfterRefusal(k) == IF flow[k].reply = "denied" THEN SetDisconnected(page)
                   ELSE page

\* connect(): a refresh if connected or under Ingress, otherwise the token is
\* exchanged first.
ConnectClick ==
    /\ Free("connect")
    /\ ~page.busy
    /\ page' = [SetConnecting(page) EXCEPT !.busy = TRUE]
    /\ Starts("connect", IF page.connected \/ page.ingress THEN "lists" ELSE "login",
              page.connected)
    /\ UNCHANGED <<session, work>>

\* Mutation: the failure handler leaves the label alone.
ConnectFailedQuietly(p, was) == p

\* The end of connect() when run() reported a failure.
ConnectFailed(p, was) ==
    IF p.label # "connecting" THEN p
    ELSE IF was THEN SetConnected(p) ELSE SetDisconnected(p)

ConnectReply ==
    /\ \/ /\ Got("connect", "login", "ok")
          /\ Starts("connect", "lists", FALSE)
          /\ UNCHANGED page
       \/ /\ Got("connect", "lists", "ok")
          /\ page' = Render(page, flow["connect"].jobs)
          /\ Starts("connect", "job", flow["connect"].was)
       \/ /\ ReadAll("connect")
          /\ page' = [SetConnected(WithAll("connect")) EXCEPT !.busy = FALSE]
          /\ Ends("connect")
       \/ /\ Refused("connect")
          /\ page' = [ConnectFailed(AfterRefusal("connect"),
                                    flow["connect"].was) EXCEPT !.busy = FALSE]
          /\ Ends("connect")
    /\ UNCHANGED <<session, work>>

\* disconnect(), whose button is hidden under Ingress.
DisconnectClick ==
    /\ Free("logout")
    /\ ~page.ingress
    /\ page.connected
    /\ page' = StopPolling(page)
    /\ Starts("logout", "logout", FALSE)
    /\ UNCHANGED <<session, work>>

DisconnectReply ==
    /\ flow["logout"].reply # "none"
    /\ page' = SetDisconnected(page)
    /\ Ends("logout")
    /\ UNCHANGED <<session, work>>

\* F5: the script starts over; what it waited for is dropped.
Reload ==
    /\ page' = FirstPage(page.ingress)
    /\ flow' = FirstFlow(page.ingress)
    /\ UNCHANGED <<session, work>>

\* Mutation: a lost first load keeps the button disabled.
FirstLoadLostBusy(p) == IF p.ingress THEN p ELSE SetDisconnected(p)

\* The first load is lost: standalone this disconnects, while under Ingress
\* initialize() does nothing, and only request() has dealt with a 401.  The
\* button is free again (run).
FirstLoadLost(p) ==
    [(IF p.ingress THEN p ELSE SetDisconnected(p)) EXCEPT !.busy = FALSE]

\* initialize()
InitReply ==
    /\ \/ /\ Got("init", "session", "ok")
          /\ page' = [SetConnecting(page) EXCEPT !.busy = TRUE]
          /\ Starts("init", "lists", FALSE)
       \/ /\ flow["init"].pc = "session" /\ Refused("init")
          /\ UNCHANGED page
          /\ Ends("init")
       \/ /\ Got("init", "lists", "ok")
          /\ page' = Render(page, flow["init"].jobs)
          /\ Starts("init", "job", FALSE)
       \/ /\ ReadAll("init")
          /\ page' = [SetConnected(WithAll("init")) EXCEPT !.busy = FALSE]
          /\ Ends("init")
       \/ /\ flow["init"].pc \in {"lists", "job"} /\ Refused("init")
          /\ page' = FirstLoadLost(AfterRefusal("init"))
          /\ Ends("init")
    /\ UNCHANGED <<session, work>>

\* pollJobs() up to its request.
TimerFires ==
    /\ page.timer
    /\ IF page.connected /\ page.data = "active"
       THEN /\ page' = [page EXCEPT !.timer = FALSE, !.flight = TRUE]
            /\ Starts("poll", "lists", FALSE)
       ELSE /\ page' = [page EXCEPT !.timer = FALSE]
            /\ UNCHANGED flow
    /\ UNCHANGED <<session, work>>

\* Mutation: an error of the poll is not retried.
PollReplyGivesUp ==
    /\ flow["poll"].reply # "none"
    /\ page' = IF Refused("poll") THEN [AfterRefusal("poll") EXCEPT !.flight = FALSE]
               ELSE SchedulePolling([WithAll("poll") EXCEPT !.flight = FALSE])
    /\ Ends("poll")
    /\ UNCHANGED <<session, work>>

\* Mutation: the body of a refusal is rendered as if it were the lists.
PollReplyUnchecked ==
    /\ flow["poll"].reply # "none"
    /\ page' = SchedulePolling(
                  [Render(page, IF Refused("poll") THEN flow["poll"].reply
                                ELSE flow["poll"].jobs) EXCEPT !.flight = FALSE])
    /\ Ends("poll")
    /\ UNCHANGED <<session, work>>

\* The rest of pollJobs(): what was read becomes the state whatever happened to
\* the connection meanwhile; an error only waits longer.
PollReply ==
    /\ flow["poll"].reply # "none"
    /\ page' = LET p == IF Refused("poll") THEN AfterRefusal("poll")
                        ELSE WithAll("poll")
               IN  SchedulePolling([p EXCEPT !.flight = FALSE])
    /\ Ends("poll")
    /\ UNCHANGED <<session, work>>

\* mutate(): an action that queues a job, or an edit of hosts and tasks.
ActionClick ==
    /\ Free("action")
    /\ page.connected
    /\ \E pc \in {"post", "edit"} : Starts("action", pc, FALSE)
    /\ UNCHANGED <<session, work, page>>

\* The queued job is shown at once, then everything is read again.
ActionReply ==
    /\ \/ /\ Got("action", "edit", "ok")
          /\ UNCHANGED page
          /\ Starts("action", "lists", FALSE)
       \/ /\ Got("action", "post", "ok")
          /\ page' = Render(page, "active")
          /\ Starts("action", "lists", FALSE)
       \/ /\ Got("action", "lists", "ok")
          /\ page' = Render(page, flow["action"].jobs)
          /\ Starts("action", "job", FALSE)
       \/ /\ ReadAll("action") \/ Refused("action")
          /\ page' = IF Refused("action") THEN AfterRefusal("action")
                     ELSE WithAll("action")
          /\ Ends("action")
    /\ UNCHANGED <<session, work>>

\* hashchange: loadJobRoute() asks for the job ...
OpenRoute ==
    /\ Free("route")
    /\ page.connected
    /\ Starts("route", "job", FALSE)
    /\ UNCHANGED <<session, work, page>>

\* ... and shows it, whatever happened to the connection meanwhile.
RouteReply ==
    /\ flow["route"].reply # "none"
    /\ page' = IF Refused("route") THEN AfterRefusal("route")
               ELSE WithAll("route")
    /\ Ends("route")
    /\ UNCHANGED <<session, work>>

-----------------------------------------------------------------------------
(* The world: other clients, the workers, and the end of a session.        *)

WorkMoves ==
    /\ work' \in {"quiet", "active"} \ {work}
    /\ UNCHANGED <<session, page, flow>>

\* Expiry, a restart of the backend, or a logout in another tab.
SessionEnds ==
    /\ session
    /\ session' = FALSE
    /\ UNCHANGED <<work, page, flow>>

\* The frontend of Home Assistant renews its Ingress session.
SessionRenewed ==
    /\ page.ingress
    /\ ~session
    /\ session' = TRUE
    /\ UNCHANGED <<work, page, flow>>

-----------------------------------------------------------------------------
Click == ConnectClick \/ DisconnectClick \/ ActionClick \/ OpenRoute \/ Reload

Reply == ConnectReply \/ DisconnectReply \/ InitReply \/ PollReply
         \/ ActionReply \/ RouteReply

Next ==
    \/ Click \/ Reply \/ TimerFires
    \/ \E k \in Kinds : Serve(k) \/ Lose(k)
    \/ WorkMoves \/ SessionEnds \/ SessionRenewed

Spec == Init /\ [][Next]_vars

\* Requests end, timers fire, and polling does not lose its request for ever.
FairSpec ==
    /\ Spec
    /\ WF_vars(TimerFires)
    /\ WF_vars(ConnectReply) /\ WF_vars(DisconnectReply) /\ WF_vars(InitReply)
    /\ WF_vars(PollReply) /\ WF_vars(ActionReply) /\ WF_vars(RouteReply)
    /\ \A k \in Kinds : WF_vars(Serve(k) \/ Lose(k))
    /\ SF_vars(Serve("poll")) /\ SF_vars(Got("poll", "lists", "ok") /\ PollReply)

-----------------------------------------------------------------------------
(* Properties.                                                             *)

Replied == {"none", "ok", "denied", "error"}

\* Every variable keeps its type, the lists of the page among them.
TypeOK ==
    /\ session \in BOOLEAN
    /\ work \in {"quiet", "active"}
    /\ page \in [ingress : BOOLEAN, connected : BOOLEAN,
                 label : {"off", "connecting", "on"},
                 data : {"none", "quiet", "active"}, from : {"list", "route"},
                 timer : BOOLEAN, flight : BOOLEAN, busy : BOOLEAN]
    /\ flow \in [Kinds -> [pc : {"idle", "login", "session", "lists", "job",
                                 "post", "edit", "logout"},
                           reply : Replied,
                           jobs : {"none", "quiet", "active"}, was : BOOLEAN]]

\* REQ-UI-006, "hoechstens ein Poller": while a poll is under way no timer is
\* set that could start another, through any reconnect, action or late reply.
SinglePoller ==
    /\ page.timer => flow["poll"].pc = "idle"
    /\ page.flight <=> flow["poll"].pc # "idle"

\* Acceptance 19: no timer without a connection or without an active job on the
\* page.
PollerStops == page.timer => page.connected /\ page.data = "active"

\* REQ-UI-006: while the page is connected and its list shows an active job, a
\* poll is scheduled or under way, unless a logout is.  A job that only its
\* address brought into the list is not polled: loadJobRoute renders nothing.
ListIsPolled ==
    page.connected /\ page.data = "active" /\ page.from = "list" =>
        page.timer \/ page.flight \/ flow["logout"].pc # "idle"

\* The label of a standalone page never stays at "Connecting" (REQ-UI-004):
\* whatever overlaps, the flow that set it or another one resolves it.
ConnectingEnds == []<>(page.ingress \/ page.label # "connecting")

\* Under Ingress the failed first load of initialize() leaves the label as it
\* is.  Unless the user reloads for ever, the page is not stuck with it: the
\* button is free to try again, and whoever keeps trying sees the label change.
ConnectingCanRetry ==
    \/ []<><<Reload>>_vars
    \/ /\ []<>(page.label # "connecting" \/ ~page.busy)
       /\ []<><<ConnectClick>>_vars => []<>(page.label # "connecting")

\* Acceptance 19: the page notices without a manual refresh that the jobs it
\* lists have ended.  It does not go on listing an active one, connected, while
\* the backend has none.
PageCatchesUp ==
    []<>~(/\ page.connected /\ page.data = "active" /\ page.from = "list"
          /\ work = "quiet")

=============================================================================
