----------------------------- MODULE UiSessions -----------------------------
(***************************************************************************)
(* The sessions of the standalone management page: UiSessionStore          *)
(* (ui_sessions.py), the handlers that use it (app.py), and one browser    *)
(* whose tabs share a cookie, over a backend that starts, crashes and      *)
(* starts again (BackendStart).                                            *)
(*                                                                         *)
(* A handler reads the cookie the request was sent with and runs in one    *)
(* step; its answer changes the cookie when it arrives, in any order, or   *)
(* is lost.  The page itself is the subject of UiPage.  Ids are never      *)
(* drawn twice (secrets.token_urlsafe).                                    *)
(***************************************************************************)
EXTENDS BackendStart

CONSTANTS Tabs,
          Absolute, Idle,  \* the two lifetimes
          MaxIds,          \* bound: sessions ever created
          MaxTime,         \* bound: the clock
          None             \* no cookie, no session

ASSUME SessionAssumption ==
    /\ Absolute \in Nat \ {0} /\ Idle \in Nat \ {0}
    /\ MaxIds \in Nat /\ MaxTime \in Nat
    /\ None \notin Nat

Ids == 1..MaxIds

VARIABLES
    now,      \* time.monotonic since the start of the process
    session,  \* UiSessionStore._sessions: created_at and last_seen_at
    cookie,   \* the browser's cookie
    csrf,     \* tabs whose page has the CSRF token of the running process
    request,  \* tab -> its request: the cookie it was sent with (after a login:
              \* the one it is to set) and the status of its answer
    life,     \* history: when a living id was issued and accepted last
    fate,     \* history: how an id ended
    heard     \* history: every answer to a login or logout has arrived

browser == <<cookie, csrf, request>>
history == <<life, fate, heard>>
vars == <<start, now, session, browser, history>>

Nothing == [kind |-> "none", id |-> None, status |-> "none"]

Init ==
    /\ StartInit
    /\ now = 0
    /\ session = [i \in Ids |-> None]
    /\ cookie = None
    /\ csrf = {}
    /\ request = [t \in Tabs |-> Nothing]
    /\ life = [i \in Ids |-> None]
    /\ fate = [i \in Ids |-> "unborn"]
    /\ heard = TRUE

Live == {i \in Ids : session[i] # None}

-----------------------------------------------------------------------------
(* The store.                                                              *)

\* Mutation: a session may be used up to the limit, the limit included.
ExpiredLate(i) == \/ now - session[i].created > Absolute
                  \/ now - session[i].seen > Idle

\* _expired: a lifetime ends at equality.
Expired(i) == \/ now - session[i].created >= Absolute
              \/ now - session[i].seen >= Idle

\* The store loses the sessions in ids, which end as given.
Without(ids) == [i \in Ids |-> IF i \in ids THEN None ELSE session[i]]
EndAs(ids, how) ==
    /\ life' = [i \in Ids |-> IF i \in ids THEN None ELSE life[i]]
    /\ fate' = [i \in Ids |-> IF i \in ids THEN how ELSE fate[i]]

Accepted(i) == i \in Live /\ ~Expired(i)

\* authenticate: an accepted session's idle deadline moves, an expired one
\* is dropped.
Authenticate(i) ==
    IF Accepted(i)
    THEN /\ session' = [session EXCEPT ![i].seen = now]
         /\ life' = [life EXCEPT ![i].used = now]
         /\ UNCHANGED fate
    ELSE /\ session' = Without({i} \cap Live)
         /\ EndAs({i} \cap Live, "over")

-----------------------------------------------------------------------------
(* The browser.                                                            *)

Sent(t, kind) ==
    /\ proc = "serving"
    /\ request[t] = Nothing
    /\ request' = [request EXCEPT ![t] = [kind |-> kind, id |-> cookie,
                                          status |-> "none"]]

\* F5 or a new tab: the page brings the CSRF token and asks for its session.
LoadPage(t) ==
    /\ Sent(t, "check")
    /\ csrf' = csrf \cup {t}
    /\ UNCHANGED <<start, now, session, cookie, history>>

\* login, logout, the snapshot and the mutations of the page.
Send(t, kind) ==
    /\ Sent(t, kind)
    /\ UNCHANGED <<start, now, session, cookie, csrf, history>>

\* The request or its answer is lost.
Lose(t) ==
    /\ request[t] # Nothing
    /\ request' = [request EXCEPT ![t] = Nothing]
    /\ heard' = (heard /\ request[t].kind \notin {"login", "logout"})
    /\ UNCHANGED <<start, now, session, cookie, csrf, life, fate>>

\* Mutation: a logout leaves the cookie to the browser.
CookieNotDeleted(r) ==
    CASE r.kind = "login" /\ r.status = "ok" -> r.id
      [] r.kind = "check" /\ r.status = "401" -> None
      [] OTHER -> cookie

\* Set-Cookie: set by a login, deleted by a logout and by a failed check.
CookieAfter(r) ==
    CASE r.kind = "login" /\ r.status = "ok" -> r.id
      [] r.kind = "logout" /\ r.status = "ok" -> None
      [] r.kind = "check" /\ r.status = "401" -> None
      [] OTHER -> cookie

Arrive(t) ==
    /\ request[t].status # "none"
    /\ cookie' = CookieAfter(request[t])
    /\ request' = [request EXCEPT ![t] = Nothing]
    /\ UNCHANGED <<start, now, session, csrf, history>>

-----------------------------------------------------------------------------
(* The handlers.                                                           *)

Waiting(t, kinds) ==
    /\ proc = "serving"
    /\ request[t].kind \in kinds
    /\ request[t].status = "none"
Answer(t, status) == request' = [request EXCEPT ![t].status = status]

\* ui_session, authorize_ui, and verify_csrf behind it for a mutation.
ServeAuthorized(t) ==
    /\ Waiting(t, {"check", "read", "write"})
    /\ Authenticate(request[t].id)
    /\ Answer(t, CASE ~Accepted(request[t].id) -> "401"
                   [] request[t].kind = "write" /\ t \notin csrf -> "403"
                   [] OTHER -> "ok")
    /\ UNCHANGED <<start, now, cookie, csrf, heard>>

\* ui_login: the CSRF token is wrong, or the API token is.
RefuseLogin(t) ==
    /\ Waiting(t, {"login"})
    /\ Answer(t, IF t \in csrf THEN "401" ELSE "403")
    /\ UNCHANGED <<start, now, session, cookie, csrf, history>>

\* ui_login: the browser's session is revoked, create prunes the expired ones
\* and issues a new id.
Login(t) ==
    LET old == {request[t].id} \cap Live
        dead == {i \in Live \ old : Expired(i)}
        new == Cardinality({i \in Ids : fate[i] # "unborn"}) + 1
    IN
    /\ Waiting(t, {"login"})
    /\ t \in csrf
    /\ new \in Ids
    /\ session' = [Without(old \cup dead) EXCEPT ![new] = [created |-> now,
                                                           seen |-> now]]
    /\ request' = [request EXCEPT ![t].status = "ok", ![t].id = new]
    /\ life' = [i \in Ids |-> CASE i = new -> [born |-> now, used |-> now]
                                [] i \in old \cup dead -> None
                                [] OTHER -> life[i]]
    /\ fate' = [i \in Ids |-> CASE i = new -> "live"
                                [] i \in old -> "revoked"
                                [] i \in dead -> "over"
                                [] OTHER -> fate[i]]
    /\ UNCHANGED <<start, now, cookie, csrf, heard>>

\* ui_logout.
Logout(t) ==
    LET old == {request[t].id} \cap Live IN
    /\ Waiting(t, {"logout"})
    /\ IF t \in csrf
       THEN /\ Answer(t, "ok")
            /\ session' = Without(old)
            /\ EndAs(old, "revoked")
       ELSE /\ Answer(t, "403")
            /\ UNCHANGED <<session, life, fate>>
    /\ UNCHANGED <<start, now, cookie, csrf, heard>>

-----------------------------------------------------------------------------
(* Time and the process.                                                   *)

\* Time counts only while there are sessions it could end.
Tick ==
    /\ Live # {}
    /\ now < MaxTime
    /\ now' = now + 1
    /\ UNCHANGED <<start, session, browser, history>>

\* The store is gone, and with it the CSRF token; requests that wait for an
\* answer fail.
ProcessEnds ==
    /\ Crash
    /\ session' = Without(Ids)
    /\ EndAs(Live, "over")
    /\ csrf' = {}
    /\ request' = [t \in Tabs |-> IF request[t].status = "none" THEN Nothing
                                  ELSE request[t]]
    /\ now' = 0
    /\ UNCHANGED <<cookie, heard>>

Handler(t) == ServeAuthorized(t) \/ RefuseLogin(t) \/ Login(t) \/ Logout(t)

Next ==
    \/ \E t \in Tabs :
        \/ LoadPage(t)
        \/ \E kind \in {"login", "logout", "read", "write"} : Send(t, kind)
        \/ Handler(t) \/ Arrive(t) \/ Lose(t)
    \/ Tick
    \/ ProcessEnds
    \/ /\ StartStep \/ EditOptions \/ GivePublicKey
       /\ UNCHANGED <<now, session, browser, history>>

Spec == Init /\ [][Next]_vars

-----------------------------------------------------------------------------
(* Properties.                                                             *)

\* Every variable keeps its type; a session in the store is one whose id was
\* issued and has not ended.
TypeOK ==
    /\ StartTypeOK
    /\ now \in 0..MaxTime
    /\ \A i \in Live : /\ session[i].created \in 0..now
                       /\ session[i].seen \in session[i].created..now
    /\ \A i \in Ids : fate[i] # "live" => life[i] = None
    /\ cookie \in Ids \cup {None}
    /\ csrf \subseteq Tabs
    /\ \A t \in Tabs :
        /\ request[t].kind \in {"none", "check", "login", "logout", "read", "write"}
        /\ request[t].id \in Ids \cup {None}
        /\ request[t].status \in {"none", "ok", "401", "403"}
    /\ fate \in [Ids -> {"unborn", "live", "revoked", "over"}]
    /\ heard \in BOOLEAN

AcceptedIn(t) == /\ request[t].kind \in {"check", "read", "write"}
                 /\ request'[t].status = "ok"

\* REQ-UI-005: an id is accepted only within eight hours of its login and an
\* hour of its last use, both less than the limit, and never again once it was
\* refused, logged out, replaced by a login or lost with the process, however
\* late the request arrives that carries it.
AcceptedIsAlive ==
    [][\A t \in Tabs :
        LET i == request[t].id IN
        request[t].status = "none" /\ AcceptedIn(t)
        => /\ fate[i] = "live"
           /\ now - life[i].born < Absolute
           /\ now - life[i].used < Idle]_vars

\* ADR-0006: a logout or a new login leaves the browser without the revoked id.
\* Once all answers have arrived, in any order, the cookie is none that was
\* revoked; only time or the end of the process can make it worthless.
CookieIsNotRevoked ==
    heard /\ (\A t \in Tabs : request[t] = Nothing) /\ cookie # None =>
        fate[cookie] # "revoked"

=============================================================================
