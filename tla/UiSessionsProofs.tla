-------------------------- MODULE UiSessionsProofs --------------------------
(***************************************************************************)
(* Machine-checked proofs about UiSessions and the BackendStart it extends,*)
(* for any number of tabs, migrations, keys, ids and crashes and any       *)
(* lifetimes.                                                              *)
(***************************************************************************)
EXTENDS UiSessions, FiniteSetTheorems, TLAPS

USE StartAssumption, SessionAssumption DEF StartAssumption, SessionAssumption

-----------------------------------------------------------------------------
(* The start of the process.                                               *)

\* A migration has taken effect exactly if its version is recorded, and all
\* have past the migrations; only a whole key has been given out.
StartInv ==
    /\ StartTypeOK
    /\ applied \subseteq version
    /\ db = [v \in Versions |-> IF v \in version THEN 1 ELSE 0]
    /\ proc \in {"keys", "keygen", "queue", "serving"} => version = Versions
    /\ key = 0 => given = {} /\ ~filled /\ proc # "keygen"
    /\ OneIdentity

\* A new installation, or one of an earlier release, is consistent.
LEMMA StartInitInv == StartInit => StartInv
  <1> SUFFICES ASSUME StartInit PROVE StartInv
    OBVIOUS
  <1> PICK v \in 0..Migrations :
        /\ version = 1..v
        /\ db = [w \in Versions |-> IF w <= v THEN 1 ELSE 0]
        /\ key = IF v = 0 THEN 0 ELSE 1
        /\ filled = (v # 0)
    BY DEF StartInit
  <1>1. version \subseteq Versions /\ \A w \in Versions : w \in version <=> w <= v
    BY DEF Versions
  <1>2. db = [w \in Versions |-> IF w \in version THEN 1 ELSE 0]
    BY <1>1
  <1>3. db \in [Versions -> Nat]
    <2>1. \A w \in Versions : (IF w \in version THEN 1 ELSE 0) \in Nat
      OBVIOUS
    <2> QED BY <1>2, <2>1
  <1>4. StartTypeOK
    BY <1>1, <1>3 DEF StartInit, StartTypeOK
  <1>5. proc = "down" /\ applied = {} /\ given = {}
    BY DEF StartInit
  <1>6. key = 0 => v = 0
    OBVIOUS
  <1>7. v = 0 => ~filled
    OBVIOUS
  <1> QED BY <1>2, <1>4, <1>5, <1>6, <1>7 DEF StartInv, OneIdentity

\* The next version that is missing is recorded with its statements.
LEMMA MigrateInv == StartInv /\ Migrate => StartInv'
  <1> SUFFICES ASSUME StartInv, Migrate PROVE StartInv'
    OBVIOUS
  <1> PICK v \in NextVersions : /\ db' = [db EXCEPT ![v] = @ + 1]
                                /\ version' = version \cup {v}
    BY DEF Migrate
  <1>1. v \in Versions \ version
    BY DEF NextVersions, Pending
  <1>2. db' = [w \in Versions |-> IF w \in version' THEN 1 ELSE 0]
    <2>1. db[v] = 0
      BY <1>1 DEF StartInv
    <2>2. db' = [w \in Versions |-> IF w = v THEN 1 ELSE db[w]]
      <3>1. db \in [Versions -> Nat]
        BY DEF StartInv, StartTypeOK
      <3>2. DOMAIN db' = Versions /\ db' = [w \in DOMAIN db' |-> db'[w]]
        BY <3>1
      <3>3. \A w \in Versions : db'[w] = IF w = v THEN 1 ELSE db[w]
        BY <1>1, <2>1, <3>1
      <3> QED BY <3>2, <3>3
    <2>3. \A w \in Versions : (IF w = v THEN 1 ELSE db[w]) = IF w \in version' THEN 1 ELSE 0
      BY DEF StartInv
    <2> QED BY <2>2, <2>3
  <1>3. version' \subseteq Versions /\ applied' \subseteq version'
    BY <1>1 DEF StartInv, StartTypeOK, Migrate
  <1>4. db' \in [Versions -> Nat]
    <2>1. \A w \in Versions : (IF w \in version' THEN 1 ELSE 0) \in Nat
      OBVIOUS
    <2> QED BY <1>2, <2>1
  <1>5. proc = "migrations" /\ proc' = "migrations"
    BY DEF Migrate
  <1>6. UNCHANGED <<options, applied, key, filled, given, crashes>>
    BY DEF Migrate
  <1>7. StartTypeOK'
    BY <1>3, <1>4, <1>5, <1>6 DEF StartInv, StartTypeOK
  <1> QED BY <1>2, <1>3, <1>5, <1>6, <1>7 DEF StartInv, OneIdentity

\* The steps of a start, one by one.
LEMMA StartStepInv == StartInv /\ StartStep => StartInv'
  <1> SUFFICES ASSUME StartInv, StartStep PROVE StartInv'
    OBVIOUS
  <1> USE DEF StartInv, StartTypeOK, OneIdentity, Dies, disk
  <1>1. CASE Bootstrap \/ LoadSettings \/ ReadVersions
    BY <1>1 DEF Bootstrap, LoadSettings, ReadVersions
  <1>2. CASE Migrate
    BY <1>2, MigrateInv
  <1>3. CASE Migrated
    BY <1>3 DEF Migrated, Pending
  <1>4. CASE GenerateKey
    <2>1. key = 0 /\ key' \in 1..MaxKeys /\ given = {}
      BY <1>4 DEF GenerateKey, NeedsNewKey
    <2>2. UNCHANGED <<applied, options, db, version, given, crashes>> /\ filled' = FALSE
      BY <1>4 DEF GenerateKey
    <2>3. proc = "keys" /\ proc' = "keygen"
      BY <1>4 DEF GenerateKey
    <2>4. StartTypeOK'
      <3>1. StartTypeOK /\ key' \in 0..MaxKeys
        BY <2>1
      <3> QED BY <2>2, <2>3, <3>1
    <2>5. db' = [v \in Versions |-> IF v \in version' THEN 1 ELSE 0]
      BY <2>2
    <2>6. key' # 0 /\ OneIdentity'
      BY <2>1, <2>2
    <2> HIDE DEF StartTypeOK, OneIdentity
    <2> QED BY <2>2, <2>3, <2>4, <2>5, <2>6
  <1>5. CASE FillKey
    BY <1>5 DEF FillKey
  <1>6. CASE KeepKey \/ QueueLoaded
    BY <1>6 DEF KeepKey, QueueLoaded
  <1> QED BY <1>1, <1>2, <1>3, <1>4, <1>5, <1>6 DEF StartStep

\* What else touches the process or its volume.
LEMMA OtherStartInv ==
  ASSUME StartInv, Crash \/ EditOptions \/ GivePublicKey \/ UNCHANGED start
  PROVE  StartInv'
  <1> USE DEF StartInv, StartTypeOK, OneIdentity, Dies, disk
  <1>1. CASE Crash
    BY <1>1 DEF Crash
  <1>2. CASE EditOptions
    BY <1>2 DEF EditOptions
  <1>3. CASE GivePublicKey
    BY <1>3 DEF GivePublicKey
  <1>4. CASE UNCHANGED start
    BY <1>4 DEF start
  <1> QED BY <1>1, <1>2, <1>3, <1>4

\* No step of the sessions touches the process or its volume.
LEMMA NextStartInv == StartInv /\ [Next]_vars => StartInv'
  <1> SUFFICES ASSUME StartInv, [Next]_vars PROVE StartInv'
    OBVIOUS
  <1>1. \/ UNCHANGED start \/ StartStep \/ Crash \/ EditOptions \/ GivePublicKey
    BY DEF Next, vars, Sent, LoadPage, Send, Lose, Arrive, Handler, ServeAuthorized,
           RefuseLogin, Login, Logout, Tick, ProcessEnds
  <1> QED BY <1>1, StartStepInv, OtherStartInv

\* MigratedOnce holds in every reachable state: no migration is executed twice,
\* whatever the number of migrations and crashes.
THEOREM MigrationsOnce == Spec => []MigratedOnce
  <1>1. StartInv => MigratedOnce
    BY DEF StartInv, MigratedOnce
  <1>2. Init => StartInv
    BY StartInitInv DEF Init
  <1> QED BY <1>1, <1>2, NextStartInv, PTL DEF Spec

\* OneIdentity holds in every reachable state: all public keys the backend gave
\* out are the one in its file.
THEOREM SingleIdentity == Spec => []OneIdentity
  <1>1. StartInv => OneIdentity
    BY DEF StartInv
  <1>2. Init => StartInv
    BY StartInitInv DEF Init
  <1> QED BY <1>1, <1>2, NextStartInv, PTL DEF Spec

-----------------------------------------------------------------------------
(* The store.                                                              *)

Times  == [created : Nat, seen : Nat]
Lives  == [born : Nat, used : Nat]
Born   == {i \in Ids : fate[i] # "unborn"}

StoreTypes ==
    /\ now \in 0..MaxTime
    /\ session \in [Ids -> Times \cup {None}]
    /\ life \in [Ids -> Lives \cup {None}]
    /\ fate \in [Ids -> {"unborn", "live", "revoked", "over"}]

\* What the store keeps of a session agrees with its history.
LifeInv ==
    /\ \A i \in Live :
        /\ session[i].created \in 0..now /\ session[i].seen \in session[i].created..now
        /\ fate[i] = "live"
        /\ life[i] = [born |-> session[i].created, used |-> session[i].seen]
    /\ \A i \in Ids : fate[i] # "live" => life[i] = None

\* Ids are issued in order, so that the next one is new.
BornInOrder == \E k \in 0..MaxIds : Born = 1..k

StoreInv == StoreTypes /\ LifeInv /\ BornInOrder

\* The store is empty at first.
LEMMA StoreInit == Init => StoreInv
  <1> SUFFICES ASSUME Init PROVE StoreInv
    OBVIOUS
  <1> USE DEF Init
  <1>1. StoreTypes
    BY DEF StoreTypes
  <1>2. LifeInv
    BY DEF LifeInv, Live
  <1>3. Born = 1..0
    BY DEF Born
  <1> QED BY <1>1, <1>2, <1>3 DEF StoreInv, BornInOrder

\* Sessions end: the store forgets them, their history says how.
LEMMA SessionsEnd ==
  ASSUME StoreInv, NEW ids, ids \subseteq Live, NEW how \in {"revoked", "over"},
         session' = Without(ids), EndAs(ids, how), now' \in 0..MaxTime,
         now' = now \/ ids = Live
  PROVE  StoreInv'
  <1> USE DEF StoreInv
  <1>1. StoreTypes'
    BY DEF StoreTypes, Without, EndAs
  <1>2. Live' \subseteq Live \ ids
    BY DEF Without, Live
  <1>3. LifeInv'
    BY <1>1, <1>2 DEF StoreTypes, LifeInv, Without, EndAs, Live
  <1>4. Born' = Born
    BY DEF StoreTypes, LifeInv, EndAs, Born, Live
  <1> QED BY <1>1, <1>3, <1>4 DEF BornInOrder

\* What authenticate does to the store.
LEMMA AuthenticateStore ==
  ASSUME StoreInv, NEW i, Authenticate(i), now' = now
  PROVE  StoreInv'
  <1>1. CASE Accepted(i)
    <2>1. i \in Ids /\ i \in Live /\ session[i] \in Times /\ life[i] \in Lives
      <3>1. i \in Live /\ i \in Ids /\ session[i] \in Times
        BY <1>1 DEF Accepted, Live, StoreInv, StoreTypes
      <3>2. life[i] = [born |-> session[i].created, used |-> session[i].seen]
        BY <3>1 DEF StoreInv, LifeInv
      <3> QED BY <3>1, <3>2 DEF Times, Lives
    <2>2. /\ session' = [session EXCEPT ![i].seen = now]
          /\ life' = [life EXCEPT ![i].used = now]
          /\ fate' = fate
      BY <1>1 DEF Authenticate
    <2>3. /\ session'[i] = [created |-> session[i].created, seen |-> now]
          /\ life'[i] = [born |-> life[i].born, used |-> now]
          /\ \A j \in Ids \ {i} : session'[j] = session[j] /\ life'[j] = life[j]
      BY <2>1, <2>2 DEF StoreInv, StoreTypes, Times, Lives
    <2>4. StoreTypes'
      BY <2>1, <2>2, <2>3 DEF StoreInv, StoreTypes, Times, Lives
    <2>5. Live' \subseteq Live
      BY <1>1, <2>3 DEF Accepted, Live
    <2>6. LifeInv'
      <3>1. /\ session[i].created \in 0..now /\ fate[i] = "live"
            /\ life[i] = [born |-> session[i].created, used |-> session[i].seen]
        BY <2>1 DEF StoreInv, LifeInv
      <3>2. session'[i].created \in 0..now /\ session'[i].seen \in session'[i].created..now
        BY <2>1, <2>3, <3>1 DEF StoreInv, StoreTypes
      <3>3. life'[i] = [born |-> session'[i].created, used |-> session'[i].seen]
        BY <2>3, <3>1
      <3>4. \A j \in Live' \ {i} :
              /\ session'[j].created \in 0..now
              /\ session'[j].seen \in session'[j].created..now
              /\ fate[j] = "live"
              /\ life'[j] = [born |-> session'[j].created, used |-> session'[j].seen]
        BY <2>3, <2>5 DEF StoreInv, LifeInv, Live
      <3>5. \A j \in Ids : fate[j] # "live" => life'[j] = None
        BY <2>3, <3>1 DEF StoreInv, LifeInv
      <3> QED BY <2>2, <3>1, <3>2, <3>3, <3>4, <3>5 DEF LifeInv
    <2> QED BY <2>2, <2>4, <2>6 DEF StoreInv, BornInOrder, Born
  <1>2. CASE ~Accepted(i)
    BY <1>2, SessionsEnd DEF Authenticate, StoreInv, StoreTypes
  <1> QED BY <1>1, <1>2

\* A login ends the browser's session and the expired ones and issues an id
\* that no one has had before.
LEMMA LoginStore ==
  ASSUME StoreInv, NEW t, Login(t)
  PROVE  /\ StoreInv'
         /\ \E new \in Ids :
              /\ request' = [request EXCEPT ![t].status = "ok", ![t].id = new]
              /\ fate[new] = "unborn" /\ fate'[new] = "live"
              /\ \A i \in Ids \ {new} :
                   /\ fate'[i] = "unborn" <=> fate[i] = "unborn"
                   /\ fate'[i] = "revoked" => fate[i] = "revoked" \/ i = request[t].id
  <1> DEFINE old == {request[t].id} \cap Live
             dead == {i \in Live \ old : Expired(i)}
             new == Cardinality(Born) + 1
  <1> USE DEF StoreInv
  <1>1. /\ new \in Ids
        /\ session' = [Without(old \cup dead) EXCEPT ![new] = [created |-> now, seen |-> now]]
        /\ request' = [request EXCEPT ![t].status = "ok", ![t].id = new]
        /\ life' = [i \in Ids |-> CASE i = new -> [born |-> now, used |-> now]
                                    [] i \in old \cup dead -> None
                                    [] OTHER -> life[i]]
        /\ fate' = [i \in Ids |-> CASE i = new -> "live"
                                    [] i \in old -> "revoked"
                                    [] i \in dead -> "over"
                                    [] OTHER -> fate[i]]
        /\ now' = now
    BY DEF Login, Born
  <1>2. PICK k \in 0..MaxIds : Born = 1..k
    BY DEF BornInOrder
  <1>3. new = k + 1
    <2>1. Cardinality(1..k) = k
      BY FS_Interval, k \in Int, 1 \in Int
    <2> QED BY <1>2, <2>1
  <1> HIDE DEF new
  <1>4. new \notin Born /\ fate[new] = "unborn" /\ new \notin Live
    <2>1. new \notin Born
      BY <1>2, <1>3
    <2> QED BY <1>1, <2>1 DEF Born, LifeInv, Live
  <1>5. old \subseteq Live /\ dead \subseteq Live
    OBVIOUS
  <1> HIDE DEF old, dead
  <1>6. session' = [i \in Ids |-> IF i = new THEN [created |-> now, seen |-> now]
                                  ELSE IF i \in old \cup dead THEN None ELSE session[i]]
    BY <1>1 DEF Without
  <1>7. fate' = [i \in Ids |-> IF i = new THEN "live" ELSE IF i \in old THEN "revoked"
                               ELSE IF i \in dead THEN "over" ELSE fate[i]]
    <2>1. \A i \in Ids : (CASE i = new -> "live" [] i \in old -> "revoked"
                             [] i \in dead -> "over" [] OTHER -> fate[i])
                        = IF i = new THEN "live" ELSE IF i \in old THEN "revoked"
                          ELSE IF i \in dead THEN "over" ELSE fate[i]
      BY <1>4, <1>5 DEF old, dead
    <2> QED BY <1>1, <2>1
  <1>8. life' = [i \in Ids |-> IF i = new THEN [born |-> now, used |-> now]
                               ELSE IF i \in old \cup dead THEN None ELSE life[i]]
    <2>1. \A i \in Ids : (CASE i = new -> [born |-> now, used |-> now]
                             [] i \in old \cup dead -> None [] OTHER -> life[i])
                        = IF i = new THEN [born |-> now, used |-> now]
                          ELSE IF i \in old \cup dead THEN None ELSE life[i]
      BY <1>4, <1>5
    <2> QED BY <1>1, <2>1
  <1>9. StoreTypes'
    <2>1. now' \in 0..MaxTime /\ now \in Nat
      BY <1>1 DEF StoreTypes
    <2>2. session' \in [Ids -> Times \cup {None}]
      BY <1>6, <2>1 DEF StoreTypes, Times
    <2>3. life' \in [Ids -> Lives \cup {None}]
      BY <1>8, <2>1 DEF StoreTypes, Lives
    <2>4. fate' \in [Ids -> {"unborn", "live", "revoked", "over"}]
      BY <1>7 DEF StoreTypes
    <2> QED BY <2>1, <2>2, <2>3, <2>4 DEF StoreTypes
  <1>10. LifeInv'
    <2>1. /\ session'[new] = [created |-> now, seen |-> now]
          /\ life'[new] = [born |-> now, used |-> now]
          /\ fate'[new] = "live"
      BY <1>1, <1>6, <1>7, <1>8
    <2>2. now \in 0..now
      BY DEF StoreTypes
    <2>3. \A i \in Live' \ {new} : /\ i \in Live /\ i \in Ids /\ i \notin old \cup dead
                                   /\ session'[i] = session[i] /\ life'[i] = life[i]
                                   /\ fate'[i] = fate[i]
      BY <1>6, <1>7, <1>8 DEF Live
    <2>4. \A i \in Ids : fate'[i] # "live" => life'[i] = None
      <3> TAKE i \in Ids
      <3> HAVE fate'[i] # "live"
      <3>1. i # new
        BY <2>1
      <3>2. CASE i \in old \cup dead
        BY <1>8, <3>1, <3>2
      <3>3. CASE i \notin old \cup dead
        BY <1>7, <1>8, <3>1, <3>3 DEF LifeInv
      <3> QED BY <3>2, <3>3
    <2>5. \A i \in Live' : /\ session'[i].created \in 0..now'
                          /\ session'[i].seen \in session'[i].created..now'
                          /\ fate'[i] = "live"
                          /\ life'[i] = [born |-> session'[i].created,
                                         used |-> session'[i].seen]
      <3> TAKE i \in Live'
      <3>1. CASE i = new
        <4>1. /\ session'[i].created = now /\ session'[i].seen = now
              /\ life'[i] = [born |-> now, used |-> now] /\ now' = now
          BY <1>1, <2>1, <3>1
        <4>2. now \in now..now
          BY DEF StoreTypes
        <4> QED BY <2>1, <2>2, <3>1, <4>1, <4>2
      <3>2. CASE i # new
        <4>1. /\ i \in Live /\ i \in Ids
              /\ session'[i] = session[i] /\ life'[i] = life[i] /\ fate'[i] = fate[i]
          BY <2>3, <3>2
        <4>2. /\ session[i].created \in 0..now
              /\ session[i].seen \in session[i].created..now
              /\ fate[i] = "live"
              /\ life[i] = [born |-> session[i].created, used |-> session[i].seen]
          BY <4>1 DEF LifeInv
        <4>3. now' = now
          BY <1>1
        <4> QED BY <4>1, <4>2, <4>3
      <3> QED BY <3>1, <3>2
    <2> QED BY <2>4, <2>5 DEF LifeInv
  <1>11. /\ fate'[new] = "live"
         /\ \A i \in Ids \ {new} :
              /\ fate'[i] = "unborn" <=> fate[i] = "unborn"
              /\ fate'[i] = "revoked" => fate[i] = "revoked" \/ i = request[t].id
    <2>1. \A i \in old \cup dead : fate[i] = "live"
      BY <1>5 DEF LifeInv
    <2>2. \A i \in old : i = request[t].id
      BY DEF old
    <2> QED BY <1>1, <1>7, <2>1, <2>2
  <1>12. Born' = 1..(k + 1) /\ k + 1 \in 0..MaxIds
    <2>1. Born' = Born \cup {new}
      BY <1>1, <1>11 DEF Born
    <2>2. k + 1 \in 0..MaxIds
      BY <1>1, <1>3 DEF Ids
    <2> QED BY <1>2, <1>3, <2>1, <2>2
  <1> QED BY <1>1, <1>4, <1>9, <1>10, <1>11, <1>12 DEF BornInOrder

-----------------------------------------------------------------------------
(* The browser.                                                            *)

Requests == [kind : {"none", "check", "login", "logout", "read", "write"},
             id : Ids \cup {None}, status : {"none", "ok", "401", "403"}]

BrowserTypes ==
    /\ cookie \in Ids \cup {None}
    /\ csrf \subseteq Tabs
    /\ request \in [Tabs -> Requests]
    /\ heard \in BOOLEAN

\* The browser knows only ids that were issued.
KnownIds ==
    /\ cookie # None => fate[cookie] # "unborn"
    /\ \A t \in Tabs : request[t].id # None => fate[request[t].id] # "unborn"

Replaces(r) == r.kind \in {"login", "logout"} /\ r.status = "ok"
Brings(r)   == r.kind = "login" /\ r.status = "ok"

\* An id on its way to the browser is known to nobody else, so nobody can have
\* revoked it.
FreshAnswers ==
    \A t \in Tabs : Brings(request[t]) =>
        /\ request[t].id \in Ids
        /\ fate[request[t].id] # "revoked"
        /\ cookie # request[t].id
        /\ \A u \in Tabs \ {t} : request[u].id # request[t].id

\* While no answer was lost, the one that replaces a revoked cookie is on its way.
WillBeReplaced ==
    heard /\ cookie # None /\ fate[cookie] = "revoked" =>
        \E t \in Tabs : Replaces(request[t])

BrowserInv == BrowserTypes /\ KnownIds /\ FreshAnswers /\ WillBeReplaced

\* The browser knows no id at first.
LEMMA BrowserInit == Init => BrowserInv
  BY DEF Init, Nothing, BrowserInv, BrowserTypes, Requests, KnownIds, FreshAnswers, Brings,
         WillBeReplaced

\* A tab sends a request, with the browser's cookie.
LEMMA SentBrowser ==
  ASSUME BrowserInv, NEW t \in Tabs,
         NEW kind \in {"check", "login", "logout", "read", "write"}, Sent(t, kind),
         UNCHANGED <<cookie, fate, heard>>, csrf' \subseteq Tabs
  PROVE  BrowserInv'
  <1> DEFINE r == [kind |-> kind, id |-> cookie, status |-> "none"]
  <1>1. request' = [request EXCEPT ![t] = r] /\ request[t] = Nothing
    BY DEF Sent
  <1>2. r \in Requests
    BY DEF BrowserInv, BrowserTypes, Requests
  <1>3. BrowserTypes'
    BY <1>1, <1>2 DEF BrowserInv, BrowserTypes
  <1>4. /\ request'[t] = r
        /\ \A u \in Tabs \ {t} : request'[u] = request[u]
    BY <1>1 DEF BrowserInv, BrowserTypes
  <1>5. r.id = cookie /\ ~Brings(r)
    BY DEF Brings
  <1> HIDE DEF r
  <1>6. KnownIds'
    BY <1>4, <1>5 DEF BrowserInv, KnownIds
  <1>7. FreshAnswers'
    BY <1>4, <1>5 DEF BrowserInv, FreshAnswers
  <1>8. WillBeReplaced'
    BY <1>1, <1>4 DEF BrowserInv, WillBeReplaced, Replaces, Nothing
  <1> QED BY <1>3, <1>6, <1>7, <1>8 DEF BrowserInv

\* The browser's request ends, with its effect on the cookie or without.
LEMMA EndBrowser ==
  ASSUME BrowserInv, NEW t \in Tabs, Arrive(t) \/ Lose(t)
  PROVE  BrowserInv'
  <1>1. /\ request' = [request EXCEPT ![t] = Nothing]
        /\ UNCHANGED <<csrf, fate>>
    BY DEF Arrive, Lose, history
  <1>2. /\ request'[t] = Nothing /\ Nothing \in Requests
        /\ \A u \in Tabs \ {t} : request'[u] = request[u]
    BY <1>1 DEF BrowserInv, BrowserTypes, Requests, Nothing
  <1>3. /\ Nothing.id = None /\ ~Brings(Nothing) /\ ~Replaces(Nothing)
    BY DEF Nothing, Brings, Replaces
  <1>4. cookie' = cookie \/ cookie' = None \/ (Brings(request[t]) /\ cookie' = request[t].id)
    BY DEF Arrive, Lose, CookieAfter, Brings
  <1>5. BrowserTypes'
    <2>1. request' \in [Tabs -> Requests]
      BY <1>1, <1>2 DEF BrowserInv, BrowserTypes
    <2>2. cookie' \in Ids \cup {None}
      BY <1>4 DEF BrowserInv, BrowserTypes, FreshAnswers
    <2>3. heard' \in BOOLEAN
      BY DEF Arrive, Lose, history, BrowserInv, BrowserTypes
    <2> QED BY <1>1, <2>1, <2>2, <2>3 DEF BrowserInv, BrowserTypes
  <1>6. KnownIds'
    BY <1>1, <1>2, <1>3, <1>4 DEF BrowserInv, KnownIds
  <1>7. FreshAnswers'
    BY <1>1, <1>2, <1>3, <1>4 DEF BrowserInv, FreshAnswers, Ids
  <1>8. WillBeReplaced'
    <2> SUFFICES ASSUME heard', cookie' # None, fate[cookie'] = "revoked"
                 PROVE  \E u \in Tabs : Replaces(request'[u])
      BY <1>1 DEF WillBeReplaced
    <2>1. heard /\ cookie' = cookie
      BY <1>4 DEF Arrive, Lose, history, BrowserInv, FreshAnswers
    <2>2. PICK u \in Tabs : Replaces(request[u])
      BY <1>1, <2>1 DEF BrowserInv, WillBeReplaced
    <2>3. u # t
      BY <2>1, <2>2 DEF Arrive, Lose, history, CookieAfter, Replaces, BrowserInv, FreshAnswers, Brings
    <2> QED BY <1>2, <2>2, <2>3
  <1> QED BY <1>5, <1>6, <1>7, <1>8 DEF BrowserInv

\* A handler answers.  Only a logout that succeeds revokes an id: the one its
\* request carried.
LEMMA AnswerBrowser ==
  ASSUME BrowserInv, NEW t \in Tabs, NEW status \in {"ok", "401", "403"},
         request[t].kind # "none", Answer(t, status),
         request[t].status = "none", request[t].kind = "login" => status # "ok",
         UNCHANGED <<cookie, csrf, heard>>,
         \A i \in Ids :
            /\ fate'[i] = "unborn" <=> fate[i] = "unborn"
            /\ fate'[i] = "revoked" =>
                 \/ fate[i] = "revoked"
                 \/ i = request[t].id /\ request[t].kind = "logout" /\ status = "ok"
  PROVE  BrowserInv'
  <1>1. BrowserTypes'
    BY DEF BrowserInv, BrowserTypes, Requests, Answer
  <1>2. /\ request'[t].kind = request[t].kind /\ request'[t].id = request[t].id
        /\ request'[t].status = status
        /\ \A u \in Tabs \ {t} : request'[u] = request[u]
    BY DEF BrowserInv, BrowserTypes, Requests, Answer
  <1>3. \A u \in Tabs : request[u].id \in Ids \cup {None}
    BY DEF BrowserInv, BrowserTypes, Requests
  <1>4. KnownIds'
    BY <1>2, <1>3 DEF BrowserInv, BrowserTypes, KnownIds
  <1>5. FreshAnswers'
    <2> SUFFICES ASSUME NEW u \in Tabs, Brings(request'[u])
                 PROVE  /\ request'[u].id \in Ids
                        /\ fate'[request'[u].id] # "revoked"
                        /\ cookie' # request'[u].id
                        /\ \A w \in Tabs \ {u} : request'[w].id # request'[u].id
      BY DEF FreshAnswers
    <2>1. u # t
      BY <1>2 DEF Brings
    <2>2. request'[u] = request[u] /\ Brings(request[u])
      BY <1>2, <2>1
    <2>3. \A w \in Tabs : request'[w].id = request[w].id
      BY <1>2
    <2> QED BY <2>1, <2>2, <2>3 DEF BrowserInv, FreshAnswers
  <1>6. WillBeReplaced'
    <2> SUFFICES ASSUME heard, cookie # None, fate'[cookie] = "revoked"
                 PROVE  \E u \in Tabs : Replaces(request'[u])
      BY DEF WillBeReplaced
    <2>1. CASE fate[cookie] = "revoked"
      <3>1. PICK u \in Tabs : Replaces(request[u])
        BY <2>1 DEF BrowserInv, WillBeReplaced
      <3>2. u # t
        BY <3>1 DEF Replaces
      <3> QED BY <1>2, <3>1, <3>2
    <2>2. CASE fate[cookie] # "revoked"
      <3>1. request[t].kind = "logout" /\ status = "ok"
        BY <2>2 DEF BrowserInv, BrowserTypes
      <3> QED BY <1>2, <3>1 DEF Replaces
    <2> QED BY <2>1, <2>2
  <1> QED BY <1>1, <1>4, <1>5, <1>6 DEF BrowserInv

\* A login succeeds: it revokes the id its request carried, and its answer
\* brings a new one.
LEMMA LoginBrowser ==
  ASSUME StoreInv, BrowserInv, NEW t \in Tabs, Login(t)
  PROVE  BrowserInv'
  <1>1. PICK new \in Ids :
          /\ request' = [request EXCEPT ![t].status = "ok", ![t].id = new]
          /\ fate[new] = "unborn" /\ fate'[new] = "live"
          /\ \A i \in Ids \ {new} :
               /\ fate'[i] = "unborn" <=> fate[i] = "unborn"
               /\ fate'[i] = "revoked" => fate[i] = "revoked" \/ i = request[t].id
    BY LoginStore
  <1>2. request[t].kind = "login" /\ request[t].status = "none" /\ UNCHANGED <<cookie, csrf, heard>>
    BY DEF Login, Waiting
  <1>3. BrowserTypes'
    <2>1. request \in [Tabs -> Requests]
      BY DEF BrowserInv, BrowserTypes
    <2>2. [request[t] EXCEPT !.status = "ok", !.id = new] \in Requests
      <3>1. request[t] \in Requests /\ new \in Ids
        BY <1>1, <2>1
      <3> HIDE DEF Ids
      <3> QED BY <3>1 DEF Requests
    <2>3. request' = [request EXCEPT ![t] = [request[t] EXCEPT !.status = "ok", !.id = new]]
      BY <1>1, <2>1 DEF Requests
    <2>4. request' \in [Tabs -> Requests]
      BY <2>1, <2>2, <2>3
    <2> QED BY <1>2, <2>4 DEF BrowserInv, BrowserTypes
  <1>4. /\ request'[t].kind = "login" /\ request'[t].id = new /\ request'[t].status = "ok"
        /\ \A u \in Tabs \ {t} : request'[u] = request[u]
    BY <1>1, <1>2 DEF BrowserInv, BrowserTypes, Requests
  <1>5. /\ cookie # new /\ \A u \in Tabs : request[u].id # new
        /\ cookie \in Ids \cup {None} /\ \A u \in Tabs : request[u].id \in Ids \cup {None}
    BY <1>1 DEF BrowserInv, BrowserTypes, Requests, KnownIds, Ids
  <1>6. KnownIds'
    <2>1. \A i \in Ids : fate[i] # "unborn" => fate'[i] # "unborn"
      BY <1>1
    <2>2. cookie' # None => fate'[cookie'] # "unborn"
      BY <1>2, <1>5, <2>1 DEF BrowserInv, KnownIds
    <2>3. fate'[request'[t].id] # "unborn"
      BY <1>1, <1>4
    <2>4. \A u \in Tabs \ {t} : request'[u].id # None => fate'[request'[u].id] # "unborn"
      BY <1>4, <1>5, <2>1 DEF BrowserInv, KnownIds
    <2> QED BY <2>2, <2>3, <2>4 DEF KnownIds
  <1>7. FreshAnswers'
    <2> SUFFICES ASSUME NEW u \in Tabs, Brings(request'[u])
                 PROVE  /\ request'[u].id \in Ids
                        /\ fate'[request'[u].id] # "revoked"
                        /\ cookie' # request'[u].id
                        /\ \A w \in Tabs \ {u} : request'[w].id # request'[u].id
      BY DEF FreshAnswers
    <2>1. CASE u = t
      <3>1. fate'[new] # "revoked" /\ cookie' # new /\ request'[t].id = new
        BY <1>1, <1>2, <1>4, <1>5
      <3>2. \A w \in Tabs \ {t} : request'[w].id # new
        BY <1>4, <1>5
      <3> QED BY <2>1, <3>1, <3>2
    <2>2. CASE u # t
      <3>1. request'[u] = request[u] /\ Brings(request[u])
        BY <1>4, <2>2
      <3>2. /\ request[u].id \in Ids /\ fate[request[u].id] # "revoked"
            /\ cookie # request[u].id
            /\ \A w \in Tabs \ {u} : request[w].id # request[u].id
        BY <3>1 DEF BrowserInv, FreshAnswers
      <3>3. fate'[request[u].id] # "revoked"
        BY <1>1, <2>2, <3>2
      <3>4. \A w \in Tabs \ {u} : request'[w].id # request[u].id
        BY <1>4, <1>5, <3>2
      <3> QED BY <1>2, <3>1, <3>2, <3>3, <3>4
    <2> QED BY <2>1, <2>2
  <1>8. WillBeReplaced'
    BY <1>4 DEF WillBeReplaced, Replaces
  <1> QED BY <1>3, <1>6, <1>7, <1>8 DEF BrowserInv

\* The process ends: what the browser asked in vain is forgotten, an answer on
\* its way still arrives.
LEMMA CrashBrowser ==
  ASSUME StoreInv, BrowserInv, ProcessEnds
  PROVE  BrowserInv'
  <1>1. /\ request' = [u \in Tabs |-> IF request[u].status = "none" THEN Nothing ELSE request[u]]
        /\ csrf' = {} /\ UNCHANGED <<cookie, heard>>
    BY DEF ProcessEnds
  <1>2. \A i \in Ids : /\ fate'[i] = "unborn" <=> fate[i] = "unborn"
                       /\ fate'[i] = "revoked" => fate[i] = "revoked"
    BY DEF ProcessEnds, EndAs, StoreInv, StoreTypes, LifeInv
  <1>3. Nothing \in Requests /\ Nothing.id = None /\ ~Brings(Nothing) /\ Nothing.status = "none"
    BY DEF Nothing, Requests, Brings
  <1>4. BrowserTypes'
    BY <1>1, <1>3 DEF BrowserInv, BrowserTypes
  <1>5. \A u \in Tabs : request'[u] = Nothing \/ request'[u] = request[u]
    BY <1>1
  <1>6. cookie \in Ids \cup {None} /\ \A u \in Tabs : request[u].id \in Ids \cup {None}
    BY DEF BrowserInv, BrowserTypes, Requests
  <1>7. KnownIds'
    BY <1>1, <1>2, <1>3, <1>5, <1>6 DEF BrowserInv, KnownIds
  <1>8. FreshAnswers'
    BY <1>1, <1>2, <1>3, <1>5, <1>6 DEF BrowserInv, FreshAnswers, Ids
  <1>9. WillBeReplaced'
    <2> SUFFICES ASSUME heard, cookie # None, fate'[cookie] = "revoked"
                 PROVE  \E u \in Tabs : Replaces(request'[u])
      BY <1>1 DEF WillBeReplaced
    <2>1. PICK u \in Tabs : Replaces(request[u])
      BY <1>2, <1>6 DEF BrowserInv, WillBeReplaced
    <2>2. request'[u] = request[u]
      BY <1>1, <2>1 DEF Replaces
    <2> QED BY <2>1, <2>2
  <1> QED BY <1>4, <1>7, <1>8, <1>9 DEF BrowserInv

-----------------------------------------------------------------------------
(* The whole specification.                                                *)

SessionInv == StoreInv /\ BrowserInv

\* authenticate revokes nothing, and no handler gives an id back.
LEMMA AuthenticateFates ==
  ASSUME StoreInv, NEW i, Authenticate(i)
  PROVE  \A j \in Ids : /\ fate'[j] = "unborn" <=> fate[j] = "unborn"
                        /\ fate'[j] = "revoked" => fate[j] = "revoked"
  BY DEF Authenticate, EndAs, Live, StoreInv, StoreTypes, LifeInv

\* Steps of the start leave the sessions alone.
LEMMA SameInv ==
  ASSUME SessionInv, UNCHANGED <<now, session, browser, history>>
  PROVE  SessionInv'
  BY DEF SessionInv, StoreInv, BrowserInv, browser, history, StoreTypes, LifeInv, BornInOrder,
         Born, Live, BrowserTypes, KnownIds, FreshAnswers, WillBeReplaced

\* A handler answers a request.
LEMMA HandlerInv ==
  ASSUME SessionInv, NEW t \in Tabs, Handler(t)
  PROVE  SessionInv'
  <1> USE DEF SessionInv
  <1>1. CASE ServeAuthorized(t)
    <2>1. /\ Authenticate(request[t].id) /\ UNCHANGED <<now, cookie, csrf, heard>>
          /\ request[t].status = "none" /\ request[t].kind \in {"check", "read", "write"}
      BY <1>1 DEF ServeAuthorized, Waiting
    <2>2. PICK status \in {"ok", "401", "403"} : Answer(t, status)
      BY <1>1 DEF ServeAuthorized
    <2>3. StoreInv'
      BY <2>1, AuthenticateStore
    <2>4. BrowserInv'
      BY <2>1, <2>2, AuthenticateFates, AnswerBrowser
    <2> QED BY <2>3, <2>4
  <1>2. CASE RefuseLogin(t)
    <2>1. /\ UNCHANGED <<now, session, cookie, csrf, history>>
          /\ request[t].status = "none" /\ request[t].kind = "login"
      BY <1>2 DEF RefuseLogin, Waiting
    <2>2. PICK status \in {"401", "403"} : Answer(t, status)
      BY <1>2 DEF RefuseLogin
    <2>3. StoreInv'
      BY <2>1 DEF history, StoreInv, StoreTypes, LifeInv, BornInOrder, Born, Live
    <2>4. BrowserInv'
      BY <2>1, <2>2, AnswerBrowser DEF history
    <2> QED BY <2>3, <2>4
  <1>3. CASE Login(t)
    BY <1>3, LoginStore, LoginBrowser
  <1>4. CASE Logout(t)
    <2> DEFINE old == {request[t].id} \cap Live
    <2>1. /\ UNCHANGED <<now, cookie, csrf, heard>>
          /\ request[t].status = "none" /\ request[t].kind = "logout"
      BY <1>4 DEF Logout, Waiting
    <2>2. CASE t \in csrf
      <3>1. Answer(t, "ok") /\ session' = Without(old) /\ EndAs(old, "revoked")
        BY <1>4, <2>2 DEF Logout
      <3>2. StoreInv'
        <4>1. now' \in 0..MaxTime
          BY <2>1 DEF StoreInv, StoreTypes
        <4> QED BY <2>1, <3>1, <4>1, SessionsEnd
      <3>3. \A j \in Ids : /\ fate'[j] = "unborn" <=> fate[j] = "unborn"
                           /\ fate'[j] = "revoked" => fate[j] = "revoked" \/ j = request[t].id
        BY <3>1 DEF EndAs, StoreInv, StoreTypes, LifeInv
      <3>4. BrowserInv'
        BY <2>1, <3>1, <3>3, AnswerBrowser
      <3> QED BY <3>2, <3>4
    <2>3. CASE t \notin csrf
      <3>1. Answer(t, "403") /\ UNCHANGED <<session, life, fate>>
        BY <1>4, <2>3 DEF Logout
      <3>2. StoreInv'
        BY <2>1, <3>1 DEF StoreInv, StoreTypes, LifeInv, BornInOrder, Born, Live
      <3>3. BrowserInv'
        BY <2>1, <3>1, AnswerBrowser
      <3> QED BY <3>2, <3>3
    <2> QED BY <2>2, <2>3
  <1> QED BY <1>1, <1>2, <1>3, <1>4 DEF Handler

\* Every step keeps the invariants of the store and the browser.
LEMMA NextSessionInv ==
  ASSUME SessionInv, [Next]_vars
  PROVE  SessionInv'
  <1> USE DEF SessionInv
  <1>1. CASE \E t \in Tabs : LoadPage(t) \/ \E kind \in {"login", "logout", "read", "write"} : Send(t, kind)
    <2>1. PICK t \in Tabs, kind \in {"check", "login", "logout", "read", "write"} : Sent(t, kind)
      BY <1>1 DEF LoadPage, Send
    <2>2. UNCHANGED <<now, session, cookie, history>> /\ csrf' \subseteq Tabs
      BY <1>1 DEF LoadPage, Send, BrowserInv, BrowserTypes
    <2>3. StoreInv'
      BY <2>2 DEF history, StoreInv, StoreTypes, LifeInv, BornInOrder, Born, Live
    <2> QED BY <2>1, <2>2, <2>3, SentBrowser DEF history
  <1>2. CASE \E t \in Tabs : Handler(t)
    BY <1>2, HandlerInv
  <1>3. CASE \E t \in Tabs : Arrive(t) \/ Lose(t)
    <2>1. UNCHANGED <<now, session, life, fate>>
      BY <1>3 DEF Arrive, Lose, history
    <2>2. StoreInv'
      BY <2>1 DEF StoreInv, StoreTypes, LifeInv, BornInOrder, Born, Live
    <2> QED BY <1>3, <2>2, EndBrowser
  <1>4. CASE Tick
    <2>1. now' = now + 1 /\ now' \in 0..MaxTime /\ UNCHANGED <<session, browser, history>>
      BY <1>4 DEF Tick, StoreInv, StoreTypes
    <2>2. StoreInv'
      BY <2>1 DEF history, StoreInv, StoreTypes, LifeInv, BornInOrder, Born, Live, Times
    <2>3. BrowserInv'
      BY <2>1 DEF browser, history, BrowserInv, BrowserTypes, KnownIds, FreshAnswers, WillBeReplaced
    <2> QED BY <2>2, <2>3
  <1>5. CASE ProcessEnds
    <2>1. Without(Ids) = Without(Live)
      BY DEF Without, Live
    <2>2. StoreInv'
      BY <1>5, <2>1, SessionsEnd DEF ProcessEnds
    <2> QED BY <1>5, <2>2, CrashBrowser
  <1>6. CASE UNCHANGED <<now, session, browser, history>>
    BY <1>6, SameInv
  <1> QED BY <1>1, <1>2, <1>3, <1>4, <1>5, <1>6 DEF Next, vars

\* What the theorems follow from.
LEMMA SessionInvariant == Spec => [](StartInv /\ SessionInv)
  <1>1. Init => StartInv /\ SessionInv
    BY StartInitInv, StoreInit, BrowserInit DEF Init, SessionInv
  <1>2. StartInv /\ SessionInv /\ [Next]_vars => StartInv' /\ SessionInv'
    BY NextStartInv, NextSessionInv
  <1> QED BY <1>1, <1>2, PTL DEF Spec

\* TypeOK holds in every reachable state.
THEOREM SessionTypes == Spec => []TypeOK
  <1>1. StartInv /\ SessionInv => TypeOK
    <2> SUFFICES ASSUME StartInv, StoreInv, BrowserInv PROVE TypeOK
      BY DEF SessionInv
    <2>1. \A t \in Tabs :
            /\ request[t].kind \in {"none", "check", "login", "logout", "read", "write"}
            /\ request[t].id \in Ids \cup {None}
            /\ request[t].status \in {"none", "ok", "401", "403"}
      BY DEF BrowserInv, BrowserTypes, Requests
    <2> QED BY <2>1 DEF TypeOK, StartInv, StoreInv, StoreTypes, LifeInv, BrowserInv, BrowserTypes
  <1> QED BY <1>1, SessionInvariant, PTL

\* CookieIsNotRevoked holds in every reachable state: no order of answers and
\* no crash leaves the browser with an id that a logout or a login revoked.
THEOREM CookieUsable == Spec => []CookieIsNotRevoked
  <1>1. SessionInv => CookieIsNotRevoked
    <2> SUFFICES ASSUME BrowserInv, heard, \A t \in Tabs : request[t] = Nothing, cookie # None
                 PROVE  fate[cookie] # "revoked"
      BY DEF SessionInv, CookieIsNotRevoked
    <2> QED BY DEF BrowserInv, WillBeReplaced, Replaces, Nothing
  <1> QED BY <1>1, SessionInvariant, PTL

\* AcceptedIsAlive holds for every step: no request is answered on a session
\* past its lifetimes, revoked or lost, whatever the lifetimes are.
THEOREM OnlyAliveAccepted == Spec => AcceptedIsAlive
  <1> DEFINE Alive(t) ==
        LET i == request[t].id IN
        request[t].status = "none" /\ AcceptedIn(t)
        => /\ fate[i] = "live"
           /\ now - life[i].born < Absolute
           /\ now - life[i].used < Idle
  <1>1. SessionInv /\ [Next]_vars => [\A t \in Tabs : Alive(t)]_vars
    <2> SUFFICES ASSUME SessionInv, Next, NEW t \in Tabs,
                        request[t].status = "none", AcceptedIn(t)
                 PROVE  LET i == request[t].id IN
                        /\ fate[i] = "live"
                        /\ now - life[i].born < Absolute
                        /\ now - life[i].used < Idle
      OBVIOUS
    <2> DEFINE i == request[t].id
    <2>1. request[t].kind \in {"check", "read", "write"} /\ request'[t].status = "ok"
      BY DEF AcceptedIn
    <2>2. request' # request /\ request'[t] # request[t]
      BY <2>1
    <2>3. Accepted(i)
      <3>1. request \in [Tabs -> Requests]
        BY DEF SessionInv, BrowserInv, BrowserTypes
      <3>2. CASE \E u \in Tabs : LoadPage(u) \/ \E kind \in {"login", "logout", "read", "write"} : Send(u, kind)
        BY <2>1, <2>2, <3>1, <3>2 DEF LoadPage, Send, Sent
      <3>3. CASE \E u \in Tabs : Handler(u)
        <4>1. PICK u \in Tabs : Handler(u)
          BY <3>3
        <4>2. u = t
          BY <2>2, <3>1, <4>1 DEF Handler, ServeAuthorized, RefuseLogin, Login, Logout, Answer
        <4>3. ServeAuthorized(t)
          BY <2>1, <4>1, <4>2 DEF Handler, RefuseLogin, Login, Logout, Waiting
        <4> QED BY <2>1, <3>1, <4>3 DEF ServeAuthorized, Answer, Requests
      <3>4. CASE \E u \in Tabs : Arrive(u) \/ Lose(u)
        BY <2>1, <2>2, <3>1, <3>4 DEF Arrive, Lose, Nothing
      <3>5. CASE ProcessEnds
        BY <2>1, <3>5 DEF ProcessEnds, Nothing
      <3>6. CASE UNCHANGED browser
        BY <2>2, <3>6 DEF browser
      <3> QED BY <3>2, <3>3, <3>4, <3>5, <3>6 DEF Next, Tick
    <2> QED
      <3>1. /\ i \in Live /\ fate[i] = "live"
            /\ life[i] = [born |-> session[i].created, used |-> session[i].seen]
            /\ session[i].created \in 0..now /\ session[i].seen \in session[i].created..now
            /\ now \in Nat
        BY <2>3 DEF Accepted, SessionInv, StoreInv, StoreTypes, LifeInv
      <3>2. /\ ~(now - session[i].created >= Absolute)
            /\ ~(now - session[i].seen >= Idle)
        BY <2>3 DEF Accepted, Expired
      <3>3. life[i].born = session[i].created /\ life[i].used = session[i].seen
        BY <3>1
      <3> QED BY <3>1, <3>2, <3>3
  <1> QED BY <1>1, SessionInvariant, PTL DEF Spec, AcceptedIsAlive

=============================================================================
