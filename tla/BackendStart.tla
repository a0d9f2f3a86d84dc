---------------------------- MODULE BackendStart ----------------------------
(***************************************************************************)
(* From the start of the container to the first request: the bootstrap     *)
(* (container_entrypoint.py), the settings (config.py), the migrations     *)
(* (database.py), the SSH key (ssh_keys.py) and the lifespan (app.py) that *)
(* runs them in this order, with a crash between any two of their steps.   *)
(*                                                                         *)
(* The volume /data survives, the process does not.  SQLite commits a      *)
(* transaction as a whole or not at all; ssh-keygen makes the file first   *)
(* and fills it then.                                                      *)
(***************************************************************************)
EXTENDS Naturals, FiniteSets

CONSTANTS Migrations,  \* number of migrations, the length of _MIGRATIONS
          MaxKeys,     \* bound: keys ever generated
          MaxCrashes   \* bound: crashes and stops

ASSUME StartAssumption ==
    Migrations \in Nat /\ MaxKeys \in Nat \ {0} /\ MaxCrashes \in Nat

Versions == 1..Migrations

VARIABLES
    proc,     \* where the process is
    options,  \* the options and the environment are valid
    applied,  \* _migrate's local: the versions it has read
    db,       \* version -> how often its statements are in the file
    version,  \* rows of schema_migrations
    key,      \* the key in the file, 0 if there is no file
    filled,   \* the file holds the whole key
    given,    \* history: public keys the API has given out
    crashes   \* bounded by MaxCrashes

disk  == <<options, db, version, key, filled, given>>
start == <<proc, applied, disk, crashes>>

\* A new installation, or one of an earlier release.
StartInit ==
    /\ proc = "down"
    /\ options \in BOOLEAN
    /\ applied = {}
    /\ \E v \in 0..Migrations :
        /\ version = 1..v
        /\ db = [w \in Versions |-> IF w <= v THEN 1 ELSE 0]
        /\ key = IF v = 0 THEN 0 ELSE 1
        /\ filled = (v # 0)
    /\ given = {}
    /\ crashes = 0

Dies == proc' = "down" /\ applied' = {}

-----------------------------------------------------------------------------
\* main: the options become environment variables, /data is handed over to the
\* unprivileged user, the backend is executed.
Bootstrap ==
    /\ proc = "down"
    /\ proc' = "settings"
    /\ UNCHANGED <<applied, disk, crashes>>

\* Settings.from_env raises ValueError for a short token or an unknown value.
LoadSettings ==
    /\ proc = "settings"
    /\ IF options
       THEN proc' = "migrate" /\ UNCHANGED applied
       ELSE Dies
    /\ UNCHANGED <<disk, crashes>>

\* The administrator corrects the options.
EditOptions ==
    /\ proc = "down"
    /\ ~options
    /\ options' = TRUE
    /\ UNCHANGED <<proc, applied, db, version, key, filled, given, crashes>>

\* _migrate: the versions are read once, before the first transaction.
ReadVersions ==
    /\ proc = "migrate"
    /\ applied' = version
    /\ proc' = "migrations"
    /\ UNCHANGED <<disk, crashes>>

Pending == Versions \ (applied \cup version)
NextVersions == {v \in Pending : \A w \in Pending : v <= w}

\* Mutation: the statements are committed before their version is.
MigrateThenRecord ==
    /\ proc = "migrations"
    /\ \E v \in NextVersions, recorded \in BOOLEAN :
        /\ db' = [db EXCEPT ![v] = @ + 1]
        /\ version' = IF recorded THEN version \cup {v} ELSE version
        /\ IF recorded THEN UNCHANGED <<proc, applied>> ELSE Dies
    /\ UNCHANGED <<options, key, filled, given, crashes>>

\* Mutation: the rows are counted from zero, the migrations from one.
MigrateFromZero ==
    /\ proc = "migrations"
    /\ \E v \in NextVersions :
        /\ db' = [db EXCEPT ![v] = @ + 1]
        /\ version' = version \cup {v - 1}
    /\ UNCHANGED <<proc, options, applied, key, filled, given, crashes>>

\* One script per missing version, in order, that ends with the row of that
\* version and COMMIT.
Migrate ==
    /\ proc = "migrations"
    /\ \E v \in NextVersions :
        /\ db' = [db EXCEPT ![v] = @ + 1]
        /\ version' = version \cup {v}
    /\ UNCHANGED <<proc, options, applied, key, filled, given, crashes>>

Migrated ==
    /\ proc = "migrations" /\ Pending = {}
    /\ proc' = "keys"
    /\ UNCHANGED <<applied, disk, crashes>>

\* Mutation: a key is generated at every start.
NeedsNewKeyAlways == TRUE

\* SshKeyStore._ensure looks whether there is a file, not what is in it.
NeedsNewKey == key = 0

\* ssh-keygen creates the file ...
GenerateKey ==
    /\ proc = "keys" /\ NeedsNewKey
    /\ key < MaxKeys
    /\ key' = key + 1 /\ filled' = FALSE
    /\ proc' = "keygen"
    /\ UNCHANGED <<applied, options, db, version, given, crashes>>

\* ... and fills it.
FillKey ==
    /\ proc = "keygen"
    /\ filled' = TRUE
    /\ proc' = "queue"
    /\ UNCHANGED <<applied, options, db, version, key, given, crashes>>

KeepKey ==
    /\ proc = "keys" /\ ~NeedsNewKey
    /\ proc' = "queue"
    /\ UNCHANGED <<applied, disk, crashes>>

\* jobs.async_start (JobQueue), then the first request may come.
QueueLoaded ==
    /\ proc = "queue"
    /\ proc' = "serving"
    /\ UNCHANGED <<applied, disk, crashes>>

\* Killed, stopped, or a step of the start failed.
Crash ==
    /\ proc # "down"
    /\ crashes < MaxCrashes
    /\ crashes' = crashes + 1
    /\ Dies
    /\ UNCHANGED disk

\* GET /api/v1/ssh/public-key; ssh-keygen -y refuses a file that is not whole.
GivePublicKey ==
    /\ proc = "serving"
    /\ filled
    /\ given' = given \cup {key}
    /\ UNCHANGED <<proc, applied, options, db, version, key, filled, crashes>>

StartStep == \/ Bootstrap \/ LoadSettings \/ ReadVersions \/ Migrate \/ Migrated
             \/ GenerateKey \/ FillKey \/ KeepKey \/ QueueLoaded

-----------------------------------------------------------------------------
StartTypeOK ==
    /\ proc \in {"down", "settings", "migrate", "migrations", "keys", "keygen",
                 "queue", "serving"}
    /\ options \in BOOLEAN
    /\ applied \subseteq Versions
    /\ db \in [Versions -> Nat]
    /\ version \subseteq Versions
    /\ key \in 0..MaxKeys
    /\ filled \in BOOLEAN
    /\ given \subseteq 1..MaxKeys
    /\ crashes \in 0..MaxCrashes

\* Whenever the backend serves, each migration has been executed exactly once
\* over all starts, crashed ones included (a repeated ALTER TABLE would fail,
\* a repeated copy of the jobs would double them).
MigratedOnce ==
    /\ \A v \in Versions : db[v] <= 1
    /\ proc = "serving" => \A v \in Versions : db[v] = 1

\* docs/01-product/acceptance.md:71, REQ-BCK-003: all public keys the API ever
\* gave out are one, and it is still the one jobs log in with.
OneIdentity == given # {} => given = {key} /\ filled

=============================================================================
