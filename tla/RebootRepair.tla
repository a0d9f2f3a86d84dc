---------------------------- MODULE RebootRepair ----------------------------
(***************************************************************************)
(* How a config entry of the integration shows and acts on the status of a *)
(* host: the coordinator's copy (coordinator.py), the repair issue that    *)
(* follows it (reboot.py), the repair flow (repairs.py), the buttons and   *)
(* the update entity (button.py, update.py, entity.py), over the backend   *)
(* of HostStatus.                                                          *)
(*                                                                         *)
(* The task manager is reduced to its registry: the commands whose tracker *)
(* runs (TaskManager models the rest).  From Home Assistant come the one   *)
(* refresh at a time of a coordinator, the skipping of unavailable         *)
(* entities, that a finished repair flow deletes its issue, and that an    *)
(* entry whose unload is refused or raises keeps its listeners and its     *)
(* runtime data, neither loaded nor to be set up again, until a restart.   *)
(***************************************************************************)
EXTENDS HostStatus

CONSTANT NoData   \* the coordinator's data has no such host

\* The repair flow asks for reboots.
ASSUME RepairAssumption == "reboot" \in Actions

\* Command, by the action its job executes; REFRESH_STATUS is Semaphore's only.
Commands == {"check_updates", "update", "reboot"}

VARIABLES
    entry,    \* state of the config entry; "registering" and "forwarding" are
              \* the two awaits of its setup after the first refresh
    data,     \* coordinator.data of the host
    ok,       \* coordinator.last_update_success
    fetch,    \* the refresh under way: "idle", "sent" or "read"
    answer,   \* what it read
    issue,    \* the issue registry has the host's issue
    mine,     \* runtime.reboot_issue_ids has it
    known,    \* the host's entities exist
    flow,     \* the repair flow: "none", "form", "starting", or "orphaned" when
              \* the entry was unloaded while it was starting the reboot
    tracked   \* commands with a registered, running tracker

copy  == <<data, ok, fetch, answer>>
shown == <<issue, mine, known>>
calls == <<flow, tracked>>
integration == <<entry, copy, shown, calls>>
vars == <<backend, integration>>

Init ==
    /\ BackendInit
    /\ entry = "unloaded"
    /\ data = NoData /\ ok = FALSE
    /\ fetch = "idle" /\ answer = NoData
    /\ issue = FALSE /\ mine = FALSE /\ known = FALSE
    /\ flow = "none" /\ tracked = {}

\* The listener of the issues is added and not removed yet.
Listening == entry \in {"forwarding", "loaded", "unloading", "failed"}

Snapshot == IF Exists THEN row ELSE NoData
Needed(d) == d # NoData /\ d.reboot

-----------------------------------------------------------------------------
(* The listeners of the coordinator.                                       *)

\* Mutation: only hosts of the new data are looked at.
SyncPresentHosts(d) ==
    /\ issue' = IF d = NoData THEN issue ELSE Needed(d)
    /\ mine' = Needed(d)

\* Mutation: an issue that was created is never created again.
SyncOnce(d) ==
    /\ issue' = (Needed(d) /\ (issue \/ ~mine))
    /\ mine' = Needed(d)

\* async_sync_reboot_issues: an issue for a host that needs a reboot, none
\* for one that does not or that is gone.
SyncIssues(d) ==
    /\ issue' = IF d = NoData /\ ~mine THEN issue ELSE Needed(d)
    /\ mine' = Needed(d)

\* async_setup_dynamic_host_entities: new hosts get entities once the platforms
\* are set up, hosts that are missing keep theirs.
AddEntities(d) == known' = (known \/ (entry' = "loaded" /\ d # NoData))

-----------------------------------------------------------------------------
(* Setup, refreshes, unload.                                               *)

\* async_config_entry_first_refresh of a new coordinator.
SetUp ==
    /\ entry = "unloaded"
    /\ entry' = "setup"
    /\ fetch' = "sent" /\ answer' = NoData
    /\ UNCHANGED <<backend, data, ok, shown, calls>>

\* The poll interval, or a tracker that saw its job end.
Poll ==
    /\ Listening
    /\ fetch = "idle"
    /\ fetch' = "sent"
    /\ UNCHANGED <<backend, entry, data, ok, answer, shown, calls>>

\* GET /api/v1/hosts.
ServeHosts ==
    /\ fetch = "sent"
    /\ fetch' = "read"
    /\ answer' = Snapshot
    /\ UNCHANGED <<backend, entry, data, ok, shown, calls>>

\* The first refresh has data; nobody listens yet.
FirstReply ==
    /\ fetch = "read"
    /\ entry = "setup"
    /\ entry' = "registering"
    /\ fetch' = "idle" /\ answer' = NoData
    /\ data' = answer /\ ok' = TRUE
    /\ UNCHANGED <<backend, shown, calls>>

\* The data is replaced and the listeners run, as long as there are any.
Reply ==
    /\ fetch = "read"
    /\ entry # "setup"
    /\ fetch' = "idle" /\ answer' = NoData
    /\ UNCHANGED entry
    /\ IF Listening
       THEN /\ data' = answer /\ ok' = TRUE
            /\ SyncIssues(answer)
            /\ AddEntities(answer)
       ELSE UNCHANGED <<data, ok, issue, mine, known>>
    /\ UNCHANGED <<backend, calls>>

\* Another coordinator's first refresh or the panel fails: no listener yet.
SetUpFails ==
    /\ entry = "registering"
    /\ entry' = "unloaded"
    /\ data' = NoData /\ ok' = FALSE
    /\ UNCHANGED <<backend, fetch, answer, shown, calls>>

\* The panel is registered: issues for the first data, then the listener.
Publish ==
    /\ entry = "registering"
    /\ entry' = "forwarding"
    /\ SyncIssues(data)
    /\ UNCHANGED <<backend, copy, known, calls>>

\* The platforms are set up.
SetUpDone ==
    /\ entry = "forwarding"
    /\ entry' = "loaded"
    /\ AddEntities(data)
    /\ UNCHANGED <<backend, copy, issue, mine, calls>>

\* UpdateFailed: the old data stays, and a first failure after a success runs
\* the listeners; a first refresh that fails ends the setup.
RefreshFails ==
    /\ fetch \in {"sent", "read"}
    /\ fetch' = "idle" /\ answer' = NoData
    /\ entry' = IF entry = "setup" THEN "unloaded" ELSE entry
    /\ ok' = FALSE
    /\ IF ok
       THEN SyncIssues(data)
       ELSE UNCHANGED <<issue, mine>>
    /\ UNCHANGED <<backend, data, known, calls>>

\* async_unload_entry: the platforms are gone and the trackers cancelled ...
Unload ==
    /\ entry = "loaded"
    /\ entry' = "unloading"
    /\ known' = FALSE
    /\ tracked' = {}
    /\ flow' = IF flow = "starting" THEN "orphaned" ELSE flow
    /\ UNCHANGED <<backend, copy, issue, mine>>

\* ... or a platform refuses, with the host's entities gone or not.
UnloadRefused ==
    /\ entry = "loaded"
    /\ entry' = "failed"
    /\ known' \in {known, FALSE}
    /\ UNCHANGED <<backend, copy, issue, mine, calls>>

\* Handing the panel over raises (async_unregister_panel): the callbacks of
\* async_on_unload do not run.
UnloadRaises ==
    /\ entry = "unloading"
    /\ entry' = "failed"
    /\ UNCHANGED <<backend, copy, shown, calls>>

\* ... and, the panel handed over, async_remove_reboot_issues runs, the
\* listeners are removed and the runtime data is dropped.
Unloaded ==
    /\ entry = "unloading"
    /\ entry' = "unloaded"
    /\ issue' = (issue /\ ~mine)
    /\ mine' = FALSE
    /\ data' = NoData /\ ok' = FALSE
    /\ UNCHANGED <<backend, fetch, answer, known, calls>>

\* Home Assistant restarts: the issues are not persistent.
Restart ==
    /\ entry' = "unloaded"
    /\ data' = NoData /\ ok' = FALSE
    /\ fetch' = "idle" /\ answer' = NoData
    /\ issue' = FALSE /\ mine' = FALSE /\ known' = FALSE
    /\ flow' = "none" /\ tracked' = {}
    /\ UNCHANGED backend

-----------------------------------------------------------------------------
(* Commands.                                                               *)

\* The backend takes the job.
Dispatched(c) ==
    /\ Create(c)
    /\ UNCHANGED <<host, stored, row, lock, alone, quiet>>

\* CoordinatorEntity.available of the host's entities.
Available == known /\ ok /\ data # NoData

\* async_press of the check and the reboot button, async_install of the update
\* entity: each offers its command on the coordinator's data, and its tracker
\* is registered.  (Two calls at the same time: see TaskManager.)
Press(c) ==
    /\ entry = "loaded" \/ (entry = "failed" /\ known)
    /\ c \notin tracked
    /\ c = "update" => Available /\ data.updates
    /\ c = "reboot" => Available /\ data.reboot /\ "update" \notin tracked
    /\ Dispatched(c)
    /\ tracked' = tracked \cup {c}
    /\ UNCHANGED <<entry, copy, shown, flow>>

\* The tracker of a command ends: its job has ended, or its deadline passed.
TrackerEnds ==
    /\ \E c \in tracked : tracked' = tracked \ {c}
    /\ UNCHANGED <<backend, entry, copy, shown, flow>>

\* The management page or another client of the API asks for a job.
OtherClient(a) == Dispatched(a) /\ UNCHANGED integration

-----------------------------------------------------------------------------
(* The repair flow.                                                        *)

\* async_step_confirm: entry loaded, host present and in need of a reboot.
Confirmable == entry = "loaded" /\ Needed(data)

\* The user opens the issue: async_create_fix_flow, async_step_init.
OpenFlow ==
    /\ issue
    /\ flow = "none"
    /\ Confirmable
    /\ flow' = "form"
    /\ UNCHANGED <<backend, entry, copy, shown, tracked>>

\* The user submits: abort, "already running", or the command is sent.
Submit ==
    /\ flow = "form"
    /\ flow' = IF ~Confirmable THEN "none"
               ELSE IF "reboot" \in tracked THEN "form" ELSE "starting"
    /\ UNCHANGED <<backend, entry, copy, shown, tracked>>

\* The command is taken, which finishes the flow and its issue; or it fails
\* and the form says so.
Confirmed ==
    /\ flow \in {"starting", "orphaned"}
    /\ \/ /\ Dispatched("reboot")
          /\ tracked' = IF flow = "starting" THEN tracked \cup {"reboot"} ELSE tracked
          /\ flow' = "none"
          /\ issue' = FALSE
       \/ /\ flow' = "form"
          /\ UNCHANGED <<backend, tracked, issue>>
    /\ UNCHANGED <<entry, copy, mine, known>>

\* The user closes the form.
CloseFlow ==
    /\ flow = "form"
    /\ flow' = "none"
    /\ UNCHANGED <<backend, entry, copy, shown, tracked>>

-----------------------------------------------------------------------------
EntryStep == \/ SetUp \/ SetUpFails \/ Publish \/ SetUpDone
             \/ Poll \/ ServeHosts \/ FirstReply \/ Reply \/ RefreshFails
             \/ Unload \/ UnloadRefused \/ UnloadRaises \/ Unloaded \/ Restart

UserStep == \/ \E c \in Commands \cap Actions : Press(c)
            \/ TrackerEnds
            \/ OpenFlow \/ Submit \/ Confirmed \/ CloseFlow
            \/ \E a \in Actions : OtherClient(a)

BackendStep == \E j \in Jobs : JobStep(j)
HostEdit    == AddHost \/ DeleteHost

Next == \/ EntryStep
        \/ UserStep
        \/ (BackendStep \/ HostEdit) /\ UNCHANGED integration

Spec == Init /\ [][Next]_vars

\* Jobs go on (commands have a timeout), the coordinator polls at its
\* interval, and not every one of its polls fails.
FairSpec ==
    /\ Spec
    /\ WF_vars(BackendStep /\ UNCHANGED integration)
    /\ WF_vars(Poll) /\ SF_vars(ServeHosts) /\ SF_vars(Reply)

-----------------------------------------------------------------------------
(* Properties.                                                             *)

\* Every variable keeps its type.
TypeOK ==
    /\ BackendTypeOK
    /\ entry \in {"unloaded", "setup", "registering", "forwarding", "loaded",
                  "unloading", "failed"}
    /\ data \in Hosts \cup {NoData}
    /\ ok \in BOOLEAN
    /\ fetch \in {"idle", "sent", "read"}
    /\ answer \in Hosts \cup {NoData}
    /\ issue \in BOOLEAN /\ mine \in BOOLEAN /\ known \in BOOLEAN
    /\ flow \in {"none", "form", "starting", "orphaned"}
    /\ tracked \subseteq Commands

\* An issue is always one that a listener still follows, that the runtime data
\* names for the unload to remove, and that the listener's data calls for: no
\* reload, failed setup or unload, vanished host, late reply or finished flow
\* leaves one behind.
HintIsBacked == issue => mine /\ Listening /\ Needed(data)

\* Unless it keeps being unloaded, the entry's issue ends up being there exactly
\* if the stored status asks for a reboot, in an entry that failed to unload
\* too.
HintFollowsStatus ==
    \/ []<>~Listening
    \/ <>[](issue <=> Exists /\ row.reboot)


=============================================================================
