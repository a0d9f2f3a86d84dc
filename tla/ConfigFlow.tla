----------------------------- MODULE ConfigFlow -----------------------------
(***************************************************************************)
(* The config flows of the integration (config_flow.py) and the entries    *)
(* they write: several dialogs are open at a time, each of them waits for  *)
(* the backend it was told to validate, and a setup or a reload of the     *)
(* entry runs beside them (__init__.py).                                   *)
(*                                                                         *)
(* A context is what the unique id is made of: the URL of a native         *)
(* backend, or the URL and the project of a Semaphore one.  Of the other   *)
(* settings only the token matters here.  Whether a backend accepts a      *)
(* token is its own business and may change at any time.                   *)
(*                                                                         *)
(* From Home Assistant come: one reauthentication flow per entry, which    *)
(* carries the entry's unique id and bars user flows with the same one;    *)
(* changes of an entry between two awaits are atomic; a reload waits for   *)
(* the setup under way and reads the entry's data as it begins.            *)
(***************************************************************************)
EXTENDS Naturals

CONSTANTS
    Native, Semaphore,  \* the contexts of the two providers
    Tokens,             \* API tokens
    Slots,              \* entries that may exist at a time
    Flows,              \* dialogs that may be open at a time
    None                \* no entry, no context, no token

ASSUME FlowAssumption ==
    /\ Native \cap Semaphore = {}
    /\ None \notin Native \cup Semaphore \cup Slots

Contexts == Native \cup Semaphore

VARIABLES
    entry,    \* slot -> the data and the unique id of a config entry
    state,    \* slot -> "unloaded", "setting up" or "loaded"
    current,  \* slot -> that setup read the data that is stored now
    reload,   \* slot -> a reload is scheduled
    flow      \* dialog -> what it is and what it asks a backend

vars == <<entry, state, current, reload, flow>>

NoEntry == [version |-> 0, ctx |-> None, token |-> None, uid |-> None]
NoFlow  == [kind |-> "none", step |-> "none", entry |-> None, type |-> None,
            ctx |-> None, token |-> None, uid |-> None]

Stored == {e \in Slots : entry[e] # NoEntry}
Type(c) == IF c \in Native THEN "native" ELSE "semaphore"
Asking(f) == flow[f].step \in {"backend", "status"}

\* Entries of version 1 are older than the native backend.
Init ==
    /\ entry \in [Slots -> {NoEntry} \cup
                    {[version |-> v, ctx |-> c, token |-> t, uid |-> c] :
                        v \in {1, 3}, c \in Contexts, t \in Tokens}]
    /\ \A e \in Stored : entry[e].version = 1 => entry[e].ctx \in Semaphore
    /\ \A d, e \in Stored : d # e => entry[d].uid # entry[e].uid
    /\ state = [e \in Slots |-> "unloaded"]
    /\ current = [e \in Slots |-> FALSE]
    /\ reload = [e \in Slots |-> FALSE]
    /\ flow = [f \in Flows |-> NoFlow]

Close(f) == flow' = [flow EXCEPT ![f] = NoFlow]
ShowForm(f) == flow' = [flow EXCEPT ![f].step = "form", ![f].ctx = None,
                                    ![f].token = None]
entries == <<entry, state, current, reload>>

-----------------------------------------------------------------------------
(* Dialogs.                                                                *)

StartUser(f) ==
    /\ flow[f] = NoFlow
    /\ flow' = [flow EXCEPT ![f].kind = "user", ![f].step = "menu"]
    /\ UNCHANGED entries

\* async_step_user.
ChooseProvider(f, type) ==
    /\ flow[f].step = "menu"
    /\ flow' = [flow EXCEPT ![f].step = "form", ![f].type = type]
    /\ UNCHANGED entries

\* async_step_reauth: the task manager met a rejected token.
StartReauth(e, f) ==
    /\ flow[f] = NoFlow
    /\ state[e] = "loaded"
    /\ \A g \in Flows : ~(flow[g].kind = "reauth" /\ flow[g].entry = e)
    /\ flow' = [flow EXCEPT ![f] = [NoFlow EXCEPT !.kind = "reauth",
                    !.step = "form", !.entry = e, !.uid = entry[e].uid]]
    /\ UNCHANGED entries

StartReconfigure(e, f) ==
    /\ flow[f] = NoFlow
    /\ entry[e].version = 3
    /\ flow' = [flow EXCEPT ![f] = [NoFlow EXCEPT !.kind = "reconfigure",
                    !.step = "form", !.entry = e]]
    /\ UNCHANGED entries

Ask(f, c, t) ==
    flow' = [flow EXCEPT ![f].step = "backend", ![f].ctx = c, ![f].token = t]

\* A native backend is found by the Supervisor or typed in; a Semaphore one
\* is typed in.
SubmitUser(f, c, t) ==
    /\ flow[f].kind = "user" /\ flow[f].step = "form"
    /\ Type(c) = flow[f].type
    /\ Ask(f, c, t)
    /\ UNCHANGED entries

\* async_step_reauth_confirm: the data as it is now, with the new token.
SubmitReauth(f, t) ==
    /\ flow[f].kind = "reauth" /\ flow[f].step = "form"
    /\ flow[f].entry \in Stored
    /\ Ask(f, entry[flow[f].entry].ctx, t)
    /\ UNCHANGED entries

\* async_step_reconfigure: new settings of the same provider, with the token
\* as it is now.
SubmitReconfigure(f, c) ==
    /\ flow[f].kind = "reconfigure" /\ flow[f].step = "form"
    /\ flow[f].entry \in Stored
    /\ LET old == entry[flow[f].entry] IN
        /\ Type(c) = Type(old.ctx)
        /\ Ask(f, c, old.token)
    /\ UNCHANGED entries

\* The dialog is closed; one whose entry is gone ends with an error.
Dismiss(f) ==
    /\ flow[f].step \in {"menu", "form"}
    /\ Close(f)
    /\ UNCHANGED entries

-----------------------------------------------------------------------------
(* Answers of the backends.                                                *)

\* async_validate fails: the form is shown again.
Refused(f) ==
    /\ Asking(f)
    /\ ShowForm(f)
    /\ UNCHANGED entries

\* The Semaphore project is fine; the host status is asked for next.
StatusNext(f) ==
    /\ flow[f].step = "backend"
    /\ flow[f].ctx \in Semaphore
    /\ flow[f].kind # "reauth"
    /\ flow' = [flow EXCEPT ![f].step = "status"]
    /\ UNCHANGED entries

\* The last answer was a good one.
Validated(f) == \/ flow[f].step = "status"
                \/ /\ flow[f].step = "backend"
                   /\ flow[f].ctx \in Native \/ flow[f].kind = "reauth"

\* async_set_unique_id, _abort_if_unique_id_configured.
Barred(c) == \/ \E e \in Stored : entry[e].uid = c
             \/ \E g \in Flows : flow[g].kind = "reauth" /\ flow[g].uid = c

\* async_create_entry; Home Assistant sets the entry up.
CreateEntry(f) ==
    /\ flow[f].kind = "user" /\ Validated(f)
    /\ Close(f)
    /\ IF Barred(flow[f].ctx)
       THEN UNCHANGED entries
       ELSE \E e \in Slots \ Stored :
            /\ entry' = [entry EXCEPT ![e] =
                    [version |-> 3, ctx |-> flow[f].ctx, token |-> flow[f].token,
                     uid |-> flow[f].ctx]]
            /\ UNCHANGED <<state, current, reload>>

\* Mutation: only the update listener reloads, which a setup under way has not
\* added yet.
UpdateAndListen(e, c, t, uid) ==
    /\ entry' = [entry EXCEPT ![e].ctx = c, ![e].token = t, ![e].uid = uid]
    /\ current' = [current EXCEPT ![e] = FALSE]
    /\ reload' = [reload EXCEPT ![e] = @ \/ state[e] = "loaded"]
    /\ UNCHANGED state

\* async_update_reload_and_abort.
UpdateAndReload(e, c, t, uid) ==
    /\ entry' = [entry EXCEPT ![e].ctx = c, ![e].token = t, ![e].uid = uid]
    /\ current' = [current EXCEPT ![e] = FALSE]
    /\ reload' = [reload EXCEPT ![e] = TRUE]
    /\ UNCHANGED state

\* Mutation: only the token is written.
ReplaceTokenOnly(f) ==
    /\ flow[f].kind = "reauth" /\ Validated(f)
    /\ flow[f].entry \in Stored
    /\ Close(f)
    /\ LET e == flow[f].entry IN
        UpdateAndReload(e, entry[e].ctx, flow[f].token, entry[e].uid)

\* End of async_step_reauth_confirm: the validated data is written as a whole;
\* the unique id is left alone.
ReplaceToken(f) ==
    /\ flow[f].kind = "reauth" /\ Validated(f)
    /\ flow[f].entry \in Stored
    /\ Close(f)
    /\ LET e == flow[f].entry IN
        UpdateAndReload(e, flow[f].ctx, flow[f].token, entry[e].uid)

\* Mutation: the other entries are not compared.
ReconfigureAnyway(f) ==
    /\ flow[f].kind = "reconfigure" /\ Validated(f)
    /\ flow[f].entry \in Stored
    /\ Close(f)
    /\ UpdateAndReload(flow[f].entry, flow[f].ctx, flow[f].token, flow[f].ctx)

\* End of async_step_reconfigure: the other entries are compared now, after
\* the answer.
Reconfigure(f) ==
    /\ flow[f].kind = "reconfigure" /\ Validated(f)
    /\ flow[f].entry \in Stored
    /\ Close(f)
    /\ LET e == flow[f].entry IN
        IF \E other \in Stored \ {e} : entry[other].uid = flow[f].ctx
        THEN UNCHANGED entries
        ELSE UpdateAndReload(e, flow[f].ctx, flow[f].token, flow[f].ctx)

\* The entry was removed while the backend was asked.
EntryGone(f) ==
    /\ Validated(f)
    /\ flow[f].kind # "user"
    /\ flow[f].entry \notin Stored
    /\ Close(f)
    /\ UNCHANGED entries

-----------------------------------------------------------------------------
(* Entries.                                                                *)

\* Mutation: migrated by one version only.
SetUpOneVersion(e) ==
    /\ e \in Stored
    /\ state[e] = "unloaded"
    /\ entry' = [entry EXCEPT ![e].version = IF @ < 3 THEN @ + 1 ELSE @]
    /\ state' = [state EXCEPT ![e] = "setting up"]
    /\ current' = [current EXCEPT ![e] = TRUE]
    /\ UNCHANGED <<reload, flow>>

\* async_migrate_entry, then async_setup_entry up to its first await.
SetUp(e) ==
    /\ e \in Stored
    /\ state[e] = "unloaded"
    /\ entry' = [entry EXCEPT ![e].version = 3]
    /\ state' = [state EXCEPT ![e] = "setting up"]
    /\ current' = [current EXCEPT ![e] = TRUE]
    /\ UNCHANGED <<reload, flow>>

\* The first refreshes succeed, or Home Assistant tries again later.
SetUpEnds(e) ==
    /\ state[e] = "setting up"
    /\ \E s \in {"loaded", "unloaded"} : state' = [state EXCEPT ![e] = s]
    /\ UNCHANGED <<entry, current, reload, flow>>

\* _async_reload_entry, or the scheduled reload: unload and set up again.
Reload(e) ==
    /\ reload[e]
    /\ state[e] # "setting up"
    /\ reload' = [reload EXCEPT ![e] = FALSE]
    /\ state' = [state EXCEPT ![e] = "setting up"]
    /\ current' = [current EXCEPT ![e] = TRUE]
    /\ UNCHANGED <<entry, flow>>

Remove(e) ==
    /\ e \in Stored
    /\ state[e] # "setting up"
    /\ entry' = [entry EXCEPT ![e] = NoEntry]
    /\ state' = [state EXCEPT ![e] = "unloaded"]
    /\ current' = [current EXCEPT ![e] = FALSE]
    /\ reload' = [reload EXCEPT ![e] = FALSE]
    /\ flow' = [f \in Flows |->
            CASE flow[f].entry # e -> flow[f]
              [] flow[f].kind = "reauth" -> NoFlow
              [] OTHER -> [flow[f] EXCEPT !.entry = None]]

Restart ==
    /\ state' = [e \in Slots |-> "unloaded"]
    /\ current' = [e \in Slots |-> FALSE]
    /\ reload' = [e \in Slots |-> FALSE]
    /\ flow' = [f \in Flows |-> NoFlow]
    /\ UNCHANGED entry

-----------------------------------------------------------------------------
Answer(f) == \/ Refused(f) \/ StatusNext(f)
             \/ CreateEntry(f) \/ ReplaceToken(f) \/ Reconfigure(f) \/ EntryGone(f)

Dialog(f) ==
    \/ StartUser(f)
    \/ \E type \in {"native", "semaphore"} : ChooseProvider(f, type)
    \/ \E e \in Slots : StartReauth(e, f) \/ StartReconfigure(e, f)
    \/ \E c \in Contexts :
        \/ \E t \in Tokens : SubmitUser(f, c, t)
        \/ SubmitReconfigure(f, c)
    \/ \E t \in Tokens : SubmitReauth(f, t)
    \/ Dismiss(f)

EntryStep(e) == SetUp(e) \/ SetUpEnds(e) \/ Reload(e)

Next == \/ \E f \in Flows : Dialog(f) \/ Answer(f)
        \/ \E e \in Slots : EntryStep(e) \/ Remove(e)
        \/ Restart

Spec == Init /\ [][Next]_vars

-----------------------------------------------------------------------------
(* Properties.                                                             *)

\* Every variable keeps its type; the dialogs point at entries and contexts of
\* the provider they were opened for.
TypeOK ==
    /\ \A e \in Slots :
        \/ entry[e] = NoEntry
        \/ /\ entry[e].version \in {1, 3}
           /\ entry[e].ctx \in Contexts /\ entry[e].uid \in Contexts
           /\ entry[e].token \in Tokens
    /\ state \in [Slots -> {"unloaded", "setting up", "loaded"}]
    /\ current \in [Slots -> BOOLEAN]
    /\ reload \in [Slots -> BOOLEAN]
    /\ \A f \in Flows :
        /\ flow[f].kind \in {"none", "user", "reauth", "reconfigure"}
        /\ flow[f].step \in {"none", "menu", "form", "backend", "status"}
        /\ Asking(f) => flow[f].ctx \in Contexts /\ flow[f].token \in Tokens
        /\ flow[f].kind \in {"reauth", "reconfigure"} =>
            flow[f].entry \in Slots \cup {None}

\* No two entries have the same unique id, and none has one of the other
\* provider, whichever dialogs were open together (config_flow.py:243).
UniqueIds ==
    \A d, e \in Stored :
        /\ d # e => entry[d].uid # entry[e].uid
        /\ Type(entry[e].uid) = Type(entry[e].ctx)

\* REQ-CFG-003: a context and a token are stored together only if some dialog
\* asked that backend with that token and got a good answer; of two dialogs on
\* one entry neither mixes its half with the other's.
StoredTogetherValidatedTogether ==
    [][\A e \in Slots :
        LET was == <<entry[e].ctx, entry[e].token>>
            is  == <<entry'[e].ctx, entry'[e].token>>
        IN  is # was /\ entry'[e] # NoEntry =>
                \E f \in Flows : Validated(f) /\ is = <<flow[f].ctx, flow[f].token>>]_vars

\* An entry that runs with data it does not store any more is about to be
\* reloaded, also if the data changed while a setup was under way.
StaleSetupIsReloaded ==
    \A e \in Stored : state[e] # "unloaded" /\ ~current[e] => reload[e]

=============================================================================
