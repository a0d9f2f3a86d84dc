--------------------------- MODULE PanelOwnership ---------------------------
(***************************************************************************)
(* The sidebar panel that the native config entries of the integration     *)
(* share: async_setup_entry and async_unload_entry of __init__.py with     *)
(* async_register_panel and async_unregister_panel of panel.py.  Setups    *)
(* and unloads of different entries interleave at their awaits; Home       *)
(* Assistant runs one transition of an entry at a time and sets up all     *)
(* entries together when it starts.  An action is the code between two     *)
(* awaits.                                                                 *)
(***************************************************************************)
EXTENDS FiniteSets

CONSTANTS Entries,   \* config entries of the integration
          Native,    \* those of the native backend type
          NoEntry    \* not an entry

ASSUME EntriesAssumption == Native \subseteq Entries /\ NoEntry \notin Entries

VARIABLES pc,        \* where each entry is
          reg,       \* panel_registered of its runtime data, "none" without any
          target,    \* the entry it is promoting
          panel,     \* the entry the panel belongs to
          overlap    \* history: two transitions were once under way together

vars == <<pc, reg, target, panel, overlap>>

\* "failed" is SETUP_ERROR (a new setup may be tried), "stuck" is
\* FAILED_UNLOAD (only a restart helps).
Pcs == {"out", "refresh", "discover", "forward", "loaded", "unloading",
        "promoting", "failed", "stuck"}
Moving == {"refresh", "discover", "forward", "unloading", "promoting"}

Init == /\ pc = [e \in Entries |-> "out"]
        /\ reg = [e \in Entries |-> "none"]
        /\ target = [e \in Entries |-> NoEntry]
        /\ panel = NoEntry
        /\ overlap = FALSE

\* e goes on to s.
Goto(e, s) ==
    /\ pc' = [pc EXCEPT ![e] = s]
    /\ overlap' = (overlap \/ (s \in Moving /\ \E f \in Entries \ {e} : pc[f] \in Moving))

-----------------------------------------------------------------------------
(* Setup.                                                                  *)

SetUp(e) == /\ pc[e] \in {"out", "failed"}
            /\ Goto(e, "refresh")
            /\ UNCHANGED <<reg, target, panel>>

\* A first refresh raises: the backend cannot be reached or refuses the token.
RefreshFails(e) == /\ pc[e] = "refresh"
                   /\ Goto(e, "out")
                   /\ UNCHANGED <<reg, target, panel>>

\* Mutation: the runtime data is only made by the entry that takes the panel.
CheckPanelEarly(e) ==
    /\ pc[e] = "refresh"
    /\ IF e \notin Native \/ panel # NoEntry
       THEN Goto(e, "forward") /\ UNCHANGED reg
       ELSE Goto(e, "discover") /\ reg' = [reg EXCEPT ![e] = "no"]
    /\ UNCHANGED <<target, panel>>

\* The runtime data is made; a native entry that finds no panel asks the
\* Supervisor for the address before it registers one.
CheckPanel(e) ==
    /\ pc[e] = "refresh"
    /\ reg' = [reg EXCEPT ![e] = "no"]
    /\ Goto(e, IF e \notin Native \/ panel # NoEntry THEN "forward" ELSE "discover")
    /\ UNCHANGED <<target, panel>>

\* Home Assistant refuses a second panel with the same path: ValueError.
Register(e) ==
    /\ pc[e] = "discover"
    /\ IF panel = NoEntry
       THEN /\ Goto(e, "forward")
            /\ panel' = e
            /\ reg' = [reg EXCEPT ![e] = "yes"]
       ELSE Goto(e, "failed") /\ UNCHANGED <<reg, panel>>
    /\ UNCHANGED target

Forwarded(e) == /\ pc[e] = "forward"
                /\ Goto(e, "loaded")
                /\ UNCHANGED <<reg, target, panel>>

-----------------------------------------------------------------------------
(* Unload.                                                                 *)

Unload(e) == /\ pc[e] = "loaded"
             /\ Goto(e, "unloading")
             /\ UNCHANGED <<reg, target, panel>>

\* A platform does not unload.
UnloadRefused(e) == /\ pc[e] = "unloading"
                    /\ Goto(e, "stuck")
                    /\ UNCHANGED <<reg, target, panel>>

Candidates(e) == {c \in Native \ {e} : pc[c] = "loaded"}

\* The owner removes the panel and, if another native entry is loaded, goes on
\* to register it for that one, which asks the Supervisor first.  An unloaded
\* entry has no runtime data.
Unregister(e) ==
    /\ pc[e] = "unloading"
    /\ panel' = IF reg[e] = "yes" THEN NoEntry ELSE panel
    /\ IF reg[e] = "yes" /\ Candidates(e) # {}
       THEN \E c \in Candidates(e) :
                /\ Goto(e, "promoting")
                /\ target' = [target EXCEPT ![e] = c]
                /\ reg' = [reg EXCEPT ![e] = "no"]
       ELSE /\ Goto(e, "out")
            /\ reg' = [reg EXCEPT ![e] = "none"]
            /\ UNCHANGED target

\* Mutation: a panel that is there already counts as the candidate's.
PromoteAny(e) ==
    /\ pc[e] = "promoting"
    /\ panel' = IF panel = NoEntry THEN target[e] ELSE panel
    /\ target' = [target EXCEPT ![e] = NoEntry]
    /\ IF reg[target[e]] = "none"
       THEN Goto(e, "stuck") /\ UNCHANGED reg
       ELSE Goto(e, "out") /\ reg' = [reg EXCEPT ![target[e]] = "yes", ![e] = "none"]

\* The candidate's panel is registered unless another entry's is there by now
\* (ValueError); a candidate unloaded meanwhile has no runtime data to note it
\* in (AttributeError).  Either error makes the unload fail.
Promote(e) ==
    /\ pc[e] = "promoting"
    /\ panel' = IF panel = NoEntry THEN target[e] ELSE panel
    /\ target' = [target EXCEPT ![e] = NoEntry]
    /\ IF panel # NoEntry \/ reg[target[e]] = "none"
       THEN Goto(e, "stuck") /\ UNCHANGED reg
       ELSE /\ Goto(e, "out")
            /\ reg' = [reg EXCEPT ![target[e]] = "yes", ![e] = "none"]

\* Home Assistant stops and starts: nothing of this is stored.
Restart == /\ pc' = [e \in Entries |-> "out"]
           /\ reg' = [e \in Entries |-> "none"]
           /\ target' = [e \in Entries |-> NoEntry]
           /\ panel' = NoEntry
           /\ overlap' = FALSE

EntryStep(e) ==
    \/ SetUp(e) \/ RefreshFails(e) \/ CheckPanel(e) \/ Register(e)
    \/ Forwarded(e) \/ Unload(e) \/ UnloadRefused(e) \/ Unregister(e)
    \/ Promote(e)

Next == Restart \/ \E e \in Entries : EntryStep(e)

Spec == Init /\ [][Next]_vars

-----------------------------------------------------------------------------
(* Properties.                                                             *)

\* From the forwarding of its platforms to the end of its unload an entry has
\* runtime data, and one that promotes has somebody else to promote.
TypeOK ==
    /\ pc \in [Entries -> Pcs]
    /\ reg \in [Entries -> {"none", "no", "yes"}]
    /\ target \in [Entries -> Native \cup {NoEntry}]
    /\ panel \in Native \cup {NoEntry}
    /\ overlap \in BOOLEAN
    /\ \A e \in Entries :
         /\ pc[e] \in Pcs \ {"out", "refresh", "failed"} => reg[e] # "none"
         /\ pc[e] = "promoting" => target[e] \in Native \ {e}

\* Whatever setups, unloads and promotions overlap, an entry that believes it
\* registered the panel is the one the panel points to: an unload removes no
\* other entry's panel, and there are never two owners.
OwnerHasPanel == \A e \in Entries : reg[e] = "yes" => panel = e

\* ADR-0007: the first loaded native entry registers the panel, another loaded
\* one takes over when it unloads.  It holds as long as no two transitions
\* overlap: whenever a native entry is loaded and none is on its way, there is
\* a panel, and its owner knows it.
PanelFollowsAlone ==
    ~overlap /\ (\A e \in Entries : pc[e] \notin Moving)
             /\ (\E e \in Native : pc[e] = "loaded") =>
        panel # NoEntry /\ reg[panel] = "yes"

=============================================================================
