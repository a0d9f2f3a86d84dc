------------------------ MODULE PanelOwnershipProofs ------------------------
(***************************************************************************)
(* Machine-checked proofs about PanelOwnership, for any config entries.    *)
(***************************************************************************)
EXTENDS PanelOwnership, TLAPS

USE EntriesAssumption DEF EntriesAssumption

\* Only native entries ask the Supervisor and then register.
AskersNative == \A e \in Entries : pc[e] = "discover" => e \in Native

Inv == TypeOK /\ OwnerHasPanel /\ AskersNative

LEMMA InitInv == Init => Inv
  BY DEF Init, Inv, TypeOK, OwnerHasPanel, AskersNative, Pcs

\* A step that only moves an entry to a place its runtime data allows.
LEMMA MoveInv ==
  ASSUME Inv, NEW e \in Entries, NEW s \in Pcs, Goto(e, s),
         UNCHANGED <<reg, target, panel>>,
         s \notin {"promoting", "discover"},
         s \in Pcs \ {"out", "refresh", "failed"} => reg[e] # "none"
  PROVE  Inv'
  BY DEF Inv, TypeOK, OwnerHasPanel, AskersNative, Goto

\* New runtime data does not own the panel.
LEMMA CheckPanelInv ==
  ASSUME Inv, NEW e \in Entries, CheckPanel(e)
  PROVE  Inv'
  <1>1. /\ reg' = [reg EXCEPT ![e] = "no"] /\ UNCHANGED <<target, panel>>
        /\ \E s \in {"forward", "discover"} :
              Goto(e, s) /\ (s = "discover" => e \in Native)
    BY DEF CheckPanel
  <1>2. TypeOK' /\ AskersNative'
    BY <1>1 DEF Inv, TypeOK, AskersNative, Goto, Pcs
  <1>3. OwnerHasPanel'
    BY <1>1 DEF Inv, TypeOK, OwnerHasPanel
  <1> QED BY <1>2, <1>3 DEF Inv

\* Whoever registers found no panel, so nobody owned one.
LEMMA RegisterInv ==
  ASSUME Inv, NEW e \in Entries, Register(e)
  PROVE  Inv'
  <1>1. CASE panel = NoEntry
    <2>1. /\ Goto(e, "forward") /\ panel' = e /\ UNCHANGED target
          /\ reg' = [reg EXCEPT ![e] = "yes"]
      BY <1>1 DEF Register
    <2>2. \A f \in Entries : reg[f] # "yes"
      BY <1>1 DEF Inv, OwnerHasPanel
    <2>3. e \in Native
      BY DEF Register, Inv, AskersNative
    <2>4. TypeOK' /\ AskersNative'
      BY <2>1, <2>3 DEF Inv, TypeOK, AskersNative, Goto, Pcs
    <2>5. OwnerHasPanel'
      BY <2>1, <2>2 DEF Inv, TypeOK, OwnerHasPanel
    <2> QED BY <2>4, <2>5 DEF Inv
  <1>2. CASE panel # NoEntry
    <2>1. Goto(e, "failed") /\ UNCHANGED <<reg, target, panel>>
      BY <1>2 DEF Register
    <2> QED BY <2>1, MoveInv DEF Pcs
  <1> QED BY <1>1, <1>2

\* The owner takes its panel away; the others own none, for the panel was its.
LEMMA UnregisterInv ==
  ASSUME Inv, NEW e \in Entries, Unregister(e)
  PROVE  Inv'
  <1>1. panel' = IF reg[e] = "yes" THEN NoEntry ELSE panel
    BY DEF Unregister
  <1>2. \A f \in Entries \ {e} : reg[f] = "yes" => panel' = f
    BY <1>1 DEF Inv, OwnerHasPanel
  <1>3. CASE reg[e] = "yes" /\ Candidates(e) # {}
    <2>1. PICK c \in Candidates(e) : /\ Goto(e, "promoting")
                                     /\ target' = [target EXCEPT ![e] = c]
                                     /\ reg' = [reg EXCEPT ![e] = "no"]
      BY <1>3 DEF Unregister
    <2>2. TypeOK' /\ AskersNative'
      BY <1>1, <2>1 DEF Inv, TypeOK, AskersNative, Goto, Pcs, Candidates
    <2>3. OwnerHasPanel'
      BY <1>2, <2>1 DEF Inv, TypeOK, OwnerHasPanel
    <2> QED BY <2>2, <2>3 DEF Inv
  <1>4. CASE ~(reg[e] = "yes" /\ Candidates(e) # {})
    <2>1. Goto(e, "out") /\ reg' = [reg EXCEPT ![e] = "none"] /\ UNCHANGED target
      BY <1>4 DEF Unregister
    <2>2. TypeOK' /\ AskersNative'
      BY <1>1, <2>1 DEF Inv, TypeOK, AskersNative, Goto, Pcs
    <2>3. OwnerHasPanel'
      BY <1>2, <2>1 DEF Inv, TypeOK, OwnerHasPanel
    <2> QED BY <2>2, <2>3 DEF Inv
  <1> QED BY <1>3, <1>4

\* The candidate becomes the owner only of the panel registered for it.
LEMMA PromoteInv ==
  ASSUME Inv, NEW e \in Entries, Promote(e)
  PROVE  Inv'
  <1> DEFINE c == target[e]
  <1>1. /\ pc[e] = "promoting" /\ c \in Native \ {e}
        /\ panel' = IF panel = NoEntry THEN c ELSE panel
        /\ target' = [target EXCEPT ![e] = NoEntry]
    BY DEF Promote, Inv, TypeOK
  <1>2. \A f \in Entries : reg[f] = "yes" => panel = f /\ panel' = panel
    BY <1>1 DEF Inv, OwnerHasPanel
  <1>3. CASE panel # NoEntry \/ reg[c] = "none"
    <2>1. Goto(e, "stuck") /\ UNCHANGED reg
      BY <1>3 DEF Promote
    <2>2. TypeOK' /\ AskersNative'
      BY <1>1, <2>1 DEF Inv, TypeOK, AskersNative, Goto, Pcs
    <2>3. OwnerHasPanel'
      BY <1>2, <2>1 DEF OwnerHasPanel
    <2> QED BY <2>2, <2>3 DEF Inv
  <1>4. CASE panel = NoEntry /\ reg[c] # "none"
    <2>1. Goto(e, "out") /\ reg' = [reg EXCEPT ![c] = "yes", ![e] = "none"]
      BY <1>4 DEF Promote
    <2>2. TypeOK' /\ AskersNative'
      BY <1>1, <2>1 DEF Inv, TypeOK, AskersNative, Goto, Pcs
    <2>3. panel' = c /\ \A f \in Entries : reg[f] # "yes"
      BY <1>1, <1>2, <1>4
    <2>4. OwnerHasPanel'
      BY <1>1, <2>1, <2>3 DEF Inv, TypeOK, OwnerHasPanel
    <2> QED BY <2>2, <2>4 DEF Inv
  <1> QED BY <1>3, <1>4

LEMMA StepInv == Inv /\ [Next]_vars => Inv'
  <1> SUFFICES ASSUME Inv, [Next]_vars PROVE Inv'
    OBVIOUS
  <1>1. CASE Restart
    BY <1>1 DEF Restart, Inv, TypeOK, OwnerHasPanel, AskersNative, Pcs
  <1>2. CASE \E e \in Entries : EntryStep(e)
    <2>1. PICK e \in Entries : EntryStep(e)
      BY <1>2
    <2>2. CASE SetUp(e)
      BY <2>2, MoveInv DEF SetUp, Pcs
    <2>3. CASE RefreshFails(e)
      BY <2>3, MoveInv DEF RefreshFails, Pcs
    <2>4. CASE Forwarded(e)
      BY <2>4, MoveInv DEF Forwarded, Pcs, Inv, TypeOK
    <2>5. CASE Unload(e)
      BY <2>5, MoveInv DEF Unload, Pcs, Inv, TypeOK
    <2>6. CASE UnloadRefused(e)
      BY <2>6, MoveInv DEF UnloadRefused, Pcs, Inv, TypeOK
    <2> QED BY <2>1, <2>2, <2>3, <2>4, <2>5, <2>6, CheckPanelInv, RegisterInv,
               UnregisterInv, PromoteInv DEF EntryStep
  <1>3. CASE UNCHANGED vars
    BY <1>3 DEF vars, Inv, TypeOK, OwnerHasPanel, AskersNative
  <1> QED BY <1>1, <1>2, <1>3 DEF Next

-----------------------------------------------------------------------------
(* Transitions that do not overlap.                                        *)

\* At most one entry is on its way.
OneMoves == \A e, f \in Entries : pc[e] \in Moving /\ pc[f] \in Moving => e = f

\* The panel has an owner that knows it, and is not given up or taken over in
\* between; who asks for the panel or hands it on has found none, and the one
\* it is handed to stays loaded.
OwnerKnows ==
    /\ panel # NoEntry => reg[panel] = "yes"
    /\ \A e \in Entries : reg[e] = "yes" =>
          pc[e] \in {"forward", "loaded", "unloading", "stuck"}
    /\ \A e \in Entries : pc[e] \in {"discover", "promoting"} => panel = NoEntry
    /\ \A e \in Entries : pc[e] = "promoting" => pc[target[e]] = "loaded"

\* While a native entry has its platforms, only a promotion is without a panel.
Followed ==
    (\E e \in Native : pc[e] \in {"forward", "loaded", "unloading"})
    => panel # NoEntry \/ \E e \in Entries : pc[e] = "promoting"

Alone == ~overlap => OneMoves /\ OwnerKnows /\ Followed

\* A step that overlaps with nothing finds the others at rest if it does not
\* put its entry to rest, and moves none of them.
LEMMA GoesAlone ==
  ASSUME Inv, Alone, NEW e \in Entries, NEW s \in Pcs, Goto(e, s), ~overlap'
  PROVE  /\ OneMoves /\ OwnerKnows /\ Followed /\ OneMoves'
         /\ pc'[e] = s /\ \A f \in Entries \ {e} : pc'[f] = pc[f]
         /\ s \in Moving => \A f \in Entries \ {e} : pc[f] \notin Moving
         /\ pc[e] \in Moving => \A f \in Entries \ {e} : pc[f] \notin Moving
  <1>1. /\ pc'[e] = s /\ \A f \in Entries \ {e} : pc'[f] = pc[f]
        /\ ~overlap
        /\ s \in Moving => \A f \in Entries \ {e} : pc[f] \notin Moving
    BY DEF Goto, Inv, TypeOK
  <1>2. OneMoves /\ OwnerKnows /\ Followed
    BY <1>1 DEF Alone
  <1>3. OneMoves'
    BY <1>1, <1>2 DEF OneMoves
  <1> QED BY <1>1, <1>2, <1>3 DEF OneMoves

\* A step that leaves panel, owners and targets alone.
LEMMA MoveAlone ==
  ASSUME Inv, Alone, NEW e \in Entries, NEW s \in Pcs, Goto(e, s), ~overlap',
         UNCHANGED <<reg, target, panel>>,
         s \notin {"promoting", "discover"}, pc[e] # "promoting",
         pc[e] = "loaded" => s \in Moving,
         reg[e] = "yes" => s \in {"forward", "loaded", "unloading", "stuck"},
         s \in {"forward", "loaded", "unloading"} =>
            pc[e] \in {"forward", "loaded", "unloading"}
  PROVE  OneMoves' /\ OwnerKnows' /\ Followed'
  <1>1. /\ OneMoves /\ OwnerKnows /\ Followed /\ OneMoves'
        /\ pc'[e] = s /\ \A f \in Entries \ {e} : pc'[f] = pc[f]
        /\ s \in Moving => \A f \in Entries \ {e} : pc[f] \notin Moving
    BY GoesAlone
  <1>2. \A f \in Entries : pc'[f] = "promoting" <=> pc[f] = "promoting"
    BY <1>1
  <1>3. ASSUME NEW f \in Entries, pc'[f] = "promoting"
        PROVE  pc'[target[f]] = "loaded"
    <2>1. pc[f] = "promoting" /\ f # e
      BY <1>2, <1>3
    <2>2. pc[target[f]] = "loaded" /\ target[f] \in Entries
      BY <1>1, <2>1 DEF OwnerKnows, Inv, TypeOK
    <2>3. target[f] # e
      BY <1>1, <2>1, <2>2 DEF Moving
    <2> QED BY <1>1, <2>2, <2>3
  <1>4. OwnerKnows'
    BY <1>1, <1>3 DEF OwnerKnows
  <1>5. Followed'
    BY <1>1, <1>2 DEF Followed
  <1> QED BY <1>1, <1>4, <1>5

\* A native entry that finds a panel goes on; one that does not asks for it,
\* alone, so that the panel is still missing when it registers one.
LEMMA CheckPanelAlone ==
  ASSUME Inv, Alone, NEW e \in Entries, CheckPanel(e), ~overlap'
  PROVE  OneMoves' /\ OwnerKnows' /\ Followed'
  <1> DEFINE s == IF e \notin Native \/ panel # NoEntry THEN "forward" ELSE "discover"
  <1>1. /\ pc[e] = "refresh" /\ Goto(e, s) /\ s \in Pcs /\ s \in Moving
        /\ reg' = [reg EXCEPT ![e] = "no"] /\ UNCHANGED <<target, panel>>
    BY DEF CheckPanel, Pcs, Moving
  <1>2. /\ OneMoves /\ OwnerKnows /\ Followed /\ OneMoves'
        /\ pc'[e] = s /\ \A f \in Entries \ {e} : pc'[f] = pc[f]
        /\ \A f \in Entries \ {e} : pc[f] \notin Moving
    BY <1>1, GoesAlone
  <1>3. panel # e
    BY <1>1, <1>2 DEF OwnerKnows, Inv, TypeOK
  <1>4. \A f \in Entries : pc'[f] # "promoting"
    BY <1>2 DEF Moving
  <1>5. /\ reg'[e] = "no" /\ \A f \in Entries \ {e} : reg'[f] = reg[f]
        /\ panel \in Entries \cup {NoEntry}
    BY <1>1 DEF Inv, TypeOK
  <1>6. OwnerKnows'
    BY <1>1, <1>2, <1>3, <1>4, <1>5 DEF OwnerKnows, Moving
  <1>7. Followed'
    <2>1. CASE panel # NoEntry
      BY <1>1, <2>1 DEF Followed
    <2>2. CASE panel = NoEntry
      <3>1. \A f \in Native \ {e} : pc[f] \notin {"forward", "loaded", "unloading"}
        BY <1>1, <1>2, <2>2 DEF Followed, Moving
      <3>2. e \in Native => pc'[e] = "discover"
        BY <1>2, <2>2
      <3> QED BY <1>2, <3>1, <3>2 DEF Followed
    <2> QED BY <2>1, <2>2
  <1> QED BY <1>2, <1>6, <1>7

\* The panel it registers is its own.
LEMMA RegisterAlone ==
  ASSUME Inv, Alone, NEW e \in Entries, Register(e), ~overlap'
  PROVE  OneMoves' /\ OwnerKnows' /\ Followed'
  <1>1. pc[e] = "discover" /\ pc[e] \in Moving
    BY DEF Register, Moving
  <1>2. PICK s \in {"forward", "failed"} : Goto(e, s)
    BY DEF Register
  <1>3. /\ OwnerKnows /\ OneMoves'
        /\ pc'[e] = s /\ \A f \in Entries \ {e} : pc'[f] = pc[f]
        /\ \A f \in Entries \ {e} : pc[f] \notin Moving
    BY <1>1, <1>2, GoesAlone DEF Pcs
  <1>4. panel = NoEntry
    BY <1>1, <1>3 DEF OwnerKnows
  <1>5. /\ Goto(e, "forward") /\ panel' = e /\ UNCHANGED target
        /\ reg' = [reg EXCEPT ![e] = "yes"]
    BY <1>4 DEF Register
  <1>6. pc'[e] = "forward"
    BY <1>5 DEF Goto, Inv, TypeOK
  <1>7. reg'[e] = "yes" /\ \A f \in Entries \ {e} : reg'[f] = reg[f]
    BY <1>5 DEF Inv, TypeOK
  <1>8. \A f \in Entries : pc'[f] \notin {"discover", "promoting"}
    BY <1>3, <1>6 DEF Moving
  <1>9. OwnerKnows'
    BY <1>3, <1>5, <1>6, <1>7, <1>8 DEF OwnerKnows
  <1>10. Followed'
    BY <1>5 DEF Followed
  <1> QED BY <1>3, <1>9, <1>10

\* The owner leaves the panel to a loaded native entry, or there is none.
LEMMA UnregisterAlone ==
  ASSUME Inv, Alone, NEW e \in Entries, Unregister(e), ~overlap'
  PROVE  OneMoves' /\ OwnerKnows' /\ Followed'
  <1>1. /\ pc[e] = "unloading" /\ pc[e] \in Moving
        /\ panel' = IF reg[e] = "yes" THEN NoEntry ELSE panel
    BY DEF Unregister, Moving
  <1>2. PICK s \in {"promoting", "out"} : Goto(e, s)
    BY DEF Unregister
  <1>3. /\ OwnerKnows /\ Followed /\ OneMoves'
        /\ pc'[e] = s /\ \A f \in Entries \ {e} : pc'[f] = pc[f]
        /\ \A f \in Entries \ {e} : pc[f] \notin Moving
    BY <1>1, <1>2, GoesAlone DEF Pcs
  <1>4. /\ \A f \in Entries \ {e} : reg[f] = "yes" => panel = f
        /\ reg[e] = "yes" => panel = e
    BY DEF Inv, OwnerHasPanel
  <1>5. \A f \in Entries \ {e} : pc[f] \notin {"forward", "unloading", "discover", "promoting"}
    BY <1>3 DEF Moving
  <1>6. CASE reg[e] = "yes" /\ Candidates(e) # {}
    <2>1. PICK c \in Candidates(e) : /\ Goto(e, "promoting")
                                     /\ target' = [target EXCEPT ![e] = c]
                                     /\ reg' = [reg EXCEPT ![e] = "no"]
      BY <1>6 DEF Unregister
    <2>2. c \in Entries \ {e} /\ pc[c] = "loaded"
      BY DEF Candidates
    <2>3. /\ pc'[e] = "promoting" /\ target'[e] = c
          /\ reg'[e] = "no" /\ \A f \in Entries \ {e} : reg'[f] = reg[f]
      BY <2>1 DEF Goto, Inv, TypeOK
    <2>4. \A f \in Entries : reg'[f] # "yes"
      BY <1>4, <1>6, <2>3
    <2>5. OwnerKnows'
      BY <1>1, <1>3, <1>5, <1>6, <2>2, <2>3, <2>4 DEF OwnerKnows
    <2>6. Followed'
      BY <2>3 DEF Followed
    <2> QED BY <1>3, <2>5, <2>6
  <1>7. CASE ~(reg[e] = "yes" /\ Candidates(e) # {})
    <2>1. Goto(e, "out") /\ reg' = [reg EXCEPT ![e] = "none"] /\ UNCHANGED target
      BY <1>7 DEF Unregister
    <2>2. /\ pc'[e] = "out" /\ reg'[e] = "none"
          /\ \A f \in Entries \ {e} : reg'[f] = reg[f]
          /\ panel \in Entries \cup {NoEntry}
      BY <2>1 DEF Goto, Inv, TypeOK
    <2>3. \A f \in Entries : pc'[f] \notin {"discover", "promoting"}
      BY <1>3, <1>5, <2>2
    <2>4. OwnerKnows'
      <3>1. panel' # NoEntry => reg'[panel'] = "yes"
        BY <1>1, <1>3, <2>2 DEF OwnerKnows
      <3>2. \A f \in Entries : reg'[f] = "yes" =>
                pc'[f] \in {"forward", "loaded", "unloading", "stuck"}
        BY <1>3, <2>2 DEF OwnerKnows
      <3> QED BY <2>3, <3>1, <3>2 DEF OwnerKnows
    <2>5. Followed'
      <3>1. CASE reg[e] = "yes"
        <4>1. \A f \in Native \ {e} : pc[f] # "loaded"
          BY <1>7, <3>1 DEF Candidates
        <4>2. \A f \in Native : pc'[f] \notin {"forward", "loaded", "unloading"}
          BY <1>3, <1>5, <2>2, <4>1
        <4> QED BY <4>2 DEF Followed
      <3>2. CASE reg[e] # "yes"
        <4>1. \A f \in Entries : pc[f] # "promoting"
          BY <1>1, <1>5
        <4> QED BY <1>1, <1>3, <2>2, <3>2, <4>1 DEF Followed
      <3> QED BY <3>1, <3>2
    <2> QED BY <1>3, <2>4, <2>5
  <1> QED BY <1>6, <1>7

\* The one it is left to is loaded and takes it.
LEMMA PromoteAlone ==
  ASSUME Inv, Alone, NEW e \in Entries, Promote(e), ~overlap'
  PROVE  OneMoves' /\ OwnerKnows' /\ Followed'
  <1> DEFINE c == target[e]
  <1>1. /\ pc[e] = "promoting" /\ pc[e] \in Moving /\ c \in Entries \ {e}
        /\ panel' = IF panel = NoEntry THEN c ELSE panel
    BY DEF Promote, Moving, Inv, TypeOK
  <1>2. PICK s \in {"stuck", "out"} : Goto(e, s)
    BY DEF Promote
  <1>3. /\ OwnerKnows /\ OneMoves'
        /\ pc'[e] = s /\ \A f \in Entries \ {e} : pc'[f] = pc[f]
        /\ \A f \in Entries \ {e} : pc[f] \notin Moving
    BY <1>1, <1>2, GoesAlone DEF Pcs
  <1>4. panel = NoEntry /\ pc[c] = "loaded"
    BY <1>1, <1>3 DEF OwnerKnows
  <1>5. reg[c] # "none"
    BY <1>1, <1>4 DEF Inv, TypeOK, Pcs
  <1>6. Goto(e, "out") /\ reg' = [reg EXCEPT ![c] = "yes", ![e] = "none"]
    BY <1>4, <1>5 DEF Promote
  <1>7. /\ reg'[c] = "yes" /\ reg'[e] = "none" /\ pc'[c] = "loaded" /\ pc'[e] = "out"
        /\ \A f \in Entries \ {e, c} : reg'[f] = reg[f]
    BY <1>1, <1>3, <1>4, <1>6 DEF Goto, Inv, TypeOK
  <1>8. \A f \in Entries : pc'[f] \notin {"discover", "promoting"}
    BY <1>3, <1>7 DEF Moving
  <1>9. panel' = c
    BY <1>1, <1>4
  <1>10. \A f \in Entries : reg'[f] = "yes" =>
            pc'[f] \in {"forward", "loaded", "unloading", "stuck"}
    BY <1>3, <1>7 DEF OwnerKnows
  <1>11. OwnerKnows'
    BY <1>7, <1>8, <1>9, <1>10 DEF OwnerKnows
  <1>12. Followed'
    BY <1>1, <1>9 DEF Followed
  <1> QED BY <1>3, <1>11, <1>12

LEMMA StepAlone == Inv /\ Alone /\ [Next]_vars => Alone'
  <1> SUFFICES ASSUME Inv, Alone, [Next]_vars, ~overlap'
               PROVE  OneMoves' /\ OwnerKnows' /\ Followed'
    BY DEF Alone
  <1>1. CASE Restart
    BY <1>1 DEF Restart, OneMoves, OwnerKnows, Followed, Moving
  <1>2. ASSUME NEW e \in Entries, EntryStep(e)
        PROVE  OneMoves' /\ OwnerKnows' /\ Followed'
    <2>1. CASE SetUp(e) \/ RefreshFails(e)
      <3>1. PICK s \in {"refresh", "out"} :
                /\ Goto(e, s) /\ UNCHANGED <<reg, target, panel>>
                /\ pc[e] \in {"out", "failed", "refresh"}
        BY <2>1 DEF SetUp, RefreshFails
      <3>2. OwnerKnows
        BY <3>1, GoesAlone DEF Pcs
      <3>3. reg[e] # "yes"
        BY <3>1, <3>2 DEF OwnerKnows
      <3> QED BY <3>1, <3>3, MoveAlone DEF Pcs
    <2>2. CASE Forwarded(e)
      BY <2>2, MoveAlone DEF Forwarded, Pcs
    <2>3. CASE Unload(e)
      BY <2>3, MoveAlone DEF Unload, Pcs, Moving
    <2>4. CASE UnloadRefused(e)
      BY <2>4, MoveAlone DEF UnloadRefused, Pcs
    <2> QED BY <1>2, <2>1, <2>2, <2>3, <2>4, CheckPanelAlone, RegisterAlone,
               UnregisterAlone, PromoteAlone DEF EntryStep
  <1>3. CASE UNCHANGED vars
    BY <1>3 DEF vars, Alone, OneMoves, OwnerKnows, Followed
  <1> QED BY <1>1, <1>2, <1>3 DEF Next

-----------------------------------------------------------------------------
(* Theorems.                                                               *)

\* Type correctness, with what an entry may rely on where it is: its runtime
\* data from the check of the panel on, and a candidate while it promotes.
THEOREM PanelTypes == Spec => []TypeOK
  <1>1. Inv => TypeOK
    BY DEF Inv
  <1> QED BY <1>1, InitInv, StepInv, PTL DEF Spec

\* Any number of entries may set up, unload and promote at the same time: an
\* entry whose panel_registered is set is the one the panel belongs to.
THEOREM PanelOwner == Spec => []OwnerHasPanel
  <1>1. Inv => OwnerHasPanel
    BY DEF Inv
  <1> QED BY <1>1, InitInv, StepInv, PTL DEF Spec

\* As long as no two transitions of entries overlap, a panel is there whenever a
\* native entry is loaded and none is on its way, and its owner knows it
\* (async_register_panel and async_unregister_panel, panel.py).
THEOREM PanelFollows == Spec => []PanelFollowsAlone
  <1>1. Init => Alone
    BY DEF Init, Alone, OneMoves, OwnerKnows, Followed, Moving
  <1>2. Spec => []Inv
    BY InitInv, StepInv, PTL DEF Spec
  <1>3. Alone => PanelFollowsAlone
    BY DEF Alone, OwnerKnows, Followed, PanelFollowsAlone, Moving
  <1> QED BY <1>1, <1>2, <1>3, StepAlone, PTL DEF Spec

=============================================================================
