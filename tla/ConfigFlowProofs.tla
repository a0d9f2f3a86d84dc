-------------------------- MODULE ConfigFlowProofs --------------------------
(***************************************************************************)
(* Proofs about ConfigFlow, for any contexts, tokens, entries and dialogs. *)
(***************************************************************************)
EXTENDS ConfigFlow, TLAPS

-----------------------------------------------------------------------------
(* The inductive invariant.                                                *)

Entries == {NoEntry} \cup
    [version : {1, 3}, ctx : Contexts, token : Tokens, uid : Contexts]

Dialogs == [kind : {"none", "user", "reauth", "reconfigure"},
            step : {"none", "menu", "form", "backend", "status"},
            entry : Slots \cup {None}, type : {None, "native", "semaphore"},
            ctx : Contexts \cup {None}, token : Tokens \cup {None},
            uid : Contexts \cup {None}]

\* A dialog that waits for a backend has something to ask it.
Asks(d) == d.step \in {"backend", "status"} =>
                d.ctx \in Contexts /\ d.token \in Tokens

TypeInv ==
    /\ entry \in [Slots -> Entries]
    /\ state \in [Slots -> {"unloaded", "setting up", "loaded"}]
    /\ current \in [Slots -> BOOLEAN]
    /\ reload \in [Slots -> BOOLEAN]
    /\ flow \in [Flows -> Dialogs]
    /\ \A f \in Flows : Asks(flow[f])

\* Only a stored entry is set up, or about to be reloaded.
SlotInv == \A e \in Slots : state[e] # "unloaded" \/ reload[e] => e \in Stored

\* A dialog is about a stored entry or none: a removed one has left it.  What
\* a dialog about an entry asks is a backend of that entry's provider, whatever
\* was written into the entry since it was sent.
DialogInv ==
    \A f \in Flows :
        /\ flow[f].entry \in Stored \cup {None}
        /\ /\ flow[f].kind \in {"reauth", "reconfigure"} /\ Asking(f)
           /\ flow[f].entry \in Stored
           => Type(flow[f].ctx) = Type(entry[flow[f].entry].ctx)

Inv == TypeInv /\ SlotInv /\ DialogInv

-----------------------------------------------------------------------------
(* Lemmas about the operators of the model.                                *)

\* A slot that is stored holds an entry.
LEMMA EntryShape ==
    ASSUME NEW e \in Slots, TypeInv
    PROVE  /\ e \in Stored <=> entry[e] # NoEntry
           /\ e \in Stored => entry[e] \in
                [version : {1, 3}, ctx : Contexts, token : Tokens, uid : Contexts]
BY DEF TypeInv, Stored, Entries

\* A dialog that moves while the entries stay as they are.
LEMMA DialogMoves ==
    ASSUME Inv, NEW f \in Flows, NEW d \in Dialogs, Asks(d),
           flow' = [flow EXCEPT ![f] = d], UNCHANGED entries,
           d.entry \in Stored \cup {None},
           /\ d.kind \in {"reauth", "reconfigure"}
           /\ d.step \in {"backend", "status"}
           /\ d.entry \in Stored
           => Type(d.ctx) = Type(entry[d.entry].ctx)
    PROVE  Inv'
<1>1. TypeInv /\ SlotInv /\ DialogInv
  BY DEF Inv
<1>2. /\ flow'[f] = d
      /\ \A g \in Flows : g # f => flow'[g] = flow[g]
      /\ flow' \in [Flows -> Dialogs]
  BY <1>1 DEF TypeInv
<1>3. UNCHANGED <<entry, state, current, reload>> /\ Stored' = Stored
  BY DEF entries, Stored
<1>4. TypeInv'
  BY <1>1, <1>2, <1>3 DEF TypeInv
<1>5. SlotInv'
  BY <1>1, <1>3 DEF SlotInv
<1>6. DialogInv'
  <2>. SUFFICES ASSUME NEW g \in Flows
                PROVE  /\ flow'[g].entry \in Stored \cup {None}
                       /\ /\ flow'[g].kind \in {"reauth", "reconfigure"}
                          /\ flow'[g].step \in {"backend", "status"}
                          /\ flow'[g].entry \in Stored
                          => Type(flow'[g].ctx) = Type(entry[flow'[g].entry].ctx)
    BY <1>3 DEF DialogInv, Asking, Type
  <2>1. CASE g = f
    BY <1>2, <2>1
  <2>2. CASE g # f
    BY <1>1, <1>2, <2>2 DEF DialogInv, Asking
  <2>. QED  BY <2>1, <2>2
<1>. QED  BY <1>4, <1>5, <1>6 DEF Inv

\* A dialog that ends writes a validated context of the entry's own provider.
LEMMA UpdateKeeps ==
    ASSUME Inv, NEW f \in Flows, NEW e \in Stored, NEW c \in Contexts,
           NEW t \in Tokens, NEW u \in Contexts,
           Type(c) = Type(entry[e].ctx), UpdateAndReload(e, c, t, u), Close(f)
    PROVE  /\ Inv'
           /\ Stored' = Stored
           /\ entry'[e] = [version |-> entry[e].version, ctx |-> c, token |-> t, uid |-> u]
           /\ \A d \in Slots : d # e => entry'[d] = entry[d]
<1>1. TypeInv /\ SlotInv /\ DialogInv
  BY DEF Inv
<1>2. e \in Slots /\ entry[e] \in
        [version : {1, 3}, ctx : Contexts, token : Tokens, uid : Contexts]
  BY <1>1, EntryShape DEF Stored
<1>3. /\ entry'[e] = [version |-> entry[e].version, ctx |-> c, token |-> t, uid |-> u]
      /\ \A d \in Slots : d # e => entry'[d] = entry[d]
  BY <1>1, <1>2 DEF UpdateAndReload, TypeInv
<1>4. entry'[e].version = entry[e].version /\ entry[e].version # 0
      /\ entry'[e].ctx = c
  BY <1>2, <1>3
<1>5. entry'[e] # NoEntry
  BY <1>4 DEF NoEntry
<1>6. Stored' = Stored
  BY <1>2, <1>3, <1>5 DEF Stored
<1>7. /\ flow'[f] = NoFlow
      /\ \A g \in Flows : g # f => flow'[g] = flow[g]
  BY <1>1 DEF Close, TypeInv
<1>8. TypeInv'
  <2>1. entry'[e] \in Entries
    BY <1>2, <1>3 DEF Entries
  <2>2. entry' \in [Slots -> Entries]
    <3>1. entry' = [d \in Slots |-> entry'[d]]
      BY <1>1 DEF UpdateAndReload, TypeInv
    <3>2. \A d \in Slots : entry'[d] \in Entries
      BY <1>1, <1>3, <2>1 DEF TypeInv
    <3>. QED  BY <3>1, <3>2
  <2>3. NoFlow \in Dialogs /\ Asks(NoFlow)
    BY DEF NoFlow, Dialogs, Asks
  <2>4. flow' \in [Flows -> Dialogs]
    BY <1>1, <2>3 DEF Close, TypeInv
  <2>5. \A g \in Flows : Asks(flow'[g])
    BY <1>1, <1>7, <2>3 DEF TypeInv
  <2>6. /\ state' \in [Slots -> {"unloaded", "setting up", "loaded"}]
        /\ current' \in [Slots -> BOOLEAN]
        /\ reload' \in [Slots -> BOOLEAN]
    BY <1>1 DEF UpdateAndReload, TypeInv
  <2>. QED  BY <2>2, <2>4, <2>5, <2>6 DEF TypeInv
<1>9. SlotInv'
  BY <1>1, <1>6 DEF SlotInv, UpdateAndReload, TypeInv
<1>10. DialogInv'
  <2>. SUFFICES ASSUME NEW g \in Flows
                PROVE  /\ flow'[g].entry \in Stored \cup {None}
                       /\ /\ flow'[g].kind \in {"reauth", "reconfigure"}
                          /\ flow'[g].step \in {"backend", "status"}
                          /\ flow'[g].entry \in Stored
                          => Type(flow'[g].ctx) = Type(entry'[flow'[g].entry].ctx)
    BY <1>6 DEF DialogInv, Asking, Type
  <2>1. CASE g = f
    BY <1>7, <2>1 DEF NoFlow
  <2>2. CASE g # f
    <3>1. flow'[g] = flow[g]
      BY <1>7, <2>2
    <3>2. flow[g].entry \in Stored => flow[g].entry \in Slots
      BY DEF Stored
    <3>3. flow[g].entry \in Stored =>
            Type(entry'[flow[g].entry].ctx) = Type(entry[flow[g].entry].ctx)
      BY <1>3, <1>4, <3>2
    <3>. QED  BY <1>1, <3>1, <3>3 DEF DialogInv, Asking
  <2>. QED  BY <2>1, <2>2
<1>. QED  BY <1>3, <1>6, <1>8, <1>9, <1>10 DEF Inv

-----------------------------------------------------------------------------
(* One lemma per kind of step.                                             *)

\* Opening, filling in, sending and closing a dialog.
LEMMA DialogKeeps ==
    ASSUME Inv, NEW f \in Flows, Dialog(f)
    PROVE  Inv'
<1>. USE FlowAssumption DEF FlowAssumption
<1>1. TypeInv /\ SlotInv /\ DialogInv
  BY DEF Inv
<1>2. /\ flow[f] \in Dialogs /\ Asks(flow[f])
      /\ flow[f].entry \in Stored \cup {None}
  BY <1>1 DEF TypeInv, DialogInv
<1>3. NoFlow \in Dialogs
  BY DEF NoFlow, Dialogs
<1>4. CASE StartUser(f)
  <2>. DEFINE d == [flow[f] EXCEPT !.kind = "user", !.step = "menu"]
  <2>1. flow' = [flow EXCEPT ![f] = d] /\ UNCHANGED entries
    BY <1>4 DEF StartUser
  <2>2. /\ d \in Dialogs /\ d.step = "menu" /\ d.entry = flow[f].entry
    BY <1>2 DEF Dialogs
  <2>. HIDE DEF d
  <2>. QED  BY <1>2, <2>1, <2>2, DialogMoves DEF Asks
<1>5. ASSUME NEW type \in {"native", "semaphore"}, ChooseProvider(f, type)
      PROVE  Inv'
  <2>. DEFINE d == [flow[f] EXCEPT !.step = "form", !.type = type]
  <2>1. flow' = [flow EXCEPT ![f] = d] /\ UNCHANGED entries
    BY <1>5 DEF ChooseProvider
  <2>2. /\ d \in Dialogs /\ d.step = "form" /\ d.entry = flow[f].entry
    BY <1>2 DEF Dialogs
  <2>. HIDE DEF d
  <2>. QED  BY <1>2, <2>1, <2>2, DialogMoves DEF Asks
<1>6. ASSUME NEW e \in Slots, StartReauth(e, f)
      PROVE  Inv'
  <2>. DEFINE d == [NoFlow EXCEPT !.kind = "reauth", !.step = "form",
                                  !.entry = e, !.uid = entry[e].uid]
  <2>1. flow' = [flow EXCEPT ![f] = d] /\ UNCHANGED entries
    BY <1>6 DEF StartReauth
  <2>2. e \in Stored
    BY <1>1, <1>6 DEF StartReauth, SlotInv
  <2>3. entry[e].uid \in Contexts
    BY <1>1, <2>2, EntryShape
  <2>4. /\ d \in Dialogs /\ d.step = "form" /\ d.entry = e
    BY <2>3 DEF Dialogs, NoFlow
  <2>. HIDE DEF d
  <2>. QED  BY <2>1, <2>2, <2>4, DialogMoves DEF Asks
<1>7. ASSUME NEW e \in Slots, StartReconfigure(e, f)
      PROVE  Inv'
  <2>. DEFINE d == [NoFlow EXCEPT !.kind = "reconfigure", !.step = "form",
                                  !.entry = e]
  <2>1. flow' = [flow EXCEPT ![f] = d] /\ UNCHANGED entries
    BY <1>7 DEF StartReconfigure
  <2>2. e \in Stored
    BY <1>7 DEF StartReconfigure, Stored, NoEntry
  <2>3. /\ d \in Dialogs /\ d.step = "form" /\ d.entry = e
    BY DEF Dialogs, NoFlow
  <2>. HIDE DEF d
  <2>. QED  BY <2>1, <2>2, <2>3, DialogMoves DEF Asks
<1>8. ASSUME NEW c \in Contexts, NEW t \in Tokens, Ask(f, c, t), UNCHANGED entries,
             /\ flow[f].kind \in {"reauth", "reconfigure"}
             /\ flow[f].entry \in Stored
             => Type(c) = Type(entry[flow[f].entry].ctx)
      PROVE  Inv'
  <2>. DEFINE d == [flow[f] EXCEPT !.step = "backend", !.ctx = c, !.token = t]
  <2>1. flow' = [flow EXCEPT ![f] = d]
    BY <1>8 DEF Ask
  <2>2. /\ d \in Dialogs /\ d.entry = flow[f].entry /\ d.kind = flow[f].kind
        /\ d.ctx = c /\ d.token = t
    BY <1>2 DEF Dialogs
  <2>. HIDE DEF d
  <2>3. Asks(d)
    BY <2>2 DEF Asks
  <2>. QED  BY <1>2, <1>8, <2>1, <2>2, <2>3, DialogMoves
<1>9. ASSUME NEW c \in Contexts, NEW t \in Tokens, SubmitUser(f, c, t)
      PROVE  Inv'
  BY <1>8, <1>9 DEF SubmitUser
<1>10. ASSUME NEW t \in Tokens, SubmitReauth(f, t)
       PROVE  Inv'
  <2>1. flow[f].entry \in Slots /\ flow[f].entry \in Stored
    BY <1>10 DEF SubmitReauth, Stored
  <2>2. entry[flow[f].entry].ctx \in Contexts
    BY <1>1, <2>1, EntryShape
  <2>. QED  BY <1>8, <1>10, <2>2 DEF SubmitReauth
<1>11. ASSUME NEW c \in Contexts, SubmitReconfigure(f, c)
       PROVE  Inv'
  <2>1. flow[f].entry \in Slots /\ flow[f].entry \in Stored
    BY <1>11 DEF SubmitReconfigure, Stored
  <2>2. entry[flow[f].entry].token \in Tokens
    BY <1>1, <2>1, EntryShape
  <2>. QED  BY <1>8, <1>11, <2>2 DEF SubmitReconfigure
<1>12. CASE Dismiss(f)
  <2>1. flow' = [flow EXCEPT ![f] = NoFlow] /\ UNCHANGED entries
    BY <1>12 DEF Dismiss, Close
  <2>2. NoFlow.entry = None /\ NoFlow.step = "none" /\ Asks(NoFlow)
    BY DEF NoFlow, Asks
  <2>. QED  BY <1>3, <2>1, <2>2, DialogMoves
<1>. QED
  BY <1>4, <1>5, <1>6, <1>7, <1>9, <1>10, <1>11, <1>12 DEF Dialog

\* A good last answer was to a question.
LEMMA ValidatedAsked ==
    ASSUME Inv, NEW f \in Flows, Validated(f)
    PROVE  Asking(f) /\ flow[f].ctx \in Contexts /\ flow[f].token \in Tokens
BY DEF Inv, TypeInv, Asks, Asking, Validated

\* The end of a dialog that writes nothing.
LEMMA CloseKeeps ==
    ASSUME Inv, NEW f \in Flows, Close(f), UNCHANGED entries
    PROVE  Inv'
<1>1. NoFlow \in Dialogs
  BY DEF NoFlow, Dialogs
<1>2. NoFlow.entry = None /\ NoFlow.step = "none" /\ Asks(NoFlow)
  BY DEF NoFlow, Asks
<1>. QED  BY <1>1, <1>2, DialogMoves DEF Close

\* The new entry takes a slot that no dialog is about, and nothing runs in.
LEMMA CreateKeeps ==
    ASSUME Inv, NEW f \in Flows, CreateEntry(f), ~UNCHANGED entries
    PROVE  /\ Inv'
           /\ Validated(f) /\ ~Barred(flow[f].ctx) /\ UNCHANGED <<state, current, reload>>
           /\ \E e \in Slots \ Stored :
                /\ entry'[e] = [version |-> 3, ctx |-> flow[f].ctx,
                                token |-> flow[f].token, uid |-> flow[f].ctx]
                /\ \A d \in Slots : d # e => entry'[d] = entry[d]
                /\ Stored' = Stored \cup {e}
<1>. USE FlowAssumption DEF FlowAssumption
<1>1. TypeInv /\ SlotInv /\ DialogInv /\ Validated(f) /\ ~Barred(flow[f].ctx)
      /\ flow' = [flow EXCEPT ![f] = NoFlow]
  BY DEF Inv, CreateEntry, Close
<1>2. flow[f].ctx \in Contexts /\ flow[f].token \in Tokens
  BY <1>1, ValidatedAsked
<1>. DEFINE new == [version |-> 3, ctx |-> flow[f].ctx, token |-> flow[f].token,
                    uid |-> flow[f].ctx]
<1>3. PICK e \in Slots \ Stored :
            entry' = [entry EXCEPT ![e] = new] /\ UNCHANGED <<state, current, reload>>
  BY <1>1 DEF CreateEntry
<1>4. /\ entry'[e] = new
      /\ \A d \in Slots : d # e => entry'[d] = entry[d]
  BY <1>1, <1>3 DEF TypeInv
<1>5. new \in Entries /\ new.version = 3
  BY <1>2 DEF Entries
<1>6. new # NoEntry
  BY <1>5 DEF NoEntry
<1>. HIDE DEF new
<1>7. Stored' = Stored \cup {e}
  BY <1>4, <1>6 DEF Stored
<1>8. /\ flow'[f] = NoFlow
      /\ \A g \in Flows : g # f => flow'[g] = flow[g]
  BY <1>1 DEF TypeInv
<1>9. TypeInv'
  <2>1. NoFlow \in Dialogs /\ Asks(NoFlow)
    BY DEF NoFlow, Dialogs, Asks
  <2>2. entry' \in [Slots -> Entries]
    BY <1>1, <1>3, <1>5 DEF TypeInv
  <2>3. flow' \in [Flows -> Dialogs]
    BY <1>1, <2>1 DEF TypeInv
  <2>4. \A g \in Flows : Asks(flow'[g])
    BY <1>1, <1>8, <2>1 DEF TypeInv
  <2>. QED  BY <1>1, <1>3, <2>2, <2>3, <2>4 DEF TypeInv
<1>10. SlotInv'
  BY <1>1, <1>3, <1>7 DEF SlotInv
<1>11. DialogInv'
  <2>. SUFFICES ASSUME NEW g \in Flows
                PROVE  /\ flow'[g].entry \in Stored' \cup {None}
                       /\ /\ flow'[g].kind \in {"reauth", "reconfigure"}
                          /\ flow'[g].step \in {"backend", "status"}
                          /\ flow'[g].entry \in Stored'
                          => Type(flow'[g].ctx) = Type(entry'[flow'[g].entry].ctx)
    BY DEF DialogInv, Asking, Type
  <2>1. CASE g = f
    BY <1>8, <2>1 DEF NoFlow
  <2>2. CASE g # f
    <3>1. flow'[g] = flow[g] /\ flow[g].entry \in Stored \cup {None}
      BY <1>1, <1>8, <2>2 DEF DialogInv
    <3>2. flow[g].entry \in Stored' => flow[g].entry \in Stored
      BY <1>3, <1>7, <3>1
    <3>3. flow[g].entry \in Stored => entry'[flow[g].entry] = entry[flow[g].entry]
      BY <1>3, <1>4 DEF Stored
    <3>. QED  BY <1>1, <1>7, <3>1, <3>2, <3>3 DEF DialogInv, Asking
  <2>. QED  BY <2>1, <2>2
<1>12. Inv'
  BY <1>9, <1>10, <1>11 DEF Inv
<1>. QED  BY <1>1, <1>3, <1>4, <1>7, <1>12 DEF new

\* A reauthentication or reconfiguration that writes its entry.
Writes(f, u) ==
    /\ Validated(f)
    /\ flow[f].kind \in {"reauth", "reconfigure"}
    /\ flow[f].entry \in Stored
    /\ Close(f)
    /\ UpdateAndReload(flow[f].entry, flow[f].ctx, flow[f].token, u)

\* Such a dialog asked a backend of its entry's provider.
LEMMA WriteKeeps ==
    ASSUME Inv, NEW f \in Flows, NEW u \in Contexts, Writes(f, u)
    PROVE  LET e == flow[f].entry IN
           /\ Inv'
           /\ Stored' = Stored
           /\ Type(flow[f].ctx) = Type(entry[e].ctx)
           /\ entry'[e] = [version |-> entry[e].version, ctx |-> flow[f].ctx,
                           token |-> flow[f].token, uid |-> u]
           /\ \A d \in Slots : d # e => entry'[d] = entry[d]
<1>1. PICK e \in Stored : e = flow[f].entry
  BY DEF Writes
<1>2. Asking(f) /\ flow[f].ctx \in Contexts /\ flow[f].token \in Tokens
  BY ValidatedAsked DEF Writes
<1>3. Type(flow[f].ctx) = Type(entry[e].ctx)
  BY <1>1, <1>2 DEF Writes, Inv, DialogInv
<1>4. PICK c \in Contexts, t \in Tokens : c = flow[f].ctx /\ t = flow[f].token
  BY <1>2
<1>5. UpdateAndReload(e, c, t, u) /\ Close(f) /\ Type(c) = Type(entry[e].ctx)
  BY <1>1, <1>3, <1>4 DEF Writes
<1>6. /\ Inv'
      /\ Stored' = Stored
      /\ entry'[e] = [version |-> entry[e].version, ctx |-> c, token |-> t, uid |-> u]
      /\ \A d \in Slots : d # e => entry'[d] = entry[d]
  BY <1>5, UpdateKeeps
<1>. QED  BY <1>1, <1>3, <1>4, <1>6

\* An answer after which the dialog's entry is written: the token and the
\* context under the old unique id, or all three.
Recreds(f) == Writes(f, entry[flow[f].entry].uid)

Reconfigures(f) ==
    /\ Writes(f, flow[f].ctx)
    /\ \A other \in Stored \ {flow[f].entry} : entry[other].uid # flow[f].ctx

\* There is no other way for an answer to be taken.
LEMMA AnswerCases ==
    ASSUME Inv, NEW f \in Flows, Answer(f)
    PROVE  \/ Inv' /\ UNCHANGED entries
           \/ CreateEntry(f) /\ ~UNCHANGED entries
           \/ Recreds(f)
           \/ Reconfigures(f)
<1>1. TypeInv /\ DialogInv
  BY DEF Inv
<1>2. /\ flow[f] \in Dialogs /\ Asks(flow[f])
      /\ flow[f].entry \in Stored \cup {None}
  BY <1>1 DEF TypeInv, DialogInv
<1>3. CASE Refused(f)
  <2>. DEFINE d == [flow[f] EXCEPT !.step = "form", !.ctx = None, !.token = None]
  <2>1. flow' = [flow EXCEPT ![f] = d] /\ UNCHANGED entries
    BY <1>3 DEF Refused, ShowForm
  <2>2. /\ d \in Dialogs /\ d.step = "form" /\ d.entry = flow[f].entry
    BY <1>2 DEF Dialogs
  <2>. HIDE DEF d
  <2>. QED  BY <1>2, <2>1, <2>2, DialogMoves DEF Asks
<1>4. CASE StatusNext(f)
  <2>. DEFINE d == [flow[f] EXCEPT !.step = "status"]
  <2>1. flow' = [flow EXCEPT ![f] = d] /\ UNCHANGED entries
    BY <1>4 DEF StatusNext
  <2>2. /\ d \in Dialogs /\ d.step = "status" /\ d.entry = flow[f].entry
        /\ d.kind = flow[f].kind /\ d.ctx = flow[f].ctx /\ d.token = flow[f].token
    BY <1>2 DEF Dialogs
  <2>. HIDE DEF d
  <2>3. Asking(f)
    BY <1>4 DEF StatusNext, Asking
  <2>4. Asks(d)
    BY <1>2, <2>2, <2>3 DEF Asks, Asking
  <2>. QED  BY <1>1, <1>2, <2>1, <2>2, <2>3, <2>4, DialogMoves DEF DialogInv
<1>5. CASE CreateEntry(f)
  BY <1>5, CloseKeeps DEF CreateEntry
<1>6. CASE ReplaceToken(f)
  BY <1>6 DEF ReplaceToken, Recreds, Writes
<1>7. CASE Reconfigure(f)
  <2>1. CASE \E other \in Stored \ {flow[f].entry} : entry[other].uid = flow[f].ctx
    <3>1. Close(f) /\ UNCHANGED entries
      BY <1>7, <2>1 DEF Reconfigure
    <3>. QED  BY <3>1, CloseKeeps
  <2>2. CASE ~\E other \in Stored \ {flow[f].entry} : entry[other].uid = flow[f].ctx
    BY <1>7, <2>2 DEF Reconfigure, Reconfigures, Writes
  <2>. QED  BY <2>1, <2>2
<1>8. CASE EntryGone(f)
  BY <1>8, CloseKeeps DEF EntryGone
<1>. QED  BY <1>3, <1>4, <1>5, <1>6, <1>7, <1>8 DEF Answer

\* Both write a unique id that is a context.
LEMMA WritesContext ==
    ASSUME Inv, NEW f \in Flows
    PROVE  /\ Recreds(f) => entry[flow[f].entry].uid \in Contexts
           /\ Reconfigures(f) => flow[f].ctx \in Contexts
<1>1. ASSUME Recreds(f) PROVE entry[flow[f].entry].uid \in Contexts
  <2>1. flow[f].entry \in Stored /\ flow[f].entry \in Slots
    BY <1>1 DEF Recreds, Writes, Stored
  <2>. QED  BY <2>1, EntryShape DEF Inv
<1>2. ASSUME Reconfigures(f) PROVE flow[f].ctx \in Contexts
  BY <1>2, ValidatedAsked DEF Reconfigures, Writes
<1>. QED  BY <1>1, <1>2

\* A setup migrates an entry and touches nothing else of it; what else happens
\* to a setup or to a reload leaves the entries as they are.
LEMMA EntryStepKeeps ==
    ASSUME Inv, NEW e \in Slots, EntryStep(e)
    PROVE  /\ Inv'
           /\ Stored' = Stored
           /\ \A d \in Stored : /\ entry'[d].ctx = entry[d].ctx
                                /\ entry'[d].token = entry[d].token
                                /\ entry'[d].uid = entry[d].uid
           /\ \A d \in Slots \ Stored : entry'[d] = entry[d]
<1>1. TypeInv /\ SlotInv /\ DialogInv
  BY DEF Inv
<1>2. CASE SetUp(e)
  <2>1. /\ e \in Stored
        /\ entry[e] \in [version : {1, 3}, ctx : Contexts, token : Tokens, uid : Contexts]
    BY <1>1, <1>2, EntryShape DEF SetUp
  <2>2. /\ entry'[e] = [entry[e] EXCEPT !.version = 3]
        /\ \A d \in Slots : d # e => entry'[d] = entry[d]
    BY <1>1, <1>2 DEF SetUp, TypeInv
  <2>3. /\ entry'[e].ctx = entry[e].ctx /\ entry'[e].token = entry[e].token
        /\ entry'[e].uid = entry[e].uid /\ entry'[e].version = 3
        /\ entry'[e] \in Entries
    BY <2>1, <2>2 DEF Entries
  <2>4. Stored' = Stored
    BY <2>1, <2>2, <2>3 DEF Stored, NoEntry
  <2>5. TypeInv'
    <3>1. entry' = [d \in Slots |-> entry'[d]]
      BY <1>1, <1>2 DEF SetUp, TypeInv
    <3>2. \A d \in Slots : entry'[d] \in Entries
      BY <1>1, <2>2, <2>3 DEF TypeInv
    <3>3. entry' \in [Slots -> Entries]
      BY <3>1, <3>2
    <3>. QED  BY <1>1, <1>2, <3>3 DEF SetUp, TypeInv
  <2>6. SlotInv'
    BY <1>1, <1>2, <2>1, <2>4 DEF SetUp, SlotInv, TypeInv
  <2>7. \A d \in Stored : /\ entry'[d].ctx = entry[d].ctx
                          /\ entry'[d].token = entry[d].token
                          /\ entry'[d].uid = entry[d].uid
    BY <2>2, <2>3 DEF Stored
  <2>8. UNCHANGED flow
    BY <1>2 DEF SetUp
  <2>9. DialogInv'
    <3>. SUFFICES ASSUME NEW g \in Flows
                  PROVE  /\ flow[g].entry \in Stored \cup {None}
                         /\ /\ flow[g].kind \in {"reauth", "reconfigure"}
                            /\ flow[g].step \in {"backend", "status"}
                            /\ flow[g].entry \in Stored
                            => Type(flow[g].ctx) = Type(entry'[flow[g].entry].ctx)
      BY <2>4, <2>8 DEF DialogInv, Asking, Type
    <3>. QED  BY <1>1, <2>7 DEF DialogInv, Asking
  <2>. QED  BY <2>1, <2>2, <2>4, <2>5, <2>6, <2>7, <2>9 DEF Inv
<1>3. CASE SetUpEnds(e) \/ Reload(e)
  <2>1. UNCHANGED <<entry, flow>>
    BY <1>3 DEF SetUpEnds, Reload
  <2>2. Stored' = Stored
    BY <2>1 DEF Stored
  <2>3. TypeInv'
    BY <1>1, <1>3, <2>1 DEF SetUpEnds, Reload, TypeInv
  <2>4. SlotInv'
    BY <1>1, <1>3, <2>2 DEF SetUpEnds, Reload, SlotInv, TypeInv
  <2>5. DialogInv'
    BY <1>1, <2>1, <2>2 DEF DialogInv, Asking
  <2>. QED  BY <2>1, <2>2, <2>3, <2>4, <2>5 DEF Inv
<1>. QED  BY <1>2, <1>3 DEF EntryStep

\* No dialog is about a removed entry any more.
LEMMA RemoveKeeps ==
    ASSUME Inv, NEW e \in Slots, Remove(e)
    PROVE  /\ Inv'
           /\ Stored' = Stored \ {e}
           /\ entry'[e] = NoEntry
           /\ \A d \in Slots : d # e => entry'[d] = entry[d]
<1>. USE FlowAssumption DEF FlowAssumption
<1>1. TypeInv /\ SlotInv /\ DialogInv
  BY DEF Inv
<1>2. /\ entry'[e] = NoEntry
      /\ \A d \in Slots : d # e => entry'[d] = entry[d]
  BY <1>1 DEF Remove, TypeInv
<1>3. Stored' = Stored \ {e}
  BY <1>2 DEF Stored
<1>. DEFINE now(g) == CASE flow[g].entry # e -> flow[g]
                        [] flow[g].kind = "reauth" -> NoFlow
                        [] OTHER -> [flow[g] EXCEPT !.entry = None]
<1>0. flow' = [g \in Flows |-> now(g)]
  BY DEF Remove
<1>. HIDE DEF now
<1>4. ASSUME NEW g \in Flows
      PROVE  \/ flow[g].entry # e /\ flow'[g] = flow[g]
             \/ flow'[g] = NoFlow
             \/ /\ flow[g].kind # "reauth"
                /\ flow'[g] = [flow[g] EXCEPT !.entry = None]
  <2>1. CASE flow[g].entry # e
    BY <1>0, <2>1 DEF now
  <2>2. CASE flow[g].entry = e /\ flow[g].kind = "reauth"
    BY <1>0, <2>2 DEF now
  <2>3. CASE flow[g].entry = e /\ flow[g].kind # "reauth"
    BY <1>0, <2>3 DEF now
  <2>. QED  BY <2>1, <2>2, <2>3
<1>5. NoFlow \in Dialogs /\ Asks(NoFlow)
  BY DEF NoFlow, Dialogs, Asks
<1>6. ASSUME NEW g \in Flows
      PROVE  flow'[g] \in Dialogs /\ Asks(flow'[g])
  <2>1. flow[g] \in Dialogs /\ Asks(flow[g])
    BY <1>1 DEF TypeInv
  <2>2. CASE flow'[g] = [flow[g] EXCEPT !.entry = None]
    BY <2>1, <2>2 DEF Dialogs, Asks
  <2>. QED  BY <1>4, <1>5, <2>1, <2>2
<1>7. TypeInv'
  <2>1. entry' \in [Slots -> Entries]
    BY <1>1 DEF Remove, TypeInv, Entries
  <2>2. flow' \in [Flows -> Dialogs]
    <3>1. flow' = [g \in Flows |-> flow'[g]]
      BY <1>0
    <3>. QED  BY <1>6, <3>1
  <2>3. /\ state' \in [Slots -> {"unloaded", "setting up", "loaded"}]
        /\ current' \in [Slots -> BOOLEAN]
        /\ reload' \in [Slots -> BOOLEAN]
    BY <1>1 DEF Remove, TypeInv
  <2>. QED  BY <1>6, <2>1, <2>2, <2>3 DEF TypeInv
<1>8. SlotInv'
  BY <1>1, <1>3 DEF Remove, SlotInv, TypeInv
<1>9. DialogInv'
  <2>. SUFFICES ASSUME NEW g \in Flows
                PROVE  /\ flow'[g].entry \in Stored' \cup {None}
                       /\ /\ flow'[g].kind \in {"reauth", "reconfigure"}
                          /\ flow'[g].step \in {"backend", "status"}
                          /\ flow'[g].entry \in Stored'
                          => Type(flow'[g].ctx) = Type(entry'[flow'[g].entry].ctx)
    BY DEF DialogInv, Asking, Type
  <2>1. CASE flow[g].entry # e /\ flow'[g] = flow[g]
    <3>1. flow[g].entry \in Stored => entry'[flow[g].entry] = entry[flow[g].entry]
      BY <1>2, <2>1 DEF Stored
    <3>. QED  BY <1>1, <1>3, <2>1, <3>1 DEF DialogInv, Asking
  <2>2. CASE flow'[g].entry = None
    <3>1. None \notin Stored'
      BY DEF Stored
    <3>. QED  BY <2>2, <3>1
  <2>3. \/ flow[g].entry # e /\ flow'[g] = flow[g]
        \/ flow'[g].entry = None
    <3>1. flow[g] \in Dialogs
      BY <1>1 DEF TypeInv
    <3>2. [flow[g] EXCEPT !.entry = None].entry = None
      BY <3>1 DEF Dialogs
    <3>3. NoFlow.entry = None
      BY DEF NoFlow
    <3>. QED  BY <1>4, <3>2, <3>3
  <2>. QED  BY <2>1, <2>2, <2>3
<1>. QED  BY <1>2, <1>3, <1>7, <1>8, <1>9 DEF Inv

\* A restart forgets dialogs and setups, and no entry.
LEMMA RestartKeeps ==
    ASSUME Inv, Restart
    PROVE  Inv'
<1>1. TypeInv /\ SlotInv /\ DialogInv
  BY DEF Inv
<1>2. NoFlow \in Dialogs /\ Asks(NoFlow) /\ NoFlow.entry = None /\ NoFlow.kind = "none"
  BY DEF NoFlow, Dialogs, Asks
<1>3. TypeInv'
  BY <1>1, <1>2 DEF Restart, TypeInv
<1>4. SlotInv'
  BY DEF Restart, SlotInv
<1>5. DialogInv'
  <2>1. \A g \in Flows : flow'[g].entry = None /\ flow'[g].kind = "none"
    BY <1>2 DEF Restart
  <2>. QED  BY <2>1 DEF DialogInv
<1>. QED  BY <1>3, <1>4, <1>5 DEF Inv

-----------------------------------------------------------------------------
(* Theorems.                                                               *)

\* Types, setups and dialogs.
THEOREM FlowsHold == Spec => []Inv
<1>1. Init => Inv
  <2>. SUFFICES ASSUME Init PROVE Inv
    OBVIOUS
  <2>1. NoFlow \in Dialogs /\ Asks(NoFlow) /\ NoFlow.entry = None /\ NoFlow.kind = "none"
    BY DEF NoFlow, Dialogs, Asks
  <2>2. entry \in [Slots -> Entries]
    BY DEF Init, Entries
  <2>3. flow \in [Flows -> Dialogs] /\ \A g \in Flows : flow[g] = NoFlow
    BY <2>1 DEF Init
  <2>4. TypeInv
    BY <2>1, <2>2, <2>3 DEF Init, TypeInv
  <2>5. SlotInv
    BY DEF Init, SlotInv
  <2>6. DialogInv
    BY <2>1, <2>3 DEF DialogInv
  <2>. QED  BY <2>4, <2>5, <2>6 DEF Inv
<1>2. Inv /\ [Next]_vars => Inv'
  <2>. SUFFICES ASSUME Inv, [Next]_vars PROVE Inv'
    OBVIOUS
  <2>1. CASE UNCHANGED vars
    BY <2>1 DEF vars, Inv, TypeInv, SlotInv, DialogInv, Asking, Stored
  <2>2. ASSUME NEW f \in Flows, Answer(f) PROVE Inv'
    BY <2>2, AnswerCases, CreateKeeps, WriteKeeps, WritesContext
       DEF Recreds, Reconfigures
  <2>. QED  BY <2>1, <2>2, DialogKeeps, EntryStepKeeps, RemoveKeeps, RestartKeeps
       DEF Next
<1>. QED  BY <1>1, <1>2, PTL DEF Spec

\* Type correctness of the config flows and the entries they write.
THEOREM FlowTypes == Spec => []TypeOK
<1>1. Inv => TypeOK
  <2>. SUFFICES ASSUME Inv PROVE TypeOK
    OBVIOUS
  <2>1. \A e \in Slots :
            \/ entry[e] = NoEntry
            \/ /\ entry[e].version \in {1, 3}
               /\ entry[e].ctx \in Contexts /\ entry[e].uid \in Contexts
               /\ entry[e].token \in Tokens
    BY DEF Inv, TypeInv, Entries
  <2>2. \A f \in Flows :
            /\ flow[f].kind \in {"none", "user", "reauth", "reconfigure"}
            /\ flow[f].step \in {"none", "menu", "form", "backend", "status"}
            /\ Asking(f) => flow[f].ctx \in Contexts /\ flow[f].token \in Tokens
            /\ flow[f].kind \in {"reauth", "reconfigure"} =>
                flow[f].entry \in Slots \cup {None}
    BY DEF Inv, TypeInv, Dialogs, Asks, Asking
  <2>. QED  BY <2>1, <2>2 DEF TypeOK, Inv, TypeInv
<1>. QED  BY <1>1, FlowsHold, PTL

\* The entries that a step writes, and how: no step writes two.
LEMMA EntrySteps ==
    ASSUME Inv, Next
    PROVE  \/ UNCHANGED entries
           \/ \E f \in Flows : CreateEntry(f) /\ ~UNCHANGED entries
           \/ \E f \in Flows : Recreds(f) \/ Reconfigures(f)
           \/ \E e \in Slots : EntryStep(e) \/ Remove(e)
           \/ Restart
<1>1. ASSUME NEW f \in Flows, Dialog(f) PROVE UNCHANGED entries
  BY <1>1 DEF Dialog, StartUser, ChooseProvider, StartReauth, StartReconfigure,
              SubmitUser, SubmitReauth, SubmitReconfigure, Dismiss
<1>. QED  BY <1>1, AnswerCases DEF Next

\* No two entries have the same unique id, and each has one of its own
\* provider: the ids are compared after the backend's answer, in the step that
\* writes (async_step_reconfigure, _abort_if_unique_id_configured).
THEOREM IdsUnique == Spec => []UniqueIds
<1>1. Init => UniqueIds
  <2>. SUFFICES ASSUME Init, NEW e \in Stored PROVE entry[e].uid = entry[e].ctx
    BY DEF UniqueIds, Init
  <2>1. e \in Slots /\ entry[e] # NoEntry
    BY DEF Stored
  <2>. QED  BY <2>1 DEF Init
<1>2. Inv /\ UniqueIds /\ [Next]_vars => UniqueIds'
  <2>. SUFFICES ASSUME Inv, UniqueIds, [Next]_vars PROVE UniqueIds'
    OBVIOUS
  <2>. DEFINE Apart(d, e) == d # e => entry'[d].uid # entry'[e].uid
              Fits(e) == Type(entry'[e].uid) = Type(entry'[e].ctx)
  <2>0. (\A d, e \in Stored' : Apart(d, e) /\ Fits(e)) => UniqueIds'
    BY DEF UniqueIds, Type
  <2>. HIDE DEF Apart, Fits
  <2>1. ASSUME UNCHANGED entry PROVE UniqueIds'
    BY <2>1 DEF UniqueIds, Stored, Type
  <2>2. ASSUME NEW f \in Flows, CreateEntry(f), ~UNCHANGED entries PROVE UniqueIds'
    <3>1. PICK e \in Slots \ Stored :
            /\ entry'[e] = [version |-> 3, ctx |-> flow[f].ctx,
                            token |-> flow[f].token, uid |-> flow[f].ctx]
            /\ \A d \in Slots : d # e => entry'[d] = entry[d]
            /\ Stored' = Stored \cup {e}
      BY <2>2, CreateKeeps
    <3>2. \A d \in Stored : entry[d].uid # flow[f].ctx
      BY <2>2, CreateKeeps DEF Barred
    <3>3. \A d \in Stored : d \in Slots /\ d # e /\ entry'[d] = entry[d]
      BY <3>1 DEF Stored
    <3>4. entry'[e].uid = flow[f].ctx /\ entry'[e].ctx = flow[f].ctx
      BY <3>1
    <3>. QED  BY <2>0, <3>1, <3>2, <3>3, <3>4 DEF UniqueIds, Apart, Fits
  <2>3. ASSUME NEW f \in Flows, NEW u \in Contexts, Writes(f, u),
               u = entry[flow[f].entry].uid \/
                    (u = flow[f].ctx /\
                     \A other \in Stored \ {flow[f].entry} : entry[other].uid # u)
        PROVE  UniqueIds'
    <3>. DEFINE e == flow[f].entry
    <3>1. /\ e \in Stored
          /\ Stored' = Stored
          /\ Type(flow[f].ctx) = Type(entry[e].ctx)
          /\ entry'[e] = [version |-> entry[e].version, ctx |-> flow[f].ctx,
                          token |-> flow[f].token, uid |-> u]
          /\ \A d \in Slots : d # e => entry'[d] = entry[d]
      BY <2>3, WriteKeeps DEF Writes
    <3>2. \A d \in Stored : d # e => entry'[d] = entry[d]
      BY <3>1 DEF Stored
    <3>3. entry'[e].uid = u /\ entry'[e].ctx = flow[f].ctx
      BY <3>1
    <3>. HIDE DEF e
    <3>4. \A d \in Stored : d # e => entry[d].uid # u
      BY <2>3, <3>1 DEF UniqueIds, e
    <3>5. Type(u) = Type(flow[f].ctx)
      BY <2>3, <3>1 DEF UniqueIds, e
    <3>. QED  BY <2>0, <3>1, <3>2, <3>3, <3>4, <3>5 DEF UniqueIds, Apart, Fits
  <2>4. ASSUME NEW f \in Flows, Recreds(f) \/ Reconfigures(f) PROVE UniqueIds'
    BY <2>3, <2>4, WritesContext DEF Recreds, Reconfigures
  <2>5. ASSUME NEW e \in Slots, EntryStep(e) PROVE UniqueIds'
    BY <2>0, <2>5, EntryStepKeeps DEF UniqueIds, Apart, Fits
  <2>6. ASSUME NEW e \in Slots, Remove(e) PROVE UniqueIds'
    <3>1. Stored' = Stored \ {e} /\ \A d \in Stored' : entry'[d] = entry[d]
      BY <2>6, RemoveKeeps DEF Stored
    <3>. QED  BY <2>0, <3>1 DEF UniqueIds, Apart, Fits
  <2>. QED  BY <2>1, <2>2, <2>4, <2>5, <2>6, EntrySteps DEF vars, entries, Restart
<1>. QED  BY <1>1, <1>2, FlowsHold, PTL DEF Spec

\* An entry that runs with data it does not store any more is about to be
\* reloaded (async_update_reload_and_abort schedules the reload itself).
THEOREM StaleReloaded == Spec => []StaleSetupIsReloaded
<1>1. Init => StaleSetupIsReloaded
  BY DEF Init, StaleSetupIsReloaded, Stored
<1>2. Inv /\ StaleSetupIsReloaded /\ [Next]_vars => StaleSetupIsReloaded'
  <2>. SUFFICES ASSUME Inv, StaleSetupIsReloaded, [Next]_vars, NEW e \in Stored'
                PROVE  state'[e] # "unloaded" /\ ~current'[e] => reload'[e]
    BY DEF StaleSetupIsReloaded
  <2>0. e \in Slots /\ TypeInv /\ SlotInv
    BY DEF Stored, Inv
  <2>1. CASE UNCHANGED entries
    BY <2>1 DEF entries, StaleSetupIsReloaded, Stored
  <2>2. ASSUME NEW f \in Flows, CreateEntry(f), ~UNCHANGED entries
        PROVE  state'[e] # "unloaded" /\ ~current'[e] => reload'[e]
    <3>1. UNCHANGED <<state, current, reload>>
      BY <2>2, CreateKeeps
    <3>2. state[e] # "unloaded" => e \in Stored
      BY <2>0 DEF SlotInv
    <3>. QED  BY <3>1, <3>2 DEF StaleSetupIsReloaded
  <2>3. ASSUME NEW f \in Flows, NEW u \in Contexts, Writes(f, u)
        PROVE  state'[e] # "unloaded" /\ ~current'[e] => reload'[e]
    <3>1. e \in Stored
      BY <2>3, WriteKeeps
    <3>2. UpdateAndReload(flow[f].entry, flow[f].ctx, flow[f].token, u)
      BY <2>3 DEF Writes
    <3>. QED  BY <2>0, <3>1, <3>2 DEF UpdateAndReload, StaleSetupIsReloaded, TypeInv
  <2>4. ASSUME NEW f \in Flows, Recreds(f) \/ Reconfigures(f)
        PROVE  state'[e] # "unloaded" /\ ~current'[e] => reload'[e]
    BY <2>3, <2>4, WritesContext DEF Recreds, Reconfigures
  <2>5. ASSUME NEW d \in Slots, EntryStep(d)
        PROVE  state'[e] # "unloaded" /\ ~current'[e] => reload'[e]
    <3>1. e \in Stored
      BY <2>5, EntryStepKeeps
    <3>. QED  BY <2>0, <2>5, <3>1
         DEF EntryStep, SetUp, SetUpEnds, Reload, StaleSetupIsReloaded, TypeInv
  <2>6. ASSUME NEW d \in Slots, Remove(d)
        PROVE  state'[e] # "unloaded" /\ ~current'[e] => reload'[e]
    <3>1. e \in Stored /\ e # d
      BY <2>6, RemoveKeeps
    <3>. QED  BY <2>0, <2>6, <3>1 DEF Remove, StaleSetupIsReloaded, TypeInv
  <2>7. CASE Restart
    BY <2>0, <2>7 DEF Restart
  <2>. QED  BY <2>1, <2>2, <2>4, <2>5, <2>6, <2>7, EntrySteps DEF vars, entries
<1>. QED  BY <1>1, <1>2, FlowsHold, PTL DEF Spec

\* A context and a token are stored together only if a dialog asked that
\* backend with that token and got a good answer (REQ-CFG-003).
THEOREM StoredTogether == Spec => StoredTogetherValidatedTogether
<1>. DEFINE Good(e) == LET was == <<entry[e].ctx, entry[e].token>>
                           is  == <<entry'[e].ctx, entry'[e].token>>
                       IN  is # was /\ entry'[e] # NoEntry =>
                            \E f \in Flows : Validated(f) /\ is = <<flow[f].ctx, flow[f].token>>
<1>1. Inv /\ [Next]_vars => [\A e \in Slots : Good(e)]_vars
  <2>. SUFFICES ASSUME Inv, Next, NEW e \in Slots PROVE Good(e)
    OBVIOUS
  <2>1. CASE UNCHANGED entry
    BY <2>1
  <2>2. ASSUME NEW f \in Flows, CreateEntry(f), ~UNCHANGED entries PROVE Good(e)
    <3>1. PICK d \in Slots \ Stored :
            /\ entry'[d] = [version |-> 3, ctx |-> flow[f].ctx,
                            token |-> flow[f].token, uid |-> flow[f].ctx]
            /\ \A x \in Slots : x # d => entry'[x] = entry[x]
      BY <2>2, CreateKeeps
    <3>2. Validated(f)
      BY <2>2, CreateKeeps
    <3>3. CASE e = d
      BY <3>1, <3>2, <3>3
    <3>4. CASE e # d
      BY <3>1, <3>4
    <3>. QED  BY <3>3, <3>4
  <2>3. ASSUME NEW f \in Flows, NEW u \in Contexts, Writes(f, u) PROVE Good(e)
    <3>1. LET d == flow[f].entry IN
            /\ entry'[d] = [version |-> entry[d].version, ctx |-> flow[f].ctx,
                            token |-> flow[f].token, uid |-> u]
            /\ \A x \in Slots : x # d => entry'[x] = entry[x]
      BY <2>3, WriteKeeps
    <3>2. Validated(f)
      BY <2>3 DEF Writes
    <3>3. CASE e = flow[f].entry
      BY <3>1, <3>2, <3>3
    <3>4. CASE e # flow[f].entry
      BY <3>1, <3>4
    <3>. QED  BY <3>3, <3>4
  <2>4. ASSUME NEW f \in Flows, Recreds(f) \/ Reconfigures(f) PROVE Good(e)
    BY <2>3, <2>4, WritesContext DEF Recreds, Reconfigures
  <2>5. ASSUME NEW d \in Slots, EntryStep(d) PROVE Good(e)
    BY <2>5, EntryStepKeeps
  <2>6. ASSUME NEW d \in Slots, Remove(d) PROVE Good(e)
    BY <2>6, RemoveKeeps
  <2>. QED  BY <2>1, <2>2, <2>4, <2>5, <2>6, EntrySteps DEF entries, Restart
<1>. QED  BY <1>1, FlowsHold, PTL DEF Spec, StoredTogetherValidatedTogether

=============================================================================
