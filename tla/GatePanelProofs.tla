--------------------------- MODULE GatePanelProofs ---------------------------
(***************************************************************************)
(* Proofs about the gate panel, for any gates and texts and any number of  *)
(* decisions, polls and rebuilds.                                          *)
(***************************************************************************)
EXTENDS GatePanel, TLAPS

\* What the safety of decisions rests on of the type invariant.
Typed ==
    /\ run \in Nat \ {0}
    /\ effects \in [Gates -> Nat]
    /\ gate \in [Gates -> [text : Texts, run : Nat]]
    /\ shown \in [Gates -> [text : Texts, run : Nat]]
    /\ answers \subseteq [Gates -> [text : Texts, run : Nat]]
    /\ draft \in [text : Texts, run : Nat]
    /\ editing \in Gates \cup {NoDialog}
    /\ \A c \in calls : /\ c.kind \in {"approve", "submit", "reject"}
                        /\ c.gate \in Gates
                        /\ c.meant \in [text : Texts, run : Nat]

\* A gate that stands is undecided, and so is a request not gated yet.
Undecided ==
    \A g \in Gates :
        /\ effects[g] <= 1
        /\ gate[g] # None => effects[g] = 0 /\ gate[g].run = run /\ g \in gated
        /\ g \notin gated => effects[g] = 0

\* What the human has of a request is from an earlier agent, or the draft this
\* agent has gated it with.
Current(g, e) ==
    \/ e = None
    \/ 0 < e.run /\ e.run < run
    \/ /\ 0 < e.run /\ e.run = run /\ g \in gated
       /\ gate[g] # None => e.text = gate[g].text

Faithful ==
    /\ \A g \in Gates : Current(g, shown[g])
    /\ \A list \in answers, g \in Gates : Current(g, list[g])
    /\ \A c \in calls : c.kind = "approve" =>
           c.meant # None /\ Current(c.gate, c.meant)

PanelInv == Typed /\ Undecided /\ Faithful /\ SentWasMeant

-----------------------------------------------------------------------------
LEMMA NoneIs == None \in [text : Texts, run : Nat] /\ None.run = 0
BY GatePanelTypes DEF None

(* A decision takes effect on a gate that stands, and closes it.            *)
LEMMA ClosesOnce ==
    ASSUME PanelInv, NEW g \in Gates, gate[g] # None, Closes(g),
           UNCHANGED <<run, gated>>
    PROVE  /\ Undecided'
           /\ gate' \in [Gates -> [text : Texts, run : Nat]]
           /\ effects' \in [Gates -> Nat]
           /\ \A h \in Gates : gate'[h] = gate[h] \/ gate'[h] = None
BY NoneIs DEF PanelInv, Typed, Undecided, Closes

(* Faithful survives when gates only close and nothing new is shown.        *)
LEMMA StaysFaithful ==
    ASSUME PanelInv, UNCHANGED <<run, gated>>, shown' = shown,
           answers' \subseteq answers, calls' \subseteq calls,
           \A h \in Gates : gate'[h] = gate[h] \/ gate'[h] = None
    PROVE  Faithful'
<1>1. \A g \in Gates : \A e : Current(g, e) => Current(g, e)'
  BY DEF Current
<1> QED
  BY <1>1 DEF PanelInv, Typed, Faithful

LEMMA PanelInit == Init => PanelInv
BY NoneIs DEF Init, PanelInv, Typed, Undecided, Faithful, Current,
              SentWasMeant

LEMMA DecisionKeeps ==
    ASSUME PanelInv, NEW c \in calls, ApproveGate(c) \/ RejectGate(c)
    PROVE  PanelInv'
<1> USE DEF PanelInv
<1>0. /\ UNCHANGED <<run, gated, shown, answers, editing, draft>>
      /\ calls' \subseteq calls
      /\ c.gate \in Gates
  BY DEF ApproveGate, RejectGate, Answers, Typed, dialog
<1>1. CASE UNCHANGED <<gate, effects, sent>>
  BY <1>0, <1>1, StaysFaithful DEF Typed, Undecided, SentWasMeant
<1>2. CASE gate[c.gate] # None /\ Closes(c.gate) /\ UNCHANGED sent
  BY <1>0, <1>2, ClosesOnce, StaysFaithful DEF Typed, SentWasMeant
<1>3. CASE gate[c.gate] # None /\ Replies(c) /\ c.kind # "reject"
  <2> DEFINE reply == [gate |-> c.gate, text |-> Body(c), meant |-> c.meant,
                       run |-> run, kind |-> c.kind]
  <2>1. Closes(c.gate) /\ sent' = sent \cup {reply}
    BY <1>3 DEF Replies
  <2>2. \/ reply.text = reply.meant.text
        \/ reply.kind = "approve" /\ reply.meant.run < reply.run
    <3>1. CASE c.kind = "submit"
      BY <3>1 DEF Body
    <3>2. CASE c.kind = "approve"
      <4>1. Current(c.gate, c.meant) /\ c.meant # None
        BY <3>2 DEF Faithful
      <4> QED
        BY <1>3, <3>2, <4>1, NoneIs DEF Body, Current
    <3> QED
      BY <1>3, <3>1, <3>2 DEF Typed
  <2>3. SentWasMeant'
    BY <2>1, <2>2 DEF SentWasMeant
  <2> QED
    BY <1>0, <1>3, <2>1, <2>3, ClosesOnce, StaysFaithful DEF Typed
<1> QED
  BY <1>1, <1>2, <1>3 DEF ApproveGate, RejectGate, StartsTask, history

LEMMA PanelNext == PanelInv /\ [Next]_vars => PanelInv'
<1> SUFFICES ASSUME PanelInv, [Next]_vars PROVE PanelInv'
  OBVIOUS
<1> USE DEF PanelInv
<1>1. ASSUME NEW g \in Gates, NEW text \in Texts, GateOpens(g, text)
      PROVE  PanelInv'
  <2> DEFINE opened == [text |-> text, run |-> run]
  <2>1. /\ g \notin gated /\ gated' = gated \cup {g}
        /\ gate' = [gate EXCEPT ![g] = opened]
        /\ UNCHANGED <<run, effects, shown, answers, calls, editing, draft,
                       sent>>
        /\ opened.run = run
    BY <1>1 DEF GateOpens, polls, dialog, history
  <2>2. Typed' /\ Undecided'
    BY <2>1 DEF Typed, Undecided
  <2>3. \A h \in Gates : \A e : Current(h, e) => Current(h, e)'
    BY <2>1 DEF Current, Typed
  <2> QED
    BY <2>1, <2>2, <2>3 DEF Typed, Faithful, SentWasMeant
<1>2. CASE Rebuild
  <2>1. \A h \in Gates, e \in [text : Texts, run : Nat] :
            Current(h, e) => Current(h, e)'
    BY <1>2 DEF Rebuild, Current, Typed
  <2>2. Typed' /\ Undecided'
    BY <1>2, NoneIs DEF Rebuild, Typed, Undecided, polls, dialog
  <2>3. Faithful'
    BY <1>2, <2>1 DEF Rebuild, Typed, Faithful, polls, dialog
  <2> QED
    BY <1>2, <2>2, <2>3 DEF Rebuild, SentWasMeant
<1>3. ASSUME NEW c \in calls, ApproveGate(c) \/ RejectGate(c) PROVE PanelInv'
  BY <1>3, DecisionKeeps
<1>4. CASE GateSnapshot
  <2>1. \A g \in Gates : Current(g, gate[g])
    BY DEF Current, Undecided, Typed
  <2> QED
    BY <1>4, <2>1 DEF GateSnapshot, Typed, Undecided, Faithful, SentWasMeant,
                      Current, host, dialog, history
<1>5. ASSUME NEW list \in answers, Shows(list) PROVE PanelInv'
  BY <1>5 DEF Shows, Typed, Undecided, Faithful, SentWasMeant, Current, host,
              dialog, history
<1>6. CASE PollFails
  BY <1>6, NoneIs DEF PollFails, Typed, Undecided, Faithful, SentWasMeant,
                      Current, host, dialog, history
<1>7. ASSUME NEW g \in Gates, Approve(g) \/ Reject(g) PROVE PanelInv'
  <2>1. PICK kind \in {"approve", "reject"} :
            /\ shown[g] # None
            /\ calls' = calls \cup {[kind |-> kind, gate |-> g,
                                     meant |-> shown[g]]}
            /\ kind = "approve" => shown[g].text # Empty
            /\ shown' = [shown EXCEPT ![g] = None]
            /\ UNCHANGED <<host, answers, dialog, history>>
    BY <1>7 DEF Approve, Reject, Calling, polls
  <2> QED
    BY <2>1, NoneIs DEF Typed, Undecided, Faithful, SentWasMeant,
                              Current, host, dialog, history
<1>8. ASSUME NEW g \in Gates, StartEdit(g) PROVE PanelInv'
  BY <1>8 DEF StartEdit, Typed, Undecided, Faithful, SentWasMeant, Current,
              host, polls, history
<1>9. ASSUME NEW text \in Texts, Type(text) PROVE PanelInv'
  BY <1>9 DEF Type, Typed, Undecided, Faithful, SentWasMeant, Current,
              host, polls, history
<1>10. CASE Cancel
  BY <1>10, NoneIs DEF Cancel, CloseDialog, Typed, Undecided, Faithful,
              SentWasMeant, Current, host, polls, history
<1>11. CASE SubmitEdit
  BY <1>11, NoneIs DEF SubmitEdit, Calling, CloseDialog, Typed, Undecided,
              Faithful, SentWasMeant, Current, host, polls, history
<1>12. ASSUME NEW c \in calls, CallFails(c) PROVE PanelInv'
  BY <1>12 DEF CallFails, Typed, Undecided, Faithful, SentWasMeant, Current,
              host, dialog, history
<1>13. CASE TimerFires \/ FooterPolls \/ UNCHANGED vars
  BY <1>13 DEF TimerFires, FooterPolls, vars, Typed, Undecided, Faithful,
              SentWasMeant, Current, host, polls, dialog, history
<1> QED
  BY <1>1, <1>2, <1>3, <1>4, <1>5, <1>6, <1>7, <1>8, <1>9, <1>10, <1>11,
     <1>12, <1>13 DEF Next

(* Whatever cards stale polls bring back and however decisions cross, one   *)
(* decision on a gate takes effect (agent.ts:256, 285, 321).                *)
THEOREM DecidedOnceHolds == Spec => []DecidedOnce
<1>1. PanelInv => DecidedOnce
  BY DEF PanelInv, Undecided, DecidedOnce
<1> QED
  BY <1>1, PanelInit, PanelNext, PTL DEF Spec

(* What a human approved is what goes out, unless the node was rebuilt      *)
(* after the drawer's last look (P2POverlay.tsx:51-68, agent.ts:278).       *)
THEOREM SentWasMeantHolds == Spec => []SentWasMeant
<1>1. PanelInv => SentWasMeant
  BY DEF PanelInv
<1> QED
  BY <1>1, PanelInit, PanelNext, PTL DEF Spec
=============================================================================
