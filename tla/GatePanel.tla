------------------------------ MODULE GatePanel ------------------------------
(***************************************************************************)
(* The human gate as the browser works it: the collaboration drawer        *)
(* (src/client/P2POverlay.tsx) and the footer's badge                      *)
(* (src/client/P2PFooterAction.tsx) show what they polled last, and the    *)
(* human decides on that, over remote calls (src/plugin.ts:520-535) to an  *)
(* agent (src/agent.ts:242-322) that a rebuild replaces.                   *)
(*                                                                         *)
(* The remote calls are external: no order between them is assumed and any *)
(* of them may fail.  How gates come about is in module Routing; here one  *)
(* opens with some draft.  What happens to a reply that is sent is in      *)
(* Store, what a project task does in ProjectSessions.                     *)
(***************************************************************************)
EXTENDS Naturals, FiniteSets

CONSTANTS
    Gates,       \* ids of gated requests: the envelopes' ids
    Projects,    \* those that name a project the node has or had
    Texts,       \* drafts and replies
    Empty,       \* the one that trims to nothing
    MaxCalls,    \* bound on the decisions under way at once
    MaxRuns,     \* bound on the agents: rebuilds + 1
    MaxAnswers   \* bound on polls answered and not yet shown

ASSUME GatePanelTypes ==
    /\ Projects \subseteq Gates
    /\ Empty \in Texts
    /\ MaxCalls \in Nat /\ MaxRuns \in Nat \ {0} /\ MaxAnswers \in Nat

None == [text |-> Empty, run |-> 0]     \* not in the list
Runs == 1 .. MaxRuns
Entry == [text : Texts, run : Runs]

VARIABLES
    run,        \* which agent the node has: counts rebuilds
    gate,       \* this.gates of the agent; run is history
    gated,      \* history: requests this agent has gated
    shown,      \* the drawer's gates
    badge,      \* the footer's pending
    asked,      \* a gateSnapshot() of the drawer is on its way
    answers,    \* snapshots on their way to the drawer
    editing,    \* what the edit dialog is open for
    draft,      \* its text
    calls,      \* decisions on their way to the host
    sent,       \* history: replies sent, with what the human meant
    effects     \* history: decisions of this agent that took effect

host == <<run, gate, gated>>
polls == <<asked, answers>>
dialog == <<editing, draft>>
history == <<sent, effects>>
vars == <<host, shown, badge, polls, dialog, calls, history>>

Lists == [Gates -> Entry \cup {None}]
NoDialog == "closed"

\* meant is what the human saw or typed; a submitted edit carries its text.
Calls == [kind : {"approve", "submit", "reject"}, gate : Gates, meant : Entry]

Pending(list) == {g \in Gates : list[g] # None}

TypeOK ==
    /\ run \in Runs
    /\ gate \in Lists /\ shown \in Lists
    /\ gated \subseteq Gates
    /\ badge \in 0 .. Cardinality(Gates)
    /\ asked \in BOOLEAN
    /\ answers \subseteq Lists
    /\ editing \in Gates \cup {NoDialog} /\ draft \in Entry \cup {None}
    /\ calls \subseteq Calls
    /\ sent \subseteq [gate : Gates, text : Texts, meant : Entry, run : Runs,
                       kind : {"approve", "submit"}]
    /\ effects \in [Gates -> Nat]

Init ==
    /\ run = 1
    /\ gate = [g \in Gates |-> None] /\ shown = gate
    /\ gated = {}
    /\ badge = 0
    /\ asked = TRUE /\ answers = {}
    /\ editing = NoDialog /\ draft = None
    /\ calls = {}
    /\ sent = {} /\ effects = [g \in Gates |-> 0]

-----------------------------------------------------------------------------
(* The host *)

\* The transport hands an envelope on once per run: see Exchange.
GateOpens(g, text) ==
    /\ g \notin gated
    /\ gated' = gated \cup {g}
    /\ gate' = [gate EXCEPT ![g] = [text |-> text, run |-> run]]
    /\ UNCHANGED <<run, shown, badge, polls, dialog, calls, history>>

\* A new agent has no gates.
Rebuild ==
    /\ run < MaxRuns
    /\ run' = run + 1
    /\ gate' = [g \in Gates |-> None]
    /\ gated' = {}
    /\ effects' = [g \in Gates |-> 0]
    /\ UNCHANGED <<shown, badge, polls, dialog, calls, sent>>

\* Mutant: the gate is deleted after the reply was sent, not before.
ClosesLate(g) ==
    /\ effects' = [effects EXCEPT ![g] = @ + 1]
    /\ UNCHANGED gate

Closes(g) ==
    /\ gate' = [gate EXCEPT ![g] = None]
    /\ effects' = [effects EXCEPT ![g] = @ + 1]

\* Mutant: the edited text is not used.
BodyDrafted(c) == gate[c.gate].text

\* finalBody ?? item.draftBody
Body(c) == IF c.kind = "submit" THEN c.meant.text ELSE gate[c.gate].text

\* The answer makes the drawer poll again, except that of an approval which was
\* accepted; one that is lost does so for a rejection only.  (The notice that
\* tells a refusal is left out.)
Answers(c, accepted) ==
    /\ calls' = calls \ {c}
    /\ asked' \in CASE c.kind = "reject" -> {TRUE}
                    [] c.kind = "approve" /\ accepted -> {asked}
                    [] OTHER -> {asked, TRUE}

\* The project is in the table: the text is not looked at, a task starts.
StartsTask(c) ==
    /\ c.gate \in Projects
    /\ Closes(c.gate)
    /\ UNCHANGED sent

Replies(c) ==
    /\ Body(c) # Empty
    /\ Closes(c.gate)
    /\ sent' = sent \cup {[gate |-> c.gate, text |-> Body(c),
                           meant |-> c.meant, run |-> run, kind |-> c.kind]}

\* An approval is refused when there is no gate or no text, and at any time
\* because the directory does not have the sender.
ApproveGate(c) ==
    /\ c.kind # "reject"
    /\ \/ /\ gate[c.gate] # None
          /\ StartsTask(c) \/ Replies(c)
          /\ Answers(c, TRUE)
       \/ /\ Answers(c, FALSE)
          /\ UNCHANGED <<gate, history>>
    /\ UNCHANGED <<run, gated, shown, badge, answers, dialog>>

RejectGate(c) ==
    /\ c.kind = "reject"
    /\ IF gate[c.gate] # None THEN Closes(c.gate) ELSE UNCHANGED <<gate, effects>>
    /\ Answers(c, TRUE)
    /\ UNCHANGED <<run, gated, shown, badge, answers, dialog, sent>>

\* It does not reach the host.
CallFails(c) ==
    /\ calls' = calls \ {c}
    /\ asked' = (asked \/ c.kind = "reject")
    /\ UNCHANGED <<host, shown, badge, answers, dialog, history>>

-----------------------------------------------------------------------------
(* Polling *)

\* Every five seconds; the first poll is that of the mount.
TimerFires ==
    /\ ~asked
    /\ asked' = TRUE
    /\ UNCHANGED <<host, shown, badge, answers, dialog, calls, history>>

GateSnapshot ==
    /\ asked /\ Cardinality(answers) < MaxAnswers
    /\ asked' = FALSE
    /\ answers' = answers \cup {gate}
    /\ UNCHANGED <<host, shown, badge, dialog, calls, history>>

\* Mutant: nothing is done with the answer.
ShowsOnlyFirst(list) ==
    /\ list \in answers
    /\ answers' = answers \ {list}
    /\ shown' = IF Pending(shown) = {} THEN list ELSE shown
    /\ UNCHANGED <<host, badge, asked, dialog, calls, history>>

\* .then(setGates): whichever answer comes in.
Shows(list) ==
    /\ list \in answers
    /\ answers' = answers \ {list}
    /\ shown' = list
    /\ UNCHANGED <<host, badge, asked, dialog, calls, history>>

\* A poll that fails empties the drawer.
PollFails ==
    /\ asked
    /\ asked' = FALSE
    /\ shown' = [g \in Gates |-> None]
    /\ UNCHANGED <<host, badge, answers, dialog, calls, history>>

\* The footer asks on its own (how long that takes is left out); a poll that
\* fails leaves its count alone.
FooterPolls ==
    /\ badge' = Cardinality(Pending(gate))
    /\ UNCHANGED <<host, shown, polls, dialog, calls, history>>

-----------------------------------------------------------------------------
(* What the human does *)

Calling(kind, g, meant) ==
    /\ Cardinality(calls) < MaxCalls
    /\ calls' = calls \cup {[kind |-> kind, gate |-> g, meant |-> meant]}

\* The button is disabled without a draft; the card goes at once.
Approve(g) ==
    /\ shown[g] # None /\ shown[g].text # Empty
    /\ Calling("approve", g, shown[g])
    /\ shown' = [shown EXCEPT ![g] = None]
    /\ UNCHANGED <<host, badge, polls, dialog, history>>

Reject(g) ==
    /\ shown[g] # None
    /\ Calling("reject", g, shown[g])
    /\ shown' = [shown EXCEPT ![g] = None]
    /\ UNCHANGED <<host, badge, polls, dialog, history>>

StartEdit(g) ==
    /\ editing = NoDialog /\ shown[g] # None
    /\ editing' = g
    /\ draft' = shown[g]
    /\ UNCHANGED <<host, shown, badge, polls, calls, history>>

Type(text) ==
    /\ editing # NoDialog
    /\ draft' = [draft EXCEPT !.text = text]
    /\ UNCHANGED <<host, shown, badge, polls, editing, calls, history>>

CloseDialog == editing' = NoDialog /\ draft' = None

Cancel ==
    /\ editing # NoDialog
    /\ CloseDialog
    /\ UNCHANGED <<host, shown, badge, polls, calls, history>>

\* The dialog closes before the host has answered; the card stays.
SubmitEdit ==
    /\ editing # NoDialog
    /\ Calling("submit", editing, draft)
    /\ CloseDialog
    /\ UNCHANGED <<host, shown, badge, polls, history>>

-----------------------------------------------------------------------------
Next ==
    \/ \E g \in Gates : \/ \E text \in Texts : GateOpens(g, text)
                        \/ Approve(g) \/ Reject(g) \/ StartEdit(g)
    \/ Rebuild
    \/ \E c \in calls : ApproveGate(c) \/ RejectGate(c) \/ CallFails(c)
    \/ TimerFires \/ GateSnapshot \/ PollFails \/ FooterPolls
    \/ \E list \in answers : Shows(list)
    \/ \E text \in Texts : Type(text)
    \/ Cancel \/ SubmitEdit

Spec == Init /\ [][Next]_vars

\* Intervals fire and answers are shown; a host that is polled again and again
\* is reached again and again.
Fairness ==
    /\ WF_vars(TimerFires) /\ SF_vars(GateSnapshot)
    /\ WF_vars(\E list \in answers : Shows(list))
    /\ WF_vars(FooterPolls)

FairSpec == Spec /\ Fairness

-----------------------------------------------------------------------------
(* A reply the human approved is what the human typed or was shown          *)
(* (P2POverlay.tsx:51-68, agent.ts:278), whatever polls and other decisions *)
(* came between; a draft nobody saw goes out only if the node was rebuilt   *)
(* after the drawer's last look and the request came in once more.          *)
SentWasMeant ==
    \A reply \in sent :
        \/ reply.text = reply.meant.text
        \/ reply.kind = "approve" /\ reply.meant.run < reply.run

(* However often a gate is decided on, from a card a stale poll has brought *)
(* back, from the edit dialog, or by a second click, one decision takes     *)
(* effect with an agent (agent.ts:256, 285, 321): no second reply, no reply *)
(* to a rejected request, no task started twice.                            *)
DecidedOnce == \A g \in Gates : effects[g] <= 1

(* A card that went with a click, a failed poll that emptied the drawer or  *)
(* a late answer that brought old cards back is never the last word         *)
(* (P2POverlay.tsx:49-51, P2PFooterAction.tsx:26-31): the drawer comes to   *)
(* show just the gates the agent has, and the badge their number.           *)
PanelConverges ==
    /\ []<>(Pending(shown) = Pending(gate))
    /\ []<>(badge = Cardinality(Pending(gate)))
=============================================================================
