----------------------------- MODULE SendAndWait -----------------------------
(***************************************************************************)
(* p2p_send_and_wait (agent.ts:92-118 and 334-345, plugin.ts:227-246 and   *)
(* 646-664): the request is sent, the call waits for the reply during the  *)
(* quick window, then returns "pending" and leaves the wait in the         *)
(* background; the reply or the total timeout is then handed to the        *)
(* session that asked.  Replies nobody waits for go to the inbox.  A heavy *)
(* settings change (plugin.ts:292-301) replaces the agent and its store    *)
(* while waits of the previous agent keep running; the maps of the plugin  *)
(* survive it.                                                             *)
(***************************************************************************)
EXTENDS Naturals

CONSTANTS
    Requests,     \* calls of sendAndWait, each with a fresh envelope id
    Replies,      \* inbound reply envelopes, already deduped by id
    InReplyTo,    \* InReplyTo[r]: the request named by r.replyTo
    Initiated,    \* requests called from a session that takes a followup
    MaxRebuilds,  \* bound on the rebuilds of the node
    NoReply

ASSUME ReplyTypes ==
    /\ InReplyTo \in [Replies -> Requests]
    /\ Initiated \subseteq Requests
    /\ MaxRebuilds \in Nat
    /\ NoReply \notin Replies

VARIABLES
    generation,   \* number of the current agent
    quickMode,    \* 0 < quickWaitMs < sendWaitTimeoutMs
    stage,        \* where the call is
    agentOf,      \* agent the call runs on
    pending,      \* requests in the pending map of their agent
    outcome,      \* what the tool call returned
    answer,       \* reply that resolved the wait
    watchers,     \* suspendedWatchers and backgroundWaitSession
    followup,     \* what the session was handed later
    inbox,        \* orphan replies in the current store's inbox
    arrived,      \* history: replies that have arrived
    missed        \* history: waits that timed out after a reply had arrived

vars == <<generation, quickMode, stage, agentOf, pending, outcome, answer,
          watchers, followup, inbox, arrived, missed>>

\* quick: inside the quick window; full: no quick window in this call.
Waiting == {"quick", "full", "suspended"}

\* unresolved: no address, so nothing was sent.
Stages == {"idle", "unresolved", "sending", "done"} \cup Waiting

TypeOK ==
    /\ generation \in 0 .. MaxRebuilds
    /\ quickMode \in BOOLEAN
    /\ stage \in [Requests -> Stages]
    /\ agentOf \in [Requests -> 0 .. MaxRebuilds]
    /\ pending \subseteq Requests
    /\ outcome \in [Requests -> {"none", "reply", "timeout", "queued",
                                 "pending"}]
    /\ answer \in [Requests -> Replies \cup {NoReply}]
    /\ watchers \subseteq Requests
    /\ followup \in [Requests -> {"none", "reply", "timeout", "failed"}]
    /\ inbox \subseteq Replies
    /\ arrived \subseteq Replies
    /\ missed \subseteq Requests

Init ==
    /\ generation = 0
    /\ quickMode \in BOOLEAN
    /\ stage = [q \in Requests |-> "idle"]
    /\ agentOf = [q \in Requests |-> 0]
    /\ pending = {}
    /\ outcome = [q \in Requests |-> "none"]
    /\ answer = [q \in Requests |-> NoReply]
    /\ watchers = {}
    /\ followup = [q \in Requests |-> "none"]
    /\ inbox = {}
    /\ arrived = {}
    /\ missed = {}

-----------------------------------------------------------------------------
(* The call *)

\* A target without an address returns "queued" at once.
CallUnresolved(q) ==
    /\ stage[q] = "idle"
    /\ stage' = [stage EXCEPT ![q] = "unresolved"]
    /\ outcome' = [outcome EXCEPT ![q] = "queued"]
    /\ UNCHANGED <<generation, quickMode, agentOf, pending, answer, watchers,
                   followup, inbox, arrived, missed>>

Call(q) ==
    /\ stage[q] = "idle"
    /\ stage' = [stage EXCEPT ![q] = "sending"]
    /\ agentOf' = [agentOf EXCEPT ![q] = generation]
    /\ UNCHANGED <<generation, quickMode, pending, outcome, answer, watchers,
                   followup, inbox, arrived, missed>>

\* store.send gave up: the message is in the outbox and the call is over.
SendQueued(q) ==
    /\ stage[q] = "sending"
    /\ stage' = [stage EXCEPT ![q] = "done"]
    /\ outcome' = [outcome EXCEPT ![q] = "queued"]
    /\ UNCHANGED <<generation, quickMode, agentOf, pending, answer, watchers,
                   followup, inbox, arrived, missed>>

\* The envelope was acknowledged: awaitReply starts the total timer.
SendDelivered(q) ==
    /\ stage[q] = "sending"
    /\ pending' = pending \cup {q}
    /\ stage' = [stage EXCEPT ![q] = IF quickMode THEN "quick" ELSE "full"]
    /\ UNCHANGED <<generation, quickMode, agentOf, outcome, answer, watchers,
                   followup, inbox, arrived, missed>>

\* Mutant: no session is registered.
QuickElapsesUnwatched(q) ==
    /\ stage[q] = "quick"
    /\ stage' = [stage EXCEPT ![q] = "suspended"]
    /\ outcome' = [outcome EXCEPT ![q] = "pending"]
    /\ UNCHANGED <<generation, quickMode, agentOf, pending, answer, watchers,
                   followup, inbox, arrived, missed>>

\* The quick window ends first: the tool returns "pending", and before any
\* other event the plugin registers the initiating session, if there is one.
QuickElapses(q) ==
    /\ stage[q] = "quick"
    /\ stage' = [stage EXCEPT ![q] = "suspended"]
    /\ outcome' = [outcome EXCEPT ![q] = "pending"]
    /\ watchers' = IF q \in Initiated THEN watchers \cup {q} ELSE watchers
    /\ UNCHANGED <<generation, quickMode, agentOf, pending, answer, followup,
                   inbox, arrived, missed>>

\* How the wait is reported: inside the call it is the tool's result; in the
\* background it is a followup of the registered session, which may throw.
Reported(q, what) ==
    IF stage[q] = "suspended"
    THEN /\ UNCHANGED outcome
         /\ IF q \in watchers
            THEN \E f \in {what, "failed"} :
                     followup' = [followup EXCEPT ![q] = f]
            ELSE UNCHANGED followup
    ELSE /\ outcome' = [outcome EXCEPT ![q] = what]
         /\ UNCHANGED followup

\* Mutant: the session stays registered.
WaitEndsWatched(q, what) ==
    /\ stage' = [stage EXCEPT ![q] = "done"]
    /\ pending' = pending \ {q}
    /\ UNCHANGED watchers
    /\ Reported(q, what)

WaitEnds(q, what) ==
    /\ stage' = [stage EXCEPT ![q] = "done"]
    /\ pending' = pending \ {q}
    /\ watchers' = watchers \ {q}
    /\ Reported(q, what)

RepliesTo(q) == {r \in Replies : InReplyTo[r] = q}

\* The quick window is shorter than the total: its timer has fired before.
TotalTimeout(q) ==
    /\ stage[q] \in {"full", "suspended"}
    /\ WaitEnds(q, "timeout")
    /\ missed' = IF RepliesTo(q) \cap arrived # {} THEN missed \cup {q}
                 ELSE missed
    /\ UNCHANGED <<generation, quickMode, agentOf, answer, inbox, arrived>>

-----------------------------------------------------------------------------
(* handleInbound of a reply, at the current agent (agent.ts:156-168) *)

\* The peer answers what it received, which may be before the sender has
\* processed the ack, or long after the wait is over.
MayArrive(r) ==
    /\ r \notin arrived
    /\ stage[InReplyTo[r]] \notin {"idle", "unresolved"}

\* The current agent has a pending wait for the request.
Awaited(q) == q \in pending /\ agentOf[q] = generation

ReplyResolves(r) ==
    LET q == InReplyTo[r]
    IN  /\ MayArrive(r)
        /\ Awaited(q)
        /\ arrived' = arrived \cup {r}
        /\ answer' = [answer EXCEPT ![q] = r]
        /\ WaitEnds(q, "reply")
        /\ UNCHANGED <<generation, quickMode, agentOf, inbox, missed>>

\* Mutant: a reply nobody waits for is dropped.
ReplyOrphanedDropped(r) ==
    LET q == InReplyTo[r]
    IN  /\ MayArrive(r)
        /\ ~Awaited(q)
        /\ arrived' = arrived \cup {r}
        /\ UNCHANGED <<generation, quickMode, stage, agentOf, pending,
                       outcome, answer, watchers, followup, inbox, missed>>

ReplyOrphaned(r) ==
    LET q == InReplyTo[r]
    IN  /\ MayArrive(r)
        /\ ~Awaited(q)
        /\ arrived' = arrived \cup {r}
        /\ inbox' = inbox \cup {r}
        /\ UNCHANGED <<generation, quickMode, stage, agentOf, pending,
                       outcome, answer, watchers, followup, missed>>

-----------------------------------------------------------------------------
(* Settings *)

SetTimeouts ==
    /\ quickMode' = ~quickMode
    /\ UNCHANGED <<generation, stage, agentOf, pending, outcome, answer,
                   watchers, followup, inbox, arrived, missed>>

\* A new agent and a new store; the waits of the old agent keep their timers.
Rebuild ==
    /\ generation < MaxRebuilds
    /\ generation' = generation + 1
    /\ inbox' = {}
    /\ UNCHANGED <<quickMode, stage, agentOf, pending, outcome, answer,
                   watchers, followup, arrived, missed>>

-----------------------------------------------------------------------------
CallNext(q) ==
    \/ CallUnresolved(q) \/ Call(q)
    \/ SendQueued(q) \/ SendDelivered(q)
    \/ QuickElapses(q) \/ TotalTimeout(q)

Next ==
    \/ \E q \in Requests : CallNext(q)
    \/ \E r \in Replies : ReplyResolves(r) \/ ReplyOrphaned(r)
    \/ SetTimeouts
    \/ Rebuild

Spec == Init /\ [][Next]_vars

\* The transport settles every send, and timers fire.  No reply is assumed.
Fairness ==
    \A q \in Requests :
        /\ WF_vars(SendQueued(q) \/ SendDelivered(q))
        /\ WF_vars(QuickElapses(q))
        /\ WF_vars(TotalTimeout(q))

FairSpec == Spec /\ Fairness

-----------------------------------------------------------------------------
(* The books on open waits are right: the pending map holds a wait exactly  *)
(* while its call or its background half is open, so no entry outlives its  *)
(* wait and no open wait is out of reach of the reply (agent.ts:157-163,    *)
(* 334-345), and the background badge (plugin.ts backgroundWaits) counts    *)
(* the suspended waits a session asked for and no other: registration after *)
(* "pending" and removal by wait-settled never miss each other, across      *)
(* timeouts, replies and rebuilds.                                          *)
WaitsAccounted ==
    /\ pending = {q \in Requests : stage[q] \in Waiting}
    /\ watchers = {q \in Initiated : stage[q] = "suspended"}

(* Every arrived reply surfaces once: it ends the wait for its request or   *)
(* it is in the inbox, never both, and of several replies to a request at   *)
(* most one ends the wait.  Holds until a rebuild drops the inbox.          *)
EveryReplySurfacesOnce ==
    generation = 0 =>
        \A r \in Replies :
            r \in arrived <=> (answer[InReplyTo[r]] = r) # (r \in inbox)

(* The tool call and the background delivery agree: a session is handed     *)
(* something later only when the tool told it "pending", a reply is         *)
(* delivered only when one resolved the wait, and a timeout only when none  *)
(* did (plugin.ts:227-246).                                                 *)
DeliveriesAgree ==
    \A q \in Requests :
        /\ followup[q] # "none" => outcome[q] = "pending" /\ stage[q] = "done"
        /\ (outcome[q] = "reply" \/ followup[q] = "reply") => answer[q] # NoReply
        /\ (outcome[q] = "timeout" \/ followup[q] = "timeout")
               => answer[q] = NoReply

(* Every call returns, whatever the peer does (agent.ts:92-118).            *)
CallReturns == \A q \in Requests : stage[q] = "sending" ~> outcome[q] # "none"

(* A session told "pending" is handed an outcome, or the attempt to hand it *)
(* one threw, also when the agent was rebuilt meanwhile (README.md:19).     *)
PendingIsDelivered ==
    \A q \in Requests :
        q \in Initiated /\ outcome[q] = "pending" ~> followup[q] # "none"

(* "the eventual reply (or total timeout) is delivered back into your       *)
(* session automatically" (README.md:19): a session is told of a timeout    *)
(* only when no reply has arrived.                                          *)
TimeoutMeansNoReply ==
    \A q \in Requests : followup[q] = "timeout" => q \notin missed
=============================================================================
