------------------------------- MODULE Routing -------------------------------
(***************************************************************************)
(* What an agent does with an inbound request (agent.ts:170-323): it is    *)
(* recorded in the inbox and then drafted by the LLM, run as a project     *)
(* session, answered automatically, or gated for a human who approves,     *)
(* edits or rejects it.  The draft and the sessions are awaited, the draft *)
(* races a timeout, and the directory, the project table, the gate setting *)
(* and the agent itself may change meanwhile.                              *)
(*                                                                         *)
(* A transport emits an envelope once (Transport!EmittedOnce), but a       *)
(* rebuild brings a transport that has seen nothing: a request that is     *)
(* sent again after one reaches the new agent too, while the old one may   *)
(* still be at work on it.  What is tracked is therefore a handling: a     *)
(* request at one agent.                                                   *)
(***************************************************************************)
EXTENDS Naturals, FiniteSets

CONSTANTS
    Requests,     \* inbound request envelopes
    MaxArrivals,  \* bound on the handlings
    Senders,
    SenderOf,     \* SenderOf[q]: who sent it
    Broadcasts,   \* to.broadcast is true
    Deep,         \* auto, and depth >= MAX_REPLY_DEPTH
    Targeted,     \* to.project names the node's project
    Naming,       \* the body contains the project's name
    MaxRebuilds   \* bound on the rebuilds of the node

ASSUME RequestTypes ==
    /\ SenderOf \in [Requests -> Senders]
    /\ Broadcasts \subseteq Requests
    /\ Deep \subseteq Requests
    /\ Targeted \subseteq Requests
    /\ Naming \subseteq Requests
    /\ MaxArrivals \in Nat
    /\ MaxRebuilds \in Nat

Agents == 0 .. MaxRebuilds
Handlings == Agents \X Requests

AgentOf(h) == h[1]
RequestOf(h) == h[2]

From(h) == SenderOf[RequestOf(h)]

\* Broadcasts, and auto-reply chains that are too deep.
HumanOnly == {h \in Handlings : RequestOf(h) \in Broadcasts \cup Deep}

VARIABLES
    generation,   \* number of the current agent
    known,        \* senders the current directory resolves
    strict,       \* sensitivity 'strict', or no LLM route: gate everything
    hasProject,   \* hasProject[a]: agent a, once built, has the project
    inbox,        \* requests in the current store's inbox
    arrived,      \* handlings that have begun
    work,         \* what a handling awaits
    streams,      \* handlings whose LLM stream has not ended
    gate,         \* the gate of a handling and the draft in it
    senderKnown,  \* approveGate's peer, captured before the session
    reply,        \* who had the reply sent
    body,         \* what was sent
    closed,       \* how it ended without a reply
    strangers,    \* history: the sender was unknown on arrival
    reviewed,     \* history: arrived while strict
    timedOut      \* history: the draft timed out

settings == <<generation, known, strict, hasProject>>
arrival == <<arrived, inbox, strangers, reviewed>>
drafting == <<streams, timedOut>>
handlings == <<arrived, work, drafting, gate, senderKnown, reply, body,
               closed, strangers, reviewed>>

vars == <<settings, inbox, handlings>>

Texts == {"empty", "text"}

TypeOK ==
    /\ generation \in Agents
    /\ known \subseteq Senders
    /\ strict \in BOOLEAN
    /\ hasProject \in [Agents -> BOOLEAN]
    /\ inbox \subseteq Requests
    /\ arrived \subseteq Handlings
    /\ work \in [Handlings -> {"none", "drafting", "running", "approved"}]
    /\ streams \subseteq Handlings
    /\ gate \in [Handlings -> {"none"} \cup Texts]
    /\ senderKnown \in [Handlings -> BOOLEAN]
    /\ reply \in [Handlings -> {"nobody", "auto", "human"}]
    /\ body \in [Handlings -> {"none", "text"}]   \* nothing empty is sent
    /\ closed \in [Handlings -> {"no", "rejected", "unanswered"}]
    /\ strangers \subseteq Handlings
    /\ reviewed \subseteq Handlings
    /\ timedOut \subseteq Handlings

Init ==
    /\ generation = 0
    /\ known \in SUBSET Senders
    /\ strict \in BOOLEAN
    /\ \E has \in BOOLEAN : hasProject = [a \in Agents |-> a = 0 /\ has]
    /\ inbox = {}
    /\ arrived = {}
    /\ work = [h \in Handlings |-> "none"]
    /\ streams = {}
    /\ gate = [h \in Handlings |-> "none"]
    /\ senderKnown = [h \in Handlings |-> FALSE]
    /\ reply = [h \in Handlings |-> "nobody"]
    /\ body = [h \in Handlings |-> "none"]
    /\ closed = [h \in Handlings |-> "no"]
    /\ strangers = {}
    /\ reviewed = {}
    /\ timedOut = {}

-----------------------------------------------------------------------------
(* resolveProject looks at the target only, inferProject at the body: in    *)
(* the table of the agent that handles the request.                         *)

ResolvesProject(h) == hasProject[AgentOf(h)] /\ RequestOf(h) \in Targeted

Project(h) ==
    \/ ResolvesProject(h)
    \/ hasProject[AgentOf(h)] /\ RequestOf(h) \in Naming

SendReply(h, by, text) ==
    /\ reply' = [reply EXCEPT ![h] = by]
    /\ body' = [body EXCEPT ![h] = text]

SetGate(h, draft) == gate' = [gate EXCEPT ![h] = draft]

SetWork(h, w) == work' = [work EXCEPT ![h] = w]

-----------------------------------------------------------------------------
(* handleInbound *)

\* Mutant: broadcasts are drafted like any other request.
GatedOnArrivalNoBroadcast(h) == From(h) \notin known \/ strict

\* No draft is asked for: a broadcast, an unknown sender, or a reply engine
\* that gates everything at once.
GatedOnArrival(h) ==
    \/ RequestOf(h) \in Broadcasts
    \/ From(h) \notin known
    \/ strict

\* The transport of the current agent emits the envelope, the first time it
\* sees it: whether an earlier agent has handled it is not known here.
Arrives(h) ==
    /\ AgentOf(h) = generation
    /\ h \notin arrived
    /\ Cardinality(arrived) < MaxArrivals
    /\ arrived' = arrived \cup {h}
    /\ inbox' = inbox \cup {RequestOf(h)}
    /\ strangers' = IF From(h) \in known THEN strangers
                    ELSE strangers \cup {h}
    /\ reviewed' = IF strict THEN reviewed \cup {h} ELSE reviewed

ArriveGated(h) ==
    /\ Arrives(h)
    /\ GatedOnArrival(h)
    /\ SetGate(h, "empty")
    /\ UNCHANGED <<settings, work, drafting, senderKnown, reply, body, closed>>

ArriveDrafting(h) ==
    /\ Arrives(h)
    /\ ~GatedOnArrival(h)
    /\ SetWork(h, "drafting")
    /\ streams' = streams \cup {h}
    /\ UNCHANGED <<settings, gate, timedOut, senderKnown, reply, body, closed>>

\* Mutant: the depth of the chain is not looked at.
NeedsHumanAnyDepth(h, needsGate) == needsGate

\* needsGate || forceGate
NeedsHuman(h, needsGate) == needsGate \/ RequestOf(h) \in Deep

\* Mutant: the end of the stream is taken although the timeout came first.
AwaitsStream(h) == work[h] = "drafting" \/ h \in streams

\* The promise of withTimeout is not settled: it settles once, and what
\* handleInbound does next follows with nothing in between.
AwaitsDraft(h) == work[h] = "drafting"

\* handleInbound goes on with the draft: the project table is read now.
DraftedToGate(h, needsGate, draft) ==
    /\ AwaitsDraft(h)
    /\ IF Project(h)
       THEN /\ NeedsHuman(h, needsGate)
            /\ SetGate(h, "empty")
       ELSE /\ NeedsHuman(h, needsGate) \/ draft = "empty"
            /\ SetGate(h, draft)
    /\ SetWork(h, "none")
    /\ UNCHANGED <<settings, arrival, senderKnown, reply, body, closed>>

DraftedToProject(h, needsGate) ==
    /\ AwaitsDraft(h)
    /\ Project(h)
    /\ ~NeedsHuman(h, needsGate)
    /\ SetWork(h, "running")
    /\ UNCHANGED <<settings, arrival, gate, senderKnown, reply, body, closed>>

DraftedToReply(h, needsGate, draft) ==
    /\ AwaitsDraft(h)
    /\ ~Project(h)
    /\ ~NeedsHuman(h, needsGate)
    /\ draft = "text"
    /\ SendReply(h, "auto", draft)
    /\ SetWork(h, "none")
    /\ UNCHANGED <<settings, arrival, gate, senderKnown, closed>>

Drafted(h, needsGate, draft) ==
    \/ DraftedToGate(h, needsGate, draft)
    \/ DraftedToProject(h, needsGate)
    \/ DraftedToReply(h, needsGate, draft)

StreamEnds(h) ==
    /\ h \in streams
    /\ streams' = streams \ {h}
    /\ UNCHANGED timedOut

\* In time: any draft, or a failure, which needs a gate and has no text.
DraftReady(h) ==
    /\ StreamEnds(h)
    /\ \E needsGate \in BOOLEAN, draft \in Texts : Drafted(h, needsGate, draft)

\* Nothing aborts the stream of a draft that timed out: it ends on its own,
\* into a promise that is settled.
DraftLate(h) ==
    /\ StreamEnds(h)
    /\ ~AwaitsDraft(h)
    /\ UNCHANGED <<settings, arrival, work, gate, senderKnown, reply, body,
                   closed>>

DraftTimesOut(h) ==
    /\ work[h] = "drafting"
    /\ DraftedToGate(h, TRUE, "empty")
    /\ timedOut' = timedOut \cup {h}
    /\ UNCHANGED streams

\* The project session ends: its answer is sent, an empty one is gated.
TaskDone(h, answer) ==
    /\ work[h] = "running"
    /\ SetWork(h, "none")
    /\ IF answer = "empty"
       THEN /\ SetGate(h, "empty")
            /\ UNCHANGED <<reply, body>>
       ELSE /\ SendReply(h, "auto", answer)
            /\ UNCHANGED gate
    /\ UNCHANGED <<settings, arrival, drafting, senderKnown, closed>>

-----------------------------------------------------------------------------
(* approveGate and rejectGate, at the current agent; an approval that is    *)
(* refused changes nothing *)

Gated(h) == gate[h] # "none" /\ AgentOf(h) = generation

\* Mutant: the gate is not deleted.
ApproveProjectKeepsGate(h) ==
    /\ Gated(h)
    /\ ResolvesProject(h)
    /\ SetWork(h, "approved")
    /\ senderKnown' = [senderKnown EXCEPT ![h] = From(h) \in known]
    /\ UNCHANGED <<settings, arrival, drafting, gate, reply, body, closed>>

ApproveProject(h) ==
    /\ Gated(h)
    /\ ResolvesProject(h)
    /\ SetGate(h, "none")
    /\ SetWork(h, "approved")
    /\ senderKnown' = [senderKnown EXCEPT ![h] = From(h) \in known]
    /\ UNCHANGED <<settings, arrival, drafting, reply, body, closed>>

\* The human's text, or the draft when none is given.
Final(h, edited) == IF edited = "undefined" THEN gate[h] ELSE edited

MaySend(h, text) == text # "empty" /\ From(h) \in known

ApprovePlain(h, edited) ==
    /\ Gated(h)
    /\ ~ResolvesProject(h)
    /\ MaySend(h, Final(h, edited))
    /\ SetGate(h, "none")
    /\ SendReply(h, "human", Final(h, edited))
    /\ UNCHANGED <<settings, arrival, drafting, work, senderKnown, closed>>

ApprovedTaskDone(h, answer) ==
    /\ work[h] = "approved"
    /\ SetWork(h, "none")
    /\ IF answer # "empty" /\ senderKnown[h]
       THEN SendReply(h, "human", answer) /\ UNCHANGED closed
       ELSE /\ closed' = [closed EXCEPT ![h] = "unanswered"]
            /\ UNCHANGED <<reply, body>>
    /\ UNCHANGED <<settings, arrival, drafting, gate, senderKnown>>

Reject(h) ==
    /\ Gated(h)
    /\ SetGate(h, "none")
    /\ closed' = [closed EXCEPT ![h] = "rejected"]
    /\ UNCHANGED <<settings, arrival, drafting, work, senderKnown, reply, body>>

-----------------------------------------------------------------------------
(* The surroundings *)

\* Discovery learns or drops a sender.
DirectoryChanges ==
    /\ known' \in (SUBSET Senders) \ {known}
    /\ UNCHANGED <<generation, strict, hasProject, inbox, handlings>>

\* The current agent and its reply engine are told, no other.
SettingsChange ==
    /\ strict' \in BOOLEAN
    /\ \E has \in BOOLEAN :
           hasProject' = [hasProject EXCEPT ![generation] = has]
    /\ <<strict', hasProject'>> # <<strict, hasProject>>
    /\ UNCHANGED <<generation, known, inbox, handlings>>

\* A new agent with its own directory, settings, store and transport: the
\* gates of the old agent are out of reach, what it awaits goes on.
Rebuild ==
    /\ generation < MaxRebuilds
    /\ generation' = generation + 1
    /\ known' \in SUBSET Senders
    /\ strict' \in BOOLEAN
    /\ \E has \in BOOLEAN :
           hasProject' = [hasProject EXCEPT ![generation'] = has]
    /\ inbox' = {}
    /\ UNCHANGED handlings

-----------------------------------------------------------------------------
Human(h) ==
    \/ ApproveProject(h)
    \/ \E edited \in {"undefined"} \cup Texts : ApprovePlain(h, edited)
    \/ Reject(h)

Next ==
    \/ \E h \in Handlings :
           \/ ArriveGated(h) \/ ArriveDrafting(h)
           \/ DraftReady(h) \/ DraftLate(h) \/ DraftTimesOut(h)
           \/ \E answer \in Texts :
                  TaskDone(h, answer) \/ ApprovedTaskDone(h, answer)
           \/ Human(h)
    \/ DirectoryChanges \/ SettingsChange \/ Rebuild

Spec == Init /\ [][Next]_vars

-----------------------------------------------------------------------------
\* A gate is lost once its agent has been replaced.
Fates(h) ==
    {f \in {"worked on", "gated", "lost", "replied", "closed"} :
        \/ f = "worked on" /\ work[h] # "none"
        \/ f = "gated" /\ gate[h] # "none" /\ AgentOf(h) = generation
        \/ f = "lost" /\ gate[h] # "none" /\ AgentOf(h) # generation
        \/ f = "replied" /\ reply[h] # "nobody"
        \/ f = "closed" /\ closed[h] # "no"}

(* "A request must not be silently inbox-only" (agent.ts:184): at the agent *)
(* it came to, a request has one fate at any time, whatever changed while   *)
(* its draft or its session was awaited, and a request in the inbox on      *)
(* screen is not one whose gate was lost.  Only the gate of an agent that a *)
(* rebuild replaced is lost.  This is per agent: a request sent again after *)
(* a rebuild has a fate at the new agent too.                               *)
OneFate ==
    /\ \A h \in Handlings :
           IF h \in arrived THEN \E f \in Fates(h) : Fates(h) = {f}
           ELSE Fates(h) = {}
    /\ \A q \in inbox :
           LET h == <<generation, q>> IN Fates(h) # {} /\ Fates(h) # {"lost"}

(* No automatic reply to a broadcast (anti-storm, agent.ts:173), to a chain *)
(* that reached MAX_REPLY_DEPTH, to a sender the directory did not know, or *)
(* when review was required as the request arrived.                         *)
AutoReplyAllowed ==
    \A h \in Handlings :
        reply[h] = "auto" =>
            h \notin HumanOnly \cup strangers \cup reviewed

(* A stalled LLM degrades to the human gate (reply-engine.ts:87-89): after  *)
(* its timeout, a draft that comes late neither sends a reply, nor starts a *)
(* session, nor changes the empty gate the human has by then approved,      *)
(* rejected or left open.                                                   *)
TimedOutIsHuman ==
    \A h \in timedOut :
        /\ work[h] \in {"none", "approved"}
        /\ gate[h] \in {"none", "empty"}
        /\ reply[h] # "auto"

-----------------------------------------------------------------------------
PhaseOf(h) ==
    CASE h \notin arrived -> "unseen"
      [] reply[h] # "nobody" -> "answered"
      [] closed[h] # "no" -> "closed"
      [] gate[h] # "none" -> IF AgentOf(h) = generation THEN "held" ELSE "lost"
      [] work[h] = "approved" -> "accepted"
      [] OTHER -> "working"

Policy == INSTANCE ReplyPolicy WITH
              NeverAuto <- HumanOnly,
              RunOf <- AgentOf,
              run <- generation,
              phase <- [h \in Handlings |-> PhaseOf(h)],
              author <- reply

(* The routing code implements the reply rules (README.md:17-18, 156).      *)
ImplementsPolicy == Policy!Spec
=============================================================================
