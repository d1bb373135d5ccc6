---------------------------- MODULE RoutingProofs ----------------------------
(***************************************************************************)
(* Proofs about inbound requests, for any requests, senders, settings and  *)
(* number of rebuilds.                                                     *)
(***************************************************************************)
EXTENDS Routing, TLAPS

\* What the variables of a handling say of its fate.
IsWorkedOn(h) ==
    /\ work[h] # "none" /\ gate[h] = "none"
    /\ reply[h] = "nobody" /\ closed[h] = "no"

IsGated(h) ==
    /\ work[h] = "none" /\ gate[h] # "none"
    /\ reply[h] = "nobody" /\ closed[h] = "no"

IsReplied(h) ==
    /\ work[h] = "none" /\ gate[h] = "none"
    /\ reply[h] # "nobody" /\ closed[h] = "no"

IsClosed(h) ==
    /\ work[h] = "none" /\ gate[h] = "none"
    /\ reply[h] = "nobody" /\ closed[h] # "no"

IsUnseen(h) ==
    /\ work[h] = "none" /\ gate[h] = "none"
    /\ reply[h] = "nobody" /\ closed[h] = "no"

FateKept(h) ==
    IF h \in arrived
    THEN IsWorkedOn(h) \/ IsGated(h) \/ IsReplied(h) \/ IsClosed(h)
    ELSE IsUnseen(h)

\* What is drafted may become a reply or a session of its own; by then only
\* the depth of the chain is still to be looked at.
MayBecomeAuto(h) ==
    /\ work[h] = "drafting" =>
          RequestOf(h) \notin Broadcasts /\ h \notin strangers \cup reviewed
    /\ work[h] = "running" \/ reply[h] = "auto" =>
          h \notin HumanOnly \cup strangers \cup reviewed

\* What timed out stays with the human.
Degraded(h) ==
    h \in timedOut =>
        /\ h \in arrived
        /\ work[h] \in {"none", "approved"}
        /\ gate[h] \in {"none", "empty"}
        /\ reply[h] # "auto"

HandlingKept(h) == FateKept(h) /\ MayBecomeAuto(h) /\ Degraded(h)

\* Nothing has come to an agent that is not built yet, and what is in the
\* inbox has come to the current one.
ArrivalsKept ==
    /\ strangers \cup reviewed \subseteq arrived
    /\ \A h \in arrived : AgentOf(h) <= generation
    /\ \A q \in inbox : <<generation, q>> \in arrived

RoutingInv ==
    /\ TypeOK
    /\ ArrivalsKept
    /\ \A h \in Handlings : HandlingKept(h)

-----------------------------------------------------------------------------
LEMMA HandlingParts ==
    /\ 0 \in Agents
    /\ \A h \in Handlings : /\ AgentOf(h) \in Agents
                            /\ RequestOf(h) \in Requests
                            /\ h = <<AgentOf(h), RequestOf(h)>>
BY RequestTypes DEF Handlings, Agents, AgentOf, RequestOf

-----------------------------------------------------------------------------
LEMMA RoutingInit == Init => RoutingInv
<1> SUFFICES ASSUME Init PROVE RoutingInv
  OBVIOUS
<1>1. TypeOK
  BY RequestTypes, HandlingParts DEF Init, TypeOK, Texts
<1>2. \A h \in Handlings : HandlingKept(h)
  BY DEF Init, HandlingKept, FateKept, IsUnseen, MayBecomeAuto, Degraded
<1> QED
  BY <1>1, <1>2 DEF Init, RoutingInv, ArrivalsKept

LEMMA TypeNext == TypeOK /\ [Next]_vars => TypeOK'
<1> SUFFICES ASSUME TypeOK, [Next]_vars PROVE TypeOK'
  OBVIOUS
<1> USE DEF TypeOK, settings, arrival, drafting, handlings
<1>1. ASSUME NEW h \in Handlings, ArriveGated(h) PROVE TypeOK'
  BY <1>1, HandlingParts DEF ArriveGated, Arrives, SetGate, Texts
<1>2. ASSUME NEW h \in Handlings, ArriveDrafting(h) PROVE TypeOK'
  BY <1>2, HandlingParts DEF ArriveDrafting, Arrives, SetWork
<1>3. ASSUME NEW h \in Handlings, DraftReady(h) PROVE TypeOK'
  <2>1. PICK needsGate \in BOOLEAN, draft \in Texts : Drafted(h, needsGate, draft)
    BY <1>3 DEF DraftReady
  <2>2. streams' \subseteq Handlings /\ timedOut' = timedOut
    BY <1>3 DEF DraftReady, StreamEnds
  <2>3. CASE DraftedToGate(h, needsGate, draft)
    BY <2>2, <2>3 DEF DraftedToGate, SetGate, SetWork, Texts
  <2>4. CASE DraftedToProject(h, needsGate)
    BY <2>2, <2>4 DEF DraftedToProject, SetWork
  <2>5. CASE DraftedToReply(h, needsGate, draft)
    BY <2>2, <2>5 DEF DraftedToReply, SetWork, SendReply
  <2> QED
    BY <2>1, <2>3, <2>4, <2>5 DEF Drafted
<1>11. ASSUME NEW h \in Handlings, DraftLate(h) PROVE TypeOK'
  BY <1>11 DEF DraftLate, StreamEnds
<1>12. ASSUME NEW h \in Handlings, DraftTimesOut(h) PROVE TypeOK'
  BY <1>12 DEF DraftTimesOut, DraftedToGate, SetGate, SetWork, Texts
<1>4. ASSUME NEW h \in Handlings, NEW answer \in Texts, TaskDone(h, answer)
      PROVE  TypeOK'
  <2>1. CASE answer = "empty"
    BY <1>4, <2>1 DEF TaskDone, SetGate, SetWork, Texts
  <2>2. CASE answer = "text"
    BY <1>4, <2>2 DEF TaskDone, SetWork, SendReply
  <2> QED
    BY <2>1, <2>2 DEF Texts
<1>5. ASSUME NEW h \in Handlings, NEW answer \in Texts,
             ApprovedTaskDone(h, answer)
      PROVE  TypeOK'
  BY <1>5 DEF ApprovedTaskDone, SetWork, SendReply, Texts
<1>6. ASSUME NEW h \in Handlings, ApproveProject(h) PROVE TypeOK'
  BY <1>6 DEF ApproveProject, SetGate, SetWork
<1>7. ASSUME NEW h \in Handlings, NEW edited \in {"undefined"} \cup Texts,
             ApprovePlain(h, edited)
      PROVE  TypeOK'
  <2>1. Final(h, edited) = "text"
    BY <1>7 DEF ApprovePlain, Gated, MaySend, Final, Texts
  <2> QED
    BY <1>7, <2>1 DEF ApprovePlain, SetGate, SendReply
<1>8. ASSUME NEW h \in Handlings, Reject(h) PROVE TypeOK'
  BY <1>8 DEF Reject, SetGate
<1>9. ASSUME DirectoryChanges \/ SettingsChange \/ Rebuild PROVE TypeOK'
  <2>1. ASSUME Rebuild PROVE generation' \in Agents
    BY <2>1, RequestTypes DEF Rebuild, Agents
  <2> QED
    BY <1>9, <2>1 DEF DirectoryChanges, SettingsChange, Rebuild
<1>10. ASSUME UNCHANGED vars PROVE TypeOK'
  BY <1>10 DEF vars
<1> QED
  BY <1>1, <1>2, <1>3, <1>4, <1>5, <1>6, <1>7, <1>8, <1>9, <1>10,
     <1>11, <1>12
     DEF Next, Human

-----------------------------------------------------------------------------
(* A step is about one handling at most: the others keep all they have.     *)
Untouched(h) ==
    /\ work'[h] = work[h] /\ gate'[h] = gate[h]
    /\ reply'[h] = reply[h] /\ closed'[h] = closed[h]
    /\ h \in arrived' <=> h \in arrived
    /\ h \in strangers' <=> h \in strangers
    /\ h \in reviewed' <=> h \in reviewed
    /\ h \in timedOut' <=> h \in timedOut

LEMMA UntouchedStays ==
    ASSUME NEW h \in Handlings, HandlingKept(h), Untouched(h)
    PROVE  HandlingKept(h)'
BY DEF Untouched, HandlingKept, FateKept, MayBecomeAuto, Degraded, IsWorkedOn,
       IsGated, IsReplied, IsClosed, IsUnseen, HumanOnly

LEMMA ArrivalsNext == RoutingInv /\ [Next]_vars => ArrivalsKept'
<1> SUFFICES ASSUME RoutingInv, [Next]_vars PROVE ArrivalsKept'
  OBVIOUS
<1> USE DEF RoutingInv, ArrivalsKept, settings, arrival, drafting, handlings
<1>1. ASSUME NEW h \in Handlings, Arrives(h), UNCHANGED settings
      PROVE  ArrivalsKept'
  <2>1. h = <<generation, RequestOf(h)>> /\ AgentOf(h) <= generation
    BY <1>1, HandlingParts DEF Arrives, TypeOK, Agents
  <2> QED
    BY <1>1, <2>1 DEF Arrives
<1>2. ASSUME UNCHANGED <<generation, arrived, inbox, strangers, reviewed>>
      PROVE  ArrivalsKept'
  BY <1>2
<1>3. ASSUME Rebuild PROVE ArrivalsKept'
  <2>1. \A h \in arrived : AgentOf(h) <= generation'
    BY <1>3, HandlingParts DEF Rebuild, TypeOK, Agents
  <2> QED
    BY <1>3, <2>1 DEF Rebuild
<1> QED
  BY <1>1, <1>2, <1>3
     DEF Next, ArriveGated, ArriveDrafting, DraftReady, DraftLate,
         DraftTimesOut, StreamEnds, Drafted, DraftedToGate, DraftedToProject,
         DraftedToReply, TaskDone, ApprovedTaskDone, Human, ApproveProject,
         ApprovePlain, Reject, DirectoryChanges, SettingsChange, vars

LEMMA RoutingNext == RoutingInv /\ [Next]_vars => RoutingInv'
<1> SUFFICES ASSUME RoutingInv, [Next]_vars
             PROVE  \A h \in Handlings : HandlingKept(h)'
  BY TypeNext, ArrivalsNext DEF RoutingInv
<1> DEFINE Goal == \A h \in Handlings : HandlingKept(h)'
           Others(h) == \A r \in Handlings \ {h} : Untouched(r)
<1>o. ASSUME NEW h \in Handlings, Others(h), HandlingKept(h)' PROVE Goal
  BY <1>o, UntouchedStays DEF RoutingInv
<1>k. \A h \in Handlings : HandlingKept(h)
  BY DEF RoutingInv
<1>t. TypeOK /\ strangers \cup reviewed \subseteq arrived
  BY DEF RoutingInv, ArrivalsKept
<1> USE <1>k, <1>t
    DEF TypeOK, HandlingKept, FateKept, MayBecomeAuto, Degraded, IsWorkedOn,
        IsGated, IsReplied, IsClosed, IsUnseen, HumanOnly, settings, arrival,
        drafting, Texts
<1>1. ASSUME NEW h \in Handlings, ArriveGated(h) PROVE Goal
  <2>1. Others(h)
    BY <1>1 DEF ArriveGated, Arrives, SetGate, Untouched
  <2>2. HandlingKept(h)'
    BY <1>1 DEF ArriveGated, Arrives, SetGate
  <2> QED
    BY <1>o, <2>1, <2>2
<1>2. ASSUME NEW h \in Handlings, ArriveDrafting(h) PROVE Goal
  <2>1. Others(h)
    BY <1>2 DEF ArriveDrafting, Arrives, SetWork, Untouched
  <2>2. FateKept(h)' /\ Degraded(h)'
    BY <1>2 DEF ArriveDrafting, Arrives, SetWork
  <2>3. /\ RequestOf(h) \notin Broadcasts /\ h \notin strangers' \cup reviewed'
        /\ work'[h] = "drafting" /\ reply'[h] = "nobody"
    BY <1>2 DEF ArriveDrafting, Arrives, SetWork, GatedOnArrival
  <2> QED
    BY <1>o, <2>1, <2>2, <2>3
<1>3. ASSUME NEW h \in Handlings, NEW needsGate \in BOOLEAN, NEW draft \in Texts,
             Drafted(h, needsGate, draft), UNCHANGED timedOut
      PROVE  Goal
  <2>1. Others(h)
    BY <1>3 DEF Drafted, DraftedToGate, DraftedToProject, DraftedToReply,
                AwaitsDraft, SetGate, SetWork, SendReply, Untouched
  <2>2. HandlingKept(h)'
    BY <1>3 DEF Drafted, DraftedToGate, DraftedToProject, DraftedToReply,
                AwaitsDraft, SetGate, SetWork, SendReply, NeedsHuman
  <2> QED
    BY <1>o, <2>1, <2>2
<1>10. ASSUME NEW h \in Handlings, DraftTimesOut(h) PROVE Goal
  <2>d. /\ SetGate(h, "empty") /\ SetWork(h, "none")
        /\ UNCHANGED <<reply, closed, arrived, strangers, reviewed>>
        /\ timedOut' = timedOut \cup {h}
    BY <1>10 DEF DraftTimesOut, DraftedToGate
  <2>1. Others(h)
    BY <2>d DEF SetGate, SetWork, Untouched
  <2>2. HandlingKept(h)'
    BY <1>10 DEF DraftTimesOut, DraftedToGate, SetGate, SetWork, NeedsHuman
  <2> QED
    BY <1>o, <2>1, <2>2
<1>11. ASSUME NEW h \in Handlings, DraftLate(h) PROVE Goal
  BY <1>11, UntouchedStays DEF DraftLate, StreamEnds, Untouched
<1>4. ASSUME NEW h \in Handlings, NEW answer \in Texts, TaskDone(h, answer)
      PROVE  Goal
  <2>1. Others(h)
    BY <1>4 DEF TaskDone, SetGate, SetWork, SendReply, Untouched
  <2>2. HandlingKept(h)'
    BY <1>4 DEF TaskDone, SetGate, SetWork, SendReply
  <2> QED
    BY <1>o, <2>1, <2>2
<1>5. ASSUME NEW h \in Handlings, NEW answer \in Texts,
             ApprovedTaskDone(h, answer)
      PROVE  Goal
  <2>1. Others(h)
    BY <1>5 DEF ApprovedTaskDone, SetWork, SendReply, Untouched
  <2>2. HandlingKept(h)'
    BY <1>5 DEF ApprovedTaskDone, SetWork, SendReply
  <2> QED
    BY <1>o, <2>1, <2>2
<1>6. ASSUME NEW h \in Handlings, ApproveProject(h) PROVE Goal
  <2>1. Others(h)
    BY <1>6 DEF ApproveProject, SetGate, SetWork, Untouched
  <2>2. HandlingKept(h)'
    BY <1>6 DEF ApproveProject, Gated, SetGate, SetWork
  <2> QED
    BY <1>o, <2>1, <2>2
<1>7. ASSUME NEW h \in Handlings, NEW edited, ApprovePlain(h, edited)
      PROVE  Goal
  <2>1. Others(h)
    BY <1>7 DEF ApprovePlain, SetGate, SendReply, Untouched
  <2>2. HandlingKept(h)'
    BY <1>7 DEF ApprovePlain, Gated, SetGate, SendReply
  <2> QED
    BY <1>o, <2>1, <2>2
<1>8. ASSUME NEW h \in Handlings, Reject(h) PROVE Goal
  <2>1. Others(h)
    BY <1>8 DEF Reject, SetGate, Untouched
  <2>2. HandlingKept(h)'
    BY <1>8 DEF Reject, Gated, SetGate
  <2> QED
    BY <1>o, <2>1, <2>2
<1>9. ASSUME UNCHANGED handlings PROVE Goal
  BY <1>9, UntouchedStays DEF handlings, Untouched
<1> QED
  BY <1>1, <1>2, <1>3, <1>4, <1>5, <1>6, <1>7, <1>8, <1>9, <1>10, <1>11
     DEF Next, DraftReady, StreamEnds, Human, DirectoryChanges,
         SettingsChange, Rebuild, vars, handlings

LEMMA RoutingInvariant == Spec => []RoutingInv
BY RoutingInit, RoutingNext, PTL DEF Spec

(* At each agent a request came to, it has one fate at any time, whatever   *)
(* the directory, the project table and the settings become, and whether    *)
(* the agent is replaced, while its draft or its session is awaited         *)
(* (agent.ts:184); only a gate of a replaced agent is lost, and no request  *)
(* in the inbox on screen has lost its gate.                                *)
THEOREM OneFateHolds == Spec => []OneFate
<1>1. RoutingInv => OneFate
  <2> SUFFICES ASSUME RoutingInv PROVE OneFate
    OBVIOUS
  <2>1. ASSUME NEW h \in Handlings
        PROVE  /\ h \in arrived => \E f \in Fates(h) : Fates(h) = {f}
               /\ h \notin arrived => Fates(h) = {}
    <3>1. FateKept(h)
      BY DEF RoutingInv, HandlingKept
    <3>2. IsWorkedOn(h) => Fates(h) = {"worked on"}
      BY DEF IsWorkedOn, Fates
    <3>3. IsGated(h) /\ AgentOf(h) = generation => Fates(h) = {"gated"}
      BY DEF IsGated, Fates
    <3>4. IsGated(h) /\ AgentOf(h) # generation => Fates(h) = {"lost"}
      BY DEF IsGated, Fates
    <3>5. IsReplied(h) => Fates(h) = {"replied"}
      BY DEF IsReplied, Fates
    <3>6. IsClosed(h) => Fates(h) = {"closed"}
      BY DEF IsClosed, Fates
    <3>7. IsUnseen(h) => Fates(h) = {}
      BY DEF IsUnseen, Fates
    <3> QED
      BY <3>1, <3>2, <3>3, <3>4, <3>5, <3>6, <3>7 DEF FateKept
  <2>2. ASSUME NEW q \in inbox
        PROVE  LET h == <<generation, q>> IN Fates(h) # {} /\ Fates(h) # {"lost"}
    <3> DEFINE h == <<generation, q>>
    <3>1. h \in Handlings /\ h \in arrived /\ AgentOf(h) = generation
      BY DEF RoutingInv, ArrivalsKept, TypeOK, AgentOf
    <3>2. "lost" \notin Fates(h)
      BY <3>1 DEF Fates
    <3> QED
      BY <2>1, <3>1, <3>2
  <2> QED
    BY <2>1, <2>2 DEF OneFate
<1> QED
  BY <1>1, RoutingInvariant, PTL

(* No broadcast, no chain that is too deep, no request of a sender that was *)
(* unknown and none that came in under review is answered automatically     *)
(* (agent.ts:173-184, 206-237).                                             *)
THEOREM AutoReplyAllowedHolds == Spec => []AutoReplyAllowed
<1>1. RoutingInv => AutoReplyAllowed
  BY DEF RoutingInv, HandlingKept, MayBecomeAuto, AutoReplyAllowed
<1> QED
  BY <1>1, RoutingInvariant, PTL

(* Once its draft has timed out a request is the human's: however late the  *)
(* stream ends, and whatever the human has decided by then, nothing of it   *)
(* is sent, run or put into the gate (reply-engine.ts:87-89, 134-143).      *)
THEOREM TimedOutIsHumanHolds == Spec => []TimedOutIsHuman
<1>1. RoutingInv => TimedOutIsHuman
  BY DEF RoutingInv, TypeOK, HandlingKept, Degraded, TimedOutIsHuman
<1> QED
  BY <1>1, RoutingInvariant, PTL

-----------------------------------------------------------------------------
(* The phase of a handling is told by its fate.                             *)
PhaseTold(h) ==
    /\ h \notin arrived /\ IsUnseen(h) => PhaseOf(h) = "unseen"
    /\ h \in arrived =>
          /\ IsReplied(h) => PhaseOf(h) = "answered"
          /\ IsClosed(h) => PhaseOf(h) = "closed"
          /\ IsGated(h) => PhaseOf(h) = IF AgentOf(h) = generation
                                        THEN "held" ELSE "lost"
          /\ IsWorkedOn(h) => PhaseOf(h) = IF work[h] = "approved"
                                           THEN "accepted" ELSE "working"

LEMMA PhaseOfFate == \A h \in Handlings : PhaseTold(h)
BY DEF PhaseTold, PhaseOf, IsReplied, IsClosed, IsGated, IsWorkedOn, IsUnseen

Phases == [h \in Handlings |-> PhaseOf(h)]

(* When one handling moves, the phases of the others stay.                  *)
LEMMA OnePhaseMoves ==
    ASSUME NEW h \in Handlings, \A r \in Handlings \ {h} : Untouched(r),
           generation' = generation
    PROVE  Phases' = [Phases EXCEPT ![h] = PhaseOf(h)']
<1>1. \A r \in Handlings \ {h} : PhaseOf(r)' = PhaseOf(r)
  BY DEF Untouched, PhaseOf
<1> QED
  BY <1>1 DEF Phases

LEMMA PolicyStep ==
    RoutingInv /\ RoutingInv' /\ [Next]_vars => [Policy!Next]_(Policy!pvars)
<1>p. (\A h \in Handlings : PhaseTold(h))'
  BY PhaseOfFate, PTL
<1> SUFFICES ASSUME RoutingInv, RoutingInv', [Next]_vars
             PROVE  [Policy!Next]_(Policy!pvars)
  OBVIOUS
<1> DEFINE Goal == [Policy!Next]_(Policy!pvars)
           Moves(h, from, to) ==
               /\ PhaseOf(h) \in from
               /\ PhaseOf(h)' = to
               /\ generation' = generation
               /\ \A r \in Handlings \ {h} : Untouched(r)
<1>f. ASSUME NEW h \in Handlings
      PROVE  /\ FateKept(h) /\ FateKept(h)'
             /\ PhaseTold(h) /\ PhaseTold(h)'
  BY <1>p, PhaseOfFate DEF RoutingInv, HandlingKept
<1>i. TypeOK
  BY DEF RoutingInv
<1>m. ASSUME NEW h \in Handlings, NEW from, NEW to, Moves(h, from, to)
      PROVE  Policy!Move(h, from, to)
  <2>1. Phases[h] \in from /\ Phases' = [Phases EXCEPT ![h] = to]
    BY <1>m, OnePhaseMoves DEF Phases
  <2> QED
    BY <1>m, <2>1 DEF Policy!Move, Phases
<1>s. ASSUME NEW h \in Handlings, NEW from, NEW to, Moves(h, from, to),
             to \notin from, Policy!Move(h, from, to) => Policy!OfOne(h)
      PROVE  Goal
  <2>1. PhaseOf(h)' # PhaseOf(h)
    BY <1>s
  <2>2. Policy!OfOne(h)
    BY <1>m, <1>s
  <2> QED
    BY <2>1, <2>2 DEF Policy!Next
<1> HIDE DEF Moves, Goal
<1> USE DEF TypeOK, FateKept, IsWorkedOn, IsGated, IsReplied, IsClosed,
            IsUnseen, PhaseTold, settings, arrival, Texts
<1>1. ASSUME NEW h \in Handlings, ArriveGated(h) PROVE Goal
  <2>1. Moves(h, {"unseen"}, "held")
    <3>1. \A r \in Handlings \ {h} : Untouched(r)
      BY <1>1 DEF ArriveGated, Arrives, SetGate, drafting, Untouched
    <3>2. /\ h \notin arrived /\ h \in arrived' /\ AgentOf(h) = generation
          /\ gate'[h] = "empty" /\ UNCHANGED generation
      BY <1>1, <1>i DEF ArriveGated, Arrives, SetGate
    <3> QED
      BY <1>f, <3>1, <3>2 DEF Moves
  <2>2. ASSUME Policy!Move(h, {"unseen"}, "held") PROVE Policy!OfOne(h)
    BY <1>1, <2>2 DEF ArriveGated, Arrives, Policy!OfOne, Policy!Receive
  <2> QED
    BY <1>s, <2>1, <2>2
<1>2. ASSUME NEW h \in Handlings, ArriveDrafting(h) PROVE Goal
  <2>1. Moves(h, {"unseen"}, "working")
    BY <1>2, <1>f, <1>i DEF ArriveDrafting, Arrives, SetWork, Untouched, Moves
  <2>2. ASSUME Policy!Move(h, {"unseen"}, "working") PROVE Policy!OfOne(h)
    BY <1>2, <2>2 DEF ArriveDrafting, Arrives, Policy!OfOne, Policy!Receive
  <2> QED
    BY <1>s, <2>1, <2>2
<1> DEFINE Held(h) == IF AgentOf(h) = generation THEN "held" ELSE "lost"
<1>h. ASSUME NEW h \in Handlings, Moves(h, {"working"}, Held(h)),
             UNCHANGED reply
      PROVE  Goal
  <2>1. Policy!Move(h, {"working"}, Held(h)) => Policy!OfOne(h)
    BY <1>h DEF Policy!OfOne, Policy!Hold
  <2> QED
    BY <1>h, <1>s, <2>1
<1>a. ASSUME NEW h \in Handlings, Moves(h, {"working"}, "answered"),
             reply' = [reply EXCEPT ![h] = "auto"]
      PROVE  Goal
  <2>1. h \notin HumanOnly
    <3>1. reply'[h] = "auto"
      BY <1>a, <1>i
    <3> QED
      BY <3>1 DEF RoutingInv, HandlingKept, MayBecomeAuto
  <2>2. Policy!Move(h, {"working"}, "answered") => Policy!OfOne(h)
    BY <1>a, <2>1 DEF Policy!OfOne, Policy!AutoAnswer
  <2> QED
    BY <1>a, <1>s, <2>2
<1>e. ASSUME NEW h \in Handlings, NEW from \in {"held", "accepted"},
             Moves(h, {from}, "closed"), UNCHANGED reply
      PROVE  Goal
  <2>1. Policy!Move(h, {from}, "closed") => Policy!OfOne(h)
    BY <1>e DEF Policy!OfOne, Policy!Close, Policy!Move
  <2> QED
    BY <1>e, <1>s, <2>1
<1>u. ASSUME NEW h \in Handlings, NEW from \in {"held", "accepted"},
             Moves(h, {from}, "answered"), reply' = [reply EXCEPT ![h] = "human"]
      PROVE  Goal
  <2>1. Policy!Move(h, {from}, "answered") => Policy!OfOne(h)
    BY <1>u DEF Policy!OfOne, Policy!HumanAnswer, Policy!Move
  <2> QED
    BY <1>s, <1>u, <2>1
<1>3. ASSUME NEW h \in Handlings, NEW needsGate \in BOOLEAN,
             NEW draft \in Texts, DraftedToGate(h, needsGate, draft),
             timedOut' \in {timedOut, timedOut \cup {h}}
      PROVE  Goal
  <2>1. PICK d \in Texts : SetGate(h, d)
    BY <1>3 DEF DraftedToGate
  <2>2. Moves(h, {"working"}, Held(h))
    BY <1>3, <1>f, <1>i, <2>1
       DEF DraftedToGate, AwaitsDraft, SetGate, SetWork, Untouched, Moves
  <2> QED
    BY <1>3, <1>h, <2>2 DEF DraftedToGate
<1>4. ASSUME NEW h \in Handlings, NEW needsGate \in BOOLEAN,
             DraftedToProject(h, needsGate), UNCHANGED timedOut
      PROVE  Goal
  <2>1. Moves(h, {"working"}, "working")
    BY <1>4, <1>f, <1>i
       DEF DraftedToProject, AwaitsDraft, SetWork, Untouched, Moves
  <2>2. Phases' = Phases
    BY <2>1, OnePhaseMoves DEF Moves, Phases
  <2> QED
    BY <1>4, <2>2 DEF DraftedToProject, Phases, Policy!pvars, Goal
<1>5. ASSUME NEW h \in Handlings, NEW needsGate \in BOOLEAN,
             NEW draft \in Texts, DraftedToReply(h, needsGate, draft),
             UNCHANGED timedOut
      PROVE  Goal
  <2>1. Moves(h, {"working"}, "answered")
    BY <1>5, <1>f, <1>i
       DEF DraftedToReply, AwaitsDraft, SetWork, SendReply, Untouched, Moves
  <2> QED
    BY <1>5, <1>a, <2>1 DEF DraftedToReply, SendReply
<1>6. ASSUME NEW h \in Handlings, DraftLate(h) PROVE Goal
  BY <1>6 DEF DraftLate, PhaseOf, Policy!pvars, Goal
<1>7. ASSUME NEW h \in Handlings, NEW answer \in Texts, TaskDone(h, answer)
      PROVE  Goal
  <2>1. CASE answer = "empty"
    <3>1. Moves(h, {"working"}, Held(h))
      BY <1>7, <1>f, <1>i, <2>1
         DEF TaskDone, SetGate, SetWork, Untouched, Moves, drafting
    <3> QED
      BY <1>7, <1>h, <2>1, <3>1 DEF TaskDone
  <2>2. CASE answer # "empty"
    <3>1. Moves(h, {"working"}, "answered")
      BY <1>7, <1>f, <1>i, <2>2
         DEF TaskDone, SetWork, SendReply, Untouched, Moves, drafting
    <3> QED
      BY <1>7, <1>a, <2>2, <3>1 DEF TaskDone, SendReply
  <2> QED
    BY <2>1, <2>2
<1>8. ASSUME NEW h \in Handlings, ApproveProject(h) PROVE Goal
  <2>1. Moves(h, {"held"}, "accepted")
    BY <1>8, <1>f, <1>i
       DEF ApproveProject, Gated, SetGate, SetWork, Untouched, Moves, drafting
  <2>2. Policy!Move(h, {"held"}, "accepted") => Policy!OfOne(h)
    BY <1>8 DEF ApproveProject, Policy!OfOne, Policy!Accept
  <2> QED
    BY <1>s, <2>1, <2>2
<1>9. ASSUME NEW h \in Handlings, NEW edited, ApprovePlain(h, edited)
      PROVE  Goal
  <2>1. Moves(h, {"held"}, "answered")
    BY <1>9, <1>f, <1>i
       DEF ApprovePlain, Gated, SetGate, SendReply, Untouched, Moves, drafting
  <2> QED
    BY <1>9, <1>u, <2>1 DEF ApprovePlain, SendReply
<1>10. ASSUME NEW h \in Handlings, NEW answer \in Texts,
              ApprovedTaskDone(h, answer)
       PROVE  Goal
  <2>1. CASE answer # "empty" /\ senderKnown[h]
    <3>1. Moves(h, {"accepted"}, "answered")
      BY <1>10, <1>f, <1>i, <2>1
         DEF ApprovedTaskDone, SetWork, SendReply, Untouched, Moves, drafting
    <3> QED
      BY <1>10, <1>u, <2>1, <3>1 DEF ApprovedTaskDone, SendReply
  <2>2. CASE ~(answer # "empty" /\ senderKnown[h])
    <3>1. Moves(h, {"accepted"}, "closed")
      BY <1>10, <1>f, <1>i, <2>2
         DEF ApprovedTaskDone, SetWork, Untouched, Moves, drafting
    <3> QED
      BY <1>10, <1>e, <2>2, <3>1 DEF ApprovedTaskDone
  <2> QED
    BY <2>1, <2>2
<1>11. ASSUME NEW h \in Handlings, Reject(h) PROVE Goal
  <2>1. Moves(h, {"held"}, "closed")
    BY <1>11, <1>f, <1>i
       DEF Reject, Gated, SetGate, Untouched, Moves, drafting
  <2> QED
    BY <1>11, <1>e, <2>1 DEF Reject
<1>12. ASSUME Rebuild PROVE Goal
  <2>1. ASSUME NEW h \in Handlings
        PROVE  PhaseOf(h)' = IF PhaseOf(h) = "held" THEN "lost" ELSE PhaseOf(h)
    <3>1. h \in arrived => AgentOf(h) # generation'
      BY <1>12, HandlingParts DEF Rebuild, RoutingInv, ArrivalsKept, Agents
    <3>2. UNCHANGED <<arrived, work, gate, reply, closed>>
      BY <1>12 DEF Rebuild, handlings
    <3> QED
      BY <1>f, <3>1, <3>2
  <2>2. Policy!Replace
    BY <1>12, <2>1 DEF Rebuild, handlings, Policy!Replace
  <2> QED
    BY <2>2 DEF Policy!Next, Goal
<1>13. ASSUME UNCHANGED <<generation, handlings>> PROVE Goal
  BY <1>13 DEF handlings, PhaseOf, Policy!pvars, Goal
<1>14. ASSUME NEW h \in Handlings, DraftReady(h) \/ DraftTimesOut(h) PROVE Goal
  BY <1>3, <1>4, <1>5, <1>14
     DEF DraftReady, StreamEnds, DraftTimesOut, Drafted
<1> QED
  BY <1>1, <1>2, <1>6, <1>7, <1>8, <1>9, <1>10, <1>11, <1>12, <1>13, <1>14
     DEF Next, Human, DirectoryChanges, SettingsChange, vars, handlings, Goal

(* The routing code implements the reply rules (README.md:17-18, 156): from *)
(* its arrival at an agent to its answer a request takes only steps the     *)
(* rules have, and none they keep for a human without one; a rebuild loses  *)
(* what is held and nothing else, and a request sent again is a new one.    *)
THEOREM RoutingImplementsPolicy == Spec => ImplementsPolicy
<1>1. Init => Policy!Init
  BY DEF Init, PhaseOf, Policy!Init
<1> QED
  BY <1>1, RoutingInvariant, PolicyStep, PTL
     DEF Spec, ImplementsPolicy, Policy!Spec
=============================================================================
