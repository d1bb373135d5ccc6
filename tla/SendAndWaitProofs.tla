--------------------------- MODULE SendAndWaitProofs ---------------------------
(***************************************************************************)
(* Proofs about send-and-wait, for any requests, replies and rebuilds.     *)
(***************************************************************************)
EXTENDS SendAndWait, TLAPS

\* A resolved wait is over.
ResolvedIsDone == \A q \in Requests : answer[q] # NoReply => stage[q] = "done"

\* Where replies are: whatever resolved a wait or is in the inbox has arrived,
\* nothing is in both places, and without a rebuild nothing is in neither.
Surfaced ==
    /\ inbox \subseteq arrived
    /\ \A r \in Replies :
           /\ answer[InReplyTo[r]] = r => r \in arrived \ inbox
           /\ generation = 0 /\ r \in arrived =>
                  answer[InReplyTo[r]] = r \/ r \in inbox

WaitInv == TypeOK /\ WaitsAccounted /\ ResolvedIsDone /\ Surfaced

-----------------------------------------------------------------------------
LEMMA WaitInit == Init => WaitInv
<1> SUFFICES ASSUME Init PROVE WaitInv
  OBVIOUS
<1> USE ReplyTypes DEF Init
<1>1. TypeOK
  BY DEF TypeOK, Stages, Waiting
<1>2. WaitsAccounted
  BY DEF WaitsAccounted, Waiting
<1>3. ResolvedIsDone /\ Surfaced
  BY DEF ResolvedIsDone, Surfaced
<1> QED
  BY <1>1, <1>2, <1>3 DEF WaitInv

\* What is reported is a result the tool or the session knows.
LEMMA ReportedTyped ==
    ASSUME TypeOK, NEW q \in Requests, NEW what \in {"reply", "timeout"},
           Reported(q, what)
    PROVE  /\ outcome' \in [Requests -> {"none", "reply", "timeout", "queued",
                                         "pending"}]
           /\ followup' \in [Requests -> {"none", "reply", "timeout", "failed"}]
<1>1. CASE stage[q] = "suspended" /\ q \in watchers
  <2>1. PICK f \in {what, "failed"} : followup' = [followup EXCEPT ![q] = f]
    BY <1>1 DEF Reported
  <2> QED
    BY <1>1, <2>1 DEF Reported, TypeOK
<1>2. CASE stage[q] = "suspended" /\ q \notin watchers
  BY <1>2 DEF Reported, TypeOK
<1>3. CASE stage[q] # "suspended"
  BY <1>3 DEF Reported, TypeOK
<1> QED
  BY <1>1, <1>2, <1>3

\* A wait that ends leaves the books.
LEMMA EndedAccounted ==
    ASSUME TypeOK, WaitsAccounted, NEW q \in Requests,
           NEW what \in {"reply", "timeout"}, WaitEnds(q, what)
    PROVE  /\ WaitsAccounted'
           /\ stage' \in [Requests -> Stages]
           /\ stage'[q] = "done"
           /\ \A p \in Requests \ {q} : stage'[p] = stage[p]
           /\ pending' \subseteq Requests /\ watchers' \subseteq Requests
<1>1. /\ stage' = [stage EXCEPT ![q] = "done"]
      /\ pending' = pending \ {q} /\ watchers' = watchers \ {q}
  BY DEF WaitEnds
<1>2. /\ stage' \in [Requests -> Stages] /\ stage'[q] = "done"
      /\ \A p \in Requests \ {q} : stage'[p] = stage[p]
  BY <1>1 DEF TypeOK, Stages
<1>3. WaitsAccounted'
  BY <1>1, <1>2 DEF WaitsAccounted, Waiting
<1> QED
  BY <1>1, <1>2, <1>3 DEF TypeOK

LEMMA WaitNext == WaitInv /\ [Next]_vars => WaitInv'
<1> SUFFICES ASSUME WaitInv, [Next]_vars PROVE WaitInv'
  OBVIOUS
<1> USE ReplyTypes DEF WaitInv
<1>1. ASSUME NEW q \in Requests, CallUnresolved(q) \/ Call(q) \/ SendQueued(q)
                                 \/ SendDelivered(q) \/ QuickElapses(q)
      PROVE  WaitInv'
  <2> USE DEF CallUnresolved, Call, SendQueued, SendDelivered, QuickElapses
  <2>1. TypeOK'
    BY <1>1 DEF TypeOK, Stages, Waiting
  <2>2. \A p \in Requests \ {q} : stage'[p] = stage[p]
    BY <1>1 DEF TypeOK
  <2>3. /\ stage[q] \in {"idle", "sending", "quick"}
        /\ UNCHANGED <<generation, answer, inbox, arrived>>
    BY <1>1
  <2>4. WaitsAccounted'
    BY <1>1, <2>2 DEF TypeOK, WaitsAccounted, Waiting
  <2>5. ResolvedIsDone' /\ Surfaced'
    BY <2>2, <2>3 DEF ResolvedIsDone, Surfaced
  <2> QED
    BY <2>1, <2>4, <2>5
<1>2. ASSUME NEW q \in Requests, TotalTimeout(q) PROVE WaitInv'
  <2>1. /\ WaitEnds(q, "timeout")
        /\ UNCHANGED <<generation, quickMode, agentOf, answer, inbox, arrived>>
        /\ missed' \in {missed, missed \cup {q}}
    BY <1>2 DEF TotalTimeout
  <2>2. /\ WaitsAccounted' /\ stage'[q] = "done"
        /\ \A p \in Requests \ {q} : stage'[p] = stage[p]
    BY <2>1, EndedAccounted
  <2>3. Reported(q, "timeout")
    BY <2>1 DEF WaitEnds
  <2>4. TypeOK'
    BY <2>1, <2>3, ReportedTyped, EndedAccounted DEF TypeOK
  <2>5. ResolvedIsDone' /\ Surfaced'
    BY <2>1, <2>2 DEF ResolvedIsDone, Surfaced
  <2> QED
    BY <2>2, <2>4, <2>5
<1>3. ASSUME NEW r \in Replies, ReplyResolves(r) PROVE WaitInv'
  <2> DEFINE q == InReplyTo[r]
  <2>1. /\ WaitEnds(q, "reply") /\ q \in pending /\ r \notin arrived
        /\ arrived' = arrived \cup {r}
        /\ answer' = [answer EXCEPT ![q] = r]
        /\ UNCHANGED <<generation, quickMode, agentOf, inbox, missed>>
    BY <1>3 DEF ReplyResolves, MayArrive, Awaited
  <2>2. q \in Requests
    OBVIOUS
  <2>3. answer[q] = NoReply
    BY <2>1, <2>2 DEF WaitsAccounted, Waiting, ResolvedIsDone
  <2> HIDE DEF q
  <2>4. /\ WaitsAccounted' /\ stage'[q] = "done"
        /\ \A p \in Requests \ {q} : stage'[p] = stage[p]
    BY <2>1, <2>2, EndedAccounted
  <2>5. Reported(q, "reply")
    BY <2>1 DEF WaitEnds
  <2>6. TypeOK'
    BY <2>1, <2>2, <2>5, ReportedTyped, EndedAccounted DEF TypeOK
  <2>7. /\ answer'[q] = r
        /\ \A p \in Requests \ {q} : answer'[p] = answer[p]
    BY <2>1, <2>2 DEF TypeOK
  <2>8. ResolvedIsDone'
    BY <2>4, <2>7 DEF ResolvedIsDone
  <2>9. ASSUME NEW s \in Replies
        PROVE  /\ answer'[InReplyTo[s]] = s => s \in arrived' \ inbox'
               /\ generation' = 0 /\ s \in arrived' =>
                      answer'[InReplyTo[s]] = s \/ s \in inbox'
    <3>1. CASE s = r
      BY <2>1, <2>7, <3>1 DEF Surfaced, q
    <3>2. CASE s # r /\ InReplyTo[s] = q
      BY <2>1, <2>3, <2>7, <3>2 DEF Surfaced
    <3>3. CASE InReplyTo[s] # q
      <4>1. s # r /\ InReplyTo[s] \in Requests \ {q}
        BY <3>3 DEF q
      <4>2. answer'[InReplyTo[s]] = answer[InReplyTo[s]]
        BY <2>7, <4>1
      <4> QED
        BY <2>1, <4>1, <4>2 DEF Surfaced
    <3> QED
      BY <3>1, <3>2, <3>3
  <2> QED
    BY <2>1, <2>4, <2>6, <2>8, <2>9 DEF Surfaced
<1>4. ASSUME NEW r \in Replies, ReplyOrphaned(r) PROVE WaitInv'
  <2>1. /\ r \notin arrived /\ arrived' = arrived \cup {r}
        /\ inbox' = inbox \cup {r}
        /\ UNCHANGED <<generation, quickMode, stage, agentOf, pending,
                       outcome, answer, watchers, followup, missed>>
    BY <1>4 DEF ReplyOrphaned, MayArrive
  <2>2. TypeOK'
    BY <2>1 DEF TypeOK
  <2>3. WaitsAccounted' /\ ResolvedIsDone'
    BY <2>1 DEF WaitsAccounted, ResolvedIsDone
  <2>4. Surfaced'
    BY <2>1 DEF Surfaced
  <2> QED
    BY <2>2, <2>3, <2>4
<1>5. CASE SetTimeouts
  BY <1>5 DEF SetTimeouts, TypeOK, WaitsAccounted, ResolvedIsDone, Surfaced
<1>6. CASE Rebuild
  BY <1>6 DEF Rebuild, TypeOK, WaitsAccounted, ResolvedIsDone, Surfaced
<1>7. CASE UNCHANGED vars
  BY <1>7 DEF vars, TypeOK, WaitsAccounted, ResolvedIsDone, Surfaced
<1> QED
  BY <1>1, <1>2, <1>3, <1>4, <1>5, <1>6, <1>7 DEF Next, CallNext

(* The variables of send-and-wait keep their types (agent.ts:92-118).       *)
THEOREM TypeCorrect == Spec => []TypeOK
<1>1. WaitInv => TypeOK
  BY DEF WaitInv
<1> QED
  BY <1>1, WaitInit, WaitNext, PTL DEF Spec

(* The pending map holds a wait exactly while its call or its background    *)
(* half is open, and the plugin's maps the suspended waits of sessions      *)
(* (agent.ts:157-163, 334-345, plugin.ts:227-230).                          *)
THEOREM WaitsAccountedHolds == Spec => []WaitsAccounted
<1>1. WaitInv => WaitsAccounted
  BY DEF WaitInv
<1> QED
  BY <1>1, WaitInit, WaitNext, PTL DEF Spec

(* Until a rebuild drops the inbox every arrived reply is there or ended    *)
(* the wait it answers, never both (agent.ts:156-168).                      *)
THEOREM EveryReplySurfacesOnceHolds == Spec => []EveryReplySurfacesOnce
<1>1. WaitInv => EveryReplySurfacesOnce
  BY DEF WaitInv, Surfaced, EveryReplySurfacesOnce
<1> QED
  BY <1>1, WaitInit, WaitNext, PTL DEF Spec

-----------------------------------------------------------------------------
(* What the session is told *)

\* While a call goes on nothing was told yet, in the background just "pending";
\* after that DeliveriesAgree.
ToldRight(q) ==
    /\ stage[q] \in {"idle", "sending", "quick", "full"}
           => outcome[q] = "none" /\ followup[q] = "none"
    /\ stage[q] = "suspended"
           => outcome[q] = "pending" /\ followup[q] = "none"
    /\ stage[q] = "unresolved"
           => outcome[q] = "queued" /\ followup[q] = "none"
    /\ followup[q] # "none" => outcome[q] = "pending" /\ stage[q] = "done"
    /\ (outcome[q] = "reply" \/ followup[q] = "reply") => answer[q] # NoReply
    /\ (outcome[q] = "timeout" \/ followup[q] = "timeout")
           => answer[q] = NoReply

ToldInv == \A q \in Requests : ToldRight(q)

(* A wait that ends is reported once, and as what ended it.                 *)
LEMMA EndedToldRight ==
    ASSUME TypeOK, NEW q \in Requests, ToldRight(q), stage[q] \in Waiting,
           NEW what \in {"reply", "timeout"}, WaitEnds(q, what),
           (answer'[q] # NoReply) <=> (what = "reply")
    PROVE  /\ ToldRight(q)'
           /\ \A p \in Requests \ {q} : /\ stage'[p] = stage[p]
                                        /\ outcome'[p] = outcome[p]
                                        /\ followup'[p] = followup[p]
<1>1. stage' = [stage EXCEPT ![q] = "done"] /\ stage'[q] = "done"
  BY DEF WaitEnds, TypeOK
<1>2. CASE stage[q] = "suspended" /\ q \in watchers
  <2>1. PICK f \in {what, "failed"} :
            followup' = [followup EXCEPT ![q] = f] /\ UNCHANGED outcome
    BY <1>2 DEF WaitEnds, Reported
  <2>2. followup'[q] = f /\ outcome'[q] = "pending"
    BY <1>2, <2>1 DEF TypeOK, ToldRight
  <2>3. ToldRight(q)'
    BY <1>1, <2>2 DEF ToldRight
  <2> QED
    BY <1>1, <2>1, <2>3 DEF TypeOK
<1>3. CASE stage[q] = "suspended" /\ q \notin watchers
  <2>1. UNCHANGED <<outcome, followup>>
    BY <1>3 DEF WaitEnds, Reported
  <2> QED
    BY <1>1, <1>3, <2>1 DEF TypeOK, ToldRight
<1>4. CASE stage[q] # "suspended"
  <2>1. outcome' = [outcome EXCEPT ![q] = what] /\ UNCHANGED followup
    BY <1>4 DEF WaitEnds, Reported
  <2>2. outcome'[q] = what /\ followup'[q] = "none"
    BY <1>4, <2>1 DEF TypeOK, ToldRight, Waiting
  <2>3. ToldRight(q)'
    BY <1>1, <2>2 DEF ToldRight
  <2> QED
    BY <1>1, <2>1, <2>3 DEF TypeOK
<1> QED
  BY <1>2, <1>3, <1>4

LEMMA ToldInit == Init => ToldInv
BY DEF Init, ToldInv, ToldRight

LEMMA ToldNext == WaitInv /\ ToldInv /\ [Next]_vars => ToldInv'
<1> SUFFICES ASSUME WaitInv, \A q \in Requests : ToldRight(q), [Next]_vars,
                    NEW p \in Requests
             PROVE  ToldRight(p)'
  BY DEF ToldInv
<1>0. /\ TypeOK
      /\ \A q \in Requests : stage[q] # "done" => answer[q] = NoReply
  BY DEF WaitInv, ResolvedIsDone
<1>a. ASSUME /\ stage'[p] = stage[p] /\ outcome'[p] = outcome[p]
             /\ followup'[p] = followup[p] /\ answer'[p] = answer[p]
      PROVE  ToldRight(p)'
  BY <1>a DEF ToldRight
<1>1. ASSUME NEW q \in Requests, CallUnresolved(q) \/ Call(q) \/ SendQueued(q)
                                 \/ SendDelivered(q) \/ QuickElapses(q)
      PROVE  ToldRight(p)'
  <2> USE DEF CallUnresolved, Call, SendQueued, SendDelivered, QuickElapses
  <2>1. CASE p # q
    BY <1>0, <1>1, <1>a, <2>1 DEF TypeOK
  <2>2. CASE p = q
    BY <1>0, <1>1, <2>2 DEF ToldRight, TypeOK
  <2> QED
    BY <2>1, <2>2
<1>2. ASSUME NEW q \in Requests, TotalTimeout(q) PROVE ToldRight(p)'
  <2>1. WaitEnds(q, "timeout") /\ UNCHANGED answer /\ stage[q] \in Waiting
    BY <1>2 DEF TotalTimeout, Waiting
  <2>2. answer'[q] = NoReply
    BY <1>0, <2>1 DEF Waiting
  <2>3. /\ ToldRight(q)'
        /\ \A x \in Requests \ {q} : /\ stage'[x] = stage[x]
                                     /\ outcome'[x] = outcome[x]
                                     /\ followup'[x] = followup[x]
    BY <1>0, <2>1, <2>2, EndedToldRight
  <2> QED
    BY <1>a, <2>1, <2>3
<1>3. ASSUME NEW r \in Replies, ReplyResolves(r) PROVE ToldRight(p)'
  <2> DEFINE q == InReplyTo[r]
  <2>1. /\ WaitEnds(q, "reply") /\ answer' = [answer EXCEPT ![q] = r]
        /\ q \in pending /\ q \in Requests
    BY <1>3, ReplyTypes DEF ReplyResolves, Awaited
  <2> HIDE DEF q
  <2>2. stage[q] \in Waiting
    BY <2>1 DEF WaitInv, WaitsAccounted
  <2>3. /\ answer'[q] # NoReply
        /\ \A x \in Requests \ {q} : answer'[x] = answer[x]
    BY <1>0, <2>1, ReplyTypes DEF TypeOK
  <2>4. /\ ToldRight(q)'
        /\ \A x \in Requests \ {q} : /\ stage'[x] = stage[x]
                                     /\ outcome'[x] = outcome[x]
                                     /\ followup'[x] = followup[x]
    BY <1>0, <2>1, <2>2, <2>3, EndedToldRight
  <2> QED
    BY <1>a, <2>3, <2>4
<1>4. ASSUME NEW r \in Replies, ReplyOrphaned(r) PROVE ToldRight(p)'
  BY <1>4, <1>a DEF ReplyOrphaned
<1>5. CASE SetTimeouts \/ Rebuild \/ UNCHANGED vars
  BY <1>5, <1>a DEF SetTimeouts, Rebuild, vars
<1> QED
  BY <1>1, <1>2, <1>3, <1>4, <1>5 DEF Next, CallNext

(* The tool's result and what the session is handed later agree with each   *)
(* other and with the wait: something is handed over only after "pending"   *)
(* and at the end of the wait, as a reply only if one resolved it, and as a *)
(* timeout only if none did (plugin.ts:227-246).                            *)
THEOREM DeliveriesAgreeHolds == Spec => []DeliveriesAgree
<1>1. ToldInv => DeliveriesAgree
  BY DEF ToldInv, ToldRight, DeliveriesAgree
<1> QED
  BY <1>1, WaitInit, WaitNext, ToldInit, ToldNext, PTL DEF Spec
=============================================================================
