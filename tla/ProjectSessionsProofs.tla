------------------------- MODULE ProjectSessionsProofs -------------------------
(***************************************************************************)
(* Proofs about project sessions, for any tasks, pairs and sessions.       *)
(***************************************************************************)
EXTENDS ProjectSessions, TLAPS

\* What the chain and the sessions rest on of the type invariant.
Typed ==
    /\ stage \in [Tasks -> Stages]
    /\ before \in [Tasks -> Tasks \cup {NoTask}]
    /\ tail \in [Pairs -> Tasks \cup {NoTask}]
    /\ sessionOf \in [Pairs -> Sessions \cup {NoSession}]
    /\ using \in [Tasks -> Sessions \cup {NoSession}]
    /\ pairOf \in [Sessions -> Pairs \cup {NoPair}]

\* u was chained earlier than t, in the queue of the same pair.  A rank of 0
\* stands for a task that was never chained.
Earlier(u, t, rank) == PairOf[u] = PairOf[t] /\ 0 < rank[u] /\ rank[u] < rank[t]

\* The queue of each pair is a line that ends in its tail ...
Line(rank) ==
    /\ \A t \in Tasks :
          /\ stage[t] \notin {"idle", "done"} => rank[t] > 0
          /\ rank[t] > 0 =>
                /\ stage[t] # "idle"
                /\ before[t] # NoTask => Earlier(before[t], t, rank)
                /\ \A u \in Tasks : Earlier(u, t, rank) =>
                      before[t] # NoTask /\ rank[u] <= rank[before[t]]
                /\ tail[PairOf[t]] # NoTask
                /\ rank[t] <= rank[tail[PairOf[t]]]
    /\ \A p \in Pairs : tail[p] # NoTask =>
          PairOf[tail[p]] = p /\ rank[tail[p]] > 0
    /\ \A t, u \in Tasks :
          PairOf[t] = PairOf[u] /\ rank[t] = rank[u] /\ rank[t] > 0 => t = u

\* ... along which the tasks are worked off.
InOrder(rank) ==
    \A t, u \in Tasks :
        Earlier(u, t, rank) /\ stage[t] # "queued" => stage[u] = "done"

Chain == \E rank \in [Tasks -> Nat] : Line(rank) /\ InOrder(rank)

\* A session belongs to one pair, which stores it or is about to.
Owned ==
    /\ \A t \in Tasks :
          /\ using[t] # NoSession => pairOf[using[t]] = PairOf[t]
          /\ stage[t] \in {"opening", "storing"} =>
                sessionOf[PairOf[t]] = NoSession
          /\ stage[t] = "storing" => using[t] # NoSession
    /\ \A p \in Pairs : sessionOf[p] # NoSession => pairOf[sessionOf[p]] = p
    /\ \A s \in Sessions : pairOf[s] # NoPair =>
          \/ sessionOf[pairOf[s]] = s
          \/ \E t \in Tasks : stage[t] = "storing" /\ using[t] = s

SerialInv == Typed /\ (loaded => Chain /\ Owned)

-----------------------------------------------------------------------------
LEMMA SerialInit == Init => SerialInv
<1> SUFFICES ASSUME Init PROVE SerialInv
  OBVIOUS
<1> USE SessionTypes DEF Init
<1>1. Typed
  BY DEF Typed, Stages
<1>2. Chain
  <2> DEFINE rank == [t \in Tasks |-> 0]
  <2>1. rank \in [Tasks -> Nat]
    OBVIOUS
  <2>2. Line(rank) /\ InOrder(rank)
    BY DEF Line, InOrder, Earlier
  <2> QED
    BY <2>1, <2>2 DEF Chain
<1>3. Owned
  BY DEF Owned
<1> QED
  BY <1>1, <1>2, <1>3 DEF SerialInv

\* Of two tasks of a pair that were chained one is the earlier one.
LEMMA OneWorks ==
    ASSUME Typed, Chain, NEW t \in Tasks, NEW u \in Tasks,
           PairOf[t] = PairOf[u], t # u, Working(t)
    PROVE  /\ ~Working(u)
           /\ before[t] = u => stage[u] = "done"
<1>1. PICK rank \in [Tasks -> Nat] : Line(rank) /\ InOrder(rank)
  BY DEF Chain
<1>2. rank[t] > 0 /\ (Working(u) => rank[u] > 0)
  BY <1>1 DEF Line, Working
<1>3. Earlier(u, t, rank) => stage[u] = "done"
  BY <1>1 DEF InOrder, Working
<1>4. Working(u) => ~Earlier(t, u, rank)
  BY <1>1 DEF InOrder, Working
<1>5. rank[t] # rank[u]
  BY <1>1, <1>2 DEF Line
<1>6. ~Working(u)
  BY <1>2, <1>3, <1>4, <1>5 DEF Earlier, Working
<1>7. before[t] = u => Earlier(u, t, rank)
  BY <1>1, <1>2, SessionTypes DEF Line
<1> QED
  BY <1>3, <1>6, <1>7

\* A task goes on, from the head of its queue if it was queued.
LEMMA Progress ==
    ASSUME Typed, Chain, NEW t \in Tasks,
           NEW to \in {"opening", "storing", "joining", "asked", "done"},
           stage' = [stage EXCEPT ![t] = to], UNCHANGED <<before, tail>>,
           stage[t] # "done", stage[t] = "idle" => to = "done",
           stage[t] = "queued" => Reached(t)
    PROVE  Chain'
<1>1. PICK rank \in [Tasks -> Nat] : Line(rank) /\ InOrder(rank)
  BY DEF Chain
<1>2. /\ stage'[t] = to
      /\ \A u \in Tasks \ {t} : stage'[u] = stage[u]
  BY DEF Typed
<1>3. Line(rank)'
  BY <1>1, <1>2 DEF Line, Earlier
<1>4. ASSUME NEW v \in Tasks, NEW u \in Tasks, Earlier(u, v, rank),
             stage'[v] # "queued"
      PROVE  stage'[u] = "done"
  <2>1. u # v
    BY <1>4 DEF Earlier
  <2>2. CASE v # t
    <3>1. stage[u] = "done"
      BY <1>1, <1>2, <1>4, <2>2 DEF InOrder
    <3> QED
      BY <1>2, <3>1
  <2>3. CASE v = t /\ stage[t] # "queued"
    BY <1>1, <1>2, <1>4, <2>1, <2>3 DEF InOrder
  <2>4. CASE v = t /\ stage[t] = "queued"
    <3> DEFINE b == before[t]
    <3>1. rank[t] > 0
      BY <1>4, <2>4 DEF Earlier
    <3>2. /\ b # NoTask /\ rank[u] <= rank[b]
          /\ Earlier(b, t, rank)
      BY <1>1, <1>4, <2>4, <3>1 DEF Line
    <3>3. b \in Tasks /\ stage[b] = "done"
      BY <2>4, <3>2 DEF Reached, Typed
    <3>4. CASE rank[u] = rank[b]
      <4>1. u = b
        BY <1>1, <1>4, <2>4, <3>2, <3>3, <3>4 DEF Line, Earlier
      <4> QED
        BY <1>2, <2>1, <2>4, <3>3, <4>1
    <3>5. CASE rank[u] # rank[b]
      <4>1. Earlier(u, b, rank)
        BY <1>4, <2>4, <3>2, <3>3, <3>5 DEF Earlier
      <4> QED
        BY <1>1, <1>2, <2>1, <2>4, <3>3, <4>1 DEF InOrder
    <3> QED
      BY <3>4, <3>5
  <2> QED
    BY <2>2, <2>3, <2>4
<1>5. InOrder(rank)'
  BY <1>4 DEF InOrder, Earlier
<1> QED
  BY <1>1, <1>3, <1>5 DEF Chain

\* A request joins its queue behind the tail.
LEMMA Joins ==
    ASSUME Typed, Chain, NEW t \in Tasks, Enqueue(t)
    PROVE  Chain'
<1>1. PICK rank \in [Tasks -> Nat] : Line(rank) /\ InOrder(rank)
  BY DEF Chain
<1> DEFINE last == tail[PairOf[t]]
           place == IF last = NoTask THEN 1 ELSE rank[last] + 1
<1>2. /\ stage[t] = "idle" /\ stage'[t] = "queued" /\ rank[t] = 0
      /\ \A u \in Tasks \ {t} : stage'[u] = stage[u]
  <2>1. /\ stage[t] = "idle" /\ stage'[t] = "queued"
        /\ \A u \in Tasks \ {t} : stage'[u] = stage[u]
    BY DEF Typed, Enqueue, Goes
  <2>2. ~(rank[t] > 0)
    BY <1>1, <2>1 DEF Line
  <2> QED
    BY <2>1, <2>2
<1>3. /\ PairOf[t] \in Pairs
      /\ before'[t] = last /\ tail'[PairOf[t]] = t
      /\ \A u \in Tasks \ {t} : before'[u] = before[u]
      /\ \A p \in Pairs \ {PairOf[t]} : tail'[p] = tail[p]
  BY SessionTypes DEF Typed, Enqueue
<1>4. last # NoTask => last \in Tasks /\ last # t /\ PairOf[last] = PairOf[t]
                       /\ rank[last] > 0
  BY <1>1, <1>2, <1>3 DEF Typed, Line
<1>5. PICK next \in [Tasks -> Nat] :
          /\ next[t] = place /\ place > 0
          /\ \A u \in Tasks \ {t} : next[u] = rank[u]
  <2>1. place \in Nat /\ place > 0
    BY <1>4
  <2> HIDE DEF place
  <2>2. [rank EXCEPT ![t] = place] \in [Tasks -> Nat]
    BY <2>1
  <2> QED
    BY <2>1, <2>2
\* The newcomer is the last of its pair.
<1>6. \A u \in Tasks \ {t} : PairOf[u] = PairOf[t] /\ rank[u] > 0 =>
          last # NoTask /\ rank[u] <= rank[last] /\ rank[u] < place
  <2> SUFFICES ASSUME NEW u \in Tasks \ {t}, PairOf[u] = PairOf[t], rank[u] > 0
               PROVE  last # NoTask /\ rank[u] <= rank[last] /\ rank[u] < place
    OBVIOUS
  <2>1. last # NoTask /\ rank[u] <= rank[last]
    BY <1>1 DEF Line
  <2> QED
    BY <1>4, <2>1
<1> HIDE DEF place
<1>7. \A u, v \in Tasks \ {t} : Earlier(u, v, next) <=> Earlier(u, v, rank)
  BY <1>5 DEF Earlier
<1>8. \A v \in Tasks : ~Earlier(t, v, next)
  BY <1>5, <1>6 DEF Earlier
<1>9. InOrder(next)'
  <2> SUFFICES ASSUME NEW v \in Tasks, NEW u \in Tasks, Earlier(u, v, next),
                      stage'[v] # "queued"
               PROVE  stage'[u] = "done"
    BY DEF InOrder, Earlier
  <2>1. u # t /\ v # t
    BY <1>2, <1>8
  <2>2. stage[u] = "done"
    BY <1>1, <1>2, <1>7, <2>1 DEF InOrder
  <2> QED
    BY <1>2, <2>1, <2>2
<1>10. Line(next)'
  <2>1. ASSUME NEW v \in Tasks
        PROVE  /\ stage'[v] \notin {"idle", "done"} => next[v] > 0
               /\ next[v] > 0 => stage'[v] # "idle"
    BY <1>1, <1>2, <1>5 DEF Line
  <2>2. ASSUME NEW v \in Tasks, next[v] > 0
        PROVE  /\ before'[v] # NoTask => Earlier(before'[v], v, next)
               /\ \A u \in Tasks : Earlier(u, v, next) =>
                     before'[v] # NoTask /\ next[u] <= next[before'[v]]
    <3>1. CASE v = t
      <4>1. last # NoTask => Earlier(last, t, next)
        BY <1>4, <1>5, <1>6 DEF Earlier
      <4>2. \A u \in Tasks : Earlier(u, t, next) =>
                last # NoTask /\ next[u] <= next[last]
        BY <1>4, <1>5, <1>6, <1>8 DEF Earlier
      <4> QED
        BY <1>3, <3>1, <4>1, <4>2
    <3>2. CASE v # t
      <4>1. /\ before[v] # NoTask => Earlier(before[v], v, rank)
            /\ \A u \in Tasks : Earlier(u, v, rank) =>
                  before[v] # NoTask /\ rank[u] <= rank[before[v]]
        BY <1>1, <1>5, <2>2, <3>2 DEF Line
      <4>2. before'[v] = before[v]
            /\ (before[v] # NoTask => before[v] \in Tasks \ {t})
        BY <1>2, <1>3, <3>2, <4>1 DEF Typed, Earlier
      <4> QED
        BY <1>5, <1>7, <1>8, <3>2, <4>1, <4>2
    <3> QED
      BY <3>1, <3>2
  <2>3. ASSUME NEW v \in Tasks, next[v] > 0
        PROVE  /\ tail'[PairOf[v]] # NoTask
               /\ next[v] <= next[tail'[PairOf[v]]]
    <3>1. CASE PairOf[v] = PairOf[t]
      BY <1>3, <1>5, <1>6, <2>3, <3>1, SessionTypes
    <3>2. CASE PairOf[v] # PairOf[t]
      <4>1. /\ tail[PairOf[v]] # NoTask /\ rank[v] <= rank[tail[PairOf[v]]]
            /\ PairOf[v] \in Pairs
        BY <1>1, <1>5, <2>3, <3>2, SessionTypes DEF Line
      <4>2. tail[PairOf[v]] \in Tasks \ {t}
        BY <1>1, <3>2, <4>1 DEF Line, Typed
      <4> QED
        BY <1>3, <1>5, <3>2, <4>1, <4>2
    <3> QED
      BY <3>1, <3>2
  <2>4. ASSUME NEW p \in Pairs, tail'[p] # NoTask
        PROVE  PairOf[tail'[p]] = p /\ next[tail'[p]] > 0
    <3>1. CASE p = PairOf[t]
      BY <1>3, <1>5, <3>1
    <3>2. CASE p # PairOf[t]
      <4>1. /\ tail'[p] = tail[p] /\ tail[p] \in Tasks
            /\ PairOf[tail[p]] = p /\ rank[tail[p]] > 0
        BY <1>1, <1>3, <2>4, <3>2 DEF Line, Typed
      <4> QED
        BY <1>5, <3>2, <4>1
    <3> QED
      BY <3>1, <3>2
  <2>5. ASSUME NEW v \in Tasks, NEW u \in Tasks, PairOf[v] = PairOf[u],
               next[v] = next[u], next[v] > 0
        PROVE  v = u
    BY <1>1, <1>5, <1>6, <2>5 DEF Line
  <2> QED
    BY <2>1, <2>2, <2>3, <2>4, <2>5 DEF Line, Earlier
<1> QED
  BY <1>5, <1>9, <1>10 DEF Chain

\* The sessions stay where they are while a task does not touch them.
LEMMA OwnedKept ==
    ASSUME Typed, Owned, NEW t \in Tasks, NEW to \in Stages \ {"opening", "storing"},
           stage' = [stage EXCEPT ![t] = to], stage[t] # "storing",
           UNCHANGED <<sessionOf, pairOf>>,
           using' = [using EXCEPT ![t] = using'[t]],
           using'[t] \in {using[t], NoSession, sessionOf[PairOf[t]]}
    PROVE  Owned'
<1>1. /\ stage'[t] = to /\ PairOf[t] \in Pairs
      /\ \A u \in Tasks \ {t} : stage'[u] = stage[u] /\ using'[u] = using[u]
  BY SessionTypes DEF Typed
<1>2. using'[t] # NoSession => pairOf[using'[t]] = PairOf[t]
  BY <1>1 DEF Owned
<1>3. \A u \in Tasks : stage[u] = "storing" =>
          stage'[u] = "storing" /\ using'[u] = using[u]
  BY <1>1
<1> QED
  BY <1>1, <1>2, <1>3 DEF Owned

LEMMA SerialNext == SerialInv /\ [Next]_vars => SerialInv'
<1> SUFFICES ASSUME SerialInv, [Next]_vars PROVE SerialInv'
  OBVIOUS
<1> USE SessionTypes DEF SerialInv
<1>1. ASSUME NEW t \in Tasks, Enqueue(t) PROVE SerialInv'
  <2>1. Goes(t, "idle", "queued") /\ UNCHANGED <<sessionOf, using, pairOf, loaded>>
    BY <1>1 DEF Enqueue
  <2>2. Typed'
    BY <1>1 DEF Enqueue, Goes, Typed, Stages
  <2>3. loaded => Chain'
    BY <1>1, Joins
  <2>4. using' = [using EXCEPT ![t] = using'[t]]
    BY <2>1 DEF Typed
  <2>5. loaded => Owned'
    BY <2>1, <2>4, OwnedKept DEF Goes, Stages
  <2> QED
    BY <2>1, <2>2, <2>3, <2>5
<1>2. ASSUME NEW t \in Tasks, Unavailable(t) PROVE SerialInv'
  <2>1. /\ Goes(t, "idle", "done")
        /\ UNCHANGED <<before, tail, sessionOf, using, pairOf, loaded>>
    BY <1>2 DEF Unavailable
  <2>2. Typed'
    BY <2>1 DEF Goes, Typed, Stages
  <2>3. loaded => Chain'
    BY <2>1, Progress DEF Goes
  <2>4. using' = [using EXCEPT ![t] = using'[t]]
    BY <2>1 DEF Typed
  <2>5. loaded => Owned'
    BY <2>1, <2>4, OwnedKept DEF Goes, Stages
  <2> QED
    BY <2>1, <2>2, <2>3, <2>5
<1>3. ASSUME NEW t \in Tasks, RunBegins(t) PROVE SerialInv'
  <2> DEFINE s == sessionOf[PairOf[t]]
  <2>1. /\ Reached(t) /\ stage[t] = "queued"
        /\ UNCHANGED <<before, tail, sessionOf, pairOf, loaded>>
    BY <1>3 DEF RunBegins, Goes
  <2>2. CASE s # NoSession
    <3>1. /\ stage' = [stage EXCEPT ![t] = "joining"]
          /\ using' = [using EXCEPT ![t] = s]
      BY <1>3, <2>2 DEF RunBegins, Goes
    <3>2. Typed'
      BY <2>1, <3>1 DEF Typed, Stages
    <3>3. loaded => Chain'
      BY <2>1, <3>1, Progress
    <3>4. using'[t] = s /\ using' = [using EXCEPT ![t] = using'[t]]
      BY <3>1 DEF Typed
    <3>5. loaded => Owned'
      BY <2>1, <3>1, <3>4, OwnedKept DEF Stages
    <3> QED
      BY <2>1, <3>2, <3>3, <3>5
  <2>3. CASE s = NoSession
    <3>1. /\ stage' = [stage EXCEPT ![t] = "opening"]
          /\ UNCHANGED using
      BY <1>3, <2>3 DEF RunBegins, Goes
    <3>2. Typed'
      BY <2>1, <3>1 DEF Typed, Stages
    <3>3. loaded => Chain'
      BY <2>1, <3>1, Progress
    <3>4. /\ stage'[t] = "opening"
          /\ \A u \in Tasks \ {t} : stage'[u] = stage[u]
      BY <3>1 DEF Typed
    <3>5. loaded => Owned'
      BY <2>1, <2>3, <3>1, <3>4 DEF Owned
    <3> QED
      BY <2>1, <3>2, <3>3, <3>5
  <2> QED
    BY <2>2, <2>3
<1>4. ASSUME NEW t \in Tasks, TaskFails(t) \/ Answered(t) PROVE SerialInv'
  <2>1. /\ stage[t] \in {"opening", "joining", "asked"}
        /\ stage' = [stage EXCEPT ![t] = "done"]
        /\ using' = [using EXCEPT ![t] = NoSession]
        /\ UNCHANGED <<before, tail, sessionOf, pairOf, loaded>>
    BY <1>4 DEF TaskFails, Answered, Goes, LocalsGone
  <2>2. Typed'
    BY <2>1 DEF Typed, Stages
  <2>3. loaded => Chain'
    BY <2>1, Progress
  <2>4. using'[t] = NoSession /\ using' = [using EXCEPT ![t] = using'[t]]
    BY <2>1 DEF Typed
  <2>5. loaded => Owned'
    BY <2>1, <2>4, OwnedKept DEF Stages
  <2> QED
    BY <2>1, <2>2, <2>3, <2>5
<1>5. ASSUME NEW t \in Tasks, NEW s \in Sessions, SessionCreated(t, s)
      PROVE  SerialInv'
  <2>1. /\ pairOf[s] = NoPair /\ stage[t] = "opening"
        /\ stage' = [stage EXCEPT ![t] = "storing"]
        /\ pairOf' = [pairOf EXCEPT ![s] = PairOf[t]]
        /\ using' = [using EXCEPT ![t] = s]
        /\ UNCHANGED <<before, tail, sessionOf, loaded>>
    BY <1>5 DEF SessionCreated, Goes
  <2>2. Typed'
    BY <2>1 DEF Typed, Stages
  <2>3. loaded => Chain'
    BY <2>1, Progress
  <2>4. /\ stage'[t] = "storing" /\ using'[t] = s
        /\ \A u \in Tasks \ {t} : stage'[u] = stage[u] /\ using'[u] = using[u]
        /\ pairOf'[s] = PairOf[t] /\ PairOf[t] \in Pairs
        /\ \A r \in Sessions \ {s} : pairOf'[r] = pairOf[r]
    BY <2>1 DEF Typed
  <2>5. ASSUME loaded PROVE Owned'
    <3>1. \A u \in Tasks : /\ PairOf[u] \in Pairs
                           /\ using[u] = NoSession \/ using[u] \in Sessions
      BY DEF Typed
    <3>2. ASSUME NEW u \in Tasks
          PROVE  /\ using'[u] # NoSession => pairOf'[using'[u]] = PairOf[u]
                 /\ stage'[u] \in {"opening", "storing"} =>
                        sessionOf[PairOf[u]] = NoSession
                 /\ stage'[u] = "storing" => using'[u] # NoSession
      BY <2>1, <2>4, <2>5, <3>1 DEF Owned
    <3>3. ASSUME NEW p \in Pairs, sessionOf[p] # NoSession
          PROVE  pairOf'[sessionOf[p]] = p
      BY <2>1, <2>4, <2>5, <3>3 DEF Owned, Typed
    <3>4. ASSUME NEW r \in Sessions, pairOf'[r] # NoPair
          PROVE  \/ sessionOf[pairOf'[r]] = r
                 \/ \E u \in Tasks : stage'[u] = "storing" /\ using'[u] = r
      <4>1. CASE r = s
        BY <2>4, <4>1
      <4>2. CASE r # s
        <5>1. \/ sessionOf[pairOf[r]] = r
              \/ \E u \in Tasks : stage[u] = "storing" /\ using[u] = r
          BY <2>4, <2>5, <3>4, <4>2 DEF Owned
        <5> QED
          BY <2>1, <2>4, <4>2, <5>1
      <4> QED
        BY <4>1, <4>2
    <3> QED
      BY <2>1, <3>2, <3>3, <3>4 DEF Owned
  <2> QED
    BY <2>1, <2>2, <2>3, <2>5
<1>6. ASSUME NEW t \in Tasks, SessionStored(t) PROVE SerialInv'
  <2>1. /\ stage[t] = "storing"
        /\ stage' = [stage EXCEPT ![t] = "joining"]
        /\ sessionOf' = [sessionOf EXCEPT ![PairOf[t]] = using[t]]
        /\ UNCHANGED <<before, tail, using, pairOf, loaded>>
    BY <1>6 DEF SessionStored, Goes
  <2>2. Typed'
    BY <2>1 DEF Typed, Stages
  <2>3. loaded => Chain'
    BY <2>1, Progress
  <2>4. /\ stage'[t] = "joining" /\ PairOf[t] \in Pairs
        /\ \A u \in Tasks \ {t} : stage'[u] = stage[u]
        /\ sessionOf'[PairOf[t]] = using[t]
        /\ \A p \in Pairs \ {PairOf[t]} : sessionOf'[p] = sessionOf[p]
    BY <2>1 DEF Typed
  <2>5. ASSUME loaded PROVE Owned'
    <3>1. using[t] # NoSession /\ pairOf[using[t]] = PairOf[t]
          /\ sessionOf[PairOf[t]] = NoSession
      BY <2>1, <2>5 DEF Owned
    <3>2. ASSUME NEW u \in Tasks, stage'[u] \in {"opening", "storing"}
          PROVE  sessionOf'[PairOf[u]] = NoSession
      <4>1. u # t /\ stage[u] = stage'[u] /\ PairOf[u] \in Pairs
        BY <2>4, <3>2
      <4>2. PairOf[u] # PairOf[t]
        BY <2>1, <2>5, <3>2, <4>1, OneWorks DEF Working
      <4> QED
        BY <2>4, <2>5, <3>2, <4>1, <4>2 DEF Owned
    <3>3. ASSUME NEW r \in Sessions, pairOf[r] # NoPair
          PROVE  \/ sessionOf'[pairOf[r]] = r
                 \/ \E u \in Tasks : stage'[u] = "storing" /\ using[u] = r
      <4>1. pairOf[r] \in Pairs
        BY <3>3 DEF Typed
      <4>2. CASE sessionOf[pairOf[r]] = r
        BY <2>4, <3>1, <4>1, <4>2
      <4>3. CASE sessionOf[pairOf[r]] # r
        <5>1. PICK u \in Tasks : stage[u] = "storing" /\ using[u] = r
          BY <2>5, <3>3, <4>3 DEF Owned
        <5>2. CASE u = t
          BY <2>4, <3>1, <5>1, <5>2
        <5>3. CASE u # t
          BY <2>4, <5>1, <5>3
        <5> QED
          BY <5>2, <5>3
      <4> QED
        BY <4>2, <4>3
    <3>4. ASSUME NEW p \in Pairs, sessionOf'[p] # NoSession
          PROVE  pairOf[sessionOf'[p]] = p
      BY <2>4, <2>5, <3>1, <3>4 DEF Owned
    <3>5. ASSUME NEW u \in Tasks
          PROVE  /\ using[u] # NoSession => pairOf[using[u]] = PairOf[u]
                 /\ stage'[u] = "storing" => using[u] # NoSession
      BY <2>4, <2>5 DEF Owned
    <3> QED
      BY <2>1, <3>2, <3>3, <3>4, <3>5 DEF Owned
  <2> QED
    BY <2>1, <2>2, <2>3, <2>5
<1>7. ASSUME NEW t \in Tasks, Ask(t) PROVE SerialInv'
  <2>1. /\ Goes(t, "joining", "asked")
        /\ UNCHANGED <<before, tail, sessionOf, using, pairOf, loaded>>
    BY <1>7 DEF Ask
  <2>2. Typed'
    BY <2>1 DEF Goes, Typed, Stages
  <2>3. loaded => Chain'
    BY <2>1, Progress DEF Goes
  <2>4. using' = [using EXCEPT ![t] = using'[t]]
    BY <2>1 DEF Typed
  <2>5. loaded => Owned'
    BY <2>1, <2>4, OwnedKept DEF Goes, Stages
  <2> QED
    BY <2>1, <2>2, <2>3, <2>5
<1>8. ASSUME NEW s \in Sessions, Turn(s) \/ HumanWrites(s) PROVE SerialInv'
  <2>1. UNCHANGED <<stage, before, tail, sessionOf, using, pairOf, loaded>>
    BY <1>8 DEF Turn, HumanWrites
  <2> QED
    BY <2>1 DEF Typed, Chain, Line, InOrder, Owned
<1>9. CASE Unload
  BY <1>9 DEF Unload, Typed
<1>10. CASE UNCHANGED vars
  <2>1. UNCHANGED <<stage, before, tail, sessionOf, using, pairOf, loaded>>
    BY <1>10 DEF vars
  <2> QED
    BY <2>1 DEF Typed, Chain, Line, InOrder, Owned
<1> QED
  BY <1>1, <1>2, <1>3, <1>4, <1>5, <1>6, <1>7, <1>8, <1>9, <1>10
     DEF Next, TaskNext

(* "One conversation per (project, colleague) pair" (plugin.ts:389): in a   *)
(* loaded plugin the tasks of a pair work one at a time, in the order of    *)
(* its queue, each in a session of the pair, which has at most one          *)
(* (plugin.ts:149, 417-418, 429-437).                                       *)
THEOREM PairIsSerialHolds == Spec => []PairIsSerial
<1>1. SerialInv => PairIsSerial
  <2> SUFFICES ASSUME SerialInv, loaded PROVE PairIsSerial
    BY DEF PairIsSerial
  <2>1. Typed /\ Chain /\ Owned
    BY DEF SerialInv
  <2>2. ASSUME NEW s \in Sessions, NEW r \in Sessions,
               pairOf[s] = pairOf[r], pairOf[s] # NoPair
        PROVE  s = r
    <3> DEFINE p == pairOf[s]
    <3>1. ASSUME NEW x \in Sessions, pairOf[x] = p
          PROVE  \/ sessionOf[p] = x
                 \/ \E t \in Tasks : /\ stage[t] = "storing" /\ using[t] = x
                                     /\ PairOf[t] = p
                                     /\ sessionOf[p] = NoSession
      BY <2>1, <2>2, <3>1, SessionTypes DEF Owned
    <3>2. CASE sessionOf[p] # NoSession
      BY <2>2, <3>1, <3>2
    <3>3. CASE sessionOf[p] = NoSession
      <4>1. PICK t \in Tasks : stage[t] = "storing" /\ using[t] = s /\ PairOf[t] = p
        BY <3>1, <3>3, SessionTypes
      <4>2. PICK u \in Tasks : stage[u] = "storing" /\ using[u] = r /\ PairOf[u] = p
        BY <2>2, <3>1, <3>3, SessionTypes
      <4>3. t = u
        BY <2>1, <4>1, <4>2, OneWorks DEF Working
      <4> QED
        BY <4>1, <4>2, <4>3
    <3> QED
      BY <3>2, <3>3
  <2>3. \A t \in Tasks : using[t] # NoSession => pairOf[using[t]] = PairOf[t]
    BY <2>1 DEF Owned
  <2>4. ASSUME NEW t \in Tasks, NEW u \in Tasks, PairOf[t] = PairOf[u],
               t # u, Working(t)
        PROVE  ~Working(u) /\ (before[t] = u => stage[u] = "done")
    BY <2>1, <2>4, OneWorks
  <2> QED
    BY <2>2, <2>3, <2>4 DEF PairIsSerial
<1> QED
  BY <1>1, SerialInit, SerialNext, PTL DEF Spec

-----------------------------------------------------------------------------
(* A session that is in no map when the node unloads is in the hands of the *)
(* task that created it: unloading disposes every other one                 *)
(* (plugin.ts:164-170, 486-501).                                            *)
THEOREM UnloadDisposesStoredHolds == Spec => UnloadDisposesStored
<1> DEFINE Disposes ==
      loaded /\ ~loaded' =>
          \A s \in Sessions : pairOf[s] # NoPair =>
              \/ s \in disposed'
              \/ \E t \in Tasks : stage[t] = "storing" /\ using[t] = s
<1>1. SerialInv /\ [Next]_vars => Disposes
  <2> SUFFICES ASSUME SerialInv, [Next]_vars, loaded, ~loaded',
                      NEW s \in Sessions, pairOf[s] # NoPair,
                      ~\E t \in Tasks : stage[t] = "storing" /\ using[t] = s
               PROVE  s \in disposed'
    OBVIOUS
  <2>1. pairOf[s] \in Pairs /\ sessionOf[pairOf[s]] = s
    BY DEF SerialInv, Typed, Owned
  <2>2. Unload
    BY DEF Next, TaskNext, vars, Enqueue, Unavailable, RunBegins, TaskFails,
           SessionCreated, SessionStored, Ask, Answered, Turn, HumanWrites
  <2> QED
    BY <2>1, <2>2, SessionTypes DEF Unload
<1> HIDE DEF Disposes
<1>2. Spec => [][Disposes]_vars
  BY <1>1, SerialInit, SerialNext, PTL DEF Spec
<1> QED
  BY <1>2 DEF Disposes, UnloadDisposesStored

-----------------------------------------------------------------------------
(* Answers                                                                  *)

Written ==
    /\ first \in [Tasks -> Nat \ {0}]
    /\ answer \in [Tasks -> Writers \cup {NoTask}]
    /\ todo \in [Sessions -> Seq(Writers)]
    /\ answers \in [Sessions -> Seq(Writers)]

\* A task that has a session has it until it is done.
Placed ==
    \A t \in Tasks :
        stage[t] \in {"storing", "joining", "asked"} => using[t] \in Sessions

\* Since t asked, nobody but t and a human writes into its session, and
\* nobody else is answered.
OnlyOwn(t) ==
    LET s == using[t]
    IN  /\ \A i \in first[t] .. Len(answers[s]) : answers[s][i] \in {t, Human}
        /\ \A j \in 1 .. Len(todo[s]) : todo[s][j] \in {t, Human}

Asking ==
    \A t \in Tasks : /\ stage[t] = "asked" => OnlyOwn(t)
                     /\ answer[t] \in {t, Human, NoTask}

AnswerInv == SerialInv /\ Written /\ Placed /\ (loaded => Asking)

LEMMA PlacedNext == Typed /\ Placed /\ [Next]_vars => Placed'
<1> SUFFICES ASSUME Typed, Placed, [Next]_vars PROVE Placed'
  OBVIOUS
<1> USE DEF Placed
<1>1. ASSUME UNCHANGED <<stage, using>> PROVE Placed'
  BY <1>1
<1>2. ASSUME NEW t \in Tasks, NEW to \in Stages,
             stage' = [stage EXCEPT ![t] = to],
             using' = [using EXCEPT ![t] = using'[t]],
             to \in {"storing", "joining", "asked"} => using'[t] \in Sessions
      PROVE  Placed'
  <2>1. \A u \in Tasks \ {t} : stage'[u] = stage[u] /\ using'[u] = using[u]
    BY <1>2 DEF Typed
  <2>2. stage'[t] = to
    BY <1>2 DEF Typed
  <2> QED
    BY <1>2, <2>1, <2>2
<1>3. ASSUME NEW t \in Tasks, TaskNext(t) PROVE Placed'
  <2>0. /\ PairOf[t] \in Pairs
        /\ using = [using EXCEPT ![t] = using[t]]
        /\ \A s : [using EXCEPT ![t] = s][t] = s
    BY SessionTypes DEF Typed
  <2>1. CASE Enqueue(t) \/ Unavailable(t)
    BY <1>2, <2>0, <2>1 DEF Enqueue, Unavailable, Goes, Stages
  <2>2. CASE RunBegins(t)
    <3>1. CASE sessionOf[PairOf[t]] = NoSession
      BY <1>2, <2>0, <2>2, <3>1 DEF RunBegins, Goes, Stages
    <3>2. CASE sessionOf[PairOf[t]] # NoSession
      <4>1. sessionOf[PairOf[t]] \in Sessions
        BY <2>0, <3>2 DEF Typed
      <4> QED
        BY <1>2, <2>0, <2>2, <3>2, <4>1 DEF RunBegins, Goes, Stages
    <3> QED
      BY <3>1, <3>2
  <2>3. CASE TaskFails(t) \/ Answered(t)
    BY <1>2, <2>0, <2>3 DEF TaskFails, Answered, Goes, LocalsGone, Stages
  <2>4. CASE \E s \in Sessions : SessionCreated(t, s)
    <3>1. PICK s \in Sessions : /\ stage' = [stage EXCEPT ![t] = "storing"]
                                /\ using' = [using EXCEPT ![t] = s]
      BY <2>4 DEF SessionCreated, Goes
    <3>2. using' = [using EXCEPT ![t] = using'[t]] /\ using'[t] \in Sessions
      BY <2>0, <3>1
    <3> QED
      BY <1>2, <3>1, <3>2 DEF Stages
  <2>5. CASE SessionStored(t) \/ Ask(t)
    BY <1>2, <2>0, <2>5 DEF SessionStored, Ask, Goes, Stages
  <2> QED
    BY <1>3, <2>1, <2>2, <2>3, <2>4, <2>5 DEF TaskNext
<1> QED
  BY <1>1, <1>3 DEF Next, vars, Turn, HumanWrites, Unload

LEMMA WrittenNext == Written /\ Placed /\ [Next]_vars => Written'
<1> SUFFICES ASSUME Written, Placed, [Next]_vars PROVE Written'
  OBVIOUS
<1> USE DEF Written
<1>1. ASSUME NEW t \in Tasks, TaskNext(t) PROVE Written'
  <2>1. ASSUME UNCHANGED <<first, answer, todo, answers>> PROVE Written'
    BY <2>1
  <2>2. CASE TaskFails(t)
    BY <2>2 DEF TaskFails, LocalsGone
  <2>3. CASE Ask(t)
    <3>1. using[t] \in Sessions
      BY <2>3 DEF Ask, Goes, Placed
    <3>2. /\ Append(todo[using[t]], t) \in Seq(Writers)
          /\ Len(answers[using[t]]) + 1 \in Nat \ {0}
      BY <3>1 DEF Writers
    <3>3. /\ first' = [first EXCEPT ![t] = Len(answers[using[t]]) + 1]
          /\ todo' = [todo EXCEPT ![using[t]] = Append(todo[using[t]], t)]
          /\ UNCHANGED <<answer, answers>>
      BY <2>3 DEF Ask
    <3> QED
      BY <3>2, <3>3
  <2>4. CASE Answered(t)
    <3>1. /\ answer' = [answer EXCEPT ![t] = Collected(t)]
          /\ first' = [first EXCEPT ![t] = 1]
          /\ UNCHANGED <<todo, answers>>
      BY <2>4 DEF Answered, LocalsGone
    <3>2. Collected(t) \in Writers \cup {NoTask}
      <4> DEFINE A == answers[using[t]]
      <4>1. A \in Seq(Writers)
        BY <2>4 DEF Answered, Goes, Placed
      <4>2. CASE Len(A) = 0
        BY <4>1, <4>2 DEF Collected
      <4>3. CASE Len(A) # 0
        <5>1. Len(A) \in 1 .. Len(A)
          BY <4>1, <4>3
        <5>2. A[Len(A)] \in Writers
          BY <4>1, <5>1
        <5> QED
          BY <5>2 DEF Collected
      <4> QED
        BY <4>2, <4>3
    <3> QED
      BY <3>1, <3>2
  <2> QED
    BY <1>1, <2>1, <2>2, <2>3, <2>4
       DEF TaskNext, Enqueue, Unavailable, RunBegins, SessionCreated,
           SessionStored
<1>2. ASSUME NEW s \in Sessions, Turn(s) PROVE Written'
  <2>1. /\ todo[s] \in Seq(Writers) /\ todo[s] # <<>>
        /\ answers[s] \in Seq(Writers)
    BY <1>2 DEF Turn
  <2>2. /\ Tail(todo[s]) \in Seq(Writers)
        /\ Append(answers[s], Head(todo[s])) \in Seq(Writers)
    BY <2>1
  <2> QED
    BY <1>2, <2>2 DEF Turn
<1>3. ASSUME NEW s \in Sessions, HumanWrites(s) PROVE Written'
  <2>1. Append(todo[s], Human) \in Seq(Writers)
    BY DEF Writers
  <2> QED
    BY <1>3, <2>1 DEF HumanWrites
<1>4. CASE Unload
  BY <1>4 DEF Unload
<1>5. CASE UNCHANGED vars
  BY <1>5 DEF vars
<1> QED
  BY <1>1, <1>2, <1>3, <1>4, <1>5 DEF Next

\* No other task asks in the session of a task that works.
LEMMA OneAsks ==
    ASSUME SerialInv, loaded, NEW t \in Tasks, NEW u \in Tasks, t # u,
           using[t] # NoSession, using[u] = using[t], Working(t)
    PROVE  ~Working(u)
<1>1. Typed /\ Chain /\ Owned
  BY DEF SerialInv
<1>2. PairOf[t] = PairOf[u]
  BY <1>1 DEF Owned
<1> QED
  BY <1>1, <1>2, OneWorks

LEMMA AskingNext == AnswerInv /\ [Next]_vars => (loaded' => Asking')
<1> SUFFICES ASSUME AnswerInv, [Next]_vars, loaded' PROVE Asking'
  OBVIOUS
<1>0. /\ SerialInv /\ Typed /\ Written /\ Placed /\ loaded /\ Asking
  <2>1. loaded
    BY DEF Next, TaskNext, vars, Enqueue, Unavailable, RunBegins, TaskFails,
           SessionCreated, SessionStored, Ask, Answered, Turn, HumanWrites,
           Unload
  <2> QED
    BY <2>1 DEF AnswerInv, SerialInv
\* A step of one task leaves the others and their sessions alone.
<1>1. ASSUME NEW t \in Tasks, NEW to \in Stages \ {"asked"},
             stage' = [stage EXCEPT ![t] = to],
             using' = [using EXCEPT ![t] = using'[t]],
             first' = [first EXCEPT ![t] = first'[t]],
             answer' = [answer EXCEPT ![t] = answer'[t]],
             answer'[t] \in {t, Human, NoTask},
             UNCHANGED <<todo, answers>>
      PROVE  Asking'
  <2>1. /\ stage'[t] = to
        /\ \A u \in Tasks \ {t} :
              /\ stage'[u] = stage[u] /\ using'[u] = using[u]
              /\ first'[u] = first[u] /\ answer'[u] = answer[u]
    BY <1>0, <1>1 DEF Typed, Written
  <2> QED
    BY <1>0, <1>1, <2>1 DEF Asking, OnlyOwn
<1>t. ASSUME NEW t \in Tasks
      PROVE  /\ using = [using EXCEPT ![t] = using[t]]
             /\ first = [first EXCEPT ![t] = first[t]]
             /\ answer = [answer EXCEPT ![t] = answer[t]]
             /\ \A s : [using EXCEPT ![t] = s][t] = s
             /\ \A n : [first EXCEPT ![t] = n][t] = n
             /\ \A w : [answer EXCEPT ![t] = w][t] = w
             /\ answer[t] \in {t, Human, NoTask}
  BY <1>0 DEF Typed, Written, Asking
<1>2. ASSUME NEW t \in Tasks,
             \/ Enqueue(t) \/ Unavailable(t) \/ RunBegins(t) \/ TaskFails(t)
             \/ \E s \in Sessions : SessionCreated(t, s)
             \/ SessionStored(t)
      PROVE  Asking'
  <2>1. /\ \E to \in Stages \ {"asked"} : stage' = [stage EXCEPT ![t] = to]
        /\ \/ using' = using
           \/ \E s : using' = [using EXCEPT ![t] = s]
        /\ first' = first \/ first' = [first EXCEPT ![t] = 1]
        /\ UNCHANGED <<answer, todo, answers>>
    BY <1>2 DEF Enqueue, Unavailable, RunBegins, TaskFails, SessionCreated,
                SessionStored, Goes, LocalsGone, Stages
  <2>2. /\ using' = [using EXCEPT ![t] = using'[t]]
        /\ first' = [first EXCEPT ![t] = first'[t]]
    BY <1>t, <2>1
  <2> QED
    BY <1>1, <1>t, <2>1, <2>2
<1>3. ASSUME NEW t \in Tasks, Answered(t) PROVE Asking'
  <2> DEFINE A == answers[using[t]]
  <2>1. /\ stage[t] = "asked"
        /\ stage' = [stage EXCEPT ![t] = "done"]
        /\ answer' = [answer EXCEPT ![t] = Collected(t)]
        /\ using' = [using EXCEPT ![t] = NoSession]
        /\ first' = [first EXCEPT ![t] = 1]
        /\ UNCHANGED <<todo, answers>>
    BY <1>3 DEF Answered, Goes, LocalsGone
  <2>2. Collected(t) \in {t, Human, NoTask}
    <3>1. OnlyOwn(t) /\ using[t] \in Sessions
      BY <1>0, <2>1 DEF Asking, Placed
    <3>2. Len(A) \in Nat /\ first[t] \in Nat \ {0}
      BY <1>0, <3>1 DEF Written
    <3>3. CASE Len(A) < first[t]
      BY <3>3 DEF Collected
    <3>4. CASE ~(Len(A) < first[t])
      <4>1. Len(A) \in first[t] .. Len(A)
        BY <3>2, <3>4
      <4> QED
        BY <3>1, <3>4, <4>1 DEF Collected, OnlyOwn
    <3> QED
      BY <3>3, <3>4
  <2>3. /\ using' = [using EXCEPT ![t] = using'[t]]
        /\ first' = [first EXCEPT ![t] = first'[t]]
        /\ answer' = [answer EXCEPT ![t] = answer'[t]]
        /\ answer'[t] = Collected(t)
    BY <1>t, <2>1
  <2>4. "done" \in Stages \ {"asked"}
    BY DEF Stages
  <2> QED
    BY <1>1, <2>1, <2>2, <2>3, <2>4
<1>4. ASSUME NEW t \in Tasks, Ask(t) PROVE Asking'
  <2> DEFINE s == using[t]
  <2>1. /\ stage[t] = "joining" /\ todo[s] = <<>>
        /\ stage' = [stage EXCEPT ![t] = "asked"]
        /\ first' = [first EXCEPT ![t] = Len(answers[s]) + 1]
        /\ todo' = [todo EXCEPT ![s] = Append(todo[s], t)]
        /\ UNCHANGED <<using, answer, answers>>
    BY <1>4 DEF Ask, Goes, Idle
  <2>2. s \in Sessions
    BY <1>0, <2>1 DEF Placed
  <2>3. /\ first'[t] = Len(answers[s]) + 1 /\ Len(answers[s]) \in Nat
        /\ todo'[s] = <<t>>
        /\ \A u \in Tasks \ {t} : stage'[u] = stage[u] /\ first'[u] = first[u]
        /\ \A r \in Sessions \ {s} : todo'[r] = todo[r]
    BY <1>0, <2>1, <2>2 DEF Typed, Written
  <2>4. OnlyOwn(t)'
    BY <2>1, <2>3 DEF OnlyOwn
  <2>5. ASSUME NEW u \in Tasks \ {t}, stage[u] = "asked"
        PROVE  OnlyOwn(u)'
    <3>1. using[u] \in Sessions /\ OnlyOwn(u)
      BY <1>0, <2>5 DEF Placed, Asking
    <3>2. using[u] # s
      BY <1>0, <2>1, <2>2, <2>5, OneAsks, SessionTypes DEF Working
    <3> QED
      BY <2>1, <2>3, <3>1, <3>2 DEF OnlyOwn
  <2> QED
    BY <1>0, <2>1, <2>3, <2>4, <2>5 DEF Asking
<1>5. ASSUME NEW s \in Sessions, Turn(s) PROVE Asking'
  <2> DEFINE h == Head(todo[s])
  <2>1. /\ todo[s] \in Seq(Writers) /\ todo[s] # <<>>
        /\ answers[s] \in Seq(Writers)
        /\ todo' = [todo EXCEPT ![s] = Tail(todo[s])]
        /\ \/ answers' = [answers EXCEPT ![s] = Append(answers[s], h)]
           \/ answers' = answers
        /\ UNCHANGED <<stage, using, first, answer>>
    BY <1>0, <1>5 DEF Turn, Written
  <2>2. ASSUME NEW t \in Tasks, stage[t] = "asked" PROVE OnlyOwn(t)'
    <3>1. /\ using[t] \in Sessions /\ first[t] \in Nat \ {0}
          /\ \A i \in first[t] .. Len(answers[using[t]]) :
                 answers[using[t]][i] \in {t, Human}
          /\ \A j \in 1 .. Len(todo[using[t]]) :
                 todo[using[t]][j] \in {t, Human}
      BY <1>0, <2>2 DEF Placed, Asking, Written, OnlyOwn
    <3>2. CASE using[t] # s
      <4>1. /\ todo'[using[t]] = todo[using[t]]
            /\ answers'[using[t]] = answers[using[t]]
        BY <1>0, <2>1, <3>1, <3>2 DEF Written
      <4> QED
        BY <2>1, <3>1, <4>1 DEF OnlyOwn
    <3>3. CASE using[t] = s
      <4>1. h \in {t, Human}
        <5>1. 1 \in 1 .. Len(todo[s]) /\ h = todo[s][1]
          BY <2>1
        <5> QED
          BY <3>1, <3>3, <5>1
      <4>2. \A j \in 1 .. Len(Tail(todo[s])) : Tail(todo[s])[j] \in {t, Human}
        <5>1. /\ Len(Tail(todo[s])) = Len(todo[s]) - 1 /\ Len(todo[s]) \in Nat
              /\ \A j \in 1 .. Len(Tail(todo[s])) :
                     Tail(todo[s])[j] = todo[s][j + 1]
          BY <2>1
        <5>2. \A j \in 1 .. Len(Tail(todo[s])) : j + 1 \in 1 .. Len(todo[s])
          BY <5>1
        <5> QED
          BY <3>1, <3>3, <5>1, <5>2
      <4>3. \A i \in first[t] .. Len(Append(answers[s], h)) :
                Append(answers[s], h)[i] \in {t, Human}
        <5> HIDE DEF h
        <5>0. h \in Writers
          BY <4>1 DEF Writers
        <5>1. /\ Len(Append(answers[s], h)) = Len(answers[s]) + 1
              /\ Len(answers[s]) \in Nat
              /\ \A i \in 1 .. Len(answers[s]) :
                     Append(answers[s], h)[i] = answers[s][i]
              /\ Append(answers[s], h)[Len(answers[s]) + 1] = h
          BY <2>1, <5>0
        <5>2. ASSUME NEW i \in first[t] .. Len(Append(answers[s], h))
              PROVE  \/ i = Len(answers[s]) + 1
                     \/ i \in 1 .. Len(answers[s])
                        /\ i \in first[t] .. Len(answers[s])
          BY <3>1, <5>1, <5>2
        <5> QED
          BY <3>1, <3>3, <4>1, <5>1, <5>2
      <4>4. /\ todo'[s] = Tail(todo[s])
            /\ \/ answers'[s] = Append(answers[s], h)
               \/ answers'[s] = answers[s]
        BY <1>0, <2>1 DEF Written
      <4> HIDE DEF h
      <4> QED
        BY <2>1, <3>1, <3>3, <4>2, <4>3, <4>4 DEF OnlyOwn
    <3> QED
      BY <3>2, <3>3
  <2> QED
    BY <1>0, <2>1, <2>2 DEF Asking
<1>6. ASSUME NEW s \in Sessions, HumanWrites(s) PROVE Asking'
  <2>1. /\ todo[s] \in Seq(Writers) /\ Human \in Writers
        /\ todo' = [todo EXCEPT ![s] = Append(todo[s], Human)]
        /\ UNCHANGED <<stage, using, first, answer, answers>>
    BY <1>0, <1>6 DEF HumanWrites, Written, Writers
  <2>2. ASSUME NEW t \in Tasks, stage[t] = "asked" PROVE OnlyOwn(t)'
    <3>1. using[t] \in Sessions /\ OnlyOwn(t)
      BY <1>0, <2>2 DEF Placed, Asking
    <3>2. CASE using[t] # s
      BY <1>0, <2>1, <3>1, <3>2 DEF OnlyOwn, Written
    <3>3. CASE using[t] = s
      <4>1. /\ todo'[s] = Append(todo[s], Human)
            /\ \A j \in 1 .. Len(Append(todo[s], Human)) :
                   \/ j \in 1 .. Len(todo[s])
                      /\ Append(todo[s], Human)[j] = todo[s][j]
                   \/ Append(todo[s], Human)[j] = Human
        BY <1>0, <2>1 DEF Written
      <4> QED
        BY <2>1, <3>1, <3>3, <4>1 DEF OnlyOwn
    <3> QED
      BY <3>2, <3>3
  <2> QED
    BY <1>0, <2>1, <2>2 DEF Asking
<1>7. CASE Unload
  BY <1>7 DEF Unload
<1>8. CASE UNCHANGED vars
  BY <1>0, <1>8 DEF vars, Asking, OnlyOwn
<1> QED
  BY <1>2, <1>3, <1>4, <1>5, <1>6, <1>7, <1>8 DEF Next, TaskNext

(* What a task returns is the answer to its own request, or to a human who  *)
(* wrote after it, never what another task asked: also after that one       *)
(* failed with its message unanswered (plugin.ts:399-415).                  *)
THEOREM AnswersOwnRequestHolds == Spec => []AnswersOwnRequest
<1>1. Init => AnswerInv
  BY SerialInit DEF Init, AnswerInv, Written, Placed, Asking
<1>2. AnswerInv /\ [Next]_vars => AnswerInv'
  BY SerialNext, WrittenNext, PlacedNext, AskingNext DEF AnswerInv, SerialInv
<1>3. AnswerInv => AnswersOwnRequest
  BY DEF AnswerInv, Asking, AnswersOwnRequest
<1> QED
  BY <1>1, <1>2, <1>3, PTL DEF Spec
=============================================================================
