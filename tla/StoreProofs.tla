----------------------------- MODULE StoreProofs -----------------------------
(***************************************************************************)
(* Proofs about the outbound store, alone and among the peers and events   *)
(* of Exchange, for any messages, peers, flushes, restarts and any         *)
(* MaxSendAttempts.                                                        *)
(***************************************************************************)
EXTENDS Exchange, TLAPS

\* The entries of a queue never claim more attempts than were refused.
Counted(q, fails) == \A i \in 1 .. Len(q) : q[i].attempts <= fails[q[i].msg]

AttemptsCounted ==
    /\ Counted(outbox, failures)
    /\ \A f \in Flushers : Counted(remaining[f], failures)
    /\ \A f \in Flushers :
           Running(f) => current[f].attempts <= failures[current[f].msg]

LetterInv == TypeOK /\ AttemptsCounted /\ NoEarlyDeadLetter

-----------------------------------------------------------------------------
(* An element of an appended queue is an old one or the new one.            *)
LEMMA AppendElement ==
    ASSUME NEW S, NEW q \in Seq(S), NEW x \in S
    PROVE  /\ Append(q, x) \in Seq(S)
           /\ Len(Append(q, x)) = Len(q) + 1
           /\ \A i \in 1 .. Len(q) : Append(q, x)[i] = q[i]
           /\ Append(q, x)[Len(q) + 1] = x
           /\ Len(q) \in Nat
OBVIOUS

(* The entry a flush keeps has the type of an entry, because it is kept     *)
(* only while another attempt is allowed (store.ts:81-87).                  *)
LEMMA KeptType ==
    ASSUME TypeOK, NEW f \in Flushers, NEW ok \in BOOLEAN, Running(f)
    PROVE  /\ Kept(f, ok) \in Seq(Entry)
           /\ current[f] \in Entry
           /\ current[f].msg \in Messages
           /\ current[f].attempts \in 0 .. MaxSendAttempts - 1
<1>1. current[f] \in Entry /\ remaining[f] \in Seq(Entry)
  BY DEF TypeOK
<1>2. MaxSendAttempts \in Nat \ {0}
  BY SendAttemptsPositive
<1>3. current[f].msg \in Messages
      /\ current[f].attempts \in 0 .. MaxSendAttempts - 1
  BY <1>1 DEF Entry
<1>4. CASE ok \/ IsDead(current[f])
  BY <1>1, <1>3, <1>4 DEF Kept, Attempted
<1>5. CASE ~(ok \/ IsDead(current[f]))
  <2>1. current[f].attempts + 1 \in 0 .. MaxSendAttempts - 1
    BY <1>2, <1>3, <1>5 DEF IsDead
  <2>2. [current[f] EXCEPT !.attempts = current[f].attempts + 1] \in Entry
    BY <1>1, <2>1 DEF Entry
  <2> QED
    BY <1>1, <1>3, <1>5, <2>2, AppendElement DEF Kept, Attempted
<1> QED
  BY <1>4, <1>5

LEMMA TypeInit == Init => TypeOK
<1> SUFFICES ASSUME Init PROVE TypeOK
  OBVIOUS
<1>1. <<>> \in Seq(Entry)
  OBVIOUS
<1>2. outbox \in Seq(Entry) /\ remaining \in [Flushers -> Seq(Entry)]
  BY <1>1 DEF Init
<1>3. failures \in [Messages -> 0 .. MaxSendAttempts]
  BY SendAttemptsPositive DEF Init
<1> QED
  BY <1>2, <1>3 DEF Init, TypeOK, Running

LEMMA TypeNext == TypeOK /\ [Next]_vars => TypeOK'
<1> SUFFICES ASSUME TypeOK, [Next]_vars PROVE TypeOK'
  OBVIOUS
<1> USE SendAttemptsPositive
<1>1. ASSUME NEW m \in Messages, SendStart(m) PROVE TypeOK'
  BY <1>1 DEF SendStart, TypeOK, Running
<1>2. ASSUME NEW m \in Messages, SendDelivered(m) PROVE TypeOK'
  BY <1>2 DEF SendDelivered, TypeOK, Running
<1>3. ASSUME NEW m \in Messages, SendFailed(m) PROVE TypeOK'
  <2>1. [msg |-> m, attempts |-> 0] \in Entry
    BY DEF Entry
  <2>2. outbox' \in Seq(Entry)
    BY <1>3, <2>1, AppendElement DEF SendFailed, Queued, TypeOK
  <2> QED
    BY <1>3, <2>2 DEF SendFailed, TypeOK, Running
<1>4. ASSUME NEW f \in Flushers, FlushStart(f) PROVE TypeOK'
  <2>1. outbox[1] \in Entry
    BY <1>4 DEF FlushStart, TypeOK
  <2> QED
    BY <1>4, <2>1 DEF FlushStart, TypeOK, Running
<1>5. ASSUME NEW f \in Flushers, NEW ok \in BOOLEAN, AttemptSettles(f, ok)
      PROVE  /\ delivered' \subseteq Messages
             /\ failures' \in [Messages -> 0 .. MaxSendAttempts]
             /\ deadLetter' \in [Messages -> Nat]
             /\ stage' = stage /\ overlapped' = overlapped
  <2>1. current[f].msg \in Messages
    BY <1>5, KeptType DEF AttemptSettles
  <2>2. delivered' \subseteq Messages
    BY <1>5, <2>1 DEF AttemptSettles, TypeOK
  <2>3. failures' \in [Messages -> 0 .. MaxSendAttempts]
    BY <1>5, <2>1 DEF AttemptSettles, TypeOK
  <2>4. deadLetter' \in [Messages -> Nat]
    BY <1>5, <2>1 DEF AttemptSettles, TypeOK
  <2> QED
    BY <1>5, <2>2, <2>3, <2>4 DEF AttemptSettles
<1>6. ASSUME NEW f \in Flushers, NEW ok \in BOOLEAN, FlushNext(f, ok)
      PROVE TypeOK'
  <2>1. Running(f) /\ AttemptSettles(f, ok)
    BY <1>6 DEF FlushNext, AttemptSettles
  <2>2. Kept(f, ok) \in Seq(Entry)
    BY <2>1, KeptType
  <2>3. outbox[cursor[f] + 1] \in Entry
    BY <1>6, <2>1 DEF FlushNext, TypeOK, Running
  <2>4. /\ outbox' \in Seq(Entry)
        /\ cursor' \in [Flushers -> Nat]
        /\ remaining' \in [Flushers -> Seq(Entry)]
        /\ current' \in [Flushers -> Entry \cup {NoEntry}]
    BY <1>6, <2>2, <2>3 DEF FlushNext, TypeOK
  <2>5. \A g \in Flushers : cursor'[g] # 0 => current'[g] \in Entry
    BY <1>6, <2>3 DEF FlushNext, TypeOK, Running
  <2> QED
    BY <1>5, <2>1, <2>4, <2>5 DEF TypeOK, Running
<1>7. ASSUME NEW f \in Flushers, NEW ok \in BOOLEAN, FlushEnd(f, ok)
      PROVE TypeOK'
  <2>1. Running(f) /\ AttemptSettles(f, ok)
    BY <1>7 DEF FlushEnd, AttemptSettles
  <2>2. Kept(f, ok) \in Seq(Entry)
    BY <2>1, KeptType
  <2>3. /\ outbox' \in Seq(Entry)
        /\ cursor' \in [Flushers -> Nat]
        /\ remaining' \in [Flushers -> Seq(Entry)]
        /\ current' \in [Flushers -> Entry \cup {NoEntry}]
    BY <1>7, <2>2 DEF FlushEnd, TypeOK
  <2>4. \A g \in Flushers : cursor'[g] # 0 => current'[g] \in Entry
    BY <1>7 DEF FlushEnd, TypeOK, Running
  <2> QED
    BY <1>5, <2>1, <2>3, <2>4 DEF TypeOK, Running
<1>8. ASSUME UNCHANGED vars PROVE TypeOK'
  BY <1>8 DEF vars, TypeOK, Running
<1> QED
  BY <1>1, <1>2, <1>3, <1>4, <1>6, <1>7, <1>8 DEF Next

(* The variables of the store keep their types.                             *)
THEOREM TypeCorrect == Spec => []TypeOK
BY TypeInit, TypeNext, PTL DEF Spec

-----------------------------------------------------------------------------
(* Refused attempts are never forgotten.                                    *)
LEMMA FailuresGrow ==
    ASSUME TypeOK, NEW f \in Flushers, NEW ok \in BOOLEAN,
           AttemptSettles(f, ok)
    PROVE  /\ \A m \in Messages : failures'[m] \in Nat
           /\ \A m \in Messages : failures[m] \in Nat
           /\ \A m \in Messages : failures'[m] >= failures[m]
           /\ ~ok => failures'[current[f].msg] >= failures[current[f].msg] + 1
                      \/ failures'[current[f].msg] = MaxSendAttempts
<1>1. current[f].msg \in Messages
  BY KeptType DEF AttemptSettles
<1> QED
  BY <1>1, SendAttemptsPositive DEF AttemptSettles, TypeOK

(* A queue counted before the attempt is counted after it.                  *)
LEMMA StaysCounted ==
    ASSUME TypeOK, NEW f \in Flushers, NEW ok \in BOOLEAN,
           AttemptSettles(f, ok), NEW q \in Seq(Entry), Counted(q, failures)
    PROVE  Counted(q, failures')
<1>1. SUFFICES ASSUME NEW i \in 1 .. Len(q)
               PROVE  q[i].attempts <= failures'[q[i].msg]
  BY DEF Counted
<1>2. q[i] \in Entry
  OBVIOUS
<1>3. q[i].msg \in Messages /\ q[i].attempts \in 0 .. MaxSendAttempts - 1
  BY <1>2 DEF Entry
<1>4. q[i].attempts <= failures[q[i].msg]
  BY DEF Counted
<1> QED
  BY <1>3, <1>4, FailuresGrow, SendAttemptsPositive

(* The kept entry claims one attempt more than before, and one more was     *)
(* refused.                                                                 *)
LEMMA KeptCounted ==
    ASSUME TypeOK, AttemptsCounted, NEW f \in Flushers, NEW ok \in BOOLEAN,
           AttemptSettles(f, ok)
    PROVE  Counted(Kept(f, ok), failures')
<1> DEFINE m == current[f].msg
           a == current[f].attempts
           kept == [current[f] EXCEPT !.attempts = a + 1]
<1>1. /\ Running(f)
      /\ remaining[f] \in Seq(Entry)
      /\ current[f] \in Entry
      /\ m \in Messages
      /\ a \in 0 .. MaxSendAttempts - 1
  BY KeptType DEF AttemptSettles, TypeOK
<1>2. Counted(remaining[f], failures')
  BY <1>1, StaysCounted DEF AttemptsCounted
<1>3. CASE ok \/ IsDead(current[f])
  BY <1>2, <1>3 DEF Kept, Attempted
<1>4. CASE ~(ok \/ IsDead(current[f]))
  <2>1. a + 1 < MaxSendAttempts /\ a + 1 \in 0 .. MaxSendAttempts - 1
    BY <1>1, <1>4, SendAttemptsPositive DEF IsDead
  <2>2. kept \in Entry /\ kept.attempts = a + 1 /\ kept.msg = m
    BY <1>1, <2>1 DEF Entry
  <2>3. a <= failures[m]
    BY <1>1 DEF AttemptsCounted
  <2>4. a + 1 <= failures'[m]
    BY <1>1, <1>4, <2>1, <2>3, FailuresGrow, SendAttemptsPositive
  <2>5. Kept(f, ok) = Append(remaining[f], kept)
    BY <1>4 DEF Kept, Attempted
  <2> HIDE DEF kept
  <2> QED
    BY <1>1, <1>2, <2>2, <2>4, <2>5, AppendElement DEF Counted
<1> QED
  BY <1>3, <1>4

(* A dead-lettered message has used up its attempts.                        *)
LEMMA DeadLetterCounted ==
    ASSUME LetterInv, NEW f \in Flushers, NEW ok \in BOOLEAN,
           AttemptSettles(f, ok)
    PROVE  NoEarlyDeadLetter'
<1> DEFINE m == current[f].msg
           a == current[f].attempts
<1>1. /\ Running(f)
      /\ m \in Messages
      /\ a \in 0 .. MaxSendAttempts - 1
      /\ a <= failures[m]
  BY KeptType DEF LetterInv, AttemptSettles, AttemptsCounted
<1>2. failures \in [Messages -> 0 .. MaxSendAttempts]
      /\ deadLetter \in [Messages -> Nat]
  BY DEF LetterInv, TypeOK
<1>3. CASE ok \/ ~IsDead(current[f])
  <2>1. deadLetter' = deadLetter
    BY <1>3 DEF AttemptSettles
  <2>2. \A x \in Messages : failures[x] = MaxSendAttempts
                               => failures'[x] = MaxSendAttempts
    BY <1>1, <1>2 DEF AttemptSettles
  <2> QED
    BY <2>1, <2>2 DEF LetterInv, NoEarlyDeadLetter
<1>4. CASE ~ok /\ IsDead(current[f])
  <2>1. failures'[m] = MaxSendAttempts
    BY <1>1, <1>2, <1>4, SendAttemptsPositive DEF IsDead, AttemptSettles
  <2>2. \A x \in Messages \ {m} : /\ failures'[x] = failures[x]
                                    /\ deadLetter'[x] = deadLetter[x]
    BY <1>1, <1>2, <1>4 DEF AttemptSettles
  <2> QED
    BY <2>1, <2>2 DEF LetterInv, NoEarlyDeadLetter
<1> QED
  BY <1>3, <1>4

LEMMA LetterNext == LetterInv /\ [Next]_vars => LetterInv'
<1> SUFFICES ASSUME LetterInv, [Next]_vars PROVE LetterInv'
  OBVIOUS
<1> USE DEF LetterInv
<1>t. TypeOK'
  BY TypeNext
<1>1. ASSUME UNCHANGED <<outbox, deadLetter, cursor, current, remaining,
                         failures>>
      PROVE  AttemptsCounted' /\ NoEarlyDeadLetter'
  BY <1>1 DEF AttemptsCounted, Counted, Running, NoEarlyDeadLetter
<1>2. ASSUME NEW m \in Messages, SendFailed(m)
      PROVE  AttemptsCounted' /\ NoEarlyDeadLetter'
  <2> DEFINE entry == [msg |-> m, attempts |-> 0]
  <2>1. entry \in Entry /\ entry.msg = m /\ entry.attempts = 0
    BY SendAttemptsPositive DEF Entry
  <2>2. outbox' = Append(outbox, entry) /\ UNCHANGED failures
    BY <1>2 DEF SendFailed, Queued
  <2>3. failures[m] \in Nat /\ outbox \in Seq(Entry)
    BY DEF TypeOK
  <2>4. Counted(outbox', failures')
    <3> HIDE DEF entry
    <3> QED
      BY <2>1, <2>2, <2>3, AppendElement DEF AttemptsCounted, Counted
  <2> QED
    BY <1>2, <2>4 DEF SendFailed, AttemptsCounted, Counted, Running,
                      NoEarlyDeadLetter
<1>3. ASSUME NEW f \in Flushers, FlushStart(f)
      PROVE  AttemptsCounted' /\ NoEarlyDeadLetter'
  <2>1. Len(outbox) \in Nat /\ Len(outbox) >= 1
    BY <1>3 DEF FlushStart, TypeOK
  <2>2. outbox[1].attempts <= failures[outbox[1].msg]
    BY <2>1 DEF AttemptsCounted, Counted
  <2>3. /\ UNCHANGED <<outbox, failures, deadLetter, remaining>>
        /\ \A g \in Flushers \ {f} : /\ current'[g] = current[g]
                                      /\ cursor'[g] = cursor[g]
        /\ current'[f] = outbox[1]
    BY <1>3 DEF FlushStart, TypeOK
  <2> QED
    BY <2>2, <2>3 DEF AttemptsCounted, Counted, Running, NoEarlyDeadLetter
<1>4. ASSUME NEW f \in Flushers, NEW ok \in BOOLEAN, AttemptSettles(f, ok)
      PROVE  /\ NoEarlyDeadLetter'
             /\ Counted(Kept(f, ok), failures')
             /\ Counted(outbox, failures')
             /\ \A g \in Flushers : Counted(remaining[g], failures')
             /\ \A g \in Flushers : Running(g) =>
                    current[g].attempts <= failures'[current[g].msg]
  <2>1. NoEarlyDeadLetter'
    BY <1>4, DeadLetterCounted
  <2>2. Counted(Kept(f, ok), failures')
    BY <1>4, KeptCounted
  <2>3. Counted(outbox, failures')
    BY <1>4, StaysCounted DEF TypeOK, AttemptsCounted
  <2>4. \A g \in Flushers : Counted(remaining[g], failures')
    BY <1>4, StaysCounted DEF TypeOK, AttemptsCounted
  <2>5. ASSUME NEW g \in Flushers, Running(g)
        PROVE  current[g].attempts <= failures'[current[g].msg]
    <3>1. /\ current[g].msg \in Messages
          /\ current[g].attempts \in 0 .. MaxSendAttempts - 1
      BY <2>5, KeptType
    <3> QED
      BY <1>4, <2>5, <3>1, FailuresGrow, SendAttemptsPositive
         DEF AttemptsCounted
  <2> QED
    BY <2>1, <2>2, <2>3, <2>4, <2>5
<1>5. ASSUME NEW f \in Flushers, NEW ok \in BOOLEAN, FlushNext(f, ok)
      PROVE  AttemptsCounted' /\ NoEarlyDeadLetter'
  <2>1. AttemptSettles(f, ok)
    BY <1>5 DEF FlushNext
  <2>2. cursor[f] + 1 \in 1 .. Len(outbox)
    BY <1>5, <2>1 DEF FlushNext, TypeOK
  <2>3. outbox[cursor[f] + 1].attempts
            <= failures'[outbox[cursor[f] + 1].msg]
    BY <1>4, <2>1, <2>2 DEF Counted
  <2>4. /\ outbox' = outbox
        /\ remaining'[f] = Kept(f, ok)
        /\ current'[f] = outbox[cursor[f] + 1]
        /\ \A g \in Flushers \ {f} : /\ current'[g] = current[g]
                                      /\ cursor'[g] = cursor[g]
                                      /\ remaining'[g] = remaining[g]
    BY <1>5 DEF FlushNext, TypeOK
  <2> QED
    BY <1>4, <2>1, <2>3, <2>4 DEF AttemptsCounted, Running
<1>6. ASSUME NEW f \in Flushers, NEW ok \in BOOLEAN, FlushEnd(f, ok)
      PROVE  AttemptsCounted' /\ NoEarlyDeadLetter'
  <2>1. AttemptSettles(f, ok)
    BY <1>6 DEF FlushEnd
  <2>2. /\ outbox' = Kept(f, ok)
        /\ remaining'[f] = <<>>
        /\ cursor'[f] = 0
        /\ \A g \in Flushers \ {f} : /\ current'[g] = current[g]
                                      /\ cursor'[g] = cursor[g]
                                      /\ remaining'[g] = remaining[g]
    BY <1>6 DEF FlushEnd, TypeOK
  <2>3. Counted(<<>>, failures')
    BY DEF Counted
  <2> QED
    BY <1>4, <2>1, <2>2, <2>3 DEF AttemptsCounted, Running
<1> QED
  BY <1>t, <1>1, <1>2, <1>3, <1>5, <1>6
     DEF Next, vars, SendStart, SendDelivered

(* However flushes overlap, whatever MaxSendAttempts is: a message reaches  *)
(* the dead letter only after that many refused attempts of its own         *)
(* (store.ts:81-84).                                                        *)
THEOREM NoEarlyDeadLetterHolds == Spec => []NoEarlyDeadLetter
<1>1. Init => LetterInv
  BY TypeInit DEF Init, LetterInv, AttemptsCounted, Counted, Running,
                  NoEarlyDeadLetter
<1>2. LetterInv => NoEarlyDeadLetter
  BY DEF LetterInv
<1> QED
  BY <1>1, <1>2, LetterNext, PTL DEF Spec

-----------------------------------------------------------------------------
(* What a flush that runs alone relies on: its iterator stands on the entry *)
(* it sends, and what it has passed is resolved or kept.                    *)
FlushOwnsQueue ==
    /\ \A f, g \in Flushers : Running(f) /\ Running(g) => f = g
    /\ \A f \in Flushers :
           Running(f) =>
               /\ cursor[f] \in 1 .. Len(outbox)
               /\ current[f] = outbox[cursor[f]]
               /\ \A i \in 1 .. cursor[f] - 1 :
                      \/ Resolved(outbox[i].msg)
                      \/ Holds(remaining[f], outbox[i].msg)

\* Resolved after the step.
NowResolved(m) == m \in delivered' \/ deadLetter'[m] > 0

AloneInv == TypeOK /\ (~overlapped => FlushOwnsQueue /\ NothingLost)

(* After an attempt what was resolved stays so, and the attempted message   *)
(* is resolved or kept.                                                     *)
LEMMA AttemptResolves ==
    ASSUME TypeOK, NEW f \in Flushers, NEW ok \in BOOLEAN,
           AttemptSettles(f, ok)
    PROVE  /\ \A m \in Messages : Resolved(m) => NowResolved(m)
           /\ \A m \in Messages : Holds(remaining[f], m)
                                    => Holds(Kept(f, ok), m)
           /\ \/ NowResolved(current[f].msg)
              \/ Holds(Kept(f, ok), current[f].msg)
<1> DEFINE m == current[f].msg
           kept == [current[f] EXCEPT !.attempts = current[f].attempts + 1]
<1>1. /\ Running(f)
      /\ remaining[f] \in Seq(Entry)
      /\ current[f] \in Entry
      /\ m \in Messages
      /\ current[f].attempts \in 0 .. MaxSendAttempts - 1
      /\ deadLetter \in [Messages -> Nat]
  BY KeptType DEF AttemptSettles, TypeOK
<1>2. \A x \in Messages : Resolved(x) => NowResolved(x)
  BY <1>1 DEF AttemptSettles, Resolved, NowResolved
<1>3. CASE ok \/ IsDead(current[f])
  <2>1. NowResolved(m)
    BY <1>1, <1>3 DEF AttemptSettles, Resolved, NowResolved
  <2> QED
    BY <1>2, <1>3, <2>1 DEF Kept, Attempted
<1>4. CASE ~(ok \/ IsDead(current[f]))
  <2>1. current[f].attempts + 1 \in 0 .. MaxSendAttempts - 1
    BY <1>1, <1>4, SendAttemptsPositive DEF IsDead
  <2>2. kept \in Entry /\ kept.msg = m
    BY <1>1, <2>1 DEF Entry
  <2>3. Kept(f, ok) = Append(remaining[f], kept)
    BY <1>4 DEF Kept, Attempted
  <2> HIDE DEF kept
  <2>4. /\ Len(Append(remaining[f], kept)) = Len(remaining[f]) + 1
        /\ \A i \in 1 .. Len(remaining[f]) :
               Append(remaining[f], kept)[i] = remaining[f][i]
        /\ Append(remaining[f], kept)[Len(remaining[f]) + 1] = kept
        /\ Len(remaining[f]) \in Nat
    BY <1>1, <2>2
  <2>5. Holds(Kept(f, ok), m)
    BY <2>2, <2>3, <2>4 DEF Holds
  <2>6. \A x \in Messages : Holds(remaining[f], x) => Holds(Kept(f, ok), x)
    BY <2>3, <2>4 DEF Holds
  <2> QED
    BY <1>2, <2>5, <2>6
<1> QED
  BY <1>3, <1>4

LEMMA AloneNext == AloneInv /\ [Next]_vars => AloneInv'
<1> SUFFICES ASSUME AloneInv, [Next]_vars, ~overlapped'
             PROVE  FlushOwnsQueue' /\ NothingLost'
  BY TypeNext DEF AloneInv
<1> USE DEF AloneInv
<1>1. ASSUME UNCHANGED <<outbox, deadLetter, cursor, current, remaining,
                         overlapped>>,
             delivered \subseteq delivered',
             \A m \in Messages : stage'[m] = "queued" => stage[m] = "queued"
      PROVE  FlushOwnsQueue' /\ NothingLost'
  <2>1. /\ \A m \in Messages : Resolved(m) => NowResolved(m)
        /\ \A f \in Flushers : Running(f)' = Running(f)
    BY <1>1 DEF Resolved, NowResolved, Running
  <2>2. NothingLost'
    BY <1>1, <2>1 DEF NothingLost, Holds, Resolved, NowResolved
  <2>3. \A i \in 1 .. Len(outbox) : outbox[i].msg \in Messages
    <3>1. \A i \in 1 .. Len(outbox) : outbox[i] \in Entry
      BY DEF TypeOK
    <3> QED
      BY <3>1 DEF Entry
  <2>4. ASSUME NEW f \in Flushers, Running(f)
        PROVE  \A i \in 1 .. cursor[f] - 1 :
                  \/ NowResolved(outbox[i].msg)
                  \/ Holds(remaining[f], outbox[i].msg)
    BY <1>1, <2>1, <2>3, <2>4 DEF FlushOwnsQueue, TypeOK
  <2> QED
    BY <1>1, <2>1, <2>2, <2>4 DEF FlushOwnsQueue, Resolved, NowResolved, Holds
<1>2. ASSUME NEW m \in Messages, SendFailed(m)
      PROVE  FlushOwnsQueue' /\ NothingLost'
  <2> DEFINE entry == [msg |-> m, attempts |-> 0]
  <2>1. entry \in Entry /\ entry.msg = m
    BY SendAttemptsPositive DEF Entry
  <2>2. /\ outbox' = Append(outbox, entry)
        /\ UNCHANGED <<cursor, current, remaining, delivered, deadLetter,
                       overlapped>>
        /\ \A x \in Messages \ {m} : stage'[x] = stage[x]
    BY <1>2 DEF SendFailed, Queued, TypeOK
  <2> HIDE DEF entry
  <2>3. /\ Len(outbox') = Len(outbox) + 1
        /\ \A i \in 1 .. Len(outbox) : outbox'[i] = outbox[i]
        /\ outbox'[Len(outbox) + 1] = entry
        /\ Len(outbox) \in Nat
    BY <2>1, <2>2 DEF TypeOK
  <2>4. /\ \A x \in Messages : Holds(outbox, x) => Holds(outbox', x)
        /\ Holds(outbox', m)
    BY <2>1, <2>3 DEF Holds
  <2>5. NothingLost'
    BY <2>2, <2>4 DEF NothingLost, Resolved
  <2>6. FlushOwnsQueue'
    BY <2>2, <2>3 DEF FlushOwnsQueue, Running, Resolved, Holds, TypeOK
  <2> QED
    BY <2>5, <2>6
<1>3. ASSUME NEW f \in Flushers, FlushStart(f)
      PROVE  FlushOwnsQueue' /\ NothingLost'
  <2>1. /\ ~overlapped
        /\ \A g \in Flushers : ~Running(g)
        /\ UNCHANGED <<outbox, stage, delivered, deadLetter>>
    BY <1>3 DEF FlushStart
  <2>2. /\ cursor'[f] = 1
        /\ current'[f] = outbox[1]
        /\ \A g \in Flushers \ {f} : cursor'[g] = cursor[g]
        /\ Len(outbox) \in Nat /\ Len(outbox) >= 1
    BY <1>3 DEF FlushStart, TypeOK
  <2>3. NothingLost'
    BY <2>1 DEF NothingLost, Resolved
  <2> QED
    BY <2>1, <2>2, <2>3 DEF FlushOwnsQueue, Running
<1>4. ASSUME NEW f \in Flushers, NEW ok \in BOOLEAN, AttemptSettles(f, ok)
      PROVE  /\ ~overlapped /\ stage' = stage /\ Running(f)
             /\ \A g \in Flushers : Running(g) => g = f
             /\ cursor[f] \in 1 .. Len(outbox)
             /\ \A i \in 1 .. cursor[f] :
                    \/ NowResolved(outbox[i].msg)
                    \/ Holds(Kept(f, ok), outbox[i].msg)
             /\ \A m \in Messages : Resolved(m) => NowResolved(m)
  <2>1. ~overlapped /\ stage' = stage /\ Running(f)
    BY <1>4 DEF AttemptSettles
  <2>2. /\ \A g \in Flushers : Running(g) => g = f
        /\ cursor[f] \in 1 .. Len(outbox)
        /\ current[f] = outbox[cursor[f]]
        /\ \A i \in 1 .. cursor[f] - 1 :
               \/ Resolved(outbox[i].msg)
               \/ Holds(remaining[f], outbox[i].msg)
    BY <2>1 DEF FlushOwnsQueue
  <2>3. \A i \in 1 .. Len(outbox) : outbox[i].msg \in Messages
    <3>1. \A i \in 1 .. Len(outbox) : outbox[i] \in Entry
      BY DEF TypeOK
    <3> QED
      BY <3>1 DEF Entry
  <2>4. ASSUME NEW i \in 1 .. cursor[f]
        PROVE  \/ NowResolved(outbox[i].msg)
               \/ Holds(Kept(f, ok), outbox[i].msg)
    <3>1. outbox[i].msg \in Messages
      BY <2>2, <2>3 DEF TypeOK
    <3>2. CASE i = cursor[f]
      BY <1>4, <2>2, <3>2, AttemptResolves
    <3>3. CASE i # cursor[f]
      <4>1. i \in 1 .. cursor[f] - 1
        BY <2>2, <3>3
      <4> QED
        BY <1>4, <2>2, <3>1, <4>1, AttemptResolves
    <3> QED
      BY <3>2, <3>3
  <2>5. \A m \in Messages : Resolved(m) => NowResolved(m)
    BY <1>4, AttemptResolves
  <2> QED
    BY <2>1, <2>2, <2>4, <2>5
<1>5. ASSUME NEW f \in Flushers, NEW ok \in BOOLEAN, FlushNext(f, ok)
      PROVE  FlushOwnsQueue' /\ NothingLost'
  <2>1. AttemptSettles(f, ok)
    BY <1>5 DEF FlushNext
  <2>2. /\ outbox' = outbox
        /\ cursor'[f] = cursor[f] + 1
        /\ cursor[f] < Len(outbox)
        /\ cursor[f] \in Nat /\ Len(outbox) \in Nat
        /\ current'[f] = outbox[cursor[f] + 1]
        /\ remaining'[f] = Kept(f, ok)
        /\ \A g \in Flushers \ {f} : cursor'[g] = cursor[g]
    BY <1>5 DEF FlushNext, TypeOK
  <2>3. NothingLost'
    BY <1>4, <2>1, <2>2 DEF NothingLost, Resolved, NowResolved
  <2> QED
    BY <1>4, <2>1, <2>2, <2>3 DEF FlushOwnsQueue, Running, Resolved,
                                        NowResolved
<1>6. ASSUME NEW f \in Flushers, NEW ok \in BOOLEAN, FlushEnd(f, ok)
      PROVE  FlushOwnsQueue' /\ NothingLost'
  <2>1. AttemptSettles(f, ok)
    BY <1>6 DEF FlushEnd
  <2>2. /\ outbox' = Kept(f, ok)
        /\ cursor'[f] = 0
        /\ cursor[f] >= Len(outbox)
        /\ \A g \in Flushers \ {f} : cursor'[g] = cursor[g]
        /\ Len(outbox) \in Nat
    BY <1>6 DEF FlushEnd, TypeOK
  <2>3. ASSUME NEW m \in Messages, stage'[m] = "queued"
        PROVE  Holds(outbox, m)' \/ NowResolved(m)
    <3>1. CASE Resolved(m)
      BY <1>4, <2>1, <3>1
    <3>2. CASE Holds(outbox, m)
      <4>1. PICK i \in 1 .. Len(outbox) : outbox[i].msg = m
        BY <3>2 DEF Holds
      <4>2. i \in 1 .. cursor[f]
        BY <1>4, <2>1, <2>2, <4>1
      <4> QED
        BY <1>4, <2>1, <2>2, <4>1, <4>2 DEF Holds
    <3> QED
      BY <1>4, <2>1, <2>3, <3>1, <3>2 DEF NothingLost
  <2> QED
    BY <1>4, <2>1, <2>2, <2>3 DEF FlushOwnsQueue, NothingLost, Running,
                                 Resolved, NowResolved
<1> QED
  <2>1. CASE UNCHANGED vars
    BY <1>1, <2>1 DEF vars
  <2>2. ASSUME NEW m \in Messages, SendStart(m)
        PROVE  FlushOwnsQueue' /\ NothingLost'
    BY <1>1, <2>2 DEF SendStart, TypeOK
  <2>3. ASSUME NEW m \in Messages, SendDelivered(m)
        PROVE  FlushOwnsQueue' /\ NothingLost'
    BY <1>1, <2>3 DEF SendDelivered, TypeOK
  <2> QED
    BY <1>2, <1>3, <1>5, <1>6, <2>1, <2>2, <2>3 DEF Next

(* While no two flushes have overlapped, no message that was reported       *)
(* "queued" is lost (store.ts:62-92).                                       *)
THEOREM NothingLostAloneHolds == Spec => []NothingLostAlone
<1>1. Init => AloneInv
  BY TypeInit DEF Init, AloneInv, FlushOwnsQueue, NothingLost, Running
<1>2. AloneInv => NothingLostAlone
  BY DEF AloneInv, NothingLostAlone
<1> QED
  BY <1>1, <1>2, AloneNext, PTL DEF Spec

-----------------------------------------------------------------------------
(* A message is in a queue only when its own send() has put it there.       *)
AllQueued(q) == \A i \in 1 .. Len(q) : stage[q[i].msg] = "queued"

QueuedOnly ==
    /\ AllQueued(outbox)
    /\ \A f \in Flushers : AllQueued(remaining[f])
    /\ \A f \in Flushers : Running(f) => stage[current[f].msg] = "queued"

QueuedInv == TypeOK /\ QueuedOnly

(* What is queued stays queued: no step of the store takes the stage back.  *)
LEMMA AllQueuedStays ==
    ASSUME TypeOK, NEW q \in Seq(Entry), AllQueued(q),
           \A m \in Messages : stage[m] = "queued" => stage'[m] = "queued"
    PROVE  \A i \in 1 .. Len(q) : stage'[q[i].msg] = "queued"
<1> SUFFICES ASSUME NEW i \in 1 .. Len(q) PROVE stage'[q[i].msg] = "queued"
  OBVIOUS
<1>1. q[i] \in Entry
  OBVIOUS
<1> QED
  BY <1>1 DEF Entry, AllQueued

LEMMA KeptQueued ==
    ASSUME QueuedInv, NEW f \in Flushers, Running(f), NEW ok \in BOOLEAN
    PROVE  AllQueued(Kept(f, ok))
<1>1. CASE ok \/ IsDead(current[f])
  BY <1>1 DEF Kept, QueuedInv, QueuedOnly
<1>2. CASE ~(ok \/ IsDead(current[f]))
  <2> DEFINE kept == [current[f] EXCEPT !.attempts = current[f].attempts + 1]
  <2>1. /\ current[f] \in Entry
        /\ current[f].attempts + 1 \in 0 .. MaxSendAttempts - 1
        /\ remaining[f] \in Seq(Entry)
    BY <1>2, KeptType, SendAttemptsPositive DEF QueuedInv, IsDead, TypeOK
  <2>2. kept \in Entry /\ kept.msg = current[f].msg
    BY <2>1 DEF Entry
  <2>3. Kept(f, ok) = Append(remaining[f], kept)
    BY <1>2 DEF Kept, Attempted
  <2> HIDE DEF kept
  <2> QED
    BY <2>1, <2>2, <2>3, AppendElement DEF QueuedInv, QueuedOnly, AllQueued
<1> QED
  BY <1>1, <1>2

LEMMA QueuedNext == QueuedInv /\ [Next]_vars => QueuedInv'
<1> SUFFICES ASSUME QueuedInv, [Next]_vars PROVE QueuedOnly'
  BY TypeNext DEF QueuedInv
<1> USE DEF QueuedInv
<1>1. ASSUME UNCHANGED <<outbox, cursor, current, remaining>>,
             \A m \in Messages : stage[m] = "queued" => stage'[m] = "queued"
      PROVE  QueuedOnly'
  <2>1. AllQueued(outbox)' /\ \A f \in Flushers : AllQueued(remaining[f])'
    BY <1>1, AllQueuedStays DEF QueuedOnly, AllQueued, TypeOK
  <2>2. \A f \in Flushers : Running(f) => current[f].msg \in Messages
    BY KeptType
  <2> QED
    BY <1>1, <2>1, <2>2 DEF QueuedOnly, Running
<1>2. ASSUME NEW m \in Messages, SendFailed(m) PROVE QueuedOnly'
  <2> DEFINE entry == [msg |-> m, attempts |-> 0]
  <2>1. entry \in Entry /\ entry.msg = m
    BY SendAttemptsPositive DEF Entry
  <2>2. /\ outbox' = Append(outbox, entry)
        /\ stage'[m] = "queued"
        /\ \A x \in Messages : stage[x] = "queued" => stage'[x] = "queued"
        /\ UNCHANGED <<cursor, current, remaining>>
    BY <1>2 DEF SendFailed, Queued, TypeOK
  <2> HIDE DEF entry
  <2>3. /\ \A i \in 1 .. Len(outbox) : stage'[outbox[i].msg] = "queued"
        /\ \A f \in Flushers : AllQueued(remaining[f])'
    BY <2>2, AllQueuedStays DEF QueuedOnly, AllQueued, TypeOK
  <2>4. AllQueued(outbox)'
    BY <2>1, <2>2, <2>3, AppendElement DEF AllQueued, TypeOK
  <2>5. \A f \in Flushers : Running(f) => current[f].msg \in Messages
    BY KeptType
  <2> QED
    BY <2>2, <2>3, <2>4, <2>5 DEF QueuedOnly, Running
<1>3. ASSUME NEW f \in Flushers, FlushStart(f) PROVE QueuedOnly'
  <2>1. 1 \in 1 .. Len(outbox)
    BY <1>3 DEF FlushStart, TypeOK
  <2> QED
    BY <1>3, <2>1 DEF FlushStart, QueuedOnly, AllQueued, Running, TypeOK
<1>4. ASSUME NEW f \in Flushers, NEW ok \in BOOLEAN, FlushNext(f, ok)
      PROVE  QueuedOnly'
  <2>1. Running(f) /\ stage' = stage
    BY <1>4 DEF FlushNext, AttemptSettles
  <2>2. AllQueued(Kept(f, ok))
    BY <2>1, KeptQueued
  <2>3. cursor[f] + 1 \in 1 .. Len(outbox)
    BY <1>4 DEF FlushNext, TypeOK
  <2> QED
    BY <1>4, <2>1, <2>2, <2>3
       DEF FlushNext, QueuedOnly, AllQueued, Running, TypeOK
<1>5. ASSUME NEW f \in Flushers, NEW ok \in BOOLEAN, FlushEnd(f, ok)
      PROVE  QueuedOnly'
  <2>1. Running(f) /\ stage' = stage
    BY <1>5 DEF FlushEnd, AttemptSettles
  <2>2. AllQueued(Kept(f, ok))
    BY <2>1, KeptQueued
  <2> QED
    BY <1>5, <2>1, <2>2 DEF FlushEnd, QueuedOnly, AllQueued, Running, TypeOK
<1>6. ASSUME NEW m \in Messages, SendStart(m) \/ SendDelivered(m)
      PROVE  QueuedOnly'
  BY <1>1, <1>6 DEF SendStart, SendDelivered, TypeOK
<1>7. ASSUME UNCHANGED vars PROVE QueuedOnly'
  BY <1>1, <1>7 DEF vars
<1> QED
  BY <1>2, <1>3, <1>4, <1>5, <1>6, <1>7 DEF Next

-----------------------------------------------------------------------------
(* One fate, in the order of the queue                                      *)

Distinct(q) ==
    \A i, j \in 1 .. Len(q) : q[i].msg = q[j].msg => i = j

\* Every entry of r is the message of one of the first n entries of q.
FromFirst(r, q, n) ==
    \A k \in 1 .. Len(r) : \E i \in 1 .. n : q[i].msg = r[k].msg

\* Messages of both q and r stand in r as they stand in q.
InOrder(q, r) ==
    \A i, j \in 1 .. Len(q) : \A k, l \in 1 .. Len(r) :
        i < j /\ q[i].msg = r[k].msg /\ q[j].msg = r[l].msg => k < l

\* What a flush that runs alone keeps comes from the part it has walked.
Walking(f) ==
    /\ cursor[f] \in 1 .. Len(outbox)
    /\ current[f] = outbox[cursor[f]]
    /\ Distinct(remaining[f])
    /\ FromFirst(remaining[f], outbox, cursor[f] - 1)
    /\ InOrder(outbox, remaining[f])

WalkInv ==
    /\ QueuedInv
    /\ \A f \in Flushers : ~Running(f) => remaining[f] = <<>>
    /\ ~overlapped =>
          /\ Distinct(outbox)
          /\ \A f, g \in Flushers : Running(f) /\ Running(g) => f = g
          /\ \A f \in Flushers : Running(f) => Walking(f)

LEMMA EntryAt ==
    ASSUME NEW q \in Seq(Entry), NEW i \in 1 .. Len(q)
    PROVE  q[i] \in Entry /\ q[i].msg \in Messages
<1>1. q[i] \in Entry
  OBVIOUS
<1> QED
  BY <1>1 DEF Entry

\* Kept is remaining, or remaining and the current message.
LEMMA KeptForms ==
    ASSUME TypeOK, NEW f \in Flushers, Running(f), NEW ok \in BOOLEAN
    PROVE  /\ Kept(f, ok) \in Seq(Entry)
           /\ \/ Kept(f, ok) = remaining[f]
              \/ /\ ~ok /\ ~IsDead(current[f])
                 /\ Len(Kept(f, ok)) = Len(remaining[f]) + 1
                 /\ \A k \in 1 .. Len(remaining[f]) :
                        Kept(f, ok)[k] = remaining[f][k]
                 /\ Kept(f, ok)[Len(remaining[f]) + 1].msg = current[f].msg
<1>1. CASE ok \/ IsDead(current[f])
  BY <1>1 DEF Kept, TypeOK
<1>2. CASE ~(ok \/ IsDead(current[f]))
  <2> DEFINE kept == [current[f] EXCEPT !.attempts = current[f].attempts + 1]
  <2>1. /\ current[f] \in Entry
        /\ current[f].attempts + 1 \in 0 .. MaxSendAttempts - 1
        /\ remaining[f] \in Seq(Entry)
    BY <1>2, KeptType, SendAttemptsPositive DEF IsDead, TypeOK
  <2>2. kept \in Entry /\ kept.msg = current[f].msg
    BY <2>1 DEF Entry
  <2>3. Kept(f, ok) = Append(remaining[f], kept)
    BY <1>2 DEF Kept, Attempted
  <2> HIDE DEF kept
  <2> QED
    BY <1>2, <2>1, <2>2, <2>3
<1> QED
  BY <1>1, <1>2

(* What the flush keeps after an attempt has the order of the queue.        *)
LEMMA KeptInOrder ==
    ASSUME TypeOK, NEW f \in Flushers, Running(f), NEW ok \in BOOLEAN,
           Distinct(outbox), Walking(f)
    PROVE  /\ Distinct(Kept(f, ok))
           /\ FromFirst(Kept(f, ok), outbox, cursor[f])
           /\ InOrder(outbox, Kept(f, ok))
<1> DEFINE r == remaining[f]
           s == Kept(f, ok)
           c == cursor[f]
<1>1. /\ Len(r) \in Nat /\ Len(outbox) \in Nat /\ c \in 1 .. Len(outbox)
      /\ current[f].msg = outbox[c].msg
  BY DEF TypeOK, Walking
<1>2. CASE s = r
  BY <1>1, <1>2 DEF Walking, FromFirst
<1>3. CASE /\ Len(s) = Len(r) + 1
           /\ \A k \in 1 .. Len(r) : s[k] = r[k]
           /\ s[Len(r) + 1].msg = outbox[c].msg
  <2>1. ASSUME NEW k \in 1 .. Len(s), k # Len(r) + 1
        PROVE  k \in 1 .. Len(r) /\ s[k] = r[k]
    BY <1>1, <1>3, <2>1
  <2>2. ASSUME NEW k \in 1 .. Len(r), NEW i \in 1 .. Len(outbox),
               outbox[i].msg = r[k].msg
        PROVE  i < c
    <3>1. PICK j \in 1 .. c - 1 : outbox[j].msg = r[k].msg
      BY DEF Walking, FromFirst
    <3>2. i = j
      BY <1>1, <2>2, <3>1 DEF Distinct
    <3> QED
      BY <1>1, <3>1, <3>2
  <2>3. Distinct(s)
    <3> SUFFICES ASSUME NEW k \in 1 .. Len(s), NEW l \in 1 .. Len(s),
                        s[k].msg = s[l].msg, k < l
                 PROVE  FALSE
      BY <1>1, <1>3 DEF Distinct
    <3>1. k \in 1 .. Len(r) /\ s[k] = r[k]
      BY <1>1, <1>3, <2>1
    <3>2. CASE l = Len(r) + 1
      BY <1>1, <1>3, <2>2, <3>1, <3>2
    <3>3. CASE l # Len(r) + 1
      <4>1. l \in 1 .. Len(r) /\ s[l] = r[l]
        BY <2>1, <3>3
      <4>2. r[k].msg = r[l].msg
        BY <3>1, <4>1
      <4>3. k = l
        BY <3>1, <4>1, <4>2 DEF Walking, Distinct
      <4> QED
        BY <1>1, <3>1, <4>3
    <3> QED
      BY <3>2, <3>3
  <2>4. FromFirst(s, outbox, c)
    <3> SUFFICES ASSUME NEW k \in 1 .. Len(s)
                 PROVE  \E i \in 1 .. c : outbox[i].msg = s[k].msg
      BY DEF FromFirst
    <3>1. CASE k = Len(r) + 1
      BY <1>1, <1>3, <3>1
    <3>2. CASE k # Len(r) + 1
      <4>1. PICK i \in 1 .. c - 1 : outbox[i].msg = s[k].msg
        BY <2>1, <3>2 DEF Walking, FromFirst
      <4> QED
        BY <1>1, <4>1
    <3> QED
      BY <3>1, <3>2
  <2>5. InOrder(outbox, s)
    <3> SUFFICES ASSUME NEW i \in 1 .. Len(outbox), NEW j \in 1 .. Len(outbox),
                        NEW k \in 1 .. Len(s), NEW l \in 1 .. Len(s), i < j,
                        outbox[i].msg = s[k].msg, outbox[j].msg = s[l].msg
                 PROVE  k < l
      BY DEF InOrder
    <3>1. CASE k # Len(r) + 1 /\ l # Len(r) + 1
      BY <2>1, <3>1 DEF Walking, InOrder
    <3>2. CASE k # Len(r) + 1 /\ l = Len(r) + 1
      BY <1>1, <2>1, <3>2
    <3>3. CASE k = Len(r) + 1
      <4>1. i = c
        BY <1>1, <1>3, <3>3 DEF Distinct
      <4>2. l # Len(r) + 1
        <5>1. j # c
          BY <1>1, <4>1
        <5> QED
          BY <1>1, <1>3, <5>1 DEF Distinct
      <4>3. j < c
        BY <2>1, <2>2, <4>2
      <4> QED
        BY <1>1, <4>1, <4>3
    <3> QED
      BY <3>1, <3>2, <3>3
  <2> QED
    BY <2>3, <2>4, <2>5
<1> QED
  BY <1>1, <1>2, <1>3, KeptForms

(* A message pushed to the queue is the last one and in it only once.       *)
LEMMA PushedInOrder ==
    ASSUME NEW q \in Seq(Entry), NEW e \in Entry, Distinct(q),
           \A i \in 1 .. Len(q) : q[i].msg # e.msg
    PROVE  /\ Distinct(Append(q, e))
           /\ InOrder(q, Append(q, e))
           /\ \A r \in Seq(Entry), n \in 0 .. Len(q) :
                 FromFirst(r, q, n) /\ InOrder(q, r)
                    => FromFirst(r, Append(q, e), n)
                       /\ InOrder(Append(q, e), r)
<1>1. /\ Len(Append(q, e)) = Len(q) + 1 /\ Len(q) \in Nat
      /\ \A i \in 1 .. Len(q) : Append(q, e)[i] = q[i]
      /\ Append(q, e)[Len(q) + 1] = e
  OBVIOUS
<1> DEFINE p == Append(q, e)
<1> HIDE DEF p
<1>2. \A i \in 1 .. Len(p) : i \in 1 .. Len(q) \/ i = Len(q) + 1
  BY <1>1 DEF p
<1>3. Distinct(p)
  BY <1>1, <1>2 DEF p, Distinct
<1>4. InOrder(q, p)
  <2> SUFFICES ASSUME NEW i \in 1 .. Len(q), NEW j \in 1 .. Len(q),
                      NEW k \in 1 .. Len(p), NEW l \in 1 .. Len(p), i < j,
                      q[i].msg = p[k].msg, q[j].msg = p[l].msg
               PROVE  k < l
    BY DEF InOrder
  <2>1. k \in 1 .. Len(q) /\ l \in 1 .. Len(q)
    BY <1>1, <1>2 DEF p
  <2>2. k = i /\ l = j
    BY <1>1, <2>1 DEF p, Distinct
  <2> QED
    BY <2>2
<1>5. ASSUME NEW r \in Seq(Entry), NEW n \in 0 .. Len(q),
             FromFirst(r, q, n), InOrder(q, r)
      PROVE  FromFirst(r, p, n) /\ InOrder(p, r)
  <2>1. \A k \in 1 .. Len(r) : \E i \in 1 .. Len(q) : q[i].msg = r[k].msg
    BY <1>1, <1>5 DEF FromFirst
  <2>2. \A k \in 1 .. Len(r) : r[k].msg # e.msg
    BY <2>1
  <2>3. FromFirst(r, p, n)
    <3>1. \A i \in 1 .. n : p[i] = q[i]
      BY <1>1 DEF p
    <3> QED
      BY <1>5, <3>1 DEF FromFirst
  <2>4. InOrder(p, r)
    <3> SUFFICES ASSUME NEW i \in 1 .. Len(p), NEW j \in 1 .. Len(p),
                        NEW k \in 1 .. Len(r), NEW l \in 1 .. Len(r), i < j,
                        p[i].msg = r[k].msg, p[j].msg = r[l].msg
                 PROVE  k < l
      BY DEF InOrder
    <3>1. i \in 1 .. Len(q) /\ j \in 1 .. Len(q)
      BY <1>1, <1>2, <2>2 DEF p
    <3> QED
      BY <1>1, <1>5, <3>1 DEF p, InOrder
  <2> QED
    BY <2>3, <2>4
<1> QED
  BY <1>3, <1>4, <1>5 DEF p

LEMMA WalkNext == WalkInv /\ [Next]_vars => WalkInv'
<1> SUFFICES ASSUME WalkInv, [Next]_vars PROVE WalkInv'
  OBVIOUS
<1> USE DEF WalkInv
<1>q. QueuedInv' /\ TypeOK /\ QueuedOnly
  BY QueuedNext DEF QueuedInv
<1>1. ASSUME UNCHANGED <<outbox, cursor, current, remaining, overlapped>>
      PROVE  WalkInv'
  BY <1>1, <1>q DEF Running, Walking
<1>2. ASSUME NEW m \in Messages, SendFailed(m) PROVE WalkInv'
  <2> DEFINE entry == [msg |-> m, attempts |-> 0]
  <2>1. entry \in Entry /\ entry.msg = m
    BY SendAttemptsPositive DEF Entry
  <2>2. /\ outbox' = Append(outbox, entry)
        /\ stage[m] = "sending"
        /\ UNCHANGED <<cursor, current, remaining, overlapped>>
    BY <1>2 DEF SendFailed, Queued
  <2> HIDE DEF entry
  <2>3. /\ Len(outbox') = Len(outbox) + 1
        /\ \A i \in 1 .. Len(outbox) : outbox'[i] = outbox[i]
        /\ Len(outbox) \in Nat
    BY <1>q, <2>1, <2>2 DEF TypeOK
  <2>4. \A i \in 1 .. Len(outbox) : outbox[i].msg # entry.msg
    BY <1>q, <2>1, <2>2 DEF QueuedOnly, AllQueued
  <2>5. ASSUME ~overlapped PROVE Distinct(outbox')
    BY <1>q, <2>1, <2>2, <2>4, <2>5, PushedInOrder DEF TypeOK
  <2>6. ASSUME ~overlapped, NEW f \in Flushers, Running(f)
        PROVE  /\ cursor[f] \in 1 .. Len(outbox')
               /\ current[f] = outbox'[cursor[f]]
               /\ FromFirst(remaining[f], outbox', cursor[f] - 1)
               /\ InOrder(outbox', remaining[f])
    <3>1. Walking(f) /\ remaining[f] \in Seq(Entry)
      BY <1>q, <2>6 DEF TypeOK
    <3>2. cursor[f] - 1 \in 0 .. Len(outbox)
      BY <2>3, <3>1 DEF Walking
    <3>3. /\ FromFirst(remaining[f], outbox, cursor[f] - 1)
          /\ InOrder(outbox, remaining[f])
          /\ cursor[f] \in 1 .. Len(outbox)
          /\ current[f] = outbox[cursor[f]]
      BY <3>1 DEF Walking
    <3>4. /\ FromFirst(remaining[f], outbox', cursor[f] - 1)
          /\ InOrder(outbox', remaining[f])
      <4>1. outbox \in Seq(Entry) /\ Distinct(outbox)
        BY <1>q, <2>6 DEF TypeOK
      <4> QED
        BY <2>1, <2>2, <2>4, <3>1, <3>2, <3>3, <4>1, PushedInOrder
    <3> QED
      BY <2>3, <3>3, <3>4
  <2> QED
    BY <1>q, <2>2, <2>5, <2>6 DEF Running, Walking
<1>3. ASSUME NEW f \in Flushers, FlushStart(f) PROVE WalkInv'
  <2>0. /\ ~Running(f) /\ remaining[f] = <<>>
        /\ UNCHANGED <<outbox, remaining>>
        /\ ~overlapped' => /\ ~overlapped
                           /\ \A g \in Flushers : ~Running(g)
    BY <1>3 DEF FlushStart
  <2>1. /\ cursor'[f] = 1 /\ current'[f] = outbox[1]
        /\ \A g \in Flushers \ {f} : cursor'[g] = cursor[g]
        /\ 1 \in 1 .. Len(outbox) /\ 1 - 1 = 0
    BY <1>3, <1>q DEF FlushStart, TypeOK
  <2>2. /\ Distinct(<<>>)
        /\ FromFirst(<<>>, outbox, 0)
        /\ InOrder(outbox, <<>>)
    BY DEF Distinct, FromFirst, InOrder
  <2>3. Running(f)' /\ \A g \in Flushers \ {f} : Running(g)' = Running(g)
    BY <2>1 DEF Running
  <2>4. ~overlapped' => Walking(f)'
    BY <2>0, <2>1, <2>2 DEF Walking
  <2> QED
    BY <1>q, <2>0, <2>1, <2>3, <2>4
<1>4. ASSUME NEW f \in Flushers, NEW ok \in BOOLEAN, AttemptSettles(f, ok)
      PROVE  /\ Running(f) /\ overlapped' = overlapped
             /\ ~overlapped => /\ Distinct(outbox) /\ Walking(f)
                               /\ \A g \in Flushers : Running(g) => g = f
                               /\ Distinct(Kept(f, ok))
                               /\ FromFirst(Kept(f, ok), outbox, cursor[f])
                               /\ InOrder(outbox, Kept(f, ok))
  <2>1. Running(f) /\ overlapped' = overlapped
    BY <1>4 DEF AttemptSettles
  <2> QED
    BY <1>q, <2>1, KeptInOrder
<1>5. ASSUME NEW f \in Flushers, NEW ok \in BOOLEAN, FlushNext(f, ok)
      PROVE  WalkInv'
  <2>1. AttemptSettles(f, ok)
    BY <1>5 DEF FlushNext
  <2>2. /\ outbox' = outbox
        /\ cursor'[f] = cursor[f] + 1
        /\ cursor[f] + 1 \in 1 .. Len(outbox)
        /\ cursor'[f] - 1 = cursor[f]
        /\ current'[f] = outbox[cursor[f] + 1]
        /\ remaining'[f] = Kept(f, ok)
        /\ \A g \in Flushers \ {f} : /\ cursor'[g] = cursor[g]
                                     /\ remaining'[g] = remaining[g]
    BY <1>5, <1>q DEF FlushNext, TypeOK
  <2>3. /\ \A g \in Flushers \ {f} : Running(g)' = Running(g)
        /\ Running(f)'
    BY <2>2 DEF Running
  <2>4. ~overlapped => Walking(f)'
    BY <1>4, <2>1, <2>2 DEF Walking
  <2> QED
    BY <1>4, <1>q, <2>1, <2>2, <2>3, <2>4
<1>6. ASSUME NEW f \in Flushers, NEW ok \in BOOLEAN, FlushEnd(f, ok)
      PROVE  WalkInv'
  <2>1. AttemptSettles(f, ok)
    BY <1>6 DEF FlushEnd
  <2>2. /\ outbox' = Kept(f, ok)
        /\ cursor'[f] = 0 /\ remaining'[f] = <<>>
        /\ \A g \in Flushers \ {f} : /\ cursor'[g] = cursor[g]
                                     /\ remaining'[g] = remaining[g]
    BY <1>6, <1>q DEF FlushEnd, TypeOK
  <2>3. /\ \A g \in Flushers \ {f} : Running(g)' = Running(g)
        /\ ~Running(f)'
    BY <2>2 DEF Running
  <2> QED
    BY <1>4, <1>q, <2>1, <2>2, <2>3
<1> QED
  <2>1. CASE UNCHANGED vars
    BY <1>1, <2>1 DEF vars
  <2>2. ASSUME NEW m \in Messages, SendStart(m) \/ SendDelivered(m)
        PROVE  WalkInv'
    BY <1>1, <2>2 DEF SendStart, SendDelivered
  <2> QED
    BY <1>2, <1>3, <1>5, <1>6, <2>1, <2>2 DEF Next

LEMMA WalkInvHolds == Spec => []WalkInv
<1>1. Init => WalkInv
  BY TypeInit DEF Init, WalkInv, QueuedInv, QueuedOnly, AllQueued, Running,
                  Distinct, Walking
<1> QED
  BY <1>1, WalkNext, PTL DEF Spec

(* As long as no two flushes have overlapped, no step moves a message ahead *)
(* of one queued before it: not a push during the walk, and not the         *)
(* replacement of the queue by what was kept (store.ts:69-90).              *)
THEOREM QueueOrderKeptHolds == Spec => QueueOrderKept
<1> DEFINE Kept2 == ~overlapped' => InOrder(outbox, outbox')
<1>1. WalkInv /\ [Next]_vars => Kept2
  <2> SUFFICES ASSUME WalkInv, [Next]_vars, ~overlapped'
               PROVE  InOrder(outbox, outbox')
    OBVIOUS
  <2> USE DEF WalkInv
  <2>0. TypeOK /\ QueuedOnly
    BY DEF QueuedInv
  <2>1. ~overlapped
    BY DEF Next, vars, SendStart, SendDelivered, SendFailed, FlushStart,
           FlushNext, FlushEnd, AttemptSettles
  <2>2. ASSUME outbox' = outbox PROVE InOrder(outbox, outbox')
    <3>1. Distinct(outbox) /\ Len(outbox) \in Nat
      BY <2>0, <2>1 DEF TypeOK
    <3> QED
      BY <2>2, <3>1 DEF Distinct, InOrder
  <2>3. ASSUME NEW m \in Messages, SendFailed(m)
        PROVE  InOrder(outbox, outbox')
    <3> DEFINE entry == [msg |-> m, attempts |-> 0]
    <3>1. entry \in Entry /\ entry.msg = m
      BY SendAttemptsPositive DEF Entry
    <3>2. outbox' = Append(outbox, entry) /\ stage[m] = "sending"
      BY <2>3 DEF SendFailed, Queued
    <3> HIDE DEF entry
    <3>3. \A i \in 1 .. Len(outbox) : outbox[i].msg # entry.msg
      BY <2>0, <3>1, <3>2 DEF QueuedOnly, AllQueued
    <3> QED
      BY <2>0, <2>1, <3>1, <3>2, <3>3, PushedInOrder DEF TypeOK
  <2>4. ASSUME NEW f \in Flushers, NEW ok \in BOOLEAN, FlushEnd(f, ok)
        PROVE  InOrder(outbox, outbox')
    <3>1. Running(f) /\ outbox' = Kept(f, ok)
      BY <2>4 DEF FlushEnd, AttemptSettles
    <3> QED
      BY <2>0, <2>1, <3>1, KeptInOrder
  <2> QED
    BY <2>2, <2>3, <2>4
       DEF Next, vars, SendStart, SendDelivered, FlushStart, FlushNext
<1>2. Kept2 => \A i, j \in 1 .. Len(outbox) : \A k, l \in 1 .. Len(outbox') :
                  (/\ ~overlapped' /\ i < j
                   /\ outbox[i].msg = outbox'[k].msg
                   /\ outbox[j].msg = outbox'[l].msg) => k < l
  BY DEF InOrder
<1> HIDE DEF Kept2
<1> QED
  BY <1>1, <1>2, WalkInvHolds, PTL DEF Spec, QueueOrderKept

(* A message is resolved by one attempt, and what a flush has still to send *)
(* or will keep is not resolved.                                            *)
Unresolved(q, n) == \A i \in n .. Len(q) : ~Resolved(q[i].msg)

UnsentUnresolved ==
    \A m \in Messages : stage[m] \in {"new", "sending"} => ~Resolved(m)

SingleFate ==
    \A m \in Messages : /\ deadLetter[m] <= 1
                        /\ ~(m \in delivered /\ deadLetter[m] > 0)

ToSend ==
    /\ (\A f \in Flushers : ~Running(f)) => Unresolved(outbox, 1)
    /\ \A f \in Flushers :
          Running(f) => /\ Unresolved(outbox, cursor[f])
                        /\ Unresolved(remaining[f], 1)

FateInv ==
    WalkInv /\ UnsentUnresolved /\ (~overlapped => SingleFate /\ ToSend)

(* An attempt settles the fate of its own message, and only if it does not  *)
(* keep it.                                                                 *)
LEMMA AttemptFate ==
    ASSUME TypeOK, NEW f \in Flushers, NEW ok \in BOOLEAN,
           AttemptSettles(f, ok), ~Resolved(current[f].msg), SingleFate
    PROVE  /\ \A x \in Messages \ {current[f].msg} :
                  NowResolved(x) <=> Resolved(x)
           /\ ~ok /\ ~IsDead(current[f]) => ~NowResolved(current[f].msg)
           /\ SingleFate'
<1> DEFINE m == current[f].msg
<1>1. /\ deadLetter \in [Messages -> Nat] /\ m \in Messages
      /\ delivered' = IF ok THEN delivered \cup {m} ELSE delivered
      /\ deadLetter' = IF ok \/ ~IsDead(current[f]) THEN deadLetter
                       ELSE [deadLetter EXCEPT ![m] = deadLetter[m] + 1]
  BY KeptType DEF AttemptSettles, TypeOK
<1>2. m \notin delivered /\ deadLetter[m] = 0
  BY <1>1 DEF Resolved
<1> HIDE DEF m
<1>3. \A x \in Messages \ {m} : NowResolved(x) <=> Resolved(x)
  BY <1>1 DEF Resolved, NowResolved
<1>4. ~ok /\ ~IsDead(current[f]) => ~NowResolved(m)
  BY <1>1, <1>2 DEF NowResolved
<1>5. SingleFate'
  BY <1>1, <1>2 DEF SingleFate
<1> QED
  BY <1>3, <1>4, <1>5 DEF m

(* After the attempt: the rest of the queue and what is kept are unresolved.*)
LEMMA WalkedFate ==
    ASSUME FateInv, ~overlapped, NEW f \in Flushers, NEW ok \in BOOLEAN,
           AttemptSettles(f, ok)
    PROVE  /\ SingleFate'
           /\ \A i \in cursor[f] + 1 .. Len(outbox) :
                  ~NowResolved(outbox[i].msg)
           /\ \A k \in 1 .. Len(Kept(f, ok)) : ~NowResolved(Kept(f, ok)[k].msg)
<1> DEFINE m == current[f].msg
           r == remaining[f]
           c == cursor[f]
<1>1. /\ TypeOK /\ Running(f) /\ Distinct(outbox) /\ Walking(f)
      /\ Unresolved(outbox, c) /\ Unresolved(r, 1) /\ SingleFate
  BY DEF FateInv, WalkInv, QueuedInv, AttemptSettles, ToSend
<1>2. /\ outbox \in Seq(Entry) /\ r \in Seq(Entry)
      /\ Len(outbox) \in Nat /\ Len(r) \in Nat
      /\ c \in 1 .. Len(outbox) /\ m = outbox[c].msg
  BY <1>1 DEF TypeOK, Walking
<1>3. ~Resolved(m)
  BY <1>1, <1>2 DEF Unresolved
<1>4. /\ \A x \in Messages \ {m} : NowResolved(x) <=> Resolved(x)
      /\ ~ok /\ ~IsDead(current[f]) => ~NowResolved(m)
      /\ SingleFate'
  BY <1>1, <1>3, AttemptFate
<1>5. ASSUME NEW i \in c + 1 .. Len(outbox)
      PROVE  ~NowResolved(outbox[i].msg)
  <2>1. i \in 1 .. Len(outbox) /\ i \in c .. Len(outbox) /\ i # c
    BY <1>2
  <2>2. outbox[i].msg \in Messages \ {m}
    BY <1>1, <1>2, <2>1, EntryAt DEF Distinct
  <2> QED
    BY <1>1, <1>4, <2>1, <2>2 DEF Unresolved
<1>6. ASSUME NEW k \in 1 .. Len(r) PROVE ~NowResolved(r[k].msg)
  <2>1. PICK i \in 1 .. c - 1 : outbox[i].msg = r[k].msg
    BY <1>1 DEF Walking, FromFirst
  <2>2. r[k].msg # m
    BY <1>1, <1>2, <2>1 DEF Distinct
  <2>3. r[k].msg \in Messages
    BY <1>2, EntryAt
  <2> QED
    BY <1>1, <1>4, <2>2, <2>3 DEF Unresolved
<1>7. \/ Kept(f, ok) = r
      \/ /\ ~ok /\ ~IsDead(current[f])
         /\ Len(Kept(f, ok)) = Len(r) + 1
         /\ \A k \in 1 .. Len(r) : Kept(f, ok)[k] = r[k]
         /\ Kept(f, ok)[Len(r) + 1].msg = m
  BY <1>1, KeptForms
<1> HIDE DEF m, r, c
<1>8. ASSUME NEW k \in 1 .. Len(Kept(f, ok))
      PROVE  ~NowResolved(Kept(f, ok)[k].msg)
  <2>1. CASE Kept(f, ok) = r
    BY <1>6, <2>1
  <2>2. CASE Kept(f, ok) # r
    <3>1. k \in 1 .. Len(r) \/ k = Len(r) + 1
      BY <1>2, <1>7, <2>2
    <3> QED
      BY <1>4, <1>6, <1>7, <2>2, <3>1
  <2> QED
    BY <2>1, <2>2
<1> QED
  BY <1>4, <1>5, <1>8 DEF c

LEMMA FateNext == FateInv /\ [Next]_vars => FateInv'
<1> SUFFICES ASSUME FateInv, [Next]_vars
             PROVE  /\ UnsentUnresolved'
                    /\ ~overlapped' => SingleFate' /\ ToSend'
  BY WalkNext DEF FateInv
<1> DEFINE Goal == /\ UnsentUnresolved'
                   /\ ~overlapped' => SingleFate' /\ ToSend'
<1>q. /\ TypeOK /\ QueuedOnly /\ WalkInv /\ UnsentUnresolved
      /\ ~overlapped => SingleFate /\ ToSend
  BY DEF FateInv, WalkInv, QueuedInv
<1>m. /\ \A i \in 1 .. Len(outbox) : outbox[i].msg \in Messages
      /\ \A f \in Flushers : \A k \in 1 .. Len(remaining[f]) :
             remaining[f][k].msg \in Messages
  BY <1>q, EntryAt DEF TypeOK
<1>1. ASSUME UNCHANGED <<outbox, deadLetter, cursor, remaining, delivered,
                         overlapped>>,
             \A m \in Messages : stage'[m] \in {"new", "sending"}
                                    => stage[m] \in {"new", "sending"}
      PROVE  Goal
  BY <1>1, <1>q DEF UnsentUnresolved, SingleFate, ToSend, Unresolved,
                    Resolved, Running
<1>2. ASSUME NEW m \in Messages, SendStart(m) PROVE Goal
  BY <1>1, <1>2, <1>q DEF SendStart, TypeOK
<1>3. ASSUME NEW m \in Messages, SendDelivered(m) PROVE Goal
  <2>1. /\ stage[m] = "sending" /\ stage'[m] = "delivered"
        /\ \A x \in Messages \ {m} : stage'[x] = stage[x]
        /\ delivered' = delivered \cup {m}
        /\ UNCHANGED <<outbox, deadLetter, cursor, remaining, overlapped>>
    BY <1>3, <1>q DEF SendDelivered, TypeOK
  <2>2. ~Resolved(m)
    BY <1>q, <2>1 DEF UnsentUnresolved
  <2>3. /\ \A i \in 1 .. Len(outbox) : outbox[i].msg # m
        /\ \A f \in Flushers : \A k \in 1 .. Len(remaining[f]) :
               remaining[f][k].msg # m
    BY <1>q, <2>1 DEF QueuedOnly, AllQueued
  <2>4. UnsentUnresolved'
    BY <1>q, <2>1 DEF UnsentUnresolved, Resolved
  <2>5. ~overlapped => SingleFate'
    BY <1>q, <2>1, <2>2 DEF SingleFate, Resolved
  <2>6. \A f \in Flushers : Running(f)' = Running(f)
    BY <2>1 DEF Running
  <2>7. ASSUME NEW n \in Nat \ {0}, Unresolved(outbox, n)
        PROVE  Unresolved(outbox, n)'
    <3>1. \A i \in n .. Len(outbox) : i \in 1 .. Len(outbox)
      BY <1>q DEF TypeOK
    <3> QED
      BY <2>1, <2>3, <2>7, <3>1 DEF Unresolved, Resolved
  <2>8. ASSUME NEW f \in Flushers, Unresolved(remaining[f], 1)
        PROVE  Unresolved(remaining[f], 1)'
    BY <2>1, <2>3, <2>8 DEF Unresolved, Resolved
  <2>9. ASSUME ~overlapped PROVE ToSend'
    <3>1. \A f \in Flushers : Running(f) => cursor[f] \in Nat \ {0}
      BY <1>q DEF Running, TypeOK
    <3>2. 1 \in Nat \ {0}
      OBVIOUS
    <3>3. (\A f \in Flushers : ~Running(f)) => Unresolved(outbox, 1)'
      BY <1>q, <2>7, <2>9, <3>2 DEF ToSend
    <3>4. ASSUME NEW f \in Flushers, Running(f)
          PROVE  Unresolved(outbox, cursor[f])'
      <4>1. Unresolved(outbox, cursor[f])
        BY <1>q, <2>9, <3>4 DEF ToSend
      <4>2. \A i \in cursor[f] .. Len(outbox) : i \in 1 .. Len(outbox)
        BY <1>q, <3>1, <3>4 DEF TypeOK
      <4> QED
        BY <2>1, <2>3, <4>1, <4>2 DEF Unresolved, Resolved
    <3> QED
      BY <1>q, <2>6, <2>8, <2>9, <3>3, <3>4 DEF ToSend
  <2> QED
    BY <2>1, <2>4, <2>5, <2>9
<1>4. ASSUME NEW m \in Messages, SendFailed(m) PROVE Goal
  <2> DEFINE entry == [msg |-> m, attempts |-> 0]
  <2>1. entry \in Entry /\ entry.msg = m
    BY SendAttemptsPositive DEF Entry
  <2>2. /\ outbox' = Append(outbox, entry)
        /\ stage[m] = "sending" /\ stage'[m] = "queued"
        /\ \A x \in Messages \ {m} : stage'[x] = stage[x]
        /\ UNCHANGED <<cursor, remaining, delivered, deadLetter, overlapped>>
    BY <1>4, <1>q DEF SendFailed, Queued, TypeOK
  <2> HIDE DEF entry
  <2>3. /\ Len(outbox') = Len(outbox) + 1
        /\ \A i \in 1 .. Len(outbox) : outbox'[i] = outbox[i]
        /\ outbox'[Len(outbox) + 1] = entry
        /\ Len(outbox) \in Nat
    BY <1>q, <2>1, <2>2 DEF TypeOK
  <2>4. ~Resolved(m)
    BY <1>q, <2>2 DEF UnsentUnresolved
  <2>5. UnsentUnresolved' /\ (~overlapped => SingleFate')
    BY <1>q, <2>2 DEF UnsentUnresolved, SingleFate, Resolved
  <2>6. ASSUME NEW n \in Nat \ {0}, Unresolved(outbox, n)
        PROVE  \A i \in n .. Len(outbox') : ~Resolved(outbox'[i].msg)
    <3>1. \A i \in n .. Len(outbox') :
             \/ i \in n .. Len(outbox) /\ i \in 1 .. Len(outbox)
             \/ i = Len(outbox) + 1
      BY <2>3
    <3> QED
      BY <2>1, <2>3, <2>4, <2>6, <3>1 DEF Unresolved
  <2>7. ASSUME ~overlapped PROVE ToSend'
    <3>1. \A f \in Flushers : Running(f) => cursor[f] \in Nat \ {0}
      BY <1>q DEF Running, TypeOK
    <3>2. (\A f \in Flushers : ~Running(f)) => Unresolved(outbox, 1)'
      BY <1>q, <2>2, <2>6, <2>7 DEF ToSend, Unresolved, Resolved
    <3>3. ASSUME NEW f \in Flushers, Running(f)
          PROVE  Unresolved(outbox, cursor[f])'
                 /\ Unresolved(remaining[f], 1)'
      BY <1>q, <2>2, <2>6, <2>7, <3>1, <3>3 DEF ToSend, Unresolved, Resolved
    <3> QED
      BY <2>2, <3>2, <3>3 DEF ToSend, Running
  <2> QED
    BY <2>2, <2>5, <2>7
<1>5. ASSUME NEW f \in Flushers, FlushStart(f) PROVE Goal
  <2>1. /\ ~Running(f) /\ remaining[f] = <<>>
        /\ UNCHANGED <<outbox, remaining, stage, delivered, deadLetter>>
        /\ ~overlapped' => /\ ~overlapped
                           /\ \A g \in Flushers : ~Running(g)
    BY <1>5, <1>q DEF FlushStart, WalkInv
  <2>2. /\ cursor'[f] = 1
        /\ \A g \in Flushers \ {f} : cursor'[g] = cursor[g]
    BY <1>5, <1>q DEF FlushStart, TypeOK
  <2>3. /\ UnsentUnresolved'
        /\ ~overlapped => SingleFate'
    BY <1>q, <2>1 DEF UnsentUnresolved, SingleFate, Resolved
  <2>4. ASSUME ~overlapped' PROVE ToSend'
    <3>1. Unresolved(outbox, 1)'
      BY <1>q, <2>1, <2>4 DEF ToSend, Unresolved, Resolved
    <3>2. Unresolved(remaining[f], 1)'
      BY <2>1 DEF Unresolved
    <3>3. \A g \in Flushers \ {f} : ~Running(g)'
      BY <2>1, <2>2, <2>4 DEF Running
    <3> QED
      BY <2>2, <3>1, <3>2, <3>3 DEF ToSend
  <2> QED
    BY <2>1, <2>3, <2>4
<1>6. ASSUME NEW f \in Flushers, NEW ok \in BOOLEAN, AttemptSettles(f, ok)
      PROVE  /\ UnsentUnresolved' /\ overlapped' = overlapped
             /\ ~overlapped => \A g \in Flushers : Running(g) => g = f
  <2>1. /\ Running(f) /\ stage' = stage /\ overlapped' = overlapped
        /\ current[f].msg \in Messages /\ stage[current[f].msg] = "queued"
        /\ deadLetter \in [Messages -> Nat]
    BY <1>6, <1>q, KeptType DEF AttemptSettles, QueuedOnly, TypeOK
  <2>2. \A x \in Messages \ {current[f].msg} : Resolved(x)' <=> Resolved(x)
    BY <1>6, <2>1 DEF AttemptSettles, Resolved
  <2>3. UnsentUnresolved'
    BY <1>q, <2>1, <2>2 DEF UnsentUnresolved
  <2> QED
    BY <1>q, <2>1, <2>3 DEF WalkInv
<1>7. ASSUME NEW f \in Flushers, NEW ok \in BOOLEAN, FlushNext(f, ok)
      PROVE  Goal
  <2>1. AttemptSettles(f, ok)
    BY <1>7 DEF FlushNext
  <2>2. /\ outbox' = outbox
        /\ cursor'[f] = cursor[f] + 1 /\ cursor[f] \in Nat
        /\ remaining'[f] = Kept(f, ok)
        /\ \A g \in Flushers \ {f} : cursor'[g] = cursor[g]
    BY <1>7, <1>q DEF FlushNext, TypeOK
  <2>3. ASSUME ~overlapped PROVE SingleFate' /\ ToSend'
    <3>1. /\ SingleFate'
          /\ \A i \in cursor[f] + 1 .. Len(outbox) :
                 ~NowResolved(outbox[i].msg)
          /\ \A k \in 1 .. Len(Kept(f, ok)) : ~NowResolved(Kept(f, ok)[k].msg)
      BY <2>1, <2>3, WalkedFate
    <3>2. Unresolved(outbox, cursor[f])' /\ Unresolved(remaining[f], 1)'
      BY <2>2, <3>1 DEF Unresolved, Resolved, NowResolved
    <3>3. Running(f)' /\ \A g \in Flushers \ {f} : ~Running(g)'
      BY <1>6, <2>1, <2>2, <2>3 DEF Running
    <3> QED
      BY <3>1, <3>2, <3>3 DEF ToSend
  <2> QED
    BY <1>6, <2>1, <2>3
<1>8. ASSUME NEW f \in Flushers, NEW ok \in BOOLEAN, FlushEnd(f, ok)
      PROVE  Goal
  <2>1. AttemptSettles(f, ok)
    BY <1>8 DEF FlushEnd
  <2>2. /\ outbox' = Kept(f, ok) /\ cursor'[f] = 0
        /\ \A g \in Flushers \ {f} : cursor'[g] = cursor[g]
    BY <1>8, <1>q DEF FlushEnd, TypeOK
  <2>3. ASSUME ~overlapped PROVE SingleFate' /\ ToSend'
    <3>1. /\ SingleFate'
          /\ \A k \in 1 .. Len(Kept(f, ok)) : ~NowResolved(Kept(f, ok)[k].msg)
      BY <2>1, <2>3, WalkedFate
    <3>2. Unresolved(outbox, 1)'
      BY <2>2, <3>1 DEF Unresolved, Resolved, NowResolved
    <3>3. \A g \in Flushers : ~Running(g)'
      BY <1>6, <2>1, <2>2, <2>3 DEF Running
    <3> QED
      BY <3>1, <3>2, <3>3 DEF ToSend
  <2> QED
    BY <1>6, <2>1, <2>3
<1>9. ASSUME UNCHANGED vars PROVE Goal
  BY <1>1, <1>9 DEF vars
<1> QED
  BY <1>2, <1>3, <1>4, <1>5, <1>7, <1>8, <1>9 DEF Next

(* As long as no two flushes have overlapped, a message is in the queue     *)
(* once, is given up once and never after it was delivered, and is gone     *)
(* from the queue after the flush that settled it (store.ts:76-90).         *)
THEOREM OneFateAloneHolds == Spec => []OneFateAlone
<1>1. Init => FateInv
  <2> SUFFICES ASSUME Init PROVE FateInv
    OBVIOUS
  <2>1. WalkInv
    BY TypeInit DEF Init, WalkInv, QueuedInv, QueuedOnly, AllQueued, Running,
                    Distinct, Walking
  <2>2. UnsentUnresolved /\ SingleFate /\ ToSend
    BY DEF Init, UnsentUnresolved, SingleFate, ToSend, Unresolved, Resolved,
           Running
  <2> QED
    BY <2>1, <2>2 DEF FateInv
<1>2. FateInv => OneFateAlone
  BY DEF FateInv, WalkInv, Distinct, SingleFate, ToSend, Unresolved, Holds,
         OneFateAlone
<1> QED
  BY <1>1, <1>2, FateNext, PTL DEF Spec

-----------------------------------------------------------------------------
(* Every step is one of the store or leaves the store alone.                *)
LEMMA StoreStep == [ExchangeNext]_allVars => [Next]_vars
<1> SUFFICES ASSUME [ExchangeNext]_allVars PROVE [Next]_vars
  OBVIOUS
<1>1. ASSUME NEW m \in Messages, Send(m) \/ SendSettles(m) PROVE Next
  BY <1>1 DEF Send, SendSettles, Next
<1>2. ASSUME NEW f \in Flushers, FlushCalled(f) \/ FlushSettles(f) PROVE Next
  BY <1>2 DEF FlushCalled, FlushSettles, Next
<1>3. ASSUME NEW m \in Messages, SendWrites(m) \/ AckLost(m) \/ Arrive(m)
      PROVE  UNCHANGED vars
  BY <1>3 DEF SendWrites, Write, AckLost, Arrive
<1>4. ASSUME NEW f \in Flushers, FlushWrites(f) PROVE UNCHANGED vars
  BY <1>4 DEF FlushWrites, Write
<1>5. ASSUME NEW p \in Peers,
             \/ Announce(p) \/ ContactAgain(p) \/ ContactFirst(p) \/ Sweep(p)
             \/ CheckInbox(p) \/ PeerDown(p) \/ PeerUp(p) \/ PeerRestart(p)
      PROVE  UNCHANGED vars
  BY <1>5 DEF Announce, ContactAgain, ContactFirst, Sweep, CheckInbox,
              PeerDown, PeerUp, PeerRestart
<1>6. ASSUME UNCHANGED allVars PROVE UNCHANGED vars
  BY <1>6 DEF allVars
<1> QED
  BY <1>1, <1>2, <1>3, <1>4, <1>5, <1>6 DEF ExchangeNext

(* The store among its peers and their events is the store on its own: what *)
(* holds of it whatever the transport answers and whenever it is flushed    *)
(* holds here.                                                              *)
THEOREM ExchangeImplementsStore == ExchangeSpec => Spec
<1>1. ExchangeInit => Init
  BY DEF ExchangeInit
<1> QED
  BY <1>1, StoreStep, PTL DEF ExchangeSpec, Spec

-----------------------------------------------------------------------------
(* What the receiving side keeps: a set of seen envelopes per run.          *)
ReceiverInv ==
    /\ run \in [Peers -> Nat]
    /\ seen \subseteq Messages
    /\ handled \in [Messages -> Nat]
    /\ \A m \in Messages :
          /\ handled[m] <= run[PeerOf[m]]
          /\ m \notin seen => handled[m] + 1 <= run[PeerOf[m]]

LEMMA ReceiverInit == ExchangeInit => ReceiverInv
BY ExchangeTypes DEF ExchangeInit, ReceiverInv

LEMMA ReceiverNext == ReceiverInv /\ [ExchangeNext]_allVars => ReceiverInv'
<1> SUFFICES ASSUME ReceiverInv, [ExchangeNext]_allVars PROVE ReceiverInv'
  OBVIOUS
<1> USE ExchangeTypes DEF ReceiverInv
<1>1. ASSUME NEW m \in Messages, Send(m) \/ SendSettles(m) \/ AckLost(m)
      PROVE  ReceiverInv'
  BY <1>1 DEF Send, SendSettles, Settles, AckLost, network, peers
<1>2. ASSUME NEW m \in Messages, SendWrites(m) PROVE ReceiverInv'
  BY <1>2 DEF SendWrites, Write, peers
<1>3. ASSUME NEW m \in Messages, Arrive(m) PROVE ReceiverInv'
  BY <1>3 DEF Arrive, Received
<1>4. ASSUME NEW f \in Flushers, FlushCalled(f) \/ FlushSettles(f)
      PROVE  ReceiverInv'
  BY <1>4 DEF FlushCalled, FlushSettles, Settles, network, peers
<1>5. ASSUME NEW f \in Flushers, FlushWrites(f) PROVE ReceiverInv'
  BY <1>5 DEF FlushWrites, Write, peers
<1>6. ASSUME NEW p \in Peers,
             \/ Announce(p) \/ ContactAgain(p) \/ ContactFirst(p) \/ Sweep(p)
             \/ CheckInbox(p) \/ PeerDown(p) \/ PeerUp(p)
      PROVE  ReceiverInv'
  BY <1>6 DEF Announce, ContactAgain, ContactFirst, Sweep, CheckInbox,
              PeerDown, PeerUp, network, peers
<1>7. ASSUME NEW p \in Peers, PeerRestart(p) PROVE ReceiverInv'
  BY <1>7 DEF PeerRestart, To, network
<1>8. ASSUME UNCHANGED allVars PROVE ReceiverInv'
  BY <1>8 DEF allVars, network, peers
<1> QED
  BY <1>1, <1>2, <1>3, <1>4, <1>5, <1>6, <1>7, <1>8 DEF ExchangeNext

(* A run of a peer handles a message once at most, over however many        *)
(* attempts, sockets and flushes it arrives (transport.ts:293).             *)
THEOREM HandledOncePerRunHolds == ExchangeSpec => []HandledOncePerRun
<1>1. ReceiverInv => HandledOncePerRun
  BY DEF ReceiverInv, HandledOncePerRun
<1> QED
  BY <1>1, ReceiverInit, ReceiverNext, PTL DEF ExchangeSpec

-----------------------------------------------------------------------------
(* Where the one envelope of a message that is not queued can be.           *)
Untouched(m) == m \notin wire /\ m \notin acks /\ handled[m] = 0

Single(m) ==
    /\ stage[m] = "new" => Untouched(m)
    /\ stage[m] = "sending" /\ BySend(m) \notin written => Untouched(m)
    /\ stage[m] = "sending" =>
          /\ m \in wire => m \notin acks /\ handled[m] = 0
          /\ m \in acks => handled[m] = 1
          /\ handled[m] \in 0 .. 1
    /\ stage[m] = "delivered" => m \notin wire /\ handled[m] = 1

OnceInv ==
    /\ QueuedInv
    /\ handled \in [Messages -> Nat]
    /\ \A m \in Messages : m \in seen => handled[m] > 0
    /\ \A m \in Messages : Single(m)

(* The two kinds of attempt are told apart by their first component.        *)
LEMMA AttemptsDiffer ==
    /\ \A m, f : BySend(m) # ByFlush(f)
    /\ \A m, n : BySend(m) = BySend(n) => m = n
BY DEF BySend, ByFlush

LEMMA OnceNext == OnceInv /\ [ExchangeNext]_allVars => OnceInv'
<1> SUFFICES ASSUME OnceInv, [ExchangeNext]_allVars
             PROVE  /\ handled' \in [Messages -> Nat]
                    /\ \A m \in Messages : m \in seen' => handled'[m] > 0
                    /\ \A m \in Messages : Single(m)'
  BY StoreStep, QueuedNext DEF OnceInv
<1> DEFINE Goal == /\ handled' \in [Messages -> Nat]
                   /\ \A m \in Messages : m \in seen' => handled'[m] > 0
                   /\ \A m \in Messages : Single(m)'
<1> USE DEF OnceInv
<1>0. stage \in [Messages -> {"new", "sending", "delivered", "queued"}]
  BY DEF QueuedInv, TypeOK
<1>1. ASSUME NEW m \in Messages, Send(m) PROVE Goal
  BY <1>0, <1>1 DEF Send, SendStart, network, peers, Single, Untouched
<1>2. ASSUME NEW m \in Messages, SendWrites(m) PROVE Goal
  BY <1>0, <1>2, AttemptsDiffer
     DEF SendWrites, Write, vars, peers, Single, Untouched
<1>3. ASSUME NEW m \in Messages, SendSettles(m) PROVE Goal
  <2>1. /\ UNCHANGED <<handled, seen, wire>>
        /\ written' = written \ {BySend(m)}
        /\ acks' \subseteq acks
        /\ \A x \in Messages \ {m} : stage'[x] = stage[x]
                                      /\ (x \in acks' <=> x \in acks)
        /\ \/ stage'[m] = "queued"
           \/ /\ stage'[m] = "delivered" /\ stage[m] = "sending"
              /\ m \in acks
    BY <1>0, <1>3 DEF SendSettles, SendDelivered, SendFailed, Settles, peers
  <2> QED
    BY <1>0, <2>1, AttemptsDiffer DEF Single, Untouched
<1>4. ASSUME NEW m \in Messages, AckLost(m) PROVE Goal
  BY <1>0, <1>4 DEF AckLost, vars, peers, Single, Untouched
<1>5. ASSUME NEW m \in Messages, Arrive(m) PROVE Goal
  <2>1. /\ UNCHANGED <<stage, written>>
        /\ m \in wire /\ wire' = wire \ {m} /\ acks' = acks \cup {m}
        /\ seen' = seen \cup {m}
        /\ handled' = IF m \in seen THEN handled
                      ELSE [handled EXCEPT ![m] = handled[m] + 1]
    BY <1>5 DEF Arrive, Received, vars
  <2> QED
    BY <1>0, <2>1 DEF Single, Untouched
<1>6. ASSUME NEW f \in Flushers, FlushCalled(f) PROVE Goal
  BY <1>0, <1>6 DEF FlushCalled, FlushStart, network, peers, Single, Untouched
<1>7. ASSUME NEW f \in Flushers, FlushWrites(f) PROVE Goal
  <2>1. stage[current[f].msg] = "queued"
    BY <1>7 DEF FlushWrites, QueuedInv, QueuedOnly
  <2> QED
    BY <1>0, <1>7, <2>1, AttemptsDiffer
       DEF FlushWrites, Write, vars, peers, Single, Untouched
<1>8. ASSUME NEW f \in Flushers, FlushSettles(f) PROVE Goal
  <2>1. stage[current[f].msg] = "queued" /\ stage' = stage
    BY <1>8 DEF FlushSettles, FlushNext, FlushEnd, AttemptSettles, QueuedInv,
                QueuedOnly
  <2>2. /\ UNCHANGED <<handled, seen, wire>>
        /\ written' = written \ {ByFlush(f)}
        /\ acks' = acks \/ acks' = acks \ {current[f].msg}
    BY <1>8 DEF FlushSettles, Settles, peers
  <2> QED
    BY <1>0, <2>1, <2>2, AttemptsDiffer DEF Single, Untouched
<1>9. ASSUME NEW p \in Peers,
             \/ Announce(p) \/ ContactAgain(p) \/ ContactFirst(p) \/ Sweep(p)
             \/ CheckInbox(p) \/ PeerUp(p)
      PROVE  Goal
  <2>1. UNCHANGED <<stage, handled, seen, wire, acks, written>>
    BY <1>9 DEF Announce, ContactAgain, ContactFirst, Sweep, CheckInbox,
                PeerUp, vars, network, peers
  <2> QED
    BY <2>1 DEF Single, Untouched
<1>10. ASSUME NEW p \in Peers, PeerDown(p) \/ PeerRestart(p) PROVE Goal
  <2>1. /\ UNCHANGED <<stage, handled, acks, written>>
        /\ wire' \subseteq wire /\ seen' \subseteq seen
    BY <1>10 DEF PeerDown, PeerRestart, vars, network
  <2> QED
    BY <2>1 DEF Single, Untouched
<1>11. ASSUME UNCHANGED allVars PROVE Goal
  BY <1>11 DEF allVars, vars, network, peers, Single, Untouched
<1> QED
  BY <1>1, <1>2, <1>3, <1>4, <1>5, <1>6, <1>7, <1>8, <1>9, <1>10, <1>11
     DEF ExchangeNext

(* A send() that has reported "delivered" was handled by one run of its     *)
(* peer, once: every message two runs handle was reported as queued         *)
(* (store.ts:46-55).                                                        *)
THEOREM ReportedDeliveredOnceHolds == ExchangeSpec => []ReportedDeliveredOnce
<1>1. ExchangeInit => OnceInv
  <2>1. Init => QueuedInv
    BY TypeInit DEF Init, QueuedInv, QueuedOnly, AllQueued, Running
  <2> QED
    BY <2>1 DEF ExchangeInit, Init, OnceInv, Single, Untouched
<1>2. OnceInv => ReportedDeliveredOnce
  BY DEF OnceInv, Single, ReportedDeliveredOnce
<1> QED
  BY <1>1, <1>2, OnceNext, PTL DEF ExchangeSpec

-----------------------------------------------------------------------------
(* What a message's first run has seen, acknowledged or, by that ack, been  *)
(* told delivered is in its inbox or was read there.                        *)
Reached(m) == m \in unread \/ m \in read

ReachInv ==
    /\ run \in [Peers -> Nat \ {0}]
    /\ \A m \in Messages :
          run[PeerOf[m]] = 1 =>
              (m \in seen \/ m \in acks \/ m \in delivered => Reached(m))

LEMMA ReachNext == ReachInv /\ [ExchangeNext]_allVars => ReachInv'
<1> SUFFICES ASSUME ReachInv, [ExchangeNext]_allVars PROVE ReachInv'
  OBVIOUS
<1> USE ExchangeTypes DEF ReachInv, Reached
<1>1. ASSUME NEW m \in Messages, Send(m) \/ SendWrites(m) \/ AckLost(m)
      PROVE  ReachInv'
  BY <1>1 DEF Send, SendStart, SendWrites, Write, AckLost, vars, network, peers
\* An attempt delivers what was acknowledged.
<1>2. ASSUME NEW m \in Messages, SendSettles(m) PROVE ReachInv'
  <2>1. /\ UNCHANGED <<run, seen, unread, read>>
        /\ acks' \subseteq acks
        /\ delivered' = delivered \/ (delivered' = delivered \cup {m}
                                      /\ m \in acks)
    BY <1>2 DEF SendSettles, SendDelivered, SendFailed, Settles, peers
  <2> QED
    BY <2>1
<1>3. ASSUME NEW m \in Messages, Arrive(m) PROVE ReachInv'
  <2>1. /\ UNCHANGED <<run, read, delivered>>
        /\ acks' = acks \cup {m} /\ seen' = seen \cup {m}
        /\ unread' = IF m \in seen THEN unread ELSE unread \cup {m}
    BY <1>3 DEF Arrive, Received, vars
  <2> QED
    BY <2>1
<1>4. ASSUME NEW f \in Flushers, FlushCalled(f) \/ FlushWrites(f)
      PROVE  ReachInv'
  BY <1>4 DEF FlushCalled, FlushStart, FlushWrites, Write, vars, network, peers
<1>5. ASSUME NEW f \in Flushers, FlushSettles(f) PROVE ReachInv'
  <2> DEFINE m == current[f].msg
  <2>1. /\ UNCHANGED <<run, seen, unread, read>>
        /\ acks' \subseteq acks
        /\ delivered' = delivered \/ (delivered' = delivered \cup {m}
                                      /\ m \in acks)
    BY <1>5 DEF FlushSettles, FlushNext, FlushEnd, AttemptSettles, Settles,
                peers
  <2> HIDE DEF m
  <2> QED
    BY <2>1
<1>6. ASSUME NEW p \in Peers,
             \/ Announce(p) \/ ContactAgain(p) \/ ContactFirst(p) \/ Sweep(p)
             \/ PeerDown(p) \/ PeerUp(p)
      PROVE  ReachInv'
  BY <1>6 DEF Announce, ContactAgain, ContactFirst, Sweep, PeerDown, PeerUp,
              vars, network, peers
<1>7. ASSUME NEW p \in Peers, CheckInbox(p) PROVE ReachInv'
  BY <1>7 DEF CheckInbox, vars, network
<1>8. ASSUME NEW p \in Peers, PeerRestart(p) PROVE ReachInv'
  <2>1. \A m \in Messages : PeerOf[m] = p => run'[PeerOf[m]] # 1
    BY <1>8 DEF PeerRestart
  <2>2. \A m \in Messages \ To(p) : m \in unread => m \in unread'
    BY <1>8 DEF PeerRestart
  <2>3. run' \in [Peers -> Nat \ {0}]
    BY <1>8 DEF PeerRestart
  <2>4. \A m \in Messages : PeerOf[m] # p => run'[PeerOf[m]] = run[PeerOf[m]]
    BY <1>8 DEF PeerRestart
  <2>5. UNCHANGED <<acks, delivered, read>> /\ seen' \subseteq seen
    BY <1>8 DEF PeerRestart, vars, network
  <2> QED
    BY <2>1, <2>2, <2>3, <2>4, <2>5 DEF To
<1>9. ASSUME UNCHANGED allVars PROVE ReachInv'
  BY <1>9 DEF allVars, vars, network, peers
<1> QED
  BY <1>1, <1>2, <1>3, <1>4, <1>5, <1>6, <1>7, <1>8, <1>9 DEF ExchangeNext

(* What an attempt delivered is not lost between the ack and the agent: it  *)
(* has been read or is in the inbox, as long as the peer runs its first     *)
(* time (store.ts:103-118).                                                 *)
THEOREM DeliveredReachesAgentHolds == ExchangeSpec => []DeliveredReachesAgent
<1>1. ExchangeInit => ReachInv
  BY DEF ExchangeInit, Init, ReachInv
<1>2. TypeOK /\ ReachInv => DeliveredReachesAgent
  BY DEF TypeOK, ReachInv, Reached, DeliveredReachesAgent
<1>3. ExchangeSpec => []TypeOK
  BY ExchangeImplementsStore, TypeCorrect, PTL
<1> QED
  BY <1>1, <1>2, <1>3, ReachNext, PTL DEF ExchangeSpec
==============================================================================
