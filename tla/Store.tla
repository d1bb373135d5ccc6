------------------------------- MODULE Store -------------------------------
(***************************************************************************)
(* The outbound half of the node's store (src/store.ts): one transport     *)
(* attempt per send, a queue of the messages whose attempt failed, and     *)
(* flush, which walks the queue and awaits one transport attempt per       *)
(* entry.  plugin.ts:252-254 starts a flush on every peer-online event and *)
(* does not await it, so several flushes may walk the same live array.     *)
(* One action is the code between two awaits.  What the transport answers  *)
(* (see module Transport) is a choice.                                     *)
(***************************************************************************)
EXTENDS Naturals, Sequences

CONSTANTS
    Messages,         \* outbound (peer, envelope) pairs; ids are fresh uuids
    Flushers,         \* calls of flush() that may be in progress at once
    MaxSendAttempts   \* queued attempts before the dead letter, 5 by default

ASSUME SendAttemptsPositive == MaxSendAttempts \in Nat \ {0}

VARIABLES
    stage,        \* progress of send(m): new, sending, delivered or queued
    outbox,       \* this.outbox
    deadLetter,   \* how many entries of this.deadLetter hold the message
    cursor,       \* position of f's array iterator, 0 when f is not running
    current,      \* the entry f is sending
    remaining,    \* f's local list of entries to keep
    delivered,    \* history: messages some transport attempt delivered
    failures,     \* history: refused queued attempts, up to MaxSendAttempts
    overlapped    \* history: two flushes have been in progress at once

vars == <<stage, outbox, deadLetter, cursor, current, remaining, delivered,
          failures, overlapped>>

Entry == [msg : Messages, attempts : 0 .. MaxSendAttempts - 1]

NoEntry == <<>>

Running(f) == cursor[f] # 0

TypeOK ==
    /\ stage \in [Messages -> {"new", "sending", "delivered", "queued"}]
    /\ outbox \in Seq(Entry)
    /\ deadLetter \in [Messages -> Nat]
    /\ cursor \in [Flushers -> Nat]
    /\ current \in [Flushers -> Entry \cup {NoEntry}]
    /\ \A f \in Flushers : Running(f) => current[f] \in Entry
    /\ remaining \in [Flushers -> Seq(Entry)]
    /\ delivered \subseteq Messages
    /\ failures \in [Messages -> 0 .. MaxSendAttempts]
    /\ overlapped \in BOOLEAN

Init ==
    /\ stage = [m \in Messages |-> "new"]
    /\ outbox = <<>>
    /\ deadLetter = [m \in Messages |-> 0]
    /\ cursor = [f \in Flushers |-> 0]
    /\ current = [f \in Flushers |-> NoEntry]
    /\ remaining = [f \in Flushers |-> <<>>]
    /\ delivered = {}
    /\ failures = [m \in Messages |-> 0]
    /\ overlapped = FALSE

-----------------------------------------------------------------------------
(* send(peer, envelope) *)

SendStart(m) ==
    /\ stage[m] = "new"
    /\ stage' = [stage EXCEPT ![m] = "sending"]
    /\ UNCHANGED <<outbox, deadLetter, cursor, current, remaining, delivered,
                   failures, overlapped>>

SendDelivered(m) ==
    /\ stage[m] = "sending"
    /\ stage' = [stage EXCEPT ![m] = "delivered"]
    /\ delivered' = delivered \cup {m}
    /\ UNCHANGED <<outbox, deadLetter, cursor, current, remaining, failures,
                   overlapped>>

\* Mutant: the outbox is assigned instead of pushed to.
QueuedAlone(m) == <<[msg |-> m, attempts |-> 0]>>

Queued(m) == Append(outbox, [msg |-> m, attempts |-> 0])

SendFailed(m) ==
    /\ stage[m] = "sending"
    /\ stage' = [stage EXCEPT ![m] = "queued"]
    /\ outbox' = Queued(m)
    /\ UNCHANGED <<deadLetter, cursor, current, remaining, delivered,
                   failures, overlapped>>

-----------------------------------------------------------------------------
(* flush(): on an empty outbox it returns without a step *)

FlushStart(f) ==
    /\ ~Running(f)
    /\ outbox # <<>>
    /\ cursor' = [cursor EXCEPT ![f] = 1]
    /\ current' = [current EXCEPT ![f] = outbox[1]]
    /\ overlapped' = (overlapped \/ \E g \in Flushers : Running(g))
    /\ UNCHANGED <<stage, outbox, deadLetter, remaining, delivered, failures>>

\* Mutant: the comparison with maxSendAttempts is off by one.
IsDeadEarly(entry) == entry.attempts + 2 >= MaxSendAttempts

\* The attempt on this entry was its last one.
IsDead(entry) == entry.attempts + 1 >= MaxSendAttempts

Attempted(f) == [current[f] EXCEPT !.attempts = current[f].attempts + 1]

\* Mutant: unshift instead of push.
KeptInFront(f, ok) ==
    IF ok \/ IsDead(current[f]) THEN remaining[f]
    ELSE <<Attempted(f)>> \o remaining[f]

\* Mutant: what is given up is put back as well.
KeptDead(f, ok) == IF ok THEN remaining[f] ELSE Append(remaining[f], Attempted(f))

\* What the flush keeps of the entry it has just attempted.
Kept(f, ok) ==
    IF ok \/ IsDead(current[f])
    THEN remaining[f]
    ELSE Append(remaining[f], Attempted(f))

\* The transport answers f's attempt: delivered, kept or dead-lettered.
AttemptSettles(f, ok) ==
    LET m == current[f].msg
    IN  /\ Running(f)
        /\ delivered' = IF ok THEN delivered \cup {m} ELSE delivered
        /\ failures' = IF ok \/ failures[m] = MaxSendAttempts THEN failures
                       ELSE [failures EXCEPT ![m] = failures[m] + 1]
        /\ deadLetter' = IF ok \/ ~IsDead(current[f]) THEN deadLetter
                         ELSE [deadLetter EXCEPT ![m] = deadLetter[m] + 1]
        /\ UNCHANGED <<stage, overlapped>>

\* for (const entry of this.outbox) reads the live array: the iterator takes
\* whatever stands at its next position now, entries queued since included.
FlushNext(f, ok) ==
    /\ AttemptSettles(f, ok)
    /\ cursor[f] < Len(outbox)
    /\ remaining' = [remaining EXCEPT ![f] = Kept(f, ok)]
    /\ cursor' = [cursor EXCEPT ![f] = cursor[f] + 1]
    /\ current' = [current EXCEPT ![f] = outbox[cursor[f] + 1]]
    /\ UNCHANGED outbox

\* Mutant: the end of the array is missed by one.
FlushEndLate(f, ok) ==
    /\ AttemptSettles(f, ok)
    /\ cursor[f] > Len(outbox)
    /\ outbox' = Kept(f, ok)
    /\ cursor' = [cursor EXCEPT ![f] = 0]
    /\ current' = [current EXCEPT ![f] = NoEntry]
    /\ remaining' = [remaining EXCEPT ![f] = <<>>]

\* The iterator is exhausted: this.outbox.length = 0; push(...remaining).
FlushEnd(f, ok) ==
    /\ AttemptSettles(f, ok)
    /\ cursor[f] >= Len(outbox)
    /\ outbox' = Kept(f, ok)
    /\ cursor' = [cursor EXCEPT ![f] = 0]
    /\ current' = [current EXCEPT ![f] = NoEntry]
    /\ remaining' = [remaining EXCEPT ![f] = <<>>]

-----------------------------------------------------------------------------
Next ==
    \/ \E m \in Messages : SendStart(m) \/ SendDelivered(m) \/ SendFailed(m)
    \/ \E f \in Flushers : FlushStart(f)
    \/ \E f \in Flushers, ok \in BOOLEAN : FlushNext(f, ok) \/ FlushEnd(f, ok)

Spec == Init /\ [][Next]_vars

\* The transport settles every attempt (Transport!CallSettles): nothing is
\* assumed of when a flush is started.
Fairness ==
    \A f \in Flushers :
        WF_vars(\E ok \in BOOLEAN : FlushNext(f, ok) \/ FlushEnd(f, ok))

FairSpec == Spec /\ Fairness

-----------------------------------------------------------------------------
Holds(q, m) == \E i \in 1 .. Len(q) : q[i].msg = m

Resolved(m) == m \in delivered \/ deadLetter[m] > 0

(* Every message send() has reported "queued" is still in the outbox,      *)
(* delivered, or in the dead letter, as flush's comment promises           *)
(* (store.ts:62-66).  Two overlapping flushes break it.                    *)
NothingLost ==
    \A m \in Messages :
        stage[m] = "queued" => Holds(outbox, m) \/ Resolved(m)

(* While no two flushes have overlapped, no queued message is lost,        *)
(* whatever was queued during a flush (store.ts:67-92).                    *)
NothingLostAlone == ~overlapped => NothingLost

(* While no two flushes have overlapped a message has one fate: it is in   *)
(* the outbox once at most, it enters the dead letter once at most, never  *)
(* after a delivery, and between flushes the outbox holds no message that  *)
(* was delivered or given up (store.ts:76-90).                             *)
OneFateAlone ==
    ~overlapped =>
        /\ \A i, j \in 1 .. Len(outbox) :
               outbox[i].msg = outbox[j].msg => i = j
        /\ \A m \in Messages :
               /\ deadLetter[m] <= 1
               /\ ~(m \in delivered /\ deadLetter[m] > 0)
               /\ (\A f \in Flushers : ~Running(f))
                      => ~(Holds(outbox, m) /\ Resolved(m))

(* However flushes overlap, a message reaches the dead letter only after   *)
(* MaxSendAttempts refused attempts of its own (store.ts:81-84): the       *)
(* attempts of another message or of a lost copy never count for it.       *)
NoEarlyDeadLetter ==
    \A m \in Messages : deadLetter[m] > 0 => failures[m] = MaxSendAttempts

(* A flush that has overlapped no other one keeps the failed messages in   *)
(* the order they were queued in: a later entry never moves ahead of an    *)
(* earlier one (store.ts:69-90).                                           *)
QueueOrderKept ==
    [][ \A i, j \in 1 .. Len(outbox) : \A k, l \in 1 .. Len(outbox') :
          (/\ ~overlapped' /\ i < j
           /\ outbox[i].msg = outbox'[k].msg
           /\ outbox[j].msg = outbox'[l].msg) => k < l ]_vars

(* A started flush finishes although sends keep appending to the array it  *)
(* iterates over (store.ts:69): messages are finite, and a kept entry goes *)
(* to remaining, not back into the array.                                  *)
FlushTerminates == \A f \in Flushers : Running(f) ~> ~Running(f)

=============================================================================
