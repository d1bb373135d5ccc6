------------------------------ MODULE Exchange ------------------------------
(***************************************************************************)
(* One node's store together with what it depends on: the peers it sends   *)
(* to, which go away, come back and restart (src/transport.ts and          *)
(* src/store.ts on their side), and its directory (src/discovery.ts),      *)
(* whose peer-online events are the only thing that starts a flush         *)
(* (src/plugin.ts:252).                                                    *)
(*                                                                         *)
(* A restart or rebuild of a peer is a new run: a new id in the directory, *)
(* an empty set of seen envelopes and an empty inbox.  Every attempt of    *)
(* the store writes its envelope once at most; a written envelope may      *)
(* arrive after the attempt was given up.  Messages have one addressee;    *)
(* addresses are right (see Discovery) and no peer is listed by hand.      *)
(***************************************************************************)
EXTENDS Store, FiniteSets

CONSTANTS
    Peers,
    PeerOf,       \* whom each message is for
    MaxRuns       \* bound on the runs of a peer

ASSUME ExchangeTypes ==
    /\ PeerOf \in [Messages -> Peers]
    /\ MaxRuns \in Nat \ {0}

VARIABLES
    run,        \* which run of the peer is the latest
    up,         \* peers that can be reached
    seen,       \* this.seen of the latest run of each message's peer
    wire,       \* envelopes on their way to the peer
    acks,       \* acks on their way back
    written,    \* attempts that have written their envelope
    listed,     \* per peer: ids of the directory's entries of its name
    knownNames, \* this.knownNames
    due,        \* flush() calls the event handler at work has still to make
    unread,     \* inbox entries that checkInbox has not returned yet
    handled,    \* history: how often 'envelope' was emitted for a message
    read        \* history: messages some checkInbox has returned

directory == <<listed, knownNames, due>>
network == <<wire, acks, written>>
peers == <<run, up, seen, unread, handled, read>>
allVars == <<vars, directory, network, peers>>

Runs == 1 .. MaxRuns
KnownId == 0        \* `known:name`; a run's id is a uuid of its own
Ids == Runs \cup {KnownId}

BySend(m) == <<"send", m>>
ByFlush(f) == <<"flush", f>>
Attempts == {BySend(m) : m \in Messages} \cup {ByFlush(f) : f \in Flushers}

ExchangeTypeOK ==
    /\ TypeOK
    /\ run \in [Peers -> Runs]
    /\ up \subseteq Peers
    /\ seen \subseteq Messages
    /\ wire \subseteq Messages
    /\ acks \subseteq Messages
    /\ written \subseteq Attempts
    /\ listed \in [Peers -> SUBSET Ids]
    /\ knownNames \subseteq Peers
    /\ due \in Nat
    /\ unread \subseteq Messages
    /\ handled \in [Messages -> Nat]
    /\ read \subseteq Messages

\* Discovery.start() has listed the peers known from the settings.
ExchangeInit ==
    /\ Init
    /\ run = [p \in Peers |-> 1]
    /\ up \in SUBSET Peers
    /\ seen = {} /\ wire = {} /\ acks = {} /\ written = {}
    /\ knownNames \in SUBSET Peers
    /\ listed = [p \in Peers |-> IF p \in knownNames THEN {KnownId} ELSE {}]
    /\ due = 0
    /\ unread = {} /\ read = {}
    /\ handled = [m \in Messages |-> 0]

To(p) == {m \in Messages : PeerOf[m] = p}

-----------------------------------------------------------------------------
(* Directory: who is listed, and how many peer-online events that causes *)

\* upsertKnown() deletes the first entry of the name.  Which one stands first
\* is left open: module Discovery has the order.
WithoutFirst(ids) == IF ids = {} THEN {{}} ELSE {ids \ {i} : i \in ids}

Idle == {f \in Flushers : ~Running(f)}

\* Every event calls flush(); on an empty outbox that does nothing.  As many
\* calls as there are idle flushers are kept.
FlushesDue(events) ==
    IF outbox = <<>> THEN due' = 0
    ELSE /\ Idle # {}
         /\ due' = IF events <= Cardinality(Idle) THEN events
                   ELSE Cardinality(Idle)

\* Mutant: an announcement adds its entry without an event.
AnnounceQuiet(p) ==
    /\ due = 0
    /\ p \in up
    /\ run[p] \notin listed[p]
    /\ listed' = [listed EXCEPT ![p] = @ \cup {run[p]}]
    /\ due' = 0
    /\ UNCHANGED <<vars, knownNames, network, peers>>

\* An announcement of an id that is not listed; any other one refreshes
\* lastSeen only.
Announce(p) ==
    /\ due = 0
    /\ p \in up
    /\ run[p] \notin listed[p]
    /\ listed' = [listed EXCEPT ![p] = @ \cup {run[p]}]
    /\ FlushesDue(1)
    /\ UNCHANGED <<vars, knownNames, network, peers>>

\* An envelope of p that is not its first one replaces an entry of its name.
ContactAgain(p) ==
    /\ due = 0
    /\ p \in up \cap knownNames
    /\ \E rest \in WithoutFirst(listed[p]) :
          /\ listed' = [listed EXCEPT ![p] = rest \cup {run[p]}]
          /\ FlushesDue(IF run[p] \in rest THEN 0 ELSE 1)
    /\ UNCHANGED <<vars, knownNames, network, peers>>

\* The first one also lists all known names anew, under `known:name`: one
\* handler causes several events and with them several flushes at once.
ContactFirst(p) ==
    /\ due = 0
    /\ p \in up \ knownNames
    /\ knownNames' = knownNames \cup {p}
    /\ \E rest \in WithoutFirst(listed[p]), kept \in [Peers -> SUBSET Ids] :
          LET learned == [listed EXCEPT ![p] = rest \cup {run[p]}]
              news == {q \in knownNames' : KnownId \notin kept[q]}
          IN  /\ \A q \in Peers : IF q \in knownNames'
                                   THEN kept[q] \in WithoutFirst(learned[q])
                                   ELSE kept[q] = learned[q]
              /\ listed' = [q \in Peers |->
                              IF q \in knownNames' THEN kept[q] \cup {KnownId}
                              ELSE kept[q]]
              /\ FlushesDue((IF run[p] \in rest THEN 0 ELSE 1)
                             + Cardinality(news))
    /\ UNCHANGED <<vars, network, peers>>

\* The sweep spares known names; a run that is up is seen every second.
Sweep(p) ==
    /\ due = 0
    /\ p \notin knownNames
    /\ LET fresh == IF p \in up THEN {run[p]} ELSE {}
       IN  /\ ~(listed[p] \subseteq fresh)
           /\ listed' = [listed EXCEPT ![p] = @ \cap fresh]
    /\ UNCHANGED <<vars, knownNames, due, network, peers>>

-----------------------------------------------------------------------------
(* The store's attempts *)

\* Nobody listed to send to: the message is not sent at all ("offline").
Send(m) ==
    /\ due = 0
    /\ listed[PeerOf[m]] # {}
    /\ SendStart(m)
    /\ UNCHANGED <<directory, network, peers>>

\* An event's flush() runs up to its first await within the handler.
FlushCalled(f) ==
    /\ due > 0
    /\ due' = due - 1
    /\ FlushStart(f)
    /\ UNCHANGED <<listed, knownNames, network, peers>>

\* Transport.deliver(): the dial has succeeded.
Write(a, m) ==
    /\ due = 0
    /\ a \notin written
    /\ PeerOf[m] \in up
    /\ wire' = wire \cup {m}
    /\ written' = written \cup {a}
    /\ UNCHANGED <<vars, directory, acks, peers>>

SendWrites(m) == stage[m] = "sending" /\ Write(BySend(m), m)

FlushWrites(f) == Running(f) /\ Write(ByFlush(f), current[f].msg)

\* Mutant: the attempt succeeds once its envelope is written.
SettlesUnacked(a, m, ok) ==
    /\ due = 0
    /\ ok => a \in written
    /\ written' = written \ {a}
    /\ acks' = IF ok THEN acks \ {m} ELSE acks
    /\ UNCHANGED <<directory, wire, peers>>

\* An attempt succeeds by an ack of its id and may fail at any time.
Settles(a, m, ok) ==
    /\ due = 0
    /\ ok => a \in written /\ m \in acks
    /\ written' = written \ {a}
    /\ acks' = IF ok THEN acks \ {m} ELSE acks
    /\ UNCHANGED <<directory, wire, peers>>

SendSettles(m) ==
    \/ SendDelivered(m) /\ Settles(BySend(m), m, TRUE)
    \/ SendFailed(m) /\ Settles(BySend(m), m, FALSE)

FlushSettles(f) ==
    \E ok \in BOOLEAN :
        /\ FlushNext(f, ok) \/ FlushEnd(f, ok)
        /\ Settles(ByFlush(f), current[f].msg, ok)

AckLost(m) ==
    /\ due = 0
    /\ m \in acks
    /\ acks' = acks \ {m}
    /\ UNCHANGED <<vars, directory, wire, written, peers>>

-----------------------------------------------------------------------------
(* The peers *)

\* Mutant: the ack is sent, the envelope is not remembered.
ReceivedForgotten(m) ==
    /\ UNCHANGED seen
    /\ handled' = [handled EXCEPT ![m] = @ + 1]
    /\ unread' = unread \cup {m}

\* Mutant: the envelope is remembered but does not enter the inbox.
ReceivedUnlisted(m) ==
    /\ seen' = seen \cup {m}
    /\ handled' = IF m \in seen THEN handled ELSE [handled EXCEPT ![m] = @ + 1]
    /\ UNCHANGED unread

\* Acknowledged in any case, handed on when it is new, delivered to the inbox.
Received(m) ==
    /\ seen' = seen \cup {m}
    /\ handled' = IF m \in seen THEN handled ELSE [handled EXCEPT ![m] = @ + 1]
    /\ unread' = IF m \in seen THEN unread ELSE unread \cup {m}

Arrive(m) ==
    /\ due = 0
    /\ m \in wire /\ PeerOf[m] \in up
    /\ wire' = wire \ {m}
    /\ acks' = acks \cup {m}
    /\ Received(m)
    /\ UNCHANGED <<vars, directory, written, run, up, read>>

\* The peer's agent reads what it has not read yet.
CheckInbox(p) ==
    /\ due = 0
    /\ p \in up
    /\ unread \cap To(p) # {}
    /\ unread' = unread \ To(p)
    /\ read' = read \cup (unread \cap To(p))
    /\ UNCHANGED <<vars, directory, network, run, up, seen, handled>>

\* Its sockets break.
PeerDown(p) ==
    /\ due = 0
    /\ p \in up
    /\ up' = up \ {p}
    /\ wire' = wire \ To(p)
    /\ UNCHANGED <<vars, directory, acks, written, run, seen, unread, handled,
                   read>>

\* The network is back.
PeerUp(p) ==
    /\ due = 0
    /\ p \notin up
    /\ up' = up \cup {p}
    /\ UNCHANGED <<vars, directory, network, run, seen, unread, handled, read>>

\* A new process, or a node rebuilt after a heavy edit.
PeerRestart(p) ==
    /\ due = 0
    /\ p \notin up /\ run[p] < MaxRuns
    /\ up' = up \cup {p}
    /\ run' = [run EXCEPT ![p] = @ + 1]
    /\ seen' = seen \ To(p)
    /\ unread' = unread \ To(p)
    /\ UNCHANGED <<vars, directory, network, handled, read>>

-----------------------------------------------------------------------------
ExchangeNext ==
    \/ \E m \in Messages : \/ Send(m) \/ SendWrites(m) \/ SendSettles(m)
                           \/ AckLost(m) \/ Arrive(m)
    \/ \E f \in Flushers : FlushCalled(f) \/ FlushWrites(f) \/ FlushSettles(f)
    \/ \E p \in Peers : \/ Announce(p) \/ ContactAgain(p) \/ ContactFirst(p)
                        \/ Sweep(p) \/ CheckInbox(p)
                        \/ PeerDown(p) \/ PeerUp(p) \/ PeerRestart(p)

ExchangeSpec == ExchangeInit /\ [][ExchangeNext]_allVars

\* A peer that is up announces itself every second on a multicast that works;
\* a handler makes its calls; attempts settle (Transport!CallSettles).
ExchangeFairness ==
    /\ \A p \in Peers : WF_allVars(Announce(p))
    /\ WF_allVars(\E f \in Flushers : FlushCalled(f))
    /\ \A f \in Flushers : WF_allVars(FlushSettles(f))

ExchangeFairSpec == ExchangeSpec /\ ExchangeFairness

-----------------------------------------------------------------------------
(* However often a message is sent again, over whatever sockets, a run of   *)
(* its peer handles it once at most (transport.ts:293): a message handled   *)
(* again was handled by another run, whose set of seen envelopes is empty   *)
(* (plugin.ts:182).                                                         *)
HandledOncePerRun ==
    \A m \in Messages : handled[m] <= run[PeerOf[m]]

(* A message that send() reported "delivered" was handled exactly once,     *)
(* whatever restarted since (store.ts:46-55): only a message reported as    *)
(* queued is ever handled by two runs.                                      *)
ReportedDeliveredOnce ==
    \A m \in Messages : stage[m] = "delivered" => handled[m] = 1

(* A message some attempt delivered has been read by the peer's agent or    *)
(* waits for its next look at the inbox, unless the peer has restarted      *)
(* since the first run (store.ts:103-118).                                  *)
DeliveredReachesAgent ==
    \A m \in delivered :
        run[PeerOf[m]] = 1 => m \in unread \/ m \in read

(* A peer that shows up under an id the directory does not hold gets what   *)
(* is queued for it attempted once more (plugin.ts:252, discovery.ts:330),  *)
(* unless it goes or another flush has dropped the message.                 *)
ReturnIsAttempted ==
    \A m \in Messages, n \in 0 .. MaxSendAttempts - 1 :
        LET p == PeerOf[m]
        IN  (/\ Holds(outbox, m) /\ failures[m] = n
             /\ p \in up /\ run[p] \notin listed[p]) ~>
                \/ failures[m] > n \/ Resolved(m)
                \/ p \notin up \/ ~Holds(outbox, m)

-----------------------------------------------------------------------------
(* What the documentation says and the code does not do.                    *)

(* "Durable local queue for outbound retry and inbound async delivery"      *)
(* (store.ts:33): what was delivered is there until the agent reads it.     *)
(* A restart or a rebuild of the peer empties its inbox.                    *)
InboxIsDurable == \A m \in delivered : m \in unread \/ m \in read
=============================================================================
