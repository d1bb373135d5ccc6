------------------------------ MODULE Transport ------------------------------
(***************************************************************************)
(* The WebSocket transport of every node (src/transport.ts): send() reuses *)
(* or dials a client socket, writes the envelope and waits for the ack the *)
(* peer returns for its id; the receiving side acknowledges first and then *)
(* drops the ids it has seen.  Sockets are FIFO in each direction and may  *)
(* break at any time, losing what is in flight.  One action is one         *)
(* callback of the event loop: a call of send, a connection attempt that   *)
(* ends, a frame, a timer, a socket's error or close event, or stop().     *)
(*                                                                         *)
(* Which calls a node makes is a parameter: Agent.send and Store.flush     *)
(* await one call before the next, and several of them may hold the same   *)
(* envelope (a broadcast, a retry).                                        *)
(***************************************************************************)
EXTENDS Naturals, Sequences

CONSTANTS
    Nodes,        \* a node stands for its host:port too
    Envelopes,    \* envelope ids
    Valid,        \* those validateEnvelope accepts
    Calls,        \* calls of send(peer, envelope)
    From,         \* From[c], To[c], EnvOf[c]: who sends what to whom
    To,
    EnvOf,
    AwaitedBy,    \* AwaitedBy[c]: calls the caller of c has awaited before
    Sockets,      \* identities for client sockets; the supply is a bound
    MaxRetries,   \* redials after a failed one, 5 by default
    Stoppable,    \* nodes that may stop
    NoCall, NoSocket

ASSUME CallTypes ==
    /\ Valid \subseteq Envelopes
    /\ From \in [Calls -> Nodes]
    /\ To \in [Calls -> Nodes]
    /\ EnvOf \in [Calls -> Envelopes]
    /\ AwaitedBy \in [Calls -> SUBSET Calls]
    /\ MaxRetries \in Nat
    /\ Stoppable \subseteq Nodes
    /\ NoCall \notin Calls
    /\ NoSocket \notin Sockets

\* The sender mints the id (agent.ts newEnvelope): one node sends it.
ASSUME IdsMintedBySender ==
    \A c, d \in Calls : EnvOf[c] = EnvOf[d] => From[c] = From[d]

VARIABLES
    stage,      \* progress of each call
    tries,      \* failed dials of a call
    sock,       \* socket the call wrote to
    pending,    \* this.pending of the node that minted the id: its waiter
    clients,    \* clients[n][m]: n's this.clients entry for m's address
    link,       \* per socket: readyState of the client end, and both ends
    toServer,   \* envelopes in flight
    toClient,   \* acks in flight
    seen,       \* this.seen of each node
    emitted,    \* history: 'envelope' events per node and id, up to 2
    stopped     \* nodes whose transport has been stopped

vars == <<stage, tries, sock, pending, clients, link, toServer, toClient,
          seen, emitted, stopped>>

Stages == {"idle", "dialing", "awaiting", "delivered", "failed"}

Settled(c) == stage[c] \in {"delivered", "failed"}

Unused == [state |-> "unused"]

Link == [state : {"open", "closing", "closed"}, client : Nodes, server : Nodes]

TypeOK ==
    /\ stage \in [Calls -> Stages]
    /\ tries \in [Calls -> 0 .. MaxRetries]
    /\ sock \in [Calls -> Sockets \cup {NoSocket}]
    /\ pending \in [Envelopes -> Calls \cup {NoCall}]
    /\ clients \in [Nodes -> [Nodes -> Sockets \cup {NoSocket}]]
    /\ link \in [Sockets -> Link \cup {Unused}]
    /\ toServer \in [Sockets -> Seq(Envelopes)]
    /\ toClient \in [Sockets -> Seq(Envelopes)]
    /\ seen \in [Nodes -> SUBSET Envelopes]
    /\ emitted \in [Nodes -> [Envelopes -> 0 .. 2]]
    /\ stopped \subseteq Nodes

Init ==
    /\ stage = [c \in Calls |-> "idle"]
    /\ tries = [c \in Calls |-> 0]
    /\ sock = [c \in Calls |-> NoSocket]
    /\ pending = [e \in Envelopes |-> NoCall]
    /\ clients = [n \in Nodes |-> [m \in Nodes |-> NoSocket]]
    /\ link = [s \in Sockets |-> Unused]
    /\ toServer = [s \in Sockets |-> <<>>]
    /\ toClient = [s \in Sockets |-> <<>>]
    /\ seen = [n \in Nodes |-> {}]
    /\ emitted = [n \in Nodes |-> [e \in Envelopes |-> 0]]
    /\ stopped = {}

-----------------------------------------------------------------------------
(* send(): connect, then deliver *)

\* Mutant: the call resolves when the frame is written, before the ack.
DeliverUnacked(c, s) ==
    /\ stage' = [stage EXCEPT ![c] = "delivered"]
    /\ sock' = [sock EXCEPT ![c] = s]
    /\ pending' = [pending EXCEPT ![EnvOf[c]] = c]
    /\ toServer' = [toServer EXCEPT ![s] = Append(@, EnvOf[c])]

\* deliver(): one waiter per envelope id, whoever waited before is forgotten.
Deliver(c, s) ==
    /\ stage' = [stage EXCEPT ![c] = "awaiting"]
    /\ sock' = [sock EXCEPT ![c] = s]
    /\ pending' = [pending EXCEPT ![EnvOf[c]] = c]
    /\ toServer' = [toServer EXCEPT ![s] = Append(@, EnvOf[c])]

\* The cached client socket serves the call if its readyState is OPEN.
Reusable(s) == s # NoSocket /\ link[s].state = "open"

MayStart(c) == stage[c] = "idle" /\ \A d \in AwaitedBy[c] : Settled(d)

SendReuse(c) ==
    /\ MayStart(c)
    /\ Reusable(clients[From[c]][To[c]])
    /\ Deliver(c, clients[From[c]][To[c]])
    /\ UNCHANGED <<tries, clients, link, toClient, seen, emitted, stopped>>

SendDial(c) ==
    /\ MayStart(c)
    /\ ~Reusable(clients[From[c]][To[c]])
    /\ stage' = [stage EXCEPT ![c] = "dialing"]
    /\ UNCHANGED <<tries, sock, pending, clients, link, toServer, toClient,
                   seen, emitted, stopped>>

\* The dial opens a socket: it replaces the cached one, whatever that is, and
\* the caller's own node may have been stopped meanwhile.
DialOpens(c, s) ==
    /\ stage[c] = "dialing"
    /\ To[c] \notin stopped
    /\ link[s] = Unused
    /\ link' = [link EXCEPT ![s] = [state |-> "open", client |-> From[c],
                                    server |-> To[c]]]
    /\ clients' = [clients EXCEPT ![From[c]][To[c]] = s]
    /\ Deliver(c, s)
    /\ UNCHANGED <<tries, toClient, seen, emitted, stopped>>

\* Mutant: the last failed dial is not noticed.
DialFailsNever(c) ==
    /\ stage[c] = "dialing"
    /\ tries[c] > MaxRetries
    /\ stage' = [stage EXCEPT ![c] = "failed"]
    /\ UNCHANGED <<tries, sock, pending, clients, link, toServer, toClient,
                   seen, emitted, stopped>>

\* A refused or timed-out dial is retried after a backoff, then gives up.
DialRetries(c) ==
    /\ stage[c] = "dialing"
    /\ tries[c] < MaxRetries
    /\ tries' = [tries EXCEPT ![c] = @ + 1]
    /\ UNCHANGED <<stage, sock, pending, clients, link, toServer, toClient,
                   seen, emitted, stopped>>

DialFails(c) ==
    /\ stage[c] = "dialing"
    /\ tries[c] = MaxRetries
    /\ stage' = [stage EXCEPT ![c] = "failed"]
    /\ UNCHANGED <<tries, sock, pending, clients, link, toServer, toClient,
                   seen, emitted, stopped>>

\* The ack timer of c fires: it deletes the waiter of the id, c or not.
AckTimeout(c) ==
    /\ stage[c] = "awaiting"
    /\ stage' = [stage EXCEPT ![c] = "failed"]
    /\ pending' = [pending EXCEPT ![EnvOf[c]] = NoCall]
    /\ UNCHANGED <<tries, sock, clients, link, toServer, toClient, seen,
                   emitted, stopped>>

-----------------------------------------------------------------------------
(* handleMessage() *)

\* Mutant: ids are not remembered.
IsDuplicateNever(n, e) == FALSE

IsDuplicate(n, e) == e \in seen[n]

Inc(k) == IF k < 2 THEN k + 1 ELSE k

\* Envelope: refused without an answer, or acknowledged and then emitted
\* unless its id was seen before.
RecvEnvelope(s) ==
    LET e == Head(toServer[s])
        n == link[s].server
    IN  /\ toServer[s] # <<>>
        /\ n \notin stopped
        /\ toServer' = [toServer EXCEPT ![s] = Tail(@)]
        /\ toClient' = IF e \in Valid /\ link[s].state # "closed"
                       THEN [toClient EXCEPT ![s] = Append(@, e)]
                       ELSE toClient
        /\ IF e \in Valid /\ ~IsDuplicate(n, e)
           THEN /\ seen' = [seen EXCEPT ![n] = @ \cup {e}]
                /\ emitted' = [emitted EXCEPT ![n][e] = Inc(@)]
           ELSE UNCHANGED <<seen, emitted>>
        /\ UNCHANGED <<stage, tries, sock, pending, clients, link, stopped>>

\* Mutant: the ack is matched to a waiter of its socket instead of its id.
WaiterOnSocket(s, e) ==
    LET W == {c \in Calls : pending[EnvOf[c]] = c /\ sock[c] = s}
    IN  IF W = {} THEN NoCall ELSE CHOOSE c \in W : TRUE

\* The call an ack settles: whoever waits for the id now, on any socket.
Waiter(s, e) == pending[e]

RecvAck(s) ==
    LET e == Head(toClient[s])
        c == Waiter(s, e)
    IN  /\ toClient[s] # <<>>
        /\ toClient' = [toClient EXCEPT ![s] = Tail(@)]
        /\ IF c = NoCall
           THEN UNCHANGED <<stage, pending>>
           ELSE /\ stage' = [stage EXCEPT ![c] = "delivered"]
                /\ pending' = [pending EXCEPT ![e] = NoCall]
        /\ UNCHANGED <<tries, sock, clients, link, toServer, seen, emitted,
                       stopped>>

-----------------------------------------------------------------------------
(* socket events and stop() *)

\* Every waiter among the calls in C is rejected.
Reject(C) ==
    /\ stage' = [c \in Calls |-> IF c \in C THEN "failed" ELSE stage[c]]
    /\ pending' = [e \in Envelopes |->
                      IF pending[e] \in C THEN NoCall ELSE pending[e]]

Waiters == {c \in Calls : pending[EnvOf[c]] = c}

\* Mutant: a broken socket fails nobody.
WaitersOnNone(s) == {}

\* failSocket(): the waiters that wrote to s.
WaitersOn(s) == {c \in Waiters : sock[c] = s}

\* Mutant: the cache entry stays.
UnregisteredNever(s) == clients

\* clients.delete(key) by an event of s, also when the key holds a newer one.
Unregistered(s) ==
    [clients EXCEPT ![link[s].client][link[s].server] = NoSocket]

\* The connection breaks, or the peer terminates it; no event yet.
SocketClosing(s) ==
    /\ link[s].state = "open"
    /\ link' = [link EXCEPT ![s].state = "closing"]
    /\ UNCHANGED <<stage, tries, sock, pending, clients, toServer, toClient,
                   seen, emitted, stopped>>

\* An 'error' event runs the handler; the 'close' event will run it again.
SocketError(s) ==
    /\ link[s].state = "open"
    /\ link' = [link EXCEPT ![s].state = "closing"]
    /\ clients' = Unregistered(s)
    /\ Reject(WaitersOn(s))
    /\ UNCHANGED <<tries, sock, toServer, toClient, seen, emitted, stopped>>

SocketClosed(s) ==
    /\ link[s].state = "closing"
    /\ link' = [link EXCEPT ![s].state = "closed"]
    /\ clients' = Unregistered(s)
    /\ toClient' = [toClient EXCEPT ![s] = <<>>]
    /\ Reject(WaitersOn(s))
    /\ UNCHANGED <<tries, sock, toServer, seen, emitted, stopped>>

\* The client sockets stop() terminates: those the map holds.
Terminated(n) == {clients[n][m] : m \in Nodes} \ {NoSocket}

Stop(n) ==
    /\ n \in Stoppable \ stopped
    /\ stopped' = stopped \cup {n}
    /\ Reject({c \in Waiters : From[c] = n})
    /\ link' = [s \in Sockets |->
                   IF s \in Terminated(n) /\ link[s].state = "open"
                   THEN [link[s] EXCEPT !.state = "closing"] ELSE link[s]]
    /\ clients' = [clients EXCEPT ![n] = [m \in Nodes |-> NoSocket]]
    /\ UNCHANGED <<tries, sock, toServer, toClient, seen, emitted>>

-----------------------------------------------------------------------------
CallNext(c) ==
    \/ SendReuse(c) \/ SendDial(c)
    \/ \E s \in Sockets : DialOpens(c, s)
    \/ DialRetries(c) \/ DialFails(c)
    \/ AckTimeout(c)

SocketNext(s) ==
    \/ RecvEnvelope(s) \/ RecvAck(s)
    \/ SocketClosing(s) \/ SocketError(s) \/ SocketClosed(s)

Next ==
    \/ \E c \in Calls : CallNext(c)
    \/ \E s \in Sockets : SocketNext(s)
    \/ \E n \in Nodes : Stop(n)

Spec == Init /\ [][Next]_vars

\* The connect and backoff timers end a dial, the ack timer ends a wait.
\* Nothing is assumed of the network.
Fairness ==
    \A c \in Calls : /\ WF_vars(DialRetries(c) \/ DialFails(c))
                     /\ WF_vars(AckTimeout(c))

FairSpec == Spec /\ Fairness

-----------------------------------------------------------------------------
\* No other call carries c's envelope: a targeted send that was not retried.
Alone(c) == \A d \in Calls : EnvOf[d] = EnvOf[c] => d = c

\* Each envelope goes to one peer: no broadcast.
Unicast == \A c, d \in Calls : EnvOf[c] = EnvOf[d] => To[c] = To[d]

(* However often an envelope is sent again, over whichever sockets, and     *)
(* whatever was lost, the node above sees it once (transport.ts:292-294).   *)
EmittedOnce == \A n \in Nodes, e \in Envelopes : emitted[n][e] <= 1

(* send() resolved, so the peer has the envelope: what the store reports as *)
(* delivered (transport.ts:202).  A late ack of another peer breaks it when *)
(* the envelope is a broadcast.                                             *)
DeliveredWasReceived ==
    \A c \in Calls : stage[c] = "delivered" => EnvOf[c] \in seen[To[c]]

(* A call that alone carries its envelope can be reached by everything that *)
(* settles it early, and no event of another call takes its slot: it is the *)
(* waiter of its id (transport.ts:254-265), on a socket that has not closed *)
(* (transport.ts:299-307), so that a broken connection fails it at once     *)
(* instead of after the ack timeout.                                        *)
FailsFast ==
    \A c \in Calls :
        stage[c] = "awaiting" /\ Alone(c) =>
            /\ pending[EnvOf[c]] = c
            /\ link[sock[c]].state # "closed"

(* A cached client socket belongs to the peer it is cached for and has not  *)
(* closed: connect() never hands out a socket whose events have all fired,  *)
(* although each event deletes the key without comparing sockets            *)
(* (transport.ts:219-226).                                                  *)
CacheIsLive ==
    \A n, m \in Nodes :
        clients[n][m] # NoSocket =>
            /\ link[clients[n][m]].state \in {"open", "closing"}
            /\ link[clients[n][m]].client = n
            /\ link[clients[n][m]].server = m

(* Every call of send() settles, whatever the peer and the network do:      *)
(* timers alone guarantee it, also for a call whose slot another call took  *)
(* (transport.ts:256-259).                                                  *)
CallSettles ==
    \A c \in Calls : stage[c] \in {"dialing", "awaiting"} ~> Settled(c)

=============================================================================
