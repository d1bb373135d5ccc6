--------------------------- MODULE TransportProofs ---------------------------
(***************************************************************************)
(* Proofs about the transport, for any nodes, calls, sockets and retries:  *)
(* an envelope is emitted once, a delivered call was received unless it is *)
(* a broadcast, the cache is sound, and the transport implements Delivery; *)
(* and about the envelopes it carries.                                     *)
(***************************************************************************)
EXTENDS TransportRefines, EnvelopeRules, TLAPS

-----------------------------------------------------------------------------
(* The inductive invariant *)

SeenIsEmitted ==
    \A n \in Nodes, e \in Envelopes :
        emitted[n][e] = IF e \in seen[n] THEN 1 ELSE 0

CacheLinks ==
    \A n, m \in Nodes :
        clients[n][m] # NoSocket =>
            /\ link[clients[n][m]] \in Link
            /\ link[clients[n][m]].client = n
            /\ link[clients[n][m]].server = m

PendingWaits ==
    \A e \in Envelopes :
        pending[e] # NoCall => /\ EnvOf[pending[e]] = e
                               /\ stage[pending[e]] = "awaiting"

\* Some call has sent e to n, st being the stages of the calls.
SentTo(n, e, st) ==
    \E c \in Calls : EnvOf[c] = e /\ To[c] = n /\ st[c] # "idle"

InFlight ==
    \A s \in Sockets : \A i \in 1 .. Len(toServer[s]) :
        link[s] \in Link /\ SentTo(link[s].server, toServer[s][i], stage)

AcksTrue ==
    \A s \in Sockets : \A i \in 1 .. Len(toClient[s]) :
        /\ link[s] \in Link
        /\ SentTo(link[s].server, toClient[s][i], stage)
        /\ toClient[s][i] \in seen[link[s].server]

WireInv ==
    /\ TypeOK /\ SeenIsEmitted /\ CacheLinks /\ PendingWaits
    /\ InFlight /\ AcksTrue

-----------------------------------------------------------------------------
(* What every step keeps: the ends of a used socket, the started calls and  *)
(* what has been seen.                                                      *)

LinksKept ==
    \A s \in Sockets :
        link[s] \in Link => /\ link'[s] \in Link
                            /\ link'[s].client = link[s].client
                            /\ link'[s].server = link[s].server

CallsKept == \A c \in Calls : stage[c] # "idle" => stage'[c] # "idle"

SeenKept == \A n \in Nodes : seen[n] \subseteq seen'[n]

WithState(l, t) == [l EXCEPT !.state = t]

LEMMA LinkFields ==
    ASSUME NEW l \in Link, NEW t \in {"open", "closing", "closed"}
    PROVE  /\ l.client \in Nodes /\ l.server \in Nodes
           /\ l.state \in {"open", "closing", "closed"}
           /\ WithState(l, t) \in Link
           /\ WithState(l, t).client = l.client
           /\ WithState(l, t).server = l.server
           /\ l # Unused
BY DEF Link, Unused, WithState

\* A socket in one of these states is in use.
LEMMA UsedLink ==
    ASSUME TypeOK, NEW s \in Sockets,
           link[s].state \in {"open", "closing", "closed"}
    PROVE  link[s] \in Link
BY DEF TypeOK, Unused

LEMMA StepKeeps ==
    ASSUME TypeOK, PendingWaits, [Next]_vars
    PROVE  LinksKept /\ CallsKept /\ SeenKept
<1>1. LinksKept
  <2>1. ASSUME UNCHANGED link PROVE LinksKept
    BY <2>1 DEF LinksKept
  <2>2. ASSUME NEW c \in Calls, NEW s \in Sockets, DialOpens(c, s)
        PROVE  LinksKept
    <3>1. \A t \in Sockets \ {s} : link'[t] = link[t]
      BY <2>2 DEF DialOpens, TypeOK
    <3>2. link[s] \notin Link
      BY <2>2, LinkFields DEF DialOpens
    <3> QED
      BY <3>1, <3>2 DEF LinksKept
  <2>3. ASSUME NEW s \in Sockets, NEW t \in {"closing", "closed"},
               link' = [link EXCEPT ![s].state = t]
        PROVE  LinksKept
    <3>1. link'[s] = WithState(link[s], t)
          /\ \A u \in Sockets \ {s} : link'[u] = link[u]
      BY <2>3 DEF TypeOK, WithState
    <3>2. ASSUME link[s] \in Link
          PROVE  /\ link'[s] \in Link
                 /\ link'[s].client = link[s].client
                 /\ link'[s].server = link[s].server
      <4>1. t \in {"open", "closing", "closed"}
        OBVIOUS
      <4>2. /\ WithState(link[s], t) \in Link
            /\ WithState(link[s], t).client = link[s].client
            /\ WithState(link[s], t).server = link[s].server
        BY <3>2, <4>1, LinkFields
      <4> QED
        BY <3>1, <4>2
    <3> QED
      BY <3>1, <3>2 DEF LinksKept
  <2>4. ASSUME NEW n \in Nodes, Stop(n) PROVE LinksKept
    <3>1. ASSUME NEW s \in Sockets, link[s] \in Link
          PROVE  \/ link'[s] = link[s]
                 \/ link'[s] = WithState(link[s], "closing")
      <4>1. link'[s] = IF s \in Terminated(n) /\ link[s].state = "open"
                       THEN WithState(link[s], "closing") ELSE link[s]
        BY <2>4 DEF Stop, WithState
      <4> QED
        BY <4>1
    <3> QED
      BY <3>1, LinkFields DEF LinksKept
  <2> QED
    BY <2>1, <2>2, <2>3, <2>4
       DEF Next, CallNext, SocketNext, vars, SendReuse, SendDial,
           DialRetries, DialFails, AckTimeout, RecvEnvelope, RecvAck,
           SocketClosing, SocketError, SocketClosed
<1>2. CallsKept
  <2>1. ASSUME UNCHANGED stage PROVE CallsKept
    BY <2>1 DEF CallsKept
  <2>2. ASSUME NEW c \in Calls, NEW t \in Stages \ {"idle"},
               stage' = [stage EXCEPT ![c] = t]
        PROVE  CallsKept
    BY <2>2 DEF CallsKept, TypeOK, Stages
  <2>3. ASSUME NEW C, Reject(C) PROVE CallsKept
    BY <2>3 DEF CallsKept, Reject
  <2>4. ASSUME NEW s \in Sockets, RecvAck(s) PROVE CallsKept
    <3> DEFINE c == pending[Head(toClient[s])]
    <3>1. CASE c = NoCall
      BY <2>1, <2>4, <3>1 DEF RecvAck, Waiter
    <3>2. CASE c # NoCall
      <4>1. stage' = [stage EXCEPT ![c] = "delivered"]
        BY <2>4, <3>2 DEF RecvAck, Waiter
      <4> QED
        BY <4>1 DEF CallsKept, TypeOK
    <3> QED
      BY <3>1, <3>2
  <2>5. ASSUME NEW c \in Calls, CallNext(c) PROVE CallsKept
    <3>1. \/ UNCHANGED stage
          \/ \E t \in Stages \ {"idle"} : stage' = [stage EXCEPT ![c] = t]
      BY <2>5 DEF CallNext, SendReuse, SendDial, DialOpens, Deliver,
                  DialRetries, DialFails, AckTimeout, Stages
    <3> QED
      BY <2>1, <2>2, <3>1
  <2>6. ASSUME NEW s \in Sockets, SocketNext(s) PROVE CallsKept
    <3>1. CASE SocketError(s) \/ SocketClosed(s)
      BY <2>3, <3>1 DEF SocketError, SocketClosed
    <3> QED
      BY <2>1, <2>4, <2>6, <3>1
         DEF SocketNext, RecvEnvelope, SocketClosing
  <2>7. ASSUME NEW n \in Nodes, Stop(n) PROVE CallsKept
    BY <2>3, <2>7 DEF Stop
  <2> QED
    BY <2>1, <2>5, <2>6, <2>7 DEF Next, vars
<1>3. SeenKept
  <2>1. ASSUME UNCHANGED seen PROVE SeenKept
    BY <2>1 DEF SeenKept
  <2>2. ASSUME NEW s \in Sockets, RecvEnvelope(s) PROVE SeenKept
    <3> DEFINE n == link[s].server
               e == Head(toServer[s])
    <3>1. seen' = seen \/ seen' = [seen EXCEPT ![n] = seen[n] \cup {e}]
      BY <2>2 DEF RecvEnvelope
    <3> QED
      BY <3>1 DEF SeenKept, TypeOK
  <2> QED
    BY <2>1, <2>2
       DEF Next, CallNext, SocketNext, vars, SendReuse, SendDial, DialOpens,
           DialRetries, DialFails, AckTimeout, RecvAck, SocketClosing,
           SocketError, SocketClosed, Stop
<1> QED
  BY <1>1, <1>2, <1>3

-----------------------------------------------------------------------------
(* Types *)

LEMMA TypeInit == Init => TypeOK
<1> SUFFICES ASSUME Init PROVE TypeOK
  OBVIOUS
<1>1. <<>> \in Seq(Envelopes) /\ 0 \in 0 .. MaxRetries /\ 0 \in 0 .. 2
  BY CallTypes
<1>2. /\ toServer \in [Sockets -> Seq(Envelopes)]
      /\ toClient \in [Sockets -> Seq(Envelopes)]
  BY <1>1 DEF Init
<1>3. tries \in [Calls -> 0 .. MaxRetries]
  BY <1>1 DEF Init
<1>4. /\ stage \in [Calls -> Stages]
      /\ sock \in [Calls -> Sockets \cup {NoSocket}]
      /\ pending \in [Envelopes -> Calls \cup {NoCall}]
      /\ link \in [Sockets -> Link \cup {Unused}]
      /\ seen \in [Nodes -> SUBSET Envelopes]
      /\ stopped \subseteq Nodes
  BY DEF Init, Stages
<1>5. /\ clients \in [Nodes -> [Nodes -> Sockets \cup {NoSocket}]]
      /\ emitted \in [Nodes -> [Envelopes -> 0 .. 2]]
  BY <1>1 DEF Init
<1> QED
  BY <1>2, <1>3, <1>4, <1>5 DEF TypeOK

LEMMA DeliverType ==
    ASSUME TypeOK, NEW c \in Calls, NEW s \in Sockets, Deliver(c, s)
    PROVE  /\ stage' \in [Calls -> Stages]
           /\ sock' \in [Calls -> Sockets \cup {NoSocket}]
           /\ pending' \in [Envelopes -> Calls \cup {NoCall}]
           /\ toServer' \in [Sockets -> Seq(Envelopes)]
<1>1. EnvOf[c] \in Envelopes
  BY CallTypes
<1>2. Append(toServer[s], EnvOf[c]) \in Seq(Envelopes)
  BY <1>1 DEF TypeOK
<1> QED
  BY <1>1, <1>2 DEF TypeOK, Deliver, Stages

LEMMA RejectType ==
    ASSUME TypeOK, NEW C, Reject(C)
    PROVE  /\ stage' \in [Calls -> Stages]
           /\ pending' \in [Envelopes -> Calls \cup {NoCall}]
BY DEF TypeOK, Reject, Stages

LEMMA UnregisteredType ==
    ASSUME TypeOK, NEW s \in Sockets
    PROVE  Unregistered(s) \in [Nodes -> [Nodes -> Sockets \cup {NoSocket}]]
<1> DEFINE n == link[s].client
           m == link[s].server
           row == [clients[n] EXCEPT ![m] = NoSocket]
<1>1. Unregistered(s) = [clients EXCEPT ![n] = row]
  BY DEF Unregistered
<1>2. ASSUME n \in Nodes
      PROVE  row \in [Nodes -> Sockets \cup {NoSocket}]
  BY <1>2 DEF TypeOK
<1> HIDE DEF row, n
<1> QED
  BY <1>1, <1>2 DEF TypeOK

LEMMA TypeNext == TypeOK /\ PendingWaits /\ [Next]_vars => TypeOK'
<1> SUFFICES ASSUME TypeOK, PendingWaits, [Next]_vars PROVE TypeOK'
  OBVIOUS
<1> USE CallTypes
<1>1. ASSUME UNCHANGED vars PROVE TypeOK'
  BY <1>1 DEF vars, TypeOK
<1>2. ASSUME NEW c \in Calls, SendReuse(c) PROVE TypeOK'
  <2>1. clients[From[c]][To[c]] \in Sockets
    BY <1>2 DEF SendReuse, Reusable, TypeOK
  <2>2. Deliver(c, clients[From[c]][To[c]])
    BY <1>2 DEF SendReuse
  <2>3. UNCHANGED <<tries, clients, link, toClient, seen, emitted, stopped>>
    BY <1>2 DEF SendReuse
  <2> QED
    BY <2>1, <2>2, <2>3, DeliverType DEF TypeOK
<1>3. ASSUME NEW c \in Calls,
             SendDial(c) \/ DialRetries(c) \/ DialFails(c)
      PROVE  TypeOK'
  <2>1. stage' \in [Calls -> Stages] /\ tries' \in [Calls -> 0 .. MaxRetries]
    <3>1. CASE SendDial(c)
      BY <3>1 DEF SendDial, TypeOK, Stages
    <3>2. CASE DialRetries(c)
      <4>1. tries[c] + 1 \in 0 .. MaxRetries
        BY <3>2 DEF DialRetries, TypeOK
      <4> QED
        BY <3>2, <4>1 DEF DialRetries, TypeOK
    <3>3. CASE DialFails(c)
      BY <3>3 DEF DialFails, TypeOK, Stages
    <3> QED
      BY <1>3, <3>1, <3>2, <3>3
  <2> QED
    BY <1>3, <2>1 DEF SendDial, DialRetries, DialFails, TypeOK
<1>4. ASSUME NEW c \in Calls, NEW s \in Sockets, DialOpens(c, s)
      PROVE  TypeOK'
  <2>1. [state |-> "open", client |-> From[c], server |-> To[c]] \in Link
    BY DEF Link
  <2>2. link' \in [Sockets -> Link \cup {Unused}]
    BY <1>4, <2>1 DEF DialOpens, TypeOK
  <2>3. clients' \in [Nodes -> [Nodes -> Sockets \cup {NoSocket}]]
    BY <1>4 DEF DialOpens, TypeOK
  <2>4. /\ Deliver(c, s)
        /\ UNCHANGED <<tries, toClient, seen, emitted, stopped>>
    BY <1>4 DEF DialOpens
  <2> QED
    BY <2>2, <2>3, <2>4, DeliverType DEF TypeOK
<1>5. ASSUME NEW c \in Calls, AckTimeout(c) PROVE TypeOK'
  BY <1>5 DEF AckTimeout, TypeOK, Stages
<1>6. ASSUME NEW s \in Sockets, RecvEnvelope(s) PROVE TypeOK'
  <2> DEFINE e == Head(toServer[s])
             n == link[s].server
  <2>1. /\ e \in Envelopes
        /\ Tail(toServer[s]) \in Seq(Envelopes)
        /\ Append(toClient[s], e) \in Seq(Envelopes)
    BY <1>6 DEF RecvEnvelope, TypeOK
  <2>2. /\ toServer' \in [Sockets -> Seq(Envelopes)]
        /\ toClient' \in [Sockets -> Seq(Envelopes)]
    BY <1>6, <2>1 DEF RecvEnvelope, TypeOK
  <2>3. seen' \in [Nodes -> SUBSET Envelopes]
    <3>1. seen' = seen \/ seen' = [seen EXCEPT ![n] = seen[n] \cup {e}]
      BY <1>6 DEF RecvEnvelope
    <3>2. ASSUME n \in Nodes PROVE seen[n] \cup {e} \in SUBSET Envelopes
      BY <2>1, <3>2 DEF TypeOK
    <3> HIDE DEF e, n
    <3> QED
      BY <3>1, <3>2 DEF TypeOK
  <2>4. emitted' \in [Nodes -> [Envelopes -> 0 .. 2]]
    <3>1. CASE emitted' = emitted
      BY <3>1 DEF TypeOK
    <3>2. CASE emitted' # emitted
      <4>1. emitted' = [emitted EXCEPT ![n][e] = Inc(emitted[n][e])]
        BY <1>6, <3>2 DEF RecvEnvelope
      <4>2. ASSUME n \in Nodes PROVE Inc(emitted[n][e]) \in 0 .. 2
        <5>1. emitted[n][e] \in 0 .. 2
          BY <2>1, <4>2 DEF TypeOK
        <5> QED
          BY <5>1 DEF Inc
      <4> DEFINE row == [emitted[n] EXCEPT ![e] = Inc(emitted[n][e])]
      <4>3. ASSUME n \in Nodes PROVE row \in [Envelopes -> 0 .. 2]
        BY <2>1, <4>2, <4>3 DEF TypeOK
      <4>4. emitted' = [emitted EXCEPT ![n] = row]
        BY <4>1
      <4> HIDE DEF e, n, row
      <4> QED
        BY <4>3, <4>4 DEF TypeOK
    <3> QED
      BY <3>1, <3>2
  <2> QED
    BY <1>6, <2>2, <2>3, <2>4 DEF RecvEnvelope, TypeOK
<1>7. ASSUME NEW s \in Sockets, RecvAck(s) PROVE TypeOK'
  <2>1. /\ Head(toClient[s]) \in Envelopes
        /\ Tail(toClient[s]) \in Seq(Envelopes)
    BY <1>7 DEF RecvAck, TypeOK
  <2>2. toClient' \in [Sockets -> Seq(Envelopes)]
    BY <1>7, <2>1 DEF RecvAck, TypeOK
  <2>3. /\ stage' \in [Calls -> Stages]
        /\ pending' \in [Envelopes -> Calls \cup {NoCall}]
    BY <1>7, <2>1 DEF RecvAck, Waiter, TypeOK, Stages
  <2> QED
    BY <1>7, <2>2, <2>3 DEF RecvAck, TypeOK
<1>8. ASSUME NEW s \in Sockets,
             SocketClosing(s) \/ SocketError(s) \/ SocketClosed(s)
      PROVE  TypeOK'
  <2>1. link[s] \in Link
    BY <1>8, UsedLink DEF SocketClosing, SocketError, SocketClosed
  <2>2. link' = [link EXCEPT ![s] = WithState(link[s], "closing")]
        \/ link' = [link EXCEPT ![s] = WithState(link[s], "closed")]
    BY <1>8 DEF SocketClosing, SocketError, SocketClosed, WithState
  <2>3. link' \in [Sockets -> Link \cup {Unused}]
    BY <2>1, <2>2, LinkFields DEF TypeOK
  <2>4. /\ stage' \in [Calls -> Stages]
        /\ pending' \in [Envelopes -> Calls \cup {NoCall}]
    <3>1. CASE UNCHANGED <<stage, pending>>
      BY <3>1 DEF TypeOK
    <3>2. CASE Reject(WaitersOn(s))
      BY <3>2, RejectType
    <3> QED
      BY <1>8, <3>1, <3>2 DEF SocketClosing, SocketError, SocketClosed
  <2>5. clients' \in [Nodes -> [Nodes -> Sockets \cup {NoSocket}]]
    BY <1>8, UnregisteredType
       DEF SocketClosing, SocketError, SocketClosed, TypeOK
  <2>6. toClient' \in [Sockets -> Seq(Envelopes)]
    <3>1. <<>> \in Seq(Envelopes)
      OBVIOUS
    <3> QED
      BY <1>8, <3>1 DEF SocketClosing, SocketError, SocketClosed, TypeOK
  <2>7. UNCHANGED <<tries, sock, toServer, seen, emitted, stopped>>
    BY <1>8 DEF SocketClosing, SocketError, SocketClosed
  <2> QED
    BY <2>3, <2>4, <2>5, <2>6, <2>7 DEF TypeOK
<1>9. ASSUME NEW n \in Nodes, Stop(n) PROVE TypeOK'
  <2> DEFINE C == {c \in Waiters : From[c] = n}
  <2>1. /\ stage' \in [Calls -> Stages]
        /\ pending' \in [Envelopes -> Calls \cup {NoCall}]
    BY <1>9, RejectType DEF Stop
  <2>2. ASSUME NEW s \in Sockets PROVE link'[s] \in Link \cup {Unused}
    <3>1. link'[s] = IF s \in Terminated(n) /\ link[s].state = "open"
                     THEN WithState(link[s], "closing") ELSE link[s]
      BY <1>9 DEF Stop, WithState
    <3> QED
      BY <3>1, LinkFields, UsedLink DEF TypeOK
  <2>3. link' \in [Sockets -> Link \cup {Unused}]
    BY <1>9, <2>2 DEF Stop
  <2>4. clients' \in [Nodes -> [Nodes -> Sockets \cup {NoSocket}]]
    BY <1>9 DEF Stop, TypeOK
  <2> QED
    BY <1>9, <2>1, <2>3, <2>4 DEF Stop, TypeOK
<1> QED
  BY <1>1, <1>2, <1>3, <1>4, <1>5, <1>6, <1>7, <1>8, <1>9
     DEF Next, CallNext, SocketNext

-----------------------------------------------------------------------------
(* Each part of the invariant is kept *)

LEMMA SeenIsEmittedNext == WireInv /\ [Next]_vars => SeenIsEmitted'
<1> SUFFICES ASSUME WireInv, [Next]_vars PROVE SeenIsEmitted'
  OBVIOUS
<1> USE DEF WireInv
<1>1. CASE UNCHANGED <<seen, emitted>>
  BY <1>1 DEF SeenIsEmitted
<1>2. ASSUME NEW s \in Sockets, RecvEnvelope(s),
             ~(UNCHANGED <<seen, emitted>>)
      PROVE  SeenIsEmitted'
  <2> DEFINE e == Head(toServer[s])
             n == link[s].server
  <2>1. /\ e \notin seen[n]
        /\ seen' = [seen EXCEPT ![n] = seen[n] \cup {e}]
        /\ emitted' = [emitted EXCEPT ![n][e] = Inc(emitted[n][e])]
        /\ Len(toServer[s]) >= 1
    BY <1>2 DEF RecvEnvelope, IsDuplicate, TypeOK
  <2>2. link[s] \in Link
    BY <2>1 DEF InFlight, TypeOK
  <2>3. n \in Nodes /\ e \in Envelopes
    BY <1>2, <2>2, LinkFields DEF RecvEnvelope, TypeOK
  <2>4. Inc(emitted[n][e]) = 1
    BY <2>1, <2>3 DEF SeenIsEmitted, Inc
  <2> HIDE DEF e, n
  <2> QED
    BY <2>1, <2>3, <2>4 DEF SeenIsEmitted, TypeOK
<1> QED
  BY <1>1, <1>2
     DEF Next, CallNext, SocketNext, vars, SendReuse, SendDial, DialOpens,
         DialRetries, DialFails, AckTimeout, RecvAck, SocketClosing,
         SocketError, SocketClosed, Stop

LEMMA CacheLinksNext == WireInv /\ [Next]_vars => CacheLinks'
<1> SUFFICES ASSUME WireInv, [Next]_vars PROVE CacheLinks'
  OBVIOUS
<1> USE DEF WireInv
<1>k. LinksKept
  BY StepKeeps
<1>c. ASSUME NEW n \in Nodes, NEW m \in Nodes, clients[n][m] # NoSocket
      PROVE  /\ link'[clients[n][m]] \in Link
             /\ link'[clients[n][m]].client = n
             /\ link'[clients[n][m]].server = m
  <2>1. clients[n][m] \in Sockets
    BY <1>c DEF TypeOK
  <2> QED
    BY <1>c, <1>k, <2>1 DEF CacheLinks, LinksKept
<1>1. ASSUME \A n, m \in Nodes : \/ clients'[n][m] = clients[n][m]
                                 \/ clients'[n][m] = NoSocket
      PROVE  CacheLinks'
  BY <1>1, <1>c DEF CacheLinks
<1>2. ASSUME NEW c \in Calls, NEW s \in Sockets, DialOpens(c, s)
      PROVE  CacheLinks'
  <2>1. From[c] \in Nodes /\ To[c] \in Nodes
    BY CallTypes
  <2>2. link'[s] = [state |-> "open", client |-> From[c], server |-> To[c]]
    BY <1>2 DEF DialOpens, TypeOK
  <2>3. /\ link'[s] \in Link
        /\ link'[s].client = From[c]
        /\ link'[s].server = To[c]
    BY <2>1, <2>2 DEF Link
  <2>4. clients' = [clients EXCEPT ![From[c]][To[c]] = s]
    BY <1>2 DEF DialOpens
  <2>5. ASSUME NEW n \in Nodes, NEW m \in Nodes
        PROVE  clients'[n][m] = IF n = From[c] /\ m = To[c] THEN s
                                ELSE clients[n][m]
    BY <2>1, <2>4 DEF TypeOK
  <2> QED
    BY <1>c, <2>3, <2>5 DEF CacheLinks
<1>3. ASSUME NEW s \in Sockets, clients' = Unregistered(s)
      PROVE  CacheLinks'
  <2> DEFINE a == link[s].client
             b == link[s].server
  <2>1. clients' = [clients EXCEPT ![a][b] = NoSocket]
    BY <1>3 DEF Unregistered
  <2> HIDE DEF a, b
  <2>2. ASSUME NEW n \in Nodes, NEW m \in Nodes
        PROVE  clients'[n][m] = clients[n][m] \/ clients'[n][m] = NoSocket
    BY <2>1 DEF TypeOK
  <2> QED
    BY <1>1, <2>2
<1>4. ASSUME NEW n \in Nodes, Stop(n) PROVE CacheLinks'
  <2>1. \A k, m \in Nodes : \/ clients'[k][m] = clients[k][m]
                            \/ clients'[k][m] = NoSocket
    BY <1>4 DEF Stop, TypeOK
  <2> QED
    BY <1>1, <2>1
<1>5. CASE UNCHANGED clients
  BY <1>1, <1>5
<1> QED
  BY <1>2, <1>3, <1>4, <1>5
     DEF Next, CallNext, SocketNext, vars, SendReuse, SendDial,
         DialRetries, DialFails, AckTimeout, RecvEnvelope, RecvAck,
         SocketClosing, SocketError, SocketClosed

LEMMA PendingWaitsNext == WireInv /\ [Next]_vars => PendingWaits'
<1> SUFFICES ASSUME WireInv, [Next]_vars PROVE PendingWaits'
  OBVIOUS
<1> USE DEF WireInv
<1>e. \A c \in Calls : EnvOf[c] \in Envelopes
  BY CallTypes
<1>1. CASE UNCHANGED <<stage, pending>>
  BY <1>1 DEF PendingWaits
<1>2. ASSUME NEW c \in Calls, NEW s, Deliver(c, s), stage[c] # "awaiting"
      PROVE  PendingWaits'
  BY <1>2, <1>e DEF Deliver, PendingWaits, TypeOK
<1>3. ASSUME NEW c \in Calls, NEW t \in Stages,
             stage' = [stage EXCEPT ![c] = t],
             stage[c] # "awaiting", UNCHANGED pending
      PROVE  PendingWaits'
  BY <1>3 DEF PendingWaits, TypeOK
<1>4. ASSUME NEW c \in Calls, NEW t \in Stages,
             stage' = [stage EXCEPT ![c] = t],
             pending' = [pending EXCEPT ![EnvOf[c]] = NoCall]
      PROVE  PendingWaits'
  BY <1>4, <1>e DEF PendingWaits, TypeOK
<1>5. ASSUME NEW C, Reject(C) PROVE PendingWaits'
  BY <1>5, CallTypes DEF Reject, PendingWaits, TypeOK
<1>6. ASSUME NEW s \in Sockets, RecvAck(s) PROVE PendingWaits'
  <2> DEFINE e == Head(toClient[s])
             c == pending[e]
  <2>1. e \in Envelopes
    BY <1>6 DEF RecvAck, TypeOK
  <2>2. CASE c = NoCall
    BY <1>1, <1>6, <2>2 DEF RecvAck, Waiter
  <2>3. CASE c # NoCall
    <3>1. c \in Calls /\ EnvOf[c] = e
      BY <2>1, <2>3 DEF PendingWaits, TypeOK
    <3>2. /\ stage' = [stage EXCEPT ![c] = "delivered"]
          /\ pending' = [pending EXCEPT ![EnvOf[c]] = NoCall]
      BY <1>6, <2>3, <3>1 DEF RecvAck, Waiter
    <3> HIDE DEF e, c
    <3> QED
      BY <1>4, <3>1, <3>2 DEF Stages
  <2> QED
    BY <2>2, <2>3
<1>7. ASSUME NEW c \in Calls, CallNext(c) PROVE PendingWaits'
  <2>1. CASE SendReuse(c)
    BY <1>2, <2>1 DEF SendReuse, MayStart
  <2>2. CASE \E s \in Sockets : DialOpens(c, s)
    BY <1>2, <2>2 DEF DialOpens
  <2>3. CASE SendDial(c)
    BY <1>3, <2>3 DEF SendDial, MayStart, Stages
  <2>4. CASE DialFails(c)
    BY <1>3, <2>4 DEF DialFails, Stages
  <2>5. CASE DialRetries(c)
    BY <1>1, <2>5 DEF DialRetries
  <2>6. CASE AckTimeout(c)
    BY <1>4, <2>6 DEF AckTimeout, Stages
  <2> QED
    BY <1>7, <2>1, <2>2, <2>3, <2>4, <2>5, <2>6 DEF CallNext
<1>8. ASSUME NEW s \in Sockets, SocketNext(s) PROVE PendingWaits'
  <2>1. CASE SocketError(s) \/ SocketClosed(s)
    BY <1>5, <2>1 DEF SocketError, SocketClosed
  <2> QED
    BY <1>1, <1>6, <1>8, <2>1 DEF SocketNext, RecvEnvelope, SocketClosing
<1>9. ASSUME NEW n \in Nodes, Stop(n) PROVE PendingWaits'
  BY <1>5, <1>9 DEF Stop
<1> QED
  BY <1>1, <1>7, <1>8, <1>9 DEF Next, vars

LEMMA InFlightNext == WireInv /\ [Next]_vars => InFlight'
<1> SUFFICES ASSUME WireInv, [Next]_vars PROVE InFlight'
  OBVIOUS
<1> USE DEF WireInv
<1>s. ASSUME NEW s \in Sockets, NEW i \in 1 .. Len(toServer[s])
      PROVE  /\ link'[s] \in Link
             /\ SentTo(link'[s].server, toServer[s][i], stage')
  <2>1. LinksKept /\ CallsKept
    BY StepKeeps
  <2>2. link[s] \in Link /\ SentTo(link[s].server, toServer[s][i], stage)
    BY DEF InFlight
  <2>3. link'[s] \in Link /\ link'[s].server = link[s].server
    BY <2>1, <2>2 DEF LinksKept
  <2>4. SentTo(link[s].server, toServer[s][i], stage')
    BY <2>1, <2>2 DEF CallsKept, SentTo
  <2> QED
    BY <2>3, <2>4
<1>1. CASE UNCHANGED toServer
  BY <1>s, <1>1 DEF InFlight
<1>2. ASSUME NEW c \in Calls, NEW s \in Sockets, Deliver(c, s),
             link'[s] \in Link, link'[s].server = To[c]
      PROVE  InFlight'
  <2>1. /\ toServer' = [toServer EXCEPT ![s] = Append(toServer[s], EnvOf[c])]
        /\ stage'[c] # "idle"
    BY <1>2 DEF Deliver, TypeOK
  <2>2. SentTo(link'[s].server, EnvOf[c], stage')
    BY <1>2, <2>1 DEF SentTo
  <2>3. /\ toServer[s] \in Seq(Envelopes) /\ EnvOf[c] \in Envelopes
        /\ toServer'[s] = Append(toServer[s], EnvOf[c])
        /\ \A t \in Sockets \ {s} : toServer'[t] = toServer[t]
    BY <2>1, CallTypes DEF TypeOK
  <2>4. ASSUME NEW i \in 1 .. Len(toServer'[s])
        PROVE  SentTo(link'[s].server, toServer'[s][i], stage')
    <3>1. CASE i = Len(toServer[s]) + 1
      BY <2>2, <2>3, <3>1
    <3>2. CASE i # Len(toServer[s]) + 1
      <4>1. i \in 1 .. Len(toServer[s]) /\ toServer'[s][i] = toServer[s][i]
        BY <2>3, <3>2
      <4> QED
        BY <1>s, <4>1
    <3> QED
      BY <3>1, <3>2
  <2> QED
    BY <1>s, <1>2, <2>3, <2>4 DEF InFlight
<1>3. ASSUME NEW c \in Calls, SendReuse(c) PROVE InFlight'
  <2> DEFINE s == clients[From[c]][To[c]]
  <2>1. From[c] \in Nodes /\ To[c] \in Nodes
    BY CallTypes
  <2>2. s # NoSocket /\ s \in Sockets
    BY <1>3, <2>1 DEF SendReuse, Reusable, TypeOK
  <2>3. link'[s] \in Link /\ link'[s].server = To[c]
    BY <1>3, <2>1, <2>2 DEF CacheLinks, SendReuse
  <2> QED
    BY <1>2, <1>3, <2>2, <2>3 DEF SendReuse
<1>4. ASSUME NEW c \in Calls, NEW s \in Sockets, DialOpens(c, s)
      PROVE  InFlight'
  <2>1. link'[s] = [state |-> "open", client |-> From[c], server |-> To[c]]
    BY <1>4 DEF DialOpens, TypeOK
  <2>2. link'[s] \in Link /\ link'[s].server = To[c]
    BY <2>1, CallTypes DEF Link
  <2> QED
    BY <1>2, <1>4, <2>2 DEF DialOpens
<1>5. ASSUME NEW s \in Sockets, RecvEnvelope(s) PROVE InFlight'
  <2>1. /\ toServer[s] \in Seq(Envelopes) /\ toServer[s] # <<>>
        /\ toServer'[s] = Tail(toServer[s])
        /\ \A t \in Sockets \ {s} : toServer'[t] = toServer[t]
    BY <1>5 DEF RecvEnvelope, TypeOK
  <2>2. ASSUME NEW i \in 1 .. Len(toServer'[s])
        PROVE  /\ i + 1 \in 1 .. Len(toServer[s])
               /\ toServer'[s][i] = toServer[s][i + 1]
    BY <2>1
  <2>3. ASSUME NEW i \in 1 .. Len(toServer'[s])
        PROVE  link'[s] \in Link
               /\ SentTo(link'[s].server, toServer'[s][i], stage')
    BY <1>s, <2>2
  <2> QED
    BY <1>s, <2>1, <2>3 DEF InFlight
<1> QED
  BY <1>1, <1>3, <1>4, <1>5
     DEF Next, CallNext, SocketNext, vars, SendDial, DialRetries, DialFails,
         AckTimeout, RecvAck, SocketClosing, SocketError, SocketClosed, Stop

LEMMA AcksTrueNext == WireInv /\ [Next]_vars => AcksTrue'
<1> SUFFICES ASSUME WireInv, [Next]_vars PROVE AcksTrue'
  OBVIOUS
<1> USE DEF WireInv
<1>k. LinksKept /\ CallsKept /\ SeenKept
  BY StepKeeps
<1>s. ASSUME NEW s \in Sockets, NEW i \in 1 .. Len(toClient[s])
      PROVE  /\ link'[s] \in Link
             /\ SentTo(link'[s].server, toClient[s][i], stage')
             /\ toClient[s][i] \in seen'[link'[s].server]
  <2>1. /\ link[s] \in Link
        /\ SentTo(link[s].server, toClient[s][i], stage)
        /\ toClient[s][i] \in seen[link[s].server]
    BY DEF AcksTrue
  <2>2. link'[s] \in Link /\ link'[s].server = link[s].server
    BY <1>k, <2>1 DEF LinksKept
  <2>3. SentTo(link[s].server, toClient[s][i], stage')
    BY <1>k, <2>1 DEF CallsKept, SentTo
  <2>4. link[s].server \in Nodes
    BY <2>1, LinkFields
  <2> QED
    BY <1>k, <2>1, <2>2, <2>3, <2>4 DEF SeenKept
<1>1. CASE UNCHANGED toClient
  BY <1>s, <1>1 DEF AcksTrue
<1>2. ASSUME NEW s \in Sockets, RecvEnvelope(s), toClient' # toClient
      PROVE  AcksTrue'
  <2> DEFINE e == Head(toServer[s])
             n == link[s].server
  <2>1. /\ toServer[s] \in Seq(Envelopes) /\ toServer[s] # <<>>
        /\ e \in Valid
        /\ toClient' = [toClient EXCEPT ![s] = Append(toClient[s], e)]
        /\ UNCHANGED link
    BY <1>2 DEF RecvEnvelope, TypeOK
  <2>2. 1 \in 1 .. Len(toServer[s]) /\ e = toServer[s][1] /\ e \in Envelopes
    BY <2>1
  <2>3. link[s] \in Link /\ SentTo(n, e, stage)
    BY <2>2 DEF InFlight
  <2>4. n \in Nodes
    BY <2>3, LinkFields
  <2>5. e \in seen'[n]
    <3>1. e \in seen[n] \/ seen' = [seen EXCEPT ![n] = seen[n] \cup {e}]
      BY <1>2, <2>1 DEF RecvEnvelope, IsDuplicate
    <3> HIDE DEF e, n
    <3> QED
      BY <1>k, <2>4, <3>1 DEF TypeOK, SeenKept
  <2>6. SentTo(n, e, stage')
    BY <1>k, <2>3 DEF CallsKept, SentTo
  <2>7. /\ toClient[s] \in Seq(Envelopes)
        /\ toClient'[s] = Append(toClient[s], e)
        /\ \A t \in Sockets \ {s} : toClient'[t] = toClient[t]
    BY <2>1 DEF TypeOK
  <2>8. ASSUME NEW i \in 1 .. Len(toClient'[s])
        PROVE  /\ link'[s] \in Link
               /\ SentTo(link'[s].server, toClient'[s][i], stage')
               /\ toClient'[s][i] \in seen'[link'[s].server]
    <3>1. CASE i = Len(toClient[s]) + 1
      <4>1. toClient'[s][i] = e
        BY <2>2, <2>7, <3>1
      <4> QED
        BY <2>1, <2>3, <2>5, <2>6, <4>1
    <3>2. CASE i # Len(toClient[s]) + 1
      <4>1. i \in 1 .. Len(toClient[s]) /\ toClient'[s][i] = toClient[s][i]
        BY <2>2, <2>7, <3>2
      <4> QED
        BY <1>s, <4>1
    <3> QED
      BY <3>1, <3>2
  <2> QED
    BY <1>s, <2>7, <2>8 DEF AcksTrue
<1>3. ASSUME NEW s \in Sockets, RecvAck(s) PROVE AcksTrue'
  <2>1. /\ toClient[s] \in Seq(Envelopes) /\ toClient[s] # <<>>
        /\ toClient'[s] = Tail(toClient[s])
        /\ \A t \in Sockets \ {s} : toClient'[t] = toClient[t]
    BY <1>3 DEF RecvAck, TypeOK
  <2>2. ASSUME NEW i \in 1 .. Len(toClient'[s])
        PROVE  /\ i + 1 \in 1 .. Len(toClient[s])
               /\ toClient'[s][i] = toClient[s][i + 1]
    BY <2>1
  <2>3. ASSUME NEW i \in 1 .. Len(toClient'[s])
        PROVE  /\ link'[s] \in Link
               /\ SentTo(link'[s].server, toClient'[s][i], stage')
               /\ toClient'[s][i] \in seen'[link'[s].server]
    BY <1>s, <2>2
  <2> QED
    BY <1>s, <2>1, <2>3 DEF AcksTrue
<1>4. ASSUME NEW s \in Sockets, SocketClosed(s) PROVE AcksTrue'
  <2>1. /\ toClient'[s] = <<>>
        /\ \A t \in Sockets \ {s} : toClient'[t] = toClient[t]
    BY <1>4 DEF SocketClosed, TypeOK
  <2> QED
    BY <1>s, <2>1 DEF AcksTrue
<1> QED
  BY <1>1, <1>2, <1>3, <1>4
     DEF Next, CallNext, SocketNext, vars, SendReuse, SendDial, DialOpens,
         DialRetries, DialFails, AckTimeout, SocketClosing, SocketError, Stop

LEMMA WireInvHolds == Spec => []WireInv
<1>1. Init => WireInv
  <2> SUFFICES ASSUME Init PROVE WireInv
    OBVIOUS
  <2>1. TypeOK
    BY TypeInit
  <2>2. \A s \in Sockets : Len(toServer[s]) = 0 /\ Len(toClient[s]) = 0
    BY DEF Init
  <2>3. InFlight /\ AcksTrue
    BY <2>2 DEF InFlight, AcksTrue
  <2>4. SeenIsEmitted /\ CacheLinks /\ PendingWaits
    BY DEF Init, SeenIsEmitted, CacheLinks, PendingWaits
  <2> QED
    BY <2>1, <2>3, <2>4 DEF WireInv
<1>2. WireInv /\ [Next]_vars => WireInv'
  BY TypeNext, SeenIsEmittedNext, CacheLinksNext, PendingWaitsNext,
     InFlightNext, AcksTrueNext DEF WireInv
<1> QED
  BY <1>1, <1>2, PTL DEF Spec

(* The variables of the transport keep their types.                         *)
THEOREM TypeCorrect == Spec => []TypeOK
<1>1. WireInv => TypeOK
  BY DEF WireInv
<1> QED
  BY <1>1, WireInvHolds, PTL

(* The node above the transport is handed an envelope id once, whatever is  *)
(* sent again over whichever sockets (transport.ts:292-294).                *)
THEOREM EmittedOnceHolds == Spec => []EmittedOnce
<1>1. WireInv => EmittedOnce
  BY DEF WireInv, SeenIsEmitted, EmittedOnce
<1> QED
  BY <1>1, WireInvHolds, PTL
-----------------------------------------------------------------------------
(* Delivered calls *)

\* A call becomes delivered only when an ack of its envelope is read, and the
\* node that wrote the ack was sent the envelope and has seen it.
LEMMA NewlyDelivered ==
    ASSUME WireInv, [Next]_vars, NEW c \in Calls,
           stage[c] # "delivered", stage'[c] = "delivered"
    PROVE  /\ stage[c] = "awaiting"
           /\ stage' = [stage EXCEPT ![c] = "delivered"]
           /\ UNCHANGED emitted
           /\ \E n \in Nodes : SentTo(n, EnvOf[c], stage)
                               /\ EnvOf[c] \in seen[n]
<1> USE DEF WireInv
<1>1. PICK s \in Sockets : RecvAck(s)
  <2>1. ASSUME NEW d \in Calls, CallNext(d) PROVE FALSE
    BY <2>1 DEF CallNext, SendReuse, SendDial, DialOpens, Deliver,
                DialRetries, DialFails, AckTimeout, TypeOK
  <2>2. ASSUME NEW n \in Nodes, Stop(n) PROVE FALSE
    BY <2>2 DEF Stop, Reject
  <2>3. ASSUME NEW s \in Sockets, SocketNext(s), ~RecvAck(s) PROVE FALSE
    BY <2>3 DEF SocketNext, RecvEnvelope, SocketClosing, SocketError,
                SocketClosed, Reject
  <2> QED
    BY <2>1, <2>2, <2>3 DEF Next, vars
<1> DEFINE e == Head(toClient[s])
<1>2. /\ toClient[s] \in Seq(Envelopes) /\ toClient[s] # <<>>
      /\ UNCHANGED <<seen, emitted>>
  BY <1>1 DEF RecvAck, TypeOK
<1>3. 1 \in 1 .. Len(toClient[s]) /\ e = toClient[s][1] /\ e \in Envelopes
  BY <1>2
<1>4. /\ link[s] \in Link
      /\ SentTo(link[s].server, e, stage)
      /\ e \in seen[link[s].server]
  BY <1>3 DEF AcksTrue
<1>5. stage' = [stage EXCEPT ![pending[e]] = "delivered"]
      /\ pending[e] # NoCall
  BY <1>1 DEF RecvAck, Waiter
<1>6. c = pending[e]
  BY <1>5 DEF TypeOK
<1>7. EnvOf[c] = e /\ stage[c] = "awaiting"
  BY <1>3, <1>5, <1>6 DEF PendingWaits
<1>8. link[s].server \in Nodes
  BY <1>4, LinkFields
<1> HIDE DEF e
<1> QED
  BY <1>2, <1>4, <1>5, <1>6, <1>7, <1>8

\* With one addressee per envelope, that node is the addressee of the call.
LEMMA UnicastReceiver ==
    ASSUME WireInv, Unicast, [Next]_vars, NEW c \in Calls,
           stage[c] # "delivered", stage'[c] = "delivered"
    PROVE  EnvOf[c] \in seen[To[c]]
<1>1. PICK n \in Nodes : SentTo(n, EnvOf[c], stage) /\ EnvOf[c] \in seen[n]
  BY NewlyDelivered
<1>2. To[c] = n
  BY <1>1 DEF SentTo, Unicast
<1> QED
  BY <1>1, <1>2

(* When no envelope is a broadcast, a send() that resolved has put its      *)
(* envelope in the peer's hands (transport.ts:202), however often it was    *)
(* retried.                                                                 *)
THEOREM DeliveredWasReceivedHolds ==
    Unicast => (Spec => []DeliveredWasReceived)
<1> SUFFICES ASSUME Unicast PROVE Spec => []DeliveredWasReceived
  OBVIOUS
<1>1. Init => DeliveredWasReceived
  BY DEF Init, DeliveredWasReceived
<1>2. WireInv /\ DeliveredWasReceived /\ [Next]_vars => DeliveredWasReceived'
  <2> SUFFICES ASSUME WireInv, DeliveredWasReceived, [Next]_vars,
                      NEW c \in Calls, stage'[c] = "delivered"
               PROVE  EnvOf[c] \in seen'[To[c]]
    BY DEF DeliveredWasReceived
  <2>1. EnvOf[c] \in seen[To[c]]
    BY UnicastReceiver DEF DeliveredWasReceived
  <2>2. SeenKept /\ To[c] \in Nodes
    BY StepKeeps, CallTypes DEF WireInv
  <2> QED
    BY <2>1, <2>2 DEF SeenKept
<1> QED
  BY <1>1, <1>2, WireInvHolds, PTL DEF Spec
-----------------------------------------------------------------------------
(* Cached sockets, and calls that are alone: neither has a socket whose     *)
(* events have all fired.                                                   *)

Alive(l) == l.state \in {"open", "closing"}

\* What is cached is a socket whose close event is still to come.
CacheAlive ==
    \A n, m \in Nodes :
        clients[n][m] # NoSocket => Alive(link[clients[n][m]])

\* A call that waits and alone carries its envelope holds the slot of its id.
AloneWaits ==
    \A c \in Calls :
        stage[c] = "awaiting" /\ Alone(c) =>
            /\ pending[EnvOf[c]] = c
            /\ sock[c] \in Sockets
            /\ Alive(link[sock[c]])

LiveInv == WireInv /\ CacheAlive /\ AloneWaits

(* A socket that lives goes on to live, unless the step is its close event. *)
LEMMA OnlyCloseKills ==
    ASSUME TypeOK, [Next]_vars, NEW s \in Sockets, Alive(link[s])
    PROVE  Alive(link'[s]) \/ SocketClosed(s)
<1>1. ASSUME UNCHANGED link PROVE Alive(link'[s])
  BY <1>1
<1>2. ASSUME NEW c \in Calls, NEW t \in Sockets, DialOpens(c, t)
      PROVE  Alive(link'[s])
  <2>1. s # t
    BY <1>2 DEF DialOpens, Unused, Alive
  <2> QED
    BY <1>2, <2>1 DEF DialOpens, TypeOK
<1>3. link[s] \in Link
  BY UsedLink DEF Alive
<1>4. Alive(WithState(link[s], "closing"))
  BY <1>3 DEF WithState, Link, Alive
<1>5. ASSUME NEW t \in Sockets, SocketClosing(t) \/ SocketError(t)
      PROVE  Alive(link'[s])
  <2>1. /\ link'[t] = WithState(link[t], "closing")
        /\ s # t => link'[s] = link[s]
    BY <1>5 DEF SocketClosing, SocketError, TypeOK, WithState
  <2> QED
    BY <1>4, <2>1
<1>6. ASSUME NEW t \in Sockets, SocketClosed(t), s # t
      PROVE  Alive(link'[s])
  BY <1>6 DEF SocketClosed, TypeOK
<1>7. ASSUME NEW n \in Nodes, Stop(n) PROVE Alive(link'[s])
  <2>1. link'[s] = IF s \in Terminated(n) /\ link[s].state = "open"
                   THEN WithState(link[s], "closing") ELSE link[s]
    BY <1>7 DEF Stop, WithState
  <2> QED
    BY <1>4, <2>1
<1> QED
  BY <1>1, <1>2, <1>5, <1>6, <1>7
     DEF Next, CallNext, SocketNext, vars, SendReuse, SendDial,
         DialRetries, DialFails, AckTimeout, RecvEnvelope, RecvAck

(* A cache entry is kept or deleted, or it is the socket a dial opened.     *)
LEMMA CacheMoves ==
    ASSUME TypeOK, [Next]_vars, NEW n \in Nodes, NEW m \in Nodes
    PROVE  \/ clients'[n][m] \in {clients[n][m], NoSocket}
           \/ \E c \in Calls, s \in Sockets :
                 DialOpens(c, s) /\ clients'[n][m] = s
<1>1. ASSUME NEW c \in Calls, NEW s \in Sockets, DialOpens(c, s)
      PROVE  clients'[n][m] \in {clients[n][m], s}
  BY <1>1 DEF DialOpens, TypeOK
<1>2. ASSUME NEW s \in Sockets, clients' = Unregistered(s)
      PROVE  clients'[n][m] \in {clients[n][m], NoSocket}
  BY <1>2 DEF Unregistered, TypeOK
<1>3. ASSUME NEW k \in Nodes, Stop(k)
      PROVE  clients'[n][m] \in {clients[n][m], NoSocket}
  BY <1>3 DEF Stop, TypeOK
<1> QED
  BY <1>1, <1>2, <1>3
     DEF Next, CallNext, SocketNext, vars, SendReuse, SendDial,
         DialRetries, DialFails, AckTimeout, RecvEnvelope, RecvAck,
         SocketClosing, SocketError, SocketClosed

LEMMA CacheAliveNext == LiveInv /\ [Next]_vars => CacheAlive'
<1> SUFFICES ASSUME LiveInv, [Next]_vars,
                    NEW n \in Nodes, NEW m \in Nodes,
                    clients'[n][m] # NoSocket
             PROVE  Alive(link'[clients'[n][m]])
  BY DEF CacheAlive, Alive
<1> USE DEF LiveInv, WireInv
<1>1. CASE \E c \in Calls, s \in Sockets :
              DialOpens(c, s) /\ clients'[n][m] = s
  <2>1. PICK c \in Calls, s \in Sockets :
               DialOpens(c, s) /\ clients'[n][m] = s
    BY <1>1
  <2>2. link'[s] = [state |-> "open", client |-> From[c], server |-> To[c]]
    BY <2>1 DEF DialOpens, TypeOK
  <2> QED
    BY <2>1, <2>2 DEF Alive
<1>2. CASE clients'[n][m] = clients[n][m]
  <2> DEFINE s == clients[n][m]
  <2>1. s \in Sockets /\ Alive(link[s])
    BY <1>2 DEF TypeOK, CacheAlive
  <2>2. ASSUME SocketClosed(s) PROVE FALSE
    <3>1. link[s].client = n /\ link[s].server = m
      BY <1>2 DEF CacheLinks
    <3>2. clients' = [clients EXCEPT ![n][m] = NoSocket]
      BY <2>2, <3>1 DEF SocketClosed, Unregistered
    <3> QED
      BY <3>2 DEF TypeOK
  <2> QED
    BY <1>2, <2>1, <2>2, OnlyCloseKills
<1> QED
  BY <1>1, <1>2, CacheMoves

(* A call waits because it has just been delivered, or it waited before on  *)
(* the same socket and kept its slot.                                       *)
LEMMA WaitingMoves ==
    ASSUME LiveInv, [Next]_vars, NEW c \in Calls, Alone(c),
           stage'[c] = "awaiting"
    PROVE  \/ SendReuse(c)
           \/ \E s \in Sockets : DialOpens(c, s)
           \/ /\ stage[c] = "awaiting"
              /\ sock'[c] = sock[c]
              /\ pending'[EnvOf[c]] = c
<1> DEFINE Kept == /\ stage[c] = "awaiting"
                   /\ sock'[c] = sock[c]
                   /\ pending'[EnvOf[c]] = c
<1> USE DEF LiveInv, WireInv
<1>e. EnvOf[c] \in Envelopes
  BY CallTypes
<1>p. stage[c] = "awaiting" => pending[EnvOf[c]] = c
  BY DEF AloneWaits
<1>1. ASSUME UNCHANGED <<stage, sock, pending>> PROVE Kept
  BY <1>1, <1>p
<1>2. ASSUME NEW d \in Calls, d # c, NEW s, Deliver(d, s) PROVE Kept
  <2>1. EnvOf[d] # EnvOf[c] /\ EnvOf[d] \in Envelopes
    BY <1>2, CallTypes DEF Alone
  <2>2. stage'[c] = stage[c] /\ sock'[c] = sock[c]
    BY <1>2 DEF Deliver, TypeOK
  <2>3. pending'[EnvOf[c]] = pending[EnvOf[c]]
    BY <1>2, <2>1, <1>e DEF Deliver, TypeOK
  <2> QED
    BY <2>2, <2>3, <1>p
<1>3. ASSUME NEW d \in Calls, SendDial(d) \/ DialRetries(d) \/ DialFails(d)
      PROVE  Kept
  <2>1. stage[c] = "awaiting"
    BY <1>3 DEF SendDial, DialRetries, DialFails, TypeOK
  <2> QED
    BY <1>3, <1>p, <2>1 DEF SendDial, DialRetries, DialFails
<1>4. ASSUME NEW d \in Calls, AckTimeout(d) PROVE Kept
  <2>1. d # c /\ stage'[c] = stage[c]
    BY <1>4 DEF AckTimeout, TypeOK
  <2>2. EnvOf[d] # EnvOf[c] /\ EnvOf[d] \in Envelopes
    BY <2>1, CallTypes DEF Alone
  <2>3. pending'[EnvOf[c]] = pending[EnvOf[c]] /\ sock' = sock
    BY <1>4, <2>2, <1>e DEF AckTimeout, TypeOK
  <2> QED
    BY <2>1, <2>3, <1>p
<1>5. ASSUME NEW s \in Sockets, RecvAck(s) PROVE Kept
  <2> DEFINE e == Head(toClient[s])
             d == pending[e]
  <2>0. UNCHANGED sock
    BY <1>5 DEF RecvAck
  <2>1. CASE d = NoCall
    BY <1>1, <1>5, <2>0, <2>1 DEF RecvAck, Waiter
  <2>2. CASE d # NoCall
    <3>1. /\ stage' = [stage EXCEPT ![d] = "delivered"]
          /\ pending' = [pending EXCEPT ![e] = NoCall]
      BY <1>5, <2>2 DEF RecvAck, Waiter
    <3>2. d # c /\ stage'[c] = stage[c]
      BY <3>1 DEF TypeOK
    <3>3. e # EnvOf[c]
      BY <1>p, <3>2
    <3> QED
      BY <2>0, <3>1, <3>2, <3>3, <1>e, <1>p DEF TypeOK
  <2> QED
    BY <2>1, <2>2
<1>6. ASSUME NEW C, Reject(C), UNCHANGED sock PROVE Kept
  <2>1. c \notin C /\ stage'[c] = stage[c]
    BY <1>6 DEF Reject
  <2>2. pending'[EnvOf[c]] = pending[EnvOf[c]]
    BY <1>6, <2>1, <1>e, <1>p DEF Reject
  <2> QED
    BY <1>6, <2>1, <2>2, <1>p
<1> HIDE DEF Kept
<1>7. ASSUME NEW d \in Calls, CallNext(d)
      PROVE  \/ SendReuse(c)
             \/ \E s \in Sockets : DialOpens(c, s)
             \/ Kept
  <2>1. CASE SendReuse(d)
    BY <1>2, <2>1 DEF SendReuse
  <2>2. CASE \E s \in Sockets : DialOpens(d, s)
    BY <1>2, <2>2 DEF DialOpens
  <2> QED
    BY <1>3, <1>4, <1>7, <2>1, <2>2 DEF CallNext
<1>8. ASSUME NEW s \in Sockets, SocketNext(s) PROVE Kept
  BY <1>1, <1>5, <1>6, <1>8
     DEF SocketNext, RecvEnvelope, SocketClosing, SocketError, SocketClosed
<1>9. ASSUME NEW n \in Nodes, Stop(n) PROVE Kept
  BY <1>6, <1>9 DEF Stop
<1>10. \/ SendReuse(c)
       \/ \E s \in Sockets : DialOpens(c, s)
       \/ Kept
  BY <1>1, <1>7, <1>8, <1>9 DEF Next, vars
<1> QED
  BY <1>10 DEF Kept

LEMMA AloneWaitsNext == LiveInv /\ [Next]_vars => AloneWaits'
<1> SUFFICES ASSUME LiveInv, [Next]_vars, NEW c \in Calls,
                    stage'[c] = "awaiting", Alone(c)
             PROVE  /\ pending'[EnvOf[c]] = c
                    /\ sock'[c] \in Sockets
                    /\ Alive(link'[sock'[c]])
  BY DEF AloneWaits, Alive, Alone
<1> USE DEF LiveInv, WireInv
<1>e. EnvOf[c] \in Envelopes
  BY CallTypes
<1>1. CASE SendReuse(c)
  <2> DEFINE s == clients[From[c]][To[c]]
  <2>1. s \in Sockets /\ link[s].state = "open" /\ link' = link
    BY <1>1, CallTypes DEF SendReuse, Reusable, TypeOK
  <2>2. sock'[c] = s /\ pending'[EnvOf[c]] = c
    BY <1>1, <1>e DEF SendReuse, Deliver, TypeOK
  <2> QED
    BY <2>1, <2>2 DEF Alive
<1>2. CASE \E s \in Sockets : DialOpens(c, s)
  <2>1. PICK s \in Sockets : DialOpens(c, s)
    BY <1>2
  <2>2. link'[s] = [state |-> "open", client |-> From[c], server |-> To[c]]
    BY <2>1 DEF DialOpens, TypeOK
  <2>3. sock'[c] = s /\ pending'[EnvOf[c]] = c
    BY <2>1, <1>e DEF DialOpens, Deliver, TypeOK
  <2> QED
    BY <2>2, <2>3 DEF Alive
<1>3. CASE /\ stage[c] = "awaiting"
           /\ sock'[c] = sock[c]
           /\ pending'[EnvOf[c]] = c
  <2> DEFINE s == sock[c]
  <2>1. s \in Sockets /\ Alive(link[s]) /\ pending[EnvOf[c]] = c
    BY <1>3 DEF AloneWaits
  <2>2. ASSUME SocketClosed(s) PROVE FALSE
    <3>1. c \in WaitersOn(s)
      BY <2>1 DEF WaitersOn, Waiters
    <3>2. stage'[c] = "failed"
      BY <2>2, <3>1 DEF SocketClosed, Reject
    <3> QED
      BY <3>2
  <2> QED
    BY <1>3, <2>1, <2>2, OnlyCloseKills
<1> QED
  BY <1>1, <1>2, <1>3, WaitingMoves

LEMMA LiveInvHolds == Spec => []LiveInv
<1>1. Init => CacheAlive /\ AloneWaits
  BY DEF Init, CacheAlive, AloneWaits
<1>2. LiveInv /\ [Next]_vars => (CacheAlive /\ AloneWaits)'
  BY CacheAliveNext, AloneWaitsNext
<1>3. Spec => []WireInv
  BY WireInvHolds
<1>4. /\ WireInv /\ CacheAlive /\ AloneWaits => LiveInv
      /\ LiveInv => WireInv /\ CacheAlive /\ AloneWaits
  BY DEF LiveInv
<1>5. (/\ WireInv /\ CacheAlive /\ AloneWaits => LiveInv
       /\ LiveInv => WireInv /\ CacheAlive /\ AloneWaits)'
  BY <1>4, PTL
<1> QED
  BY <1>1, <1>2, <1>3, <1>4, PTL DEF Spec

(* connect() hands out, or keeps for the next call, no socket whose events  *)
(* have all fired, and none of another peer, although both events delete by *)
(* key (transport.ts:219-226).                                              *)
THEOREM CacheIsLiveHolds == Spec => []CacheIsLive
<1>1. LiveInv => CacheIsLive
  BY DEF LiveInv, WireInv, CacheLinks, CacheAlive, Alive, CacheIsLive
<1> QED
  BY <1>1, LiveInvHolds, PTL

(* A call that alone carries its envelope is failed by its own socket's     *)
(* events (transport.ts:299-307): it cannot be left to its ack timer.       *)
THEOREM FailsFastHolds == Spec => []FailsFast
<1>1. LiveInv => FailsFast
  BY DEF LiveInv, AloneWaits, Alive, FailsFast
<1> QED
  BY <1>1, LiveInvHolds, PTL

-----------------------------------------------------------------------------
(* Refinement *)

\* A step that leaves the abstract result of every call alone.
LEMMA Invisible ==
    ASSUME \A c \in Calls : ResultOf(stage'[c]) = ResultOf(stage[c]),
           UNCHANGED emitted
    PROVE  UNCHANGED D!dvars
BY DEF D!dvars

LEMMA StartMaps ==
    ASSUME TypeOK, NEW c \in Calls, NEW t \in {"dialing", "awaiting"},
           stage[c] = "idle", stage' = [stage EXCEPT ![c] = t],
           UNCHANGED emitted
    PROVE  D!Start(c)
BY DEF D!Start, ResultOf, TypeOK

LEMMA FailMaps ==
    ASSUME TypeOK, NEW C \in SUBSET Calls,
           \A c \in C : stage[c] \in {"dialing", "awaiting"},
           stage' = [c \in Calls |-> IF c \in C THEN "failed" ELSE stage[c]],
           UNCHANGED emitted
    PROVE  D!Fail(C)
BY DEF D!Fail, ResultOf, TypeOK

\* The waiters a socket's end or stop() rejects were awaiting their acks.
LEMMA WaitersAwait ==
    ASSUME TypeOK, PendingWaits, NEW c \in Waiters
    PROVE  c \in Calls /\ stage[c] = "awaiting"
BY CallTypes DEF Waiters, PendingWaits, TypeOK

LEMMA TakeMaps ==
    ASSUME WireInv, NEW s \in Sockets, RecvEnvelope(s)
    PROVE  [D!Next]_(D!dvars)
<1> USE DEF WireInv
<1> DEFINE e == Head(toServer[s])
           n == link[s].server
<1>1. toServer[s] \in Seq(Envelopes) /\ toServer[s] # <<>> /\ UNCHANGED stage
  BY DEF RecvEnvelope, TypeOK
<1>2. 1 \in 1 .. Len(toServer[s]) /\ e = toServer[s][1] /\ e \in Envelopes
  BY <1>1
<1>3. link[s] \in Link /\ SentTo(n, e, stage)
  BY <1>2 DEF InFlight
<1>4. n \in Nodes
  BY <1>3, LinkFields
<1>5. CASE UNCHANGED emitted
  BY <1>1, <1>5, Invisible
<1>6. CASE emitted' # emitted
  <2>1. e \notin seen[n] /\ emitted' = [emitted EXCEPT ![n][e] = Inc(@)]
    BY <1>6 DEF RecvEnvelope, IsDuplicate
  <2>2. emitted[n][e] = 0
    BY <1>2, <1>4, <2>1 DEF SeenIsEmitted
  <2>3. emitted' = [emitted EXCEPT ![n][e] = 1]
    BY <2>1, <2>2 DEF Inc
  <2>4. \E c \in Calls : To[c] = n /\ EnvOf[c] = e
                         /\ ResultOf(stage[c]) # "idle"
    BY <1>3 DEF SentTo, ResultOf
  <2> HIDE DEF e, n
  <2>5. D!Take(n, e)
    BY <1>1, <2>2, <2>3, <2>4 DEF D!Take
  <2> QED
    BY <1>2, <1>4, <2>5 DEF D!Next
<1> QED
  BY <1>5, <1>6

LEMMA SucceedMaps ==
    ASSUME WireInv, Unicast, [Next]_vars, NEW s \in Sockets, RecvAck(s)
    PROVE  [D!Next]_(D!dvars)
<1> USE DEF WireInv
<1>1. CASE UNCHANGED stage
  BY <1>1, Invisible DEF RecvAck
<1>2. CASE stage' # stage
  <2> DEFINE c == pending[Head(toClient[s])]
  <2>1. stage' = [stage EXCEPT ![c] = "delivered"] /\ c # NoCall
    BY <1>2 DEF RecvAck, Waiter
  <2>2. Head(toClient[s]) \in Envelopes
    BY DEF RecvAck, TypeOK
  <2>3. c \in Calls /\ stage[c] = "awaiting"
    BY <2>1, <2>2 DEF PendingWaits, TypeOK
  <2> HIDE DEF c
  <2>4. stage[c] # "delivered" /\ stage'[c] = "delivered"
    BY <2>1, <2>3 DEF TypeOK
  <2>5. EnvOf[c] \in seen[To[c]]
    BY <2>3, <2>4, UnicastReceiver
  <2>6. emitted[To[c]][EnvOf[c]] = 1
    BY <2>3, <2>5, CallTypes DEF SeenIsEmitted
  <2>7. D!Succeed(c)
    BY <2>1, <2>3, <2>6 DEF D!Succeed, ResultOf, TypeOK, RecvAck
  <2> QED
    BY <2>3, <2>7 DEF D!Next
<1> QED
  BY <1>1, <1>2

LEMMA StepMaps ==
    ASSUME WireInv, Unicast, [Next]_vars
    PROVE  [D!Next]_(D!dvars)
<1> USE DEF WireInv
<1>1. CASE UNCHANGED vars
  BY <1>1, Invisible DEF vars
<1>2. ASSUME NEW c \in Calls, CallNext(c) PROVE [D!Next]_(D!dvars)
  <2>1. CASE SendReuse(c) \/ SendDial(c)
    <3>1. D!Start(c)
      BY <2>1, StartMaps
         DEF SendReuse, SendDial, MayStart, Deliver
    <3> QED
      BY <3>1 DEF D!Next
  <2>2. CASE \E s \in Sockets : DialOpens(c, s)
    <3>1. \A d \in Calls : ResultOf(stage'[d]) = ResultOf(stage[d])
      BY <2>2 DEF DialOpens, Deliver, ResultOf, TypeOK
    <3> QED
      BY <2>2, <3>1, Invisible DEF DialOpens
  <2>3. CASE DialRetries(c)
    BY <2>3, Invisible DEF DialRetries
  <2>4. CASE DialFails(c) \/ AckTimeout(c)
    <3>1. /\ stage[c] \in {"dialing", "awaiting"}
          /\ stage' = [d \in Calls |-> IF d \in {c} THEN "failed"
                                       ELSE stage[d]]
          /\ UNCHANGED emitted
      BY <2>4 DEF DialFails, AckTimeout, TypeOK
    <3>2. {c} \in SUBSET Calls /\ \A d \in {c} : d = c
      OBVIOUS
    <3>3. D!Fail({c})
      BY <3>1, <3>2, FailMaps
    <3> QED
      BY <3>2, <3>3 DEF D!Next
  <2> QED
    BY <1>2, <2>1, <2>2, <2>3, <2>4 DEF CallNext
<1>3. ASSUME NEW C \in SUBSET Waiters, Reject(C), UNCHANGED emitted
      PROVE  [D!Next]_(D!dvars)
  <2>1. C \in SUBSET Calls
        /\ \A c \in C : stage[c] \in {"dialing", "awaiting"}
    BY <1>3, WaitersAwait
  <2>2. D!Fail(C)
    BY <1>3, <2>1, FailMaps DEF Reject
  <2> QED
    BY <2>1, <2>2 DEF D!Next
<1>4. ASSUME NEW s \in Sockets, SocketNext(s) PROVE [D!Next]_(D!dvars)
  <2>1. CASE SocketError(s) \/ SocketClosed(s)
    BY <1>3, <2>1 DEF SocketError, SocketClosed, WaitersOn
  <2>2. CASE SocketClosing(s)
    BY <2>2, Invisible DEF SocketClosing
  <2> QED
    BY <1>4, <2>1, <2>2, TakeMaps, SucceedMaps DEF SocketNext
<1>5. ASSUME NEW n \in Nodes, Stop(n) PROVE [D!Next]_(D!dvars)
  BY <1>3, <1>5 DEF Stop
<1> QED
  BY <1>1, <1>2, <1>4, <1>5 DEF Next

(* Without broadcasts the transport is a Delivery: each of its steps starts *)
(* a call, hands over an envelope once, ends calls or is invisible, and a   *)
(* call succeeds only after its peer took the envelope (transport.ts:51,    *)
(* 202).  That every started call also ends is checked by TLC.              *)
THEOREM TransportImplementsDelivery == Unicast => (Spec => ImplementsDelivery)
<1> SUFFICES ASSUME Unicast PROVE Spec => ImplementsDelivery
  OBVIOUS
<1>1. Init => D!Init
  BY DEF Init, D!Init, ResultOf
<1>2. WireInv /\ [Next]_vars => [D!Next]_(D!dvars)
  BY StepMaps
<1> QED
  BY <1>1, <1>2, WireInvHolds, PTL DEF Spec, ImplementsDelivery, D!Spec
-----------------------------------------------------------------------------
(* A message a node sends to somebody is refused by the peer because of its *)
(* body or its attachment, or not at all: nothing the node itself fills in  *)
(* (agent.ts:325-390) breaks a rule of messages.ts:49-100.                  *)
THEOREM OwnEnvelopesAccepted ==
    ASSUME NEW self \in Selves, NEW uuid \in Text, NEW kind \in Kinds,
           NEW target \in Targets, Routable(target),
           NEW body \in String, NEW attachment, NEW depth \in Depths
    PROVE  ValidEnvelope(NewEnvelope(self, uuid, kind, ToAddress(target), body,
                                     attachment, depth))
             <=> /\ body.bytes <= MaxBodyBytes
                 /\ \/ attachment.type = "undefined"
                    \/ ValidAttachment(attachment)
<1> DEFINE to == ToAddress(target)
           env == NewEnvelope(self, uuid, kind, to, body, attachment, depth)
<1>1. ValidSender(env.from)
  BY DEF Selves, NewEnvelope, ValidSender, NonEmpty, Finite, Text, String,
         Number, Undefined
<1>2. ValidAddress(to)
  BY DEF Targets, Routable, ToAddress, ValidAddress, String, Undefined
<1>3. NonEmpty(uuid) /\ body.type = "string"
  BY DEF NonEmpty, Text, String
<1>4. Finite(env.ts)
  BY DEF NewEnvelope, Now, Finite
<1>5. \/ depth.type = "undefined"
      \/ Finite(depth) /\ depth.whole /\ depth.value >= 0
  BY DEF Depths, Number, Undefined, Finite
<1> QED
  BY <1>1, <1>2, <1>3, <1>4, <1>5 DEF NewEnvelope, ValidEnvelope
=============================================================================
