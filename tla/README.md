# A TLA+ model of dsh-p2p-lan

`@rellopn/dsh-p2p-lan` lets the AI agents of several machines in one LAN send
each other messages without a server.  Every node runs on one JavaScript event
loop: handlers are atomic between two `await`s, and everything that is awaited
(a socket, a timer, an LLM draft, a project session, a human) interleaves with
everything else.  That is where this code is hard, and what the modules here
are about.

Paths such as `agent.ts:99` are relative to the package's `src/`.

## 1. Inventory

| Component | State it keeps | Operations | Talks to |
|---|---|---|---|
| Transport (`transport.ts`) | server and port, cached client socket per address, waiter per envelope id, ids seen | `start`, `stop`, `send`, socket events, frames, timers | sockets of other nodes; emits `envelope` to the plugin |
| Store (`store.ts`) | outbox, dead letter, inbox with two read marks | `send`, `queueOutgoing`, `flush`; `deliverInbound`, `checkInbox`, `markThreadRead` | calls `Transport.send`; called by the agent and by the plugin |
| Agent (`agent.ts`) | pending waits, gates, timeouts, project table, advertised address | `send`, `sendAndWait`, `handleInbound`, `approveGate`, `rejectGate`, setters | store, directory, reply engine, project sessions |
| Reply engine (`reply-engine.ts`) | current options | `draftReply` with a hard timeout, `updateOptions` | the host's LLM service |
| Discovery (`discovery.ts`) | directory by id, known names, conflicting ids, socket and timers | announce, announcements, sweep, `setManualPeers`, `setKnownPeers`, `learnKnownPeer`, resolve | multicast; emits `peer-online`, which starts `Store.flush` |
| Plugin: lifecycle and settings (`plugin.ts`) | current parts, `started`, configuration, queue of rebuilds | constructor, unload, `applyConfig`, `rebuildNode`, `learnInboundPeer` | all of the above, the host's settings |
| Plugin: background waits (`plugin.ts`) | session registered per request | `sendAndWait`, the `wait-settled` handler, `backgroundWaits` | agent, the host's sessions |
| Plugin: project sessions (`plugin.ts`) | session and queue per project and colleague | `startProjectTask`, `ensureProjectSession`, unload | the host's agents |
| Configuration (`config.ts`) | none | `normalizeProjects`, `validProjects`, `mergeWorkspaces`, names | settings, agent, discovery |
| Messages (`messages.ts`) | none | `validateEnvelope`, `serializeEnvelope` | transport |
| Identity, attachment store, diagnostic log | an id; a map by content hash; a file | create; put/get/delete; append | nothing else depends on their state |
| Browser: human gate (`client/P2POverlay.tsx`, `P2PFooterAction.tsx`) | gates, peers and inbox last polled, edit dialog, badge | poll, approve, edit, reject | the plugin's remote methods |
| Browser: settings section (`client/P2PSettingsSection.tsx`) | a copy of the configuration and of the project table | load, fill in, save, edit rows, import | the plugin's remote methods, and through them the host's settings |
| Browser: bar, drawer state, texts, styles | a number; open/closed | poll, toggle | the plugin's remote methods |

### Hard behaviours, and what makes each component correct

* **Transport.**  Sockets break with frames and acks in flight, sends of one
  envelope overlap (a retry, two flushes, a broadcast), waiters are keyed by
  envelope id and cached sockets by address, and each event of a socket deletes
  whatever stands under its key.  Correct means: every call settles; a
  resolved call means that the peer has the envelope; the peer's application
  sees it once; a cached socket is one that still has events to come.
* **Store.**  Flushes overlap and iterate a live array that sends append to.
  Correct means: a queued message is delivered, kept or dead-lettered, once,
  in order, and not before its own attempts are used up.
* **Send and wait.**  A reply, the quick window and the total timeout race,
  replies come before the wait exists or after it ended, timeouts are changed
  in between, and the node may be rebuilt under an open wait.  Correct means:
  the call returns, the session is told one outcome and that outcome is true,
  and no reply vanishes.
* **Routing.**  A draft, which races a timeout, and project sessions are awaited
  while the directory, the project table, the sensitivity and the agent change,
  and a request may be sent again after a rebuild.  Correct means: at each agent
  it came to, a request has one fate and is answered once at most; it is answered
  automatically only when the reply rules allow it, and by nothing that came after
  its timeout.
* **Discovery.**  One directory holds manual, known and announced entries under
  ids of three kinds; entries are removed by name, by id, by age or by list, and
  a name resolves to its first entry.  Correct means: a listed or known peer
  stays, a gone one goes, a manual address is not replaced, what is known is
  what is saved, and the address a peer announces or sends wins in the end.
* **Project sessions.**  Tasks of one colleague are chained, each waits for the
  host's agent several times, any wait may fail, a human may write into the same
  session, and the node may unload meanwhile.  Correct means: one session per
  pair, one task in it at a time, the task's own answer, a chain that goes on
  after a failure, and nothing left open by the unloading.
* **Lifecycle.**  A heavy edit replaces the node while its first start may still
  walk busy ports, an unload may come between any two steps, and a configuration
  may be unfit to build a node from.  Correct means: no two instances meet on a
  port, the last heavy settings come into effect or are refused, a refusal does
  not end the chain of rebuilds, the flag in the panel does not claim a server
  that is not there, and the unloading releases the port.
* **Configuration.**  The same table is checked strictly when a node is built and
  leniently when a light edit is applied, and an import adds rows with derived
  names.  Correct means: an import ends with a table both accept, has every
  workspace in it, and changes nothing when repeated.
* **Messages.**  Senders do not validate.  Correct means: what a node fills in
  itself is never a reason for a refusal.
* **Node and peers.**  What a queued message can hope for depends on three
  parts: the store that attempts it, the directory whose events are the only
  thing that starts an attempt, and a peer that goes, comes back and restarts
  with an empty memory.  Correct means: a run of a peer handles a message once;
  "delivered" means handled, once; a handled message waits for the peer's agent;
  a peer that turns up anew is attempted.
* **Human gate.**  The human decides on a list that was polled seconds ago, over
  calls that may fail or overtake each other, while gates close and the node is
  rebuilt.  Correct means: one decision takes effect, the text that goes out is
  the one the human saw or typed, and drawer and badge end up right.
* **Settings section.**  Everybody who changes the configuration replaces the
  whole of it by what they have read before.  Correct means: writers that take
  turns lose nothing of each other's, the table on screen is the stored one, and
  the node comes to work with what is stored.

`PROJECT.json` lists every hazard at the line where it bites, with the
properties that would notice it.

## 2. Plan

| Step | Modules | Purpose | State |
|---|---|---|---|
| 1 | `Store` | outbound queue and overlapping flushes | done |
| 2 | `Transport`, `Delivery`, `TransportRefines` | sockets, acks, dedupe, stop; refinement of what a send promises | done |
| 3 | `SendAndWait` | waits, background delivery, rebuild | done |
| 4 | `Routing`, `ReplyPolicy` | inbound requests and gates; refinement of the reply rules | done |
| 5 | `StoreProofs`, `TransportProofs` | theorems for every value of the constants | done |
| 6 | `Discovery` | directory of manual, known and announced peers; the sweep; name conflicts | done |
| 7 | `ProjectSessions`, `ProjectSessionsProofs` | queue and session per project and colleague; unload; the chain of tasks is proved | done |
| 8 | `Lifecycle`, `ProjectTable` | start, stop, port walk, rebuild queue, `applyConfig`; the project table it builds with | done |
| 9 | `EnvelopeRules` | what a receiver accepts against what a node writes | done, its theorem is in `TransportProofs` |
| 10 | `Exchange` | the store with its directory, and peers that go, return and restart; the receiving inbox | done, its theorems are in `StoreProofs` |
| 11 | `GatePanel`, `GatePanelProofs` | the human gate as the browser works it | done, with theorems |
| 12 | `SettingsPanel`, `SettingsProofs` | who writes the stored configuration; with the theorem about `Discovery` | done, with theorems |
| 13 | `SendAndWaitProofs` | the books on open waits; every reply surfaces once | done |
| 14 | `RoutingProofs`, `LifecycleProofs` | one fate of a request, what may be automatic, `Routing` implements `ReplyPolicy`; ports and the `started` flag over rebuilds | done |
| 15 | more in `StoreProofs`, `TransportProofs`, `ProjectSessionsProofs`, `SettingsProofs` | order and fate in the outbox, sockets in the cache, answers and the unloading, known peers | done |
| 16 | more in `LifecycleProofs`, `SettingsProofs`, `SendAndWaitProofs` | imports into tables of every length, manual entries, what a session is told, the types of plugin and directory | done |

`Exchange` is the composition: it extends `Store`, gives every attempt a network
and a peer instead of a free answer, and lets the events of the directory start
the flushes.  `ExchangeImplementsStore` says that what is proved of the store
alone holds in it.  Of `Transport` and `Discovery` it keeps what their own modules
establish and the store can notice.

## 3. Modules and their correspondence to the code

One action stands for the code between two `await`s, or for one callback.
History variables (marked `history` in the modules) record what happened for
the properties and never guard an action.  Definitions marked *Mutant* are
plausible mistakes; no action uses them, they show that each property notices one.

**`Store`** models `send`, `queueOutgoing` and `flush`.  `cursor`, `current`
and `remaining` are the iterator and locals of one call of `flush`; `for
(const entry of this.outbox)` reads the live array, so `FlushNext` takes what
stands at the next position *now*, and `FlushEnd` fires when the array is
exhausted, empties it and pushes `remaining`.  The answer of the transport is a
free choice, justified by `Transport`.

**`Transport`** models all nodes at once.  A call of `send` goes `idle`,
`dialing`, `awaiting`, `delivered` or `failed`.  `clients` and `pending` are the
maps of the code: `Unregistered` deletes a key without comparing sockets,
`Deliver` overwrites the waiter of an id, `AckTimeout` and `RecvAck` use
whoever waits now.  A socket is `open`, `closing` (broken or terminated; its
close event still has to come), then `closed`; it is FIFO in both directions and
loses what is in flight when it closes.  `Stop` covers `closing`, the pending
map and the client sockets.  Ids are minted by the sender, so the waiter maps
of the nodes are one function of the id (`IdsMintedBySender`).  `Valid` is what
`validateEnvelope` accepts; the runs compute it with `EnvelopeRules`.  A
redial's backoff and the connect timeout are one step, since both only delay.

**`Delivery`** is what a caller may rely on: started, then delivered or failed;
delivered only if the peer has taken the envelope, once.  **`TransportRefines`**
maps `Transport` to it: a call is *started* while it dials or awaits, and the
envelope is *taken* when the `envelope` event is emitted.

**`SendAndWait`** models `Agent.sendAndWait`, `awaitReply`, the reply branch of
`handleInbound`, and in the plugin the registration of the initiating session,
the `wait-settled` handler and `rebuildNode` as far as it concerns waits.
`generation` numbers the agents: a reply is looked up in the pending map of the
current one, a timer belongs to the one that was called.  `Reported` is the two
ways an outcome leaves: as the tool's result, or as a followup of the registered
session, which may throw.  The promise race cannot tie: whichever timer or
frame comes first is processed completely, and a quick window, when there is
one, is shorter than the total.

**`Routing`** models requests in `handleInbound`, `approveGate` and
`rejectGate`.  What is awaited is `work`: `drafting`, `running` (a project
session started automatically) or `approved` (one started by a human).
Everything is kept per *handling*, a request at one agent: within one agent the
transport emits a request once (`Transport!EmittedOnce`), but a rebuilt node has a
transport that has seen nothing (`plugin.ts:182`, `transport.ts:67`), so a request
sent again `Arrives` again, at the new agent, with the project table of that agent
(`hasProject`), whatever the old one has done or is still doing with it.
`GatedOnArrival` includes the two immediate gates of the reply engine (strict,
no route), which answer without waiting.  A text is `empty` or `text`.  A draft in
time (`DraftReady`) may be anything, a failure being one that needs a gate;
`DraftTimesOut` is the timer of `withTimeout`, after which the stream goes on
(`streams`) and ends into a promise that is settled (`DraftLate`).  A gate is
`lost` when its agent has been replaced, before or after it was opened: nobody
can reach it.  **`ReplyPolicy`** is the rules of the
README (lines 17, 18 and 156) as phases of a request in a run of the node, and
`Routing` instantiates it with a mapping: a run is an agent, and `Rebuild` is its
`Replace`.

**`Discovery`** models one instance of the directory and the two functions of
the plugin that feed it.  The order of the code's `Map` matters only among
entries of one name, so `listed[n]` is the sequence that `resolveByName` walks
for the name `n`: `Put` is `upsert`, `DropFirst` the loop of `upsertKnown` with
its `break`, `At` what a pass that deletes entries leaves (in a closed form, which
the provers can open where `SelectSeq` is a black box to them), `WithManual` and `WithKnown` the two reconciliations, which handle
each name on its own.  `lastSeen` is kept as `fresh`, because only the sweep
reads it.  `given` holds the constructor's lists, which `start` installs after
the port is bound; `early` records that they were edited before.  A light edit
(`ApplyConfig`) may bring any list, a first contact may carry an older address
of its sender.  A heavy edit ends the instance.

**`ProjectSessions`** models `startProjectTask`, `ensureProjectSession` and the
clean-up effect.  `before` is the promise a task was chained to, `tail` and
`sessionOf` are the two maps.  A task goes `queued`, `opening` (the session is
being created), `storing` (it exists and is being attached), `joining` (waits
for the agent to be idle), `asked`, `done`; only awaited calls fail.  The host's
agent is external: it answers messages in order, with text or without, and is
idle when none is left.  `first` is `firstSeq`, counted in answers with text,
since those are all the loop looks at.

**`Lifecycle`** models the constructor, `startNode`, `stopNode`, `rebuildNode`
and `applyConfig` of the plugin, and `start`, `bindOnce` and the server half of
`stop` of the transport.  Every node the plugin builds is an instance with a
transport of its own: `binding` (a `listen` call is out), `grace` (the pause
before the requested port is tried again), `up`, `releasing` (`server.close` has
not called back), `rejecting` (it came to listen after `stop` and closes again,
which nobody awaits), `stopped` or `failed`.  `attempt` and `graced` are the
position in the walk over the ports.  `queue` and `phase` are the chain of
promises in `rebuildTail` and where the running `rebuildNode` is: waiting for
the old server (`draining`), about to build, or waiting for the new start.  Only
the chain's starts are awaited; the first one is not.  `started` is written by
whichever start or stop ends, as in the code.  A configuration is a heavy part
(`core`) and the project table, which stands for the light ones.  Other
processes take and release the contested ports at any time.

**`ProjectTable`** has `normalizeProjects` (as the condition under which it does
not throw), `validProjects`, `deriveProjectName` and `mergeWorkspaces`.  A name
is a word with a possible numeric suffix, so that a derived name can collide
with a suffixed one that is already there.  The loops of `validProjects` and
`mergeWorkspaces` are functions of how many rows or workspaces were gone through
(`Kept`, `Merged`); `Keep` and `AddWorkspace` are one turn.

**`EnvelopeRules`** has `validateEnvelope` over JavaScript values abstracted to
their type, the length of strings and the kind of numbers, and the agent's
`resolveTarget` (whether a rule applies), `toAddress` and `newEnvelope`.

**`Exchange`** extends `Store` with the peers.  `run` counts the processes (or
rebuilt nodes) a peer has been: each has a new id in the directory
(`identity.ts:13`), an empty set of seen envelopes and an empty inbox.  `listed`
is which ids stand under the peer's name: `Announce`, `ContactFirst`,
`ContactAgain` and `Sweep` are the handlers of `Discovery` and of the plugin,
reduced to which ids they add and drop, and every id that is new is an event.
`due` counts the `flush` calls that the handler at work still makes: one first
contact lists all known names anew (`plugin.ts:364`) and so starts several
flushes at once.  `SendWrites` and `FlushWrites` put the envelope of the attempt
on the `wire` (`Transport.deliver`), `Arrive` is the receiving `handleMessage`,
with `deliverInbound`; an attempt succeeds by an ack and may fail at any time,
before or after its envelope has arrived.

**`GatePanel`** has the agent's gates (`GateOpens` as in `Routing`, `ApproveGate`
and `RejectGate` with the branches of `agent.ts:242-323`), a `run` that a rebuild
increments, and the browser: `asked` and `answers` are the polls of the drawer on
their way there and back, `shown` its cards, `badge` the footer's count, `editing`
and `draft` the dialog, `calls` the decisions under way.  `Shows` takes any
answer, `PollFails` empties the drawer, `Answers` polls again in the cases in
which the code does.  `run` in an entry and `meant` in a call are history.

**`SettingsPanel`** has what the settings service stores, the replaces under way
(`writes`), the node's snapshot (`applied`) and the panel's two copies (`form`,
`rows`).  A configuration is the values of the form, the known peers and the
project table.  The writers are `Save` (the copy of the form, whole),
`SaveProjects` and `ImportWorkspaces` (the table over what is stored now),
`Learns` (the node's snapshot) and `Attach` (the generated name).  Before the
settings service is there a write is nothing (`plugin.ts:726`) and a read gives the
plugin's own configuration (`Source`, `Base`; `plugin.ts:702-704`).  An import is
four steps: its write starts and commits, the host reads the table for the
`getProjects` that follows (`ImportReads`), the answer comes (`ImportShows`);
meanwhile rows may be typed, since only the button of the import is disabled.  A load is counted as
shown when it is read: nothing can be edited before both parts are there.

`wanted` is history: the configuration with every writer's last word in it, as
long as the writers take turns, which is about timing only.  It is `Crossed` from
the first time that somebody writes, loads or imports while another's write is
under way or before the settings service is there, that a row is typed during an
import, that the node learns a peer before the watcher of the last write has run,
or that a call fails.  A save of a panel that was loaded long ago *is* in turn: what
it sets back of the peers learned and the rows typed since is kept in `behind`,
the one exception the properties make.

The modules `MC...` give the constants small values, one for each run's module.

## 4. Runs

| Run | Shows |
|---|---|
| `store` | with two flushes and three messages: nothing is lost or reordered and a message has one fate while flushes do not overlap; no early dead letter however they overlap; every flush ends |
| `store_lost` | *violation*: overlapping flushes lose a queued message |
| `transport` | two overlapping sends of one envelope and a later one the peer refuses, both nodes may stop: emitted once, resolved means received, no dead socket in the cache, every call settles and a broken connection reaches the one that waits on it, `Delivery` is implemented, with its liveness |
| `transport_broadcast` | *violation*: a late ack of one peer settles the send to the next |
| `send_and_wait` | the badge and the map of pending waits are right; a reply ends its wait or is in the inbox; a pending call is delivered |
| `routing` | any two of four shapes of requests: one fate at each agent, what may be automatic, nothing comes of a draft after its timeout, `ReplyPolicy` is implemented |
| `discovery` | known peers stay, what is known is what is saved, gone peers are dropped, the announced address wins |
| `project_sessions` | one task at a time and one session per pair, no task returns another one's answer, a queued task ends whatever became of those before it, the unloading disposes every session but one being attached |
| `lifecycle` | two edits or imports from the first start on, with contested ports and an unload at any time: an old instance has let go of its port before the next one binds, the last heavy settings come into effect or are refused, `started` is not set for a dead server, an import keeps the table sound, the unloading releases the port |
| `exchange` | a message to a peer that goes, returns and restarts: handled once per run, exactly once if reported delivered, then in the peer's inbox or read; a peer that turns up under a new id is attempted |
| `gate_panel` | one decision on a gate takes effect, with the text the human meant, whatever polls and calls do; drawer and badge come to show what there is |
| `settings_panel` | writers in turns lose nothing but what a save of an older copy sets back, and but for that the table on screen is the stored one |

Every property of a passing run has a mutant in `PROJECT.json`: a plausible slip
in one definition with which TLC finds it violated.

Some definitions of the modules are stated and not part of a run: the type
invariants, which document the variables (section 5 says which are proved);
`DeliveriesAgree` and `ManualAsListed`, which are proved, and `CallReturns`,
which TLC finds to hold on the instance of its run; and those under "What the
documentation says and the code does not do", for which see section 6.

### Bounds

* `store`: three messages are needed for an iterator to skip an entry when the
  array shrinks under it; two flushes are enough for every overlap of a pair;
  two attempts make the first keep the entry and the second bury it.
* `transport`: two overlapping calls of one envelope are needed to have a waiter
  replaced while an older ack is in flight, two sockets for the ack to come back
  on another one; a third call follows the first on whatever is cached by then.
  `MaxRetries = 1` makes both a retried and a final failed dial happen.
  `emitted` is counted up to 2, since more than one is wrong already.
* `send_and_wait`: a request with two different replies and one with a single
  reply, with and without a session; one rebuild.
* `routing`: one request of each shape and any two arrivals: two requests at one
  agent or at two, or one that is sent again after the rebuild.  Handlings share
  nothing but the settings, so a third one adds no behaviour.  The directory may
  know their sender or not, the project may be in the table or not (then all
  are plain requests), and one rebuild separates an old agent from a new one.
* `project_sessions`: two tasks of one pair are a chain, a third of another pair
  shows that pairs do not mix; a session each; one message of a human is enough
  to come before, between or after the answers.
* `discovery`: one colleague in two processes, which is what puts three and four
  entries under one name, with two addresses; each list holds the colleague at
  one address or not at all, and known addresses change by contacts.  Names do
  not interact except through the sets of names, so one name that other
  processes carry and one that nobody carries suffice; the node itself has
  either, which makes the processes namesakes or not.

* `lifecycle`: two edits make two rebuilds queue behind the first start, which is
  three instances; with three (656162 states) nothing new shows.  The requested
  port of one configuration is contested and one retry walks into the port of
  the other, so that instances could meet on a port after a walk too.  One
  configuration has no name, one table an unfinished and one a repeated row; the
  three workspaces of an import want a name that is taken, one that a suffix has
  taken, and none at all.

* `exchange`: one message, since messages share only the outbox, which `store`
  covers with three; two flushes, for a first contact that causes two; two runs of
  the peer, so that one restart separates an attempt from its retry; two attempts.
  The set of known names is empty or the peer's at the start.
* `gate_panel`: one gate, since gates share only the list they are polled in; it
  names a project, so that every branch of an approval is taken; a draft that is
  empty or not, two decisions under way (a second click, or a card and the
  dialog), two answers under way (so that they overtake each other), one rebuild.
* `settings_panel`: a form with a name and one without, so that the first run has
  something to write; one peer to learn, one row to add, remove or import, two
  writes under way, which can commit in either order.  A second peer (16.3
  million states) or a second row (1.85 million, with one write at a time) shows
  nothing new.

Deadlock is not checked in runs of systems that finish (all messages settled,
all requests decided); `send_and_wait` checks it.

### Fairness

* `Store`: a flush that runs takes its next step, because every transport call
  settles (`Transport!CallSettles`).  Nothing makes a flush start.
* `Transport`: the dial's and the ack's timers fire.  Nothing is assumed of
  sockets, frames or peers.
* `SendAndWait`: the send settles and the timers fire.  No reply is assumed.
* `Discovery`: the sweep is an interval timer, the clock advances, and a process
  that is there announces itself every second on a multicast that works.
* `ProjectSessions`: a task goes on when what it awaits is there, an agent ends
  its turns.  The code has no timeout of its own here: `TaskSettles` holds
  because the host does its part, and a session that never becomes idle does
  block its pair.
* `Lifecycle`: a `listen` call ends, the pause before the second try ends, a server
  whose connections are closed calls back (`stop` closes them all first), and
  promise callbacks run.  No port need become free.
* `Exchange`: a peer that is up announces itself again and again on a multicast
  that works, an event handler makes its calls, and an attempt settles.  Nothing
  is assumed of the network: the attempt may fail.
* `GatePanel`: the interval timers fire and an answer that came is shown; a host
  that is polled again and again is reached again and again (strong fairness of
  `GateSnapshot`, since polls may fail in between).  Nobody need decide.
* `Routing` and `SettingsPanel` assume none: their properties are about safety.

## 5. Proofs

The theorems hold for every value of the constants, under the named assumptions
of the modules only.

* `StoreProofs!TypeCorrect`: `TypeOK` is inductive on its own; the step cases
  rest on lemmas about what `Kept` builds.
* `StoreProofs!NoEarlyDeadLetterHolds`: `NoEarlyDeadLetter` is not inductive,
  because a dead letter may come from any copy of an entry.  The invariant
  `LetterInv` adds that every copy (in the outbox, in a `remaining` list, or
  current in a flush) counts at most as many attempts as were refused for its
  message.
* `StoreProofs!NothingLostAloneHolds`: `AloneInv` adds where a message may be
  while one flush runs: behind the cursor of the only flush it is in
  `remaining`, resolved, or the current entry; at and after the cursor it is in
  the array.
* `StoreProofs!QueueOrderKeptHolds`, an action property: `WalkInv` adds to the
  bookkeeping of the queue how the only flush stands in it.  What remains was at
  places of the array before the cursor, in that order, and no message is twice in
  the outbox; a step then appends a new message, moves the cursor, or replaces the
  array by what remains, and none of these turns two entries around.
* `StoreProofs!OneFateAloneHolds`: `FateInv` adds that what the only flush has
  still before it, and what it will put back, is neither delivered nor given up,
  so that an attempt settles a message that had no fate yet.
* `TransportProofs!TypeCorrect` and `EmittedOnceHolds` follow from `WireInv`:
  what was emitted at a node is exactly what it has seen; a cached socket leads
  to the peer it is cached for; a registered waiter awaits its ack; an envelope
  in flight was sent to the node at the end of its socket; and an ack in flight
  was written by a node that has seen its envelope.
* `TransportProofs!DeliveredWasReceivedHolds`: an ack shows that *some* node the
  envelope was sent to has seen it.  Under `Unicast` (all calls of one envelope
  go to one peer) that node is the addressee.  The run `transport_broadcast`
  shows that the assumption is needed.
* `TransportProofs!TransportImplementsDelivery`, under the same assumption: each
  step of the transport starts a call, hands an envelope over for the first
  time, ends calls, or changes nothing that `Delivery` sees.
* `TransportProofs!CacheIsLiveHolds` and `FailsFastHolds`: only a socket's close
  event kills it, and that event clears the slot in the cache (`CacheAlive`) and
  fails the waiters on it; a call that alone carries its envelope loses its slot
  to nobody else (`AloneWaits`).  `LiveInv` is both with `WireInv`.
* `TransportProofs!OwnEnvelopesAccepted`, about `EnvelopeRules`: for any identity,
  target, body and attachment a node may use, the peer accepts the envelope if and
  only if the body is short enough and the attachment is absent or acceptable.  It makes the
  parameter `Valid` of the transport meaningful: what is refused there is what
  the sending side never looked at.
* `StoreProofs!ExchangeImplementsStore`: every step of the composition is one
  of the store or leaves the store alone, so that the theorems about `Store`
  hold among peers, restarts and events too.
* `StoreProofs!HandledOncePerRunHolds`: `handled[m] <= run[p]` is not
  inductive; `ReceiverInv` adds that it is strict while the present run has not
  seen the message.
* `StoreProofs!ReportedDeliveredOnceHolds`: `OnceInv` relates the only attempt
  of a message that is not queued to the network: before it has written, nothing
  was handled and nothing is in flight; after it, the envelope is on the wire and
  unhandled, or handled once with at most an ack in flight.  That no flush
  attempts such a message is an invariant of the store alone (`QueuedOnly`: what
  is in the outbox, in a `remaining` list or current in a flush is queued),
  carried over by `StoreStep`.
* `StoreProofs!DeliveredReachesAgentHolds`: `ReachInv` says the same of whatever
  the first run of a peer has seen and of acks in flight, since an attempt
  delivers by an ack, and an ack is written by who has seen the message.
* `RoutingProofs!OneFateHolds`, `AutoReplyAllowedHolds` and `TimedOutIsHumanHolds`:
  a step is about one handling (`Untouched`), so `RoutingInv` is kept handling by
  handling.  That nothing forbidden is answered automatically is not inductive:
  `MayBecomeAuto` says what a draft under way may still become, although settings
  and directory change while it is awaited; only the depth of the chain is looked
  at after the draft.  `Degraded` says the same of a draft that timed out.
  `ArrivalsKept` says that nothing has come to an agent before it is built, and
  that what is in the inbox has come to the current one.
* `RoutingProofs!RoutingImplementsPolicy`: each step is one of `ReplyPolicy` under
  the mapping of `Routing`, or leaves the phase of every handling alone; a rebuild
  is `Replace`.
* `LifecycleProofs!ReleasedBeforeNextHolds` and `StartedMeansUpHolds`: `LifeInv`
  says that every instance before the current one was told to stop, that a
  stopped one is never up, and that one which releases its port is the current one
  while a rebuild waits for it.  `InstancesCounted` says that instances and
  rebuilds to come are owed to edits, so that there is always a next instance.
* `SendAndWaitProofs`: `WaitInv` adds to the two invariants that a resolved wait
  is done (so its timer cannot report again) and that whatever resolved a wait or
  stands in the inbox has arrived and is not in both places.
* `ProjectSessionsProofs!PairIsSerialHolds`: the promise chain of a pair is a
  line.  The invariant claims that *some* rank of the tasks exists along which
  each task is chained to its predecessor, the tail is last, and whoever has
  left `queued` has only finished tasks before it (`Line`, `InOrder`); enqueueing
  extends the rank by one.  `Owned` adds that a live session belongs to the pair
  that stores it or to the one task about to store it.
* `ProjectSessionsProofs!UnloadDisposesStoredHolds`, an action property, follows
  from `Owned`.
* `ProjectSessionsProofs!AnswersOwnRequestHolds`: `Asking` says that from the
  answer a task starts to read at, its session answers only it and the human, and
  only their messages wait there.  It is established when the session is found
  idle and rests on the chain: no other task of the pair is asking.
* `GatePanelProofs!DecidedOnceHolds`: a gate that stands is undecided and of the
  present agent, a request not gated yet is undecided (`Undecided`).
* `GatePanelProofs!SentWasMeantHolds`: `Faithful` says of every card shown, in an
  answer or in a call that it is of an earlier agent or carries the draft of the
  gate as it stands; this is why an approval without text is safe although the
  host, not the human's screen, supplies the draft, and why a rebuild is the one
  exception.
* `SettingsProofs!TurnsLoseNothingHolds` and `TableShownIsStoredHolds`: while
  nobody crosses anybody, the one replace under way (or what is stored, if there is
  none) holds every writer's last word but for what is `behind` (`Carried`, `Holds`);
  the table on screen, or the one about to be shown, is that configuration's
  (`ScreenKept`); and once its watcher has run the node's snapshot is what is stored
  (`SnapshotKept`), which is why a first contact, which writes the snapshot, loses
  nothing in turn.
* `SettingsProofs!KnownPeersKeptHolds` is about `DirectorySpec` of `Discovery`,
  whose constants and variables are its own.  `DirectoryInv` adds that the lists for
  `start` are those of the settings unless an edit came before, and that the
  entries of a name stay a sequence whatever is deleted of it (`AtIsList`), so
  that what `upsert` appends is there.

* `SettingsProofs!ManualAsListedHolds`, also about `DirectorySpec`: `ManualInv`
  adds the type of the directory and that the lists for `start` have the manual
  addresses of the settings unless an edit came before.  The entries of a name
  have distinct ids; deleting some of them (`AtKeeps`, by the ranks of the
  positions that stay) or installing others keeps the manual one, if there is
  one, as it is.  `DirectoryTypesHold` is the first conjunct.
* `SendAndWaitProofs!DeliveriesAgreeHolds`: `ToldInv` adds that a call which has not
  returned was told nothing and has no followup, so that the one outcome of a wait
  is reported once, and as what ended it (`EndedToldRight`).
* `LifecycleProofs!ImportKeepsTableHolds`: what one turn of a loop does to the table
  (`Keep`, `AddWorkspace`) is proved first, then carried through the loop by taking
  the first turn after which it fails (`SmallestOf`, from `WFMin` of
  `WellFoundedInduction`), which stands in for an induction; `KeptTurns` and
  `MergedTurns` show that the functions of the loops exist.  That a derived name is
  free is the pigeonhole of `UniqueIsFree`: among one suffix more than there are
  names, one is free.  `NothingToImport` makes the second import idle.  The
  assumptions used are that tables and workspaces are lists and that a workspace
  has an absolute path (`TablesAreLists`, `WorkspacesAreListed`): the settings
  service and the workspace registry of the host give no others.
* `LifecycleProofs!LifecycleTypesHold`: whatever is edited and imported, the table
  is one of `Tables` or the import into one, since a second import adds nothing
  (`RowsClosed`); no more rebuilds wait than there were edits (`RebuildsCounted`).

Every safety invariant and every safety action property of the runs is proved,
and so are the type invariants of `Store`, `Transport`, `SendAndWait`,
`Discovery` and `Lifecycle`, and that of `Routing` as a part of `RoutingInv`.
Left to TLC is liveness under fairness, which is out of the prover's reach: all
properties with `~>` or `[]<>`, and the liveness of `Delivery` (its safety is
`TransportImplementsDelivery`).

## 6. What the code does not do as documented

* `store_lost`: two overlapping flushes lose a message (`store.ts:89`).
* `transport_broadcast`: the ack of one peer may settle the send of a broadcast
  to another (`transport.ts:278`).

Seen while modelling, and stated as a property that TLC refutes, without a run
among those of section 4:

* `SendAndWait!TimeoutMeansNoReply`: README.md:19 says that "the eventual reply
  (or total timeout) is delivered back into your session automatically".  A reply
  handled before the wait is registered, or by the agent of a rebuilt node, goes
  to the inbox, and the session is told that no reply came (`agent.ts:99`).
* `Discovery!AddressFollowsContact`: the comment at `discovery.ts:222` says
  "replacing any prior entry with the same name", but only the first one is
  deleted and the new one is appended behind the others, which `resolveByName`
  prefers (`discovery.ts:227`).
* `Lifecycle!UnfinishedRowIsHarmless`: `config.ts:137-140` says that an unfinished
  row of the project table can be stored "without breaking discovery or the
  project-task lookup".  The next heavy edit stops the node and then refuses to
  build the new one (`plugin.ts:299`); saving the same settings again changes
  nothing, since `this.config` has them already.
* `SettingsPanel!KnownUntilRemoved`: README.md:64 and `client/i18n.ts:268` say that
  known peers are persisted until they are removed.  A save of a panel that was
  loaded before the contact (`client/P2PSettingsSection.tsx:111`), or the naming
  of the first run when it commits after it (`plugin.ts:714`), drops them.
* `Exchange!InboxIsDurable`: the comment at `store.ts:33` says "Durable local
  queue for outbound retry and inbound async delivery".  Both are lists in memory:
  a restart or a heavy edit of the receiver loses what its agent has not read,
  although it was acknowledged.

Seen while modelling:

* a save of the settings form also writes the project rows as they were when the
  panel was loaded, while the panel goes on showing the ones typed since
  (`client/P2PSettingsSection.tsx:111`);
* a first contact stores the node's snapshot, not what is stored, and may undo a
  save that is under way (`plugin.ts:365`);
* a node without a name works with the nameless configuration until its generated
  name is committed, and is refused by a rebuild meanwhile (`plugin.ts:714-718`);
* a save before the settings service is there answers ok and stores nothing
  (`plugin.ts:726, 733`);
* a gate of a broadcast or a project request has an empty draft, so its Approve
  button is disabled; the text typed for a project request is not looked at
  (`client/P2POverlay.tsx:145`, `agent.ts:255`);
* a refused approval is always explained as an empty reply
  (`client/P2POverlay.tsx:63`);
* a card from before a rebuild approves the gate that stands now, with a draft
  nobody has seen, if the same request came in again (`agent.ts:278`);
* rows typed while an import is under way are stored, but the table that the
  import shows when it ends is an older one (`client/P2PSettingsSection.tsx:140-142`);
* a request that is sent again after a rebuild, because its ack was lost, is gated
  or answered a second time, although the id is the same: the set of ids seen is
  the transport's (`transport.ts:67`, `plugin.ts:182`);
* a gate that is open at a rebuild, or that the replaced agent opens afterwards, is
  out of reach, and the old inbox with its request is gone too
  (`plugin.ts:299`), although `agent.ts:184` says that a request must not be
  silently inbox-only;
* switching to a provider without models stores an empty model, which the comment
  at `client/P2PSettingsSection.tsx:233-235` excludes;
* a known peer that returns as the same process raises no event, since its entry
  was never dropped: what is queued for it waits for another peer
  (`discovery.ts:330`); `ReturnIsAttempted` speaks of an id that is not listed;
* a total timeout of more than 2^31-1 ms fires at once (`agent.ts:339`);
* `config.ts:54` has 31 characters where the comment below it counts 32;
* two concurrent dials leave a socket that no map holds and `stop` does not
  close (`transport.ts:217`);
* a project request of an unknown sender can be approved and runs, although the
  comment at `agent.ts:185-187` says that approval is refused (`agent.ts:255`);
* a light edit that is applied while a rebuild is queued is lost to the node
  (`plugin.ts:319`);
* a rebuild that is pending when the plugin unloads brings up a node afterwards
  (`plugin.ts:285`); `UnloadReleases` has to leave the case out;
* the failure of a first start that was replaced meanwhile marks its live
  successor as not started (`plugin.ts:278`);
* a session that is being attached to its workspace when the node unloads is
  never disposed (`plugin.ts:164` and 501), which is the exception
  `UnloadDisposesStored` has to make.

## 7. Not modelled

* Browser: the lists of peers and of the inbox, the notice of a refusal, the
  background bar, opening and closing the drawer, the status line, the offer of
  LLM models and the debug view: they show what was polled, and nothing is decided
  on them.  How long a poll of the footer takes is left out.
* The human's read marks of the inbox (`markThreadRead`, `humanUnreadCount`): no
  part of the program calls them.
* `nodeStatus`, `debugSnapshot`, `backgroundWaits`: they only read.  The value of
  the last one is what `WaitsAccounted` is about.
* What a node announces of its capabilities and projects, and the lookup by
  capability; the prompt and the parsing of a draft; preset, title and workspace
  of a project session; the random suffix of a node name.
* The attachment store and `createDedupe`, which nothing calls; `sign` and
  `verify`, which are placeholders; the diagnostic log; types, texts and styles.
* The settings service, the agents and the workspace registry of the host are
  external: how they are used is modelled, not how they work.
* The generated files under `lib/`, the scripts, docker suites and tests are not
  part of the running node.

A crash of a node is the same as its end: nothing but the settings is persisted,
so that a restart is a fresh node, which `Exchange` has for the peers.
