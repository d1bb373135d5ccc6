------------------------------- MODULE Lifecycle -------------------------------
(***************************************************************************)
(* The life of a node (src/plugin.ts: constructor, startNode, stopNode,    *)
(* rebuildNode, applyConfig; src/transport.ts: start, bindOnce and the     *)
(* server half of stop).  A change of a heavy setting replaces the node:   *)
(* every replacement is an instance with a transport of its own, which     *)
(* looks for a free port.  Replacements are queued one behind the other,   *)
(* but the first start is not awaited by anybody, and the plugin may       *)
(* unload at any time.                                                     *)
(*                                                                         *)
(* Settings are a core (node name, port, discovery on or off: heavy) and   *)
(* the project table, which stands for all light ones.                     *)
(***************************************************************************)
EXTENDS ProjectTable

CONSTANTS
    Cores,         \* values of the heavy settings
    PortOf,        \* the requested port of each
    Nameless,      \* those with an empty node name
    InitialCore,
    Tables,        \* project tables an edit may write
    Workspaces,    \* what the host's workspaces look like to an import
    PortRetries,   \* ports tried beyond the requested one
    Contested,     \* ports other processes take and release
    MaxEdits       \* bound on changes of the settings

ASSUME LifecycleTypes ==
    /\ PortOf \in [Cores -> Nat]
    /\ InitialCore \in Cores \ Nameless
    /\ <<>> \in Tables
    /\ PortRetries \in Nat /\ MaxEdits \in Nat

\* A table is a list, whatever its rows hold.
ASSUME TablesAreLists == \A t \in Tables : IsList(t)

\* A workspace is a directory the host works in; its title and the last part
\* of its path may be anything.
ASSUME WorkspacesAreListed ==
    /\ IsList(Workspaces)
    /\ \A k \in DOMAIN Workspaces :
          /\ Workspaces[k].path \in AbsolutePaths
          /\ IsList(Workspaces[k].title) /\ IsList(Workspaces[k].base)

VARIABLES
    config,     \* this.config, as far as it is modelled
    edits,      \* number of edits so far
    queue,      \* rebuilds behind the one that runs: this.rebuildTail
    phase,      \* of rebuildNode: idle, draining, building or starting
    target,     \* the configuration it was called with
    current,    \* the instance this.transport belongs to
    core,       \* per instance: the heavy settings it was built with
    stage,      \* per instance: progress of its transport
    attempt,    \* per instance: ports walked past
    graced,     \* per instance: the requested port was tried twice
    closing,    \* per instance: stop() was called
    started,    \* this.started
    loaded,     \* FALSE once the plugin was unloaded
    foreign,    \* ports other processes hold
    table       \* projects the current node works with

rebuild == <<queue, phase, target>>
instances == <<core, stage, attempt, graced, closing>>
vars == <<config, edits, rebuild, current, instances, started, loaded,
          foreign, table>>

Ids == 1 .. MaxEdits + 1
Rows == UNION {{t, MergeWorkspaces(t, Workspaces)} : t \in Tables}
Configs == [core : Cores, rows : Rows]

Stages == {"unbuilt", "binding", "grace", "up", "rejecting", "releasing",
           "stopped", "failed"}

TypeOK ==
    /\ config \in Configs
    /\ edits \in 0 .. MaxEdits
    /\ queue \in Seq(Configs) /\ Len(queue) <= MaxEdits
    /\ phase \in {"idle", "draining", "building", "starting"}
    /\ target \in Configs
    /\ current \in Ids
    /\ core \in [Ids -> Cores]
    /\ stage \in [Ids -> Stages]
    /\ \A i \in Ids : stage[i] = "unbuilt" <=> i > current
    /\ attempt \in [Ids -> 0 .. PortRetries]
    /\ graced \in [Ids -> BOOLEAN]
    /\ closing \in [Ids -> BOOLEAN]
    /\ started \in BOOLEAN
    /\ loaded \in BOOLEAN
    /\ foreign \subseteq Contested
    /\ Normalizes(table)

\* The constructor builds the first node and its start begins at once.
Init ==
    /\ config = [core |-> InitialCore, rows |-> <<>>]
    /\ edits = 0
    /\ queue = <<>>
    /\ phase = "idle"
    /\ target = config
    /\ current = 1
    /\ core = [i \in Ids |-> InitialCore]
    /\ stage = [i \in Ids |-> IF i = 1 THEN "binding" ELSE "unbuilt"]
    /\ attempt = [i \in Ids |-> 0]
    /\ graced = [i \in Ids |-> FALSE]
    /\ closing = [i \in Ids |-> FALSE]
    /\ started = FALSE
    /\ loaded = TRUE
    /\ foreign \in SUBSET Contested
    /\ table = <<>>

-----------------------------------------------------------------------------
(* Starting a transport *)

Holds(i) == stage[i] \in {"up", "rejecting", "releasing"}
Candidate(i) == PortOf[core[i]] + attempt[i]
Taken == foreign \cup {Candidate(i) : i \in {j \in Ids : Holds(j)}}

To(i, s) == stage' = [stage EXCEPT ![i] = s]

\* rebuildNode waits for the start of the instance it has built.
RebuildGoesOn(i) ==
    phase' = IF phase = "starting" /\ i = current THEN "idle" ELSE phase

\* How startNode() ends.
StartSucceeds == started' = TRUE

StartFails(i) ==
    /\ started' = FALSE
    /\ RebuildGoesOn(i)

\* Mutant: a transport that was stopped while it bound listens all the same.
BoundStays(i) == To(i, "up") /\ StartSucceeds

\* bindOnce() looks at closing once it listens: the server is closed again.
Bound(i) ==
    IF closing[i]
    THEN To(i, "rejecting") /\ started' = FALSE
    ELSE To(i, "up") /\ StartSucceeds

BindSucceeds(i) ==
    /\ stage[i] = "binding"
    /\ Candidate(i) \notin Taken
    /\ Bound(i)
    /\ RebuildGoesOn(i)
    /\ UNCHANGED <<config, edits, queue, target, current, core, attempt,
                   graced, closing, loaded, foreign, table>>

\* EADDRINUSE: one more try of the requested port after a while, then the next
\* ports, then the start fails.
BindRefused(i) ==
    /\ stage[i] = "binding"
    /\ Candidate(i) \in Taken
    /\ \/ /\ attempt[i] = 0 /\ ~graced[i]
          /\ To(i, "grace")
          /\ UNCHANGED <<attempt, phase, started>>
       \/ /\ attempt[i] > 0 \/ graced[i]
          /\ attempt[i] < PortRetries
          /\ attempt' = [attempt EXCEPT ![i] = @ + 1]
          /\ UNCHANGED <<stage, phase, started>>
       \/ /\ attempt[i] > 0 \/ graced[i]
          /\ attempt[i] = PortRetries
          /\ To(i, "failed")
          /\ StartFails(i)
          /\ UNCHANGED attempt
    /\ UNCHANGED <<config, edits, queue, target, current, core, graced,
                   closing, loaded, foreign, table>>

\* Any other error ends the start at once.
BindFails(i) ==
    /\ stage[i] = "binding"
    /\ To(i, "failed")
    /\ StartFails(i)
    /\ UNCHANGED <<config, edits, queue, target, current, core, attempt,
                   graced, closing, loaded, foreign, table>>

GraceOver(i) ==
    /\ stage[i] = "grace"
    /\ To(i, "binding")
    /\ graced' = [graced EXCEPT ![i] = TRUE]
    /\ UNCHANGED <<config, edits, rebuild, current, core, attempt, closing,
                   started, loaded, foreign, table>>

\* server.close() has called back.
Released(i) ==
    /\ stage[i] \in {"rejecting", "releasing"}
    /\ To(i, "stopped")
    /\ UNCHANGED <<config, edits, rebuild, current, core, attempt, graced,
                   closing, started, loaded, foreign, table>>

\* transport.stop() up to its await.  A start in progress is only marked.
Stopping(i) ==
    /\ closing' = [closing EXCEPT ![i] = TRUE]
    /\ IF stage[i] = "up" THEN To(i, "releasing") ELSE UNCHANGED stage

-----------------------------------------------------------------------------
(* Settings *)

Idle == phase = "idle" /\ queue = <<>>

\* applyConfig(): heavy changes are queued, light ones change the node at once.
Applied(next) ==
    /\ config' = next
    /\ IF next.core # config.core
       THEN queue' = Append(queue, next) /\ UNCHANGED table
       ELSE table' = ValidProjects(next.rows) /\ UNCHANGED queue
    /\ UNCHANGED <<phase, target, current, instances, started, loaded, foreign>>

Edit(next) ==
    /\ loaded /\ edits < MaxEdits
    /\ edits' = edits + 1
    /\ next # config
    /\ Applied(next)

\* importWorkspaces() merges into the stored table, which is then applied.
Import ==
    /\ loaded /\ edits < MaxEdits
    /\ edits' = edits + 1
    /\ Applied([config EXCEPT !.rows = MergeWorkspaces(@, Workspaces)])

-----------------------------------------------------------------------------
(* rebuildNode *)

\* Mutant: the old server is not waited for.
RebuildBeginsUnawaited ==
    /\ phase = "idle" /\ queue # <<>>
    /\ target' = Head(queue)
    /\ queue' = Tail(queue)
    /\ phase' = "building"
    /\ Stopping(current)
    /\ UNCHANGED <<config, edits, current, core, attempt, graced, started,
                   loaded, foreign, table>>

RebuildBegins ==
    /\ phase = "idle" /\ queue # <<>>
    /\ target' = Head(queue)
    /\ queue' = Tail(queue)
    /\ phase' = IF stage[current] = "up" THEN "draining" ELSE "building"
    /\ Stopping(current)
    /\ UNCHANGED <<config, edits, current, core, attempt, graced, started,
                   loaded, foreign, table>>

\* createIdentity() and normalizeProjects() accept it.
Buildable(c) == c.core \notin Nameless /\ Normalizes(c.rows)

\* buildNode(): a new instance, whose transport startNode() then starts.
Built(c) ==
    /\ current' = current + 1
    /\ core' = [core EXCEPT ![current'] = c.core]
    /\ To(current', "binding")
    /\ table' = c.rows

ReadyToBuild ==
    \/ phase = "building"
    \/ phase = "draining" /\ stage[current] = "stopped"

\* Mutant: the flag is left alone.
RebuildBuildsStarted ==
    /\ ReadyToBuild
    /\ Buildable(target)
    /\ Built(target)
    /\ phase' = "starting"
    /\ UNCHANGED <<config, edits, queue, target, attempt, graced, closing,
                   started, loaded, foreign>>

RebuildBuilds ==
    /\ ReadyToBuild
    /\ Buildable(target)
    /\ Built(target)
    /\ phase' = "starting"
    /\ started' = FALSE
    /\ UNCHANGED <<config, edits, queue, target, attempt, graced, closing,
                   loaded, foreign>>

\* Mutant: without the catch the chain ends here.
RebuildRefusedUncaught ==
    /\ ReadyToBuild
    /\ ~Buildable(target)
    /\ phase' = "starting"
    /\ started' = FALSE
    /\ UNCHANGED <<config, edits, queue, target, current, instances, loaded,
                   foreign, table>>

\* buildNode() throws, the old instance stays, stopped; the chain goes on.
RebuildRefused ==
    /\ ReadyToBuild
    /\ ~Buildable(target)
    /\ phase' = "idle"
    /\ started' = FALSE
    /\ UNCHANGED <<config, edits, queue, target, current, instances, loaded,
                   foreign, table>>

\* stopNode(), when the plugin unloads: a rebuild in progress goes on.
Unload ==
    /\ loaded
    /\ loaded' = FALSE
    /\ Stopping(current)
    /\ started' = FALSE
    /\ UNCHANGED <<config, edits, rebuild, current, core, attempt, graced,
                   foreign, table>>

OthersBind ==
    /\ \E p \in Contested \ Taken : foreign' = foreign \cup {p}
    /\ UNCHANGED <<config, edits, rebuild, current, instances, started, loaded,
                   table>>

OthersRelease ==
    /\ \E p \in foreign : foreign' = foreign \ {p}
    /\ UNCHANGED <<config, edits, rebuild, current, instances, started, loaded,
                   table>>

Edits == (\E next \in [core : Cores, rows : Tables] : Edit(next)) \/ Import
Binds(i) == BindSucceeds(i) \/ BindRefused(i) \/ BindFails(i) \/ GraceOver(i)
Rebuilds == RebuildBegins \/ RebuildBuilds \/ RebuildRefused

Next ==
    \/ Edits \/ Rebuilds \/ Unload
    \/ \E i \in Ids : Binds(i) \/ Released(i)
    \/ OthersBind \/ OthersRelease

Spec == Init /\ [][Next]_vars

\* A listen call ends, the grace timer fires, a closed server calls back, and
\* promise callbacks run.
Fairness ==
    /\ \A i \in Ids : WF_vars(Binds(i)) /\ WF_vars(Released(i))
    /\ WF_vars(Rebuilds)

FairSpec == Spec /\ Fairness

-----------------------------------------------------------------------------
(* "Two rapid config saves never race two servers onto one port"            *)
(* (plugin.ts:131, 284-286): while the plugin is loaded, an instance that   *)
(* was replaced neither listens nor still releases its port, so the new one *)
(* never takes it for an external occupant.  Only a start that was in       *)
(* progress when its instance was replaced may still come and go.           *)
ReleasedBeforeNext ==
    loaded => \A i \in Ids : i # current => stage[i] \notin {"up", "releasing"}

(* The node never works with other heavy settings than the last ones for    *)
(* good, and no refused configuration ends the chain of rebuilds            *)
(* (plugin.ts:312-325): the settings last saved come to be those of the     *)
(* current instance, or were found unfit to build one.                      *)
LastEditApplies ==
    \A c \in Cores :
        config.core = c /\ loaded ~>
            \/ config.core # c
            \/ core[current] = c
            \/ Idle /\ target.core = c /\ ~Buildable(target)

(* `started` is what the settings panel shows as "listening"                *)
(* (plugin.ts:127, types.ts:192): it is never set for a node whose server   *)
(* is not up, except while a rebuild waits for the old server to close.     *)
StartedMeansUp == started => stage[current] = "up" \/ phase = "draining"

(* "Close every connection and release the port" (transport.ts:169), also   *)
(* of a start that was in progress: a node that is unloaded while no        *)
(* rebuild is pending ends with no port held (plugin.ts:157-162).           *)
UnloadReleases ==
    ~loaded /\ Idle /\ closing[current] ~> \A i \in Ids : ~Holds(i)

(* An import keeps a table the node can be built with, has every workspace  *)
(* in it in a way the node can act on, and is idempotent                    *)
(* (config.ts:190-218); and the strict check accepts just the tables the    *)
(* lenient one keeps whole (config.ts:109-156).                             *)
ImportKeepsTable ==
    LET rows == MergeWorkspaces(config.rows, Workspaces)
    IN  /\ Normalizes(config.rows) <=> ValidProjects(config.rows) = config.rows
        /\ MergeWorkspaces(rows, Workspaces) = rows
        /\ Normalizes(config.rows) =>
              /\ Normalizes(rows)
              /\ {Workspaces[k].path : k \in DOMAIN Workspaces}
                     \subseteq PathsOf(ValidProjects(rows))

-----------------------------------------------------------------------------
(* What the documentation says and the code does not do.                    *)

(* "an in-progress row the user has not finished typing (empty name,        *)
(* relative path) can still be persisted and shown without breaking         *)
(* discovery or the project-task lookup" (config.ts:138-140): when all      *)
(* rebuilds are done, no node with a name stands still because of a row.    *)
UnfinishedRowIsHarmless ==
    Idle /\ loaded /\ config.core \notin Nameless => core[current] = config.core
=============================================================================
