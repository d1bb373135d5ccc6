----------------------------- MODULE SettingsPanel -----------------------------
(***************************************************************************)
(* Who writes the stored configuration.  The browser's settings section    *)
(* (src/client/P2PSettingsSection.tsx) works on a copy it loaded once and  *)
(* sends it whole; rows of the project table are sent as they are typed;   *)
(* an import, a peer learned on first contact and the naming of the first  *)
(* run write too (src/plugin.ts:349-373, 536-567, 685-736).  Every writer  *)
(* replaces the whole configuration by what it has read before.            *)
(*                                                                         *)
(* The settings service is external: a replace commits or fails some time  *)
(* later, in any order, and its watchers run after the commit.  A call of  *)
(* the panel starts its write at once.  What the node does with a          *)
(* configuration is in Lifecycle.                                          *)
(***************************************************************************)
EXTENDS Naturals, FiniteSets

CONSTANTS
    Forms,        \* values of the fields of the form, the node name included
    Named,        \* the form with its name resolved: resolveNodeName()
    Peers,        \* peers that may make contact
    Rows,         \* rows of the project table
    Workspaces,   \* those an import adds
    Base,         \* the plugin's own configuration, its name resolved
    MaxWrites     \* bound on the writes under way at once

Config == [form : Forms, known : SUBSET Peers, rows : SUBSET Rows]

ASSUME SettingsTypes ==
    /\ Named \in [Forms -> Forms]
    /\ \A f \in Forms : Named[Named[f]] = Named[f]
    /\ Workspaces \subseteq Rows
    /\ Base \in Config
    /\ MaxWrites \in Nat \ {0}

VARIABLES
    attached,    \* configScope is defined
    stored,      \* what the settings service holds
    writes,      \* replaces under way
    due,         \* a watcher has still to run
    applied,     \* this.config
    form,        \* the panel's config, or Closed
    rows,        \* the panel's projects, or Closed
    importing,   \* the panel's import: no, writing, reading or answered
    fetched,     \* the table that is the answer
    wanted,      \* history: every writer's last word, or Crossed
    behind       \* history: what a save of an older copy has set back

history == <<wanted, behind>>
panel == <<form, rows, importing, fetched>>
vars == <<attached, stored, writes, due, applied, panel, history>>

Closed == [form |-> "closed"]
Crossed == [form |-> "crossed"]

TypeOK ==
    /\ attached \in BOOLEAN /\ due \in BOOLEAN
    /\ stored \in Config /\ applied \in Config
    /\ writes \subseteq [import : BOOLEAN, config : Config]
    /\ form \in Config \cup {Closed}
    /\ rows \in [form : {"closed"}] \cup [list : SUBSET Rows]
    /\ importing \in {"no", "writing", "reading", "answered"}
    /\ fetched \subseteq Rows
    /\ wanted \in Config \cup {Crossed}
    /\ behind \subseteq {"known", "rows"}

\* A host-scoped random name stands in for a missing one.
NamedConfig(config) == [config EXCEPT !.form = Named[config.form]]

\* Whatever earlier runs have stored on top of the base configuration.
Init ==
    /\ attached = FALSE
    /\ stored \in [form : Forms, known : SUBSET Peers, rows : {{}}]
    /\ writes = {} /\ due = FALSE
    /\ applied = Base
    /\ form = Closed /\ rows = Closed /\ importing = "no" /\ fetched = {}
    /\ wanted = stored /\ behind = {}

-----------------------------------------------------------------------------
(* Writing *)

\* No write, load or import has ever run into another or failed, and nothing
\* is being written.
Turn == wanted # Crossed /\ attached /\ writes = {}

\* For the history: the writer wants want, and it is its turn.
Wants(want, inTurn) == wanted' = IF Turn /\ inTurn THEN want ELSE Crossed

\* configPersist / projectsPersist: nothing at all before the scope exists.
Replace(import, config) ==
    IF attached
    THEN /\ Cardinality(writes) < MaxWrites
         /\ writes' = writes \cup {[import |-> import, config |-> config]}
    ELSE UNCHANGED writes

\* The panel waits for its import.
ImportGoesOn(w, how) ==
    importing' = IF w.import /\ importing = "writing" THEN how
                 ELSE importing

Commits(w) ==
    /\ stored' = w.config
    /\ writes' = writes \ {w}
    /\ due' = TRUE
    /\ ImportGoesOn(w, "reading")
    /\ UNCHANGED <<attached, applied, form, rows, fetched, history>>

Fails(w) ==
    /\ writes' = writes \ {w}
    /\ wanted' = Crossed
    /\ ImportGoesOn(w, "no")
    /\ UNCHANGED <<attached, stored, due, applied, form, rows, fetched, behind>>

\* watch(), and the callback of the first run's replace.
Watched ==
    /\ due
    /\ due' = FALSE
    /\ applied' = stored
    /\ UNCHANGED <<attached, stored, writes, panel, history>>

-----------------------------------------------------------------------------
(* The host *)

\* The settings service is there.  A node without a name gets one, and until
\* that is committed it works with the nameless configuration.
Attach ==
    /\ ~attached
    /\ attached' = TRUE
    /\ applied' = stored
    /\ LET named == NamedConfig(stored)
       IN  /\ writes' = IF named = stored THEN {}
                        ELSE {[import |-> FALSE, config |-> named]}
           /\ wanted' = IF wanted = Crossed THEN Crossed ELSE named
    /\ UNCHANGED <<stored, due, panel, behind>>

\* learnInboundPeer(): the node's own snapshot, changed and persisted.  It is
\* not the node's turn before its watcher has run.
Learns(p) ==
    LET next == [applied EXCEPT !.known = @ \cup {p}]
    IN  /\ p \notin applied.known
        /\ applied' = next
        /\ Replace(FALSE, next)
        /\ Wants([wanted EXCEPT !.known = @ \cup {p}], ~due)
        /\ UNCHANGED <<attached, stored, due, panel, behind>>

-----------------------------------------------------------------------------
(* The panel *)

\* source(), with fallback() before the scope exists.
Source == IF attached THEN stored ELSE Base

\* getConfig() and getProjects() are two calls of one Promise.all.  Each copy
\* is taken when the host reads it: nothing is edited before both are shown.
ReadConfig ==
    /\ form = Closed
    /\ form' = Source
    /\ Wants(wanted, TRUE)
    /\ UNCHANGED <<attached, stored, writes, due, applied, rows, importing,
                   fetched, behind>>

ReadProjects ==
    /\ rows = Closed
    /\ rows' = [list |-> Source.rows]
    /\ Wants(wanted, TRUE)
    /\ UNCHANGED <<attached, stored, writes, due, applied, form, importing,
                   fetched, behind>>

Loaded == form # Closed /\ rows # Closed

Patch(value) == form' = [form EXCEPT !.form = value]

\* Every field of the form patches the local copy.
Fill(value) ==
    /\ Loaded
    /\ Patch(value)
    /\ UNCHANGED <<attached, stored, writes, due, applied, rows, importing,
                   fetched, history>>

\* The whole copy is sent: its peers and its rows are those of the load, which
\* sets back what has been learned or typed since.
Save ==
    /\ Loaded
    /\ Replace(FALSE, form)
    /\ Wants([wanted EXCEPT !.form = form.form], TRUE)
    /\ behind' = behind \cup {f \in {"known", "rows"} : form[f] # stored[f]}
    /\ UNCHANGED <<attached, stored, due, applied, panel>>

\* A row is added, removed, or typed over into another one.
RowEdits ==
    {rows.list \cup {r} : r \in Rows} \cup {rows.list \ {r} : r \in rows.list}
        \cup {(rows.list \ {r[1]}) \cup {r[2]} : r \in rows.list \X Rows}

\* For the history: only the button of an import is disabled while it is under
\* way, so rows may be edited, but it is not their turn.
RowsTyped(list) ==
    /\ rows' = [list |-> list]
    /\ Wants([wanted EXCEPT !.rows = list], importing = "no")
    /\ behind' = behind \ {"rows"}

\* Mutant: the table goes with the copy of the form.
SaveProjectsWhole(list) ==
    /\ Loaded /\ list \in RowEdits
    /\ Replace(FALSE, [form EXCEPT !.rows = list])
    /\ RowsTyped(list)
    /\ UNCHANGED <<attached, stored, due, applied, form, importing, fetched>>

\* saveProjects(): the rows on screen over whatever is stored now.
SaveProjects(list) ==
    /\ Loaded /\ list \in RowEdits
    /\ Replace(FALSE, [Source EXCEPT !.rows = list])
    /\ RowsTyped(list)
    /\ UNCHANGED <<attached, stored, due, applied, form, importing, fetched>>

\* Without a registry of workspaces nothing is written.
ImportUnavailable ==
    /\ Loaded /\ importing = "no"
    /\ importing' = "reading"
    /\ UNCHANGED <<attached, stored, writes, due, applied, form, rows, fetched,
                   history>>

ImportWorkspaces ==
    /\ Loaded /\ importing = "no"
    /\ Replace(TRUE, [Source EXCEPT !.rows = @ \cup Workspaces])
    /\ Wants([wanted EXCEPT !.rows = @ \cup Workspaces], TRUE)
    /\ importing' = IF attached THEN "writing" ELSE "reading"
    /\ UNCHANGED <<attached, stored, due, applied, form, rows, fetched, behind>>

\* getProjects(), asked for when the import has answered: the host reads.
ImportReads ==
    /\ importing = "reading"
    /\ importing' = "answered"
    /\ fetched' = Source.rows
    /\ Wants(wanted, TRUE)
    /\ UNCHANGED <<attached, stored, writes, due, applied, form, rows, behind>>

\* Mutant: the table that comes is not shown.
ImportForgets ==
    /\ importing = "answered"
    /\ importing' = "no"
    /\ fetched' = {}
    /\ UNCHANGED <<attached, stored, writes, due, applied, form, rows, history>>

\* The answer comes, and is shown over what was typed meanwhile.
ImportShows ==
    /\ importing = "answered"
    /\ importing' = "no"
    /\ rows' = [list |-> fetched]
    /\ fetched' = {}
    /\ UNCHANGED <<attached, stored, writes, due, applied, form, history>>

\* The answer to the import, or the table after it, does not come.
ImportFails ==
    /\ importing \in {"reading", "answered"}
    /\ importing' = "no"
    /\ fetched' = {}
    /\ wanted' = Crossed
    /\ UNCHANGED <<attached, stored, writes, due, applied, form, rows, behind>>

\* Unmounted, while it loads too; an import under way is no longer waited for.
Close ==
    /\ form # Closed \/ rows # Closed
    /\ form' = Closed /\ rows' = Closed /\ importing' = "no" /\ fetched' = {}
    /\ UNCHANGED <<attached, stored, writes, due, applied, history>>

-----------------------------------------------------------------------------
Next ==
    \/ Attach \/ Watched
    \/ \E w \in writes : Commits(w) \/ Fails(w)
    \/ \E p \in Peers : Learns(p)
    \/ ReadConfig \/ ReadProjects \/ Save \/ Close
    \/ \E value \in Forms : Fill(value)
    \/ \E list \in SUBSET Rows : SaveProjects(list)
    \/ ImportWorkspaces \/ ImportUnavailable
    \/ ImportReads \/ ImportShows \/ ImportFails

Spec == Init /\ [][Next]_vars

-----------------------------------------------------------------------------
(* While the writers take turns - nobody writes, loads or imports while     *)
(* another write is under way or before the settings service is there, rows *)
(* are not typed during an import, the node learns no peer before its       *)
(* watcher has run, and nothing fails - the form last saved is stored, and  *)
(* so are every learned peer and the table last written (plugin.ts:359-365, *)
(* 725-735).  The one exception: a save sends the peers and rows of the     *)
(* panel's load, and sets back what was learned or typed after it, until    *)
(* the rows are written again.                                              *)
TurnsLoseNothing ==
    Turn => /\ stored.form = wanted.form
            /\ "known" \notin behind => stored.known = wanted.known
            /\ "rows" \notin behind => stored.rows = wanted.rows

(* And the table on screen, when no import is under way, is the stored one  *)
(* (P2PSettingsSection.tsx:118-149), unless such a save has set that back.  *)
TableShownIsStored ==
    Turn /\ rows # Closed /\ importing = "no" /\ "rows" \notin behind
        => rows.list = stored.rows

-----------------------------------------------------------------------------
(* What the documentation says and the code does not do.                    *)

(* A known peer is "Created and persisted on first contact [...] after      *)
(* removal the peer must contact you again" (client/i18n.ts:268), and       *)
(* "persisted locally" (README.md:64): nobody removes one, yet a save of a  *)
(* panel loaded before the contact does.                                    *)
KnownUntilRemoved == [][stored.known \subseteq stored'.known]_vars
=============================================================================
