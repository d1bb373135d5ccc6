---------------------------- MODULE SettingsProofs ----------------------------
(***************************************************************************)
(* Proofs about the writers of the configuration, for any peers, rows and  *)
(* number of writes under way; and about the directory of a node, which    *)
(* follows the configuration, for any names, lists and peers.              *)
(***************************************************************************)
EXTENDS SettingsPanel, Discovery, FiniteSetTheorems, SequenceTheorems, TLAPS

\* What the writers rest on of the type invariant.
Typed ==
    /\ attached \in BOOLEAN
    /\ stored \in Config /\ applied \in Config
    /\ form \in Config \cup {Closed}
    /\ rows \in {Closed} \cup [list : SUBSET Rows]
    /\ fetched \subseteq Rows
    /\ \A w \in writes : w.config \in Config
    /\ wanted \in Config \cup {Crossed}

\* A configuration holds every writer's last word, but for what has been set
\* back.
Holds(config, want, back) ==
    /\ config.form = want.form
    /\ "known" \notin back => config.known = want.known
    /\ "rows" \notin back => config.rows = want.rows

\* While nobody runs into anybody, what is stored holds that, or the one write
\* under way carries it.
Carried ==
    \/ writes = {} /\ Holds(stored, wanted, behind)
    \/ \E w \in writes : writes = {w} /\ Holds(w.config, wanted, behind)

\* The table on screen, or the one that is about to be shown.
ScreenKept ==
    "rows" \notin behind =>
        /\ rows # Closed /\ importing = "no" => rows.list = wanted.rows
        /\ importing = "answered" => fetched = wanted.rows

\* Once its watcher has run the node has the stored configuration.
SnapshotKept == attached /\ writes = {} /\ ~due => applied = stored

InTurn ==
    wanted # Crossed =>
        /\ Carried /\ ScreenKept /\ SnapshotKept
        /\ ~attached => stored = wanted /\ ~due

WritersInv == Typed /\ InTurn /\ (~attached => writes = {})

-----------------------------------------------------------------------------
(* A replace that starts in turn carries what its writer wants.             *)
LEMMA ReplaceCarries ==
    ASSUME WritersInv, NEW import \in BOOLEAN, NEW config \in Config,
           NEW want, NEW inTurn \in BOOLEAN,
           Replace(import, config), Wants(want, inTurn),
           Turn /\ inTurn => want \in Config /\ Holds(config, want, behind'),
           UNCHANGED <<attached, stored>>
    PROVE  /\ wanted' # Crossed => /\ Turn /\ inTurn /\ wanted' = want
                                  /\ Carried' /\ attached /\ writes' # {}
           /\ ~attached' => writes' = {}
           /\ \A w \in writes' : w.config \in Config
           /\ wanted' \in Config \cup {Crossed}
<1>1. [import |-> import, config |-> config].config = config
  OBVIOUS
<1>2. CASE Turn /\ inTurn
  <2>1. writes' = {[import |-> import, config |-> config]} /\ wanted' = want
    BY <1>2 DEF Replace, Wants, Turn
  <2> QED
    BY <1>1, <1>2, <2>1 DEF WritersInv, Turn, Carried, Holds
<1>3. CASE ~(Turn /\ inTurn)
  BY <1>1, <1>3 DEF WritersInv, Typed, Replace, Wants
<1> QED
  BY <1>2, <1>3

(* When it is a writer's turn, what is stored holds every other's word.     *)
LEMMA InTurnStored ==
    ASSUME WritersInv, Turn
    PROVE  /\ wanted \in Config /\ Holds(stored, wanted, behind)
           /\ Source = stored /\ (~due => applied = stored)
BY DEF WritersInv, Typed, InTurn, Carried, SnapshotKept, Turn, Source

LEMMA WritersInit == Init => WritersInv
<1> SUFFICES ASSUME Init PROVE WritersInv
  OBVIOUS
<1>1. stored \in Config /\ applied \in Config
  BY SettingsTypes DEF Init, Config
<1>2. /\ attached = FALSE /\ writes = {} /\ wanted = stored /\ ~due
      /\ form = Closed /\ rows = Closed /\ importing = "no" /\ fetched = {}
  BY DEF Init
<1> QED
  BY <1>1, <1>2 DEF WritersInv, Typed, InTurn, Carried, Holds, ScreenKept,
                    SnapshotKept

LEMMA WritersNext == WritersInv /\ [Next]_vars => WritersInv'
<1> SUFFICES ASSUME WritersInv, [Next]_vars PROVE WritersInv'
  OBVIOUS
<1> USE DEF WritersInv
<1>1. CASE Attach
  <2> DEFINE named == NamedConfig(stored)
  <2>1. named \in Config
    BY SettingsTypes DEF Typed, Config, NamedConfig
  <2>2. named.rows = stored.rows
    BY DEF Typed, Config, NamedConfig
  <2>3. /\ ~attached /\ attached' = TRUE /\ applied' = stored
        /\ UNCHANGED <<stored, due, form, rows, importing, fetched, behind>>
        /\ wanted' = IF wanted = Crossed THEN Crossed ELSE named
    BY <1>1 DEF Attach, panel
  <2>4. writes' = IF named = stored THEN {}
                  ELSE {[import |-> FALSE, config |-> named]}
    BY <1>1 DEF Attach
  <2> HIDE DEF named
  <2>5. \A w \in writes' : w.config \in Config
    BY <2>1, <2>4
  <2>6. wanted' # Crossed => Carried' /\ wanted # Crossed /\ wanted' = named
    BY <2>3, <2>4 DEF Carried, Holds
  <2> QED
    BY <2>1, <2>2, <2>3, <2>5, <2>6 DEF Typed, InTurn, ScreenKept, SnapshotKept
<1>2. CASE Watched
  BY <1>2 DEF Watched, Typed, InTurn, Carried, Holds, ScreenKept, SnapshotKept,
              panel, history
<1>3. ASSUME NEW w \in writes, Commits(w) PROVE WritersInv'
  <2>1. Typed' /\ (~attached => writes = {})'
    BY <1>3 DEF Commits, Typed, history
  <2>2. ASSUME wanted' # Crossed PROVE Carried' /\ SnapshotKept' /\ attached'
    BY <1>3, <2>2 DEF Commits, InTurn, Carried, Holds, SnapshotKept, history
  <2>3. ASSUME wanted' # Crossed PROVE ScreenKept'
    BY <1>3, <2>3 DEF Commits, ImportGoesOn, InTurn, ScreenKept, history
  <2> QED
    BY <2>1, <2>2, <2>3 DEF InTurn
<1>4. ASSUME NEW w \in writes, Fails(w) PROVE WritersInv'
  BY <1>4 DEF Fails, Typed, InTurn
<1>5. ASSUME NEW p \in Peers, Learns(p) PROVE WritersInv'
  <2> DEFINE next == [applied EXCEPT !.known = applied.known \cup {p}]
             want == [wanted EXCEPT !.known = wanted.known \cup {p}]
  <2>1. next \in Config
    BY DEF Typed, Config
  <2>2. /\ Replace(FALSE, next) /\ Wants(want, ~due)
        /\ applied' = next
        /\ UNCHANGED <<attached, stored, due, form, rows, importing, fetched,
                       behind>>
    BY <1>5 DEF Learns, panel
  <2>3. ASSUME Turn, ~due
        PROVE  /\ want \in Config /\ want.rows = wanted.rows
               /\ Holds(next, want, behind')
    BY <2>2, <2>3, InTurnStored DEF Holds, Typed, Config
  <2> HIDE DEF next, want
  <2>4. /\ wanted' # Crossed => /\ Turn /\ ~due /\ wanted' = want
                               /\ Carried' /\ attached /\ writes' # {}
        /\ ~attached' => writes' = {}
        /\ \A w \in writes' : w.config \in Config
        /\ wanted' \in Config \cup {Crossed}
    BY <2>1, <2>2, <2>3, ReplaceCarries
  <2> QED
    BY <2>1, <2>2, <2>3, <2>4
       DEF Typed, InTurn, ScreenKept, SnapshotKept, Turn
<1>6. CASE ReadConfig
  <2>1. form' \in Config
    BY <1>6, SettingsTypes DEF ReadConfig, Source, Typed
  <2>2. /\ wanted' \in {wanted, Crossed} /\ (wanted' # Crossed => Turn)
        /\ UNCHANGED <<attached, stored, writes, due, applied, rows, importing,
                       fetched, behind>>
    BY <1>6 DEF ReadConfig, Wants, Turn
  <2> QED
    BY <2>1, <2>2
       DEF Typed, InTurn, Carried, Holds, ScreenKept, SnapshotKept, Turn
<1>7. CASE ReadProjects \/ ImportReads
  <2>1. Source.rows \in SUBSET Rows
    BY SettingsTypes DEF Source, Typed, Config
  <2>2. /\ wanted' \in {wanted, Crossed} /\ (wanted' # Crossed => Turn)
        /\ UNCHANGED <<attached, stored, writes, due, applied, form, behind>>
        /\ \/ /\ rows' = [list |-> Source.rows]
              /\ UNCHANGED <<importing, fetched>>
           \/ /\ importing' = "answered" /\ fetched' = Source.rows
              /\ UNCHANGED rows
    BY <1>7 DEF ReadProjects, ImportReads, Wants, Turn
  <2>3. Turn /\ "rows" \notin behind => Source.rows = wanted.rows
    BY InTurnStored DEF Holds
  <2>4. Typed' /\ (~attached => writes = {})'
    BY <2>1, <2>2 DEF Typed
  <2>5. ASSUME wanted' # Crossed PROVE ScreenKept'
    BY <2>2, <2>3, <2>5 DEF InTurn, ScreenKept
  <2>6. ASSUME wanted' # Crossed
        PROVE  Carried' /\ SnapshotKept' /\ attached'
    BY <2>2, <2>6 DEF InTurn, Carried, Holds, SnapshotKept, Turn
  <2> QED
    BY <2>4, <2>5, <2>6 DEF InTurn
<1>8. CASE Save
  <2> DEFINE want == [wanted EXCEPT !.form = form.form]
  <2>1. form \in Config
    BY <1>8 DEF Save, Loaded, Typed
  <2>2. /\ Replace(FALSE, form) /\ Wants(want, TRUE)
        /\ behind' = behind \cup {f \in {"known", "rows"} : form[f] # stored[f]}
        /\ UNCHANGED <<attached, stored, due, applied, form, rows, importing,
                       fetched>>
    BY <1>8 DEF Save, panel
  <2>3. ASSUME Turn
        PROVE  /\ want \in Config /\ want.rows = wanted.rows
               /\ Holds(form, want, behind')
    <3>1. /\ want \in Config /\ want.form = form.form
          /\ want.known = wanted.known /\ want.rows = wanted.rows
      BY <2>1, <2>3, InTurnStored DEF Config
    <3>2. /\ "known" \notin behind' => "known" \notin behind
                                         /\ form.known = stored.known
          /\ "rows" \notin behind' => "rows" \notin behind
                                        /\ form.rows = stored.rows
      BY <2>1, <2>2 DEF Config, Typed
    <3> QED
      BY <2>3, <3>1, <3>2, InTurnStored DEF Holds
  <2>4. "rows" \notin behind' => "rows" \notin behind
    BY <2>2
  <2> HIDE DEF want
  <2>5. /\ wanted' # Crossed => /\ Turn /\ wanted' = want
                               /\ Carried' /\ attached /\ writes' # {}
        /\ ~attached' => writes' = {}
        /\ \A w \in writes' : w.config \in Config
        /\ wanted' \in Config \cup {Crossed}
    BY <2>1, <2>2, <2>3, ReplaceCarries
  <2> QED
    BY <2>1, <2>2, <2>3, <2>4, <2>5
       DEF Typed, InTurn, ScreenKept, SnapshotKept, Turn
<1>9. ASSUME NEW list \in SUBSET Rows, SaveProjects(list) PROVE WritersInv'
  <2> DEFINE next == [Source EXCEPT !.rows = list]
             want == [wanted EXCEPT !.rows = list]
  <2>1. next \in Config
    BY SettingsTypes DEF Source, Typed, Config
  <2>2. /\ Replace(FALSE, next) /\ Wants(want, importing = "no")
        /\ rows' = [list |-> list] /\ behind' = behind \ {"rows"}
        /\ UNCHANGED <<attached, stored, due, applied, form, importing, fetched>>
    BY <1>9 DEF SaveProjects, RowsTyped
  <2>3. ASSUME Turn
        PROVE  want \in Config /\ want.rows = list /\ Holds(next, want, behind')
    BY <2>2, <2>3, InTurnStored DEF Holds, Typed, Config
  <2> HIDE DEF next, want
  <2>4. /\ wanted' # Crossed => /\ Turn /\ importing = "no" /\ wanted' = want
                               /\ Carried' /\ attached /\ writes' # {}
        /\ ~attached' => writes' = {}
        /\ \A w \in writes' : w.config \in Config
        /\ wanted' \in Config \cup {Crossed}
    BY <2>1, <2>2, <2>3, ReplaceCarries
  <2> QED
    BY <2>2, <2>3, <2>4 DEF Typed, InTurn, ScreenKept, SnapshotKept
<1>10. CASE ImportWorkspaces
  <2> DEFINE next == [Source EXCEPT !.rows = Source.rows \cup Workspaces]
             want == [wanted EXCEPT !.rows = wanted.rows \cup Workspaces]
  <2>1. next \in Config
    BY SettingsTypes DEF Source, Typed, Config
  <2>2. /\ Replace(TRUE, next) /\ Wants(want, TRUE)
        /\ importing' \in {"writing", "reading"}
        /\ UNCHANGED <<attached, stored, due, applied, form, rows, fetched,
                       behind>>
    BY <1>10 DEF ImportWorkspaces
  <2>3. ASSUME Turn PROVE want \in Config /\ Holds(next, want, behind')
    BY <2>2, <2>3, InTurnStored, SettingsTypes DEF Holds, Typed, Config
  <2> HIDE DEF next, want
  <2>4. /\ wanted' # Crossed => Carried' /\ attached /\ writes' # {}
        /\ ~attached' => writes' = {}
        /\ \A w \in writes' : w.config \in Config
        /\ wanted' \in Config \cup {Crossed}
    BY <2>1, <2>2, <2>3, ReplaceCarries
  <2> QED
    BY <2>2, <2>4 DEF Typed, InTurn, ScreenKept, SnapshotKept
<1>11. ASSUME NEW value \in Forms, Fill(value) PROVE WritersInv'
  <2>1. form' \in Config
    BY <1>11 DEF Fill, Patch, Loaded, Typed, Config
  <2> QED
    BY <1>11, <2>1 DEF Fill, Typed, InTurn, Carried, Holds, ScreenKept,
                       SnapshotKept, history
<1>12. CASE ImportUnavailable
  BY <1>12 DEF ImportUnavailable, Typed, InTurn, Carried, Holds, ScreenKept,
               SnapshotKept, history
<1>13. CASE ImportShows
  <2>1. /\ importing = "answered" /\ importing' = "no"
        /\ rows' = [list |-> fetched] /\ fetched' = {}
        /\ UNCHANGED <<attached, stored, writes, due, applied, form, wanted,
                       behind>>
    BY <1>13 DEF ImportShows, history
  <2>2. Typed'
    BY <2>1 DEF Typed
  <2> QED
    BY <2>1, <2>2 DEF InTurn, Carried, Holds, ScreenKept, SnapshotKept
<1>14. CASE ImportFails
  BY <1>14 DEF ImportFails, Typed, InTurn
<1>15. CASE Close
  BY <1>15 DEF Close, Typed, InTurn, Carried, Holds, ScreenKept, SnapshotKept,
               history
<1>16. CASE UNCHANGED vars
  BY <1>16 DEF vars, panel, history, Typed, InTurn, Carried, Holds, ScreenKept,
               SnapshotKept
<1> QED
  BY <1>1, <1>2, <1>3, <1>4, <1>5, <1>6, <1>7, <1>8, <1>9, <1>10, <1>11,
     <1>12, <1>13, <1>14, <1>15, <1>16 DEF Next

(* While the writers take turns, which is about time alone, the form last   *)
(* saved is stored, and every learned peer and the table last written too,  *)
(* unless a save of a copy loaded before them has set them back (plugin.ts: *)
(* 359-365, 725-735).  That the node's snapshot is the stored configuration *)
(* when it learns a peer is proved on the way (SnapshotKept).               *)
THEOREM TurnsLoseNothingHolds == Spec => []TurnsLoseNothing
<1>1. WritersInv => TurnsLoseNothing
  BY InTurnStored DEF TurnsLoseNothing, Holds
<1> QED
  BY <1>1, WritersInit, WritersNext, PTL DEF Spec

(* And the table on screen is the stored one, after the answer to an import *)
(* too, unless such a save has set that back (P2PSettingsSection.tsx:118-   *)
(* 149).                                                                    *)
THEOREM TableShownIsStoredHolds == Spec => []TableShownIsStored
<1>1. WritersInv => TableShownIsStored
  BY InTurnStored
     DEF WritersInv, InTurn, ScreenKept, Holds, TableShownIsStored, Turn
<1> QED
  BY <1>1, WritersInit, WritersNext, PTL DEF Spec

-----------------------------------------------------------------------------
(* The directory, whose constants and variables are its own *)

\* A finite sequence, of whatever entries.
IsList(q) == \E S : q \in Seq(S)

\* The lists start() installs are those of the settings unless an edit came
\* before; and the entries of each name remain a sequence, so that what is put
\* at its end is there.
DirectoryInv ==
    /\ KnownPeersKept
    /\ listed = [n \in Names |-> listed[n]]
    /\ \A n \in Names : IsList(listed[n])
    /\ knownNames \subseteq Names
    /\ phase = "binding" /\ ~early => given.known = known

(* What is kept of a list is a list.                                        *)
LEMMA AtIsList ==
    ASSUME NEW q, IsList(q), NEW K \in SUBSET (DOMAIN q)
    PROVE  IsList(At(q, K))
<1>1. Cardinality(K) \in Nat
  <2>1. PICK S : q \in Seq(S)
    BY DEF IsList
  <2>2. IsFiniteSet(1 .. Len(q)) /\ DOMAIN q = 1 .. Len(q)
    BY <2>1, FS_Interval
  <2> QED
    BY <2>2, FS_Subset, FS_CardinalityType
<1> DEFINE T == {q[Nth(K, j)] : j \in 1 .. Cardinality(K)}
<1>2. [j \in 1 .. Cardinality(K) |-> q[Nth(K, j)]] \in Seq(T)
  BY <1>1
<1> QED
  BY <1>2 DEF At, IsList

(* A list in which an entry is replaced is a list with an entry.            *)
LEMMA ReplacedIsList ==
    ASSUME NEW q, IsList(q), NEW k \in DOMAIN q, NEW e
    PROVE  IsList([q EXCEPT ![k] = e]) /\ [q EXCEPT ![k] = e] # <<>>
<1>1. PICK S : q \in Seq(S)
  BY DEF IsList
<1> DEFINE T == S \cup {e}
<1>2. q \in Seq(T) /\ e \in T
  BY <1>1, SeqMonotonic
<1> HIDE DEF T
<1>3. k \in 1 .. Len(q)
  BY <1>2
<1>4. [q EXCEPT ![k] = e] \in Seq(T)
  BY <1>2, <1>3, ExceptSeq
<1>5. k \in DOMAIN [q EXCEPT ![k] = e]
  OBVIOUS
<1> QED
  BY <1>4, <1>5 DEF IsList

(* upsert() leaves a list with an entry.                                    *)
LEMMA PutIsList ==
    ASSUME NEW q, IsList(q), NEW e
    PROVE  IsList(Put(q, e)) /\ Put(q, e) # <<>>
<1>1. PICK S : q \in Seq(S)
  BY DEF IsList
<1> DEFINE T == S \cup {e}
<1>2. q \in Seq(T) /\ e \in T
  BY <1>1, SeqMonotonic
<1> HIDE DEF T
<1>3. CASE Has(q, e.id)
  <2> DEFINE p == [k \in DOMAIN q |-> IF q[k].id = e.id THEN e ELSE q[k]]
  <2>1. /\ Len(q) \in Nat /\ DOMAIN q = 1 .. Len(q)
        /\ \A k \in DOMAIN q : q[k] \in T
    BY <1>2, ElementOfSeq
  <2>2. p \in [1 .. Len(q) -> T] /\ DOMAIN p # {}
    BY <1>2, <1>3, <2>1 DEF Has
  <2>3. Put(q, e) = p
    BY <1>3 DEF Put
  <2> HIDE DEF p
  <2>4. p \in Seq(T)
    BY <2>1, <2>2, SeqDef
  <2> QED
    BY <2>2, <2>3, <2>4 DEF IsList
<1>4. CASE ~Has(q, e.id)
  <2>1. Put(q, e) = Append(q, e)
    BY <1>4 DEF Put
  <2>2. Append(q, e) \in Seq(T) /\ Append(q, e) # <<>>
    BY <1>2, AppendProperties
  <2> QED
    BY <2>1, <2>2 DEF IsList
<1> QED
  BY <1>3, <1>4

(* What reconciliation, a contact or the sweep keep of a list is a list.    *)
LEMMA KeptIsList ==
    ASSUME NEW q, IsList(q)
    PROVE  /\ IsList(DropFirst(q))
           /\ IsList(OnlyManual(q))
           /\ IsList(NoManual(q))
           /\ IsList(Recent(q))
BY AtIsList DEF DropFirst, OnlyManual,
                NoManual, Recent, ManualIn

(* upsertKnown() leaves a list with an entry.                               *)
LEMMA UpsertIsList ==
    ASSUME NEW q, IsList(q), NEW i, NEW a
    PROVE  /\ IsList(UpsertKnown(q, i, a))
           /\ UpsertKnown(q, i, a) # <<>>
BY KeptIsList, PutIsList DEF UpsertKnown

\* A directory in which each of the listed names has an entry.
Reconciled(d, list) ==
    /\ d = [n \in Names |-> d[n]]
    /\ \A n \in Names : IsList(d[n])
    /\ \A n \in Listing(list) : d[n] # <<>>

(* setKnownPeers() leaves each listed name with an entry.                   *)
LEMMA KnownReconciled ==
    ASSUME NEW d, \A n \in Names : IsList(d[n]), NEW k, NEW names
    PROVE  Reconciled(WithKnown(d, k, names), k)
BY KeptIsList, UpsertIsList
DEF Reconciled, WithKnown, Listing

(* setManualPeers() leaves lists.                                           *)
LEMMA ManualReconciled ==
    ASSUME NEW d, \A n \in Names : IsList(d[n]), NEW m
    PROVE  \A n \in Names : IsList(WithManual(d, m)[n])
BY KeptIsList, PutIsList DEF WithManual

-----------------------------------------------------------------------------
LEMMA DirectoryInvInit == DirectoryInit => DirectoryInv
<1> SUFFICES ASSUME DirectoryInit PROVE DirectoryInv
  OBVIOUS
<1>1. IsList(<<>>)
  BY DEF IsList
<1> QED
  BY <1>1 DEF DirectoryInit, DirectoryInv, KnownPeersKept,
              Listing

LEMMA DirectoryInvNext ==
    DirectoryInv /\ [DirectoryNext]_directoryVars => DirectoryInv'
<1> SUFFICES ASSUME DirectoryInv, [DirectoryNext]_directoryVars
             PROVE  DirectoryInv'
  OBVIOUS
<1> USE DEF DirectoryInv, KnownPeersKept
<1>0. \A k : Listing(k) \subseteq Names
  BY DEF Listing
<1>1. CASE Start
  <2> DEFINE d == WithManual(listed, given.manual)
  <2>1. \A n \in Names : IsList(d[n])
    BY ManualReconciled
  <2>2. listed' = WithKnown(d, given.known, knownNames)
    BY <1>1 DEF Start
  <2> HIDE DEF d
  <2>3. Reconciled(listed', given.known)
    BY <2>1, <2>2, KnownReconciled
  <2> QED
    BY <1>0, <1>1, <2>3 DEF Reconciled, Start
<1>2. CASE Stop
  <2>1. IsList(<<>>)
    BY DEF IsList
  <2> QED
    BY <1>2, <2>1 DEF Stop
<1>3. CASE Sweep
  BY <1>3, KeptIsList DEF Sweep, Swept
<1>4. ASSUME NEW m \in ManualLists, NEW k \in KnownLists,
             ApplyConfig(m, k)
      PROVE  DirectoryInv'
  <2> DEFINE d == WithManual(listed, m)
  <2>1. \A n \in Names : IsList(d[n])
    BY ManualReconciled
  <2>2. listed' = WithKnown(d, k, knownNames)
    BY <1>4 DEF ApplyConfig
  <2> HIDE DEF d
  <2>3. Reconciled(listed', k)
    BY <2>1, <2>2, KnownReconciled
  <2> QED
    BY <1>0, <1>4, <2>3 DEF Reconciled, ApplyConfig
<1>5. ASSUME NEW r \in Runs, HandleMessage(r) PROVE DirectoryInv'
  <2>1. CASE UNCHANGED listed
    BY <1>5, <2>1 DEF HandleMessage
  <2>2. CASE listed' = [listed EXCEPT ![NameOf[r]] =
                           Put(@, Fresh(r, at[r]))]
    <3>1. /\ listed' = [n \in Names |-> listed'[n]]
          /\ \A n \in Names : \/ listed'[n] = listed[n]
                              \/ /\ IsList(listed'[n])
                                 /\ listed'[n] # <<>>
      BY <2>2, PutIsList
    <3> QED
      BY <1>5, <3>1 DEF HandleMessage
  <2> QED
    BY <1>5, <2>1, <2>2 DEF HandleMessage
<1>6. ASSUME NEW r \in Runs, NEW a \in Addrs,
             LearnInboundPeer(r, a)
      PROVE  DirectoryInv'
  <2> DEFINE n == NameOf[r]
             learned == [listed EXCEPT ![n] = UpsertKnown(@, r, a)]
  <2>1. /\ learned = [m \in Names |-> learned[m]]
        /\ \A m \in Names : \/ learned[m] = listed[m]
                            \/ IsList(learned[m]) /\ learned[m] # <<>>
    BY UpsertIsList
  <2> HIDE DEF learned
  <2>2. CASE n \in knownNames
    <3>1. listed' = learned /\ UNCHANGED <<known, knownNames>>
      BY <1>6, <2>2 DEF LearnInboundPeer, learned
    <3> QED
      BY <1>6, <2>1, <3>1 DEF LearnInboundPeer
  <2>3. CASE n \notin knownNames
    <3>1. /\ listed' = WithKnown(learned, known',
                                          knownNames \cup {n})
          /\ knownNames' = Listing(known')
      BY <1>6, <2>3 DEF LearnInboundPeer, learned
    <3>2. \A m \in Names : IsList(learned[m])
      BY <2>1
    <3>3. Reconciled(listed', known')
      BY <3>1, <3>2, KnownReconciled
    <3> QED
      BY <1>0, <1>6, <3>1, <3>3 DEF Reconciled, LearnInboundPeer
  <2> QED
    BY <2>2, <2>3
<1>7. ASSUME NEW r \in Runs, Age(r) PROVE DirectoryInv'
  <2>1. PICK k \in DOMAIN listed[NameOf[r]] :
            listed' = [listed EXCEPT ![NameOf[r]][k].fresh = FALSE]
    BY <1>7 DEF Age
  <2>2. /\ listed' = [n \in Names |-> listed'[n]]
        /\ \A n \in Names : n # NameOf[r] => listed'[n] = listed[n]
    BY <2>1
  <2>3. ASSUME NameOf[r] \in Names
        PROVE  IsList(listed'[NameOf[r]]) /\ listed'[NameOf[r]] # <<>>
    <3> DEFINE q == listed[NameOf[r]]
    <3>1. listed'[NameOf[r]] = [q EXCEPT ![k].fresh = FALSE]
      BY <2>1, <2>3
    <3>2. [q EXCEPT ![k].fresh = FALSE]
              = [q EXCEPT ![k] = [q[k] EXCEPT !.fresh = FALSE]]
      OBVIOUS
    <3>3. IsList(q) /\ k \in DOMAIN q
      BY <2>1, <2>3
    <3> HIDE DEF q
    <3> QED
      BY <3>1, <3>2, <3>3, ReplacedIsList
  <2>4. \A n \in Names : \/ listed'[n] = listed[n]
                         \/ IsList(listed'[n]) /\ listed'[n] # <<>>
    BY <2>2, <2>3
  <2> QED
    BY <1>7, <2>2, <2>4 DEF Age
<1>8. ASSUME NEW r \in Runs, PeerMoves(r) PROVE DirectoryInv'
  BY <1>8 DEF PeerMoves, Listing
<1>9. CASE UNCHANGED directoryVars
  BY <1>9 DEF directoryVars, Listing
<1> QED
  BY <1>1, <1>2, <1>3, <1>4, <1>5, <1>6, <1>7, <1>8, <1>9
  DEF DirectoryNext, RunNext

(* A known peer stays in the directory, whatever contacts, announcements,   *)
(* edits and sweeps do to the entries of its name (discovery.ts:34), and    *)
(* who is known is in the settings (plugin.ts:357-365).                     *)
THEOREM KnownPeersKeptHolds == DirectorySpec => []KnownPeersKept
<1>1. DirectoryInv => KnownPeersKept
  BY DEF DirectoryInv
<1> QED
  BY <1>1, DirectoryInvInit, DirectoryInvNext, PTL DEF DirectorySpec

-----------------------------------------------------------------------------
(* What is kept of a list: its entries at the positions K, each of them     *)
(* once.                                                                    *)

\* A position has as many of K up to it as no other one, so that ranks and
\* positions are the same.
LEMMA RanksOfPositions ==
    ASSUME NEW K \in SUBSET Nat, IsFiniteSet(K)
    PROVE  /\ Cardinality(K) \in Nat
           /\ \A j \in 1 .. Cardinality(K) :
                 /\ Nth(K, j) \in K
                 /\ \A i \in 1 .. Cardinality(K) :
                        Nth(K, i) = Nth(K, j) => i = j
           /\ \A k \in K : \E j \in 1 .. Cardinality(K) : Nth(K, j) = k
<1> DEFINE UpTo(k) == {i \in K : i <= k}
           C == Cardinality(K)
           rank == [k \in K |-> Cardinality(UpTo(k))]
<1>1. C \in Nat
  BY FS_CardinalityType
<1>2. ASSUME NEW k \in K
      PROVE  IsFiniteSet(UpTo(k)) /\ Cardinality(UpTo(k)) \in 1 .. C
  <2>1. IsFiniteSet(UpTo(k)) /\ Cardinality(UpTo(k)) <= C
    BY FS_Subset
  <2>2. UpTo(k) # {}
    OBVIOUS
  <2>3. Cardinality(UpTo(k)) \in Nat /\ Cardinality(UpTo(k)) # 0
    BY <2>1, <2>2, FS_CardinalityType, FS_EmptySet
  <2> QED
    BY <1>1, <2>1, <2>3
<1>3. ASSUME NEW k \in K, NEW m \in K, k < m
      PROVE  Cardinality(UpTo(k)) # Cardinality(UpTo(m))
  <2>1. \A i \in K : i \in Nat
    OBVIOUS
  <2>2. /\ \A i \in K : i <= k => i <= m
        /\ m <= m /\ ~(m <= k)
    BY <1>3, <2>1
  <2>3. UpTo(k) \subseteq UpTo(m)
    BY <2>2
  <2>4. m \in UpTo(m) /\ m \notin UpTo(k)
    BY <2>2
  <2> QED
    BY <1>2, <2>3, <2>4, FS_Subset
<1>4. \A k, m \in K : rank[k] = rank[m] => k = m
  BY <1>3
<1>5. rank \in Injection(K, 1 .. C)
  <2>1. rank \in [K -> 1 .. C]
    BY <1>2
  <2> HIDE DEF rank
  <2> QED
    BY <1>4, <2>1 DEF Injection, IsInjective
<1>6. IsFiniteSet(1 .. C) /\ Cardinality(1 .. C) = C
  BY <1>1, FS_Interval
<1> HIDE DEF rank
<1>7. rank \in Surjection(K, 1 .. C)
  BY <1>5, <1>6, FS_Injection
<1>8. ASSUME NEW j \in 1 .. C PROVE Nth(K, j) \in K /\ rank[Nth(K, j)] = j
  <2>1. \E k \in K : rank[k] = j
    BY <1>7 DEF Surjection
  <2>2. Nth(K, j) = CHOOSE k \in K : rank[k] = j
    BY DEF Nth, rank
  <2> QED
    BY <2>1, <2>2
<1>9. ASSUME NEW k \in K PROVE \E j \in 1 .. C : Nth(K, j) = k
  <2>1. rank[k] \in 1 .. C
    BY <1>5 DEF Injection
  <2> QED
    BY <1>4, <1>8, <2>1
<1> QED
  BY <1>1, <1>8, <1>9

LEMMA KeptEntries ==
    ASSUME NEW q, IsList(q), NEW K \in SUBSET (DOMAIN q)
    PROVE  /\ \A j \in DOMAIN At(q, K) : \E k \in K : At(q, K)[j] = q[k]
           /\ \A k \in K : \E j \in DOMAIN At(q, K) : At(q, K)[j] = q[k]
           /\ \A i, j \in DOMAIN At(q, K) :
                 i # j => \E k, m \in K : /\ k # m
                                          /\ At(q, K)[i] = q[k]
                                          /\ At(q, K)[j] = q[m]
<1> DEFINE C == Cardinality(K)
           s == At(q, K)
<1>1. K \in SUBSET Nat /\ IsFiniteSet(K)
  <2>1. PICK S : q \in Seq(S)
    BY DEF IsList
  <2>2. Len(q) \in Nat /\ DOMAIN q = 1 .. Len(q)
    BY <2>1, LenProperties
  <2>3. IsFiniteSet(DOMAIN q)
    BY <2>2, FS_Interval
  <2>4. DOMAIN q \subseteq Nat
    BY <2>2
  <2>5. IsFiniteSet(K)
    BY <2>3, FS_Subset
  <2> QED
    BY <2>4, <2>5
<1>2. /\ C \in Nat
      /\ \A j \in 1 .. C : /\ Nth(K, j) \in K
                           /\ \A i \in 1 .. C : Nth(K, i) = Nth(K, j) => i = j
      /\ \A k \in K : \E j \in 1 .. C : Nth(K, j) = k
  BY <1>1, RanksOfPositions
<1>3. DOMAIN s = 1 .. C /\ \A j \in 1 .. C : s[j] = q[Nth(K, j)]
  BY DEF At
<1> HIDE DEF s, C
<1>4. \A j \in DOMAIN s : \E k \in K : s[j] = q[k]
  BY <1>2, <1>3
<1>5. \A k \in K : \E j \in DOMAIN s : s[j] = q[k]
  BY <1>2, <1>3
<1>6. \A i, j \in DOMAIN s : i # j => \E k, m \in K : /\ k # m
                                                     /\ s[i] = q[k]
                                                     /\ s[j] = q[m]
  BY <1>2, <1>3
<1> QED
  BY <1>4, <1>5, <1>6 DEF s

\* The entries of a name: typed, and no id twice.
OneEach(q) ==
    /\ q \in Seq(Entry)
    /\ \A k, j \in DOMAIN q : q[k].id = q[j].id => k = j

ManualAddrs(q) == {q[k].addr : k \in ManualIn(q)}

\* p has the manual entries of q, whatever became of the others.
ManualKept(q, p) == OneEach(p) /\ ManualAddrs(p) = ManualAddrs(q)

(* Whoever keeps some entries of a name keeps no id twice, and those who    *)
(* keep the manual ones keep their addresses.                               *)
LEMMA AtKeeps ==
    ASSUME NEW q, OneEach(q), NEW K \in SUBSET (DOMAIN q)
    PROVE  /\ OneEach(At(q, K))
           /\ ManualIn(q) \subseteq K => ManualKept(q, At(q, K))
           /\ ManualIn(q) \cap K = {} => ManualAddrs(At(q, K)) = {}
<1> DEFINE s == At(q, K)
<1>1. IsList(q) /\ \A k \in DOMAIN q : q[k] \in Entry
  BY ElementOfSeq DEF OneEach, IsList
<1>2. /\ \A j \in DOMAIN s : \E k \in K : s[j] = q[k]
      /\ \A k \in K : \E j \in DOMAIN s : s[j] = q[k]
      /\ \A i, j \in DOMAIN s :
            i # j => \E k, m \in K : k # m /\ s[i] = q[k] /\ s[j] = q[m]
  BY <1>1, KeptEntries
<1>3. IsList(s)
  BY <1>1, AtIsList
<1> HIDE DEF s
<1>4. s \in Seq(Entry)
  <2>1. PICK S : s \in Seq(S)
    BY <1>3 DEF IsList
  <2>2. Len(s) \in Nat /\ DOMAIN s = 1 .. Len(s) /\ s \in [1 .. Len(s) -> S]
    BY <2>1, LenProperties, SeqDef
  <2>3. \A j \in 1 .. Len(s) : s[j] \in Entry
    BY <1>1, <1>2, <2>2
  <2>4. s \in [1 .. Len(s) -> Entry]
    BY <2>2, <2>3
  <2> QED
    BY <2>2, <2>4, SeqDef
<1>5. \A i, j \in DOMAIN s : s[i].id = s[j].id => i = j
  <2> SUFFICES ASSUME NEW i \in DOMAIN s, NEW j \in DOMAIN s, i # j
               PROVE  s[i].id # s[j].id
    OBVIOUS
  <2>1. PICK k \in K, m \in K : k # m /\ s[i] = q[k] /\ s[j] = q[m]
    BY <1>2
  <2>2. q[k].id # q[m].id
    BY <2>1 DEF OneEach
  <2> QED
    BY <2>1, <2>2
<1>6. ASSUME ManualIn(q) \subseteq K PROVE ManualAddrs(s) = ManualAddrs(q)
  BY <1>2, <1>6 DEF ManualAddrs, ManualIn
<1>7. ASSUME ManualIn(q) \cap K = {} PROVE ManualAddrs(s) = {}
  BY <1>2, <1>7 DEF ManualAddrs, ManualIn
<1> QED
  BY <1>4, <1>5, <1>6, <1>7 DEF OneEach, ManualKept, s

(* upsert() of an entry.                                                    *)
LEMMA PutKeeps ==
    ASSUME NEW q, OneEach(q), NEW e \in Entry
    PROVE  /\ OneEach(Put(q, e))
           /\ e.id # Manual => ManualKept(q, Put(q, e))
           /\ e.id = Manual => ManualAddrs(Put(q, e)) = {e.addr}
<1> DEFINE p == Put(q, e)
           n == Len(q)
<1>1. /\ n \in Nat /\ DOMAIN q = 1 .. n
      /\ \A k \in DOMAIN q : q[k] \in Entry
  BY ElementOfSeq, LenProperties DEF OneEach
<1>2. CASE Has(q, e.id)
  <2>1. /\ DOMAIN p = DOMAIN q
        /\ \A k \in DOMAIN q : p[k] = IF q[k].id = e.id THEN e ELSE q[k]
    BY <1>2 DEF Put
  <2>2. p \in [1 .. n -> Entry]
    BY <1>1, <1>2 DEF Put
  <2> HIDE DEF p
  <2>3. \A k \in DOMAIN q : p[k].id = q[k].id
    BY <2>1
  <2>4. OneEach(p)
    <3>1. p \in Seq(Entry)
      BY <1>1, <2>2, SeqDef
    <3> QED
      BY <2>1, <2>3, <3>1 DEF OneEach
  <2>5. ASSUME e.id # Manual PROVE ManualAddrs(p) = ManualAddrs(q)
    <3>1. ManualIn(p) = ManualIn(q)
      BY <2>1, <2>3 DEF ManualIn
    <3>2. \A k \in ManualIn(q) : p[k] = q[k]
      BY <2>1, <2>5 DEF ManualIn
    <3> QED
      BY <3>1, <3>2 DEF ManualAddrs
  <2>6. ASSUME e.id = Manual PROVE ManualAddrs(p) = {e.addr}
    <3>1. \A k \in ManualIn(p) : p[k] = e
      BY <2>1, <2>3, <2>6 DEF ManualIn
    <3>2. ManualIn(p) # {}
      BY <1>2, <2>1, <2>3, <2>6 DEF Has, ManualIn
    <3> QED
      BY <3>1, <3>2 DEF ManualAddrs
  <2> QED
    BY <2>4, <2>5, <2>6 DEF ManualKept, p
<1>3. CASE ~Has(q, e.id)
  <2>1. p = Append(q, e)
    BY <1>3 DEF Put
  <2> HIDE DEF p
  <2>2. /\ p \in Seq(Entry) /\ Len(p) = n + 1
        /\ \A k \in 1 .. n : p[k] = q[k]
        /\ p[n + 1] = e
    BY <2>1, AppendProperties DEF OneEach
  <2>3. DOMAIN p = 1 .. n + 1
    BY <2>2, LenProperties
  <2>4. \A k \in 1 .. n + 1 : k \in 1 .. n \/ k = n + 1
    BY <1>1
  <2>5. \A k \in 1 .. n : p[k].id # e.id
    BY <1>1, <1>3, <2>2 DEF Has
  <2>6. OneEach(p)
    <3>1. ASSUME NEW k \in 1 .. n + 1, NEW j \in 1 .. n + 1, p[k].id = p[j].id
          PROVE  k = j
      <4>1. CASE k \in 1 .. n /\ j \in 1 .. n
        BY <1>1, <2>2, <3>1, <4>1 DEF OneEach
      <4>2. CASE k = n + 1 \/ j = n + 1
        BY <2>2, <2>4, <2>5, <3>1, <4>2
      <4> QED
        BY <2>4, <4>1, <4>2
    <3> QED
      BY <2>2, <2>3, <3>1 DEF OneEach
  <2>7. ASSUME e.id # Manual PROVE ManualAddrs(p) = ManualAddrs(q)
    <3>1. ManualIn(p) = ManualIn(q)
      BY <1>1, <2>2, <2>3, <2>4, <2>7 DEF ManualIn
    <3>2. \A k \in ManualIn(q) : p[k] = q[k]
      BY <1>1, <2>2 DEF ManualIn
    <3> QED
      BY <3>1, <3>2 DEF ManualAddrs
  <2>8. ASSUME e.id = Manual PROVE ManualAddrs(p) = {e.addr}
    <3>1. n + 1 \in 1 .. n + 1
      BY <1>1
    <3>2. ManualIn(p) = {n + 1}
      BY <2>2, <2>3, <2>4, <2>5, <2>8, <3>1 DEF ManualIn
    <3> QED
      BY <2>2, <3>2 DEF ManualAddrs
  <2> QED
    BY <2>6, <2>7, <2>8 DEF ManualKept, p
<1> QED
  BY <1>2, <1>3

(* An entry that was not seen for the TTL.                                  *)
LEMMA AgedKeeps ==
    ASSUME NEW q, OneEach(q), NEW k \in DOMAIN q
    PROVE  ManualKept(q, [q EXCEPT ![k].fresh = FALSE])
<1> DEFINE p == [q EXCEPT ![k].fresh = FALSE]
           n == Len(q)
<1>1. /\ n \in Nat /\ DOMAIN q = 1 .. n
      /\ \A j \in DOMAIN q : q[j] \in Entry
      /\ \A i, j \in DOMAIN q : q[i].id = q[j].id => i = j
  BY ElementOfSeq, LenProperties DEF OneEach
<1>2. /\ DOMAIN p = DOMAIN q
      /\ \A j \in DOMAIN q : j # k => p[j] = q[j]
      /\ p[k] = [q[k] EXCEPT !.fresh = FALSE]
  OBVIOUS
<1>3. p[k] \in Entry /\ p[k].id = q[k].id /\ p[k].addr = q[k].addr
  BY <1>1, <1>2 DEF Entry
<1>4. p = [j \in 1 .. n |-> p[j]]
  BY <1>1
<1> HIDE DEF p
<1>5. \A j \in DOMAIN q : /\ p[j] \in Entry
                          /\ p[j].id = q[j].id /\ p[j].addr = q[j].addr
  BY <1>1, <1>2, <1>3
<1>6. p \in [1 .. n -> Entry]
  BY <1>1, <1>4, <1>5
<1>7. p \in Seq(Entry)
  BY <1>1, <1>6, SeqDef
<1>8. ManualAddrs(p) = ManualAddrs(q)
  BY <1>2, <1>5 DEF ManualAddrs, ManualIn
<1>9. OneEach(p)
  BY <1>1, <1>2, <1>5, <1>7 DEF OneEach
<1> QED
  BY <1>8, <1>9 DEF ManualKept, p

LEMMA UpsertKeeps ==
    ASSUME NEW q, OneEach(q), NEW i \in Ids \ {Manual}, NEW a \in Addrs
    PROVE  ManualKept(q, UpsertKnown(q, i, a))
<1>1. ManualKept(q, DropFirst(q))
  BY AtKeeps DEF DropFirst, ManualIn
<1>2. Fresh(i, a) \in Entry /\ Fresh(i, a).id = i
  BY DEF Fresh, Entry
<1> QED
  BY <1>1, <1>2, PutKeeps DEF UpsertKnown, ManualKept

(* setManualPeers() installs the list, whatever there was before.           *)
LEMMA ManualInstalled ==
    ASSUME NEW d, \A n \in Names : OneEach(d[n]),
           NEW m \in [Names -> MaybeAddr], NEW n \in Names
    PROVE  /\ OneEach(WithManual(d, m)[n])
           /\ ManualAddrs(WithManual(d, m)[n]) = {m[n]} \ {NoAddr}
<1>1. CASE m[n] = NoAddr
  <2>1. WithManual(d, m)[n] = NoManual(d[n])
    BY <1>1 DEF WithManual
  <2>2. OneEach(NoManual(d[n])) /\ ManualAddrs(NoManual(d[n])) = {}
    BY AtKeeps DEF NoManual
  <2> QED
    BY <1>1, <2>1, <2>2
<1>2. CASE m[n] # NoAddr
  <2>1. WithManual(d, m)[n] = Put(d[n], Fresh(Manual, m[n]))
    BY <1>2 DEF WithManual
  <2>2. /\ Fresh(Manual, m[n]) \in Entry
        /\ Fresh(Manual, m[n]).id = Manual /\ Fresh(Manual, m[n]).addr = m[n]
    BY <1>2 DEF Fresh, Entry, Ids, MaybeAddr
  <2>3. /\ OneEach(Put(d[n], Fresh(Manual, m[n])))
        /\ ManualAddrs(Put(d[n], Fresh(Manual, m[n]))) = {m[n]}
    BY <2>2, PutKeeps
  <2> QED
    BY <1>2, <2>1, <2>3
<1> QED
  BY <1>1, <1>2

(* setKnownPeers() leaves the manual entries of every name alone.           *)
LEMMA KnownKeepsManual ==
    ASSUME NEW d, \A n \in Names : OneEach(d[n]),
           NEW k \in [Names -> MaybeAddr], NEW names, NEW n \in Names
    PROVE  ManualKept(d[n], WithKnown(d, k, names)[n])
<1>1. CASE k[n] # NoAddr
  <2>1. k[n] \in Addrs /\ Known \in Ids \ {Manual}
    BY <1>1, DirectoryTypes DEF MaybeAddr, Ids
  <2> QED
    BY <1>1, <2>1, UpsertKeeps DEF WithKnown
<1>2. ManualKept(d[n], OnlyManual(d[n]))
  BY AtKeeps DEF OnlyManual, ManualIn
<1>3. CASE k[n] = NoAddr
  BY <1>2, <1>3 DEF WithKnown, ManualKept
<1> QED
  BY <1>1, <1>3

-----------------------------------------------------------------------------
\* The lists for start() are the manual ones of the settings unless an edit
\* came before, and nothing is listed before start().
ManualInv ==
    /\ DirectoryTypeOK
    /\ ManualAsListed
    /\ phase = "binding" /\ ~early => given.manual = manual

LEMMA TypesOfEntries ==
    DirectoryTypeOK => \A n \in Names : OneEach(listed[n])
BY DEF DirectoryTypeOK, OneEach

LEMMA ManualInvInit == DirectoryInit => ManualInv
<1> SUFFICES ASSUME DirectoryInit PROVE ManualInv
  OBVIOUS
<1>1. /\ manual \in [Names -> MaybeAddr] /\ known \in [Names -> MaybeAddr]
      /\ given \in Lists
  BY DirectoryTypes DEF DirectoryInit, MaybeAddr, Lists
<1>2. /\ listed \in [Names -> Seq(Entry)]
      /\ \A n \in Names : DOMAIN listed[n] = {}
  BY EmptySeq DEF DirectoryInit
<1>3. DirectoryTypeOK
  BY <1>1, <1>2 DEF DirectoryInit, DirectoryTypeOK, Listing, MaybeAddr
<1> QED
  BY <1>3 DEF DirectoryInit, ManualInv, ManualAsListed

\* What a step has to show: the new entries of every name are typed, and those
\* of the manual peers are the ones listed.
LEMMA EntriesSuffice ==
    ASSUME listed' = [n \in Names |-> listed'[n]],
           \A n \in Names : /\ OneEach(listed'[n])
                            /\ phase' = "on" /\ ~early' =>
                                  ManualAddrs(listed'[n]) = {manual'[n]} \ {NoAddr}
    PROVE  /\ listed' \in [Names -> Seq(Entry)]
           /\ \A n \in Names : \A k, j \in DOMAIN listed'[n] :
                 listed'[n][k].id = listed'[n][j].id => k = j
           /\ ManualAsListed'
<1>1. /\ listed' \in [Names -> Seq(Entry)]
      /\ \A n \in Names : \A k, j \in DOMAIN listed'[n] :
            listed'[n][k].id = listed'[n][j].id => k = j
  BY DEF OneEach
<1>2. ManualAsListed'
  BY DEF ManualAsListed, ManualAddrs, ManualIn
<1> QED
  BY <1>1, <1>2

LEMMA ManualInvNext ==
    ManualInv /\ [DirectoryNext]_directoryVars => ManualInv'
<1> SUFFICES ASSUME ManualInv, [DirectoryNext]_directoryVars PROVE ManualInv'
  OBVIOUS
<1>0. /\ \A n \in Names : OneEach(listed[n])
      /\ listed = [n \in Names |-> listed[n]]
      /\ phase = "on" /\ ~early =>
            \A n \in Names : ManualAddrs(listed[n]) = {manual[n]} \ {NoAddr}
  <2>1. \A n \in Names : OneEach(listed[n])
    BY TypesOfEntries DEF ManualInv
  <2> QED
    BY <2>1 DEF ManualInv, DirectoryTypeOK, ManualAsListed, ManualAddrs, ManualIn
\* A step that keeps the settings and touches other entries than the manual.
<1>a. ASSUME phase = "on",
             UNCHANGED <<phase, manual, early>>,
             listed' = [n \in Names |-> listed'[n]],
             \A n \in Names : \/ listed'[n] = listed[n]
                              \/ ManualKept(listed[n], listed'[n])
      PROVE  /\ listed' \in [Names -> Seq(Entry)]
             /\ \A n \in Names : \A k, j \in DOMAIN listed'[n] :
                   listed'[n][k].id = listed'[n][j].id => k = j
             /\ ManualAsListed'
  <2>1. \A n \in Names : /\ OneEach(listed'[n])
                         /\ phase' = "on" /\ ~early' =>
                               ManualAddrs(listed'[n]) = {manual'[n]} \ {NoAddr}
    BY <1>0, <1>a DEF ManualKept
  <2> QED
    BY <1>a, <2>1, EntriesSuffice
\* Both lists are installed.
<1>b. ASSUME NEW m \in [Names -> MaybeAddr], NEW k \in [Names -> MaybeAddr],
             listed' = WithKnown(WithManual(listed, m), k, knownNames),
             phase' = "on" /\ ~early' => manual' = m
      PROVE  /\ listed' \in [Names -> Seq(Entry)]
             /\ \A n \in Names : \A i, j \in DOMAIN listed'[n] :
                   listed'[n][i].id = listed'[n][j].id => i = j
             /\ ManualAsListed'
  <2> DEFINE d == WithManual(listed, m)
  <2>1. \A n \in Names : /\ OneEach(d[n])
                         /\ ManualAddrs(d[n]) = {m[n]} \ {NoAddr}
    <3>1. \A n \in Names : OneEach(listed[n])
      BY <1>0
    <3> QED
      BY ONLY <3>1, ManualInstalled, m \in [Names -> MaybeAddr]
  <2>2. listed' = WithKnown(d, k, knownNames)
    BY <1>b
  <2> HIDE DEF d
  <2>3. \A n \in Names : ManualKept(d[n], listed'[n])
    BY <2>1, <2>2, KnownKeepsManual
  <2>4. listed' = [n \in Names |-> listed'[n]]
    BY <2>2 DEF WithKnown
  <2>5. \A n \in Names : /\ OneEach(listed'[n])
                         /\ phase' = "on" /\ ~early' =>
                               ManualAddrs(listed'[n]) = {manual'[n]} \ {NoAddr}
    BY <1>b, <2>1, <2>3 DEF ManualKept
  <2> QED
    BY <2>4, <2>5, EntriesSuffice
<1>1. CASE Start
  <2>1. /\ given.manual \in [Names -> MaybeAddr]
        /\ given.known \in [Names -> MaybeAddr]
        /\ listed' = WithKnown(WithManual(listed, given.manual), given.known,
                               knownNames)
        /\ ~early' => manual' = given.manual
    BY <1>1 DEF Start, ManualInv, DirectoryTypeOK, Lists
  <2>2. given' \in Lists /\ knownNames' \subseteq Names
    BY <1>1 DEF Start, Lists, NoList, Listing, MaybeAddr
  <2> QED
    BY <1>1, <1>b, <2>1, <2>2 DEF Start, ManualInv, DirectoryTypeOK
<1>2. CASE Stop
  <2>1. \A n \in Names : listed'[n] = <<>>
    BY <1>2 DEF Stop
  <2>2. \A n \in Names : OneEach(listed'[n])
    <3>1. <<>> \in Seq(Entry) /\ DOMAIN <<>> = {}
      BY EmptySeq
    <3>2. OneEach(<<>>)
      BY <3>1 DEF OneEach
    <3> QED
      BY <2>1, <3>2
  <2>3. listed' = [n \in Names |-> listed'[n]] /\ phase' = "stopped"
    BY <1>2 DEF Stop
  <2> QED
    BY <1>2, <2>2, <2>3, EntriesSuffice DEF Stop, ManualInv, DirectoryTypeOK
<1>3. CASE Sweep
  <2>1. \A n \in Names : ManualKept(listed[n], Recent(listed[n]))
    BY <1>0, AtKeeps DEF Recent, ManualIn
  <2>2. \A n \in Names : \/ listed'[n] = listed[n]
                         \/ ManualKept(listed[n], listed'[n])
    BY <1>3, <2>1 DEF Sweep, Swept
  <2>3. listed' = [n \in Names |-> listed'[n]]
    BY <1>3 DEF Sweep
  <2> QED
    BY <1>3, <1>a, <2>2, <2>3 DEF Sweep, ManualInv, DirectoryTypeOK
<1>4. ASSUME NEW m \in ManualLists, NEW k \in KnownLists, ApplyConfig(m, k)
      PROVE  ManualInv'
  <2>1. m \in [Names -> MaybeAddr] /\ k \in [Names -> MaybeAddr]
    BY DirectoryTypes DEF MaybeAddr
  <2>2. /\ listed' = WithKnown(WithManual(listed, m), k, knownNames)
        /\ manual' = m /\ known' = k /\ knownNames' = Listing(k)
        /\ early' = (early \/ phase = "binding")
        /\ UNCHANGED <<own, phase, auto, given, conflicting, at>>
    BY <1>4 DEF ApplyConfig
  <2>3. /\ listed' \in [Names -> Seq(Entry)]
        /\ \A n \in Names : \A i, j \in DOMAIN listed'[n] :
              listed'[n][i].id = listed'[n][j].id => i = j
        /\ ManualAsListed'
    BY <1>b, <2>1, <2>2
  <2>4. knownNames' \subseteq Names
    BY <2>2 DEF Listing
  <2> QED
    BY <2>1, <2>2, <2>3, <2>4 DEF ManualInv, DirectoryTypeOK
<1>5. ASSUME NEW r \in Runs, HandleMessage(r) PROVE ManualInv'
  <2>1. Fresh(r, at[r]) \in Entry /\ Fresh(r, at[r]).id # Manual
    BY <1>5, DirectoryTypes
    DEF HandleMessage, Alive, Fresh, Entry, Ids, ManualInv, DirectoryTypeOK,
        MaybeAddr
  <2>2. \A n \in Names : ManualKept(listed[n], Put(listed[n], Fresh(r, at[r])))
    BY <1>0, <2>1, PutKeeps
  <2>3. \/ UNCHANGED listed
        \/ listed' = [listed EXCEPT ![NameOf[r]] = Put(@, Fresh(r, at[r]))]
    BY <1>5 DEF HandleMessage
  <2>4. /\ listed' = [n \in Names |-> listed'[n]]
        /\ \A n \in Names : \/ listed'[n] = listed[n]
                            \/ ManualKept(listed[n], listed'[n])
    BY <1>0, <2>2, <2>3
  <2>5. /\ phase = "on" /\ conflicting' \subseteq Runs
        /\ UNCHANGED <<own, phase, auto, given, manual, known, knownNames, at,
                       early>>
    BY <1>5 DEF HandleMessage, ManualInv, DirectoryTypeOK
  <2> QED
    BY <1>a, <2>4, <2>5 DEF ManualInv, DirectoryTypeOK
<1>6. ASSUME NEW r \in Runs, NEW a \in Addrs, LearnInboundPeer(r, a)
      PROVE  ManualInv'
  <2> DEFINE n == NameOf[r]
             learned == [listed EXCEPT ![n] = UpsertKnown(@, r, a)]
  <2>1. n \in Names /\ r \in Ids \ {Manual}
    BY DirectoryTypes DEF Ids
  <2>2. /\ learned = [m \in Names |-> learned[m]]
        /\ \A m \in Names : ManualKept(listed[m], learned[m])
    <3>1. \A m \in Names : ManualKept(listed[m], UpsertKnown(listed[m], r, a))
      BY <1>0, <2>1, UpsertKeeps
    <3>2. \A m \in Names : ManualKept(listed[m], listed[m])
      BY <1>0 DEF ManualKept
    <3> QED
      BY <1>0, <3>1, <3>2
  <2>3. /\ phase = "on"
        /\ UNCHANGED <<own, phase, auto, given, manual, conflicting, at, early>>
    BY <1>6 DEF LearnInboundPeer
  <2>4. CASE n \in knownNames
    <3>1. listed' = learned /\ UNCHANGED <<known, knownNames>>
      BY <1>6, <2>4 DEF LearnInboundPeer
    <3> HIDE DEF learned
    <3> QED
      BY <1>a, <2>2, <2>3, <3>1 DEF ManualInv, DirectoryTypeOK
  <2>5. CASE n \notin knownNames
    <3>1. /\ known' = [known EXCEPT ![n] = a]
          /\ listed' = WithKnown(learned, known', knownNames \cup {n})
          /\ knownNames' = Listing(known')
      BY <1>6, <2>5 DEF LearnInboundPeer
    <3>2. known' \in [Names -> MaybeAddr] /\ knownNames' \subseteq Names
      BY <3>1 DEF ManualInv, DirectoryTypeOK, MaybeAddr, Listing
    <3> HIDE DEF learned
    <3>3. \A m \in Names : ManualKept(learned[m], listed'[m])
      <4>1. \A m \in Names : OneEach(learned[m])
        BY <2>2 DEF ManualKept
      <4> DEFINE k == known'
                 names == knownNames \cup {n}
      <4>2. k \in [Names -> MaybeAddr] /\ listed' = WithKnown(learned, k, names)
        BY <3>1, <3>2
      <4> HIDE DEF k, names
      <4> QED
        BY <4>1, <4>2, KnownKeepsManual
    <3>4. /\ listed' = [m \in Names |-> listed'[m]]
          /\ \A m \in Names : ManualKept(listed[m], listed'[m])
      BY <2>2, <3>1, <3>3 DEF ManualKept, WithKnown
    <3> QED
      BY <1>a, <2>3, <3>2, <3>4 DEF ManualInv, DirectoryTypeOK
  <2> QED
    BY <2>4, <2>5
<1>7. ASSUME NEW r \in Runs, Age(r) PROVE ManualInv'
  <2> DEFINE n == NameOf[r]
             q == listed[n]
  <2>1. n \in Names
    BY DirectoryTypes
  <2>2. PICK k \in DOMAIN q : listed' = [listed EXCEPT ![n][k].fresh = FALSE]
    BY <1>7 DEF Age
  <2>3. ManualKept(q, [q EXCEPT ![k].fresh = FALSE])
    BY <1>0, <2>1, AgedKeeps
  <2>4. /\ listed' = [m \in Names |-> listed'[m]]
        /\ \A m \in Names : \/ listed'[m] = listed[m]
                            \/ ManualKept(listed[m], listed'[m])
    BY <1>0, <2>1, <2>2, <2>3
  <2>5. /\ phase = "on"
        /\ UNCHANGED <<own, phase, auto, given, manual, known, knownNames,
                       conflicting, at, early>>
    BY <1>7 DEF Age
  <2> QED
    BY <1>a, <2>4, <2>5 DEF ManualInv, DirectoryTypeOK
<1>8. ASSUME NEW r \in Runs, PeerMoves(r) PROVE ManualInv'
  <2>1. at' \in [Runs -> MaybeAddr]
    BY <1>8 DEF PeerMoves, ManualInv, DirectoryTypeOK
  <2>2. UNCHANGED <<own, phase, auto, given, manual, known, listed, knownNames,
                    conflicting, early>>
    BY <1>8 DEF PeerMoves
  <2>3. ManualAsListed'
    BY <2>2 DEF ManualInv, ManualAsListed
  <2> QED
    BY <2>1, <2>2, <2>3 DEF ManualInv, DirectoryTypeOK
<1>9. CASE UNCHANGED directoryVars
  <2>1. ManualAsListed'
    BY <1>9 DEF directoryVars, ManualInv, ManualAsListed
  <2> QED
    BY <1>9, <2>1 DEF directoryVars, ManualInv, DirectoryTypeOK
<1> QED
  BY <1>1, <1>2, <1>3, <1>4, <1>5, <1>6, <1>7, <1>8, <1>9
  DEF DirectoryNext, RunNext

(* The directory keeps its type: no id stands twice under a name, whatever  *)
(* is put, replaced and dropped by name, by id or by age (discovery.ts:81). *)
THEOREM DirectoryTypesHold == DirectorySpec => []DirectoryTypeOK
<1>1. ManualInv => DirectoryTypeOK
  BY DEF ManualInv
<1> QED
  BY <1>1, ManualInvInit, ManualInvNext, PTL DEF DirectorySpec

(* The manual entries are those of the settings, at the listed address:     *)
(* neither a contact nor an announcement, a known peer of the same name or  *)
(* the sweep replaces or drops one (discovery.ts:173-190).                  *)
THEOREM ManualAsListedHolds == DirectorySpec => []ManualAsListed
<1>1. ManualInv => ManualAsListed
  BY DEF ManualInv
<1> QED
  BY <1>1, ManualInvInit, ManualInvNext, PTL DEF DirectorySpec
=============================================================================
