------------------------------ MODULE Discovery ------------------------------
(***************************************************************************)
(* The directory of one node (src/discovery.ts) and the part of the plugin *)
(* that feeds it (src/plugin.ts: applyConfig, learnInboundPeer).  Peers    *)
(* enter it from the settings (manual and known peers), from multicast     *)
(* announcements and from first contacts, and leave it by reconciliation   *)
(* or by the sweep.                                                        *)
(*                                                                         *)
(* The code keeps one Map by id; its order matters only among entries of   *)
(* one name, which resolveByName walks.  Here listed[n] is that walk: the  *)
(* entries of name n in Map order.  An id stands under one name only.      *)
(* A peer process mints its id when it starts and keeps it, with its name; *)
(* it may be away and come back, and its advertised address may change.    *)
(* A heavy edit of the settings replaces the instance modelled here: its   *)
(* life ends with Stop.                                                    *)
(***************************************************************************)
EXTENDS Naturals, SequencesExt

CONSTANTS
    Names,          \* peer names
    Runs,           \* ids of peer processes
    NameOf,         \* the name each of them announces
    Addrs,          \* host:port pairs
    ManualLists,    \* values of the settings manualPeers and knownPeers:
    KnownLists,     \*   the address listed for a name, or NoAddr
    Manual, Known,  \* the ids `manual:name` and `known:name` of a name
    NoAddr

ASSUME DirectoryTypes ==
    /\ NameOf \in [Runs -> Names]
    /\ NoAddr \notin Addrs
    /\ ManualLists \subseteq [Names -> Addrs \cup {NoAddr}]
    /\ KnownLists \subseteq [Names -> Addrs \cup {NoAddr}]
    /\ Manual # Known /\ {Manual, Known} \cap Runs = {}

VARIABLES
    own,          \* this node's own name, which others may also carry
    phase,        \* binding (the transport starts first), on or stopped
    auto,         \* autoDiscover
    given,        \* lists passed to the constructor, for start() to install
    manual,       \* this.config.manualPeers of the plugin
    known,        \* this.config.knownPeers of the plugin
    listed,       \* the directory
    knownNames,   \* this.knownNames
    conflicting,  \* this.conflicting
    at,           \* address each peer process advertises, NoAddr if away
    early         \* history: the lists were edited before start()

\* The names of the specification are the directory's own, so that a module
\* can extend it beside that of the settings.
directoryVars == <<own, phase, auto, given, manual, known, listed, knownNames,
                   conflicting, at, early>>

Ids == Runs \cup {Manual, Known}

\* fresh: seen within the TTL; only the sweep reads it.
Entry == [id : Ids, addr : Addrs, fresh : BOOLEAN]

MaybeAddr == Addrs \cup {NoAddr}

Lists == [manual : [Names -> MaybeAddr], known : [Names -> MaybeAddr]]

Alive(r) == at[r] # NoAddr

Has(q, i) == \E k \in DOMAIN q : q[k].id = i

DirectoryTypeOK ==
    /\ own \in Names
    /\ phase \in {"binding", "on", "stopped"}
    /\ auto \in BOOLEAN
    /\ given \in Lists
    /\ manual \in [Names -> MaybeAddr]
    /\ known \in [Names -> MaybeAddr]
    /\ listed \in [Names -> Seq(Entry)]
    /\ \A n \in Names : \A k, j \in DOMAIN listed[n] :
          listed[n][k].id = listed[n][j].id => k = j
    /\ knownNames \subseteq Names
    /\ conflicting \subseteq Runs
    /\ at \in [Runs -> MaybeAddr]
    /\ early \in BOOLEAN

NoList == [n \in Names |-> NoAddr]

Listing(list) == {n \in Names : list[n] # NoAddr}

DirectoryInit ==
    /\ own \in Names
    /\ phase = "binding"
    /\ auto \in BOOLEAN
    /\ manual \in ManualLists
    /\ known \in KnownLists
    /\ given = [manual |-> manual, known |-> known]
    /\ listed = [n \in Names |-> <<>>]
    /\ knownNames = Listing(known)
    /\ conflicting = {}
    /\ at = [r \in Runs |-> NoAddr]
    /\ early = FALSE

-----------------------------------------------------------------------------
(* Entries of one name *)

Fresh(i, a) == [id |-> i, addr |-> a, fresh |-> TRUE]

\* Mutant: an id that is listed already is not refreshed.
PutOnce(q, e) == IF Has(q, e.id) THEN q ELSE Append(q, e)

\* upsert(): Map.set keeps the place of an id it has.
Put(q, e) ==
    IF Has(q, e.id)
    THEN [k \in DOMAIN q |-> IF q[k].id = e.id THEN e ELSE q[k]]
    ELSE Append(q, e)

\* The j-th of the positions K, and the entries of q at all of them.
Nth(K, j) == CHOOSE k \in K : Cardinality({i \in K : i <= k}) = j

At(q, K) == [j \in 1 .. Cardinality(K) |-> q[Nth(K, j)]]

ManualIn(q) == {k \in DOMAIN q : q[k].id = Manual}

\* Without its first entry that is not manual.
DropFirst(q) ==
    At(q, {k \in DOMAIN q : \/ k \in ManualIn(q)
                            \/ \E j \in DOMAIN q \ ManualIn(q) : j < k})

UpsertKnown(q, i, a) == Put(DropFirst(q), Fresh(i, a))

OnlyManual(q) == At(q, ManualIn(q))
NoManual(q) == At(q, DOMAIN q \ ManualIn(q))

\* setManualPeers(list) applied to the directory d.
WithManual(d, list) ==
    [n \in Names |-> IF list[n] = NoAddr THEN NoManual(d[n])
                     ELSE Put(d[n], Fresh(Manual, list[n]))]

\* setKnownPeers(list), names being those known before: what is not listed
\* any more goes, announced entries of that name included.
WithKnown(d, list, names) ==
    [n \in Names |->
        IF list[n] # NoAddr THEN UpsertKnown(d[n], Known, list[n])
        ELSE IF n \in names THEN OnlyManual(d[n]) ELSE d[n]]

-----------------------------------------------------------------------------
(* Life of the instance and settings *)

\* start() installs the lists of the constructor, once: they serve no more.
Start ==
    /\ phase = "binding"
    /\ phase' = "on"
    /\ listed' = WithKnown(WithManual(listed, given.manual), given.known,
                           knownNames)
    /\ knownNames' = Listing(given.known)
    /\ given' = [manual |-> NoList, known |-> NoList]
    /\ UNCHANGED <<own, auto, manual, known, conflicting, at, early>>

Stop ==
    /\ phase # "stopped"
    /\ phase' = "stopped"
    /\ listed' = [n \in Names |-> <<>>]
    /\ UNCHANGED <<own, auto, given, manual, known, knownNames, conflicting,
                   at, early>>

\* A light edit of the settings, also while the transport still binds.
ApplyConfig(m, k) ==
    /\ phase # "stopped"
    /\ manual' = m
    /\ known' = k
    /\ listed' = WithKnown(WithManual(listed, m), k, knownNames)
    /\ knownNames' = Listing(k)
    /\ early' = (early \/ phase = "binding")
    /\ UNCHANGED <<own, phase, auto, given, conflicting, at>>

-----------------------------------------------------------------------------
(* Announcements, first contacts and the sweep *)

\* An announcement of r arrives.
HandleMessage(r) ==
    /\ phase = "on" /\ auto
    /\ Alive(r)
    /\ IF NameOf[r] = own
       THEN conflicting' = conflicting \cup {r} /\ UNCHANGED listed
       ELSE /\ listed' = [listed EXCEPT ![NameOf[r]] = Put(@, Fresh(r, at[r]))]
            /\ UNCHANGED conflicting
    /\ UNCHANGED <<own, phase, auto, given, manual, known, knownNames, at,
                   early>>

\* learnKnownPeer() returns early: the name resolves to a manual peer.
Shielded(n) == listed[n] # <<>> /\ Head(listed[n]).id = Manual

\* An envelope of r arrives with the address r had when it was made, which a
\* retry may deliver late (autoAccept is on; off, it changes nothing).
LearnInboundPeer(r, a) ==
    LET n == NameOf[r]
        learned == [listed EXCEPT ![n] = UpsertKnown(@, r, a)]
    IN  /\ phase = "on"
        /\ Alive(r)
        /\ ~Shielded(n)
        /\ IF n \in knownNames
           THEN listed' = learned /\ UNCHANGED <<known, knownNames>>
           ELSE /\ known' = [known EXCEPT ![n] = a]
                /\ listed' = WithKnown(learned, known', knownNames \cup {n})
                /\ knownNames' = Listing(known')
        /\ UNCHANGED <<own, phase, auto, given, manual, conflicting, at, early>>

\* The TTL of r's entry passes without an announcement.
Age(r) ==
    LET n == NameOf[r]
    IN  /\ phase = "on"
        /\ \E k \in DOMAIN listed[n] :
              /\ listed[n][k].id = r /\ listed[n][k].fresh
              /\ listed' = [listed EXCEPT ![n][k].fresh = FALSE]
        /\ UNCHANGED <<own, phase, auto, given, manual, known, knownNames,
                       conflicting, at, early>>

\* Without those that are not manual and were not seen for the TTL.
Recent(q) == At(q, ManualIn(q) \cup {k \in DOMAIN q : q[k].fresh})

\* Mutants: known peers are swept; nothing is swept.
SweptAll(n) == Recent(listed[n])
SweptNone(n) == listed[n]

Swept(n) == IF n \in knownNames THEN listed[n] ELSE Recent(listed[n])

Sweep ==
    /\ phase = "on" /\ auto
    /\ listed' = [n \in Names |-> Swept(n)]
    /\ UNCHANGED <<own, phase, auto, given, manual, known, knownNames,
                   conflicting, at, early>>

\* The environment: peers come, change their address and go.
PeerMoves(r) ==
    /\ \E a \in MaybeAddr : a # at[r] /\ at' = [at EXCEPT ![r] = a]
    /\ UNCHANGED <<own, phase, auto, given, manual, known, listed, knownNames,
                   conflicting, early>>

RunNext(r) ==
    \/ HandleMessage(r)
    \/ \E a \in Addrs : LearnInboundPeer(r, a)
    \/ Age(r)
    \/ PeerMoves(r)

DirectoryNext ==
    \/ Start \/ Stop \/ Sweep
    \/ \E m \in ManualLists, k \in KnownLists : ApplyConfig(m, k)
    \/ \E r \in Runs : RunNext(r)

DirectorySpec == DirectoryInit /\ [][DirectoryNext]_directoryVars

\* The sweep is an interval timer and the clock advances; peers announce
\* every second and multicast works.
DirectoryFairness ==
    /\ WF_directoryVars(Sweep)
    /\ \A r \in Runs : /\ WF_directoryVars(Age(r))
                       /\ WF_directoryVars(HandleMessage(r))

DirectoryFairSpec == DirectorySpec /\ DirectoryFairness

-----------------------------------------------------------------------------
(* A known peer is kept in the directory indefinitely (discovery.ts:34),    *)
(* whatever the sweep, reconciliations, contacts and announcements of that  *)
(* name do: each of them removes entries by name or by id.  And whoever the *)
(* node treats as known is in the settings, and conversely                  *)
(* (plugin.ts:357-365), so that a restart knows the same peers.             *)
KnownPeersKept ==
    /\ phase = "on" => \A n \in knownNames : listed[n] # <<>>
    /\ phase # "stopped" /\ ~early => knownNames = Listing(known)

(* The manual entries are those of the settings, at the listed address      *)
(* (discovery.ts:173-190): neither a contact nor an announcement nor the    *)
(* known peers of the same name replace one.  Lists edited before start()   *)
(* are another matter.                                                      *)
ManualAsListed ==
    phase = "on" /\ ~early =>
        \A n \in Names :
            {listed[n][k].addr : k \in {j \in DOMAIN listed[n] :
                                          listed[n][j].id = Manual}}
                = {manual[n]} \ {NoAddr}

(* A peer that left is swept (discovery.ts:314-324) unless its name is      *)
(* known; if it is, the entry goes at the latest when the name is dropped   *)
(* from the settings.                                                       *)
GoneIsDropped ==
    \A r \in Runs :
        ~Alive(r) ~> \/ ~Has(listed[NameOf[r]], r)
                     \/ NameOf[r] \in knownNames
                     \/ Alive(r)

(* The directory comes to hold the present address of every peer that       *)
(* announces itself, although contacts and reconciliations replace entries  *)
(* of its name by older addresses (discovery.ts:302-311).                   *)
AnnouncedAddressHolds ==
    \A r \in Runs, a \in Addrs :
        at[r] = a /\ phase = "on" /\ auto /\ NameOf[r] # own
            ~> \/ Fresh(r, a) \in Range(listed[NameOf[r]])
               \/ at[r] # a \/ phase # "on"

(* "After a change of IP the next message of the peer refreshes its entry"  *)
(* (docs/superpowers/specs/2026-08-18-mutual-peer-auto-add-design.md:76):   *)
(* the name resolves to the address the message carried.                    *)
AddressFollowsContact ==
    [][ \A r \in Runs :
          Alive(r) /\ LearnInboundPeer(r, at[r])
              => Head(listed'[NameOf[r]]).addr = at[r] ]_directoryVars

=============================================================================
