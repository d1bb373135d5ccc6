----------------------------- MODULE MCDiscovery -----------------------------
(* A colleague in two processes; this node has another name or the same.    *)
EXTENDS Discovery

CONSTANTS bob, me, b1, b2, here, there

MCNameOf == (b1 :> bob) @@ (b2 :> bob)

MCManualLists == {NoList, [NoList EXCEPT ![bob] = here]}
MCKnownLists == MCManualLists
=============================================================================
