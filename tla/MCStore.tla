------------------------------- MODULE MCStore -------------------------------
(* Three messages, so that an entry may be skipped by an iterator whose     *)
(* array shrank under it, and two flushes.                                  *)
EXTENDS Store, TLC

CONSTANTS m1, m2, m3, f1, f2

MCMessages == {m1, m2, m3}
MCFlushers == {f1, f2}

Symmetry == Permutations(MCMessages) \cup Permutations(MCFlushers)
=============================================================================
