---------------------------- MODULE MCSettingsPanel ----------------------------
(* A form without a name and one with, a peer, and a row that an import     *)
(* adds and the human adds or removes; two writes at once.                  *)
EXTENDS SettingsPanel, TLC

CONSTANTS nameless, generated, p1, workspace

MCBase == [form |-> generated, known |-> {}, rows |-> {}]
MCNamed == (nameless :> generated) @@ (generated :> generated)
=============================================================================
