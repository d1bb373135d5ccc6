----------------------------- MODULE MCGatePanel -----------------------------
(* A plain request and one to a project; two decisions at once.             *)
EXTENDS GatePanel

CONSTANTS g1, empty, text
=============================================================================
