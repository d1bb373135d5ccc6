--------------------------- MODULE MCProjectSessions ---------------------------
(* Two requests of one colleague, one of another, and a human who writes.   *)
EXTENDS ProjectSessions, TLC

CONSTANTS t1, t2, t3, amy, bob

MCPairOf == (t1 :> amy) @@ (t2 :> amy) @@ (t3 :> bob)
=============================================================================
