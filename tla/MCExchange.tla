----------------------------- MODULE MCExchange -----------------------------
(* One message to a peer that may be known from the settings; two flushes,  *)
(* because a first contact starts two at once.                              *)
EXTENDS Exchange, TLC

CONSTANTS m1, f1, f2, p1

MCFlushers == {f1, f2}
MCPeerOf == (m1 :> p1)
=============================================================================
