--------------------------- MODULE MCSendAndWait ---------------------------
(* q1 may get two different replies, q2 one.  q1 is called from a session,  *)
(* q2 from a caller that takes no followup.                                 *)
EXTENDS SendAndWait, TLC

CONSTANTS q1, q2, r1, r2, r3

MCRequests == {q1, q2}
MCReplies == {r1, r2, r3}
MCInReplyTo == r1 :> q1 @@ r2 :> q1 @@ r3 :> q2
MCInitiated == {q1}
=============================================================================
