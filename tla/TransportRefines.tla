--------------------------- MODULE TransportRefines ---------------------------
(* The transport implements Delivery as long as no envelope is broadcast:   *)
(* a call is started while it dials or awaits its ack, and an envelope has  *)
(* been taken when the 'envelope' event was emitted for it.                 *)
EXTENDS Transport

ResultOf(st) == IF st \in {"dialing", "awaiting"} THEN "started" ELSE st

D == INSTANCE Delivery WITH
        result <- [c \in Calls |-> ResultOf(stage[c])],
        taken <- emitted

(* The transport's steps are steps of Delivery or invisible to it.          *)
ImplementsDelivery == D!Spec

(* ... and under the fairness of the timers it also ends every call.        *)
ImplementsLiveDelivery == D!LiveSpec
=============================================================================
