------------------------------ MODULE MCRouting ------------------------------
(* One request of each shape: a broadcast, one that targets the project, one *)
(* that names it, and one that targets it too deep in a chain of automatic   *)
(* replies.  While the project is not in the table they are plain requests.  *)
(* Handlings do not touch each other, so two of them at a time are enough:   *)
(* two requests at one agent, or one that is sent again after a rebuild.     *)
EXTENDS Routing, TLC

CONSTANTS broadcast, targeted, naming, deep, s1

OneSender == {s1}
MCBroadcasts == {broadcast} \cap Requests
MCDeep == {deep} \cap Requests
MCTargeted == {targeted, deep} \cap Requests
MCNaming == {naming} \cap Requests
OneSenderOf == [q \in Requests |-> s1]

MCRequests == {broadcast, targeted, naming, deep}
=============================================================================
