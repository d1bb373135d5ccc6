------------------------------- MODULE Delivery -------------------------------
(***************************************************************************)
(* What a transport promises its caller for envelopes addressed to one     *)
(* peer (transport.ts:202 and the class comment at transport.ts:51): a     *)
(* call that succeeds has put the envelope in the peer's hands, the peer   *)
(* takes it at most once, every call ends, and one that fails says nothing *)
(* about what the peer has.                                                *)
(***************************************************************************)
EXTENDS Naturals

CONSTANTS Nodes, Envelopes, Calls, To, EnvOf

VARIABLES
    result,     \* idle, started, delivered or failed
    taken       \* taken[n][e]: how often node n has been handed e

dvars == <<result, taken>>

Init ==
    /\ result = [c \in Calls |-> "idle"]
    /\ taken = [n \in Nodes |-> [e \in Envelopes |-> 0]]

Start(c) ==
    /\ result[c] = "idle"
    /\ result' = [result EXCEPT ![c] = "started"]
    /\ UNCHANGED taken

\* Only what was sent to it, and only once; the call may have failed already.
Take(n, e) ==
    /\ \E c \in Calls : To[c] = n /\ EnvOf[c] = e /\ result[c] # "idle"
    /\ taken[n][e] = 0
    /\ taken' = [taken EXCEPT ![n][e] = 1]
    /\ UNCHANGED result

Succeed(c) ==
    /\ result[c] = "started"
    /\ taken[To[c]][EnvOf[c]] = 1
    /\ result' = [result EXCEPT ![c] = "delivered"]
    /\ UNCHANGED taken

\* One socket or one stop may end several calls.
Fail(C) ==
    /\ \A c \in C : result[c] = "started"
    /\ result' = [c \in Calls |-> IF c \in C THEN "failed" ELSE result[c]]
    /\ UNCHANGED taken

Next ==
    \/ \E c \in Calls : Start(c) \/ Succeed(c)
    \/ \E n \in Nodes, e \in Envelopes : Take(n, e)
    \/ \E C \in SUBSET Calls : Fail(C)

Spec == Init /\ [][Next]_dvars

\* Every started call ends.
Ends == \A c \in Calls : result[c] = "started" ~> result[c] # "started"

LiveSpec == Spec /\ Ends
=============================================================================
