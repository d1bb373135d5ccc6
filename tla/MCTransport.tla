------------------------------ MODULE MCTransport ------------------------------
(* Two scenarios, both with n1 as the sender.                                *)
(*   mixed:     two overlapping sends of e1 to n2 (a queued message and two  *)
(*              overlapping flushes) and, after the first, a send of e2,     *)
(*              whose body is too long for n2; both nodes may stop.          *)
(*   broadcast: e1 to n2 and, after it, to n3.                               *)
EXTENDS TransportRefines, EnvelopeRules, TLC

CONSTANTS n1, n2, n3, e1, e2, c1, c2, c3, s1, s2

MixedFrom == c1 :> n1 @@ c2 :> n1 @@ c3 :> n1
MixedTo == c1 :> n2 @@ c2 :> n2 @@ c3 :> n2
MixedEnvOf == c1 :> e1 @@ c2 :> e1 @@ c3 :> e2
MixedAwaitedBy == c1 :> {} @@ c2 :> {} @@ c3 :> {c1}

BroadcastFrom == c1 :> n1 @@ c2 :> n1
BroadcastTo == c1 :> n2 @@ c2 :> n3
BroadcastEnvOf == c1 :> e1 @@ c2 :> e1
BroadcastAwaitedBy == c1 :> {} @@ c2 :> {c1}

Chars(n) == [type |-> "string", bytes |-> n]
Self == [id |-> Chars(1), name |-> Chars(1), host |-> Chars(1),
         port |-> Undefined]
Colleague == [id |-> Chars(1), name |-> Chars(1), capability |-> Undefined,
              broadcast |-> Undefined]
Content == [e \in {e1, e2} |->
    NewEnvelope(Self, Chars(1), "request", ToAddress(Colleague),
                Chars(IF e = e1 THEN MaxBodyBytes ELSE MaxBodyBytes + 1),
                Undefined, Undefined)]
Accepted == {e \in Envelopes : ValidEnvelope(Content[e])}

TwoNodes == {n1, n2}
ThreeNodes == {n1, n2, n3}
Sender == {n1}
Nobody == {}
TwoEnvelopes == {e1, e2}
OneEnvelope == {e1}
TwoCalls == {c1, c2}
ThreeCalls == {c1, c2, c3}
TwoSockets == {s1, s2}
=============================================================================
