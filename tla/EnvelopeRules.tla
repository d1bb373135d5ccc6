----------------------------- MODULE EnvelopeRules -----------------------------
(***************************************************************************)
(* Which envelopes a receiver accepts (src/messages.ts: validateEnvelope)  *)
(* and which ones a node writes (src/agent.ts: toAddress, newEnvelope,     *)
(* resolveTarget).  A sender never validates: an envelope the peer refuses *)
(* is refused without an answer.                                           *)
(*                                                                         *)
(* A JavaScript value is a record: its type as typeof says it ("null" for  *)
(* null), with the length of a string and the value of a number, rounded   *)
(* away from zero, as far as a rule looks at them.  An absent field is     *)
(* Undefined.                                                              *)
(***************************************************************************)
EXTENDS Integers

CONSTANTS
    MaxBodyBytes,          \* MAX_BODY_BYTES
    MaxAttachmentBytes,    \* MAX_ATTACHMENT_BYTES
    ExecutableExtensions   \* EXECUTABLE_EXTENSIONS

ASSUME LimitTypes == MaxBodyBytes \in Nat /\ MaxAttachmentBytes \in Nat

Undefined == [type |-> "undefined"]
String == [type : {"string"}, bytes : Nat]
Text == {s \in String : s.bytes > 0}
Number == [type : {"number"}, finite : BOOLEAN, whole : BOOLEAN, value : Int]
Truth == [type : {"boolean"}, value : BOOLEAN]

NonEmpty(v) == v.type = "string" /\ v.bytes > 0
Finite(v) == v.type = "number" /\ v.finite

Kinds == {"request", "reply", "event"}

ValidSender(from) ==
    /\ from.type = "object"
    /\ NonEmpty(from.id) /\ NonEmpty(from.name)
    /\ from.host.type \in {"undefined", "string"}
    /\ from.port.type = "undefined" \/ Finite(from.port)

ValidAddress(to) ==
    /\ to.type = "object"
    /\ \/ "string" \in {to.id.type, to.name.type, to.capability.type,
                        to.group.type}
       \/ to.broadcast.type = "boolean" /\ to.broadcast.value

\* The extension is the part of the name from its last dot on, lowercased.
IsExecutableFilename(filename) == filename.extension \in ExecutableExtensions

ValidAttachment(att) ==
    /\ att.type = "object"
    /\ NonEmpty(att.filename) /\ ~IsExecutableFilename(att.filename)
    /\ Finite(att.size) /\ att.size.value \in 0 .. MaxAttachmentBytes
    /\ NonEmpty(att.hash) /\ NonEmpty(att.ref)

ValidEnvelope(env) ==
    /\ env.type = "object"
    /\ NonEmpty(env.id)
    /\ env.kind \in Kinds
    /\ ValidSender(env.from)
    /\ ValidAddress(env.to)
    /\ env.body.type = "string" /\ env.body.bytes <= MaxBodyBytes
    /\ env.attachment.type = "undefined" \/ ValidAttachment(env.attachment)
    /\ env.ts.type = "undefined" \/ Finite(env.ts)
    /\ \/ env.depth.type = "undefined"
       \/ Finite(env.depth) /\ env.depth.whole /\ env.depth.value >= 0

-----------------------------------------------------------------------------
(* What a node writes *)

\* What send() may be called with.
Targets == [id : String \cup {Undefined}, name : String \cup {Undefined},
            capability : String \cup {Undefined},
            broadcast : Truth \cup {Undefined}]

\* Some rule of resolveTarget() applies: with none, send() returns offline.
Routable(target) ==
    \/ target.broadcast.type = "boolean" /\ target.broadcast.value
    \/ target.capability.type # "undefined"
    \/ target.id.type # "undefined"
    \/ target.name.type # "undefined"

ToAddress(target) ==
    [type |-> "object", id |-> target.id, name |-> target.name,
     capability |-> target.capability, group |-> Undefined,
     broadcast |-> target.broadcast]

\* The identity of a node (its name is not empty) and what it advertises.
Selves == [id : Text, name : Text, host : String \cup {Undefined},
           port : {n \in Number : n.finite} \cup {Undefined}]

Now == [type |-> "number", finite |-> TRUE, whole |-> TRUE, value |-> 1]

\* A reply carries the depth of its request plus one, a request none.
Depths == {n \in Number : n.finite /\ n.whole /\ n.value > 0} \cup {Undefined}

NewEnvelope(self, uuid, kind, to, body, attachment, depth) ==
    [type |-> "object", id |-> uuid, kind |-> kind,
     from |-> [type |-> "object", id |-> self.id, name |-> self.name,
               host |-> self.host, port |-> self.port],
     to |-> to, body |-> body, attachment |-> attachment,
     ts |-> Now, depth |-> depth]
================================================================================
