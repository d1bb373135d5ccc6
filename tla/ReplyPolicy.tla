----------------------------- MODULE ReplyPolicy -----------------------------
(***************************************************************************)
(* The reply rules of a node (README.md:17-18 and 156, agent.ts:155-302):  *)
(* a request that reaches a run of the node is worked on, held for a       *)
(* human, accepted by one, answered or closed, in one of these at a time;  *)
(* in one run it is answered at most once; and some requests are answered  *)
(* by a human only.  When the node is rebuilt, which starts another run,   *)
(* what is held is lost and what is worked on goes on, but cannot be held  *)
(* any more; a request that is sent again is a new one to the new run.     *)
(***************************************************************************)
EXTENDS Naturals

CONSTANTS
    Handlings,     \* requests, each as it reached one run of the node
    RunOf(_),      \* RunOf(h): that run
    NeverAuto      \* broadcasts and auto-reply chains that are too deep

VARIABLES
    run,       \* number of the node's run
    phase,     \* unseen, working, held, lost, accepted, answered or closed
    author     \* nobody, auto or human

pvars == <<run, phase, author>>

Init ==
    /\ run = 0
    /\ phase = [h \in Handlings |-> "unseen"]
    /\ author = [h \in Handlings |-> "nobody"]

Move(h, from, to) ==
    /\ phase[h] \in from
    /\ phase' = [phase EXCEPT ![h] = to]
    /\ UNCHANGED run

Receive(h) ==
    /\ RunOf(h) = run
    /\ \E to \in {"working", "held"} : Move(h, {"unseen"}, to)
    /\ UNCHANGED author

Hold(h) ==
    /\ Move(h, {"working"}, IF RunOf(h) = run THEN "held" ELSE "lost")
    /\ UNCHANGED author

AutoAnswer(h) ==
    /\ h \notin NeverAuto
    /\ Move(h, {"working"}, "answered")
    /\ author' = [author EXCEPT ![h] = "auto"]

\* The human's approval starts a project session whose answer is the reply.
Accept(h) == Move(h, {"held"}, "accepted") /\ UNCHANGED author

HumanAnswer(h) ==
    /\ Move(h, {"held", "accepted"}, "answered")
    /\ author' = [author EXCEPT ![h] = "human"]

\* Rejected, or the accepted session ended without an answer to send.
Close(h) == Move(h, {"held", "accepted"}, "closed") /\ UNCHANGED author

Replace ==
    /\ run' = run + 1
    /\ phase' = [h \in Handlings |->
                    IF phase[h] = "held" THEN "lost" ELSE phase[h]]
    /\ UNCHANGED author

OfOne(h) ==
    \/ Receive(h) \/ Hold(h) \/ AutoAnswer(h)
    \/ Accept(h) \/ HumanAnswer(h) \/ Close(h)

\* Each of these moves the handling to another phase.
Next ==
    \/ \E h \in Handlings : phase'[h] # phase[h] /\ OfOne(h)
    \/ Replace

Spec == Init /\ [][Next]_pvars
=============================================================================
