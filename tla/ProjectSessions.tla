---------------------------- MODULE ProjectSessions ----------------------------
(***************************************************************************)
(* Project tasks of the plugin (src/plugin.ts: startProjectTask and        *)
(* ensureProjectSession).  A request of a colleague to a project runs in a *)
(* session of its own pair (project, colleague), which is created once and *)
(* reused; the tasks of a pair form a chain of promises.  The node may     *)
(* unload at any time, and then disposes the sessions it holds.            *)
(*                                                                         *)
(* Of the host's agent this module takes what the code relies on: messages *)
(* are answered one at a time in order, an agent with none left is idle,   *)
(* and any awaited call may fail.  A human may write into a session as well, *)
(* since it stands in the sidebar like any other.                          *)
(***************************************************************************)
EXTENDS Naturals, Sequences

CONSTANTS
    Tasks,
    Pairs,          \* (project, colleague)
    PairOf,         \* the pair of each task
    Sessions,       \* identities of sessions; the supply is a bound
    MaxPosts,       \* messages a human writes, in all sessions
    Human, NoTask, NoSession, NoPair

ASSUME SessionTypes ==
    /\ PairOf \in [Tasks -> Pairs]
    /\ MaxPosts \in Nat
    /\ {Human, NoTask} \cap Tasks = {} /\ Human # NoTask
    /\ NoSession \notin Sessions /\ NoPair \notin Pairs

VARIABLES
    stage,        \* progress of each call of startProjectTask
    before,       \* the task it was chained behind
    tail,         \* this.projectQueues: last task of each pair
    sessionOf,    \* this.projectSessions
    using,        \* the session a task works in, while it does
    first,        \* firstSeq of a task that works, as a position in the answers
    answer,       \* whose answer the task returned, NoTask for ''
    pairOf,       \* per session: the pair it was created for
    todo,         \* per session: messages not answered yet
    answers,      \* per session: whose message each answer with text is to
    disposed,     \* sessions that were disposed
    posts,        \* messages the human has written
    loaded        \* FALSE once the plugin was unloaded

vars == <<stage, before, tail, sessionOf, using, first, answer, pairOf, todo,
          answers, disposed, posts, loaded>>

Stages == {"idle", "queued", "opening", "storing", "joining", "asked", "done"}

Writers == Tasks \cup {Human}

TypeOK ==
    /\ stage \in [Tasks -> Stages]
    /\ before \in [Tasks -> Tasks \cup {NoTask}]
    /\ tail \in [Pairs -> Tasks \cup {NoTask}]
    /\ sessionOf \in [Pairs -> Sessions \cup {NoSession}]
    /\ using \in [Tasks -> Sessions \cup {NoSession}]
    /\ first \in [Tasks -> Nat]
    /\ answer \in [Tasks -> Writers \cup {NoTask}]
    /\ pairOf \in [Sessions -> Pairs \cup {NoPair}]
    /\ todo \in [Sessions -> Seq(Writers)]
    /\ answers \in [Sessions -> Seq(Writers)]
    /\ disposed \subseteq Sessions
    /\ posts \in 0 .. MaxPosts
    /\ loaded \in BOOLEAN

Init ==
    /\ stage = [t \in Tasks |-> "idle"]
    /\ before = [t \in Tasks |-> NoTask]
    /\ tail = [p \in Pairs |-> NoTask]
    /\ sessionOf = [p \in Pairs |-> NoSession]
    /\ using = [t \in Tasks |-> NoSession]
    /\ first = [t \in Tasks |-> 1]
    /\ answer = [t \in Tasks |-> NoTask]
    /\ pairOf = [s \in Sessions |-> NoPair]
    /\ todo = [s \in Sessions |-> <<>>]
    /\ answers = [s \in Sessions |-> <<>>]
    /\ disposed = {}
    /\ posts = 0
    /\ loaded = TRUE

Goes(t, from, to) == stage[t] = from /\ stage' = [stage EXCEPT ![t] = to]

Idle(s) == todo[s] = <<>>

-----------------------------------------------------------------------------
(* The chain of a pair *)

\* Mutant: a pair has no queue.
EnqueueAlone(t) ==
    /\ Goes(t, "idle", "queued")
    /\ tail' = [tail EXCEPT ![PairOf[t]] = t]
    /\ UNCHANGED <<before, sessionOf, using, first, answer, pairOf, todo,
                   answers, disposed, posts, loaded>>

Enqueue(t) ==
    /\ Goes(t, "idle", "queued")
    /\ before' = [before EXCEPT ![t] = tail[PairOf[t]]]
    /\ tail' = [tail EXCEPT ![PairOf[t]] = t]
    /\ UNCHANGED <<sessionOf, using, first, answer, pairOf, todo, answers,
                   disposed, posts, loaded>>

\* No agents, no model selected: '' at once.
Unavailable(t) ==
    /\ Goes(t, "idle", "done")
    /\ UNCHANGED <<before, tail, sessionOf, using, first, answer, pairOf, todo,
                   answers, disposed, posts, loaded>>

\* Mutant: then(run) runs only after a task that did not fail.
ReachedUnlessFailed(t) ==
    before[t] # NoTask =>
        stage[before[t]] = "done" /\ answer[before[t]] # NoTask

\* then(run, run): the task before has ended, well or not.
Reached(t) == before[t] # NoTask => stage[before[t]] = "done"

\* ensureProjectSession() finds the session of the pair or begins to open one.
RunBegins(t) ==
    LET s == sessionOf[PairOf[t]]
    IN  /\ Reached(t)
        /\ IF s # NoSession
           THEN Goes(t, "queued", "joining") /\ using' = [using EXCEPT ![t] = s]
           ELSE Goes(t, "queued", "opening") /\ UNCHANGED using
        /\ UNCHANGED <<before, tail, sessionOf, first, answer, pairOf, todo,
                       answers, disposed, posts, loaded>>

-----------------------------------------------------------------------------
(* One task *)

LocalsGone(t) ==
    /\ using' = [using EXCEPT ![t] = NoSession]
    /\ first' = [first EXCEPT ![t] = 1]

\* Any awaited call of the host may fail, the model may be unselected.
TaskFails(t) ==
    /\ stage[t] \in {"opening", "joining", "asked"}
    /\ stage' = [stage EXCEPT ![t] = "done"]
    /\ LocalsGone(t)
    /\ UNCHANGED <<before, tail, sessionOf, answer, pairOf, todo, answers,
                   disposed, posts, loaded>>

\* agents.create() returns a session ...
SessionCreated(t, s) ==
    /\ pairOf[s] = NoPair
    /\ Goes(t, "opening", "storing")
    /\ pairOf' = [pairOf EXCEPT ![s] = PairOf[t]]
    /\ using' = [using EXCEPT ![t] = s]
    /\ UNCHANGED <<before, tail, sessionOf, first, answer, todo, answers,
                   disposed, posts, loaded>>

\* ... which is stored once it is attached to its workspace.
SessionStored(t) ==
    /\ Goes(t, "storing", "joining")
    /\ sessionOf' = [sessionOf EXCEPT ![PairOf[t]] = using[t]]
    /\ UNCHANGED <<before, tail, using, first, answer, pairOf, todo, answers,
                   disposed, posts, loaded>>

\* Mutant: the request is written without waiting for the agent to be idle.
AskAtOnce(t) ==
    LET s == using[t]
    IN  /\ Goes(t, "joining", "asked")
        /\ first' = [first EXCEPT ![t] = Len(answers[s]) + 1]
        /\ todo' = [todo EXCEPT ![s] = Append(@, t)]
        /\ UNCHANGED <<before, tail, sessionOf, using, answer, pairOf, answers,
                       disposed, posts, loaded>>

\* The agent is idle: the request is written, firstSeq taken just before.
Ask(t) ==
    LET s == using[t]
    IN  /\ Goes(t, "joining", "asked")
        /\ Idle(s)
        /\ first' = [first EXCEPT ![t] = Len(answers[s]) + 1]
        /\ todo' = [todo EXCEPT ![s] = Append(@, t)]
        /\ UNCHANGED <<before, tail, sessionOf, using, answer, pairOf, answers,
                       disposed, posts, loaded>>

\* The last answer with text since firstSeq.
Collected(t) ==
    LET A == answers[using[t]]
    IN  IF Len(A) < first[t] THEN NoTask ELSE A[Len(A)]

\* The agent is idle again.
Answered(t) ==
    /\ Goes(t, "asked", "done")
    /\ Idle(using[t])
    /\ answer' = [answer EXCEPT ![t] = Collected(t)]
    /\ LocalsGone(t)
    /\ UNCHANGED <<before, tail, sessionOf, pairOf, todo, answers, disposed,
                   posts, loaded>>

-----------------------------------------------------------------------------
(* The host's agent, the human, and unloading *)

\* The next message is answered, with text or with none.
Turn(s) ==
    /\ todo[s] # <<>> /\ s \notin disposed
    /\ todo' = [todo EXCEPT ![s] = Tail(@)]
    /\ \/ answers' = [answers EXCEPT ![s] = Append(@, Head(todo[s]))]
       \/ UNCHANGED answers
    /\ UNCHANGED <<stage, before, tail, sessionOf, using, first, answer,
                   pairOf, disposed, posts, loaded>>

HumanWrites(s) ==
    /\ pairOf[s] # NoPair /\ s \notin disposed
    /\ posts < MaxPosts
    /\ posts' = posts + 1
    /\ todo' = [todo EXCEPT ![s] = Append(@, Human)]
    /\ UNCHANGED <<stage, before, tail, sessionOf, using, first, answer,
                   pairOf, answers, disposed, loaded>>

\* Mutant: the map is cleared first.
UnloadClearsFirst ==
    /\ loaded
    /\ loaded' = FALSE
    /\ sessionOf' = [p \in Pairs |-> NoSession]
    /\ tail' = [p \in Pairs |-> NoTask]
    /\ UNCHANGED <<stage, before, using, first, answer, pairOf, todo, answers,
                   disposed, posts>>

\* The cleanup effect disposes the sessions the map holds.
Unload ==
    /\ loaded
    /\ loaded' = FALSE
    /\ disposed' = disposed \cup ({sessionOf[p] : p \in Pairs} \ {NoSession})
    /\ sessionOf' = [p \in Pairs |-> NoSession]
    /\ tail' = [p \in Pairs |-> NoTask]
    /\ UNCHANGED <<stage, before, using, first, answer, pairOf, todo, answers,
                   posts>>

TaskNext(t) ==
    \/ Enqueue(t) \/ Unavailable(t) \/ RunBegins(t) \/ TaskFails(t)
    \/ \E s \in Sessions : SessionCreated(t, s)
    \/ SessionStored(t) \/ Ask(t) \/ Answered(t)

Next ==
    \/ \E t \in Tasks : TaskNext(t)
    \/ \E s \in Sessions : Turn(s) \/ HumanWrites(s)
    \/ Unload

Spec == Init /\ [][Next]_vars

\* Promise callbacks run, and whatever the host was asked for ends: the code
\* has no timeout here and relies on that.  No task is forced to fail while its
\* agent works.
Continues(t) ==
    \/ RunBegins(t) \/ SessionStored(t)
    \/ stage[t] = "opening" /\ TaskFails(t)
    \/ \E s \in Sessions : SessionCreated(t, s)
    \/ Ask(t) \/ Answered(t)

Fairness ==
    /\ \A t \in Tasks : WF_vars(Continues(t))
    /\ \A s \in Sessions : WF_vars(Turn(s))

FairSpec == Spec /\ Fairness

-----------------------------------------------------------------------------
Working(t) == stage[t] \in {"opening", "storing", "joining", "asked"}

(* "One conversation per (project, colleague) pair" (plugin.ts:389), "so     *)
(* followups on one session never overlap" (plugin.ts:149): in a loaded     *)
(* plugin at most one task of a pair works, after those it was chained      *)
(* behind, in a session of its own pair, and one session per pair exists at *)
(* most, although a task looks for it before it awaits its creation.        *)
PairIsSerial ==
    loaded =>
        /\ \A t, u \in Tasks :
              PairOf[t] = PairOf[u] /\ t # u /\ Working(t) =>
                  /\ ~Working(u)
                  /\ before[t] = u => stage[u] = "done"
        /\ \A t \in Tasks : using[t] # NoSession => pairOf[using[t]] = PairOf[t]
        /\ \A s, r \in Sessions :
              pairOf[s] = pairOf[r] /\ pairOf[s] # NoPair => s = r

(* A task never returns the answer to another task (plugin.ts:399-415),     *)
(* also when an earlier one failed and its message is answered late.  What  *)
(* a human writes into the session may be answered last.                    *)
AnswersOwnRequest ==
    loaded => \A t \in Tasks : answer[t] \in {t, Human, NoTask}

(* A colleague's requests end even if an earlier one failed: the chain goes *)
(* on in both cases (plugin.ts:418).  Requires that the host's agents end   *)
(* their turns and that the plugin stays loaded.                            *)
TaskSettles ==
    \A t \in Tasks : stage[t] = "queued" ~> stage[t] = "done" \/ ~loaded

(* "Dispose every reused project session when this node unloads"            *)
(* (plugin.ts:164): the only sessions the unloading leaves are those a task *)
(* is attaching to a workspace at that moment (plugin.ts:486-501).  Such a  *)
(* task stores its session after the map was cleared and nothing disposes   *)
(* it, so no stronger form of the comment holds.                            *)
UnloadDisposesStored ==
    [][loaded /\ ~loaded' =>
          \A s \in Sessions : pairOf[s] # NoPair =>
              \/ s \in disposed'
              \/ \E t \in Tasks : stage[t] = "storing" /\ using[t] = s]_vars

=============================================================================
