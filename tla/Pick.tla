-------------------------------- MODULE Pick --------------------------------
(***************************************************************************)
(* The threads that pick packs, several at once: each asks the model       *)
(* through a curl child of its own (http_post_once), with a pipe to the    *)
(* child's standard input and one from its standard output, and asks again *)
(* after some failures (http_post); DealEval::pick falls back to the first *)
(* pack.  The pipes are not closed on exec: a child inherits every end the *)
(* server has open when it forks, those of other threads' pipes too.       *)
(*                                                                         *)
(* Only write ends matter here: a reader sees the end of a pipe when no    *)
(* process has its write end open.                                         *)
(***************************************************************************)
EXTENDS Integers, FiniteSets

CONSTANTS
    Threads,        \* threads that pick at the same time
    kHttpRetryMax

ASSUME RetryMaxAssumption == kHttpRetryMax \in Nat

VARIABLES
    pc,         \* where each thread is in http_post_once, or "done"
    attempt,    \* its attempts so far that failed
    wrote,      \* whether its request went into the pipe
    pick,       \* the pack it returns: "none" yet, "first" or "model"
    open,       \* the write ends the server has open: <<thread, "in" or "out">>
    child,      \* its child: "none", "forked", "reading", "asking" or "exited"
    held,       \* the write ends its child has open
    answer      \* how its last child ended: "none", "ok", "retry" or "fatal"

threadVars == <<pc, attempt, wrote, pick>>
childVars  == <<child, held, answer>>
vars == <<threadVars, open, childVars>>

In(t)  == <<t, "in">>       \* in_pipe[1]
Out(t) == <<t, "out">>      \* out_pipe[1]

Init ==
    /\ pc = [t \in Threads |-> "start"]
    /\ attempt = [t \in Threads |-> 0]
    /\ wrote = [t \in Threads |-> FALSE]
    /\ pick = [t \in Threads |-> "none"]
    /\ open = {}
    /\ child = [t \in Threads |-> "none"]
    /\ held = [t \in Threads |-> {}]
    /\ answer = [t \in Threads |-> "none"]

-----------------------------------------------------------------------------
(* The thread *)

\* One attempt more than there should be.
MayRetry_OneMore(t) == attempt[t] <= kHttpRetryMax
MayRetry(t) == attempt[t] < kHttpRetryMax

\* A failed attempt, in the loop of http_post.  The last one gives up.
Failed(t) ==
    IF MayRetry(t)
    THEN pc' = [pc EXCEPT ![t] = "start"] /\ attempt' = [attempt EXCEPT ![t] = @ + 1]
                                          /\ UNCHANGED pick
    ELSE pc' = [pc EXCEPT ![t] = "done"] /\ pick' = [pick EXCEPT ![t] = "first"]
                                         /\ UNCHANGED attempt

\* New pipes: whoever still has an end of the old ones disturbs nobody.
OpenPipes(t) ==
    /\ pc[t] = "start"
    /\ pc' = [pc EXCEPT ![t] = "fork"]
    /\ open' = open \cup {In(t), Out(t)}
    /\ held' = [u \in Threads |-> held[u] \ {In(t), Out(t)}]
    /\ child' = [child EXCEPT ![t] = "none"]
    /\ answer' = [answer EXCEPT ![t] = "none"]
    /\ UNCHANGED <<attempt, wrote, pick>>

PipesFail(t) ==
    /\ pc[t] = "start"
    /\ Failed(t)
    /\ UNCHANGED <<wrote, open, childVars>>

\* The child keeps its own copy of In(t) open.
Inherited_OwnInputToo(t) == open

\* The child closes its own copy of In(t), and no other end.
Inherited(t) == open \ {In(t)}

Fork(t) ==
    /\ pc[t] = "fork"
    /\ pc' = [pc EXCEPT ![t] = "close"]
    /\ child' = [child EXCEPT ![t] = "forked"]
    /\ held' = [held EXCEPT ![t] = Inherited(t)]
    /\ UNCHANGED <<attempt, wrote, pick, open, answer>>

ForkFails(t) ==
    /\ pc[t] = "fork"
    /\ open' = open \ {In(t), Out(t)}
    /\ Failed(t)
    /\ UNCHANGED <<wrote, childVars>>

CloseChildEnds(t) ==
    /\ pc[t] = "close"
    /\ pc' = [pc EXCEPT ![t] = "write"]
    /\ open' = open \ {Out(t)}
    /\ UNCHANGED <<attempt, wrote, pick, childVars>>

\* write_all fails when the child is gone already; then the server's end is closed.
WriteBody(t) ==
    /\ pc[t] = "write"
    /\ pc' = [pc EXCEPT ![t] = "read"]
    /\ wrote' = [wrote EXCEPT ![t] = child[t] # "exited"]
    /\ open' = open \ {In(t)}
    /\ UNCHANGED <<attempt, pick, childVars>>

\* Children close what they inherit when they start curl.
AtEnd_CloseOnExec(e) == e \notin open

\* Nobody has the write end e open.
AtEnd(e) == e \notin open /\ \A u \in Threads : e \notin held[u]

\* read_all and waitpid: the child's output ends when it has exited.
Collect(t) ==
    /\ pc[t] = "read"
    /\ AtEnd(Out(t)) /\ child[t] = "exited"
    /\ IF wrote[t] /\ answer[t] # "retry"
       THEN /\ pc' = [pc EXCEPT ![t] = "done"]
            /\ \E p \in {"first", "model"} :    \* parse_pick may find no number
                 /\ p = "model" => answer[t] = "ok"
                 /\ pick' = [pick EXCEPT ![t] = p]
            /\ UNCHANGED attempt
       ELSE Failed(t)
    /\ UNCHANGED <<wrote, open, childVars>>

-----------------------------------------------------------------------------
(* The child, seen through its file descriptors (external: curl) *)

Exec(t) ==
    /\ child[t] = "forked"
    /\ child' = [child EXCEPT ![t] = "reading"]
    /\ UNCHANGED <<threadVars, open, held, answer>>

\* The child exits, which closes all it has open.
Exit(t, a) ==
    /\ child' = [child EXCEPT ![t] = "exited"]
    /\ held' = [held EXCEPT ![t] = {}]
    /\ answer' = [answer EXCEPT ![t] = a]
    /\ UNCHANGED <<threadVars, open>>

ExecFails(t) == child[t] = "forked" /\ Exit(t, "retry")

\* --data-binary @-: curl reads all its input before it connects, and only
\* then does its time limit (-m) run.
ReadBody(t) ==
    /\ child[t] = "reading"
    /\ AtEnd(In(t))
    /\ child' = [child EXCEPT ![t] = "asking"]
    /\ UNCHANGED <<threadVars, open, held, answer>>

Answer(t) ==
    /\ child[t] = "asking"
    /\ \E a \in {"ok", "retry", "fatal"} : Exit(t, a)

-----------------------------------------------------------------------------
ThreadStep(t) ==
    \/ OpenPipes(t) \/ PipesFail(t)
    \/ Fork(t) \/ ForkFails(t)
    \/ CloseChildEnds(t) \/ WriteBody(t) \/ Collect(t)

ChildStep(t) == Exec(t) \/ ExecFails(t) \/ ReadBody(t) \/ Answer(t)

Next == \E t \in Threads : ThreadStep(t) \/ ChildStep(t)

\* The system runs every thread and every child; nothing else is assumed.
Fairness == \A t \in Threads : WF_vars(ThreadStep(t)) /\ WF_vars(ChildStep(t))

Spec == Init /\ [][Next]_vars

FairSpec == Spec /\ Fairness

-----------------------------------------------------------------------------
(* Properties *)

TypeOK ==
    /\ pc \in [Threads -> {"start", "fork", "close", "write", "read", "done"}]
    /\ attempt \in [Threads -> 0..kHttpRetryMax]
    /\ wrote \in [Threads -> BOOLEAN]
    /\ pick \in [Threads -> {"none", "first", "model"}]
    /\ open \subseteq Threads \X {"in", "out"}
    /\ child \in [Threads -> {"none", "forked", "reading", "asking", "exited"}]
    /\ held \in [Threads -> SUBSET (Threads \X {"in", "out"})]
    /\ answer \in [Threads -> {"none", "ok", "retry", "fatal"}]

\* The children in S all wait for the end of their input, and each for another
\* one of S, which keeps it open.
WaitInARing(S) ==
    /\ S # {}
    /\ \A t \in S : child[t] = "reading" /\ \E u \in S \ {t} : In(t) \in held[u]

Crossed == \E S \in SUBSET Threads : WaitInARing(S)

\* A pick that is not done yet is stuck for good only behind children that wait
\* in a ring: no other order of forks, closes, failures and answers loses it.
ReturnsUnlessCrossed == <>Crossed \/ \A t \in Threads : <>(pc[t] = "done")

\* Children that wait in a ring stay there: nothing the server does frees them.
CrossedForever == [][\A S \in SUBSET Threads : WaitInARing(S) => WaitInARing(S)']_vars

\* What deal_eval.h promises: a pick returns a pack, the first one if the
\* service fails.
PickReturns == \A t \in Threads : <>(pc[t] = "done")

=============================================================================
