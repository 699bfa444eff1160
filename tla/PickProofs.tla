----------------------------- MODULE PickProofs -----------------------------
(***************************************************************************)
(* For any number of threads: children that wait for each other's pipes    *)
(* wait for ever.  A thread of the ring is past its fork and does not open *)
(* new pipes before its child is gone, and the children that keep the      *)
(* pipes open are in the ring themselves.                                  *)
(***************************************************************************)
EXTENDS Pick, TLAPS

\* A thread that is about to make its pipes or to fork, or is done, has no
\* running child.
ChildWithinAttempt ==
    \A t \in Threads : pc[t] \in {"start", "fork", "done"} => child[t] \in {"none", "exited"}

IInv == TypeOK /\ ChildWithinAttempt

\* A failed attempt leaves the thread's variables well typed: it tries again
\* or gives up.
LEMMA FailedType ==
    ASSUME TypeOK, NEW t \in Threads, Failed(t)
    PROVE  /\ pc' \in [Threads -> {"start", "fork", "close", "write", "read", "done"}]
           /\ attempt' \in [Threads -> 0..kHttpRetryMax]
           /\ pick' \in [Threads -> {"none", "first", "model"}]
           /\ pc'[t] \in {"start", "done"}
           /\ \A u \in Threads \ {t} : pc'[u] = pc[u]
<1>1. CASE MayRetry(t)
    BY <1>1, RetryMaxAssumption DEF Failed, MayRetry, TypeOK
<1>2. CASE ~MayRetry(t)
    BY <1>2 DEF Failed, TypeOK
<1>3. QED BY <1>1, <1>2

\* The strengthened invariant is inductive.
LEMMA IInvStep == IInv /\ [Next]_vars => IInv'
<1> SUFFICES ASSUME IInv, [Next]_vars PROVE IInv'
    OBVIOUS
<1> USE DEF IInv
<1> DEFINE Ends == Threads \X {"in", "out"}
<1>0. ASSUME NEW t \in Threads PROVE In(t) \in Ends /\ Out(t) \in Ends
    BY DEF In, Out
<1>1. ASSUME NEW t \in Threads, OpenPipes(t) PROVE IInv'
    <2>1. TypeOK' BY <1>1, <1>0 DEF OpenPipes, TypeOK
    <2>2. ChildWithinAttempt' BY <1>1 DEF OpenPipes, TypeOK, ChildWithinAttempt
    <2>3. QED BY <2>1, <2>2
<1>2. ASSUME NEW t \in Threads, PipesFail(t) PROVE IInv'
    <2>1. TypeOK' BY <1>2, FailedType DEF PipesFail, childVars, TypeOK
    <2>2. ChildWithinAttempt' BY <1>2, FailedType DEF PipesFail, childVars, ChildWithinAttempt
    <2>3. QED BY <2>1, <2>2
<1>3. ASSUME NEW t \in Threads, Fork(t) PROVE IInv'
    <2>1. Inherited(t) \in SUBSET Ends BY DEF Inherited, TypeOK
    <2>2. TypeOK' BY <1>3, <2>1 DEF Fork, TypeOK
    <2>3. ChildWithinAttempt' BY <1>3 DEF Fork, TypeOK, ChildWithinAttempt
    <2>4. QED BY <2>2, <2>3
<1>4. ASSUME NEW t \in Threads, ForkFails(t) PROVE IInv'
    <2>1. TypeOK' BY <1>4, FailedType DEF ForkFails, childVars, TypeOK
    <2>2. ChildWithinAttempt' BY <1>4, FailedType DEF ForkFails, childVars, ChildWithinAttempt
    <2>3. QED BY <2>1, <2>2
<1>5. ASSUME NEW t \in Threads, CloseChildEnds(t) PROVE IInv'
    BY <1>5 DEF CloseChildEnds, childVars, TypeOK, ChildWithinAttempt
<1>6. ASSUME NEW t \in Threads, WriteBody(t) PROVE IInv'
    <2>1. TypeOK'
        <3>1. wrote' \in [Threads -> BOOLEAN] BY <1>6 DEF WriteBody, TypeOK
        <3>2. QED BY <1>6, <3>1 DEF WriteBody, childVars, TypeOK
    <2>2. ChildWithinAttempt' BY <1>6 DEF WriteBody, childVars, TypeOK, ChildWithinAttempt
    <2>3. QED BY <2>1, <2>2
<1>7. ASSUME NEW t \in Threads, Collect(t) PROVE IInv'
    <2>1. CASE wrote[t] /\ answer[t] # "retry"
        BY <1>7, <2>1 DEF Collect, childVars, TypeOK, ChildWithinAttempt
    <2>2. CASE ~(wrote[t] /\ answer[t] # "retry")
        <3>1. Failed(t) BY <1>7, <2>2 DEF Collect
        <3>2. TypeOK' BY <1>7, <3>1, FailedType DEF Collect, childVars, TypeOK
        <3>3. ChildWithinAttempt'
            BY <1>7, <3>1, FailedType DEF Collect, childVars, ChildWithinAttempt
        <3>4. QED BY <3>2, <3>3
    <2>3. QED BY <2>1, <2>2
<1>8. ASSUME NEW t \in Threads, Exec(t) PROVE IInv'
    BY <1>8 DEF Exec, threadVars, TypeOK, ChildWithinAttempt
<1>9. ASSUME NEW t \in Threads, NEW a \in {"ok", "retry", "fatal"}, Exit(t, a) PROVE IInv'
    BY <1>9 DEF Exit, threadVars, TypeOK, ChildWithinAttempt
<1>10. ASSUME NEW t \in Threads, ReadBody(t) PROVE IInv'
    BY <1>10 DEF ReadBody, threadVars, TypeOK, ChildWithinAttempt
<1>11. CASE UNCHANGED vars
    BY <1>11 DEF vars, threadVars, childVars, TypeOK, ChildWithinAttempt
<1>12. QED
    BY <1>1, <1>2, <1>3, <1>4, <1>5, <1>6, <1>7, <1>8, <1>9, <1>10, <1>11
       DEF Next, ThreadStep, ChildStep, ExecFails, Answer

LEMMA IInvHolds == Spec => []IInv
<1>1. Init => IInv
    BY RetryMaxAssumption DEF Init, IInv, TypeOK, ChildWithinAttempt
<1>2. QED BY <1>1, IInvStep, PTL DEF Spec

\* Every reachable state is well typed; in particular no pick makes more
\* attempts than http_post allows.
THEOREM TypeCorrect == Spec => []TypeOK
<1>1. IInv => TypeOK BY DEF IInv
<1>2. QED BY <1>1, IInvHolds, PTL

\* Children in a ring keep waiting whatever the server, the other children or
\* the network do.
LEMMA RingStep ==
    ASSUME IInv, [Next]_vars, NEW S \in SUBSET Threads, WaitInARing(S)
    PROVE  WaitInARing(S)'
<1> SUFFICES ASSUME NEW t \in S
             PROVE  child'[t] = "reading" /\ \E u \in S \ {t} : In(t) \in held'[u]
    BY DEF WaitInARing
<1>1. child[t] = "reading" /\ t \in Threads
    BY DEF WaitInARing
<1>2. PICK u \in S \ {t} : In(t) \in held[u]
    BY DEF WaitInARing
<1>3. child[u] = "reading" /\ u \in Threads
    BY DEF WaitInARing
<1>4. ~AtEnd(In(t)) /\ ~AtEnd(In(u))
    BY <1>2, <1>3 DEF AtEnd, WaitInARing
<1>5. pc[t] \notin {"start", "fork"} /\ pc[u] \notin {"start", "fork"}
    BY <1>1, <1>3 DEF IInv, ChildWithinAttempt
<1>6. ASSUME NEW s \in Threads, ThreadStep(s)
      PROVE  child'[t] = "reading" /\ In(t) \in held'[u]
    <2>1. CASE OpenPipes(s)
        <3>1. s # t /\ s # u BY <1>5, <2>1 DEF OpenPipes
        <3>2. In(t) # In(s) /\ In(t) # Out(s) BY <3>1 DEF In, Out
        <3>3. QED BY <1>1, <1>2, <1>3, <2>1, <3>1, <3>2 DEF OpenPipes, IInv, TypeOK
    <2>2. CASE Fork(s)
        <3>1. s # t /\ s # u BY <1>5, <2>2 DEF Fork
        <3>2. QED BY <1>1, <1>2, <1>3, <2>2, <3>1 DEF Fork, IInv, TypeOK
    <2>3. CASE PipesFail(s) \/ ForkFails(s) \/ CloseChildEnds(s) \/ WriteBody(s) \/ Collect(s)
        BY <1>1, <1>2, <2>3
           DEF PipesFail, ForkFails, CloseChildEnds, WriteBody, Collect, childVars
    <2>4. QED BY <1>6, <2>1, <2>2, <2>3 DEF ThreadStep
<1>7. ASSUME NEW s \in Threads, ChildStep(s)
      PROVE  child'[t] = "reading" /\ In(t) \in held'[u]
    <2>1. s # t /\ s # u
        BY <1>1, <1>3, <1>4, <1>7
           DEF ChildStep, Exec, ExecFails, ReadBody, Answer
    <2>2. QED
        BY <1>1, <1>2, <1>3, <1>7, <2>1
           DEF ChildStep, Exec, ExecFails, ReadBody, Answer, Exit, IInv, TypeOK
<1>8. CASE UNCHANGED vars
    BY <1>1, <1>2, <1>8 DEF vars, childVars
<1>9. QED BY <1>6, <1>7, <1>8 DEF Next

\* Once children wait in a ring, their threads never return (http_post_once
\* blocks in read_all), and the rooms that wait for these packs are stuck.
THEOREM RingsNeverResolve == Spec => CrossedForever
<1>1. IInv /\ [Next]_vars => [\A S \in SUBSET Threads : WaitInARing(S) => WaitInARing(S)']_vars
    BY RingStep
<1>2. QED BY <1>1, IInvHolds, PTL DEF Spec, CrossedForever

=============================================================================
