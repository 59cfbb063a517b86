-------------------------- MODULE ThreadPoolProofs --------------------------
(***************************************************************************)
(* Proofs about ThreadPool, for every number of workers and every set of   *)
(* tasks: a queue's tasks run in order and once, and the destructor leaves *)
(* none of those submitted to a running pool behind.                       *)
(***************************************************************************)
EXTENDS ThreadPool, SequenceTheorems, TLAPS

-----------------------------------------------------------------------------
(* Queues: what has run, what is in hand and what waits, put together.     *)

\* Pushing at the end of a queue puts the task at the end of the whole (Queue::push).
LEMMA AppendLast ==
    ASSUME NEW S, NEW r \in Seq(S), NEW h \in Seq(S), NEW q \in Seq(S), NEW e \in Seq(S)
    PROVE  (r \o h \o q) \o e = r \o h \o (q \o e)
<1>1. r \o h \in Seq(S)
  BY ConcatProperties
<1> QED BY <1>1, ConcatAssociative

\* A queue is its head followed by its tail.
LEMMA HeadThenTail ==
    ASSUME NEW S, NEW q \in Seq(S), q # <<>>
    PROVE  q = <<Head(q)>> \o Tail(q)
<1>1. Len(q) \in Nat \ {0} /\ 1 \in 1 .. Len(q) /\ Len(q) \in 1 .. Len(q)
  BY EmptySeq, LenProperties
<1>2. SubSeq(q, 1, Len(q)) = <<q[1]>> \o SubSeq(q, 1 + 1, Len(q))
  BY <1>1, SubSeqRecursiveFirst
<1>3. SubSeq(q, 1, Len(q)) = q
  BY <1>1
<1>4. Tail(q) = SubSeq(q, 2, Len(q)) /\ Head(q) = q[1]
  BY TailIsSubSeq
<1> QED BY <1>2, <1>3, <1>4

\* Popping moves the head of the queue into the worker's hand (Queue::tryPop).
LEMMA TakeHead ==
    ASSUME NEW S, NEW r \in Seq(S), NEW q \in Seq(S), q # <<>>
    PROVE  r \o <<>> \o q = r \o <<Head(q)>> \o Tail(q)
<1>1. Head(q) \in S /\ Tail(q) \in Seq(S) /\ <<Head(q)>> \in Seq(S)
  BY HeadTailProperties
<1>2. r \o <<>> = r
  BY ConcatEmptySeq
<1>3. r \o (<<Head(q)>> \o Tail(q)) = r \o <<Head(q)>> \o Tail(q)
  BY <1>1, ConcatAssociative
<1> QED BY <1>2, <1>3, HeadThenTail

\* The task in hand becomes the last one that has run.
LEMMA HandOver ==
    ASSUME NEW S, NEW r \in Seq(S), NEW q \in Seq(S), NEW t \in S
    PROVE  r \o <<t>> \o q = Append(r, t) \o <<>> \o q
<1>1. Append(r, t) \in Seq(S) /\ Append(r, t) = r \o <<t>>
  BY AppendIsConcat, AppendProperties
<1> QED BY <1>1, ConcatEmptySeq

\* A worker with nothing in hand and nothing queued has run all there was.
LEMMA AllRun ==
    ASSUME NEW S, NEW r \in Seq(S)
    PROVE  r \o <<>> \o <<>> = r
BY ConcatEmptySeq

-----------------------------------------------------------------------------
\* The steps of Next, but for its bound that a task is submitted once: the proofs do
\* not need it, and what is proved of these steps holds where the pool is composed
\* with a client that submits a task again (ConcurrentMarket).
Act ==
    \/ \E w \in Workers : Spawn(w) \/ Work(w)
    \/ \E w \in Workers, t \in Tasks : Submit(w, t)
    \/ \E t \in Waitable : Get(t)
    \/ SpawnFails \/ GetReturns \/ stop \/ start \/ Destroy \/ Join

-----------------------------------------------------------------------------
(* The inductive invariant.                                                *)

\* Why no due task is lost: while the flag is set every submission is due; a worker
\* ends only after it has read the flag as reset and then its queue as empty; and
\* the pool is destroyed only when every worker there was has ended.
Accounted ==
    /\ phase = "ready" => \A w \in Workers : thread[w] # "none"
    /\ phase = "destroyed" => \A w \in Workers : thread[w] \in {"none", "exited"}
    /\ phase # "terminated" =>
          \A w \in Workers :
             /\ running => due[w] = Len(submitted[w])
             /\ thread[w] \in {"drain", "exited"} => ~running
             /\ thread[w] = "exited" => due[w] <= Len(ran[w])
             /\ thread[w] = "none" => due[w] = 0
    /\ \A w \in Workers : due[w] <= Len(submitted[w])

Inv == TypeOK /\ RunsInOrder /\ Accounted

\* The invariant holds of the pool whose constructor has not started a thread.
LEMMA InitInv == ASSUME Init PROVE Inv
<1> USE PoolAssumption
<1>1. TypeOK
  BY DEF Init, TypeOK, Phases, Threads
<1>2. RunsInOrder
  BY AllRun DEF Init, RunsInOrder, InHand
<1>3. Accounted
  BY DEF Init, Accounted
<1> QED BY <1>1, <1>2, <1>3 DEF Inv

-----------------------------------------------------------------------------
\* Every step keeps the types.
LEMMA TypeStep == ASSUME TypeOK, [Act]_vars PROVE TypeOK'
<1> USE PoolAssumption
<1>1. ASSUME NEW w \in Workers, Spawn(w) PROVE TypeOK'
  BY <1>1 DEF Spawn, TypeOK, Phases, Threads, history
<1>2. CASE SpawnFails
  BY <1>2 DEF SpawnFails, TypeOK, Phases, Threads, history, workers
<1>3. ASSUME NEW w \in Workers, NEW t \in Tasks, Submit(w, t) PROVE TypeOK'
  BY <1>3 DEF Submit, TypeOK, owner
<1>4. ASSUME NEW t \in Waitable, Get(t) PROVE TypeOK'
  BY <1>4 DEF Get, TypeOK, history, workers
<1>5. CASE GetReturns
  BY <1>5 DEF GetReturns, TypeOK, history
<1>6. CASE stop \/ start \/ Destroy \/ Join
  BY <1>6 DEF stop, start, Destroy, Join, TypeOK, Phases, history, workers
<1>7. ASSUME NEW w \in Workers, Poll(w) \/ Drain(w) PROVE TypeOK'
  BY <1>7 DEF Poll, Drain, At, GoTo, TypeOK, Threads, owner, history
<1>8. ASSUME NEW w \in Workers, TryPop(w) PROVE TypeOK'
  <2>1. CASE queues[w] = <<>>
    BY <1>8, <2>1 DEF TryPop, At, GoTo, TypeOK, Threads, owner, history
  <2>2. CASE queues[w] # <<>>
    <3>1. queues[w] \in Seq(Tasks)
      BY DEF TypeOK
    <3>2. Head(queues[w]) \in Tasks /\ Tail(queues[w]) \in Seq(Tasks)
      BY <2>2, <3>1, HeadTailProperties
    <3>3. /\ task' = [task EXCEPT ![w] = Head(queues[w])]
          /\ queues' = [queues EXCEPT ![w] = Tail(queues[w])]
          /\ thread' = [thread EXCEPT ![w] = "task"]
          /\ UNCHANGED <<phase, running, getting, promise, submitted, ran, due>>
      BY <1>8, <2>2 DEF TryPop, GoTo, owner, history
    <3>4. queues' \in [Workers -> Seq(Tasks)]
      BY <3>2, <3>3 DEF TypeOK
    <3>5. task' \in [Workers -> Tasks \cup {NoTask}] /\ thread' \in [Workers -> Threads]
      BY <3>2, <3>3 DEF TypeOK, Threads
    <3>6. \A v \in Workers : (thread'[v] = "task") <=> (task'[v] # NoTask)
      BY <3>2, <3>3 DEF TypeOK
    <3> QED BY <3>3, <3>4, <3>5, <3>6 DEF TypeOK
  <2> QED BY <2>1, <2>2
<1>9. ASSUME NEW w \in Workers, RunTask(w) PROVE TypeOK'
  BY <1>9 DEF RunTask, Keep, At, GoTo, TypeOK, Threads, Phases
<1>10. CASE UNCHANGED vars
  BY <1>10 DEF vars, owner, workers, history, TypeOK
<1> QED
  BY <1>1, <1>2, <1>3, <1>4, <1>5, <1>6, <1>7, <1>8, <1>9, <1>10 DEF Act, Work

-----------------------------------------------------------------------------
\* What a step leaves of a worker's queue, hand and past, its order keeps.
LEMMA OrderStep ==
    ASSUME TypeOK, RunsInOrder, [Act]_vars
    PROVE  RunsInOrder'
<1> USE PoolAssumption
<1> DEFINE Whole(v) == submitted[v] = ran[v] \o InHand(v) \o queues[v]
<1>1. \A v \in Workers : /\ submitted[v] \in Seq(Tasks) /\ ran[v] \in Seq(Tasks)
                         /\ queues[v] \in Seq(Tasks) /\ InHand(v) \in Seq(Tasks)
                         /\ Whole(v)
  BY DEF TypeOK, InHand, RunsInOrder
<1>2. ASSUME UNCHANGED <<submitted, ran, task, queues>> PROVE RunsInOrder'
  BY <1>1, <1>2 DEF RunsInOrder, InHand
<1>3. ASSUME NEW w \in Workers, NEW t \in Tasks, Submit(w, t) PROVE RunsInOrder'
  <2> SUFFICES ASSUME NEW v \in Workers PROVE Whole(v)'
    BY DEF RunsInOrder
  <2>1. InHand(v)' = InHand(v) /\ ran'[v] = ran[v]
    BY <1>3 DEF Submit, InHand
  <2>2. CASE v # w
    <3>1. submitted'[v] = submitted[v] /\ queues'[v] = queues[v]
      BY <1>3, <2>2 DEF Submit, TypeOK
    <3> QED BY <1>1, <2>1, <3>1
  <2>3. CASE v = w
    <3>1. submitted'[v] = Append(submitted[v], t) /\ queues'[v] = Append(queues[v], t)
      BY <1>3, <2>3 DEF Submit, TypeOK
    <3>2. ran[v] \in Seq(Tasks) /\ queues[v] \in Seq(Tasks) /\ submitted[v] \in Seq(Tasks)
      BY <1>1
    <3>6. <<t>> \in Seq(Tasks)
      OBVIOUS
    <3>3. /\ Append(submitted[v], t) = submitted[v] \o <<t>>
          /\ Append(queues[v], t) = queues[v] \o <<t>>
      BY <3>2, AppendIsConcat
    <3>4. PICK h \in Seq(Tasks) : h = InHand(v)
      BY <1>1
    <3>5. (ran[v] \o h \o queues[v]) \o <<t>> = ran[v] \o h \o (queues[v] \o <<t>>)
      <4> DEFINE r == ran[v]
                 q == queues[v]
                 e == <<t>>
      <4>1. r \in Seq(Tasks) /\ h \in Seq(Tasks) /\ q \in Seq(Tasks) /\ e \in Seq(Tasks)
        BY <3>2, <3>6
      <4> HIDE PoolAssumption DEF Whole, r, q, e
      <4>2. (r \o h \o q) \o e = r \o h \o (q \o e)
        BY <4>1, AppendLast, Z3
      <4> QED BY <4>2 DEF r, q, e
    <3> QED BY <1>1, <2>1, <3>1, <3>3, <3>4, <3>5
  <2> QED BY <2>2, <2>3
<1>4. ASSUME NEW w \in Workers, TryPop(w) PROVE RunsInOrder'
  <2>1. CASE queues[w] = <<>>
    BY <1>4, <2>1, <1>2 DEF TryPop, history
  <2>2. CASE queues[w] # <<>>
    <3> SUFFICES ASSUME NEW v \in Workers PROVE Whole(v)'
      BY DEF RunsInOrder
    <3>1. submitted'[v] = submitted[v] /\ ran'[v] = ran[v]
      BY <1>4 DEF TryPop, history
    <3>2. CASE v # w
      <4>1. queues'[v] = queues[v] /\ task'[v] = task[v]
        BY <1>4, <2>2, <3>2 DEF TryPop, TypeOK
      <4> QED BY <1>1, <3>1, <4>1 DEF InHand
    <3>3. CASE v = w
      <4>1. task[v] = NoTask
        BY <1>4, <3>3 DEF TryPop, At, TypeOK
      <4>2. Head(queues[v]) \in Tasks
        BY <1>1, <2>2, <3>3, HeadTailProperties
      <4>3. queues'[v] = Tail(queues[v]) /\ task'[v] = Head(queues[v])
        BY <1>4, <2>2, <3>3 DEF TryPop, TypeOK
      <4>4. InHand(v) = <<>> /\ InHand(v)' = <<Head(queues[v])>>
        BY <4>1, <4>2, <4>3 DEF InHand
      <4>5. ran[v] \o <<>> \o queues[v] = ran[v] \o <<Head(queues[v])>> \o Tail(queues[v])
        <5> HIDE DEF Whole
        <5> QED BY <1>1, <2>2, <3>3, TakeHead
      <4> QED BY <1>1, <3>1, <4>3, <4>4, <4>5
    <3> QED BY <3>2, <3>3
  <2> QED BY <2>1, <2>2
<1>5. ASSUME NEW w \in Workers, RunTask(w) PROVE RunsInOrder'
  <2> SUFFICES ASSUME NEW v \in Workers PROVE Whole(v)'
    BY DEF RunsInOrder
  <2>1. submitted'[v] = submitted[v] /\ queues'[v] = queues[v]
    BY <1>5 DEF RunTask
  <2>2. CASE v # w
    <3>1. ran'[v] = ran[v] /\ task'[v] = task[v]
      BY <1>5, <2>2 DEF RunTask, TypeOK
    <3> QED BY <1>1, <2>1, <3>1 DEF InHand
  <2>3. CASE v = w
    <3>1. task[v] # NoTask /\ task[v] \in Tasks
      BY <1>5, <2>3 DEF RunTask, At, TypeOK
    <3>2. ran'[v] = Append(ran[v], task[v]) /\ task'[v] = NoTask
      BY <1>5, <2>3 DEF RunTask, TypeOK
    <3>3. InHand(v) = <<task[v]>> /\ InHand(v)' = <<>>
      BY <3>1, <3>2 DEF InHand
    <3>4. ran[v] \o <<task[v]>> \o queues[v] = Append(ran[v], task[v]) \o <<>> \o queues[v]
      <4>1. ran[v] \in Seq(Tasks) /\ queues[v] \in Seq(Tasks) /\ task[v] \in Tasks
        BY <1>1, <3>1
      <4> HIDE DEF Whole
      <4> QED BY <4>1, HandOver
    <3> QED BY <1>1, <2>1, <3>2, <3>3, <3>4
  <2> QED BY <2>2, <2>3
<1>6. ASSUME NEW w \in Workers, Spawn(w) \/ Poll(w) \/ Drain(w) PROVE RunsInOrder'
  BY <1>2, <1>6 DEF Spawn, Poll, Drain, history
<1>7. CASE \/ SpawnFails \/ GetReturns \/ stop \/ start \/ Destroy \/ Join \/ UNCHANGED vars
           \/ \E t \in Waitable : Get(t)
  BY <1>2, <1>7 DEF SpawnFails, GetReturns, stop, start, Destroy, Join, Get, vars, workers, history
<1> QED
  BY <1>3, <1>4, <1>5, <1>6, <1>7 DEF Act, Work

-----------------------------------------------------------------------------
\* The flag, the workers' ends and the counts stay in step.
LEMMA AccountedStep ==
    ASSUME Inv, [Act]_vars
    PROVE  Accounted'
<1> USE PoolAssumption DEF Inv
<1>1. \A v \in Workers : /\ Len(submitted[v]) \in Nat /\ Len(ran[v]) \in Nat
                         /\ due[v] \in Nat
  BY LenProperties DEF TypeOK
<1>2. ASSUME NEW w \in Workers, Spawn(w) PROVE Accounted'
  <2>1. phase' = "ready" => \A v \in Workers : thread'[v] # "none"
    BY <1>2 DEF Spawn, TypeOK, Workers
  <2> QED BY <1>2, <2>1 DEF Spawn, TypeOK, Accounted, history
<1>3. CASE SpawnFails
  BY <1>1, <1>3 DEF SpawnFails, Accounted, workers, history
<1>4. ASSUME NEW w \in Workers, NEW t \in Tasks, Submit(w, t) PROVE Accounted'
  <2>1. /\ Len(Append(submitted[w], t)) = Len(submitted[w]) + 1
        /\ submitted' = [submitted EXCEPT ![w] = Append(@, t)]
    BY <1>4, AppendProperties DEF Submit, TypeOK
  <2>2. \A v \in Workers :
            Len(submitted'[v]) = IF v = w THEN Len(submitted[v]) + 1 ELSE Len(submitted[v])
    BY <2>1 DEF TypeOK
  <2>3. \A v \in Workers :
            due'[v] = IF v = w /\ running THEN due[v] + 1 ELSE due[v]
    BY <1>4 DEF Submit, TypeOK
  <2>4. phase = "ready" /\ UNCHANGED <<phase, running, thread, ran>>
    BY <1>4 DEF Submit, OwnerFree, owner
  <2> QED BY <1>1, <2>2, <2>3, <2>4 DEF Accounted
<1>5. CASE GetReturns \/ \E t \in Waitable : Get(t)
  BY <1>5 DEF GetReturns, Get, Accounted, workers, history
<1>6. CASE stop \/ start \/ Destroy
  BY <1>1, <1>6 DEF stop, start, Destroy, OwnerFree, Accounted, workers, history
<1>7. CASE Join
  BY <1>7 DEF Join, Accounted, workers, history
<1>8. ASSUME NEW w \in Workers, Poll(w) PROVE Accounted'
  BY <1>8 DEF Poll, At, GoTo, TypeOK, Accounted, owner, history
<1>9. ASSUME NEW w \in Workers, Drain(w) PROVE Accounted'
  <2>1. queues[w] = <<>> => submitted[w] = ran[w]
    <3>1. task[w] = NoTask
      BY <1>9 DEF Drain, At, TypeOK
    <3>2. ran[w] \o <<>> \o <<>> = ran[w]
      BY AllRun DEF TypeOK
    <3> QED BY <3>1, <3>2 DEF RunsInOrder, InHand
  <2> QED BY <1>9, <2>1 DEF Drain, At, GoTo, TypeOK, Accounted, owner, history
<1>10. ASSUME NEW w \in Workers, TryPop(w) PROVE Accounted'
  BY <1>10 DEF TryPop, At, GoTo, TypeOK, Accounted, owner, history
<1>11. ASSUME NEW w \in Workers, RunTask(w) PROVE Accounted'
  <2>1. \A v \in Workers : Len(ran[v]) <= Len(ran'[v])
    <3>1. task[w] \in Tasks
      BY <1>11 DEF RunTask, At, TypeOK
    <3>2. Len(Append(ran[w], task[w])) = Len(ran[w]) + 1
      BY <3>1, AppendProperties DEF TypeOK
    <3> QED BY <1>1, <1>11, <3>2 DEF RunTask, TypeOK
  <2>2. \A v \in Workers : Len(ran'[v]) \in Nat
    <3>1. TypeOK'
      BY TypeStep
    <3> QED BY <3>1, LenProperties DEF TypeOK
  <2>3. /\ thread[w] = "task" /\ thread' = [thread EXCEPT ![w] = "poll"]
        /\ phase # "terminated"
        /\ phase' \in {phase, "terminated"}
        /\ UNCHANGED <<running, submitted, due>>
    BY <1>11 DEF RunTask, At, GoTo
  <2> QED BY <1>1, <2>1, <2>2, <2>3 DEF TypeOK, Accounted
<1>12. CASE UNCHANGED vars
  BY <1>12 DEF vars, owner, workers, history, Accounted
<1> QED
  BY <1>2, <1>3, <1>4, <1>5, <1>6, <1>7, <1>8, <1>9, <1>10, <1>11, <1>12 DEF Act, Work

-----------------------------------------------------------------------------
\* Inv holds in every reachable state of the pool.
THEOREM PoolInvariance == Spec => []Inv
<1>1. [Next]_vars => [Act]_vars
  BY DEF Next, Act
<1>2. Inv /\ [Next]_vars => Inv'
  BY <1>1, TypeStep, OrderStep, AccountedStep DEF Inv
<1> QED BY <1>2, InitInv, PTL DEF Spec

\* Every variable of the pool keeps its type, and a worker holds a task exactly
\* while it runs one.
THEOREM PoolTypeCorrect == Spec => []TypeOK
<1>1. Inv => TypeOK
  BY DEF Inv
<1> QED BY <1>1, PoolInvariance, PTL

\* Between push() and the call no task is lost, repeated or overtaken, whatever the
\* owner does with the pool.
THEOREM PoolRunsInOrder == Spec => []RunsInOrder
<1>1. Inv => RunsInOrder
  BY DEF Inv
<1> QED BY <1>1, PoolInvariance, PTL

\* When the destructor has returned, every task submitted to the running pool has
\* run: the worker's loop reads the flag before the queue.
THEOREM PoolDrained == Spec => []DestroyedDrained
<1>1. Inv => DestroyedDrained
  <2> SUFFICES ASSUME Inv, phase = "destroyed", NEW w \in Workers
               PROVE  due[w] <= Len(ran[w])
    BY DEF DestroyedDrained
  <2>1. Len(ran[w]) \in Nat
    BY LenProperties DEF Inv, TypeOK
  <2> QED BY <2>1 DEF Inv, Accounted
<1> QED BY <1>1, PoolInvariance, PTL
=============================================================================
