---------------------------- MODULE QueueProofs ----------------------------
(***************************************************************************)
(* For any threads: the queue gives its elements out once each and in      *)
(* order, and no thread is left waiting beside an element nobody comes for.*)
(***************************************************************************)
EXTENDS Queue, FiniteSetTheorems, SequenceTheorems, TLAPS

\* Where a thread holds the mutex.
Inside == {"locked", "notify", "popping"}

\* Who is inside holds the mutex, so that no two threads are (queue.h:21-63).
MutexHeld ==
    \A t \in Threads : pc[t] \in Inside <=> m = t

\* A thread pushes in push() and waits and takes in the two functions that do.
OpFits ==
    \A t \in Threads :
        /\ pc[t] = "notify" => op[t] = "push"
        /\ pc[t] = "waiting" => op[t] = "waitAndPop"
        /\ pc[t] = "popping" => op[t] \in {"waitAndPop", "tryPop"}
        /\ pc[t] # "idle" => calls[t] \in 1 .. MaxCalls

IInv == TypeOK /\ MutexHeld /\ OpFits /\ TakenInOrder /\ NoLostWakeup


-----------------------------------------------------------------------------
(* Counting threads.                                                       *)

\* A set of threads is finite, and its size a number (queue.h:35, whom a wait concerns).
LEMMA ThreadSets ==
    ASSUME NEW S \in SUBSET Threads
    PROVE  IsFiniteSet(S) /\ Cardinality(S) \in Nat
BY QueueAssumption, FS_Subset, FS_CardinalityType

\* A set of threads that contains another is at least as large.
LEMMA MoreThreads ==
    ASSUME NEW S \in SUBSET Threads, NEW T \in SUBSET S
    PROVE  Cardinality(T) <= Cardinality(S)
BY ThreadSets, FS_Subset

\* One thread joins the set.
LEMMA OneThreadMore ==
    ASSUME NEW S \in SUBSET Threads, NEW t \in Threads, t \notin S
    PROVE  Cardinality(S \cup {t}) = Cardinality(S) + 1
BY ThreadSets, FS_AddElement

\* One thread leaves the set.
LEMMA OneThreadLess ==
    ASSUME NEW S \in SUBSET Threads, NEW t \in S
    PROVE  Cardinality(S \ {t}) = Cardinality(S) - 1
BY ThreadSets, FS_RemoveElement

-----------------------------------------------------------------------------
(* The invariant.                                                          *)

\* A queue nobody has used is in order (queue.h:17).
LEMMA InitIInv == Init => IInv
<1> SUFFICES ASSUME Init PROVE IInv
    OBVIOUS
<1>1. TypeOK
    BY QueueAssumption DEF Init, TypeOK, Locations, Operations
<1>2. MutexHeld /\ OpFits
    BY QueueAssumption DEF Init, MutexHeld, OpFits, Inside
<1>3. TakenInOrder
    BY DEF Init, TakenInOrder
<1>4. NoLostWakeup
    BY DEF Init, NoLostWakeup, Waiting
<1> QED BY <1>1, <1>2, <1>3, <1>4 DEF IInv

\* Types are kept by every step (queue.h:25-65).
LEMMA TypeStep ==
    ASSUME IInv, [Next]_vars
    PROVE  TypeOK'
<1> USE DEF IInv, TypeOK, Locations, Operations, Elements
<1>1. ASSUME NEW t \in Threads, NEW o \in Operations, Call(t, o) PROVE TypeOK'
    BY <1>1, QueueAssumption DEF Call
<1>2. ASSUME NEW t \in Threads, Lock(t) PROVE TypeOK'
    BY <1>2 DEF Lock
<1>3. ASSUME NEW t \in Threads, Push(t) PROVE TypeOK'
    <2>1. <<t, calls[t]>> \in Elements
        BY <1>3 DEF Push, Runs, OpFits
    <2> QED BY <1>3, <2>1 DEF Push
<1>4. ASSUME NEW t \in Threads, NotifyOne(t) PROVE TypeOK'
    BY <1>4 DEF NotifyOne, Notified, Waiting
<1>5. ASSUME NEW t \in Threads, Front(t) PROVE TypeOK'
    BY <1>5 DEF Front
<1>6. ASSUME NEW t \in Threads, Pop(t) PROVE TypeOK'
    <2>1. queue # <<>> /\ data[t] = Head(queue)
        BY <1>6 DEF Pop, TakenInOrder
    <2>2. Tail(queue) \in Seq(Elements) /\ data[t] \in Elements
        BY <2>1
    <2>3. Append(taken, data[t]) \in Seq(Elements)
        BY <2>2
    <2> QED BY <1>6, <2>2, <2>3 DEF Pop, Return
<1>7. ASSUME NEW t \in Threads, Wait(t) PROVE TypeOK'
    BY <1>7 DEF Wait
<1>8. ASSUME NEW t \in Threads, ReturnAtOnce(t) PROVE TypeOK'
    BY <1>8 DEF ReturnAtOnce, Return
<1>9. ASSUME NEW t \in Threads, SpuriousWakeup(t) PROVE TypeOK'
    BY <1>9, QueueAssumption DEF SpuriousWakeup
<1>10. CASE UNCHANGED vars
    BY <1>10 DEF vars
<1> QED
    BY <1>1, <1>2, <1>3, <1>4, <1>5, <1>6, <1>7, <1>8, <1>9, <1>10 DEF Next, Proceed

\* Nobody comes inside while another thread is, and who leaves frees the mutex
\* (queue.h:21, 27, 34-35, 43, 53, 63).
LEMMA MutexStep ==
    ASSUME IInv, [Next]_vars
    PROVE  MutexHeld'
<1> USE QueueAssumption DEF IInv, TypeOK, MutexHeld, Inside
<1>1. ASSUME NEW t \in Threads, NEW o \in Operations, Call(t, o) PROVE MutexHeld'
    BY <1>1 DEF Call
<1>2. ASSUME NEW t \in Threads, Lock(t) PROVE MutexHeld'
    BY <1>2 DEF Lock, Free
<1>3. ASSUME NEW t \in Threads, Push(t) PROVE MutexHeld'
    BY <1>3 DEF Push, Runs
<1>4. ASSUME NEW t \in Threads, NotifyOne(t) PROVE MutexHeld'
    BY <1>4 DEF NotifyOne, Notified, Waiting
<1>5. ASSUME NEW t \in Threads, Front(t) PROVE MutexHeld'
    BY <1>5 DEF Front, Runs
<1>6. ASSUME NEW t \in Threads, Pop(t) PROVE MutexHeld'
    BY <1>6 DEF Pop, Return
<1>7. ASSUME NEW t \in Threads, Wait(t) PROVE MutexHeld'
    BY <1>7 DEF Wait, Runs
<1>8. ASSUME NEW t \in Threads, ReturnAtOnce(t) PROVE MutexHeld'
    BY <1>8 DEF ReturnAtOnce, Return, Runs
<1>9. ASSUME NEW t \in Threads, SpuriousWakeup(t) PROVE MutexHeld'
    BY <1>9 DEF SpuriousWakeup
<1>10. CASE UNCHANGED vars
    BY <1>10 DEF vars
<1> QED
    BY <1>1, <1>2, <1>3, <1>4, <1>5, <1>6, <1>7, <1>8, <1>9, <1>10 DEF Next, Proceed

\* Where a thread is and what it does there go together (queue.h:25-65).
LEMMA OpStep ==
    ASSUME IInv, [Next]_vars
    PROVE  OpFits'
<1> USE QueueAssumption DEF IInv, TypeOK, OpFits
<1>1. ASSUME NEW t \in Threads, NEW o \in Operations, Call(t, o) PROVE OpFits'
    BY <1>1 DEF Call
<1>2. ASSUME NEW t \in Threads, Lock(t) PROVE OpFits'
    BY <1>2 DEF Lock
<1>3. ASSUME NEW t \in Threads, Push(t) PROVE OpFits'
    BY <1>3 DEF Push, Runs
<1>4. ASSUME NEW t \in Threads, NotifyOne(t) PROVE OpFits'
    BY <1>4 DEF NotifyOne, Notified, Waiting
<1>5. ASSUME NEW t \in Threads, Front(t) PROVE OpFits'
    BY <1>5 DEF Front, Runs
<1>6. ASSUME NEW t \in Threads, Pop(t) PROVE OpFits'
    BY <1>6 DEF Pop, Return
<1>7. ASSUME NEW t \in Threads, Wait(t) PROVE OpFits'
    BY <1>7 DEF Wait, Runs
<1>8. ASSUME NEW t \in Threads, ReturnAtOnce(t) PROVE OpFits'
    BY <1>8 DEF ReturnAtOnce, Return, Runs
<1>9. ASSUME NEW t \in Threads, SpuriousWakeup(t) PROVE OpFits'
    BY <1>9 DEF SpuriousWakeup
<1>10. CASE UNCHANGED vars
    BY <1>10 DEF vars
<1> QED
    BY <1>1, <1>2, <1>3, <1>4, <1>5, <1>6, <1>7, <1>8, <1>9, <1>10 DEF Next, Proceed

\* What moves an element keeps the order; nobody else is between front() and pop()
\* when it does (queue.h:28, 36-37, 46-47, 56-57).
LEMMA OrderStep ==
    ASSUME IInv, [Next]_vars
    PROVE  TakenInOrder'
<1> USE DEF IInv, TypeOK, TakenInOrder
<1>1. ASSUME NEW t \in Threads, NEW o \in Operations, Call(t, o) PROVE TakenInOrder'
    BY <1>1 DEF Call
<1>2. ASSUME NEW t \in Threads, Lock(t) PROVE TakenInOrder'
    BY <1>2 DEF Lock
<1>3. ASSUME NEW t \in Threads, Push(t) PROVE TakenInOrder'
    <2> DEFINE e == <<t, calls[t]>>
    <2>1. e \in Elements
        BY <1>3 DEF Push, Runs, OpFits, Elements
    <2> HIDE DEF e
    <2>2. Append(taken \o queue, e) = taken \o Append(queue, e)
        <3>1. Append(queue, e) = queue \o <<e>> /\ Append(taken \o queue, e) = (taken \o queue) \o <<e>>
            BY <2>1, AppendIsConcat
        <3> QED BY <3>1, <2>1, ConcatAssociative
    <2>3. pushed' = taken' \o queue'
        BY <1>3, <2>2 DEF Push, e
    <2>4. \A s \in Threads : pc'[s] # "popping"
        BY <1>3 DEF Push, Runs, MutexHeld, Inside
    <2> QED BY <2>3, <2>4
<1>4. ASSUME NEW t \in Threads, NotifyOne(t) PROVE TakenInOrder'
    BY <1>4 DEF NotifyOne, Notified, Waiting
<1>5. ASSUME NEW t \in Threads, Front(t) PROVE TakenInOrder'
    BY <1>5 DEF Front
<1>6. ASSUME NEW t \in Threads, Pop(t) PROVE TakenInOrder'
    <2>1. queue # <<>> /\ data[t] = Head(queue)
        BY <1>6 DEF Pop
    <2>2. queue = <<Head(queue)>> \o Tail(queue) /\ Head(queue) \in Elements
          /\ Tail(queue) \in Seq(Elements)
        BY <2>1, HeadTailProperties
    <2> DEFINE e == Head(queue)
    <2> DEFINE r == Tail(queue)
    <2>3. e \in Elements /\ r \in Seq(Elements) /\ queue = <<e>> \o r
        BY <2>2
    <2>4. queue' = r /\ taken' = Append(taken, e) /\ UNCHANGED pushed
        BY <1>6, <2>1 DEF Pop
    <2> HIDE DEF e, r
    <2>5. Append(taken, e) \o r = taken \o (<<e>> \o r)
        <3>1. Append(taken, e) = taken \o <<e>>
            BY <2>3, AppendIsConcat
        <3> QED BY <3>1, <2>3, ConcatAssociative
    <2>6. pushed' = taken' \o queue'
        BY <2>3, <2>4, <2>5
    <2>7. \A s \in Threads : pc'[s] # "popping"
        BY <1>6 DEF Pop, Return, MutexHeld, Inside
    <2> QED BY <2>6, <2>7
<1>7. ASSUME NEW t \in Threads, Wait(t) PROVE TakenInOrder'
    BY <1>7 DEF Wait
<1>8. ASSUME NEW t \in Threads, ReturnAtOnce(t) PROVE TakenInOrder'
    BY <1>8 DEF ReturnAtOnce, Return
<1>9. ASSUME NEW t \in Threads, SpuriousWakeup(t) PROVE TakenInOrder'
    BY <1>9 DEF SpuriousWakeup
<1>10. CASE UNCHANGED vars
    BY <1>10 DEF vars
<1> QED
    BY <1>1, <1>2, <1>3, <1>4, <1>5, <1>6, <1>7, <1>8, <1>9, <1>10 DEF Next, Proceed

\* What a step does to the elements, it does to those who come for them, as long as a
\* thread waits (queue.h:28-29, 35-37).
LEMMA WakeupStep ==
    ASSUME IInv, [Next]_vars
    PROVE  NoLostWakeup'
<1> USE DEF IInv, TypeOK
<1> DEFINE Safe == Len(queue) <= Cardinality(Coming) + Cardinality(Notifying)
<1>0. /\ Coming \in SUBSET Threads /\ Notifying \in SUBSET Threads
      /\ Coming' \in SUBSET Threads /\ Notifying' \in SUBSET Threads
      /\ Cardinality(Coming) \in Nat /\ Cardinality(Notifying) \in Nat
      /\ Cardinality(Coming') \in Nat /\ Cardinality(Notifying') \in Nat
    <2>1. /\ Coming \in SUBSET Threads /\ Notifying \in SUBSET Threads
          /\ Coming' \in SUBSET Threads /\ Notifying' \in SUBSET Threads
        BY DEF Coming, Notifying
    <2> QED BY <2>1, ThreadSets
<1> SUFFICES ASSUME Waiting' # {} PROVE Safe'
    BY DEF NoLostWakeup
<1>1. ASSUME NEW t \in Threads, NEW o \in Operations, Call(t, o) PROVE Safe'
    <2>1. Waiting # {} /\ Coming \subseteq Coming' /\ Notifying' = Notifying /\ queue' = queue
        BY <1>1 DEF Call, Waiting, Coming, Notifying
    <2>2. Cardinality(Coming) <= Cardinality(Coming')
        BY <2>1, <1>0, MoreThreads
    <2> QED BY <2>1, <2>2, <1>0 DEF NoLostWakeup
<1>2. ASSUME NEW t \in Threads, Lock(t) PROVE Safe'
    <2>1. Waiting # {} /\ Coming' = Coming /\ Notifying' = Notifying /\ queue' = queue
        BY <1>2 DEF Lock, Waiting, Coming, Notifying
    <2> QED BY <2>1 DEF NoLostWakeup
<1>3. ASSUME NEW t \in Threads, Push(t) PROVE Safe'
    <2>1. Waiting # {} /\ Coming' = Coming /\ Notifying' = Notifying \cup {t} /\ t \notin Notifying
        BY <1>3 DEF Push, Runs, Waiting, Coming, Notifying
    <2>2. Len(queue') = Len(queue) + 1
        BY <1>3 DEF Push
    <2>3. Cardinality(Notifying') = Cardinality(Notifying) + 1
        BY <2>1, <1>0, OneThreadMore
    <2> QED BY <2>1, <2>2, <2>3, <1>0 DEF NoLostWakeup
<1>4. ASSUME NEW t \in Threads, NotifyOne(t) PROVE Safe'
    <2>1. t \in Notifying /\ Notifying' = Notifying \ {t} /\ queue' = queue
        BY <1>4 DEF NotifyOne, Notified, Waiting, Notifying
    <2>2. PICK w \in Waiting : pc' = [pc EXCEPT ![t] = "idle", ![w] = "lock"]
        BY <1>4 DEF NotifyOne, Notified, Waiting
    <2>3. w \in Threads /\ op[w] = "waitAndPop" /\ pc[w] = "waiting" /\ op' = op
        BY <1>4, <2>2 DEF OpFits, NotifyOne, Waiting
    <2>4. w \notin Coming /\ Coming' = Coming \cup {w}
        BY <1>4, <2>2, <2>3 DEF Coming, NotifyOne
    <2>5. Cardinality(Coming') = Cardinality(Coming) + 1
        BY <2>3, <2>4, <1>0, OneThreadMore
    <2>6. Cardinality(Notifying') = Cardinality(Notifying) - 1
        BY <2>1, <1>0, OneThreadLess
    <2> QED BY <2>1, <2>2, <2>5, <2>6, <1>0 DEF NoLostWakeup
<1>5. ASSUME NEW t \in Threads, Front(t) PROVE Safe'
    <2>1. Waiting # {} /\ Coming' = Coming /\ Notifying' = Notifying /\ queue' = queue
        BY <1>5 DEF Front, Runs, Waiting, Coming, Notifying
    <2> QED BY <2>1 DEF NoLostWakeup
<1>6. ASSUME NEW t \in Threads, Pop(t) PROVE Safe'
    <2>1. Waiting # {} /\ Coming' = Coming \ {t} /\ Notifying' = Notifying
        BY <1>6 DEF Pop, Return, Waiting, Coming, Notifying
    <2>2. Len(queue') = Len(queue) - 1
        BY <1>6 DEF Pop, TakenInOrder
    <2>3. Cardinality(Coming') >= Cardinality(Coming) - 1
        <3>1. CASE t \in Coming
            <4>1. Cardinality(Coming \ {t}) = Cardinality(Coming) - 1
                BY <3>1, <1>0, OneThreadLess
            <4>2. Cardinality(Coming') = Cardinality(Coming) - 1
                BY <4>1, <2>1
            <4> QED BY <4>2, <1>0
        <3>2. CASE t \notin Coming
            <4>1. Coming' = Coming
                BY <3>2, <2>1
            <4> QED BY <4>1, <1>0
        <3> QED BY <3>1, <3>2
    <2> QED BY <2>1, <2>2, <2>3, <1>0 DEF NoLostWakeup
<1>7. ASSUME NEW t \in Threads, Wait(t) PROVE Safe'
    BY <1>7, <1>0 DEF Wait
<1>8. ASSUME NEW t \in Threads, ReturnAtOnce(t) PROVE Safe'
    <2>1. Waiting # {} /\ Coming' = Coming /\ Notifying' = Notifying /\ queue' = queue
        BY <1>8 DEF ReturnAtOnce, Return, Runs, Waiting, Coming, Notifying
    <2> QED BY <2>1 DEF NoLostWakeup
<1>9. ASSUME NEW t \in Threads, SpuriousWakeup(t) PROVE Safe'
    <2>1. Waiting # {} /\ Coming \subseteq Coming' /\ Notifying' = Notifying /\ queue' = queue
        BY <1>9 DEF SpuriousWakeup, Waiting, Coming, Notifying
    <2>2. Cardinality(Coming) <= Cardinality(Coming')
        BY <2>1, <1>0, MoreThreads
    <2> QED BY <2>1, <2>2, <1>0 DEF NoLostWakeup
<1>10. CASE UNCHANGED vars
    BY <1>10 DEF vars, NoLostWakeup, Waiting, Coming, Notifying
<1> QED
    BY <1>1, <1>2, <1>3, <1>4, <1>5, <1>6, <1>7, <1>8, <1>9, <1>10 DEF Next, Proceed

-----------------------------------------------------------------------------
(* The theorems.                                                           *)

\* The invariant holds in every reachable state (queue.h:25-65).
LEMMA Invariance == Spec => []IInv
<1>1. ASSUME IInv, [Next]_vars PROVE IInv'
    BY <1>1, TypeStep, MutexStep, OpStep, OrderStep, WakeupStep DEF IInv
<1> QED BY <1>1, InitIInv, PTL DEF Spec

\* Every variable stays within its type (queue.h:67-70).
THEOREM TypeCorrect == Spec => []TypeOK
<1>1. IInv => TypeOK
    BY DEF IInv
<1> QED BY <1>1, Invariance, PTL

\* Every element pushed is returned at most once, and they are returned in the order
\* pushed, however many threads push, wait and try (queue.h:25-59).
THEOREM ElementsInOrder == Spec => []TakenInOrder
<1>1. IInv => TakenInOrder
    BY DEF IInv
<1> QED BY <1>1, Invariance, PTL

\* However many threads wait, no notification is lost: beside every element in the
\* queue of a waiting thread there is one that comes to take it (queue.h:25-39).
THEOREM WakeupsSuffice == Spec => []NoLostWakeup
<1>1. IInv => NoLostWakeup
    BY DEF IInv
<1> QED BY <1>1, Invariance, PTL

=============================================================================
