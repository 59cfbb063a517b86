------------------------------- MODULE Queue -------------------------------
(***************************************************************************)
(* The thread-safe queue of include/concurrent/queue.h: a mutex, a         *)
(* condition variable and a std::queue, used by any number of threads.     *)
(*                                                                         *)
(* Every call takes the mutex first; waitAndPop() gives it up to wait, and *)
(* takes it again when it is woken, by a notification or for no reason.    *)
(***************************************************************************)
EXTENDS Integers, Sequences, FiniteSets

CONSTANTS
    Threads,
    NoThread,      \* holds a free mutex
    MaxCalls,      \* bound on the calls of each thread
    MaxSpurious    \* bound on the wakeups without a notification

ASSUME QueueAssumption ==
    /\ IsFiniteSet(Threads)
    /\ NoThread \notin Threads
    /\ MaxCalls \in Nat
    /\ MaxSpurious \in Nat

VARIABLES
    queue,     \* the elements
    m,         \* the thread that holds the mutex
    pc,        \* where each thread is
    op,        \* the member function each thread is in
    data,      \* the element a thread is taking
    calls,     \* how many calls each thread has begun
    spurious,  \* how many wakeups had no notification
    pushed,    \* history: the elements pushed
    taken      \* history: the elements returned

vars == <<queue, m, pc, op, data, calls, spurious, pushed, taken>>

Operations == {"push", "waitAndPop", "tryPop", "empty"}

Locations == {"idle", "lock", "locked", "notify", "waiting", "popping"}

\* A thread's n-th call pushes an element of its own.
Elements == Threads \X (1 .. MaxCalls)
NoElement == <<>>

Waiting == {t \in Threads : pc[t] = "waiting"}

-----------------------------------------------------------------------------
Init ==
    /\ queue = <<>>
    /\ m = NoThread
    /\ pc = [t \in Threads |-> "idle"]
    /\ op = [t \in Threads |-> "empty"]
    /\ data = [t \in Threads |-> NoElement]
    /\ calls = [t \in Threads |-> 0]
    /\ spurious = 0
    /\ pushed = <<>>
    /\ taken = <<>>

Call(t, o) ==
    /\ pc[t] = "idle"
    /\ calls[t] < MaxCalls
    /\ pc' = [pc EXCEPT ![t] = "lock"]
    /\ op' = [op EXCEPT ![t] = o]
    /\ calls' = [calls EXCEPT ![t] = @ + 1]
    /\ UNCHANGED <<queue, m, data, spurious, pushed, taken>>

\* Mutated form of Free: the mutex excludes nobody.
Free_always == TRUE

Free == m = NoThread

\* lock_guard and unique_lock, and the end of a wait.
Lock(t) ==
    /\ pc[t] = "lock"
    /\ Free
    /\ m' = t
    /\ pc' = [pc EXCEPT ![t] = "locked"]
    /\ UNCHANGED <<queue, op, data, calls, spurious, pushed, taken>>

Runs(t, o) == pc[t] = "locked" /\ op[t] = o

\* The call ends and gives up the mutex.
Return(t) ==
    /\ m' = NoThread
    /\ pc' = [pc EXCEPT ![t] = "idle"]

Push(t) ==
    /\ Runs(t, "push")
    /\ queue' = Append(queue, <<t, calls[t]>>)
    /\ pushed' = Append(pushed, <<t, calls[t]>>)
    /\ pc' = [pc EXCEPT ![t] = "notify"]
    /\ UNCHANGED <<m, op, data, calls, spurious, taken>>

\* Mutated form of Notified: who sleeps is woken for the first element only.
Notified_first == IF Len(queue) = 1 THEN Waiting ELSE {}

Notified == Waiting

\* c.notify_one(): one of those that wait, if any does.
NotifyOne(t) ==
    /\ pc[t] = "notify"
    /\ m' = NoThread
    /\ IF Notified = {}
       THEN pc' = [pc EXCEPT ![t] = "idle"]
       ELSE \E w \in Notified : pc' = [pc EXCEPT ![t] = "idle", ![w] = "lock"]
    /\ UNCHANGED <<queue, op, data, calls, spurious, pushed, taken>>

\* queue.front().
Front(t) ==
    /\ Runs(t, "waitAndPop") \/ Runs(t, "tryPop")
    /\ queue # <<>>
    /\ data' = [data EXCEPT ![t] = Head(queue)]
    /\ pc' = [pc EXCEPT ![t] = "popping"]
    /\ UNCHANGED <<queue, m, op, calls, spurious, pushed, taken>>

\* queue.pop(), and the element is returned.
Pop(t) ==
    /\ pc[t] = "popping"
    /\ queue' = Tail(queue)
    /\ taken' = Append(taken, data[t])
    /\ data' = [data EXCEPT ![t] = NoElement]
    /\ Return(t)
    /\ UNCHANGED <<op, calls, spurious, pushed>>

\* The predicate is false: the mutex is given up and the thread waits, in one step.
Wait(t) ==
    /\ Runs(t, "waitAndPop")
    /\ queue = <<>>
    /\ m' = NoThread
    /\ pc' = [pc EXCEPT ![t] = "waiting"]
    /\ UNCHANGED <<queue, op, data, calls, spurious, pushed, taken>>

\* tryPop() of an empty queue, and empty().
ReturnAtOnce(t) ==
    /\ Runs(t, "empty") \/ (Runs(t, "tryPop") /\ queue = <<>>)
    /\ Return(t)
    /\ UNCHANGED <<queue, op, data, calls, spurious, pushed, taken>>

SpuriousWakeup(t) ==
    /\ pc[t] = "waiting"
    /\ spurious < MaxSpurious
    /\ pc' = [pc EXCEPT ![t] = "lock"]
    /\ spurious' = spurious + 1
    /\ UNCHANGED <<queue, m, op, data, calls, pushed, taken>>

-----------------------------------------------------------------------------
\* What a thread in a call does, unless it waits.
Proceed(t) ==
    \/ Lock(t) \/ Push(t) \/ NotifyOne(t)
    \/ Front(t) \/ Pop(t) \/ Wait(t) \/ ReturnAtOnce(t)

Next ==
    \E t \in Threads :
        \/ \E o \in Operations : Call(t, o)
        \/ Proceed(t)
        \/ SpuriousWakeup(t)

\* A thread in a call is scheduled, and gets the mutex when the others leave it; nobody
\* has to call, and nobody who waits is woken for no reason.
Spec == Init /\ [][Next]_vars /\ \A t \in Threads : WF_vars(Proceed(t))

-----------------------------------------------------------------------------
(* Properties.                                                             *)

TypeOK ==
    /\ queue \in Seq(Elements)
    /\ m \in Threads \cup {NoThread}
    /\ pc \in [Threads -> Locations]
    /\ op \in [Threads -> Operations]
    /\ data \in [Threads -> Elements \cup {NoElement}]
    /\ calls \in [Threads -> 0 .. MaxCalls]
    /\ spurious \in 0 .. MaxSpurious
    /\ pushed \in Seq(Elements)
    /\ taken \in Seq(Elements)

\* Elements are returned once each, in the order pushed, however waiting and trying
\* threads get between the look at the front and the pop (queue.h:28, 36-37, 46-47, 56-57).
TakenInOrder ==
    /\ pushed = taken \o queue
    /\ \A t \in Threads : pc[t] = "popping" => queue # <<>> /\ data[t] = Head(queue)

\* On the way to an element: in waitAndPop() and not waiting.
Coming == {t \in Threads : op[t] = "waitAndPop" /\ pc[t] \in {"lock", "locked", "popping"}}

\* Who has pushed and not notified yet.
Notifying == {t \in Threads : pc[t] = "notify"}

\* While a thread waits there are no more elements than threads coming to take one, or
\* about to wake one that will: no notification is lost between the test and the wait,
\* spent on a thread that finds its element taken, or left out because the queue was
\* not empty (queue.h:28-29, 34-37).
NoLostWakeup == Waiting # {} => Len(queue) <= Cardinality(Coming) + Cardinality(Notifying)

\* Nobody waits for ever beside an element: it is taken, or the thread is woken
\* (queue.h:25-39).
ElementEndsWait ==
    \A t \in Threads : pc[t] = "waiting" /\ queue # <<>> ~> pc[t] # "waiting" \/ queue = <<>>
=============================================================================
