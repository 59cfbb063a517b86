----------------------------- MODULE ThreadPool -----------------------------
(***************************************************************************)
(* include/concurrent/thread_pool.h, thread_joiner.h, and the operations   *)
(* of include/concurrent/queue.h the pool uses: push(), tryPop(data) and   *)
(* empty(), each atomic under the queue's mutex.                           *)
(*                                                                         *)
(* One thread, the owner, constructs the pool, submits tasks, waits for    *)
(* futures, stops, starts and destroys it.  Each worker runs workerThread: *)
(* it reads the running flag, then its queue, then pops, in three steps    *)
(* between which the owner may act.                                        *)
(***************************************************************************)
EXTENDS Naturals, Sequences, FiniteSets

CONSTANTS
    NumThreads,  \* num_threads
    Tasks,       \* what may be submitted; a task is submitted once
    Waitable,    \* the tasks submitted with submitWaitableTask()
    Throwing,    \* the tasks whose function throws
    NoTask

ASSUME PoolAssumption ==
    /\ NumThreads \in Nat \ {0}
    /\ Waitable \subseteq Tasks
    /\ NoTask \notin Tasks

VARIABLES
    phase,      \* of the pool: constructing, ready, joining, destroyed, terminated
    running,    \* the atomic flag
    queues,     \* thread_queues
    thread,     \* where each worker is in its loop
    task,       \* the task a worker has popped
    promise,    \* the shared state of each waitable task's future
    getting,    \* the task whose future the owner blocks on
    submitted,  \* history: the tasks pushed to each queue
    ran,        \* history: the tasks each worker has finished
    due         \* history: how many were pushed to a queue before running was reset

owner   == <<phase, running, getting>>
workers == <<thread, task, promise>>
history == <<submitted, ran, due>>
vars    == <<owner, workers, queues, history>>

Workers == 0 .. NumThreads - 1

Phases  == {"constructing", "ready", "joining", "destroyed", "terminated"}
Threads == {"none", "poll", "drain", "pop", "task", "exited"}

Init ==
    /\ phase = "constructing"
    /\ running = TRUE
    /\ queues = [w \in Workers |-> <<>>]
    /\ thread = [w \in Workers |-> "none"]
    /\ task = [w \in Workers |-> NoTask]
    /\ promise = [t \in Waitable |-> "unset"]
    /\ getting = NoTask
    /\ submitted = [w \in Workers |-> <<>>]
    /\ ran = [w \in Workers |-> <<>>]
    /\ due = [w \in Workers |-> 0]

-----------------------------------------------------------------------------
(* The owner.                                                              *)

\* One turn of the constructor's loop; the owner has the pool after the last.
Spawn(w) ==
    /\ phase = "constructing"
    /\ thread[w] = "none"
    /\ \A v \in 0 .. w - 1 : thread[v] # "none"
    /\ thread' = [thread EXCEPT ![w] = "poll"]
    /\ phase' = IF w = NumThreads - 1 THEN "ready" ELSE phase
    /\ UNCHANGED <<running, getting, queues, task, promise, history>>

\* A thread cannot be created: the constructor resets the flag and rethrows, and
\* the joiner, already constructed, joins the threads there are.
SpawnFails ==
    /\ phase = "constructing"
    /\ phase' = "joining"
    /\ running' = FALSE
    /\ UNCHANGED <<getting, workers, queues, history>>

OwnerFree == phase = "ready" /\ getting = NoTask

\* submitTask() and submitWaitableTask(), which makes a new promise.
Submit(w, t) ==
    /\ OwnerFree
    /\ queues' = [queues EXCEPT ![w] = Append(@, t)]
    /\ promise' = [u \in Waitable |-> IF u = t THEN "unset" ELSE promise[u]]
    /\ submitted' = [submitted EXCEPT ![w] = Append(@, t)]
    /\ due' = IF running THEN [due EXCEPT ![w] = @ + 1] ELSE due
    /\ UNCHANGED <<owner, thread, task, ran>>

\* future.get(), which may be called once: the owner blocks until the promise is kept.
Get(t) ==
    /\ OwnerFree
    /\ promise[t] # "taken"
    /\ getting' = t
    /\ UNCHANGED <<phase, running, workers, queues, history>>

GetReturns ==
    /\ phase = "ready"
    /\ getting # NoTask
    /\ promise[getting] \in {"value", "exception"}
    /\ getting' = NoTask
    /\ promise' = [promise EXCEPT ![getting] = "taken"]
    /\ UNCHANGED <<phase, running, thread, task, queues, history>>

stop ==
    /\ OwnerFree
    /\ running
    /\ running' = FALSE
    /\ UNCHANGED <<phase, getting, workers, queues, history>>

\* The first assignment `threads[i] = std::thread(...)' meets a thread that nobody
\* has joined; std::thread's assignment then calls std::terminate().
start ==
    /\ OwnerFree
    /\ ~running
    /\ running' = TRUE
    /\ phase' = "terminated"
    /\ UNCHANGED <<getting, workers, queues, history>>

\* ~ThreadPool() resets the flag; the joiner, declared last, is destroyed first.
Destroy ==
    /\ OwnerFree
    /\ phase' = "joining"
    /\ running' = FALSE
    /\ UNCHANGED <<getting, workers, queues, history>>

\* ~ThreadJoiner() has joined every thread; the threads and the queues follow.
Join ==
    /\ phase = "joining"
    /\ \A w \in Workers : thread[w] \in {"none", "exited"}
    /\ phase' = "destroyed"
    /\ UNCHANGED <<running, getting, workers, queues, history>>

-----------------------------------------------------------------------------
(* A worker: while (running || !queue.empty()) if (tryPop(task)) task().   *)

At(w, here) == phase # "terminated" /\ thread[w] = here

GoTo(w, there) == thread' = [thread EXCEPT ![w] = there]

\* Mutated form of Poll: the loop does not look at the queue once the flag is reset.
Poll_abandons(w) ==
    /\ At(w, "poll")
    /\ GoTo(w, IF running THEN "pop" ELSE "exited")
    /\ UNCHANGED <<owner, task, promise, queues, history>>

Poll(w) ==
    /\ At(w, "poll")
    /\ GoTo(w, IF running THEN "pop" ELSE "drain")
    /\ UNCHANGED <<owner, task, promise, queues, history>>

\* Mutated form of Drain: empty() is not negated.
Drain_inverted(w) ==
    /\ At(w, "drain")
    /\ GoTo(w, IF queues[w] = <<>> THEN "pop" ELSE "exited")
    /\ UNCHANGED <<owner, task, promise, queues, history>>

Drain(w) ==
    /\ At(w, "drain")
    /\ GoTo(w, IF queues[w] = <<>> THEN "exited" ELSE "pop")
    /\ UNCHANGED <<owner, task, promise, queues, history>>

\* Mutated form of TryPop: a worker that finds its queue empty ends.
TryPop_exits(w) ==
    /\ At(w, "pop")
    /\ \/ /\ queues[w] = <<>>
          /\ GoTo(w, "exited")
          /\ UNCHANGED <<queues, task>>
       \/ /\ queues[w] # <<>>
          /\ task' = [task EXCEPT ![w] = Head(queues[w])]
          /\ queues' = [queues EXCEPT ![w] = Tail(@)]
          /\ GoTo(w, "task")
    /\ UNCHANGED <<owner, promise, history>>

\* Mutated form of TryPop: it takes the element pushed last.
TryPop_newest(w) ==
    /\ At(w, "pop")
    /\ \/ /\ queues[w] = <<>>
          /\ GoTo(w, "poll")
          /\ UNCHANGED <<queues, task>>
       \/ /\ queues[w] # <<>>
          /\ task' = [task EXCEPT ![w] = queues[w][Len(queues[w])]]
          /\ queues' = [queues EXCEPT ![w] = SubSeq(@, 1, Len(@) - 1)]
          /\ GoTo(w, "task")
    /\ UNCHANGED <<owner, promise, history>>

\* Mutated form of TryPop: the worker does not look at its result.
TryPop_unchecked(w) ==
    /\ At(w, "pop")
    /\ \/ queues[w] = <<>> /\ UNCHANGED <<queues, task>>
       \/ /\ queues[w] # <<>>
          /\ task' = [task EXCEPT ![w] = Head(queues[w])]
          /\ queues' = [queues EXCEPT ![w] = Tail(@)]
    /\ GoTo(w, "task")
    /\ UNCHANGED <<owner, promise, history>>

TryPop(w) ==
    /\ At(w, "pop")
    /\ \/ /\ queues[w] = <<>>
          /\ GoTo(w, "poll")
          /\ UNCHANGED <<queues, task>>
       \/ /\ queues[w] # <<>>
          /\ task' = [task EXCEPT ![w] = Head(queues[w])]
          /\ queues' = [queues EXCEPT ![w] = Tail(@)]
          /\ GoTo(w, "task")
    /\ UNCHANGED <<owner, promise, history>>

\* Mutated form of Keep: the exception of a waitable task is swallowed.
Keep_swallows(t) ==
    promise' = IF t \in Waitable \ Throwing THEN [promise EXCEPT ![t] = "value"] ELSE promise

\* A waitable task keeps its promise, with the value or the exception.
Keep(t) ==
    promise' = IF t \in Waitable
               THEN [promise EXCEPT ![t] = IF t \in Throwing THEN "exception" ELSE "value"]
               ELSE promise

\* task() returns.  An exception leaves it only when the task is not a waitable
\* one, and then leaves the thread too.
RunTask(w) ==
    /\ At(w, "task")
    /\ Keep(task[w])
    /\ phase' = IF task[w] \in Throwing \ Waitable THEN "terminated" ELSE phase
    /\ ran' = [ran EXCEPT ![w] = Append(@, task[w])]
    /\ task' = [task EXCEPT ![w] = NoTask]
    /\ GoTo(w, "poll")
    /\ UNCHANGED <<running, getting, queues, submitted, due>>

Work(w) == Poll(w) \/ Drain(w) \/ TryPop(w) \/ RunTask(w)

-----------------------------------------------------------------------------
Has(s, t) == \E i \in 1 .. Len(s) : s[i] = t

WasSubmitted(t) == \E w \in Workers : Has(submitted[w], t)

Next ==
    \/ \E w \in Workers : Spawn(w) \/ Work(w)
    \/ \E w \in Workers, t \in Tasks : ~WasSubmitted(t) /\ Submit(w, t)
    \/ \E t \in Waitable : WasSubmitted(t) /\ Get(t)
    \/ SpawnFails \/ GetReturns \/ stop \/ start \/ Destroy \/ Join

\* Threads are scheduled; the owner finishes the constructor, the destructor and
\* a get() whose promise is kept, but need not submit, stop or destroy.
Fairness ==
    /\ \A w \in Workers : WF_vars(Spawn(w)) /\ WF_vars(Work(w))
    /\ WF_vars(Join) /\ WF_vars(GetReturns)

Spec == Init /\ [][Next]_vars /\ Fairness

-----------------------------------------------------------------------------
InHand(w) == IF task[w] = NoTask THEN <<>> ELSE <<task[w]>>

\* The state is well formed; a worker holds a task exactly while it runs one.
TypeOK ==
    /\ phase \in Phases
    /\ running \in BOOLEAN
    /\ queues \in [Workers -> Seq(Tasks)]
    /\ thread \in [Workers -> Threads]
    /\ task \in [Workers -> Tasks \cup {NoTask}]
    /\ \A w \in Workers : (thread[w] = "task") <=> (task[w] # NoTask)
    /\ promise \in [Waitable -> {"unset", "value", "exception", "taken"}]
    /\ getting \in Waitable \cup {NoTask}
    /\ submitted \in [Workers -> Seq(Tasks)]
    /\ ran \in [Workers -> Seq(Tasks)]
    /\ due \in [Workers -> Nat]

\* A worker runs the tasks of its queue in the order they were submitted, each of
\* them once: nothing is lost, repeated or overtaken between push() and the call.
RunsInOrder ==
    \A w \in Workers : submitted[w] = ran[w] \o InHand(w) \o queues[w]

\* The destructor, and stop() before it, abandon nothing that was submitted to a
\* running pool: when the pool is gone, those tasks have run.
DestroyedDrained ==
    phase = "destroyed" => \A w \in Workers : due[w] <= Len(ran[w])

\* The nth task of a queue, submitted while the pool ran, runs, whether or not the
\* pool is stopped or destroyed in between, unless the process terminates.
DueTasksRun ==
    \A w \in Workers : \A n \in 1 .. Cardinality(Tasks) :
        due[w] >= n ~> (Len(ran[w]) >= n \/ phase = "terminated")

\* A get() for a task submitted while the pool ran returns, also when the task throws.
WaitEnds ==
    \A t \in Waitable :
        (getting = t /\ \E w \in Workers : Has(SubSeq(submitted[w], 1, due[w]), t))
            ~> (getting = NoTask \/ phase = "terminated")

\* A pool whose tasks do not throw never terminates the process: start() starts a
\* stopped pool, and its one requirement is that the pool is not started.
NeverTerminates == Throwing \subseteq Waitable => phase # "terminated"

\* The destructor of the pool, which joins its workers, returns.
DestructorReturns == phase = "joining" ~> phase \in {"destroyed", "terminated"}
=============================================================================
