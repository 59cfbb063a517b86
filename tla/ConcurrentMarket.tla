-------------------------- MODULE ConcurrentMarket --------------------------
(***************************************************************************)
(* include/matching/market/concurrent_market.h, concurrent_market.cpp and  *)
(* the OrderBookHandler of market.h, market.cpp, on top of ThreadPool.     *)
(*                                                                         *)
(* One caller makes the requests; worker i of the pool serves those of the *)
(* symbols whose submission index is i, with the handler i.  A book is     *)
(* what has been done to it: the sequence of the requests it served, of    *)
(* which its content is a function (MapOrderBook).                         *)
(***************************************************************************)
EXTENDS Naturals, Sequences, FiniteSetsExt, Functions

CONSTANTS
    NumThreads,
    Symbols,
    Orders,          \* addOrder, deleteOrder, cancelOrder, replaceOrder, executeOrder
    MaxLives,        \* bound on how often a symbol is added
    MaxTasks,        \* bound on the tasks the caller submits
    AlignedDeletes,  \* the caller deletes a symbol only when the next symbol would go to its worker
    NoTask

\* A symbol that is added again after a deletion begins another life.
Lives == Symbols \X (1 .. MaxLives)

VARIABLES
    phase, running, queues, thread, task, promise, getting,  \* thread_pool
    submitted, ran, due,                                     \* its history
    id_to_submission_index,   \* its keys are those of id_to_symbol too
    symbol_submission_index,
    id_to_book,               \* of each handler
    call,                     \* where the caller is in a call of several steps
    listing,                  \* the strings of a running toString(), one per handler
    crashed,                  \* an assertion failed or a dangling iterator was fatal
    life,                     \* history: how often each symbol was added
    requested, served         \* history: the requests of each life, made and served

pool    == <<phase, running, queues, thread, task, promise, getting, submitted, ran, due>>
caller  == <<id_to_submission_index, symbol_submission_index, call>>
asked   == <<life, requested>>
handled == <<id_to_book, listing, crashed, served>>
vars    == <<pool, caller, asked, handled>>

\* map[key] = value, for a key the map need not have.
Put(map, key, value) ==
    [k \in DOMAIN map \cup {key} |-> IF k = key THEN value ELSE map[k]]

Handlers == 0 .. NumThreads - 1
Idle     == [at |-> "idle"]

ListTasks  == [op : {"toString"}, handler : Handlers]
BookTasks  == [op : Orders \cup {"addOrderBook", "deleteOrderBook"},
               life : Lives, handler : Handlers]

\* Only the workers' tasks are named like the functions of OrderBookHandler.
ASSUME MarketAssumption ==
    /\ NumThreads \in Nat \ {0}
    /\ MaxLives \in Nat
    /\ Orders \cap {"addOrderBook", "deleteOrderBook", "toString"} = {}
    /\ AlignedDeletes \in BOOLEAN
    /\ NoTask \notin ListTasks \cup BookTasks

Pool == INSTANCE ThreadPool WITH
            Tasks <- ListTasks \cup BookTasks, Waitable <- ListTasks, Throwing <- {}

Init ==
    /\ Pool!Init
    /\ id_to_submission_index = <<>>
    /\ symbol_submission_index = 0
    /\ id_to_book = [h \in Handlers |-> <<>>]
    /\ call = Idle
    /\ listing = [h \in Handlers |-> <<>>]
    /\ crashed = FALSE
    /\ life = [s \in Symbols |-> 0]
    /\ requested = [l \in Lives |-> <<>>]
    /\ served = [l \in Lives |-> <<>>]

-----------------------------------------------------------------------------
(* The caller.                                                             *)

\* Submits a task about symbol s, in its life l, to the queue of a worker.
Send(queue, op, l, handler) ==
    /\ call = Idle
    /\ Pool!Submit(queue, [op |-> op, life |-> l, handler |-> handler])
    /\ requested' = [requested EXCEPT ![l] = Append(@, op)]
    /\ UNCHANGED handled

\* Mutated form of getSubmissionIndex: the index of the next symbol to be added.
getSubmissionIndex_next(s) == symbol_submission_index

\* Symbols the market does not know go to worker 0.
getSubmissionIndex(s) ==
    IF s \in DOMAIN id_to_submission_index THEN id_to_submission_index[s] ELSE 0

\* Mutated form of NextSubmissionIndex: without the modulo.
NextSubmissionIndex_unbounded == symbol_submission_index + 1

\* updateSymbolSubmissionIndex()
NextSubmissionIndex == (symbol_submission_index + 1) % NumThreads

addSymbol(s) ==
    /\ s \notin DOMAIN id_to_submission_index
    /\ life[s] < MaxLives
    /\ Send(symbol_submission_index, "addOrderBook", <<s, life[s] + 1>>, symbol_submission_index)
    /\ id_to_submission_index' = Put(id_to_submission_index, s, symbol_submission_index)
    /\ symbol_submission_index' = NextSubmissionIndex
    /\ life' = [life EXCEPT ![s] = @ + 1]
    /\ UNCHANGED call

\* The task goes to the symbol's worker with the handler of the next symbol to be
\* added, and an iterator to the entry that EraseSymbol then destroys.
deleteSymbol(s) ==
    /\ s \in DOMAIN id_to_submission_index
    /\ AlignedDeletes => id_to_submission_index[s] = symbol_submission_index
    /\ Send(getSubmissionIndex(s), "deleteOrderBook", <<s, life[s]>>, symbol_submission_index)
    /\ call' = [at |-> "erase", symbol |-> s]
    /\ UNCHANGED <<id_to_submission_index, symbol_submission_index, life>>

EraseSymbol ==
    /\ call.at = "erase"
    /\ id_to_submission_index' =
           Restrict(id_to_submission_index, DOMAIN id_to_submission_index \ {call.symbol})
    /\ call' = Idle
    /\ UNCHANGED <<pool, symbol_submission_index, asked, handled>>

\* Mutated form of HandlerAt: the handler of the next symbol to be added.
HandlerAt_next(submission_index) == symbol_submission_index

\* orderbook_handlers[submission_index]
HandlerAt(submission_index) == submission_index

\* addOrder, deleteOrder, cancelOrder, replaceOrder and both forms of executeOrder
\* differ in what they submit only; the symbol must have been added.
OrderRequest(s, op) ==
    /\ s \in DOMAIN id_to_submission_index
    /\ Send(getSubmissionIndex(s), op, <<s, life[s]>>, HandlerAt(getSubmissionIndex(s)))
    /\ UNCHANGED <<caller, life>>

\* toString() submits a listing to every worker, then waits for each in turn.
toString ==
    /\ call = Idle
    /\ Pool!OwnerFree
    /\ call' = [at |-> "list", handler |-> 0]
    /\ UNCHANGED <<pool, id_to_submission_index, symbol_submission_index, asked, handled>>

\* Mutated form of Step: the last handler is left out.
Step_short(from, to) ==
    /\ call.at = from
    /\ call' = IF call.handler < NumThreads - 2
               THEN [call EXCEPT !.handler = @ + 1]
               ELSE [at |-> to, handler |-> 0]
    /\ UNCHANGED <<id_to_submission_index, symbol_submission_index, asked, handled>>

\* One turn of either loop over the handlers.
Step(from, to) ==
    /\ call.at = from
    /\ call' = IF call.handler < NumThreads - 1
               THEN [call EXCEPT !.handler = @ + 1]
               ELSE [at |-> to, handler |-> 0]
    /\ UNCHANGED <<id_to_submission_index, symbol_submission_index, asked, handled>>

ListTask(handler) == [op |-> "toString", handler |-> handler]

SubmitListing ==
    /\ Step("list", "wait")
    /\ Pool!Submit(call.handler, ListTask(call.handler))

AwaitListing ==
    /\ call.at = "wait"
    /\ Pool!Get(ListTask(call.handler))
    /\ UNCHANGED <<caller, asked, handled>>

TakeListing ==
    /\ Step("wait", "listed")
    /\ Pool!GetReturns

ReturnListing ==
    /\ call.at = "listed"
    /\ call' = Idle
    /\ listing' = [h \in Handlers |-> <<>>]
    /\ UNCHANGED <<pool, id_to_submission_index, symbol_submission_index, asked, id_to_book,
                   crashed, served>>

-----------------------------------------------------------------------------
(* A worker runs its task: the functions of OrderBookHandler.  A failed    *)
(* assertion ends the process.                                             *)

Crash == crashed' = TRUE /\ UNCHANGED <<id_to_book, listing, served>>

SetBooks(h, books) == id_to_book' = [id_to_book EXCEPT ![h] = books]

Served(t) ==
    /\ served' = [served EXCEPT ![t.life] = Append(@, t.op)]
    /\ UNCHANGED <<listing, crashed>>

addOrderBook(t, s) ==
    /\ t.op = "addOrderBook"
    /\ IF s \in DOMAIN id_to_book[t.handler] THEN Crash
       ELSE /\ SetBooks(t.handler, Put(id_to_book[t.handler], s, <<>>))
            /\ Served(t)

\* The argument reads the name through the caller's iterator.  Once the entry is
\* erased that may be fatal, or give some name, which nothing else depends on.
deleteOrderBook(t, s) ==
    /\ t.op = "deleteOrderBook"
    /\ \/ call # [at |-> "erase", symbol |-> s] /\ Crash
       \/ IF s \notin DOMAIN id_to_book[t.handler] THEN Crash
          ELSE /\ SetBooks(t.handler, Restrict(id_to_book[t.handler],
                                               DOMAIN id_to_book[t.handler] \ {s}))
               /\ Served(t)

ServeOrder(t, s) ==
    /\ t.op \in Orders
    /\ IF s \notin DOMAIN id_to_book[t.handler] THEN Crash
       ELSE /\ SetBooks(t.handler, [id_to_book[t.handler] EXCEPT ![s] = Append(@, t.op)])
            /\ Served(t)

ListBooks(t) ==
    /\ t.op = "toString"
    /\ listing' = [listing EXCEPT ![t.handler] = id_to_book[t.handler]]
    /\ UNCHANGED <<id_to_book, crashed, served>>

ServeTask(w) ==
    /\ Pool!RunTask(w)
    /\ \/ ListBooks(task[w])
       \/ LET s == task[w].life[1]
          IN  addOrderBook(task[w], s) \/ deleteOrderBook(task[w], s) \/ ServeOrder(task[w], s)
    /\ UNCHANGED <<caller, asked>>

\* The steps of the pool that touch nothing of the market.
PoolStep ==
    /\ \/ \E w \in Pool!Workers : Pool!Spawn(w) \/ Pool!Poll(w) \/ Pool!Drain(w) \/ Pool!TryPop(w)
       \/ Pool!SpawnFails
       \/ call = Idle /\ Pool!Destroy
       \/ Pool!Join
    /\ UNCHANGED <<caller, asked, handled>>

-----------------------------------------------------------------------------
(* The system.                                                             *)

\* MaxTasks bounds what the caller submits.
MaySubmit(n) == MapThenSumSet(LAMBDA w : Len(submitted[w]), Handlers) + n <= MaxTasks

Request ==
    /\ MaySubmit(1)
    /\ \E s \in Symbols : addSymbol(s) \/ deleteSymbol(s) \/ \E op \in Orders : OrderRequest(s, op)

List == MaySubmit(NumThreads) /\ toString

Next ==
    /\ ~crashed
    /\ \/ Request \/ EraseSymbol
       \/ List \/ SubmitListing \/ AwaitListing \/ TakeListing \/ ReturnListing
       \/ \E w \in Handlers : ServeTask(w)
       \/ PoolStep

WorkerStep(w) ==
    \/ ServeTask(w)
    \/ (Pool!Poll(w) \/ Pool!Drain(w) \/ Pool!TryPop(w)) /\ UNCHANGED <<caller, asked, handled>>

\* Threads are scheduled, and so is a caller in the middle of a call; nothing
\* obliges it to make one.
Fairness ==
    /\ \A w \in Handlers : WF_vars(~crashed /\ WorkerStep(w))
    /\ WF_vars(~crashed /\ (EraseSymbol \/ SubmitListing \/ AwaitListing \/ TakeListing
                              \/ ReturnListing))

Spec == Init /\ [][Next]_vars /\ Fairness

-----------------------------------------------------------------------------
\* The state is well formed; the indexes are indexes of handlers.
TypeOK ==
    /\ symbol_submission_index \in Handlers
    /\ DOMAIN id_to_submission_index \subseteq Symbols
    /\ \A s \in DOMAIN id_to_submission_index : id_to_submission_index[s] \in Handlers
    /\ \A h \in Handlers : DOMAIN id_to_book[h] \subseteq Symbols
    /\ life \in [Symbols -> 0 .. MaxLives]
    /\ crashed \in BOOLEAN

\* The handlers have no lock: worker i runs only tasks for handler i, so that no two
\* threads meet in one handler or one of its books.
HandlerConfined == \A w \in Handlers : task[w] # NoTask => task[w].handler = w

\* toString() shows the books a caller that had waited for each request would see:
\* those of its symbols, with every request made about them, and no others.
ToStringComplete ==
    call.at = "listed" =>
        UNION {{<<s, listing[h][s]>> : s \in DOMAIN listing[h]} : h \in Handlers}
            = {<<s, Tail(requested[<<s, life[s]>>])>> : s \in DOMAIN id_to_submission_index}

\* The destructor, which stops the pool, serves every request made before it.
DestructorServes == phase = "destroyed" /\ ~crashed => served = requested

\* Every symbol's requests are served one by one in the order they were made.
Async == INSTANCE AsyncMarket
ImplementsAsyncMarket == Async!Spec

\* Every request is served: whenever the caller pauses, or destroys the market, what
\* it asked for gets done.  (MaxTasks makes it pause.)
RequestsServed == []<>(requested = served \/ crashed)
=============================================================================
