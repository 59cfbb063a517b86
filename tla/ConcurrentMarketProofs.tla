----------------------- MODULE ConcurrentMarketProofs -----------------------
(***************************************************************************)
(* Proofs about ConcurrentMarket, for every number of workers, symbols and *)
(* tasks: every symbol's requests are served in the order they were made,  *)
(* and, where the caller deletes a symbol only when that is safe, no two   *)
(* workers meet in one handler and toString() shows every book.            *)
(*                                                                         *)
(* What the pool promises is taken from ThreadPoolProofs: every step of    *)
(* the market is a step of the pool.                                       *)
(***************************************************************************)
EXTENDS ConcurrentMarket, SequenceTheorems, TLAPS

PoolProofs == INSTANCE ThreadPoolProofs WITH
                  Tasks <- ListTasks \cup BookTasks, Waitable <- ListTasks, Throwing <- {}

-----------------------------------------------------------------------------
(* The inductive invariant.                                                *)

Ops == Orders \cup {"addOrderBook", "deleteOrderBook"}

\* The calls that take several steps, and where each of them is.
Calls == {Idle} \cup [at : {"erase"}, symbol : Symbols]
                \cup [at : {"list", "wait", "listed"}, handler : Handlers]

Typed ==
    /\ TypeOK
    /\ requested \in [Lives -> Seq(Ops)]
    /\ served \in [Lives -> Seq(Ops)]
    /\ DOMAIN id_to_book = Handlers
    /\ DOMAIN listing = Handlers
    /\ call \in Calls
    /\ call.at = "erase" => call.symbol \in DOMAIN id_to_submission_index

\* The market never stops its pool, so that every task is submitted to a running one.
AllDue ==
    /\ phase \in {"constructing", "ready"} => running
    /\ \A w \in Handlers : due[w] = Len(submitted[w])

\* The life whose book is on, as the caller sees it.
Open(s, n) ==
    /\ n = life[s]
    /\ s \in DOMAIN id_to_submission_index
    /\ call # [at |-> "erase", symbol |-> s]

\* The caller adds a symbol first and deletes it last.
Recorded ==
    /\ \A s \in DOMAIN id_to_submission_index : life[s] > 0
    /\ \A s \in Symbols : \A n \in 1 .. MaxLives :
          LET q == requested[<<s, n>>]
          IN  /\ (q = <<>>) <=> (n > life[s])
              /\ \A i \in 1 .. Len(q) : (q[i] = "addOrderBook") <=> (i = 1)
              /\ \A i \in 1 .. Len(q) : (q[i] = "deleteOrderBook")
                                            <=> (i = Len(q) /\ ~Open(s, n))

About(t, l) == t \in BookTasks /\ t.life = l

\* pos says where the requests of life l are among the tasks of worker w.
Placed(l, w, pos) ==
    /\ pos \in [1 .. Len(requested[l]) -> 1 .. Len(submitted[w])]
    /\ \A j, k \in 1 .. Len(requested[l]) : j < k => pos[j] < pos[k]
    /\ \A k \in 1 .. Len(requested[l]) :
          /\ About(submitted[w][pos[k]], l)
          /\ submitted[w][pos[k]].op = requested[l][k]
          /\ (k <= Len(served[l])) <=> (pos[k] <= Len(ran[w]))
    /\ \A v \in Handlers : \A i \in 1 .. Len(submitted[v]) :
          About(submitted[v][i], l) => v = w /\ \E k \in 1 .. Len(requested[l]) : pos[k] = i

\* Worker w has all requests of life l, in order, and has served those it has run.
Delivered(l, w) ==
    \E pos \in [1 .. Len(requested[l]) -> 1 .. Len(submitted[w])] : Placed(l, w, pos)

Delivery ==
    /\ \A l \in Lives :
          /\ \E w \in Handlers : Delivered(l, w)
          /\ Len(served[l]) <= Len(requested[l])
          /\ \A k \in 1 .. Len(served[l]) : served[l][k] = requested[l][k]
    /\ \A s \in DOMAIN id_to_submission_index :
          Delivered(<<s, life[s]>>, id_to_submission_index[s])

\* Each worker is sent tasks for its own handler only.
Confined == \A w \in Handlers : \A i \in 1 .. Len(submitted[w]) : submitted[w][i].handler = w

\* The book of life l is in handler h.
Alive(l, h) ==
    /\ \E i \in 1 .. Len(submitted[h]) : About(submitted[h][i], l)
    /\ served[l] # <<>>
    /\ \A k \in 1 .. Len(served[l]) : served[l][k] # "deleteOrderBook"

\* A handler has the books of the lives that are on, each with what was served of it.
Books ==
    \A h \in Handlers : \A s \in Symbols :
       /\ s \in DOMAIN id_to_book[h] => \E n \in 1 .. MaxLives : Alive(<<s, n>>, h)
       /\ \A n \in 1 .. MaxLives : Alive(<<s, n>>, h) =>
             /\ s \in DOMAIN id_to_book[h]
             /\ id_to_book[h][s] = Tail(served[<<s, n>>])
             /\ \A m \in 1 .. MaxLives : Alive(<<s, m>>, h) => m = n

\* toString() has submitted its task to handler h; it has waited for that task.
Asked(h)  == \/ call.at = "list" /\ h < call.handler
             \/ call.at \in {"wait", "listed"}
Waited(h) == \/ call.at = "wait" /\ h < call.handler
             \/ call.at = "listed"

AllRan(h) == Len(ran[h]) = Len(submitted[h])

\* A listing that waits is the last task of its worker, and its promise is not kept.
ListedLast(h) ==
    \A i \in Len(ran[h]) + 1 .. Len(submitted[h]) :
       submitted[h][i] \in ListTasks =>
          /\ i = Len(submitted[h])
          /\ Asked(h)
          /\ promise[ListTask(h)] = "unset"

\* When it has run, the string is that of the books as they are.
ListedNow(h) ==
    /\ Asked(h) => IF AllRan(h) THEN listing[h] = id_to_book[h]
                                ELSE submitted[h][Len(submitted[h])] = ListTask(h)
    /\ Waited(h) => AllRan(h)

Listings ==
    /\ getting # NoTask => call.at = "wait" /\ getting = ListTask(call.handler)
    /\ \A h \in Handlers : ListedLast(h) /\ ListedNow(h)

Inv ==
    /\ PoolProofs!Inv
    /\ Typed
    /\ AllDue
    /\ Recorded
    /\ ~crashed => Delivery
    /\ AlignedDeletes => Confined
    /\ AlignedDeletes /\ ~crashed => Books /\ Listings
    /\ AlignedDeletes /\ crashed => call.at # "listed"

-----------------------------------------------------------------------------
(* The pool in the market.                                                 *)

\* The market's constants are those ThreadPool assumes.
LEMMA PoolAssumed == PoolProofs!PoolAssumption
BY MarketAssumption DEF PoolProofs!PoolAssumption

\* The market's pool is the one ThreadPoolProofs speaks of.
LEMMA SamePool ==
    /\ Pool!Init <=> PoolProofs!Init
    /\ Pool!Workers = Handlers /\ PoolProofs!Workers = Handlers
    /\ \A w \in Handlers :
          /\ Pool!Spawn(w) <=> PoolProofs!Spawn(w)
          /\ Pool!Poll(w) <=> PoolProofs!Poll(w)
          /\ Pool!Drain(w) <=> PoolProofs!Drain(w)
          /\ Pool!TryPop(w) <=> PoolProofs!TryPop(w)
          /\ Pool!RunTask(w) <=> PoolProofs!RunTask(w)
          /\ \A t : Pool!Submit(w, t) <=> PoolProofs!Submit(w, t)
    /\ \A t : Pool!Get(t) <=> PoolProofs!Get(t)
    /\ Pool!SpawnFails <=> PoolProofs!SpawnFails
    /\ Pool!GetReturns <=> PoolProofs!GetReturns
    /\ Pool!Destroy <=> PoolProofs!Destroy
    /\ Pool!Join <=> PoolProofs!Join
<1>1. Pool!Init <=> PoolProofs!Init
  BY DEF Pool!Init, PoolProofs!Init, Pool!Workers, PoolProofs!Workers
<1>2. Pool!Workers = Handlers /\ PoolProofs!Workers = Handlers
  BY DEF Pool!Workers, PoolProofs!Workers, Handlers
<1> USE DEF Pool!OwnerFree, PoolProofs!OwnerFree, Pool!owner, PoolProofs!owner,
            Pool!workers, PoolProofs!workers, Pool!history, PoolProofs!history,
            Pool!At, PoolProofs!At, Pool!GoTo, PoolProofs!GoTo
<1>3. ASSUME NEW w \in Handlers
      PROVE  /\ Pool!Spawn(w) <=> PoolProofs!Spawn(w)
             /\ Pool!Poll(w) <=> PoolProofs!Poll(w)
             /\ Pool!Drain(w) <=> PoolProofs!Drain(w)
             /\ Pool!TryPop(w) <=> PoolProofs!TryPop(w)
             /\ Pool!RunTask(w) <=> PoolProofs!RunTask(w)
             /\ \A t : Pool!Submit(w, t) <=> PoolProofs!Submit(w, t)
  <2>1. Pool!Spawn(w) <=> PoolProofs!Spawn(w)
    BY DEF Pool!Spawn, PoolProofs!Spawn
  <2>2. (Pool!Poll(w) <=> PoolProofs!Poll(w)) /\ (Pool!Drain(w) <=> PoolProofs!Drain(w))
    BY DEF Pool!Poll, PoolProofs!Poll, Pool!Drain, PoolProofs!Drain
  <2>3. Pool!TryPop(w) <=> PoolProofs!TryPop(w)
    BY DEF Pool!TryPop, PoolProofs!TryPop
  <2>4. Pool!RunTask(w) <=> PoolProofs!RunTask(w)
    BY DEF Pool!RunTask, PoolProofs!RunTask, Pool!Keep, PoolProofs!Keep
  <2>5. \A t : Pool!Submit(w, t) <=> PoolProofs!Submit(w, t)
    BY DEF Pool!Submit, PoolProofs!Submit
  <2> QED BY <2>1, <2>2, <2>3, <2>4, <2>5
<1>4. /\ \A t : Pool!Get(t) <=> PoolProofs!Get(t)
      /\ Pool!SpawnFails <=> PoolProofs!SpawnFails
      /\ Pool!GetReturns <=> PoolProofs!GetReturns
      /\ Pool!Destroy <=> PoolProofs!Destroy
      /\ Pool!Join <=> PoolProofs!Join
  BY DEF Pool!Get, PoolProofs!Get, Pool!SpawnFails, PoolProofs!SpawnFails,
         Pool!GetReturns, PoolProofs!GetReturns, Pool!Destroy, PoolProofs!Destroy,
         Pool!Join, PoolProofs!Join, Pool!Workers, PoolProofs!Workers
<1> QED BY <1>1, <1>2, <1>3, <1>4

-----------------------------------------------------------------------------
(* The caller's requests.                                                  *)

\* A request about a life is a task of the pool, and may be submitted.
LEMMA SendIsSubmit ==
    ASSUME NEW w \in Handlers, NEW op \in Ops, NEW l \in Lives, NEW h \in Handlers,
           Send(w, op, l, h)
    PROVE  /\ [op |-> op, life |-> l, handler |-> h] \in BookTasks
           /\ PoolProofs!Act
           /\ PoolProofs!Submit(w, [op |-> op, life |-> l, handler |-> h])
<1>1. [op |-> op, life |-> l, handler |-> h] \in BookTasks
  BY DEF BookTasks, Ops
<1>2. PoolProofs!Submit(w, [op |-> op, life |-> l, handler |-> h])
  BY SamePool DEF Send
<1> QED BY <1>1, <1>2, SamePool DEF PoolProofs!Act

\* What the three kinds of requests send.
LEMMA RequestSends ==
    ASSUME Typed, Recorded, NEW s \in Symbols
    PROVE  /\ addSymbol(s) =>
                 /\ symbol_submission_index \in Handlers
                 /\ <<s, life[s] + 1>> \in Lives
           /\ s \in DOMAIN id_to_submission_index =>
                 /\ getSubmissionIndex(s) = id_to_submission_index[s]
                 /\ getSubmissionIndex(s) \in Handlers
                 /\ symbol_submission_index \in Handlers
                 /\ <<s, life[s]>> \in Lives
<1>1. life[s] \in 0 .. MaxLives /\ MaxLives \in Nat
  BY MarketAssumption DEF Typed, TypeOK
<1>2. ASSUME addSymbol(s)
      PROVE  symbol_submission_index \in Handlers /\ <<s, life[s] + 1>> \in Lives
  BY <1>1, <1>2 DEF addSymbol, Typed, TypeOK, Lives
<1>3. ASSUME s \in DOMAIN id_to_submission_index
      PROVE  /\ getSubmissionIndex(s) = id_to_submission_index[s]
             /\ getSubmissionIndex(s) \in Handlers
             /\ symbol_submission_index \in Handlers
             /\ <<s, life[s]>> \in Lives
  BY <1>1, <1>3 DEF getSubmissionIndex, Recorded, Typed, TypeOK, Lives
<1> QED BY <1>2, <1>3

\* Every step of the market is a step of the pool, or leaves it alone.
LEMMA PoolAct == ASSUME Typed, Recorded, [Next]_vars PROVE [PoolProofs!Act]_(PoolProofs!vars)
<1>1. ASSUME NEW s \in Symbols, addSymbol(s) PROVE PoolProofs!Act
  BY <1>1, RequestSends, SendIsSubmit DEF addSymbol, Ops
<1>2. ASSUME NEW s \in Symbols, deleteSymbol(s) PROVE PoolProofs!Act
  BY <1>2, RequestSends, SendIsSubmit DEF deleteSymbol, Ops
<1>3. ASSUME NEW s \in Symbols, NEW op \in Orders, OrderRequest(s, op) PROVE PoolProofs!Act
  BY <1>3, RequestSends, SendIsSubmit DEF OrderRequest, Ops, HandlerAt
<1>4. CASE EraseSymbol \/ toString \/ ReturnListing \/ UNCHANGED vars
  BY <1>4 DEF EraseSymbol, toString, ReturnListing, pool, vars, PoolProofs!vars,
              PoolProofs!owner, PoolProofs!workers, PoolProofs!history
<1>5. CASE SubmitListing
  <2>1. call.handler \in Handlers
    BY <1>5 DEF SubmitListing, Step, Typed, Calls, Idle
  <2>2. ListTask(call.handler) \in ListTasks
    BY <2>1 DEF ListTask, ListTasks
  <2> QED BY <1>5, <2>1, <2>2, SamePool DEF SubmitListing, PoolProofs!Act
<1>6. CASE AwaitListing
  <2>1. call.handler \in Handlers
    BY <1>6 DEF AwaitListing, Typed, Calls, Idle
  <2>2. ListTask(call.handler) \in ListTasks
    BY <2>1 DEF ListTask, ListTasks
  <2> QED BY <1>6, <2>1, <2>2, SamePool DEF AwaitListing, PoolProofs!Act
<1>7. CASE TakeListing
  BY <1>7, SamePool DEF TakeListing, PoolProofs!Act
<1>8. ASSUME NEW w \in Handlers, ServeTask(w) PROVE PoolProofs!Act
  BY <1>8, SamePool DEF ServeTask, PoolProofs!Act, PoolProofs!Work
<1>9. CASE PoolStep
  BY <1>9, SamePool DEF PoolStep, PoolProofs!Act, PoolProofs!Work
<1> QED BY <1>1, <1>2, <1>3, <1>4, <1>5, <1>6, <1>7, <1>8, <1>9 DEF Next, Request, List

\* The pool keeps its invariant.
LEMMA PoolInvStep ==
    ASSUME PoolProofs!Inv, Typed, Recorded, [Next]_vars
    PROVE  PoolProofs!Inv'
BY PoolAct, PoolAssumed, PoolProofs!TypeStep, PoolProofs!OrderStep, PoolProofs!AccountedStep
   DEF PoolProofs!Inv

\* Task t comes last in the queue of worker w.
Sent(w, t) ==
    /\ phase = "ready" /\ getting = NoTask
    /\ UNCHANGED <<phase, running, getting, ran>>
    /\ Len(submitted[w]) \in Nat /\ Len(submitted'[w]) = Len(submitted[w]) + 1
    /\ submitted'[w][Len(submitted[w]) + 1] = t
    /\ \A i \in 1 .. Len(submitted[w]) : submitted'[w][i] = submitted[w][i]
    /\ due'[w] = due[w] + 1
    /\ \A v \in Handlers \ {w} : submitted'[v] = submitted[v] /\ due'[v] = due[v]

LEMMA SubmitSends ==
    ASSUME PoolProofs!Inv, AllDue, NEW w \in Handlers, NEW t \in ListTasks \cup BookTasks,
           PoolProofs!Submit(w, t)
    PROVE  /\ Sent(w, t)
           /\ promise' = [u \in ListTasks |-> IF u = t THEN "unset" ELSE promise[u]]
<1> DEFINE All == ListTasks \cup BookTasks
<1>1. /\ submitted \in [Handlers -> Seq(All)] /\ due \in [Handlers -> Nat]
  BY SamePool DEF PoolProofs!Inv, PoolProofs!TypeOK
<1>2. /\ phase = "ready" /\ getting = NoTask
      /\ UNCHANGED <<phase, running, getting, ran>>
      /\ submitted' = [submitted EXCEPT ![w] = Append(@, t)]
      /\ due' = IF running THEN [due EXCEPT ![w] = @ + 1] ELSE due
      /\ promise' = [u \in ListTasks |-> IF u = t THEN "unset" ELSE promise[u]]
  BY DEF PoolProofs!Submit, PoolProofs!OwnerFree, PoolProofs!owner
<1>3. due' = [due EXCEPT ![w] = @ + 1]
  BY <1>2 DEF AllDue
<1>4. /\ submitted[w] \in Seq(All) /\ submitted'[w] = Append(submitted[w], t)
      /\ \A v \in Handlers \ {w} : submitted'[v] = submitted[v]
  BY <1>1, <1>2
<1>5. /\ due'[w] = due[w] + 1
      /\ \A v \in Handlers \ {w} : due'[v] = due[v]
  BY <1>1, <1>3
<1>6. /\ Len(submitted[w]) \in Nat /\ Len(submitted'[w]) = Len(submitted[w]) + 1
      /\ submitted'[w][Len(submitted[w]) + 1] = t
      /\ \A i \in 1 .. Len(submitted[w]) : submitted'[w][i] = submitted[w][i]
  BY <1>4
<1> QED BY <1>2, <1>4, <1>5, <1>6 DEF Sent

\* What a request changes.
LEMMA SendEffect ==
    ASSUME Typed, PoolProofs!Inv, AllDue,
           NEW w \in Handlers, NEW op \in Ops, NEW l \in Lives, NEW h \in Handlers,
           Send(w, op, l, h)
    PROVE  \E t \in BookTasks :
              /\ call = Idle /\ Sent(w, t) /\ UNCHANGED handled
              /\ \A u \in ListTasks : promise'[u] = promise[u]
              /\ requested' = [requested EXCEPT ![l] = Append(@, op)]
              /\ t.life = l /\ t.op = op /\ t.handler = h
              /\ t \notin ListTasks
<1> DEFINE t == [op |-> op, life |-> l, handler |-> h]
<1>1. t \in BookTasks /\ t.life = l /\ t.op = op /\ t.handler = h /\ t.op # "toString"
  BY MarketAssumption DEF BookTasks, Ops
<1>2. t \notin ListTasks
  BY <1>1 DEF ListTasks
<1>3. PoolProofs!Submit(w, t)
  BY SendIsSubmit
<1>4. Sent(w, t) /\ \A u \in ListTasks : promise'[u] = promise[u]
  BY <1>1, <1>2, <1>3, SubmitSends
<1> HIDE DEF t
<1> QED BY <1>1, <1>2, <1>4 DEF Send

\* What the submission of a listing changes.
LEMMA SubmitListingEffect ==
    ASSUME Typed, PoolProofs!Inv, AllDue, SubmitListing,
           NEW h, h = call.handler
    PROVE  /\ h \in Handlers /\ call.at = "list" /\ Sent(h, ListTask(h))
           /\ UNCHANGED <<id_to_submission_index, symbol_submission_index, asked, handled>>
           /\ promise' = [u \in ListTasks |-> IF u = ListTask(h) THEN "unset" ELSE promise[u]]
           /\ call' = IF h < NumThreads - 1 THEN [at |-> "list", handler |-> h + 1]
                                            ELSE [at |-> "wait", handler |-> 0]
           /\ ListTask(h) \in ListTasks
           /\ \A l \in Lives : ~About(ListTask(h), l)
<1>1. call \in Calls /\ call.at = "list"
  BY DEF SubmitListing, Step, Typed
<1>2. h \in Handlers /\ call = [at |-> "list", handler |-> h]
  BY <1>1 DEF Calls, Idle
<1>3. ListTask(h) \in ListTasks /\ ListTask(h).op = "toString"
  BY <1>2 DEF ListTask, ListTasks
<1>4. \A l \in Lives : ~About(ListTask(h), l)
  BY <1>3, MarketAssumption DEF About, BookTasks
<1>5. PoolProofs!Submit(h, ListTask(h))
  BY <1>2, SamePool DEF SubmitListing
<1>6. /\ Sent(h, ListTask(h))
      /\ promise' = [u \in ListTasks |-> IF u = ListTask(h) THEN "unset" ELSE promise[u]]
  BY <1>2, <1>3, <1>5, SubmitSends
<1>8. call' = IF h < NumThreads - 1 THEN [at |-> "list", handler |-> h + 1]
                                    ELSE [at |-> "wait", handler |-> 0]
  <2>1. call' = IF h < NumThreads - 1 THEN [call EXCEPT !.handler = h + 1]
                                      ELSE [at |-> "wait", handler |-> 0]
    BY DEF SubmitListing, Step
  <2>2. [call EXCEPT !.handler = h + 1] = [at |-> "list", handler |-> h + 1]
    BY <1>2
  <2> QED BY <2>1, <2>2
<1> QED BY <1>1, <1>2, <1>3, <1>4, <1>6, <1>8 DEF SubmitListing, Step

\* The task in hand comes after those that have run.
LEMMA InTheMiddle ==
    ASSUME NEW S, NEW r \in Seq(S), NEW t \in S, NEW q \in Seq(S)
    PROVE  /\ Len(r) + 1 \in 1 .. Len(r \o <<t>> \o q)
           /\ (r \o <<t>> \o q)[Len(r) + 1] = t
<1>1. /\ <<t>> \in Seq(S) /\ Len(<<t>>) = 1 /\ <<t>>[1] = t
      /\ Len(r) \in Nat /\ Len(q) \in Nat
  OBVIOUS
<1>2. /\ r \o <<t>> \in Seq(S) /\ Len(r \o <<t>>) = Len(r) + 1
      /\ (r \o <<t>>)[Len(r) + 1] = t
  BY <1>1, ConcatProperties
<1>3. Len(r \o <<t>> \o q) = Len(r) + 1 + Len(q)
  BY <1>2, ConcatProperties
<1> QED BY <1>1, <1>2, <1>3, ConcatProperties

LEMMA InHandNext ==
    ASSUME PoolProofs!Inv, NEW w \in Handlers, task[w] # NoTask
    PROVE  /\ Len(ran[w]) + 1 \in 1 .. Len(submitted[w])
           /\ submitted[w][Len(ran[w]) + 1] = task[w]
           /\ task[w] \in ListTasks \cup BookTasks
<1> DEFINE All == ListTasks \cup BookTasks
<1>1. /\ ran[w] \in Seq(All) /\ queues[w] \in Seq(All) /\ task[w] \in All
  BY SamePool DEF PoolProofs!Inv, PoolProofs!TypeOK
<1>2. submitted[w] = ran[w] \o <<task[w]>> \o queues[w]
  BY SamePool DEF PoolProofs!Inv, PoolProofs!RunsInOrder, PoolProofs!InHand
<1> HIDE DEF All
<1>3. ASSUME NEW r \in Seq(All), NEW t \in All, NEW q \in Seq(All)
      PROVE  /\ Len(r) + 1 \in 1 .. Len(r \o <<t>> \o q)
             /\ (r \o <<t>> \o q)[Len(r) + 1] = t
  BY InTheMiddle
<1>4. /\ Len(ran[w]) + 1 \in 1 .. Len(ran[w] \o <<task[w]>> \o queues[w])
      /\ (ran[w] \o <<task[w]>> \o queues[w])[Len(ran[w]) + 1] = task[w]
  BY <1>1, <1>3
<1> QED BY <1>1, <1>2, <1>4 DEF All

\* What a worker changes when it has run its task: it is the task after those it has
\* run, and the caller's variables stay.
LEMMA ServeEffect ==
    ASSUME PoolProofs!Inv, NEW w \in Handlers, ServeTask(w)
    PROVE  /\ Len(ran[w]) + 1 \in 1 .. Len(submitted[w])
           /\ submitted[w][Len(ran[w]) + 1] = task[w]
           /\ task[w] \in ListTasks \cup BookTasks
           /\ Len(ran'[w]) = Len(ran[w]) + 1
           /\ \A v \in Handlers \ {w} : ran'[v] = ran[v]
           /\ UNCHANGED <<submitted, phase, running, getting, due, caller, asked>>
           /\ promise' = IF task[w] \in ListTasks THEN [promise EXCEPT ![task[w]] = "value"]
                                                  ELSE promise
<1> DEFINE All == ListTasks \cup BookTasks
<1>1. PoolProofs!RunTask(w)
  BY SamePool DEF ServeTask
<1>2. task[w] # NoTask
  <2>1. thread[w] = "task"
    BY <1>1 DEF PoolProofs!RunTask, PoolProofs!At
  <2> QED BY <2>1, SamePool DEF PoolProofs!Inv, PoolProofs!TypeOK
<1>3. /\ ran' = [ran EXCEPT ![w] = Append(@, task[w])]
      /\ UNCHANGED <<submitted, phase, running, getting, due>>
      /\ promise' = IF task[w] \in ListTasks THEN [promise EXCEPT ![task[w]] = "value"]
                                             ELSE promise
  BY <1>1 DEF PoolProofs!RunTask, PoolProofs!Keep
<1>4. /\ Len(ran'[w]) = Len(ran[w]) + 1
      /\ \A v \in Handlers \ {w} : ran'[v] = ran[v]
  <2>1. ran \in [Handlers -> Seq(All)]
    BY SamePool DEF PoolProofs!Inv, PoolProofs!TypeOK
  <2> QED BY <1>2, <1>3, <2>1, InHandNext
<1> QED BY <1>2, <1>3, <1>4, InHandNext DEF ServeTask

\* The other steps submit nothing and finish nothing.
Quiet == UNCHANGED <<submitted, ran, due, id_to_book, served, requested, life, crashed>>

LEMMA QuietSteps ==
    ASSUME EraseSymbol \/ toString \/ AwaitListing \/ TakeListing \/ ReturnListing
             \/ PoolStep \/ UNCHANGED vars
    PROVE  Quiet
<1>1. CASE EraseSymbol \/ toString \/ ReturnListing \/ UNCHANGED vars
  BY <1>1 DEF EraseSymbol, toString, ReturnListing, Quiet, vars, pool, caller, asked, handled
<1>2. CASE AwaitListing
  BY <1>2, SamePool DEF AwaitListing, Quiet, asked, handled, PoolProofs!Get,
                        PoolProofs!workers, PoolProofs!history
<1>3. CASE TakeListing
  BY <1>3, SamePool DEF TakeListing, Step, Quiet, asked, handled, PoolProofs!GetReturns,
                        PoolProofs!history
<1>4. CASE PoolStep
  BY <1>4, SamePool
     DEF PoolStep, Quiet, asked, handled, PoolProofs!Spawn, PoolProofs!Poll, PoolProofs!Drain,
         PoolProofs!TryPop, PoolProofs!SpawnFails, PoolProofs!Destroy, PoolProofs!Join,
         PoolProofs!history
<1> QED BY <1>1, <1>2, <1>3, <1>4

-----------------------------------------------------------------------------
(* Types, and what the caller records.                                     *)

LEMMA InitMarket == ASSUME Init PROVE PoolProofs!Inv /\ Typed /\ AllDue
<1>1. PoolProofs!Inv
  BY SamePool, PoolAssumed, PoolProofs!InitInv DEF Init
<1>2. Typed
  <2>1. NumThreads \in Nat \ {0} /\ MaxLives \in Nat /\ 0 \in Handlers
    BY MarketAssumption DEF Handlers
  <2> QED BY <2>1 DEF Init, Typed, TypeOK, Calls, Idle
<1>3. AllDue
  BY SamePool DEF Init, AllDue, PoolProofs!Init
<1> QED BY <1>1, <1>2, <1>3

\* A task is a request about a life, or a listing; and tells which.
LEMMA TaskKinds ==
    ASSUME NEW t \in ListTasks \cup BookTasks
    PROVE  /\ t.handler \in Handlers
           /\ t.op = "toString" => t \in ListTasks /\ t = ListTask(t.handler)
           /\ t.op # "toString" => /\ t \in BookTasks /\ t \notin ListTasks /\ t.op \in Ops
                                   /\ t.life \in Lives /\ t.life[1] \in Symbols
                                   /\ t.life[2] \in 1 .. MaxLives
                                   /\ t.life = <<t.life[1], t.life[2]>>
           /\ t.op \in Ops => t.op # "toString"
<1>1. "toString" \notin Ops
  BY MarketAssumption DEF Ops
<1>2. CASE t \in ListTasks
  BY <1>1, <1>2 DEF ListTasks, ListTask
<1>3. CASE t \in BookTasks
  BY <1>1, <1>3 DEF BookTasks, ListTasks, Ops, Lives
<1> QED BY <1>2, <1>3

\* The three ways a request changes the map of its handler: an entry of it is added,
\* removed or extended.
Adds(t, s) ==
    /\ t.op = "addOrderBook" /\ s \notin DOMAIN id_to_book[t.handler]
    /\ SetBooks(t.handler, Put(id_to_book[t.handler], s, <<>>))

Removes(t, s) ==
    /\ t.op = "deleteOrderBook" /\ s \in DOMAIN id_to_book[t.handler]
    /\ SetBooks(t.handler, Restrict(id_to_book[t.handler], DOMAIN id_to_book[t.handler] \ {s}))

Extends(t, s) ==
    /\ t.op \in Orders /\ s \in DOMAIN id_to_book[t.handler]
    /\ SetBooks(t.handler, [id_to_book[t.handler] EXCEPT ![s] = Append(@, t.op)])

\* A worker lists its books, ends the process, or serves a request and records it.
LEMMA ServeCases ==
    ASSUME NEW w \in Handlers, ServeTask(w)
    PROVE  \/ ListBooks(task[w])
           \/ /\ task[w].op \in Ops
              /\ \/ Crash
                 \/ /\ Served(task[w])
                    /\ \/ Adds(task[w], task[w].life[1])
                       \/ Removes(task[w], task[w].life[1])
                       \/ Extends(task[w], task[w].life[1])
<1> DEFINE t == task[w]
           s == t.life[1]
<1>1. CASE addOrderBook(t, s)
  BY <1>1 DEF addOrderBook, Adds, Ops
<1>2. CASE deleteOrderBook(t, s)
  BY <1>2 DEF deleteOrderBook, Removes, Ops
<1>3. CASE ServeOrder(t, s)
  BY <1>3 DEF ServeOrder, Extends, Ops
<1> QED BY <1>1, <1>2, <1>3 DEF ServeTask

\* Every step keeps the types.
LEMMA TypedStep ==
    ASSUME Typed, Recorded, PoolProofs!Inv, AllDue, [Next]_vars
    PROVE  Typed'
<1> USE MarketAssumption
<1>1. ASSUME NEW s \in Symbols, addSymbol(s) PROVE Typed'
  <2> DEFINE l == <<s, life[s] + 1>>
  <2>1. l \in Lives /\ symbol_submission_index \in Handlers
    BY <1>1, RequestSends
  <2>2. /\ call = Idle /\ UNCHANGED handled
        /\ requested' = [requested EXCEPT ![l] = Append(@, "addOrderBook")]
    BY <1>1, <2>1 DEF addSymbol, Send
  <2>3. NextSubmissionIndex \in Handlers
    BY <2>1 DEF NextSubmissionIndex, Handlers
  <2>4. /\ UNCHANGED call /\ symbol_submission_index' = NextSubmissionIndex
        /\ id_to_submission_index' = Put(id_to_submission_index, s, symbol_submission_index)
        /\ life' = [life EXCEPT ![s] = @ + 1] /\ life[s] < MaxLives
    BY <1>1 DEF addSymbol
  <2>5. TypeOK'
    BY <2>1, <2>2, <2>3, <2>4 DEF Typed, TypeOK, Put, handled
  <2>6. requested' \in [Lives -> Seq(Ops)]
    BY <2>1, <2>2 DEF Typed, Ops
  <2> QED BY <2>2, <2>4, <2>5, <2>6 DEF Typed, handled, Idle
<1>2. ASSUME NEW s \in Symbols, deleteSymbol(s) PROVE Typed'
  <2> DEFINE l == <<s, life[s]>>
  <2>1. l \in Lives
    BY <1>2, RequestSends DEF deleteSymbol
  <2>2. /\ UNCHANGED <<handled, id_to_submission_index, symbol_submission_index, life>>
        /\ requested' = [requested EXCEPT ![l] = Append(@, "deleteOrderBook")]
        /\ call' = [at |-> "erase", symbol |-> s] /\ s \in DOMAIN id_to_submission_index
    BY <1>2 DEF deleteSymbol, Send
  <2>3. requested' \in [Lives -> Seq(Ops)]
    BY <2>1, <2>2 DEF Typed, Ops
  <2> QED BY <2>2, <2>3 DEF Typed, TypeOK, handled, Calls
<1>3. ASSUME NEW s \in Symbols, NEW op \in Orders, OrderRequest(s, op) PROVE Typed'
  <2> DEFINE l == <<s, life[s]>>
  <2>1. l \in Lives
    BY <1>3, RequestSends DEF OrderRequest
  <2>2. /\ UNCHANGED <<handled, caller, life>>
        /\ requested' = [requested EXCEPT ![l] = Append(@, op)]
    BY <1>3 DEF OrderRequest, Send
  <2>3. requested' \in [Lives -> Seq(Ops)]
    BY <2>1, <2>2 DEF Typed, Ops
  <2> QED BY <2>2, <2>3 DEF Typed, TypeOK, handled, caller
<1>4. CASE EraseSymbol
  BY <1>4 DEF EraseSymbol, Typed, TypeOK, Restrict, Idle, Calls, asked, handled
<1>5. CASE toString
  <2>1. 0 \in Handlers
    BY DEF Handlers
  <2> QED BY <1>5, <2>1 DEF toString, Typed, TypeOK, Calls, asked, handled
<1>6. CASE SubmitListing
  <2>1. call' \in Calls /\ call'.at # "erase"
    BY <1>6, SubmitListingEffect DEF Calls, Handlers
  <2> QED BY <1>6, <2>1, SubmitListingEffect DEF Typed, TypeOK, asked, handled
<1>7. CASE AwaitListing \/ PoolStep \/ UNCHANGED vars
  BY <1>7 DEF AwaitListing, PoolStep, vars, Typed, TypeOK, caller, asked, handled
<1>8. CASE TakeListing
  <2>1. call \in Calls /\ call.at = "wait"
    BY <1>8 DEF TakeListing, Step, Typed
  <2>2. call = [at |-> "wait", handler |-> call.handler] /\ call.handler \in Handlers
    BY <2>1 DEF Calls, Idle
  <2>3. PICK h \in Handlers : call = [at |-> "wait", handler |-> h]
    BY <2>2
  <2>4. call' = IF h < NumThreads - 1 THEN [at |-> "wait", handler |-> h + 1]
                                      ELSE [at |-> "listed", handler |-> 0]
    BY <1>8, <2>3 DEF TakeListing, Step
  <2>5. call' \in Calls /\ call'.at # "erase"
    BY <2>4 DEF Calls, Handlers
  <2> QED BY <1>8, <2>5 DEF TakeListing, Step, Typed, TypeOK, asked, handled
<1>9. CASE ReturnListing
  BY <1>9 DEF ReturnListing, Typed, TypeOK, Calls, Idle, asked
<1>10. ASSUME NEW w \in Handlers, ServeTask(w) PROVE Typed'
  <2> DEFINE t == task[w]
             h == t.handler
             l == t.life
             s == l[1]
  <2>1. t \in ListTasks \cup BookTasks /\ UNCHANGED <<caller, asked>>
    BY <1>10, ServeEffect
  <2>2. /\ h \in Handlers
        /\ t.op \in Ops => l \in Lives /\ s \in Symbols
    BY <2>1, TaskKinds
  <2> USE DEF Crash, Served, SetBooks, ListBooks
  <2>3. CASE ListBooks(t)
    BY <2>1, <2>2, <2>3 DEF Typed, TypeOK, caller, asked
  <2>4. CASE Crash
    BY <2>1, <2>2, <2>4 DEF Typed, TypeOK, caller, asked
  <2>5. CASE t.op \in Ops /\ Served(t) /\ (Adds(t, s) \/ Removes(t, s) \/ Extends(t, s))
    <3>1. served' \in [Lives -> Seq(Ops)] /\ UNCHANGED <<listing, crashed>>
      BY <2>2, <2>5 DEF Typed
    <3>2. /\ DOMAIN id_to_book = Handlers
          /\ \A g \in Handlers : DOMAIN id_to_book[g] \subseteq Symbols
      BY DEF Typed, TypeOK
    <3>3. /\ DOMAIN id_to_book' = Handlers
          /\ \A g \in Handlers : DOMAIN id_to_book'[g] \subseteq Symbols
      <4>1. CASE Adds(t, s)
        BY <2>2, <2>5, <3>2, <4>1 DEF Adds, Put
      <4>2. CASE Removes(t, s)
        BY <2>2, <2>5, <3>2, <4>2 DEF Removes, Restrict
      <4>3. CASE Extends(t, s)
        BY <2>2, <2>5, <3>2, <4>3 DEF Extends
      <4> QED BY <2>5, <4>1, <4>2, <4>3
    <3> QED BY <2>1, <3>1, <3>3 DEF Typed, TypeOK, caller, asked
  <2> QED BY <1>10, <2>3, <2>4, <2>5, ServeCases
<1> QED BY <1>1, <1>2, <1>3, <1>4, <1>5, <1>6, <1>7, <1>8, <1>9, <1>10
        DEF Next, Request, List

\* Every task is submitted to a running pool.
LEMMA AllDueStep ==
    ASSUME Typed, Recorded, PoolProofs!Inv, AllDue, [Next]_vars
    PROVE  AllDue'
<1>1. ASSUME NEW w \in Handlers, NEW t, Sent(w, t) PROVE AllDue'
  BY <1>1 DEF Sent, AllDue
<1>2. ASSUME NEW s \in Symbols, addSymbol(s) PROVE AllDue'
  <2>1. /\ <<s, life[s] + 1>> \in Lives /\ symbol_submission_index \in Handlers
        /\ "addOrderBook" \in Ops
        /\ Send(symbol_submission_index, "addOrderBook", <<s, life[s] + 1>>,
                symbol_submission_index)
    BY <1>2, RequestSends DEF addSymbol, Ops
  <2> QED BY <1>1, <2>1, SendEffect DEF AllDue
<1>3. ASSUME NEW s \in Symbols, deleteSymbol(s) PROVE AllDue'
  <2>1. /\ <<s, life[s]>> \in Lives /\ symbol_submission_index \in Handlers
        /\ "deleteOrderBook" \in Ops /\ getSubmissionIndex(s) \in Handlers
        /\ Send(getSubmissionIndex(s), "deleteOrderBook", <<s, life[s]>>,
                symbol_submission_index)
    BY <1>3, RequestSends DEF deleteSymbol, Ops
  <2> QED BY <1>1, <2>1, SendEffect DEF AllDue
<1>4. ASSUME NEW s \in Symbols, NEW op \in Orders, OrderRequest(s, op) PROVE AllDue'
  <2>1. /\ <<s, life[s]>> \in Lives /\ op \in Ops /\ getSubmissionIndex(s) \in Handlers
        /\ Send(getSubmissionIndex(s), op, <<s, life[s]>>, getSubmissionIndex(s))
    BY <1>4, RequestSends DEF OrderRequest, Ops, HandlerAt
  <2> QED BY <1>1, <2>1, SendEffect DEF AllDue
<1>5. CASE EraseSymbol \/ toString \/ ReturnListing \/ UNCHANGED vars
  BY <1>5 DEF EraseSymbol, toString, ReturnListing, pool, vars, AllDue
<1>6. CASE SubmitListing
  BY <1>1, <1>6, SubmitListingEffect DEF AllDue
<1>7. CASE AwaitListing \/ TakeListing
  BY <1>7, SamePool DEF AwaitListing, TakeListing, PoolProofs!Get, PoolProofs!GetReturns,
                        PoolProofs!history, PoolProofs!workers, AllDue
<1>8. ASSUME NEW w \in Handlers, ServeTask(w) PROVE AllDue'
  BY <1>8, ServeEffect DEF AllDue
<1>9. CASE PoolStep
  <2> USE DEF PoolProofs!history, PoolProofs!workers, PoolProofs!owner, AllDue
  <2>1. ASSUME NEW w \in Handlers, Pool!Spawn(w) PROVE AllDue'
    <3>1. PoolProofs!Spawn(w)
      BY <2>1, SamePool
    <3> QED BY <3>1 DEF PoolProofs!Spawn
  <2>2. ASSUME NEW w \in Handlers, Pool!Poll(w) \/ Pool!Drain(w) \/ Pool!TryPop(w)
        PROVE  AllDue'
    BY <2>2, SamePool DEF PoolProofs!Poll, PoolProofs!Drain, PoolProofs!TryPop
  <2>3. CASE Pool!SpawnFails \/ Pool!Destroy \/ Pool!Join
    BY <2>3, SamePool DEF PoolProofs!SpawnFails, PoolProofs!Destroy, PoolProofs!Join
  <2> QED BY <1>9, <2>1, <2>2, <2>3, SamePool DEF PoolStep
<1> QED BY <1>2, <1>3, <1>4, <1>5, <1>6, <1>7, <1>8, <1>9 DEF Next, Request, List

\* One more request about life l, and nothing else of what the caller has recorded.
LEMMA AppendRequest ==
    ASSUME Typed, NEW l \in Lives, NEW op \in Ops,
           requested' = [requested EXCEPT ![l] = Append(@, op)]
    PROVE  /\ requested[l] \in Seq(Ops) /\ Len(requested[l]) \in Nat
           /\ Len(requested'[l]) = Len(requested[l]) + 1
           /\ requested'[l][Len(requested[l]) + 1] = op
           /\ \A i \in 1 .. Len(requested[l]) : requested'[l][i] = requested[l][i]
           /\ \A m \in Lives \ {l} : requested'[m] = requested[m]
           /\ requested'[l] # <<>>
BY DEF Typed

\* Whether a life is on depends on the call only while it erases a symbol.
LEMMA OpenUnchanged ==
    ASSUME UNCHANGED <<id_to_submission_index, life>>, call.at # "erase" \/ call' = call,
           call'.at # "erase" \/ call' = call
    PROVE  \A s, n : Open(s, n)' <=> Open(s, n)
<1>1. CASE call' = call
  BY <1>1 DEF Open
<1>2. CASE call.at # "erase" /\ call'.at # "erase"
  <2>1. \A s : call # [at |-> "erase", symbol |-> s] /\ call' # [at |-> "erase", symbol |-> s]
    BY <1>2
  <2> QED BY <2>1 DEF Open
<1> QED BY <1>1, <1>2

LEMMA RecordedUnchanged ==
    ASSUME Recorded, UNCHANGED <<id_to_submission_index, life, requested>>,
           call.at # "erase" \/ call' = call, call'.at # "erase" \/ call' = call
    PROVE  Recorded'
BY OpenUnchanged DEF Recorded

\* The caller adds a symbol first and deletes it last, whatever happens in between.
LEMMA RecordedStep ==
    ASSUME Typed, Recorded, PoolProofs!Inv, AllDue, [Next]_vars
    PROVE  Recorded'
<1>1. /\ life \in [Symbols -> 0 .. MaxLives] /\ MaxLives \in Nat
      /\ DOMAIN id_to_submission_index \subseteq Symbols
      /\ \A s \in Symbols, n \in 1 .. MaxLives :
            <<s, n>> \in Lives /\ requested[<<s, n>>] \in Seq(Ops)
  BY MarketAssumption DEF Typed, TypeOK, Lives
<1>2. ASSUME NEW s \in Symbols, addSymbol(s) PROVE Recorded'
  <2> DEFINE l == <<s, life[s] + 1>>
  <2>1. l \in Lives /\ "addOrderBook" \in Ops
    BY <1>2, RequestSends DEF Ops
  <2>2. /\ call = Idle /\ call' = call
        /\ requested' = [requested EXCEPT ![l] = Append(@, "addOrderBook")]
        /\ s \notin DOMAIN id_to_submission_index
        /\ DOMAIN id_to_submission_index' = DOMAIN id_to_submission_index \cup {s}
        /\ life' = [life EXCEPT ![s] = @ + 1] /\ life[s] < MaxLives
    BY <1>2, <2>1 DEF addSymbol, Send, Put
  <2>3. /\ life'[s] = life[s] + 1 /\ \A u \in Symbols \ {s} : life'[u] = life[u]
    BY <1>1, <2>2
  <2>4. \A u : call # [at |-> "erase", symbol |-> u] /\ call' # [at |-> "erase", symbol |-> u]
    BY <2>2 DEF Idle
  <2>5. \A u \in DOMAIN id_to_submission_index' : life'[u] > 0
    BY <1>1, <2>2, <2>3 DEF Recorded
  <2>6. ASSUME NEW u \in Symbols, NEW n \in 1 .. MaxLives, <<u, n>> # l
        PROVE  /\ requested'[<<u, n>>] = requested[<<u, n>>]
               /\ (n > life'[u]) <=> (n > life[u])
               /\ Open(u, n)' <=> Open(u, n)
    <3>1. requested'[<<u, n>>] = requested[<<u, n>>]
      BY <1>1, <2>1, <2>2, <2>6, AppendRequest
    <3>2. CASE u # s
      BY <2>2, <2>3, <2>4, <3>1, <3>2 DEF Open
    <3>3. CASE u = s
      <4>1. n # life[s] + 1 /\ life[s] \in Nat
        BY <1>1, <2>6, <3>3
      <4> QED BY <2>2, <2>3, <3>1, <3>3, <4>1 DEF Open
    <3> QED BY <3>2, <3>3
  <2>7. life[s] + 1 \in 1 .. MaxLives /\ requested[l] = <<>>
    BY <1>1, <2>2 DEF Recorded
  <2>8. \A n : n = life[s] + 1 => Open(s, n)'
    BY <2>2, <2>3, <2>4 DEF Open
  <2>9. /\ requested'[l] # <<>> /\ Len(requested'[l]) = 1 /\ requested'[l][1] = "addOrderBook"
    <3>1. Len(requested[l]) = 0
      BY <2>7
    <3>2. /\ Len(requested'[l]) = Len(requested[l]) + 1 /\ requested'[l] # <<>>
          /\ requested'[l][Len(requested[l]) + 1] = "addOrderBook"
      BY <2>1, <2>2, AppendRequest
    <3> QED BY <3>1, <3>2
  <2>10. ASSUME NEW u \in Symbols, NEW n \in 1 .. MaxLives, NEW q, q = requested'[<<u, n>>]
         PROVE  /\ (q = <<>>) <=> (n > life'[u])
                /\ \A i \in 1 .. Len(q) : (q[i] = "addOrderBook") <=> (i = 1)
                /\ \A i \in 1 .. Len(q) : (q[i] = "deleteOrderBook")
                                              <=> (i = Len(q) /\ ~Open(u, n)')
    <3>1. CASE <<u, n>> = l
      <4>1. u = s /\ n = life[s] + 1 /\ Open(u, n)'
        BY <2>8, <3>1
      <4>2. q # <<>> /\ Len(q) = 1 /\ q[1] = "addOrderBook"
        BY <2>9, <2>10, <3>1
      <4>3. ~(n > life'[u])
        BY <1>1, <2>3, <4>1
      <4>4. ASSUME NEW i \in 1 .. Len(q) PROVE i = 1
        BY <4>2
      <4> QED BY <4>1, <4>2, <4>3, <4>4
    <3>2. CASE <<u, n>> # l
      BY <2>6, <2>10, <3>2 DEF Recorded
    <3> QED BY <3>1, <3>2
  <2> QED BY <2>5, <2>10 DEF Recorded
<1>3. ASSUME NEW s \in Symbols, NEW op \in Ops \ {"addOrderBook"},
             s \in DOMAIN id_to_submission_index, call = Idle,
             UNCHANGED <<id_to_submission_index, life>>,
             requested' = [requested EXCEPT ![<<s, life[s]>>] = Append(@, op)],
             IF op = "deleteOrderBook" THEN call' = [at |-> "erase", symbol |-> s]
                                       ELSE call' = call
      PROVE  Recorded'
  <2> DEFINE l == <<s, life[s]>>
             k == Len(requested[l])
  <2>1. life[s] \in 1 .. MaxLives /\ l \in Lives
    BY <1>1, <1>3 DEF Recorded
  <2>2. Open(s, life[s]) /\ Idle.at # "erase"
    BY <1>3 DEF Open, Idle
  <2>3. \A u : u # s => call' # [at |-> "erase", symbol |-> u]
    BY <1>3 DEF Idle
  <2>4. Open(s, life[s])' <=> op # "deleteOrderBook"
    BY <1>3, <2>2 DEF Open, Idle
  <2>5. ASSUME NEW u \in Symbols, NEW n \in 1 .. MaxLives, <<u, n>> # l
        PROVE  requested'[<<u, n>>] = requested[<<u, n>>] /\ (Open(u, n)' <=> Open(u, n))
    <3>1. requested'[<<u, n>>] = requested[<<u, n>>]
      BY <1>1, <1>3, <2>1, <2>5, AppendRequest
    <3>2. CASE u # s
      BY <1>3, <2>2, <2>3, <3>2 DEF Open
    <3>3. CASE u = s /\ n # life[s]
      BY <1>3, <3>3 DEF Open
    <3> QED BY <2>5, <3>1, <3>2, <3>3
  <2>6. /\ k \in Nat /\ requested[l] # <<>>
        /\ \A i \in 1 .. k : (requested[l][i] = "addOrderBook") <=> (i = 1)
        /\ \A i \in 1 .. k : requested[l][i] # "deleteOrderBook"
    <3>1. ~(life[s] > life[s])
      BY <2>1
    <3> QED BY <1>1, <2>1, <2>2, <3>1 DEF Recorded
  <2>7. k > 0
    BY <1>1, <2>1, <2>6, EmptySeq
  <2>8. /\ requested'[l] # <<>> /\ Len(requested'[l]) = k + 1 /\ requested'[l][k + 1] = op
        /\ \A i \in 1 .. k : requested'[l][i] = requested[l][i]
    BY <1>3, <2>1, AppendRequest
  <2>9. ASSUME NEW u \in Symbols, NEW n \in 1 .. MaxLives, NEW q, q = requested'[<<u, n>>]
        PROVE  /\ (q = <<>>) <=> (n > life'[u])
               /\ \A i \in 1 .. Len(q) : (q[i] = "addOrderBook") <=> (i = 1)
               /\ \A i \in 1 .. Len(q) : (q[i] = "deleteOrderBook")
                                             <=> (i = Len(q) /\ ~Open(u, n)')
    <3>1. CASE <<u, n>> = l
      <4>1. u = s /\ n = life[s]
        BY <3>1
      <4>2. q = requested'[l] /\ Len(q) = k + 1
        BY <2>8, <2>9, <3>1
      <4>3. ~(n > life'[u])
        BY <1>3, <2>1, <4>1
      <4>4. ASSUME NEW i \in 1 .. k + 1
            PROVE  /\ (q[i] = "addOrderBook") <=> (i = 1)
                   /\ (q[i] = "deleteOrderBook") <=> (i = k + 1 /\ op = "deleteOrderBook")
        <5>1. CASE i = k + 1
          BY <1>3, <2>6, <2>7, <2>8, <4>2, <5>1
        <5>2. CASE i \in 1 .. k
          BY <2>6, <2>8, <4>2, <5>2
        <5> QED BY <2>6, <4>4, <5>1, <5>2
      <4>5. Open(u, n)' <=> op # "deleteOrderBook"
        BY <1>3, <2>4, <4>1
      <4> QED BY <2>8, <4>2, <4>3, <4>4, <4>5
    <3>2. CASE <<u, n>> # l
      BY <1>3, <2>5, <2>9, <3>2 DEF Recorded
    <3> QED BY <3>1, <3>2
  <2> QED BY <1>3, <2>9 DEF Recorded
<1>4. ASSUME NEW s \in Symbols, deleteSymbol(s) PROVE Recorded'
  <2>1. "deleteOrderBook" \in Ops \ {"addOrderBook"}
    BY DEF Ops
  <2>2. /\ s \in DOMAIN id_to_submission_index /\ call = Idle
        /\ UNCHANGED <<id_to_submission_index, life>>
        /\ requested' = [requested EXCEPT ![<<s, life[s]>>] = Append(@, "deleteOrderBook")]
        /\ call' = [at |-> "erase", symbol |-> s]
    BY <1>4 DEF deleteSymbol, Send
  <2> QED BY <1>3, <2>1, <2>2
<1>5. ASSUME NEW s \in Symbols, NEW op \in Orders, OrderRequest(s, op) PROVE Recorded'
  <2>1. op \in Ops \ {"addOrderBook"} /\ op # "deleteOrderBook"
    BY MarketAssumption DEF Ops
  <2>2. /\ s \in DOMAIN id_to_submission_index /\ call = Idle
        /\ UNCHANGED <<id_to_submission_index, life, call>>
        /\ requested' = [requested EXCEPT ![<<s, life[s]>>] = Append(@, op)]
    BY <1>5 DEF OrderRequest, Send, caller
  <2> QED BY <1>3, <2>1, <2>2
<1>6. CASE EraseSymbol
  <2>1. PICK s \in Symbols : call = [at |-> "erase", symbol |-> s]
    BY <1>6 DEF EraseSymbol, Typed, Calls, Idle
  <2>2. /\ DOMAIN id_to_submission_index' = DOMAIN id_to_submission_index \ {s}
        /\ call' = Idle /\ UNCHANGED <<life, requested>>
    BY <1>6, <2>1 DEF EraseSymbol, Restrict, asked
  <2>3. ASSUME NEW u, NEW n PROVE Open(u, n)' <=> Open(u, n)
    BY <2>1, <2>2 DEF Open, Idle
  <2> QED BY <2>2, <2>3 DEF Recorded
<1>7. CASE toString
  BY <1>7, RecordedUnchanged DEF toString, Idle, asked
<1>8. CASE SubmitListing
  <2>1. call'.at # "erase" /\ call.at # "erase" 
    BY <1>8, SubmitListingEffect
  <2> QED BY <1>8, <2>1, SubmitListingEffect, RecordedUnchanged DEF asked
<1>9. CASE AwaitListing \/ PoolStep \/ UNCHANGED vars
  BY <1>9, RecordedUnchanged DEF AwaitListing, PoolStep, vars, caller, asked
<1>10. CASE TakeListing
  <2>1. call \in Calls /\ call.at = "wait"
    BY <1>10 DEF TakeListing, Step, Typed
  <2>2. PICK h \in Handlers : call = [at |-> "wait", handler |-> h]
    BY <2>1 DEF Calls, Idle
  <2>3. call' = IF h < NumThreads - 1 THEN [at |-> "wait", handler |-> h + 1]
                                      ELSE [at |-> "listed", handler |-> 0]
    BY <1>10, <2>2 DEF TakeListing, Step
  <2>4. call'.at # "erase"
    BY <2>3
  <2> QED BY <1>10, <2>1, <2>4, RecordedUnchanged DEF TakeListing, Step, asked
<1>11. CASE ReturnListing
  BY <1>11, RecordedUnchanged DEF ReturnListing, Idle, asked
<1>12. ASSUME NEW w \in Handlers, ServeTask(w) PROVE Recorded'
  BY <1>12, RecordedUnchanged DEF ServeTask, caller, asked
<1> QED BY <1>2, <1>4, <1>5, <1>6, <1>7, <1>8, <1>9, <1>10, <1>11, <1>12
        DEF Next, Request, List

\* Nothing has been added yet.
LEMMA InitRecorded == ASSUME Init PROVE Recorded
<1>1. \A s \in Symbols, n \in 1 .. MaxLives : <<s, n>> \in Lives
  BY DEF Lives
<1> QED BY <1>1, MarketAssumption DEF Init, Recorded

-----------------------------------------------------------------------------
(* Delivery: where the requests of a life are among the tasks of a worker. *)

\* A worker has run no more than it was sent.
LEMMA RanBound ==
    ASSUME PoolProofs!Inv, NEW w \in Handlers
    PROVE  /\ Len(ran[w]) \in Nat /\ Len(submitted[w]) \in Nat
           /\ Len(ran[w]) <= Len(submitted[w])
<1> DEFINE All == ListTasks \cup BookTasks
<1>1. /\ submitted[w] \in Seq(All) /\ ran[w] \in Seq(All) /\ queues[w] \in Seq(All)
      /\ task[w] \in All \cup {NoTask}
  BY SamePool DEF PoolProofs!Inv, PoolProofs!TypeOK
<1>2. PICK h \in Seq(All) : submitted[w] = ran[w] \o h \o queues[w]
  <2>1. CASE task[w] = NoTask
    <3>1. <<>> \in Seq(All)
      OBVIOUS
    <3> QED BY <2>1, <3>1, SamePool
            DEF PoolProofs!Inv, PoolProofs!RunsInOrder, PoolProofs!InHand
  <2>2. CASE task[w] # NoTask
    <3>1. <<task[w]>> \in Seq(All)
      BY <1>1, <2>2
    <3> QED BY <2>2, <3>1, SamePool
            DEF PoolProofs!Inv, PoolProofs!RunsInOrder, PoolProofs!InHand
  <2> QED BY <2>1, <2>2
<1> HIDE DEF All
<1>3. ran[w] \o h \in Seq(All) /\ Len(ran[w] \o h) = Len(ran[w]) + Len(h)
  BY <1>1, ConcatProperties
<1>4. Len(submitted[w]) = Len(ran[w]) + Len(h) + Len(queues[w])
  BY <1>1, <1>2, <1>3, ConcatProperties
<1>5. Len(ran[w]) \in Nat /\ Len(h) \in Nat /\ Len(queues[w]) \in Nat
  BY <1>1
<1>6. \A a, b, c \in Nat : a + b + c \in Nat /\ a <= a + b + c
  OBVIOUS
<1> QED BY <1>4, <1>5, <1>6

\* The number of requests made of a life, and served.
LEMMA Lengths ==
    ASSUME Typed, NEW l \in Lives
    PROVE  Len(requested[l]) \in Nat /\ Len(served[l]) \in Nat
BY DEF Typed

\* Another task in a queue moves none of them.
LEMMA PlacedSent ==
    ASSUME Typed, NEW l \in Lives, NEW w \in Handlers, NEW pos, Placed(l, w, pos),
           NEW v \in Handlers, NEW t, Sent(v, t), ~About(t, l),
           requested'[l] = requested[l], served'[l] = served[l]
    PROVE  Placed(l, w, pos)'
<1>1. Len(requested[l]) \in Nat
  BY Lengths
<1>2. 1 .. Len(submitted[w]) \subseteq 1 .. Len(submitted'[w])
  BY DEF Sent
<1>3. \A i \in 1 .. Len(submitted[w]) : submitted'[w][i] = submitted[w][i]
  BY DEF Sent
<1>4. pos \in [1 .. Len(requested'[l]) -> 1 .. Len(submitted'[w])]
  BY <1>2 DEF Placed
<1>5. \A k \in 1 .. Len(requested'[l]) :
         /\ About(submitted'[w][pos[k]], l)
         /\ submitted'[w][pos[k]].op = requested'[l][k]
         /\ (k <= Len(served'[l])) <=> (pos[k] <= Len(ran'[w]))
  <2>1. ran' = ran
    BY DEF Sent
  <2>2. ASSUME NEW k \in 1 .. Len(requested[l])
        PROVE  /\ pos[k] \in 1 .. Len(submitted[w])
               /\ About(submitted[w][pos[k]], l)
               /\ submitted[w][pos[k]].op = requested[l][k]
               /\ (k <= Len(served[l])) <=> (pos[k] <= Len(ran[w]))
    BY DEF Placed
  <2> QED BY <1>3, <2>1, <2>2
<1>6. ASSUME NEW u \in Handlers, NEW i \in 1 .. Len(submitted'[u]), About(submitted'[u][i], l)
      PROVE  u = w /\ \E k \in 1 .. Len(requested'[l]) : pos[k] = i
  <2>1. i \in 1 .. Len(submitted[u]) /\ submitted'[u][i] = submitted[u][i]
    BY <1>6 DEF Sent
  <2> QED BY <1>6, <2>1 DEF Placed
<1> QED BY <1>4, <1>5, <1>6 DEF Placed, About

\* A request made of a life comes after those made before.
LEMMA PlacedRequest ==
    ASSUME Typed, PoolProofs!Inv, NEW l \in Lives, NEW w \in Handlers, NEW pos,
           Placed(l, w, pos), Len(served[l]) <= Len(requested[l]),
           NEW t, Sent(w, t), About(t, l), t.op \in Ops,
           requested' = [requested EXCEPT ![l] = Append(@, t.op)], served'[l] = served[l]
    PROVE  Delivered(l, w)'
<1> DEFINE k0 == Len(requested[l]) + 1
           i0 == Len(submitted[w]) + 1
<1>1. /\ Len(requested[l]) \in Nat /\ Len(served[l]) \in Nat /\ Len(submitted[w]) \in Nat
      /\ Len(ran[w]) \in Nat /\ Len(ran[w]) <= Len(submitted[w])
  BY Lengths, RanBound
<1>2. /\ Len(requested'[l]) = k0 /\ requested'[l][k0] = t.op
      /\ \A k \in 1 .. Len(requested[l]) : requested'[l][k] = requested[l][k]
  BY AppendRequest
<1>3. /\ Len(submitted'[w]) = i0 /\ submitted'[w][i0] = t /\ ran'[w] = ran[w]
      /\ \A i \in 1 .. Len(submitted[w]) : submitted'[w][i] = submitted[w][i]
  BY DEF Sent
<1>4. PICK new \in [1 .. k0 -> 1 .. i0] :
         /\ new[k0] = i0
         /\ \A k \in 1 .. Len(requested[l]) :
               new[k] = pos[k] /\ pos[k] \in 1 .. Len(submitted[w])
  <2>1. \A k \in 1 .. Len(requested[l]) : pos[k] \in 1 .. Len(submitted[w])
    BY DEF Placed
  <2>2. [k \in 1 .. k0 |-> IF k = k0 THEN i0 ELSE pos[k]] \in [1 .. k0 -> 1 .. i0]
    BY <1>1, <2>1
  <2>3. PICK f : f = [k \in 1 .. k0 |-> IF k = k0 THEN i0 ELSE pos[k]]
    OBVIOUS
  <2>4. f[k0] = i0 /\ \A k \in 1 .. Len(requested[l]) : f[k] = pos[k]
    BY <1>1, <2>3
  <2> QED BY <2>1, <2>2, <2>3, <2>4
<1>5. new \in [1 .. Len(requested'[l]) -> 1 .. Len(submitted'[w])]
  BY <1>2, <1>3
<1>6. ASSUME NEW j \in 1 .. k0, NEW k \in 1 .. k0, j < k PROVE new[j] < new[k]
  <2>1. j \in 1 .. Len(requested[l])
    BY <1>1, <1>6
  <2>2. CASE k = k0
    BY <1>1, <1>4, <2>1, <2>2
  <2>3. CASE k \in 1 .. Len(requested[l])
    BY <1>4, <1>6, <2>1, <2>3 DEF Placed
  <2> QED BY <1>1, <2>2, <2>3
<1>7. ASSUME NEW k \in 1 .. k0
      PROVE  /\ About(submitted'[w][new[k]], l)
             /\ submitted'[w][new[k]].op = requested'[l][k]
             /\ (k <= Len(served'[l])) <=> (new[k] <= Len(ran'[w]))
  <2>1. CASE k = k0
    BY <1>1, <1>2, <1>3, <1>4, <2>1
  <2>2. CASE k \in 1 .. Len(requested[l])
    <3>1. new[k] = pos[k] /\ submitted'[w][pos[k]] = submitted[w][pos[k]]
      BY <1>3, <1>4, <2>2
    <3>2. /\ About(submitted[w][pos[k]], l) /\ submitted[w][pos[k]].op = requested[l][k]
          /\ (k <= Len(served[l])) <=> (pos[k] <= Len(ran[w]))
      BY <2>2 DEF Placed
    <3> QED BY <1>2, <1>3, <2>2, <3>1, <3>2
  <2> QED BY <1>1, <2>1, <2>2
<1>8. ASSUME NEW u \in Handlers, NEW i \in 1 .. Len(submitted'[u]), About(submitted'[u][i], l)
      PROVE  u = w /\ \E k \in 1 .. k0 : new[k] = i
  <2>1. CASE u = w /\ i = i0
    BY <1>1, <1>4, <2>1
  <2>2. CASE ~(u = w /\ i = i0)
    <3>1. i \in 1 .. Len(submitted[u]) /\ submitted'[u][i] = submitted[u][i]
      <4>1. CASE u = w
        BY <1>1, <1>3, <1>8, <2>2, <4>1
      <4>2. CASE u # w
        BY <1>8, <4>2 DEF Sent
      <4> QED BY <4>1, <4>2
    <3>2. u = w /\ \E k \in 1 .. Len(requested[l]) : pos[k] = i
      BY <1>8, <3>1 DEF Placed
    <3> QED BY <1>1, <1>4, <3>2
  <2> QED BY <2>1, <2>2
<1>9. Placed(l, w, new)'
  BY <1>2, <1>5, <1>6, <1>7, <1>8 DEF Placed, About
<1> QED BY <1>5, <1>9 DEF Delivered

\* Worker w has run the next of its tasks.
Ran(w) ==
    /\ Len(ran[w]) \in Nat /\ Len(ran'[w]) = Len(ran[w]) + 1
    /\ Len(ran[w]) + 1 \in 1 .. Len(submitted[w])
    /\ \A v \in Handlers \ {w} : ran'[v] = ran[v]
    /\ submitted' = submitted

LEMMA ServeRan ==
    ASSUME PoolProofs!Inv, NEW w \in Handlers, ServeTask(w)
    PROVE  Ran(w) /\ submitted[w][Len(ran[w]) + 1] = task[w]
BY ServeEffect, RanBound DEF Ran

\* A task about something else serves none of them.
LEMMA PlacedOther ==
    ASSUME Typed, NEW l \in Lives, NEW w \in Handlers, NEW pos, Placed(l, w, pos),
           NEW v \in Handlers, Ran(v), ~About(submitted[v][Len(ran[v]) + 1], l),
           requested'[l] = requested[l], served'[l] = served[l]
    PROVE  Placed(l, w, pos)'
<1>1. ASSUME NEW k \in 1 .. Len(requested[l])
      PROVE  (k <= Len(served'[l])) <=> (pos[k] <= Len(ran'[w]))
  <2>1. About(submitted[w][pos[k]], l) /\ pos[k] \in Nat
    <3>1. pos \in [1 .. Len(requested[l]) -> 1 .. Len(submitted[w])]
      BY DEF Placed
    <3> QED BY <3>1 DEF Placed
  <2>2. CASE v = w
    <3>1. pos[k] # Len(ran[w]) + 1
      BY <2>1, <2>2
    <3> QED BY <2>1, <2>2, <3>1 DEF Placed, Ran
  <2>3. CASE v # w
    BY <2>3 DEF Placed, Ran
  <2> QED BY <2>2, <2>3
<1> QED BY <1>1 DEF Placed, About, Ran

\* A task about the life is the first of its requests that was not served.
LEMMA PlacedServed ==
    ASSUME Typed, NEW l \in Lives, NEW w \in Handlers, NEW pos, Placed(l, w, pos),
           NEW v \in Handlers, Ran(v), NEW t, t = submitted[v][Len(ran[v]) + 1], About(t, l),
           t.op \in Ops, requested'[l] = requested[l],
           served' = [served EXCEPT ![l] = Append(@, t.op)]
    PROVE  /\ v = w /\ Placed(l, w, pos)'
           /\ Len(served[l]) + 1 \in 1 .. Len(requested[l])
           /\ t.op = requested[l][Len(served[l]) + 1]
<1>1. /\ Len(requested[l]) \in Nat /\ Len(served[l]) \in Nat
      /\ Len(served'[l]) = Len(served[l]) + 1
  BY Lengths DEF Typed
<1>2. PICK k \in 1 .. Len(requested[l]) : v = w /\ pos[k] = Len(ran[w]) + 1
  BY DEF Placed, Ran
<1>3. /\ \A j \in 1 .. Len(requested[l]) :
            /\ pos[j] \in Nat
            /\ (j <= Len(served[l])) <=> (pos[j] <= Len(ran[w]))
      /\ \A i, j \in 1 .. Len(requested[l]) : i < j => pos[i] < pos[j]
  <2>1. pos \in [1 .. Len(requested[l]) -> 1 .. Len(submitted[w])]
    BY DEF Placed
  <2>2. \A j \in 1 .. Len(requested[l]) : (j <= Len(served[l])) <=> (pos[j] <= Len(ran[w]))
    BY DEF Placed
  <2>3. \A i, j \in 1 .. Len(requested[l]) : i < j => pos[i] < pos[j]
    BY DEF Placed
  <2>4. ASSUME NEW j \in 1 .. Len(requested[l]) PROVE pos[j] \in Nat
    BY <2>1
  <2> QED BY <2>2, <2>3, <2>4
<1>4. k > Len(served[l]) /\ Len(ran[w]) \in Nat
  <2>1. Len(ran[w]) \in Nat
    BY <1>2 DEF Ran
  <2> QED BY <1>1, <1>2, <1>3, <2>1
<1>5. k = Len(served[l]) + 1
  <2>1. SUFFICES ASSUME k > Len(served[l]) + 1 PROVE FALSE
    BY <1>1, <1>4
  <2>2. Len(served[l]) + 1 \in 1 .. Len(requested[l]) /\ Len(served[l]) + 1 < k
    BY <1>1, <2>1
  <2>3. pos[Len(served[l]) + 1] < Len(ran[w]) + 1 
    BY <1>2, <1>3, <2>2
  <2> QED BY <1>1, <1>3, <1>4, <2>2, <2>3
<1>6. ASSUME NEW j \in 1 .. Len(requested[l])
      PROVE  (j <= Len(served[l]) + 1) <=> (pos[j] <= Len(ran[w]) + 1)
  <2>1. CASE j <= k
    BY <1>1, <1>2, <1>3, <1>4, <1>5, <2>1
  <2>2. CASE j > k
    BY <1>1, <1>2, <1>3, <1>4, <1>5, <2>2
  <2> QED BY <2>1, <2>2
<1>7. Placed(l, w, pos)'
  <2>1. \A j \in 1 .. Len(requested[l]) :
           (j <= Len(served'[l])) <=> (pos[j] <= Len(ran'[w]))
    BY <1>1, <1>2, <1>6 DEF Ran
  <2>2. /\ requested'[l] = requested[l] /\ submitted' = submitted
        /\ pos \in [1 .. Len(requested[l]) -> 1 .. Len(submitted[w])]
        /\ \A i, j \in 1 .. Len(requested[l]) : i < j => pos[i] < pos[j]
    BY DEF Placed, Ran
  <2>3. \A j \in 1 .. Len(requested[l]) :
           /\ About(submitted[w][pos[j]], l)
           /\ submitted[w][pos[j]].op = requested[l][j]
    BY DEF Placed
  <2>4. \A u \in Handlers : \A i \in 1 .. Len(submitted[u]) :
           About(submitted[u][i], l) => u = w /\ \E j \in 1 .. Len(requested[l]) : pos[j] = i
    BY DEF Placed
  <2> QED BY <2>1, <2>2, <2>3, <2>4 DEF Placed, About
<1>8. t.op = requested[l][k]
  BY <1>2 DEF Placed
<1> QED BY <1>2, <1>5, <1>7, <1>8

\* A life nothing was requested of may begin at any worker.
LEMMA PlacedNowhere ==
    ASSUME Typed, NEW l \in Lives, requested[l] = <<>>, NEW w \in Handlers, Delivered(l, w),
           NEW v \in Handlers
    PROVE  Delivered(l, v)
<1>1. 1 .. Len(requested[l]) = {}
  BY DEF Typed
<1>2. PICK pos : Placed(l, w, pos)
  BY DEF Delivered
<1>3. \A u \in Handlers : \A i \in 1 .. Len(submitted[u]) : ~About(submitted[u][i], l)
  BY <1>1, <1>2 DEF Placed
<1>4. <<>> \in [{} -> 1 .. Len(submitted[v])]
  OBVIOUS
<1>5. Placed(l, v, <<>>)
  BY <1>1, <1>3, <1>4 DEF Placed
<1> QED BY <1>1, <1>4, <1>5 DEF Delivered

\* What holds of a life once its requests are all at worker w.
Kept(l) ==
    /\ Len(served[l]) <= Len(requested[l])
    /\ \A k \in 1 .. Len(served[l]) : served[l][k] = requested[l][k]

\* A request keeps the places of the others, and goes to the worker of its life.
LEMMA DeliverySend ==
    ASSUME Typed, PoolProofs!Inv, AllDue, Delivery,
           NEW w \in Handlers, NEW op \in Ops, NEW l \in Lives, NEW h \in Handlers,
           Delivered(l, w), Send(w, op, l, h)
    PROVE  /\ Delivered(l, w)'
           /\ \A m \in Lives, v \in Handlers : m # l /\ Delivered(m, v) => Delivered(m, v)'
           /\ \A m \in Lives : Kept(m)'
<1>1. PICK t \in BookTasks :
         /\ Sent(w, t) /\ UNCHANGED served
         /\ requested' = [requested EXCEPT ![l] = Append(@, op)]
         /\ t.life = l /\ t.op = op
  BY SendEffect DEF handled
<1>2. About(t, l) /\ \A m : m # l => ~About(t, m)
  BY <1>1 DEF About
<1>3. \A m \in Lives : Kept(m)
  BY DEF Delivery, Kept
<1>4. Delivered(l, w)'
  <2>1. PICK pos : Placed(l, w, pos)
    BY DEF Delivered
  <2> QED BY <1>1, <1>2, <1>3, <2>1, PlacedRequest DEF Kept
<1>5. ASSUME NEW m \in Lives, NEW v \in Handlers, m # l, Delivered(m, v)
      PROVE  Delivered(m, v)'
  <2>1. PICK pos : Placed(m, v, pos)
    BY <1>5 DEF Delivered
  <2>2. requested'[m] = requested[m]
    BY <1>1, <1>5, AppendRequest
  <2>3. Placed(m, v, pos)'
    BY <1>1, <1>2, <1>5, <2>1, <2>2, PlacedSent
  <2> QED BY <2>3 DEF Delivered, Placed
<1>6. ASSUME NEW m \in Lives PROVE Kept(m)'
  <2>1. CASE m # l
    <3>1. requested'[m] = requested[m]
      BY <1>1, <2>1, AppendRequest
    <3> QED BY <1>1, <1>3, <3>1 DEF Kept
  <2>2. CASE m = l
    <3>1. /\ Len(requested'[l]) = Len(requested[l]) + 1
          /\ \A k \in 1 .. Len(requested[l]) : requested'[l][k] = requested[l][k]
      BY <1>1, AppendRequest
    <3>2. Len(requested[l]) \in Nat /\ Len(served[l]) \in Nat
      BY Lengths
    <3> QED BY <1>1, <1>3, <2>2, <3>1, <3>2 DEF Kept
  <2> QED BY <2>1, <2>2
<1> QED BY <1>4, <1>5, <1>6

\* Worker w runs a task: the life it is about, if any, has one more request served.
LEMMA DeliveryServe ==
    ASSUME Typed, PoolProofs!Inv, Delivery, NEW w \in Handlers, ServeTask(w), ~crashed'
    PROVE  /\ \A m \in Lives, v \in Handlers : Delivered(m, v) => Delivered(m, v)'
           /\ \A m \in Lives : Kept(m)'
           /\ task[w].op \in Ops =>
                 /\ task[w].life \in Lives
                 /\ served' = [served EXCEPT ![task[w].life] = Append(@, task[w].op)]
                 /\ Len(served[task[w].life]) + 1 \in 1 .. Len(requested[task[w].life])
                 /\ task[w].op = requested[task[w].life][Len(served[task[w].life]) + 1]
<1> DEFINE t == task[w]
           l == t.life
<1>1. Ran(w) /\ submitted[w][Len(ran[w]) + 1] = t /\ UNCHANGED requested
  BY ServeRan, ServeEffect DEF asked
<1>2. t \in ListTasks \cup BookTasks
  BY ServeEffect
<1>3. \A m \in Lives : Kept(m)
  BY DEF Delivery, Kept
<1>4. CASE ListBooks(t)
  <2>1. t.op = "toString" /\ UNCHANGED served
    BY <1>4 DEF ListBooks
  <2>2. t.op \notin Ops /\ \A m \in Lives : ~About(t, m)
    BY <2>1, MarketAssumption DEF About, BookTasks, Ops
  <2>3. ASSUME NEW m \in Lives, NEW v \in Handlers, Delivered(m, v) PROVE Delivered(m, v)'
    <3>1. PICK pos : Placed(m, v, pos)
      BY <2>3 DEF Delivered
    <3>2. Placed(m, v, pos)'
      BY <1>1, <2>1, <2>2, <3>1, PlacedOther
    <3> QED BY <3>2 DEF Delivered, Placed
  <2>4. \A m \in Lives : Kept(m)'
    BY <1>1, <1>3, <2>1 DEF Kept
  <2> QED BY <2>2, <2>3, <2>4
<1>5. CASE t.op \in Ops /\ Served(t)
  <2>1. l \in Lives /\ About(t, l) /\ \A m : m # l => ~About(t, m)
    BY <1>2, <1>5, TaskKinds DEF About
  <2>2. served' = [served EXCEPT ![l] = Append(@, t.op)]
    BY <1>5 DEF Served
  <2>3. \A m \in Lives \ {l} : served'[m] = served[m]
    BY <2>2 DEF Typed
  <2>4. ASSUME NEW m \in Lives, NEW v \in Handlers, Delivered(m, v) PROVE Delivered(m, v)'
    <3>1. PICK pos : Placed(m, v, pos)
      BY <2>4 DEF Delivered
    <3>2. CASE m # l
      <4>1. Placed(m, v, pos)'
        BY <1>1, <2>1, <2>3, <3>1, <3>2, PlacedOther
      <4> QED BY <4>1 DEF Delivered, Placed
    <3>3. CASE m = l
      <4>1. Placed(m, v, pos)'
        BY <1>1, <1>5, <2>1, <2>2, <3>1, <3>3, PlacedServed
      <4> QED BY <4>1 DEF Delivered, Placed
    <3> QED BY <3>2, <3>3
  <2>5. Len(served[l]) + 1 \in 1 .. Len(requested[l]) /\ t.op = requested[l][Len(served[l]) + 1]
    <3>1. PICK v \in Handlers : Delivered(l, v)
      BY <2>1 DEF Delivery
    <3>2. PICK pos : Placed(l, v, pos)
      BY <3>1 DEF Delivered
    <3>3. PICK u : u = t
      OBVIOUS
    <3>4. About(u, l) /\ u.op \in Ops /\ u = submitted[w][Len(ran[w]) + 1]
      BY <1>1, <1>5, <2>1, <3>3
    <3>5. served' = [served EXCEPT ![l] = Append(@, u.op)] /\ requested'[l] = requested[l]
      BY <1>1, <2>2, <3>3
    <3> HIDE DEF l, t
    <3>6. Len(served[l]) + 1 \in 1 .. Len(requested[l]) /\ u.op = requested[l][Len(served[l]) + 1]
      BY <1>1, <2>1, <3>2, <3>4, <3>5, PlacedServed
    <3> QED BY <3>3, <3>6
  <2>6. ASSUME NEW m \in Lives PROVE Kept(m)'
    <3>1. CASE m # l
      BY <1>1, <1>3, <2>3, <3>1 DEF Kept
    <3>2. CASE m = l
      <4>1. /\ Len(served[l]) \in Nat /\ Len(served'[l]) = Len(served[l]) + 1
            /\ served'[l][Len(served[l]) + 1] = t.op
            /\ \A k \in 1 .. Len(served[l]) : served'[l][k] = served[l][k]
        BY <2>1, <2>2 DEF Typed
      <4>2. Len(served'[l]) <= Len(requested'[l])
        BY <1>1, <2>5, <4>1
      <4>3. ASSUME NEW k \in 1 .. Len(served[l]) + 1 PROVE served'[l][k] = requested[l][k]
        <5>1. CASE k = Len(served[l]) + 1
          BY <2>5, <4>1, <5>1
        <5>2. CASE k \in 1 .. Len(served[l])
          <6>1. served[l][k] = requested[l][k]
            BY <1>3, <2>1, <5>2 DEF Kept
          <6> QED BY <4>1, <5>2, <6>1
        <5>3. k = Len(served[l]) + 1 \/ k \in 1 .. Len(served[l])
          <6>1. Len(served[l]) \in Nat
            BY <4>1
          <6> QED BY <6>1
        <5> QED BY <5>1, <5>2, <5>3
      <4> QED BY <1>1, <3>2, <4>1, <4>2, <4>3 DEF Kept
    <3> QED BY <3>1, <3>2
  <2> QED BY <2>1, <2>2, <2>4, <2>5, <2>6
<1> QED BY <1>4, <1>5, ServeCases DEF Crash

\* Where nothing is sent, run or recorded, everything stays where it is.
LEMMA DeliveryQuiet ==
    ASSUME Quiet
    PROVE  /\ \A m, v : Delivered(m, v)' <=> Delivered(m, v)
           /\ \A m : Kept(m)' <=> Kept(m)
BY DEF Quiet, Delivered, Placed, Kept, About

\* No life moves to another worker.
Stays == \A l \in Lives : \E w \in Handlers : Delivered(l, w) /\ Delivered(l, w)'

\* The requests of a life reach one worker, in order, and are served in that order.
LEMMA DeliveryStep ==
    ASSUME Typed, Recorded, PoolProofs!Inv, AllDue, Delivery, [Next]_vars, ~crashed'
    PROVE  Delivery' /\ Stays
<1> USE DEF Kept
<1>1. /\ life \in [Symbols -> 0 .. MaxLives] /\ MaxLives \in Nat
      /\ DOMAIN id_to_submission_index \subseteq Symbols
      /\ \A s \in DOMAIN id_to_submission_index :
            <<s, life[s]>> \in Lives /\ id_to_submission_index[s] \in Handlers
  BY RequestSends, MarketAssumption DEF Typed, TypeOK
<1>2. ASSUME NEW s \in Symbols, addSymbol(s) PROVE Delivery' /\ Stays
  <2>1. PICK l \in Lives : l = <<s, life[s] + 1>>
    BY <1>2, RequestSends
  <2>2. PICK w \in Handlers : w = symbol_submission_index
    BY <1>2, RequestSends
  <2>3. requested[l] = <<>>
    <3>1. /\ life[s] + 1 \in 1 .. MaxLives /\ life[s] + 1 > life[s]
      BY <1>1, <1>2 DEF addSymbol
    <3> QED BY <2>1, <3>1 DEF Recorded
  <2>4. Delivered(l, w)
    BY <2>3, PlacedNowhere DEF Delivery
  <2>5. Send(w, "addOrderBook", l, w) /\ "addOrderBook" \in Ops
    BY <1>2, <2>1, <2>2 DEF addSymbol, Ops
  <2>6. /\ Delivered(l, w)'
        /\ \A m \in Lives, v \in Handlers : m # l /\ Delivered(m, v) => Delivered(m, v)'
        /\ \A m \in Lives : Kept(m)'
    BY <2>4, <2>5, DeliverySend
  <2>7. Stays
    BY <2>4, <2>6 DEF Delivery, Stays
  <2>8. ASSUME NEW u \in DOMAIN id_to_submission_index', NEW m, m = <<u, life'[u]>>,
               NEW v, v = id_to_submission_index'[u]
        PROVE  Delivered(m, v)'
    <3>1. /\ id_to_submission_index' = Put(id_to_submission_index, s, w)
          /\ life' = [life EXCEPT ![s] = @ + 1] /\ s \notin DOMAIN id_to_submission_index
      BY <1>2, <2>2 DEF addSymbol
    <3>2. CASE u = s
      <4>1. m = l /\ v = w
        BY <1>1, <2>1, <2>8, <3>1, <3>2 DEF Put
      <4> QED BY <2>6, <4>1
    <3>3. CASE u # s
      <4>1. /\ u \in DOMAIN id_to_submission_index /\ v = id_to_submission_index[u]
            /\ m = <<u, life[u]>>
        BY <1>1, <2>8, <3>1, <3>3 DEF Put
      <4>2. Delivered(m, v) /\ m \in Lives /\ v \in Handlers /\ m # l
        BY <1>1, <2>1, <3>3, <4>1 DEF Delivery, Stays
      <4> QED BY <2>6, <4>2
    <3> QED BY <3>2, <3>3
  <2> QED BY <2>6, <2>7, <2>8 DEF Delivery, Stays
<1>3. ASSUME NEW s \in Symbols, s \in DOMAIN id_to_submission_index, NEW op \in Ops,
             NEW h \in Handlers, Send(getSubmissionIndex(s), op, <<s, life[s]>>, h),
             UNCHANGED <<id_to_submission_index, life>>
      PROVE  Delivery' /\ Stays
  <2>1. PICK l \in Lives : l = <<s, life[s]>>
    BY <1>1, <1>3
  <2>2. PICK w \in Handlers : w = id_to_submission_index[s]
    BY <1>1, <1>3
  <2>3. Delivered(l, w) /\ Send(w, op, l, h)
    BY <1>3, <2>1, <2>2 DEF Delivery, getSubmissionIndex
  <2>4. /\ Delivered(l, w)'
        /\ \A m \in Lives, v \in Handlers : m # l /\ Delivered(m, v) => Delivered(m, v)'
        /\ \A m \in Lives : Kept(m)'
    BY <1>3, <2>3, DeliverySend
  <2>5. Stays
    BY <2>3, <2>4 DEF Delivery, Stays
  <2>6. ASSUME NEW u \in DOMAIN id_to_submission_index, NEW m, m = <<u, life[u]>>,
               NEW v, v = id_to_submission_index[u]
        PROVE  Delivered(m, v)'
    <3>1. Delivered(m, v) /\ m \in Lives /\ v \in Handlers
      BY <1>1, <2>6 DEF Delivery, Stays
    <3>2. m = l => v = w
      BY <2>1, <2>2, <2>6
    <3> QED BY <2>4, <3>1, <3>2
  <2> QED BY <1>3, <2>4, <2>5, <2>6 DEF Delivery, Stays
<1>4. ASSUME NEW s \in Symbols, deleteSymbol(s) PROVE Delivery' /\ Stays
  <2>1. symbol_submission_index \in Handlers /\ "deleteOrderBook" \in Ops
    BY DEF Typed, TypeOK, Ops
  <2> QED BY <1>3, <1>4, <2>1 DEF deleteSymbol
<1>5. ASSUME NEW s \in Symbols, NEW op \in Orders, OrderRequest(s, op) PROVE Delivery' /\ Stays
  <2>1. getSubmissionIndex(s) \in Handlers /\ op \in Ops
    BY <1>5, RequestSends DEF OrderRequest, Ops
  <2> QED BY <1>3, <1>5, <2>1 DEF OrderRequest, caller, HandlerAt
<1>6. CASE EraseSymbol
  <2>1. /\ Quiet
        /\ DOMAIN id_to_submission_index' \subseteq DOMAIN id_to_submission_index
        /\ \A s \in DOMAIN id_to_submission_index' :
              id_to_submission_index'[s] = id_to_submission_index[s]
    BY <1>6, QuietSteps DEF EraseSymbol, Restrict
  <2> QED BY <2>1, DeliveryQuiet DEF Delivery, Stays, Quiet
<1>7. CASE SubmitListing
  <2>1. PICK h \in Handlers : h = call.handler
    BY <1>7, SubmitListingEffect
  <2>2. /\ Sent(h, ListTask(h)) /\ UNCHANGED <<id_to_submission_index, life, requested, served>>
        /\ \A l \in Lives : ~About(ListTask(h), l)
    BY <1>7, <2>1, SubmitListingEffect DEF asked, handled
  <2>3. ASSUME NEW m \in Lives, NEW v \in Handlers, Delivered(m, v) PROVE Delivered(m, v)'
    <3>1. PICK pos : Placed(m, v, pos)
      BY <2>3 DEF Delivered
    <3>2. Placed(m, v, pos)'
      BY <2>2, <3>1, PlacedSent
    <3> QED BY <3>2 DEF Delivered, Placed
  <2> QED BY <1>1, <2>2, <2>3 DEF Delivery, Stays
<1>8. CASE toString \/ AwaitListing \/ TakeListing \/ ReturnListing \/ PoolStep \/ UNCHANGED vars
  <2>1. Quiet /\ UNCHANGED id_to_submission_index
    BY <1>8, QuietSteps
       DEF toString, AwaitListing, TakeListing, Step, ReturnListing, PoolStep, vars, caller
  <2> QED BY <2>1, DeliveryQuiet DEF Delivery, Stays, Quiet
<1>9. ASSUME NEW w \in Handlers, ServeTask(w) PROVE Delivery' /\ Stays
  <2>1. UNCHANGED <<id_to_submission_index, life>>
    BY <1>9, ServeEffect DEF caller, asked
  <2> QED BY <1>1, <1>9, <2>1, DeliveryServe DEF Delivery, Stays
<1> QED BY <1>2, <1>4, <1>5, <1>6, <1>7, <1>8, <1>9 DEF Next, Request, List

-----------------------------------------------------------------------------
(* Which books there are.                                                  *)

\* Every task is for the handler of its worker: where a symbol is deleted while it is
\* its worker's turn, the handler of the next symbol is that of the worker.
LEMMA ConfinedStep ==
    ASSUME Typed, Recorded, PoolProofs!Inv, AllDue, AlignedDeletes, Confined, [Next]_vars
    PROVE  Confined'
<1>1. ASSUME NEW w \in Handlers, NEW t, Sent(w, t), t.handler = w PROVE Confined'
  <2>1. ASSUME NEW v \in Handlers, NEW i \in 1 .. Len(submitted'[v])
        PROVE  submitted'[v][i].handler = v
    <3>1. CASE v = w /\ i = Len(submitted[w]) + 1
      BY <1>1, <3>1 DEF Sent
    <3>2. CASE ~(v = w /\ i = Len(submitted[w]) + 1)
      <4>1. i \in 1 .. Len(submitted[v]) /\ submitted'[v][i] = submitted[v][i]
        BY <1>1, <2>1, <3>2 DEF Sent
      <4> QED BY <4>1 DEF Confined
    <3> QED BY <3>1, <3>2
  <2> QED BY <2>1 DEF Confined
<1>2. ASSUME NEW w \in Handlers, NEW op \in Ops, NEW l \in Lives, Send(w, op, l, w)
      PROVE  Confined'
  BY <1>1, <1>2, SendEffect
<1>3. ASSUME NEW s \in Symbols, addSymbol(s) PROVE Confined'
  <2>1. /\ <<s, life[s] + 1>> \in Lives /\ symbol_submission_index \in Handlers
        /\ "addOrderBook" \in Ops
    BY <1>3, RequestSends DEF Ops
  <2> QED BY <1>2, <1>3, <2>1 DEF addSymbol
<1>4. ASSUME NEW s \in Symbols, deleteSymbol(s) PROVE Confined'
  <2>1. /\ <<s, life[s]>> \in Lives /\ symbol_submission_index \in Handlers
        /\ "deleteOrderBook" \in Ops /\ getSubmissionIndex(s) = symbol_submission_index
    BY <1>4, RequestSends DEF deleteSymbol, Ops
  <2> QED BY <1>2, <1>4, <2>1 DEF deleteSymbol
<1>5. ASSUME NEW s \in Symbols, NEW op \in Orders, OrderRequest(s, op) PROVE Confined'
  <2>1. <<s, life[s]>> \in Lives /\ op \in Ops /\ getSubmissionIndex(s) \in Handlers
    BY <1>5, RequestSends DEF OrderRequest, Ops
  <2> QED BY <1>2, <1>5, <2>1 DEF OrderRequest, HandlerAt
<1>6. CASE SubmitListing
  BY <1>1, <1>6, SubmitListingEffect DEF ListTask
<1>7. CASE EraseSymbol \/ toString \/ AwaitListing \/ TakeListing \/ ReturnListing
             \/ PoolStep \/ UNCHANGED vars
  BY <1>7, QuietSteps DEF Quiet, Confined
<1>8. ASSUME NEW w \in Handlers, ServeTask(w) PROVE Confined'
  BY <1>8, ServeEffect DEF Confined
<1> QED BY <1>3, <1>4, <1>5, <1>6, <1>7, <1>8 DEF Next, Request, List

\* The book of a life whose first request was served, and not its deletion, is with
\* the worker of the life.
On(l) == served[l] # <<>> /\ \A k \in 1 .. Len(served[l]) : served[l][k] # "deleteOrderBook"

AliveWhere ==
    Typed => \A l \in Lives : \A w, h \in Handlers :
                Kept(l) /\ Delivered(l, w) => (Alive(l, h) <=> (h = w /\ On(l)))

LEMMA AliveAt == AliveWhere
<1> SUFFICES ASSUME Typed, NEW l \in Lives, NEW w \in Handlers, NEW h \in Handlers,
                    Kept(l), Delivered(l, w)
             PROVE  Alive(l, h) <=> (h = w /\ On(l))
  BY DEF AliveWhere
<1>1. PICK pos : Placed(l, w, pos)
  BY DEF Delivered
<1>2. Alive(l, h) => h = w /\ On(l)
  BY <1>1 DEF Alive, On, Placed
<1>3. ASSUME On(l) PROVE Alive(l, w)
  <2>1. served[l] # <<>> /\ served[l] \in Seq(Ops)
    BY <1>3 DEF On, Typed
  <2>2. Len(served[l]) \in Nat /\ Len(served[l]) # 0
    BY <2>1, EmptySeq
  <2>3. 1 \in 1 .. Len(requested[l])
    BY <2>2, Lengths DEF Kept
  <2>4. pos[1] \in 1 .. Len(submitted[w]) /\ About(submitted[w][pos[1]], l)
    BY <1>1, <2>3 DEF Placed
  <2> QED BY <1>3, <2>4 DEF Alive, On
<1> QED BY <1>2, <1>3

LEMMA AliveAtNext == AliveWhere'
BY AliveAt, PTL

\* A step that serves nothing changes no book, and no life's being on.
LEMMA BooksUnchanged ==
    ASSUME Typed, Typed', Delivery, Stays, \A l \in Lives : Kept(l)', Books,
           UNCHANGED <<id_to_book, served>>
    PROVE  Books'
<1>1. ASSUME NEW l \in Lives, NEW h \in Handlers PROVE Alive(l, h)' <=> Alive(l, h)
  <2>1. PICK w \in Handlers : Delivered(l, w) /\ Delivered(l, w)'
    BY DEF Stays
  <2>2. Alive(l, h) <=> (h = w /\ On(l))
    BY <2>1, AliveAt DEF AliveWhere, Delivery, Kept
  <2>3. Alive(l, h)' <=> (h = w /\ On(l)')
    BY <2>1, AliveAtNext DEF AliveWhere
  <2> QED BY <2>2, <2>3 DEF On
<1>2. \A s \in Symbols, n \in 1 .. MaxLives : <<s, n>> \in Lives
  BY DEF Lives
<1> QED BY <1>1, <1>2 DEF Books

\* A served request adds, removes or extends the book of its life, and no other.
LEMMA BooksServe ==
    ASSUME Typed, Typed', Recorded, PoolProofs!Inv, AlignedDeletes, Confined, Delivery, Stays,
           \A l \in Lives : Kept(l)', Books, NEW w \in Handlers, ServeTask(w), ~crashed'
    PROVE  Books'
<1>1. CASE ListBooks(task[w])
  BY <1>1, BooksUnchanged DEF ListBooks
<1>2. ASSUME NEW op \in Ops, op = task[w].op, Served(task[w]) PROVE Books'
  <2>1. PICK l \in Lives, s \in Symbols, n \in 1 .. MaxLives :
           l = task[w].life /\ l = <<s, n>> /\ s = l[1]
    BY <1>2, ServeEffect, TaskKinds
  <2>2. /\ task[w].handler = w /\ About(submitted[w][Len(ran[w]) + 1], l)
        /\ Len(ran[w]) + 1 \in 1 .. Len(submitted[w])
    <3>1. /\ Len(ran[w]) + 1 \in 1 .. Len(submitted[w])
          /\ submitted[w][Len(ran[w]) + 1] = task[w]
      BY ServeRan DEF Ran
    <3>2. task[w] \in BookTasks
      BY <1>2, ServeEffect, TaskKinds
    <3> QED BY <2>1, <3>1, <3>2 DEF Confined, About
  <2>3. /\ served' = [served EXCEPT ![l] = Append(@, op)]
        /\ Len(served[l]) + 1 \in 1 .. Len(requested[l])
        /\ op = requested[l][Len(served[l]) + 1]
    BY <1>2, <2>1, DeliveryServe
  <2>4. /\ served[l] \in Seq(Ops) /\ Len(served[l]) \in Nat
        /\ served'[l] = Append(served[l], op)
        /\ \A m \in Lives \ {l} : served'[m] = served[m]
    BY <2>3 DEF Typed
  <2>5. /\ Len(served'[l]) = Len(served[l]) + 1 /\ served'[l][Len(served[l]) + 1] = op
        /\ \A k \in 1 .. Len(served[l]) : served'[l][k] = served[l][k]
        /\ served'[l] # <<>>
    BY <2>4, AppendProperties
  <2>6. /\ (op = "addOrderBook") <=> (served[l] = <<>>)
        /\ \A k \in 1 .. Len(served[l]) : served[l][k] # "deleteOrderBook"
    <3>1. /\ \A i \in 1 .. Len(requested[l]) :
                (requested[l][i] = "addOrderBook") <=> (i = 1)
          /\ \A i \in 1 .. Len(requested[l]) :
                requested[l][i] = "deleteOrderBook" => i = Len(requested[l])
      BY <2>1 DEF Recorded
    <3>2. (Len(served[l]) = 0) <=> (served[l] = <<>>)
      BY <2>4, EmptySeq
    <3>3. ASSUME NEW k \in 1 .. Len(served[l])
          PROVE  /\ served[l][k] = requested[l][k]
                 /\ k \in 1 .. Len(requested[l]) /\ k # Len(requested[l])
      <4>1. served[l][k] = requested[l][k]
        BY DEF Delivery
      <4> QED BY <2>3, <2>4, <4>1, Lengths
    <3>4. (op = "addOrderBook") <=> (served[l] = <<>>)
      BY <2>3, <2>4, <3>1, <3>2
    <3> QED BY <3>1, <3>3, <3>4
  <2>7. PICK v \in Handlers : Delivered(l, v) /\ Delivered(l, v)'
    BY DEF Stays
  <2>8. v = w
    <3>1. PICK pos : Placed(l, v, pos)
      BY <2>7 DEF Delivered
    <3> QED BY <2>2, <3>1 DEF Placed
  <2>9. (On(l) <=> op # "addOrderBook") /\ (On(l)' <=> op # "deleteOrderBook")
    <3>1. On(l) <=> op # "addOrderBook"
      BY <2>6 DEF On
    <3>2. (\A k \in 1 .. Len(served'[l]) : served'[l][k] # "deleteOrderBook")
             <=> op # "deleteOrderBook"
      <4>1. PICK c \in Nat : c = Len(served[l])
        BY <2>4
      <4>2. ASSUME NEW k \in 1 .. c PROVE served'[l][k] # "deleteOrderBook"
        BY <2>5, <2>6, <4>1, <4>2
      <4>3. Len(served'[l]) = c + 1 /\ served'[l][c + 1] = op
        BY <2>5, <4>1
      <4> QED BY <4>2, <4>3
    <3> QED BY <2>5, <3>1, <3>2 DEF On
  <2>10. ASSUME NEW h \in Handlers
         PROVE  /\ Alive(l, h) <=> (h = w /\ op # "addOrderBook")
                /\ Alive(l, h)' <=> (h = w /\ op # "deleteOrderBook")
    <3>1. Alive(l, h) <=> (h = w /\ On(l))
      BY <2>7, <2>8, AliveAt DEF AliveWhere, Delivery, Kept
    <3>2. Alive(l, h)' <=> (h = w /\ On(l)')
      BY <2>7, <2>8, AliveAtNext DEF AliveWhere
    <3> QED BY <2>9, <3>1, <3>2
  <2>11. ASSUME NEW m \in Lives, m # l, NEW h \in Handlers
         PROVE  (Alive(m, h)' <=> Alive(m, h)) /\ served'[m] = served[m]
    <3>1. PICK u \in Handlers : Delivered(m, u) /\ Delivered(m, u)'
      BY DEF Stays
    <3>2. Alive(m, h) <=> (h = u /\ On(m))
      BY <3>1, AliveAt DEF AliveWhere, Delivery, Kept
    <3>3. Alive(m, h)' <=> (h = u /\ On(m)')
      BY <3>1, AliveAtNext DEF AliveWhere
    <3> QED BY <2>4, <2>11, <3>2, <3>3 DEF On
  <2>12. \A u \in Symbols, m \in 1 .. MaxLives :
            /\ <<u, m>> \in Lives
            /\ (<<u, m>> = l) <=> (u = s /\ m = n)
    BY <2>1 DEF Lives
  \* The books of the other handlers, and those of the other symbols.
  <2>13. ASSUME NEW h \in Handlers, NEW u \in Symbols, h # w \/ u # s,
                (u \in DOMAIN id_to_book'[h]) <=> (u \in DOMAIN id_to_book[h]),
                u \in DOMAIN id_to_book[h] => id_to_book'[h][u] = id_to_book[h][u]
         PROVE  /\ u \in DOMAIN id_to_book'[h] =>
                      \E m \in 1 .. MaxLives : Alive(<<u, m>>, h)'
                /\ \A m \in 1 .. MaxLives : Alive(<<u, m>>, h)' =>
                      /\ u \in DOMAIN id_to_book'[h]
                      /\ id_to_book'[h][u] = Tail(served'[<<u, m>>])
                      /\ \A k \in 1 .. MaxLives : Alive(<<u, k>>, h)' => k = m
    <3>1. ASSUME NEW m \in 1 .. MaxLives
          PROVE  /\ Alive(<<u, m>>, h)' <=> Alive(<<u, m>>, h)
                 /\ Alive(<<u, m>>, h) => served'[<<u, m>>] = served[<<u, m>>]
      <4>1. CASE <<u, m>> = l
        <5>1. h # w
          BY <2>12, <2>13, <4>1
        <5> QED BY <2>10, <4>1, <5>1
      <4>2. CASE <<u, m>> # l
        BY <2>11, <2>12, <4>2
      <4> QED BY <4>1, <4>2
    <3> QED BY <2>13, <3>1 DEF Books
  \* The book of the symbol, in the worker's handler.
  <2>14. ASSUME op # "deleteOrderBook", s \in DOMAIN id_to_book'[w],
                id_to_book'[w][s] = Tail(served'[l]),
                op = "addOrderBook" => s \notin DOMAIN id_to_book[w]
         PROVE  /\ \E m \in 1 .. MaxLives : Alive(<<s, m>>, w)'
                /\ \A m \in 1 .. MaxLives : Alive(<<s, m>>, w)' =>
                      /\ s \in DOMAIN id_to_book'[w]
                      /\ id_to_book'[w][s] = Tail(served'[<<s, m>>])
                      /\ \A k \in 1 .. MaxLives : Alive(<<s, k>>, w)' => k = m
    <3>1. Alive(<<s, n>>, w)'
      BY <2>1, <2>10, <2>14
    <3>2. ASSUME NEW m \in 1 .. MaxLives, Alive(<<s, m>>, w)' PROVE m = n
      <4>1. SUFFICES ASSUME m # n PROVE FALSE
        OBVIOUS
      <4>2. Alive(<<s, m>>, w)
        BY <2>11, <2>12, <3>2, <4>1
      <4>3. s \in DOMAIN id_to_book[w]
        BY <4>2 DEF Books
      <4>4. Alive(<<s, n>>, w)
        BY <2>1, <2>10, <2>14, <4>3
      <4> QED BY <4>1, <4>2, <4>4 DEF Books
    <3> QED BY <2>1, <2>14, <3>1, <3>2
  <2>15. DOMAIN id_to_book = Handlers
    BY DEF Typed
  <2>16. CASE Adds(task[w], s)
    <3>1. /\ op = "addOrderBook" /\ s \notin DOMAIN id_to_book[w]
          /\ id_to_book' = [id_to_book EXCEPT ![w] = Put(@, s, <<>>)]
      BY <1>2, <2>2, <2>16 DEF Adds, SetBooks
    <3>2. Tail(served'[l]) = <<>>
      BY <2>4, <2>6, <3>1, HeadTailAppend
    <3>3. s \in DOMAIN id_to_book'[w] /\ id_to_book'[w][s] = Tail(served'[l])
      BY <2>15, <3>1, <3>2 DEF Put
    <3>4. ASSUME NEW h \in Handlers, NEW u \in Symbols, h # w \/ u # s
          PROVE  /\ (u \in DOMAIN id_to_book'[h]) <=> (u \in DOMAIN id_to_book[h])
                 /\ u \in DOMAIN id_to_book[h] => id_to_book'[h][u] = id_to_book[h][u]
      BY <2>15, <3>1, <3>4 DEF Put
    <3> QED BY <2>13, <2>14, <3>1, <3>3, <3>4 DEF Books
  <2>17. CASE Removes(task[w], s)
    <3>1. /\ op = "deleteOrderBook"
          /\ id_to_book' = [id_to_book EXCEPT ![w] = Restrict(@, DOMAIN @ \ {s})]
      BY <1>2, <2>2, <2>17 DEF Removes, SetBooks
    <3>2. s \notin DOMAIN id_to_book'[w]
      BY <2>15, <3>1 DEF Restrict
    <3>3. ASSUME NEW h \in Handlers, NEW u \in Symbols, h # w \/ u # s
          PROVE  /\ (u \in DOMAIN id_to_book'[h]) <=> (u \in DOMAIN id_to_book[h])
                 /\ u \in DOMAIN id_to_book[h] => id_to_book'[h][u] = id_to_book[h][u]
      BY <2>15, <3>1, <3>3 DEF Restrict
    <3>4. ASSUME NEW m \in 1 .. MaxLives PROVE ~Alive(<<s, m>>, w)'
      <4>1. Alive(<<s, n>>, w) /\ ~Alive(<<s, n>>, w)'
        BY <2>1, <2>10, <3>1
      <4>2. m # n => (Alive(<<s, m>>, w)' <=> Alive(<<s, m>>, w))
        BY <2>11, <2>12
      <4> QED BY <4>1, <4>2 DEF Books
    <3> QED BY <2>13, <3>2, <3>3, <3>4 DEF Books
  <2>18. CASE Extends(task[w], s)
    <3>1. /\ op \in Orders /\ s \in DOMAIN id_to_book[w]
          /\ op # "addOrderBook" /\ op # "deleteOrderBook"
      BY <1>2, <2>2, <2>18, MarketAssumption DEF Extends
    <3>2. id_to_book'[w] = [id_to_book[w] EXCEPT ![s] = Append(id_to_book[w][s], op)]
      BY <1>2, <2>2, <2>15, <2>18 DEF Extends, SetBooks
    <3>3. \A h \in Handlers : h # w => id_to_book'[h] = id_to_book[h]
      BY <1>2, <2>2, <2>15, <2>18 DEF Extends, SetBooks
    <3>4. id_to_book[w][s] = Tail(served[l])
      BY <2>1, <2>10, <3>1 DEF Books
    <3>5. Tail(served'[l]) = Append(Tail(served[l]), op)
      BY <2>4, <2>6, <3>1, HeadTailAppend
    <3>6. s \in DOMAIN id_to_book'[w] /\ id_to_book'[w][s] = Tail(served'[l])
      BY <3>1, <3>2, <3>4, <3>5
    <3>7. ASSUME NEW h \in Handlers, NEW u \in Symbols, h # w \/ u # s
          PROVE  /\ (u \in DOMAIN id_to_book'[h]) <=> (u \in DOMAIN id_to_book[h])
                 /\ u \in DOMAIN id_to_book[h] => id_to_book'[h][u] = id_to_book[h][u]
      BY <3>2, <3>3, <3>7
    <3>8. /\ \E m \in 1 .. MaxLives : Alive(<<s, m>>, w)'
          /\ \A m \in 1 .. MaxLives : Alive(<<s, m>>, w)' =>
                /\ s \in DOMAIN id_to_book'[w]
                /\ id_to_book'[w][s] = Tail(served'[<<s, m>>])
                /\ \A k \in 1 .. MaxLives : Alive(<<s, k>>, w)' => k = m
      BY <2>14, <3>1, <3>6
    <3> QED BY <2>13, <3>7, <3>8 DEF Books
  <2>19. CASE ListBooks(task[w])
    BY <1>1, <2>19
  <2> QED BY <1>2, <2>1, <2>16, <2>17, <2>18, <2>19, ServeCases DEF Crash
<1> QED BY <1>1, <1>2, ServeCases DEF Crash

-----------------------------------------------------------------------------
(* toString().                                                             *)

\* Where the caller is in toString().
LEMMA CallKinds ==
    ASSUME Typed
    PROVE  /\ call.at \in {"idle", "erase", "list", "wait", "listed"}
           /\ call = Idle => call.at = "idle"
           /\ call.at \in {"list", "wait", "listed"} =>
                 call.handler \in Handlers /\ call = [at |-> call.at, handler |-> call.handler]
<1>1. call \in Calls
  BY DEF Typed
<1> QED BY <1>1 DEF Calls, Idle

\* A queue to which nothing is asked holds no listing.
LEMMA NoneWaits ==
    ASSUME NEW h \in Handlers, ListedLast(h), ~Asked(h)
    PROVE  \A i \in Len(ran[h]) + 1 .. Len(submitted[h]) : submitted[h][i] \notin ListTasks
BY DEF ListedLast

\* What a step leaves of a handler that it does not concern.
LEMMA ListingKept ==
    ASSUME NEW h \in Handlers, ListedLast(h), ListedNow(h),
           submitted'[h] = submitted[h], ran'[h] = ran[h], id_to_book'[h] = id_to_book[h],
           listing'[h] = listing[h], promise'[ListTask(h)] = promise[ListTask(h)],
           Asked(h)' <=> Asked(h), Waited(h)' <=> Waited(h)
    PROVE  ListedLast(h)' /\ ListedNow(h)'
BY DEF ListedLast, ListedNow, AllRan, ListTask

\* The steps of toString() itself.
LEMMA ListingsCall ==
    ASSUME Typed, Typed', PoolProofs!Inv, AllDue, Listings,
           toString \/ SubmitListing \/ AwaitListing \/ TakeListing \/ ReturnListing
    PROVE  Listings'
<1>1. NumThreads \in Nat \ {0}
  BY MarketAssumption
<1>2. \A h \in Handlers : Len(ran[h]) \in Nat /\ Len(submitted[h]) \in Nat
                             /\ Len(ran[h]) <= Len(submitted[h])
  BY RanBound
<1>3. CASE toString
  <2>1. /\ call = Idle /\ call.at = "idle" /\ call' = [at |-> "list", handler |-> 0]
        /\ UNCHANGED <<pool, id_to_book, listing>>
    BY <1>3, CallKinds DEF toString, handled
  <2>2. \A h \in Handlers : ~Asked(h) /\ ~Waited(h) /\ ~Asked(h)' /\ ~Waited(h)'
    BY <1>1, <2>1 DEF Asked, Waited, Handlers
  <2>3. getting' = NoTask
    BY <2>1 DEF Listings, pool
  <2> QED BY <2>1, <2>2, <2>3, ListingKept DEF Listings, pool
<1>4. CASE SubmitListing
  <2>1. PICK g \in Handlers : g = call.handler
    BY <1>4, SubmitListingEffect
  <2>2. /\ call.at = "list" /\ Sent(g, ListTask(g)) /\ UNCHANGED <<id_to_book, listing>>
        /\ promise' = [u \in ListTasks |-> IF u = ListTask(g) THEN "unset" ELSE promise[u]]
        /\ call' = IF g < NumThreads - 1 THEN [at |-> "list", handler |-> g + 1]
                                         ELSE [at |-> "wait", handler |-> 0]
        /\ ListTask(g) \in ListTasks
    BY <1>4, <2>1, SubmitListingEffect DEF handled
  <2>3. getting' = NoTask
    BY <2>2 DEF Sent
  <2>4. ASSUME NEW h \in Handlers
        PROVE  /\ Asked(h) <=> h < g
               /\ Asked(h)' <=> h <= g
               /\ ~Waited(h) /\ ~Waited(h)'
    BY <1>1, <2>1, <2>2 DEF Asked, Waited, Handlers
  <2>5. ListedLast(g)' /\ ListedNow(g)'
    <3>1. \A i \in Len(ran[g]) + 1 .. Len(submitted[g]) : submitted[g][i] \notin ListTasks
      BY <1>1, <2>4, NoneWaits DEF Listings, Handlers
    <3>2. ASSUME NEW i \in Len(ran'[g]) + 1 .. Len(submitted'[g]),
                 submitted'[g][i] \in ListTasks
          PROVE  i = Len(submitted'[g])
      <4>1. i \in Len(ran[g]) + 1 .. Len(submitted[g]) + 1
        BY <2>2 DEF Sent
      <4>2. i \in 1 .. Len(submitted[g]) => submitted'[g][i] = submitted[g][i]
        BY <2>2 DEF Sent
      <4>3. i \notin Len(ran[g]) + 1 .. Len(submitted[g])
        BY <1>2, <3>1, <3>2, <4>2
      <4> QED BY <1>2, <2>2, <4>1, <4>3 DEF Sent
    <3>3. promise'[ListTask(g)] = "unset" /\ Asked(g)'
      BY <1>1, <2>2, <2>4 DEF Handlers
    <3>4. ~AllRan(g)' /\ submitted'[g][Len(submitted'[g])] = ListTask(g)
      BY <1>2, <2>2 DEF Sent, AllRan
    <3> QED BY <2>4, <3>2, <3>3, <3>4 DEF ListedLast, ListedNow, AllRan, ListTask
  <2>6. ASSUME NEW h \in Handlers, h # g PROVE ListedLast(h)' /\ ListedNow(h)'
    <3>1. ListTask(h) # ListTask(g) /\ ListTask(h) \in ListTasks
      BY <2>6 DEF ListTask, ListTasks
    <3>2. Asked(h)' <=> Asked(h)
      BY <1>1, <2>4, <2>6 DEF Handlers
    <3>3. /\ submitted'[h] = submitted[h] /\ ran'[h] = ran[h]
          /\ promise'[ListTask(h)] = promise[ListTask(h)]
      BY <2>2, <2>6, <3>1 DEF Sent
    <3> QED BY <2>2, <2>4, <3>2, <3>3, ListingKept DEF Listings
  <2> QED BY <2>3, <2>5, <2>6 DEF Listings
<1>5. CASE AwaitListing
  <2>1. /\ call.at = "wait" /\ call' = call /\ getting' = ListTask(call.handler)
        /\ UNCHANGED <<submitted, ran, promise, id_to_book, listing>>
    BY <1>5, SamePool DEF AwaitListing, PoolProofs!Get, PoolProofs!workers,
                          PoolProofs!history, caller, handled
  <2>2. \A h \in Handlers : (Asked(h)' <=> Asked(h)) /\ (Waited(h)' <=> Waited(h))
    BY <2>1 DEF Asked, Waited
  <2>3. \A h \in Handlers : ListedLast(h)' /\ ListedNow(h)'
    BY <2>1, <2>2, ListingKept DEF Listings
  <2> QED BY <2>1, <2>3 DEF Listings, ListTask
<1>6. CASE TakeListing
  <2>1. PICK g \in Handlers : g = call.handler /\ call.at = "wait"
                                /\ call = [at |-> "wait", handler |-> g]
    BY <1>6, CallKinds DEF TakeListing, Step
  <2>2. /\ call' = IF g < NumThreads - 1 THEN [at |-> "wait", handler |-> g + 1]
                                         ELSE [at |-> "listed", handler |-> 0]
        /\ UNCHANGED <<id_to_book, listing>>
    BY <1>6, <2>1 DEF TakeListing, Step, handled
  <2>3. /\ getting # NoTask /\ getting' = NoTask /\ UNCHANGED <<submitted, ran>>
        /\ promise[getting] \in {"value", "exception"}
        /\ promise' = [promise EXCEPT ![getting] = "taken"]
    BY <1>6, SamePool DEF TakeListing, PoolProofs!GetReturns, PoolProofs!history
  <2>4. getting = ListTask(g)
    BY <2>1, <2>3 DEF Listings
  <2>5. AllRan(g)
    <3>1. SUFFICES ASSUME ~AllRan(g) PROVE FALSE
      OBVIOUS
    <3>2. submitted[g][Len(submitted[g])] = ListTask(g) /\ ListTask(g) \in ListTasks
      BY <2>1, <3>1 DEF Listings, ListedNow, Asked, ListTasks, ListTask
    <3>3. Len(submitted[g]) \in Len(ran[g]) + 1 .. Len(submitted[g])
      BY <1>2, <3>1 DEF AllRan
    <3>4. promise[ListTask(g)] = "unset"
      BY <3>2, <3>3 DEF Listings, ListedLast
    <3> QED BY <2>3, <2>4, <3>4
  <2>6. ASSUME NEW h \in Handlers
        PROVE  /\ Asked(h) /\ Asked(h)'
               /\ Waited(h) <=> h < g
               /\ Waited(h)' <=> h <= g
    BY <1>1, <2>1, <2>2 DEF Asked, Waited, Handlers
  <2>7. ASSUME NEW h \in Handlers PROVE ListedLast(h)' /\ ListedNow(h)'
    <3>1. CASE h = g
      <4>1. Len(ran'[h]) + 1 .. Len(submitted'[h]) = {}
        BY <1>2, <2>3, <2>5, <3>1 DEF AllRan
      <4> QED BY <2>2, <2>3, <2>5, <2>6, <3>1, <4>1 DEF ListedLast, ListedNow, AllRan, Listings
    <3>2. CASE h # g
      <4>1. ListTask(h) # ListTask(g)
        BY <3>2 DEF ListTask
      <4>2. promise'[ListTask(h)] = promise[ListTask(h)]
        <5>1. promise \in [ListTasks -> {"unset", "value", "exception", "taken"}]
          BY DEF PoolProofs!Inv, PoolProofs!TypeOK
        <5> QED BY <2>3, <2>4, <4>1, <5>1 DEF ListTask, ListTasks
      <4>3. Waited(h)' <=> Waited(h)
        BY <1>1, <2>6, <3>2 DEF Handlers
      <4> QED BY <2>2, <2>3, <2>6, <4>2, <4>3, ListingKept DEF Listings
    <3> QED BY <3>1, <3>2
  <2> QED BY <2>3, <2>7 DEF Listings
<1>7. CASE ReturnListing
  <2>1. call.at = "listed" /\ call' = Idle /\ UNCHANGED pool
    BY <1>7 DEF ReturnListing
  <2>2. getting' = NoTask
    BY <2>1 DEF Listings, pool
  <2>3. \A h \in Handlers : AllRan(h)' /\ ~Asked(h)' /\ ~Waited(h)'
    BY <2>1 DEF Listings, ListedNow, Waited, Asked, Idle, AllRan, pool
  <2>4. \A h \in Handlers : Len(ran'[h]) + 1 .. Len(submitted'[h]) = {}
    BY <1>2, <2>1, <2>3 DEF AllRan, pool
  <2> QED BY <2>2, <2>3, <2>4 DEF Listings, ListedLast, ListedNow
<1> QED BY <1>3, <1>4, <1>5, <1>6, <1>7

\* A request is no listing, and none is under way when it is made.
LEMMA ListingsSend ==
    ASSUME Typed, PoolProofs!Inv, AllDue, Listings,
           NEW w \in Handlers, NEW op \in Ops, NEW l \in Lives, Send(w, op, l, w),
           call' = Idle \/ call'.at = "erase"
    PROVE  Listings'
<1>1. PICK t \in BookTasks :
         /\ call = Idle /\ Sent(w, t) /\ UNCHANGED <<id_to_book, listing>>
         /\ \A u \in ListTasks : promise'[u] = promise[u]
         /\ t \notin ListTasks
  BY SendEffect DEF handled
<1>2. \A h \in Handlers : ~Asked(h) /\ ~Waited(h) /\ ~Asked(h)' /\ ~Waited(h)'
  BY <1>1 DEF Asked, Waited, Idle
<1>3. getting' = NoTask
  BY <1>1 DEF Sent
<1>4. ASSUME NEW h \in Handlers, NEW i \in Len(ran'[h]) + 1 .. Len(submitted'[h])
      PROVE  submitted'[h][i] \notin ListTasks
  <2>1. \A j \in Len(ran[h]) + 1 .. Len(submitted[h]) : submitted[h][j] \notin ListTasks
    BY <1>2, NoneWaits DEF Listings
  <2>2. CASE h = w
    <3>1. CASE i = Len(submitted[w]) + 1
      BY <1>1, <2>2, <3>1 DEF Sent
    <3>2. CASE i \in Len(ran[h]) + 1 .. Len(submitted[w])
      BY <1>1, <2>1, <2>2, <3>2, RanBound DEF Sent
    <3> QED BY <1>1, <2>2, <3>1, <3>2, RanBound DEF Sent
  <2>3. CASE h # w
    BY <1>1, <2>1, <2>3 DEF Sent
  <2> QED BY <2>2, <2>3
<1> QED BY <1>2, <1>3, <1>4 DEF Listings, ListedLast, ListedNow

\* A worker runs a task: a listing, which is its last, or one before it.
LEMMA ListingsServe ==
    ASSUME Typed, PoolProofs!Inv, Confined, Listings, NEW w \in Handlers, ServeTask(w), ~crashed'
    PROVE  Listings'
<1> DEFINE t == task[w]
<1>1. /\ Ran(w) /\ submitted[w][Len(ran[w]) + 1] = t /\ t.handler = w
      /\ UNCHANGED <<submitted, getting, call>>
      /\ promise' = IF t \in ListTasks THEN [promise EXCEPT ![t] = "value"] ELSE promise
      /\ t \in ListTasks \cup BookTasks
  <2>1. Len(ran[w]) + 1 \in 1 .. Len(submitted[w])
    BY ServeRan DEF Ran
  <2> QED BY <2>1, ServeRan, ServeEffect DEF Confined, caller
<1>2. \A h \in Handlers : (Asked(h)' <=> Asked(h)) /\ (Waited(h)' <=> Waited(h))
  BY <1>1 DEF Asked, Waited
<1>3. ~AllRan(w) /\ ~Waited(w)
  BY <1>1 DEF Ran, AllRan, Listings, ListedNow
<1>4. Len(ran[w]) + 1 \in Len(ran[w]) + 1 .. Len(submitted[w])
  BY <1>1 DEF Ran
<1>5. /\ Len(submitted[w]) \in Nat /\ Len(ran[w]) \in Nat
      /\ Len(ran'[w]) = Len(ran[w]) + 1
      /\ \A h \in Handlers : h # w => ran'[h] = ran[h]
  BY <1>1, RanBound DEF Ran
<1>6. \A h \in Handlers : h # w => promise'[ListTask(h)] = promise[ListTask(h)]
  <2>1. CASE t \in ListTasks
    <3>1. \A h \in Handlers : h # w => ListTask(h) # t /\ ListTask(h) \in ListTasks
      BY <1>1 DEF ListTask, ListTasks
    <3>2. promise \in [ListTasks -> {"unset", "value", "exception", "taken"}]
      BY DEF PoolProofs!Inv, PoolProofs!TypeOK
    <3> QED BY <1>1, <2>1, <3>1, <3>2
  <2>2. CASE t \notin ListTasks
    BY <1>1, <2>2
  <2> QED BY <2>1, <2>2
<1>7. CASE ListBooks(t)
  <2>1. t \in ListTasks /\ t = ListTask(w)
    BY <1>1, <1>7, TaskKinds DEF ListBooks
  <2>2. Len(ran[w]) + 1 = Len(submitted[w]) /\ Asked(w)
    BY <1>1, <1>4, <2>1 DEF Listings, ListedLast
  <2>3. /\ UNCHANGED id_to_book /\ listing'[w] = id_to_book[w]
        /\ \A h \in Handlers : h # w => listing'[h] = listing[h]
    BY <1>1, <1>7 DEF ListBooks, Typed
  <2>4. ListedLast(w)' /\ ListedNow(w)'
    <3>1. Len(ran'[w]) + 1 .. Len(submitted'[w]) = {} /\ AllRan(w)'
      BY <1>1, <1>5, <2>2 DEF AllRan
    <3> QED BY <2>3, <3>1 DEF ListedLast, ListedNow
  <2>5. \A h \in Handlers : h # w => ListedLast(h)' /\ ListedNow(h)'
    BY <1>1, <1>2, <1>5, <1>6, <2>3, ListingKept DEF Listings
  <2> QED BY <1>1, <2>4, <2>5 DEF Listings
<1>8. CASE t.op \in Ops /\ Served(t) /\ (Adds(t, t.life[1]) \/ Removes(t, t.life[1])
                                            \/ Extends(t, t.life[1]))
  <2>1. t \notin ListTasks /\ UNCHANGED <<promise, listing>>
    BY <1>1, <1>8, TaskKinds DEF Served
  <2>2. \A h \in Handlers : h # w => id_to_book'[h] = id_to_book[h]
    BY <1>1, <1>8 DEF Adds, Removes, Extends, SetBooks, Typed
  <2>3. ListedLast(w)'
    <3>1. \A i : i \in Len(ran'[w]) + 1 .. Len(submitted'[w]) =>
                    i \in Len(ran[w]) + 1 .. Len(submitted[w])
      BY <1>1, <1>5
    <3> QED BY <1>1, <1>2, <2>1, <3>1 DEF Listings, ListedLast, ListTask
  <2>4. ListedNow(w)'
    <3>1. ASSUME Asked(w)
          PROVE  ~AllRan(w)' /\ submitted[w][Len(submitted[w])] = ListTask(w)
      <4>1. submitted[w][Len(submitted[w])] = ListTask(w)
        BY <1>3, <3>1 DEF Listings, ListedNow
      <4>2. ListTask(w) \in ListTasks
        BY DEF ListTask, ListTasks
      <4>3. Len(submitted[w]) # Len(ran[w]) + 1
        BY <1>1, <2>1, <4>1, <4>2
      <4> QED BY <1>1, <1>5, <4>1, <4>3 DEF AllRan
    <3> QED BY <1>1, <1>2, <1>3, <3>1 DEF ListedNow, ListTask
  <2>5. \A h \in Handlers : h # w => ListedLast(h)' /\ ListedNow(h)'
    BY <1>1, <1>2, <1>5, <1>6, <2>1, <2>2, ListingKept DEF Listings
  <2> QED BY <1>1, <2>3, <2>4, <2>5 DEF Listings
<1> QED BY <1>7, <1>8, ServeCases DEF Crash

\* toString() waits for the listing of every handler, and none changes before it returns.
LEMMA ListingsStep ==
    ASSUME Typed, Typed', Recorded, PoolProofs!Inv, AllDue, AlignedDeletes, Confined, Listings,
           [Next]_vars, ~crashed'
    PROVE  Listings'
<1>1. ASSUME NEW s \in Symbols, addSymbol(s) PROVE Listings'
  <2>1. /\ <<s, life[s] + 1>> \in Lives /\ symbol_submission_index \in Handlers
        /\ "addOrderBook" \in Ops
    BY <1>1, RequestSends DEF Ops
  <2>2. call' = Idle
    BY <1>1 DEF addSymbol, Send
  <2> QED BY <1>1, <2>1, <2>2, ListingsSend DEF addSymbol
<1>2. ASSUME NEW s \in Symbols, deleteSymbol(s) PROVE Listings'
  <2>1. /\ <<s, life[s]>> \in Lives /\ symbol_submission_index \in Handlers
        /\ "deleteOrderBook" \in Ops /\ getSubmissionIndex(s) = symbol_submission_index
    BY <1>2, RequestSends DEF deleteSymbol, Ops
  <2>2. call'.at = "erase"
    BY <1>2 DEF deleteSymbol
  <2> QED BY <1>2, <2>1, <2>2, ListingsSend DEF deleteSymbol
<1>3. ASSUME NEW s \in Symbols, NEW op \in Orders, OrderRequest(s, op) PROVE Listings'
  <2>1. <<s, life[s]>> \in Lives /\ op \in Ops /\ getSubmissionIndex(s) \in Handlers
    BY <1>3, RequestSends DEF OrderRequest, Ops
  <2>2. call' = Idle
    BY <1>3 DEF OrderRequest, Send, caller
  <2> QED BY <1>3, <2>1, <2>2, ListingsSend DEF OrderRequest, HandlerAt
<1>4. CASE EraseSymbol
  <2>1. /\ call.at = "erase" /\ call' = Idle
        /\ UNCHANGED <<submitted, ran, promise, getting, id_to_book, listing>>
    BY <1>4 DEF EraseSymbol, pool, handled
  <2>2. \A h \in Handlers : ~Asked(h) /\ ~Waited(h) /\ ~Asked(h)' /\ ~Waited(h)'
    BY <2>1 DEF Asked, Waited, Idle
  <2> QED BY <2>1, <2>2, ListingKept DEF Listings
<1>5. CASE toString \/ SubmitListing \/ AwaitListing \/ TakeListing \/ ReturnListing
  BY <1>5, ListingsCall
<1>6. CASE PoolStep \/ UNCHANGED vars
  <2>1. UNCHANGED <<submitted, ran, promise, getting, id_to_book, listing, call>>
    <3>1. CASE PoolStep
      BY <3>1, SamePool
         DEF PoolStep, caller, handled, PoolProofs!Spawn, PoolProofs!Poll, PoolProofs!Drain,
             PoolProofs!TryPop, PoolProofs!SpawnFails, PoolProofs!Destroy, PoolProofs!Join,
             PoolProofs!history, PoolProofs!owner, PoolProofs!workers
    <3>2. CASE UNCHANGED vars
      BY <3>2 DEF vars, pool, caller, handled
    <3> QED BY <1>6, <3>1, <3>2
  <2>2. \A h \in Handlers : (Asked(h)' <=> Asked(h)) /\ (Waited(h)' <=> Waited(h))
    BY <2>1 DEF Asked, Waited
  <2>3. \A h \in Handlers : ListedLast(h)' /\ ListedNow(h)'
    BY <2>1, <2>2, ListingKept DEF Listings
  <2> QED BY <2>1, <2>3 DEF Listings, ListTask
<1>7. ASSUME NEW w \in Handlers, ServeTask(w) PROVE Listings'
  BY <1>7, ListingsServe
<1> QED BY <1>1, <1>2, <1>3, <1>4, <1>5, <1>6, <1>7 DEF Next, Request, List

-----------------------------------------------------------------------------
(* The theorems.                                                           *)

\* The invariant holds of a market whose pool is being constructed.
LEMMA InitInv == ASSUME Init PROVE Inv
<1>1. PoolProofs!Inv /\ Typed /\ AllDue /\ Recorded
  BY InitMarket, InitRecorded
<1>2. \A w \in Handlers : submitted[w] = <<>> /\ ran[w] = <<>>
  BY SamePool DEF Init, PoolProofs!Init
<1>3. Delivery
  <2>1. ASSUME NEW l \in Lives PROVE \E w \in Handlers : Delivered(l, w)
    <3>1. 0 \in Handlers
      BY MarketAssumption DEF Handlers
    <3>2. <<>> \in [{} -> {}] /\ requested[l] = <<>>
      BY DEF Init
    <3>3. Placed(l, 0, <<>>)
      BY <1>2, <3>1, <3>2 DEF Placed
    <3>4. <<>> \in [1 .. Len(requested[l]) -> 1 .. Len(submitted[0])]
      BY <1>2, <3>1, <3>2
    <3> QED BY <3>1, <3>3, <3>4 DEF Delivered
  <2> QED BY <2>1 DEF Init, Delivery
<1>4. Confined
  BY <1>2 DEF Confined
<1>5. Books
  BY <1>2 DEF Init, Books, Alive
<1>6. Listings
  <2>1. \A h \in Handlers : ~Asked(h) /\ ~Waited(h)
    BY DEF Init, Asked, Waited, Idle
  <2>2. getting = NoTask
    BY SamePool DEF Init, PoolProofs!Init
  <2> QED BY <1>2, <2>1, <2>2 DEF Listings, ListedLast, ListedNow
<1> QED BY <1>1, <1>3, <1>4, <1>5, <1>6 DEF Init, Inv

\* Every step keeps the invariant.
LEMMA NextInv == ASSUME Inv, [Next]_vars PROVE Inv'
<1>1. PoolProofs!Inv' /\ Typed' /\ AllDue' /\ Recorded'
  BY PoolInvStep, TypedStep, AllDueStep, RecordedStep DEF Inv
<1>2. CASE crashed
  <2>1. UNCHANGED <<crashed, call>> /\ (Confined => Confined')
    BY <1>2 DEF Next, vars, caller, handled, pool, Confined
  <2> QED BY <1>1, <1>2, <2>1 DEF Inv
<1>3. CASE ~crashed /\ ~crashed'
  <2>1. Delivery' /\ Stays /\ (AlignedDeletes => Confined')
    BY <1>3, DeliveryStep, ConfinedStep DEF Inv
  <2>2. \A l \in Lives : Kept(l)'
    BY <2>1 DEF Delivery, Kept
  <2>3. ASSUME AlignedDeletes PROVE Books' /\ Listings'
    <3>1. Listings'
      BY <1>1, <1>3, <2>3, ListingsStep DEF Inv
    <3>2. ASSUME NEW w \in Handlers, ServeTask(w) PROVE Books'
      <4>1. /\ Typed /\ Recorded /\ PoolProofs!Inv /\ Confined /\ Delivery /\ Books
        BY <1>3, <2>3 DEF Inv
      <4> QED BY <1>1, <1>3, <2>1, <2>2, <2>3, <3>2, <4>1, BooksServe
    <3>3. CASE UNCHANGED <<id_to_book, served>>
      <4>1. Typed /\ Delivery /\ Books
        BY <1>3, <2>3 DEF Inv
      <4> QED BY <1>1, <2>1, <2>2, <3>1, <3>3, <4>1, BooksUnchanged
    <3>4. (\E w \in Handlers : ServeTask(w)) \/ UNCHANGED <<id_to_book, served>>
      BY DEF Next, Request, addSymbol, deleteSymbol, OrderRequest, Send, EraseSymbol, List,
             toString, SubmitListing, AwaitListing, TakeListing, ReturnListing, Step, PoolStep,
             vars, handled
    <3> QED BY <3>1, <3>2, <3>3, <3>4
  <2> QED BY <1>1, <1>3, <2>1, <2>3 DEF Inv
<1>4. CASE ~crashed /\ crashed'
  <2>1. PICK w \in Handlers : ServeTask(w)
    BY <1>4 DEF Next, Request, addSymbol, deleteSymbol, OrderRequest, Send, EraseSymbol, List,
                toString, SubmitListing, AwaitListing, TakeListing, ReturnListing, Step,
                PoolStep, vars, handled
  <2>2. Len(ran[w]) + 1 \in 1 .. Len(submitted[w]) /\ Len(ran[w]) \in Nat /\ call' = call
    BY <2>1, ServeRan, ServeEffect DEF Ran, Inv, caller
  <2>3. AlignedDeletes => call.at # "listed"
    BY <1>4, <2>2 DEF Inv, Listings, ListedNow, Waited, AllRan
  <2>4. AlignedDeletes => Confined'
    BY ConfinedStep DEF Inv
  <2> QED BY <1>1, <1>4, <2>2, <2>3, <2>4 DEF Inv
<1> QED BY <1>2, <1>3, <1>4

\* ConcurrentMarket keeps the invariant, whatever the workers and the caller do.
THEOREM MarketInvariance == Spec => []Inv
BY InitInv, NextInv, PTL DEF Spec

\* The state is well formed: the submission indexes of concurrent_market.cpp are always
\* indexes of handlers, for every number of threads.
THEOREM MarketTypeCorrect == Spec => []TypeOK
<1>1. Inv => TypeOK
  BY DEF Inv, Typed
<1> QED BY <1>1, MarketInvariance, PTL

\* The handlers of concurrent_market.h need no lock: no worker ever holds a task for the
\* handler of another, however tasks are queued, provided that the caller deletes a
\* symbol only when the next symbol would go to its worker.
THEOREM MarketConfined == AlignedDeletes /\ Spec => []HandlerConfined
<1>1. ASSUME AlignedDeletes, Inv PROVE HandlerConfined
  <2>1. ASSUME NEW w \in Handlers, task[w] # NoTask PROVE task[w].handler = w
    BY <1>1, <2>1, InHandNext DEF Inv, Confined
  <2> QED BY <2>1 DEF HandlerConfined
<1>2. AlignedDeletes => (Inv => HandlerConfined)
  BY <1>1
<1>3. CASE AlignedDeletes
  <2>1. Inv => HandlerConfined
    BY <1>2, <1>3
  <2> QED BY <2>1, MarketInvariance, PTL
<1> QED BY <1>3

\* When every worker has run all its tasks, every request has been served.
LEMMA AllServed ==
    ASSUME Typed, PoolProofs!Inv, Delivery, \A w \in Handlers : AllRan(w), NEW l \in Lives
    PROVE  served[l] = requested[l]
<1>1. PICK w \in Handlers : Delivered(l, w)
  BY DEF Delivery
<1>2. PICK pos : Placed(l, w, pos)
  BY <1>1 DEF Delivered
<1>3. /\ Len(requested[l]) \in Nat /\ Len(served[l]) \in Nat
      /\ Len(served[l]) <= Len(requested[l])
  BY Lengths DEF Delivery
<1>4. \A k \in 1 .. Len(requested[l]) : k <= Len(served[l])
  BY <1>2, RanBound DEF Placed, AllRan
<1>5. Len(served[l]) = Len(requested[l])
  <2>1. SUFFICES ASSUME Len(requested[l]) > Len(served[l]) PROVE FALSE
    BY <1>3
  <2> QED BY <1>3, <1>4, <2>1
<1>6. \A k \in 1 .. Len(served[l]) : served[l][k] = requested[l][k]
  BY DEF Delivery
<1>7. served[l] \in Seq(Ops) /\ requested[l] \in Seq(Ops)
  BY DEF Typed
<1> QED BY <1>5, <1>6, <1>7, SeqEqual

\* ConcurrentMarket::toString() returns the books with every request made about them,
\* and no others: each handler lists its books last of all its tasks, and the caller,
\* which waits for every one of them, makes no request in between.
THEOREM ListingsComplete == AlignedDeletes /\ Spec => []ToStringComplete
<1>1. ASSUME AlignedDeletes, Inv PROVE ToStringComplete
  <2>1. SUFFICES ASSUME call.at = "listed"
                 PROVE  UNION {{<<s, listing[h][s]>> : s \in DOMAIN listing[h]} : h \in Handlers}
                          = {<<s, Tail(requested[<<s, life[s]>>])>> :
                                s \in DOMAIN id_to_submission_index}
    BY DEF ToStringComplete
  <2>2. ~crashed /\ Typed /\ PoolProofs!Inv /\ Recorded /\ Delivery /\ Books /\ Listings
    BY <1>1, <2>1 DEF Inv
  <2>3. \A h \in Handlers : AllRan(h) /\ listing[h] = id_to_book[h]
    BY <2>1, <2>2 DEF Listings, ListedNow, Asked, Waited
  <2>4. \A l \in Lives : served[l] = requested[l]
    BY <2>2, <2>3, AllServed
  <2>5. \A s \in Symbols, n \in 1 .. MaxLives : <<s, n>> \in Lives
    BY DEF Lives
  <2>6. ASSUME NEW h \in Handlers, NEW s \in DOMAIN id_to_book[h]
        PROVE  /\ s \in DOMAIN id_to_submission_index
               /\ id_to_book[h][s] = Tail(requested[<<s, life[s]>>])
    <3>1. s \in Symbols
      BY <2>2 DEF Typed, TypeOK
    <3>2. PICK n \in 1 .. MaxLives : Alive(<<s, n>>, h)
      BY <2>2, <3>1 DEF Books
    <3>3. /\ id_to_book[h][s] = Tail(requested[<<s, n>>])
          /\ requested[<<s, n>>] # <<>>
          /\ \A k \in 1 .. Len(requested[<<s, n>>]) :
                requested[<<s, n>>][k] # "deleteOrderBook"
      BY <2>2, <2>4, <2>5, <3>1, <3>2 DEF Books, Alive
    <3>4. Len(requested[<<s, n>>]) \in 1 .. Len(requested[<<s, n>>])
      <4>1. requested[<<s, n>>] \in Seq(Ops)
        BY <2>2, <2>5, <3>1 DEF Typed
      <4> QED BY <3>3, <4>1, EmptySeq
    <3>5. Open(s, n)
      BY <2>2, <3>1, <3>3, <3>4 DEF Recorded
    <3> QED BY <3>3, <3>5 DEF Open
  <2>7. ASSUME NEW s \in DOMAIN id_to_submission_index
        PROVE  \E h \in Handlers : s \in DOMAIN id_to_book[h]
    <3>1. /\ s \in Symbols /\ life[s] \in 1 .. MaxLives
          /\ id_to_submission_index[s] \in Handlers /\ <<s, life[s]>> \in Lives
      BY <2>2, <2>5, MarketAssumption DEF Recorded, Typed, TypeOK
    <3>2. Open(s, life[s]) /\ ~(life[s] > life[s])
      BY <2>1, <3>1 DEF Open
    <3>3. On(<<s, life[s]>>)
      BY <2>2, <2>4, <3>1, <3>2 DEF On, Recorded
    <3>4. Alive(<<s, life[s]>>, id_to_submission_index[s])
      BY <2>2, <3>1, <3>3, AliveAt DEF AliveWhere, Delivery, Kept
    <3> QED BY <2>2, <3>1, <3>4 DEF Books
  <2> DEFINE Listed == UNION {{<<s, listing[h][s]>> : s \in DOMAIN listing[h]} : h \in Handlers}
             Shown == {<<s, Tail(requested[<<s, life[s]>>])>> :
                          s \in DOMAIN id_to_submission_index}
  <2>8. ASSUME NEW x \in Listed PROVE x \in Shown
    <3>1. PICK h \in Handlers : x \in {<<s, id_to_book[h][s]>> : s \in DOMAIN id_to_book[h]}
      BY <2>3
    <3>2. PICK s \in DOMAIN id_to_book[h] : x = <<s, id_to_book[h][s]>>
      BY <3>1
    <3> QED BY <2>6, <3>2
  <2>9. ASSUME NEW x \in Shown PROVE x \in Listed
    <3>1. PICK s \in DOMAIN id_to_submission_index : x = <<s, Tail(requested[<<s, life[s]>>])>>
      OBVIOUS
    <3>2. PICK h \in Handlers : s \in DOMAIN id_to_book[h]
      BY <2>7
    <3>3. x = <<s, listing[h][s]>> /\ s \in DOMAIN listing[h]
      BY <2>3, <2>6, <3>1, <3>2
    <3> QED BY <3>3
  <2> QED BY <2>8, <2>9
<1>2. CASE AlignedDeletes
  <2>1. Inv => ToStringComplete
    BY <1>1, <1>2
  <2> QED BY <2>1, MarketInvariance, PTL
<1> QED BY <1>2

\* The destructor of ConcurrentMarket, which destroys its pool, leaves no request
\* unserved: the workers drain their queues before they are joined.
THEOREM DestructorServesAll == Spec => []DestructorServes
<1>1. ASSUME Inv PROVE DestructorServes
  <2>1. SUFFICES ASSUME phase = "destroyed", ~crashed PROVE served = requested
    BY DEF DestructorServes
  <2>2. Typed /\ PoolProofs!Inv /\ AllDue /\ Delivery
    BY <1>1, <2>1 DEF Inv
  <2>3. ASSUME NEW w \in Handlers PROVE AllRan(w)
    <3>1. thread[w] \in {"none", "exited"} /\ due[w] = Len(submitted[w])
      BY <2>1, <2>2, SamePool DEF PoolProofs!Inv, PoolProofs!Accounted, AllDue
    <3>2. due[w] <= Len(ran[w])
      BY <2>1, <2>2, <3>1, SamePool, RanBound DEF PoolProofs!Inv, PoolProofs!Accounted
    <3> QED BY <2>2, <3>1, <3>2, RanBound DEF AllRan
  <2>4. \A l \in Lives : served[l] = requested[l]
    BY <2>2, <2>3, AllServed
  <2> QED BY <2>2, <2>4 DEF Typed
<1> QED BY <1>1, MarketInvariance, PTL

\* ConcurrentMarket does what AsyncMarket promises: each step makes a request that may
\* follow those before it, or serves the next request of a life, or changes neither.
THEOREM ServedInOrder == Spec => ImplementsAsyncMarket
<1>1. Init => Async!Init
  BY DEF Init, Async!Init
<1>2. ASSUME Inv, [Next]_vars PROVE [Async!Next]_<<requested, served>>
  <2> USE DEF Async!Next
  <2>1. Typed /\ Recorded /\ PoolProofs!Inv /\ AllDue
    BY <1>2 DEF Inv
  <2>2. ASSUME NEW s \in Symbols, addSymbol(s) PROVE Async!Next
    <3>1. PICK l \in Lives : l = <<s, life[s] + 1>>
      BY <2>1, <2>2, RequestSends
    <3>2. /\ requested' = [requested EXCEPT ![l] = Append(@, "addOrderBook")]
          /\ UNCHANGED served
      BY <2>2, <3>1 DEF addSymbol, Send, handled
    <3>3. requested[l] = <<>>
      <4>1. life[s] + 1 \in 1 .. MaxLives /\ life[s] + 1 > life[s]
        BY <2>1, <2>2, MarketAssumption DEF addSymbol, Typed, TypeOK
      <4> QED BY <2>1, <3>1, <4>1 DEF Recorded
    <3>4. 1 .. Len(requested[l]) = {}
      BY <3>3
    <3> QED BY <3>2, <3>3, <3>4 DEF Async!Request
  <2>3. ASSUME NEW s \in Symbols, s \in DOMAIN id_to_submission_index, call = Idle,
               NEW op \in Ops \ {"addOrderBook"}, UNCHANGED served,
               requested' = [requested EXCEPT ![<<s, life[s]>>] = Append(@, op)]
        PROVE  Async!Next
    <3>1. PICK l \in Lives : l = <<s, life[s]>>
      BY <2>1, <2>3, RequestSends
    <3>2. life[s] \in 1 .. MaxLives /\ ~(life[s] > life[s])
      BY <2>1, <2>3, MarketAssumption DEF Recorded, Typed, TypeOK
    <3>3. Open(s, life[s])
      BY <2>3 DEF Open, Idle
    <3>4. /\ requested[l] # <<>>
          /\ \A i \in 1 .. Len(requested[l]) : requested[l][i] # "deleteOrderBook"
      BY <2>1, <3>1, <3>2, <3>3 DEF Recorded
    <3> QED BY <2>3, <3>1, <3>4 DEF Async!Request, Ops
  <2>4. ASSUME NEW s \in Symbols, deleteSymbol(s) PROVE Async!Next
    <3>1. "deleteOrderBook" \in Ops \ {"addOrderBook"}
      BY DEF Ops
    <3> QED BY <2>3, <2>4, <3>1 DEF deleteSymbol, Send, handled
  <2>5. ASSUME NEW s \in Symbols, NEW op \in Orders, OrderRequest(s, op) PROVE Async!Next
    <3>1. op \in Ops \ {"addOrderBook"}
      BY MarketAssumption DEF Ops
    <3> QED BY <2>3, <2>5, <3>1 DEF OrderRequest, Send, handled
  <2>6. CASE SubmitListing
    BY <2>6 DEF SubmitListing, Step, asked, handled
  <2>7. CASE EraseSymbol \/ toString \/ AwaitListing \/ TakeListing \/ ReturnListing
               \/ PoolStep \/ UNCHANGED vars
    BY <2>7, QuietSteps DEF Quiet
  <2>8. ASSUME NEW w \in Handlers, ServeTask(w), ~crashed
        PROVE  Async!Next \/ UNCHANGED <<requested, served>>
    <3>1. UNCHANGED requested
      BY <2>1, <2>8, ServeEffect DEF asked
    <3>2. CASE ListBooks(task[w]) \/ Crash
      BY <3>1, <3>2 DEF ListBooks, Crash
    <3>3. CASE task[w].op \in Ops /\ Served(task[w])
      <4>1. ~crashed'
        BY <2>8, <3>3 DEF Served
      <4>2. PICK l \in Lives : l = task[w].life
        BY <2>1, <3>3, <2>8, ServeEffect, TaskKinds
      <4>3. /\ served' = [served EXCEPT ![l] = Append(@, requested[l][Len(served[l]) + 1])]
            /\ Len(served[l]) + 1 \in 1 .. Len(requested[l])
        BY <1>2, <2>1, <2>8, <3>3, <4>1, <4>2, DeliveryServe DEF Inv
      <4>4. Len(served[l]) < Len(requested[l])
        BY <2>1, <4>3, Lengths
      <4> QED BY <3>1, <4>3, <4>4 DEF Async!Serve
    <3> QED BY <2>8, <3>2, <3>3, ServeCases
  <2> QED BY <1>2, <2>2, <2>4, <2>5, <2>6, <2>7, <2>8 DEF Next, Request, List
<1> QED BY <1>1, <1>2, MarketInvariance, PTL DEF Spec, ImplementsAsyncMarket, Async!Spec
=============================================================================
