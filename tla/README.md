# RapidTrader in TLA+

RapidTrader is a limit order book library in C++: a price-time-priority matching
engine for one symbol, and a single-threaded and a multi-threaded market that keep
one book per symbol. This directory holds TLA+ modules translated from its source,
TLC configurations that check them on small instances, and TLAPS proofs of what
matters most for every instance. Paths below are relative to the repository root.

## The system

| component | state | operations | interacts with |
|---|---|---|---|
| `Order` (`orderbook/order.h`, `order.cpp`) | type, side, time in force, price, stop price, trail amount, quantities | factories, `execute`, `setQuantity`, `setPrice`, `setStopPrice`, `setTrailAmount`, `setType`, `setOrderID` | held by `Level` (intrusive list) and by `MapOrderBook` |
| `Level` (`level.h`, `level.cpp`) | volume, queue of orders | `addOrder`, `popFront`, `deleteOrder`, `reduceVolume` | one per price and map of the book |
| `MapOrderBook` (`map_orderbook.h`, `.cpp`) | orders by id with an iterator to their level; six maps of levels (limit, stop, trailing stop; bid, ask); last traded price; two trailing references | `addOrder`, `executeOrder` (two overloads), `cancelOrder`, `deleteOrder`, `replaceOrder` | calls the `EventHandler` |
| events (`event_handler.h`, `event.h`) | none | order added / updated / executed / deleted, symbol added / deleted | a user's listener |
| `Market`, `OrderBookHandler` (`market.h`, `.cpp`) | book by symbol, symbols | the book's operations by symbol, `addSymbol`, `deleteSymbol` | one handler, its books |
| `ConcurrentMarket` (`concurrent_market.h`, `.cpp`) | handlers, symbol to submission index, next index | as `Market`, each submitted as a task; `toString` waits for all workers | `ThreadPool`, one `OrderBookHandler` per worker |
| `ThreadPool`, `ThreadJoiner` (`include/concurrent/`) | a flag, one queue and one thread per index | submit, waitable submit, `start`, `stop`, destructor | `Queue`, `ConcurrentMarket` |
| `Queue` (`include/concurrent/queue.h`) | a mutex, a condition variable, a `std::queue` | `push`, `waitAndPop`, `tryPop` (two overloads), `empty` | one per worker of the pool |
| hash map (`include/utils/robin_hood.h`) | slots, info bytes, count, mask, limit, hash multiplier | insertions, searches, erasures, iterators, sizes, copies, moves, swap, comparison | holds a book's orders, a market's symbols and books |
| symbol, log | | | support code |

What makes each of them correct, and what is hard about it:

* **Order book.** It is sequential; the difficulty is re-entrance and stale reads
  inside one call. A call matches, fills and deletes orders while it iterates over the
  levels; then it activates stop orders, which leave the stop levels, trade, move the
  price and so reach other stops, while each loop works with a price captured before it
  began; and it rebuilds whole maps of trailing stop levels, moving each order and the
  iterator kept to its level. Correct means: three redundant indexes of the orders agree,
  level volumes are right, the best bid stays below the best ask, trades follow price-time
  priority, no reached stop is left when a call returns, trailing stops stay within their
  trail amount, events let a listener rebuild the book, and every call returns.
* **Market.** Forwarding; correct means an operation reaches the book of its symbol.
* **ConcurrentMarket.** A symbol is confined to one worker; correct means that operations
  of one caller on one symbol run in order and on one thread, that `toString` sees what was
  submitted before, and that adding and deleting symbols keeps that true.
* **ThreadPool and Queue.** Correct means that every submitted task runs once, in the
  order of its queue, that the destructor drains the queues, and that nothing waits for ever;
  of a queue, that elements come out once and in order and that no wake-up is lost.
* **Hash map.** Sequential, and hard because of what it packs into one byte per slot: part of the
  hash and the distance from home, in units that are halved when a byte would overflow, while
  insertions and erasures shift runs of slots and searches stop at the first smaller byte. It
  reacts to a bad hash with another multiplier, and moves the nodes into new memory with an
  exception possible at each. Correct means that it is a map: that no sequence of calls puts an
  entry out of reach, that iterations and comparisons are exact, and that insertions end.

## Modules

| module | models |
|---|---|
| `Order` | `order.h`, `order.cpp`: the record, the factories with their assertions, the mutators, 64-bit wrap and the 32-bit price parameter of `execute` |
| `Level` | `level.h`, `level.cpp`, and the `std::map` of levels: `emplace`, assignment, `erase` |
| `PriorityBook` | the abstract specification: what an order book promises whoever submits orders |
| `MapOrderBook` | `map_orderbook.h`, `map_orderbook.cpp`: the state machine and its properties; implements `PriorityBook` |
| `MCMapOrderBook` | the menus of requests of the TLC instances |
| `LevelProofs` | lemmas about queues without repetitions and about types |
| `MapOrderBookProofs` | the book's inductive invariant: types, indexes, an uncrossed book |
| `BookOrderProofs` | what the book makes of its orders: quantities, events, stop and trailing orders |
| `BookPriorityProofs` | priority in the levels and in matching, and that the book implements `PriorityBook` |
| `ThreadPool` | `thread_pool.h`, `thread_joiner.h`, and the operations of `queue.h` the pool uses |
| `ThreadPoolProofs` | the pool's inductive invariant and its theorems |
| `Queue` | `queue.h` with its mutex and condition variable |
| `QueueProofs` | the queue's inductive invariant and its theorems |
| `UnorderedMap` | the abstract specification: what the hash map promises |
| `RobinHood` | `robin_hood.h`, the class `detail::Table` and its iterators; implements `UnorderedMap` |
| `MCRobinHood` | the hash functions and programs of the TLC instance |
| `RobinHoodProofs` | the hash map's inductive invariant, its theorems, and that it implements `UnorderedMap` |
| `AsyncMarket` | the abstract specification: what an asynchronous market promises |
| `ConcurrentMarket` | `concurrent_market.h`, `concurrent_market.cpp`, the `OrderBookHandler` of `market.cpp`; composes `ThreadPool` (INSTANCE), implements `AsyncMarket` |
| `ConcurrentMarketProofs` | the market's inductive invariant and its theorems, on top of `ThreadPoolProofs` |

### How the model corresponds to the code

A public call starts in an action guarded by `pc = "idle"` (`AddOrder`, `ExecuteOrderAt`,
`ExecuteOrder`, `CancelOrder`, `DeleteOrder`, `ReplaceOrder`). Its straight-line part is
that action; each loop it runs takes one step per iteration:

| `pc` | code |
|---|---|
| `add` | the body of `addOrder` / `activateStopOrder` before `match`, and `addStopOrder` |
| `match` | the loop of `match()`, one trade with `executeOrders()` per step (`MatchOne`), then `InsertLimitOrder` or `DiscardTaker` |
| `activate` | the head of the loop of `activateStopOrders()` |
| `bidStop`, `bidTrailing`, `askStop`, `askTrailing` | the four activation loops; `trigger_price` is `last_ask_price` / `last_bid_price` |
| `updateAsk`, `moveAsk`, `updateBid`, `moveBid` | `updateAskStopOrders()` and `updateBidStopOrders()`, one moved order per step |
| `endRound` | `while (activate)` |

`taker` is the order the running call works on (a by-value parameter in the code), `ret`
the loop `activateStopOrder()` returns into, and `rescans` the calls of
`activateStopOrders()` still to come: one, or two in `replaceOrder()`, whose `addOrder()`
makes one of its own. `feed` is what a listener that applies every order event holds; it
stands for the `EventHandler`. The wrapper's `level_it` is the key of the level it points
into. Names follow the source; a resting order is `orders[id]`, and a level's queue holds ids.

Left out: the symbol of an order (a book has one), printing, `dumpBook`, the getters, and
`Level::popBack`/`back`, which nothing calls. The assertions of the debug build are not
guards: the model goes on where a release build would, and what they assert is stated as
properties (`VolumeExact`, `IndexConsistent`, `Uncrossed`, `StopsUntriggered`, and
`ExecutedWithinQuantity`, which does not hold). Ids are never reused while they rest, and
quantities, and prices where the interface asks for it, are positive, as the interface
requires; `InputAssumption` says so. With `ClientsOverCancel` callers cancel more than is
open, which the interface allows; since that damages the order (see the findings), only the
run about it sets it.

`PriorityBook` has the limit orders as queues by side and price, the open quantities and the order
being matched; it says that the latter trades with the oldest order at the best price it accepts, as
much as both can and at that price, then rests behind the others or leaves, and that no other order
comes, goes, loses quantity or moves but by its owner's call. When a stop order enters it leaves
open. The refinement mapping is a projection: everything the book does for levels, indexes, stops
and trailing stops must be a stutter or one of those steps.

`canMatchOrder()` is modelled by what its loop computes: it never advances its iterator, so
it answers yes as soon as there is an accepted best level of non-zero volume. For a crossing
level of volume 0 it would not end; the model then has no step, which TLC would report as
a deadlock.

`ThreadPool` has one owner thread and the workers. The worker's loop is three steps, as the code
reads the flag (`Poll`), then, if it was reset, the queue (`Drain`), then pops (`TryPop`) under
another acquisition of the queue's lock; a task's run ends in `RunTask`, and all the time between
`TryPop` and `RunTask` counts as running it. The owner's `phase` is where the pool is in its life;
`terminated` is `std::terminate()`, met by a plain task that throws and by `start()`. `submitted`,
`ran` and `due` are history: `due[w]` counts what was pushed to queue `w` before the flag was
reset. The flag is a sequentially consistent atomic and a queue's operations are atomic under its
mutex, so interleaved steps are all there is. The assertion of `workerThread` reads the size of the
vector of queues while the constructor grows it; that race reaches nothing but the assertion and is
left out. A thread that cannot be created in `start()` leaves the pool stopped: no step.

`ConcurrentMarket` takes the pool's actions for its own: `addSymbol`, `deleteSymbol` and
`OrderRequest` (the six functions about orders, which differ in what they submit) contain
`Pool!Submit`, and a worker's `ServeTask` contains `Pool!RunTask`. A book is the sequence of
requests it served, which determines its content since `MapOrderBook` is deterministic. The keys of
`id_to_symbol` and `id_to_submission_index` are the same and one variable. `deleteSymbol` is two
steps because the worker may run between its submission and the erasure: `EraseSymbol` destroys the
entry to which the task holds an iterator, and a read after it is undefined behaviour, modelled as
a name nothing depends on or the end of the process (`crashed`). Failed assertions end the process
too. There is one caller, since none of the market's maps has a lock. `toString` blocks the caller
in `AwaitListing` until each worker has run its listing.

`AsyncMarket` says what the caller may rely on: the requests about a symbol, from its addition to its
deletion, are served one by one in the order they were made. `requested` and `served` are history
variables of `ConcurrentMarket`, and the refinement mapping is the identity on them. A symbol added
again begins another *life*: it may go to another worker, which may serve it before the first worker
has served the deletion, and nothing in the repository excludes that.

`Queue` takes a step per acquisition of the mutex, access to the queue, notification and wait; a
`lock_guard` is the pair `Lock`, and the action that ends the call. A wait gives up the mutex and
sleeps in one step, as `std::condition_variable` promises, and a thread that wakes, notified or not,
goes back to `Lock` and tests again. The two `tryPop` differ in what they return only and are one
operation. That a call's accesses lie between two steps on the mutex, during which nobody else has
it (`MutexHeld` in `QueueProofs`), is why `ThreadPool` may take a queue's operations as atomic. The
copy constructor is left out: the pool keeps its queues by `std::unique_ptr` and nothing copies one.

`RobinHood` keeps the members of each table as a record with the names of the code; `mInfo` and
`mKeyVals` are functions on the slots, with the sentinel behind the last. Loops over slots are
within a step. An insertion takes a step per attempt of `insertKeyPrepareEmptySpot` (`KeyFound`,
`InsertNode`, `IncreaseSize`, at last `GiveUp`), and a rehash a step per node, because
`insert_move` may throw at each (`MoveNode`); the rest of the nodes is then lost, as it is in the
code. Where two loops over slots look at different slots they are different operators: `findIdx`
tests whether to go on at every second slot only, `erase` at each. A hash function is a function
from the multiplier's number and the key to a natural, whose low bits go into the info byte and
whose next bits choose the home; the module is about every hash function, so the mixing itself is
abstract. A `program` is what a client does with its tables (a hash function, the tables, the nodes
and the sizes it asks for); it is chosen at the start and stays. Left out: `BulkPoolAllocator`, which
supplies the nodes' memory, allocations that fail, and sets. Not modelled either is the address of
an entry, on which the levels rely: `unordered_map` stores entries larger than six words, as orders
are, outside the slots, where they stay.

`UnorderedMap` promises what the standard's maps do, and admits the one thing this one adds: an
insertion or change of size that ends in `overflow_error` may leave the table with some of its
entries only. The refinement mapping takes a table to the entries in its slots and, during a rehash,
those of the old memory still to be moved.

## Runs

| run | question | distinct states |
|---|---|---|
| `book_limit` | Do matching, cancels, replaces, executions and deletes keep price-time priority, volumes, events, and an uncrossed book, and does every call return? | 542,711 |
| `book_stop` | Do cascades of stop activations reach a fixed point, with indexes, feed and quantities right? | 891,447 |
| `book_trailing` | Are trailing stops rebuilt, saturated and triggered correctly as the market moves? | 383,244 |
| `pool` | Do tasks run once and in order, is none abandoned when the pool is stopped or destroyed, and does everything that waits return? | 76,035 |
| `queue` | Do elements come out once and in order, and is nobody left waiting beside one? | 192,571 |
| `hash_map` | Is the hash map a map, whatever the hash function and whatever is called, and do insertions end? | 133,015 |
| `market` | Do handlers stay with their workers, are symbols served in order, are listings complete, is every request served? | 273,375 |
| `doc_*` | Where the documentation or an assertion says something else than the code does | counterexamples |

The properties:

* `IndexConsistent`: every id is queued exactly once, in the level its iterator names, of the
  map of its type and side, and no level is empty but those a rebuild has drained. It holds
  between any two iterations of the loops of a call, so also after a deletion in an activation loop.
* `VolumeExact`: a level's volume is the 64-bit sum of its orders' open quantities
  (`book_limit`, and through the rebuilds `book_trailing`).
* `Uncrossed`: the best bid is below the best ask, in every intermediate state.
* `PriceTimePriority`: who trades next, and at what price.
* `TimePriority`: nobody overtakes an order that rests. What joins a level joins behind
  (`book_limit`); and orders that share a level keep their order through a rebuild
  (`book_trailing`), for which `Ahead` counts an order that has been moved to the new map as
  ahead of those still in the old one. Which of several old levels is emptied first, when they
  merge at the end of the price range, is not judged: the code takes them by price.
* `ImplementsPriorityBook`: the open quantities, the queues of limit orders and the order being
  matched behave as in `PriorityBook`.
* `StopsUntriggered`: when a call returns, no stop the last traded price reaches is left.
* `TrailWithin`: when a call returns, a trailing stop is within its trail amount of the market.
* `QuantityAccounted`: without cancels, executed plus open is the original quantity, for resting
  orders and the order in flight.
* `FeedMirrorsBook`: the events describe the book. Two fields the book sets without an event are
  left out: the stop price a trailing order enters with and the price a market order is matched at.
* `RestingOrdersLive`: what rests has open quantity, and no market, fill-or-kill or
  immediate-or-cancel order rests among the limit levels.
* `CallReturns`: every call of the book returns, although an activation may trade and so start
  another round (liveness).
* `RunsInOrder`: what was pushed to a queue is what its worker ran, holds and has waiting, in order.
* `DestroyedDrained`, `DueTasksRun`: no task submitted to a running pool is abandoned, at the end of
  the destructor and in every execution.
* `WaitEnds`, `DestructorReturns`: `get()`, also of a task that throws, and the destructor return.
* `HandlerConfined`: worker `i` runs only tasks for handler `i`; the handlers have no lock.
* `ToStringComplete`: a listing shows every request the caller made before, and nothing else.
* `DestructorServes`: when the market has been destroyed, every request was served.
* `ImplementsAsyncMarket`, `RequestsServed`: safety and liveness of what the market promises.

* `TakenInOrder`: what was pushed is what was returned and what is queued, in order, and whoever is
  about to pop holds the front.
* `NoLostWakeup`: while a thread waits, every element has a thread that is coming for it or one
  that is about to wake one. `ElementEndsWait` is its liveness side.
* `TableOK`: count, sentinel, taken slots and info bytes agree with the nodes and their homes, and a
  byte that cannot grow any more has set the limit to 0, in every intermediate state.
* `FindsEntries`: both searches find each key exactly where it is, in every intermediate state.
* `IterationExact`, `EqualExact`: iterators, also across `erase(iterator)`, and `operator==`.
* `ImplementsUnorderedMap`, `CallsReturn`: safety and liveness of what the map promises.

Bounds. Three or four ids, because the smallest cascades need a resting order to trade with,
another that moves the price, and a stop on each side, and the smallest priority violation needs
two orders of one level and a taker. Two limit prices, and, for stops, a price between them that
callers trade at: stops of both sides wait there, an ask stop trades at the higher price when it
is activated, and only a second round activates the bid stop that reaches. Sizes 1 and 2 (4 in the cancel runs), so that an order can be partly filled
by one order and filled by several. `UINT64_MAX` is 15 or 7 so that sums with trail amounts meet the
end of the range (`book_trailing` goes there); `UINT32_MAX` is 7 or 5. Callers may add, delete,
execute, cancel and replace in any order, for ever: the state space is finite because ids,
prices and quantities are, and nothing else bounds a run. Ids are interchangeable, so
`book_stop` and `book_trailing` use them as a symmetry set; `book_limit`, which checks liveness too,
does not. Its menu has stop and stop limit orders at the prices of the limit orders, so that calls run
through activations as well; one of the stop limit orders is immediate-or-cancel, and must not
rest when it has been activated.

`pool` has two workers and three tasks (a waitable one, a waitable one that throws, a plain one
that throws): two in one queue show order, one in each shows independence, and three let one be in
hand, one wait and one arrive after `stop()`. `market` has two workers, three symbols, each of which
can be added twice, two kinds of order requests and five tasks: enough to add three symbols (the
index wraps), delete one and add it again on the other worker, or to make requests and list the
market. `MaxTasks` and `MaxLives` bound it. With `AlignedDeletes` the caller deletes a symbol only when the
next one would go to the same worker, the only case in which `deleteSymbol` takes the right handler;
`doc_delete_symbol` drops that restriction. `pool` and `market` end (or, in `pool`, the owner may wait for a task it gave
to a stopped pool), so they do not check deadlock; their liveness properties say what must not hang.

`queue` has three threads with two calls each and one spurious wake-up: two may wait while a third
pushes twice, or one may be woken while another takes its element. It ends when the calls are used
up, so it does not check deadlock. `hash_map` scales the constants of the table down with their
proportions: info bytes of 3 bits, which begin with 2 bits of the hash and are halved once before
the limit is met (8, 5 and up to four times in the code), 2 slots at first (8), 4 attempts (256), 2
multipliers (2^62). Four keys then fill an info byte. Its programs are a hash that sends all keys
home to one slot under both multipliers (halving, rehashing, growing, giving up, and a rehash that
fails in the middle), one that is good until the multiplier changes (a failing rehash of nodes that
were well placed), one that is good in large tables only (growing and compacting), and two tables
under a hash that the multiplier makes good (copies, moves, swaps, comparison across multipliers). The run
reaches every action. `MaxDoublings` bounds the sizes `reserve` and `compact` choose from; the programs ask for less.

Fairness. `Spec` has weak fairness of the steps of a running call: the book is sequential code
on the caller's thread, which goes on until it returns. Nothing obliges a caller to call. In `ThreadPool` and
`ConcurrentMarket` each worker is weakly fair, because the operating system schedules threads, and so are
the owner's steps inside a call (constructor, destructor, `get()`, `deleteSymbol`, `toString`); submitting, stopping and
destroying are not. In `Queue` each thread is weakly fair inside a call; with the calls bounded, that
is enough for a thread that wants the mutex to get it, and nobody who waits is woken without a
notification. `RobinHood` runs on its caller's thread, and its steps inside a call are weakly fair; the
formula is written out as `[]<>IsIdle \/ []<><<Step>>_vars`, because those steps are enabled exactly
while a call is in progress.

### Where the code and its documentation disagree

* `doc_fill_or_kill`: a fill-or-kill order is partly filled (`order.h:67-68`), because
  `canMatchOrder()` counts the best level again and again. The test of it
  (`test/market/test_add_order.cpp`, `AddFokLimitOrder2`) uses a price that crosses nothing.
* `doc_cancel_removes`: cancelling more than is open wraps the open quantity and leaves the
  order in the book (`orderbook.h:44-45`).
* `doc_executed_quantity`: `setQuantity()` stores the amount cancelled as the order's quantity,
  and what executes later exceeds it (asserted at `order.cpp:232`; a debug build aborts).
* `doc_pool_restart`: `start()` on a stopped pool assigns to threads nobody has joined, which
  terminates the process (`thread_pool.h:105`).
* `doc_delete_symbol`: `deleteSymbol()` gives the symbol's worker the handler of the next symbol to
  be added (`concurrent_market.h:140-141`), with more than one thread.

Also modelled, without a run of its own: `execute()` takes the price as 32 bits, so the last executed
price of an order is not the price it was executed at (`order.h:346-348`) when that is larger.

Worth a reader's notice, although no sentence of the documentation is plainly contradicted: `executeOrder(id,
quantity)` of a resting stop order trades at price 0, the value that also means that nothing
has traded; a stop price reached by a trade in the middle of a match, and left again before it ends,
activates nothing; before the first trade both kinds of stop orders are activated on entry; trailing
stops do not ratchet after a partial rebound; the stop price a trailing order enters with is
not announced; `deleteSymbol()` hands its task an iterator to an entry it erases at once; a task
given to a stopped pool may never run.

## Proofs

### The order book

For every set of ids, every widths and every set of requests, quantities and prices the
assumptions allow:

| module | theorem | says |
|---|---|---|
| `MapOrderBookProofs` | `Invariance` | `Spec => []Inv` |
| | `TypeCorrect` | `Spec => []BookTypeOK` |
| | `Consistent` | `Spec => []IndexConsistent` |
| | `NeverCrossed` | `Spec => []Uncrossed` |
| `BookOrderProofs` | `RestingLive` | `Spec => []RestingOrdersLive` |
| | `FeedMirrors` | `Spec => []FeedMirrorsBook` |
| | `QuantityKept` | `CancelQuantities = {} => (Spec => []QuantityAccounted)` |
| | `NothingLeftTriggered` | `Spec => []StopsUntriggered` |
| | `TrailsWithin` | `Spec => []TrailWithin` |
| | `VolumesExact` | `Spec => []VolumeExact` |
| `BookPriorityProofs` | `NobodyOvertakes` | `Spec => TimePriority` |
| | `TradesInTurn` | `Spec => PriceTimePriority` |
| | `BookImplementsPriority` | `~ClientsOverCancel => (Spec => ImplementsPriorityBook)` |

Assumptions: `WidthAssumption` (`Order`), the widths are naturals and the 32-bit one is the
smaller; `InputAssumption` (`MapOrderBook`), requests are ones a factory accepts, quantities and
prices are positive and in range, and the mark `NoOrder` is neither an order nor what
`PriorityBook` sees of one. TLC evaluates both. The two hypotheses in the table are the ones the
properties need: a cancel overwrites the quantity executed ones are measured against, and cancelling more
than is open wraps the open quantity (see the findings), which no book would promise.

*Indexes.* `IndexConsistent` is not inductive: it does not say that the order in flight is
outside the book (an insertion would queue it twice), nor, during a rebuild, which of the two
maps holds an order. `Inv` is `Scalars /\ Shape /\ Flight`. `Shape` has two forms, both
predicates of values: outside a rebuild the six maps hold every order exactly once (`Static`);
inside one, the map being rebuilt and the new one share its orders (`Mid`). `Flight` says that
the order in flight does not rest and that a running call still owes a pass over the stop
orders. What each update of the book does to a shape is one lemma: `InsertStatic`,
`ReduceVolumeStatic`, `UpdateStatic`, `EraseStatic`, `BeginMid`, `MoveMid`, `SwapStatic`. Each
action then has a lemma that names the update it makes, and `NextInv` puts them together.
They rest on `LevelProofs`: erasing by value from a queue without repetitions erases that
element and keeps the others.

*An uncrossed book.* `NeverCrossed` uses `Inv` and one observation. Only `InsertLimitOrder` adds a
limit level, and it runs when the loop of `match()` has ended with quantity left, so when the order
accepts no level of the other side; every other update shrinks the keys of the limit levels or leaves
them alone (`NoNewLimitLevel`).

*Orders.* `BookOrderProofs` begins with what a step does to the orders that rest: one leaves
(`Removed`), loses quantity and leaves when it is filled (`Reduced`), comes to rest (`Rested`), or
gets another stop price (`Repriced`). `RestingOrdersLive` is inductive once an
order about to enter is known to be open (`Live`), and `FeedMirrorsBook` and `QuantityAccounted` are
inductive with `Inv`.

*Stops.* `StopsUntriggered` and `TrailWithin` speak of the moment a call returns, and what they
rest on is spread over the round of `activateStopOrders()` that activated nothing. The invariant `Stops` says where a
round stands: a loop that has ended leaves its map without a reached order as long as nothing was activated
since (`Waiting`); each loop's captured price is the current one until then (`Captured`); the two
trailing references have caught up with the last price at the places where `updateAskStopOrders()` and
`updateBidStopOrders()` leave them (`References`); every trailing stop is within its amount of its
side's reference (`Within`), and those already moved by a rebuild within that of the last price
(`MovedWithin`). Price 0, which a trade of a stop order leaves and which also means that nothing has
traded, needs a conjunct of its own (`NoneAtZero`): bid stops are then measured against the
largest price, which activates every trailing bid before a rebuild could meet one. TLC checked each
conjunct as an invariant of `book_stop` and `book_trailing`'s instances before it was proved.

*Volumes.* `VolumeExact` compares a volume with a fold over the level's queue, and no theorem about a
recursive definition comes with an induction rule the prover can instantiate. `LevelProofs` goes around
that: every non-empty set of naturals has a least element (`LeastNat`, from the library's
well-foundedness of `<`), so the function the fold unfolds to exists for queues of every length
(`UnfoldedExists`: a shortest one without it would have a shorter one with it), its values are partial
sums (`FoldSums`), and a queue has but one sum (`SumUnique`); hence a volume is the fold exactly when
it is the last of a sequence of partial sums (`SumIsFold`). For those, one lemma per operation of
`Level`: an order joins (`SumAppend`), loses quantity where it stands (`SumReduced`), is erased from the
middle (`SumRemoved`), or nothing of it changes (`SumSame`), all modulo `2^64`, so that cancels of more than
is open are covered. The inductive invariant is `Inv /\ Volumes`: the sums of the six maps and of the
map a rebuild fills.

*Priority.* `BookPriorityProofs` states each update's effect on the queues: one id is gone from its queue
(`Unqueued`), one was added at the end of one (`Queued`), or all are as they were (`SameQueues`).
`TimePriority` compares `Ahead` before and after a step. In one state nobody is both ahead of another
and behind it (`AheadAsymmetric`, from `IndexConsistent`), so it is enough that whoever comes before
another in a level was ahead of it, and that a rebuild does not move first who was behind
(`PassedBy`). A step outside a rebuild only removes from the queues or appends to one
(`KeepsPassed`). `MoveOrder` takes the front of the old level, so it leaves nobody in front behind, and
appends, so that it joins those that `Ahead` had in front of it (`MovePassed`); `SwapLevels` puts the new
queues where the old ones were (`SwapPassed`). In `MatchOne`
the order that trades is the front of a queue without repetitions at the best price, which is
`PriceTimePriority`. For the refinement each action has a lemma that names the step of `PriorityBook` it is:

| the book | `PriorityBook` |
|---|---|
| `ExecuteOrder`, `ExecuteOrderAt` | `Execute` |
| `CancelOrder`, `DeleteOrder`, and `KillFok`, as if the owner took it back at once | `Cancel` |
| `ReplaceOrder` | `Replace` |
| `AddOrder` | `Accept` |
| `BeginMatch`, `MatchOne` | `Enter`, `Trade` |
| `InsertLimitOrder`, `DiscardTaker` | `Rest`, `Leave` |
| `ConvertOnEntry`, `InsertStopOrder`, activations, rounds and rebuilds | a stutter |

### The thread pool, the queue and the market

`tlapm ThreadPoolProofs.tla` proves, for every number of workers and every tasks:

| theorem | says |
|---|---|
| `PoolInvariance` | `Spec => []Inv` |
| `PoolTypeCorrect` | `Spec => []TypeOK` |
| `PoolRunsInOrder` | `Spec => []RunsInOrder` |
| `PoolDrained` | `Spec => []DestroyedDrained` |

from `PoolAssumption`: there is at least one worker, and `NoTask` is not a task. `DestroyedDrained`
speaks of the moment the pool is gone, so its induction needs the way there (`Accounted`): while
the flag is set every submission is due; a worker that is past `Poll` on its way out saw the flag
reset, so the count of due tasks no longer grows; and one that found its queue empty had nothing in
hand, so `RunsInOrder` says it had run all that was submitted. The order of the two reads in the
loop is what the argument turns on.

`tlapm QueueProofs.tla` proves, for every finite set of threads, any number of calls and any number
of spurious wake-ups:

| theorem | says |
|---|---|
| `TypeCorrect` | `Spec => []TypeOK` |
| `ElementsInOrder` | `Spec => []TakenInOrder` |
| `WakeupsSuffice` | `Spec => []NoLostWakeup` |

from `QueueAssumption`: the threads are finitely many and `NoThread` is not one. The inductive
invariant adds to the three that the mutex is held by exactly the threads past `Lock` and short of
their return (`MutexHeld`), and that a thread's place fits the function it is in (`OpFits`): only
`waitAndPop` waits, and only it and `tryPop` pop. `NoLostWakeup` is a count, so its proof compares the
cardinalities of `Coming` and `Notifying` before and after each step: a push adds an element and a
notifier; a notification turns a notifier into a thread that comes, if any waits; a pop takes an
element and at most the one thread that came; and a thread that stops coming because it waits found no
element.

`tlapm ConcurrentMarketProofs.tla` proves, for every number of workers, symbols, lives and tasks:

| theorem | says |
|---|---|
| `MarketInvariance` | `Spec => []Inv` |
| `MarketTypeCorrect` | `Spec => []TypeOK` |
| `MarketConfined` | `AlignedDeletes /\ Spec => []HandlerConfined` |
| `ListingsComplete` | `AlignedDeletes /\ Spec => []ToStringComplete` |
| `DestructorServesAll` | `Spec => []DestructorServes` |
| `ServedInOrder` | `Spec => ImplementsAsyncMarket` |

from `MarketAssumption`: there is a worker, the kinds of order requests are not those of the
market's own, and `NoTask` is not a task. The two hypotheses are what the finding about
`deleteSymbol()` says: without aligned deletions a worker gets a task for another's handler, and then
books are missing too. That requests are served in order does not depend on them.

The pool's theorems are used, not repeated: `PoolProofs` is an instance of `ThreadPoolProofs`, and
a step of the market is a step of its pool or leaves the pool alone. The market's own invariant adds to
the pool's: all submissions go to a running pool (`AllDue`), since only the destructor stops it; a life's
requests begin with its addition and end with its deletion (`Recorded`); there is an increasing map
from the requests of a life to the places of their tasks in one worker's queue, which puts those
served in the part that has run (`Delivery`); tasks are for the worker's own handler (`Confined`); a
handler has the books of the lives that are on, with the requests served of each (`Books`); and a
listing that still waits is the last task of its queue (`Listings`), so that when it has run nothing else is to come.
`Delivery` is what `ServedInOrder` turns on: the task a worker takes next is, by `RunsInOrder`, the first
that has not run, so the request it carries is the first of its life not yet served. `DestructorServesAll`
joins it to `PoolDrained`.

### The hash map

`tlapm RobinHoodProofs.tla` proves, for every number of tables and keys, every hash function and
every program that uses it, every width of the info bytes, size of the first memory and load factor:

| theorem | says |
|---|---|
| `TableInvariant` | `Spec => []Invariant` |
| `TablesInShape` | `Spec => []TableOK` |
| `EveryEntryFound` | `Spec => []FindsEntries` |
| `IterationsExact` | `Spec => []IterationExact` |
| `ComparisonsExact` | `Spec => []EqualExact` |
| `TableImplementsMap` | `Spec => ImplementsUnorderedMap` |

from `HashAssumption`: a hash is a natural for each multiplier and key; a byte holds two steps of the
first size, less one (0xFF and 32 in the code); the first memory has at least two slots; the load
factor is between 11 and 99, which the code asserts at `robin_hood.h:989`; and `NoNode` is not a node.
TLC evaluates it.

*The invariant.* `Invariant` is `ShapesOK /\ CallOK /\ IterationOK`. `TableOK` is not inductive: it
says that a byte is right for where its node is, but not that a search gets there. What does is the
order of the bytes (`Sorted`): behind a slot is a free one or a node at home, or a node whose byte is
larger by one step at most. From it and `AtDistance`, walking back from a node towards its home meets
no byte smaller than the one the search carries there (`SearchPath`), so that neither `findIdx`, which
tests at every second slot, nor `erase`, which tests at each, stops before it (`Searches`).
`Halved` ties the step of the bytes to the number of hash bits that were shifted out, and `Limited`
says that a byte that cannot grow by another step has set the limit to 0. `CallOK` says that nodes being moved to
new memory have keys of their own that the new memory has not got yet, and that there is room for them;
`IterationOK`, that the keys an iterator met and those in the slots from its position on are
disjoint, and together all there were.

*Room.* `Put` shifts nodes up to the next free slot, which must come before the sentinel. It does
(`FreeSlot`): there are as many slots behind the last home as elements allowed, or as many as a byte
can count, and a run of taken slots that reached the sentinel would have more elements than are allowed or
a byte larger than a byte can be. So what is shifted fits, and the bytes do not wrap because the limit
would be 0 otherwise.

*The changes.* Each change of the slots has one lemma that says what table comes out: `PutKeeps` and
`InsertKeeps` (an insertion), `RemoveKeeps` (an erasure shifts the nodes behind it back as long as they
are not at home), `IncreaseKeeps` (half of each byte, rounding down, keeps their order), `MoveKeeps` (a
node comes from the old memory), `AssignKeeps`, `FreshSound`, `ClearedShape`, `MovedShapes`. Each names the
nodes before and after as sets (`NodesOf`), which is all the rest needs. Every action then has a lemma
that ends in `Invariant'` and the nodes of each table (`Changed`), and `NextInvariant` puts them
together. `CandidatesFound` and `NoCandidates` are about the insertion's own search: it finds the slot
of the key if there is one, and otherwise the place that keeps the bytes in order.

*Iterators.* `KeysFrom(t, i)` are the keys in the slots from `i` on. `operator++` takes the one it
leaves from them (`AdvanceAhead`); an erasure too, whether a node was shifted into the slot or not
(`EraseAhead`).

*The refinement.* The nodes of a table, those not moved yet included, have different keys, so they are a map
(`MapOf`), and the map tells which nodes they are (`SameMap`). `EqualNodes` rests on that, and so
does the refinement:

| the table | `UnorderedMap` |
|---|---|
| `Insert`, `reserve`, `compact`, a rehash in `IncreaseSize` | `Keep` |
| `KeyFound` | `Assign` or `Found` |
| `InsertNode` | `Insert` |
| `EraseKey`, `EraseFound`, `EraseAndGoOn` | `Erase` |
| `GiveUp`, and `MoveNode` where it throws | `Overflow` |
| `clear`, `Destroy` | `Clear` |
| copies, moves, `Swap` | `Copy`, `Move`, `Swap` |
| `IncreaseSize` without a rehash, `MoveNode`, `NodesMoved`, iterators | a stutter |

The powers of two, by which bytes are halved and memory grows, are a recursive function. As with the
volumes, that the function its definition asks for exists is proved by a least counterexample
(`PowersExist`) before the definition is unfolded.

### Only model-checked

Liveness: `CallReturns`, `CallsReturn`, `DueTasksRun`, `WaitEnds`, `DestructorReturns`,
`ElementEndsWait` and `RequestsServed`. Liveness under fairness is out of the prover's reach. Every
invariant, every action property and every refinement of the passing runs is proved.

## What is not modelled, and the plan

The order book and the hash map are modelled apart: `MapOrderBook` takes its maps of orders as
functions, which `TableImplementsMap` justifies but for the two things `UnorderedMap` admits, that a
hash that is bad enough makes an insertion fail, and that entries may be lost then. Open is a market whose
books are `MapOrderBook`s rather than sequences of requests, if TLC can bear it.

`Market` has no module of its own: it forwards each call to one `OrderBookHandler`, and is
`AsyncMarket` with each request served before the call returns.

Not planned: printing, logging, `dumpBook`, `Symbol`, benchmarks and examples; of the hash map, the
pool of node memory, the hash functions and failing allocations.
