---------------------------- MODULE MapOrderBook ----------------------------
(***************************************************************************)
(* The order book of one symbol, include/matching/orderbook/map_orderbook.h*)
(* and src/matching/orderbook/map_orderbook.cpp.                           *)
(*                                                                         *)
(* The book runs on one thread.  A public call starts in an action guarded *)
(* by pc = "idle"; the loops it runs (matching, the four activation loops, *)
(* the two rebuilds of the trailing levels) take one step per iteration.   *)
(* The events of one step are applied together; what a listener reads from *)
(* the book between two of them is not a state of the model.  The          *)
(* assertions of the debug build are not guards: they are among the        *)
(* properties.                                                             *)
(***************************************************************************)
EXTENDS Level

CONSTANTS Submissions,       \* the requests callers submit
          CancelQuantities,  \* the quantities callers cancel
          ExecuteQuantities, \* the quantities callers execute
          ExecutePrices,     \* the prices callers execute at
          ReplacePrices,     \* the prices callers replace an order with
          ClientsOverCancel, \* TRUE iff callers cancel more than is open
          NoOrder            \* no order is in flight

ASSUME InputAssumption ==
    /\ Submissions \subseteq {r \in Request : FactoryAccepts(r)}
    /\ CancelQuantities \subseteq UInt64 \ {0}
    /\ ExecuteQuantities \subseteq UInt64 \ {0}
    /\ ExecutePrices \subseteq UInt64 \ {0}
    /\ ReplacePrices \subseteq UInt64 \ {0}
    /\ ClientsOverCancel \in BOOLEAN
    /\ NoOrder \notin OrderRecord
    /\ NoOrder \notin [id : Ids, side : OrderSide, price : UInt64, rests : BOOLEAN]  \* Matched

VARIABLES
    orders,              \* id -> resting order
    level_it,            \* id -> key of the level that holds it (the wrapper's iterator)
    levels,              \* the six maps of levels, by kind and side
    last_traded_price,
    trailing_bid_price,
    trailing_ask_price,
    feed,                \* id -> the order as the event handler last heard of it
    pc,                  \* where the running call is
    ret,                 \* where it continues when the order in flight is settled
    taker,               \* the order in flight
    trigger_price,       \* last_ask_price / last_bid_price of the running activation loop
    activated,           \* `activate' / `activated_orders' of the running round
    rescans,             \* calls of activateStopOrders() the running call still owes
    new_trailing_levels  \* the map a rebuild fills

book    == <<orders, level_it, levels>>
prices  == <<last_traded_price, trailing_bid_price, trailing_ask_price>>
loop    == <<trigger_price, activated, rescans, new_trailing_levels>>
vars    == <<book, prices, feed, pc, ret, taker, loop>>

-----------------------------------------------------------------------------
(* Which map an order rests in, and the order of the keys of a map.        *)

Maps == {"Limit", "Stop", "Trailing"} \X OrderSide

MapOf(o) == <<IF o.type \in StopTypes THEN "Stop"
              ELSE IF o.type \in TrailingTypes THEN "Trailing" ELSE "Limit", o.side>>

\* The key of its level.
KeyOf(o) == IF o.type \in StopTypes \cup TrailingTypes THEN o.stop_price ELSE o.price

Opposite(side) == IF side = "Bid" THEN "Ask" ELSE "Bid"

\* Mutated form of Accepts: equal prices do not cross.
Accepts_strict(o, p) == IF o.side = "Ask" THEN p > o.price ELSE p < o.price

\* The order's price accepts a trade at p.
Accepts(o, p) == IF o.side = "Ask" THEN p >= o.price ELSE p <= o.price

\* Mutated form of IsBest: both sides are taken from begin().
IsBest_begin(side, p) ==
    LET keys == DOMAIN levels[<<"Limit", side>>]
    IN  p \in keys /\ \A q \in keys : q >= p

\* p is the first key the book takes from the limit levels of a side.
IsBest(side, p) ==
    LET keys == DOMAIN levels[<<"Limit", side>>]
    IN  p \in keys /\ \A q \in keys : IF side = "Bid" THEN q <= p ELSE q >= p

NoneAccepted(o) == \A p \in DOMAIN levels[<<"Limit", Opposite(o.side)>>] : ~Accepts(o, p)

\* With no trade yet a bid stop sees the highest price, an ask stop the lowest.
lastTradedPriceAsk == IF last_traded_price = 0 THEN UINT64_MAX ELSE last_traded_price
lastTradedPriceBid == last_traded_price
MarketPrice(side) == IF side = "Ask" THEN lastTradedPriceBid ELSE lastTradedPriceAsk

Reached(side, stop_price, market_price) ==
    IF side = "Ask" THEN market_price <= stop_price ELSE market_price >= stop_price

\* Mutated form of calculateStopPrice: no cap at the ends of the range.
calculateStopPrice_uncapped(o) ==
    setStopPrice(o, IF o.side = "Ask" THEN MarketPrice(o.side) - o.trail_amount
                                      ELSE MarketPrice(o.side) + o.trail_amount)

calculateStopPrice(o) ==
    LET market == MarketPrice(o.side)
        trail  == o.trail_amount
    IN  setStopPrice(o, IF o.side = "Ask"
                        THEN IF market > trail THEN market - trail ELSE 0
                        ELSE IF market < UINT64_MAX - trail THEN market + trail ELSE UINT64_MAX)

-----------------------------------------------------------------------------
Init ==
    /\ orders = [id \in {} |-> NoOrder]
    /\ level_it = [id \in {} |-> 0]
    /\ levels = [m \in Maps |-> EmptyMap]
    /\ last_traded_price = 0
    /\ trailing_bid_price = 0
    /\ trailing_ask_price = UINT64_MAX
    /\ feed = [id \in {} |-> NoOrder]
    /\ pc = "idle"
    /\ ret = "activate"
    /\ taker = NoOrder
    /\ trigger_price = 0
    /\ activated = FALSE
    /\ rescans = 0
    /\ new_trailing_levels = EmptyMap

-----------------------------------------------------------------------------
(* Updates of the book shared by the actions.                              *)

\* The order rests: it joins the back of its level.
Insert(o) ==
    /\ orders' = Put(orders, o.id, o)
    /\ level_it' = Put(level_it, o.id, KeyOf(o))
    /\ levels' = [levels EXCEPT ![MapOf(o)] = Enqueue(@, KeyOf(o), o)]

\* deleteOrder(order_id, notification), from the maps given.
Erase(o, maps) ==
    /\ orders' = Without(orders, o.id)
    /\ level_it' = Without(level_it, o.id)
    /\ levels' = [maps EXCEPT ![MapOf(o)] = Unlink(@, level_it[o.id], o)]

\* The resting order becomes o, its level loses `amount', and a filled order
\* leaves the book.
Reduce(o, amount) ==
    LET reduced == [levels EXCEPT ![MapOf(o)] =
                        Put(@, level_it[o.id], reduceVolume(@[level_it[o.id]], amount))]
    IN  IF isFilled(o)
        THEN Erase(o, reduced)
        ELSE /\ orders' = Put(orders, o.id, o)
             /\ levels' = reduced
             /\ UNCHANGED level_it

\* Mutated form of Report: a filled order gets no deleted event.
Report_noDelete(f, o) == Put(f, o.id, o)

\* What the handler knows after an executed or updated event of o, which a
\* deleted event follows when o is filled.
Report(f, o) == IF isFilled(o) THEN Without(f, o.id) ELSE Put(f, o.id, o)

-----------------------------------------------------------------------------
(* The public operations.                                                  *)

\* addOrder(): the copy of the order the call works on, announced first.
Submit(o) ==
    /\ taker' = o
    /\ pc' = "add"

AddOrder(id, r) ==
    /\ pc = "idle"
    /\ id \notin DOMAIN orders
    /\ Submit(Construct(id, r))
    /\ feed' = Put(feed, id, Construct(id, r))
    /\ rescans' = 1
    /\ UNCHANGED <<book, prices, ret, trigger_price, activated, new_trailing_levels>>

ReturnThroughActivation ==
    /\ pc' = "activate"
    /\ rescans' = 1
    /\ UNCHANGED <<ret, taker, trigger_price, activated, new_trailing_levels>>

\* Both overloads of executeOrder(), the trade at `price'.
TradeAt(id, quantity, price) ==
    LET o == execute(orders[id], price, Least(quantity, orders[id].open_quantity))
    IN  /\ Reduce(o, o.last_executed_quantity)
        /\ feed' = Report(feed, o)
        /\ last_traded_price' = price
        /\ UNCHANGED <<trailing_bid_price, trailing_ask_price>>

ExecuteOrderAt(id, quantity, price) ==
    /\ pc = "idle"
    /\ id \in DOMAIN orders
    /\ TradeAt(id, quantity, price)
    /\ ReturnThroughActivation

\* The price is the order's own: 0 for a stop or trailing stop order.
ExecuteOrder(id, quantity) ==
    /\ pc = "idle"
    /\ id \in DOMAIN orders
    /\ TradeAt(id, quantity, orders[id].price)
    /\ ReturnThroughActivation

CancelOrder(id, quantity) ==
    /\ pc = "idle"
    /\ id \in DOMAIN orders
    /\ quantity <= orders[id].open_quantity \/ ClientsOverCancel
    /\ LET o == setQuantity(orders[id], quantity)
       IN  /\ Reduce(o, Minus(orders[id].open_quantity, o.open_quantity))
           /\ feed' = Report(feed, o)
    /\ ReturnThroughActivation
    /\ UNCHANGED prices

DeleteOrder(id) ==
    /\ pc = "idle"
    /\ id \in DOMAIN orders
    /\ Erase(orders[id], levels)
    /\ feed' = Without(feed, id)
    /\ ReturnThroughActivation
    /\ UNCHANGED prices

\* addOrder() runs activateStopOrders() and replaceOrder() runs it again.
ReplaceOrder(id, new_id, new_price) ==
    /\ pc = "idle"
    /\ id \in DOMAIN orders
    /\ new_id = id \/ new_id \notin DOMAIN orders
    /\ LET new_order == setPrice(setOrderID(orders[id], new_id), new_price)
       IN  /\ Erase(orders[id], levels)
           /\ Submit(new_order)
           /\ feed' = Put(Without(feed, id), new_id, new_order)
    /\ rescans' = 2
    /\ UNCHANGED <<prices, ret, trigger_price, activated, new_trailing_levels>>

-----------------------------------------------------------------------------
(* addLimitOrder(), addMarketOrder() and match().                          *)

\* addMarketOrder() gives the order a price every level accepts.
Priced(o) ==
    IF o.type = "Market"
    THEN setPrice(o, IF o.side = "Ask" THEN 0 ELSE UINT64_MAX)
    ELSE o

\* canMatchOrder(): its loop reads the volume of the best level again and again
\* until the sum reaches what the order needs, so any volume at an accepted best
\* price is enough; with none accepted the answer is no, and a crossing level of
\* volume 0 would be read for ever.
canMatchOrder(o) ==
    \E p \in DOMAIN levels[<<"Limit", Opposite(o.side)>>] :
        /\ IsBest(Opposite(o.side), p)
        /\ Accepts(o, p)
        /\ levels[<<"Limit", Opposite(o.side)>>][p].volume > 0

\* The order in flight is done with: control goes back to whoever added it.
Settled ==
    /\ pc' = ret
    /\ ret' = "activate"
    /\ taker' = NoOrder

\* It leaves with a deleted event.
Discard ==
    /\ Settled
    /\ feed' = Without(feed, taker.id)
    /\ UNCHANGED <<book, prices, loop>>

BeginMatch ==
    /\ pc = "add"
    /\ taker.type \in {"Limit", "Market"}
    /\ taker.time_in_force = "FOK" => canMatchOrder(Priced(taker))
    /\ taker' = Priced(taker)
    /\ pc' = "match"
    /\ UNCHANGED <<book, prices, feed, ret, loop>>

KillFok ==
    /\ pc = "add"
    /\ taker.type \in {"Limit", "Market"}
    /\ taker.time_in_force = "FOK"
    /\ NoneAccepted(Priced(taker))
    /\ Discard

\* One iteration of match(), with the executeOrders() it calls: the front order
\* of the best opposite level trades at its own price.
MatchOne ==
    /\ pc = "match"
    /\ ~isFilled(taker)
    /\ \E p \in DOMAIN levels[<<"Limit", Opposite(taker.side)>>] :
        /\ IsBest(Opposite(taker.side), p)
        /\ Accepts(taker, p)
        /\ LET resting  == orders[front(levels[<<"Limit", Opposite(taker.side)>>][p])]
               quantity == Least(taker.open_quantity, resting.open_quantity)
               maker    == execute(resting, resting.price, quantity)
           IN  /\ taker' = execute(taker, resting.price, quantity)
               /\ Reduce(maker, maker.last_executed_quantity)
               /\ feed' = Report(Put(feed, taker.id, taker'), maker)
               /\ last_traded_price' = resting.price
    /\ UNCHANGED <<trailing_bid_price, trailing_ask_price, pc, ret, loop>>

MatchDone == pc = "match" /\ (isFilled(taker) \/ NoneAccepted(taker))

\* Mutated form of Rests: an immediate-or-cancel order rests like any other.
Rests_ioc(o) == o.type = "Limit" /\ ~isFilled(o) /\ o.time_in_force # "FOK"

Rests(o) == o.type = "Limit" /\ ~isFilled(o) /\ o.time_in_force = "GTC"

InsertLimitOrder ==
    /\ MatchDone
    /\ Rests(taker)
    /\ Insert(taker)
    /\ Settled
    /\ UNCHANGED <<prices, feed, loop>>

DiscardTaker ==
    /\ MatchDone
    /\ ~Rests(taker)
    /\ Discard

-----------------------------------------------------------------------------
(* addStopOrder().                                                         *)

\* The order with the stop price it enters with.
Entering(o) == IF o.type \in TrailingTypes THEN calculateStopPrice(o) ELSE o

EntersReached(o) == Reached(o.side, Entering(o).stop_price, MarketPrice(o.side))

\* Mutated form of ConvertOnEntry: the conversion is not announced.
ConvertOnEntry_silent ==
    /\ pc = "add"
    /\ taker.type \in StopTypes \cup TrailingTypes
    /\ EntersReached(taker)
    /\ taker' = Converted(taker)
    /\ UNCHANGED <<book, prices, feed, pc, ret, loop>>

ConvertOnEntry ==
    /\ pc = "add"
    /\ taker.type \in StopTypes \cup TrailingTypes
    /\ EntersReached(taker)
    /\ taker' = Converted(taker)
    /\ feed' = Put(feed, taker.id, taker')
    /\ UNCHANGED <<book, prices, pc, ret, loop>>

InsertStopOrder ==
    /\ pc = "add"
    /\ taker.type \in StopTypes \cup TrailingTypes
    /\ ~EntersReached(taker)
    /\ Insert(Entering(taker))
    /\ Settled
    /\ UNCHANGED <<prices, feed, loop>>

-----------------------------------------------------------------------------
(* activateStopOrders(): rounds of bid stops, update of the ask trailing   *)
(* stops, ask stops, update of the bid trailing stops.                     *)

ActivationLoop ==
    [bidStop |-> <<"Stop", "Bid">>, bidTrailing |-> <<"Trailing", "Bid">>,
     askStop |-> <<"Stop", "Ask">>, askTrailing |-> <<"Trailing", "Ask">>]

\* Mutated form of AfterLoop: the loop over the trailing ask stops is left out.
AfterLoop_skipsTrailing ==
    [bidStop |-> "bidTrailing", bidTrailing |-> "updateAsk",
     askStop |-> "updateBid", askTrailing |-> "updateBid"]

AfterLoop ==
    [bidStop |-> "bidTrailing", bidTrailing |-> "updateAsk",
     askStop |-> "askTrailing", askTrailing |-> "updateBid"]

\* The levels of the running loop whose stop price the captured price reaches.
ReachedLevels ==
    LET m == ActivationLoop[pc]
    IN  {p \in DOMAIN levels[m] : Reached(m[2], p, trigger_price)}

\* Mutated form of BeginRound: `activate' keeps the answer of the round before.
BeginRound_keepsActivated ==
    /\ pc = "activate"
    /\ pc' = "bidStop"
    /\ trigger_price' = lastTradedPriceAsk
    /\ UNCHANGED <<book, prices, feed, ret, taker, activated, rescans, new_trailing_levels>>

BeginRound ==
    /\ pc = "activate"
    /\ pc' = "bidStop"
    /\ trigger_price' = lastTradedPriceAsk
    /\ activated' = FALSE
    /\ UNCHANGED <<book, prices, feed, ret, taker, rescans, new_trailing_levels>>

\* One iteration: the oldest order of the first level in reach leaves the stop
\* levels, without a deleted event, and is added as a market or limit order.
ActivateStopOrder ==
    /\ pc \in DOMAIN ActivationLoop
    /\ \E p \in ReachedLevels :
        /\ \A q \in ReachedLevels : IF ActivationLoop[pc][2] = "Bid" THEN p <= q ELSE p >= q
        /\ LET o == orders[front(levels[ActivationLoop[pc]][p])]
           IN  /\ Erase(o, levels)
               /\ Submit(Converted(o))
               /\ feed' = Put(feed, o.id, Converted(o))
    /\ ret' = pc
    /\ activated' = TRUE
    /\ UNCHANGED <<prices, trigger_price, rescans, new_trailing_levels>>

\* The market price is read again before each trailing loop and each ask loop.
LoopDone ==
    /\ pc \in DOMAIN ActivationLoop
    /\ ReachedLevels = {}
    /\ pc' = AfterLoop[pc]
    /\ trigger_price' = CASE pc = "bidStop" -> lastTradedPriceAsk
                          [] pc = "askStop" -> lastTradedPriceBid
                          [] OTHER -> 0
    /\ UNCHANGED <<book, prices, feed, ret, taker, activated, rescans, new_trailing_levels>>

-----------------------------------------------------------------------------
(* updateAskStopOrders() and updateBidStopOrders().                        *)

UpdatedMap == [updateAsk |-> <<"Trailing", "Ask">>, moveAsk |-> <<"Trailing", "Ask">>,
               updateBid |-> <<"Trailing", "Bid">>, moveBid |-> <<"Trailing", "Bid">>]

\* Nothing to do: the market did not move away from the stops, or there are none.
NoUpdate ==
    \/ DOMAIN levels[UpdatedMap[pc]] = {}
    \/ pc = "updateAsk" /\ trailing_bid_price >= lastTradedPriceBid
    \/ pc = "updateBid" /\ trailing_ask_price <= lastTradedPriceAsk

\* Mutated form of UpdateDone: a falling market does not lower the reference of
\* the ask trailing stops.
UpdateDone_keepsHigh ==
    IF pc \in {"updateAsk", "moveAsk"}
    THEN /\ trailing_bid_price' = IF last_traded_price > trailing_bid_price
                                  THEN last_traded_price ELSE trailing_bid_price
         /\ trigger_price' = lastTradedPriceBid
         /\ pc' = "askStop"
         /\ UNCHANGED trailing_ask_price
    ELSE /\ trailing_ask_price' = last_traded_price
         /\ pc' = "endRound"
         /\ UNCHANGED <<trailing_bid_price, trigger_price>>

\* The reference price is set and control moves on.
UpdateDone ==
    IF pc \in {"updateAsk", "moveAsk"}
    THEN /\ trailing_bid_price' = last_traded_price
         /\ trigger_price' = lastTradedPriceBid
         /\ pc' = "askStop"
         /\ UNCHANGED trailing_ask_price
    ELSE /\ trailing_ask_price' = last_traded_price
         /\ pc' = "endRound"
         /\ UNCHANGED <<trailing_bid_price, trigger_price>>

SkipUpdate ==
    /\ pc \in {"updateAsk", "updateBid"}
    /\ NoUpdate
    /\ UpdateDone
    /\ UNCHANGED <<book, last_traded_price, feed, ret, taker, activated, rescans,
                   new_trailing_levels>>

BeginUpdate ==
    /\ pc \in {"updateAsk", "updateBid"}
    /\ ~NoUpdate
    /\ pc' = IF pc = "updateAsk" THEN "moveAsk" ELSE "moveBid"
    /\ UNCHANGED <<book, prices, feed, ret, taker, loop>>

\* Mutated form of MoveOrder: the wrapper keeps its iterator to the old level.
MoveOrder_staleIterator ==
    /\ pc \in {"moveAsk", "moveBid"}
    /\ LET m == UpdatedMap[pc]
       IN  \E p \in DOMAIN levels[m] :
            /\ ~empty(levels[m][p])
            /\ \A q \in DOMAIN levels[m] : q < p => empty(levels[m][q])
            /\ LET o == calculateStopPrice(orders[front(levels[m][p])])
               IN  /\ orders' = Put(orders, o.id, o)
                   /\ levels' = [levels EXCEPT ![m] = Put(@, p, popFront(@[p], o))]
                   /\ new_trailing_levels' = Enqueue(new_trailing_levels, o.stop_price, o)
                   /\ feed' = Put(feed, o.id, o)
    /\ UNCHANGED <<prices, level_it, pc, ret, taker, trigger_price, activated, rescans>>

\* Mutated form of MoveOrder: the old levels are emptied from the back.
MoveOrder_back ==
    /\ pc \in {"moveAsk", "moveBid"}
    /\ LET m == UpdatedMap[pc]
       IN  \E p \in DOMAIN levels[m] :
            /\ ~empty(levels[m][p])
            /\ \A q \in DOMAIN levels[m] : q < p => empty(levels[m][q])
            /\ LET o == calculateStopPrice(orders[Last(levels[m][p].orders)])
               IN  /\ orders' = Put(orders, o.id, o)
                   /\ level_it' = Put(level_it, o.id, o.stop_price)
                   /\ levels' = [levels EXCEPT ![m] = Put(@, p, deleteOrder(@[p], o))]
                   /\ new_trailing_levels' = Enqueue(new_trailing_levels, o.stop_price, o)
                   /\ feed' = Put(feed, o.id, o)
    /\ UNCHANGED <<prices, pc, ret, taker, trigger_price, activated, rescans>>

\* The front order of the lowest old level with an order left is given its new
\* stop price and joins the new map; the old level stays, empty, until the swap.
MoveOrder ==
    /\ pc \in {"moveAsk", "moveBid"}
    /\ LET m == UpdatedMap[pc]
       IN  \E p \in DOMAIN levels[m] :
            /\ ~empty(levels[m][p])
            /\ \A q \in DOMAIN levels[m] : q < p => empty(levels[m][q])
            /\ LET o == calculateStopPrice(orders[front(levels[m][p])])
               IN  /\ orders' = Put(orders, o.id, o)
                   /\ level_it' = Put(level_it, o.id, o.stop_price)
                   /\ levels' = [levels EXCEPT ![m] = Put(@, p, popFront(@[p], o))]
                   /\ new_trailing_levels' = Enqueue(new_trailing_levels, o.stop_price, o)
                   /\ feed' = Put(feed, o.id, o)
    /\ UNCHANGED <<prices, pc, ret, taker, trigger_price, activated, rescans>>

SwapLevels ==
    /\ pc \in {"moveAsk", "moveBid"}
    /\ \A q \in DOMAIN levels[UpdatedMap[pc]] : empty(levels[UpdatedMap[pc]][q])
    /\ levels' = [levels EXCEPT ![UpdatedMap[pc]] = new_trailing_levels]
    /\ new_trailing_levels' = EmptyMap
    /\ UpdateDone
    /\ UNCHANGED <<orders, level_it, last_traded_price, feed, ret, taker, activated, rescans>>

\* Mutated form of EndRound: one round per call of activateStopOrders().
EndRound_once ==
    /\ pc = "endRound"
    /\ rescans' = rescans - 1
    /\ pc' = IF rescans > 1 THEN "activate" ELSE "idle"
    /\ activated' = FALSE
    /\ UNCHANGED <<book, prices, feed, ret, taker, trigger_price, new_trailing_levels>>

\* while (activate), then the next activateStopOrders() of the call, then return.
EndRound ==
    /\ pc = "endRound"
    /\ IF activated
       THEN pc' = "activate" /\ UNCHANGED rescans
       ELSE /\ rescans' = rescans - 1
            /\ pc' = IF rescans > 1 THEN "activate" ELSE "idle"
    /\ UNCHANGED <<book, prices, feed, ret, taker, trigger_price, activated,
                   new_trailing_levels>>

-----------------------------------------------------------------------------
Call ==
    \E id \in Ids :
        \/ \E r \in Submissions : AddOrder(id, r)
        \/ \E q \in ExecuteQuantities, p \in ExecutePrices : ExecuteOrderAt(id, q, p)
        \/ \E q \in ExecuteQuantities : ExecuteOrder(id, q)
        \/ \E q \in CancelQuantities : CancelOrder(id, q)
        \/ DeleteOrder(id)
        \/ \E new_id \in Ids, p \in ReplacePrices : ReplaceOrder(id, new_id, p)

\* The steps of a call in progress.
Step ==
    \/ BeginMatch
    \/ KillFok
    \/ MatchOne
    \/ InsertLimitOrder
    \/ DiscardTaker
    \/ ConvertOnEntry
    \/ InsertStopOrder
    \/ BeginRound
    \/ ActivateStopOrder
    \/ LoopDone
    \/ SkipUpdate
    \/ BeginUpdate
    \/ MoveOrder
    \/ SwapLevels
    \/ EndRound

Next == Call \/ Step

\* A call runs to its end on the thread that made it; nobody has to call.
Spec == Init /\ [][Next]_vars /\ WF_vars(Step)

-----------------------------------------------------------------------------
(* Properties.                                                             *)

ActivationPCs == {"bidStop", "bidTrailing", "askStop", "askTrailing"}
UpdatePCs     == {"updateAsk", "moveAsk", "updateBid", "moveBid"}
Moving        == pc \in {"moveAsk", "moveBid"}

\* All the levels there are: the six maps and the one a rebuild fills.
NewMap  == <<"New", "Trailing">>
AllMaps == Maps \cup {NewMap}
LevelsOf(m) == IF m = NewMap THEN new_trailing_levels ELSE levels[m]
Queue(m, p) == LevelsOf(m)[p].orders

\* The map an order is to be found in: during a rebuild, the new one once its
\* id is queued there.
InNewMap(id) == \E p \in DOMAIN new_trailing_levels : id \in ToSet(Queue(NewMap, p))
Home(id) == IF InNewMap(id) THEN NewMap ELSE MapOf(orders[id])

\* Types of the variables.
BookTypeOK ==
    /\ IsMap(orders, Ids, OrderRecord)
    /\ level_it \in [DOMAIN orders -> UInt64]
    /\ levels = [m \in Maps |-> levels[m]]
    /\ \A m \in Maps : IsMap(levels[m], UInt64, LevelRecord)
    /\ last_traded_price \in UInt64
    /\ trailing_bid_price \in UInt64
    /\ trailing_ask_price \in UInt64
    /\ IsMap(feed, Ids, OrderRecord)
    /\ pc \in {"idle", "add", "match", "activate", "endRound"} \cup ActivationPCs \cup UpdatePCs
    /\ ret \in {"activate"} \cup ActivationPCs
    /\ taker \in OrderRecord \cup {NoOrder}
    /\ pc \in {"add", "match"} <=> taker # NoOrder
    /\ trigger_price \in UInt64
    /\ activated \in BOOLEAN
    /\ rescans \in 0 .. 2
    /\ IsMap(new_trailing_levels, UInt64, LevelRecord)

\* The three views of the resting orders agree, between any two iterations of the
\* loops of a call too: each id is queued exactly once, in the level its iterator names,
\* of the map of its type and side, under its price (limit) or stop price; and
\* no level is empty, but those a rebuild has drained (map_orderbook.cpp:86-121,
\* 145-233, 343-398; the level asserts of 531-630 and of level.cpp:90-104).
IndexConsistent ==
    /\ \A m \in AllMaps : \A p \in DOMAIN LevelsOf(m) :
        /\ empty(LevelsOf(m)[p]) => Moving /\ m = UpdatedMap[pc]
        /\ IsInjective(Queue(m, p))
        /\ \A id \in ToSet(Queue(m, p)) :
            id \in DOMAIN orders /\ Home(id) = m /\ level_it[id] = p
    /\ \A id \in DOMAIN orders :
        /\ orders[id].id = id
        /\ level_it[id] = KeyOf(orders[id])
        /\ level_it[id] \in DOMAIN LevelsOf(Home(id))
        /\ id \in ToSet(Queue(Home(id), level_it[id]))

\* The volume of every level is the (64-bit) sum of its orders' open quantities
\* (the assert of level.cpp:103): trades, cancels, deletes and rebuilds each
\* adjust it on their own.
VolumeExact ==
    \A m \in AllMaps : \A p \in DOMAIN LevelsOf(m) :
        LevelsOf(m)[p].volume =
            FoldLeft(LAMBDA sum, id : Plus(sum, orders[id].open_quantity), 0, Queue(m, p))

\* The best bid stays below the best ask, between calls and inside them (the
\* assert of map_orderbook.cpp:535), whatever sequence of inserts, replaces and
\* activated stop limit orders led there.
Uncrossed ==
    \A bid \in DOMAIN levels[<<"Limit", "Bid">>], ask \in DOMAIN levels[<<"Limit", "Ask">>] :
        bid < ask

\* When a call returns, no stop or trailing stop order that the last traded price
\* reaches is left waiting (the asserts of map_orderbook.cpp:569, 584, 602, 618):
\* the rounds of activateStopOrders() reach a fixed point although each loop
\* works with the price it read before its activations traded.
StopsUntriggered ==
    pc = "idle" =>
        \A side \in OrderSide : \A kind \in {"Stop", "Trailing"} :
            \A p \in DOMAIN levels[<<kind, side>>] :
                IF side = "Ask" THEN p < last_traded_price ELSE p > last_traded_price

\* When a call returns, a trailing stop is no further from the market than its
\* trail amount (map_orderbook.cpp:235-258, 343-398), however the price moved
\* inside the call and although the updates compare only its end points.
TrailWithin ==
    pc = "idle" =>
        \A id \in DOMAIN orders : orders[id].type \in TrailingTypes =>
            IF orders[id].side = "Ask"
            THEN orders[id].stop_price + orders[id].trail_amount >= last_traded_price
            ELSE orders[id].stop_price <= last_traded_price + orders[id].trail_amount

\* What the events say of an order, but for the two fields the book sets without
\* an event: the stop price a trailing order enters with and the price a market
\* order is matched at.
SameReport(f, o) ==
    /\ o.type \notin TrailingTypes => f.stop_price = o.stop_price
    /\ o.type # "Market" => f.price = o.price
    /\ [f EXCEPT !.stop_price = o.stop_price, !.price = o.price] = o

\* A listener that applies every added, updated, executed and deleted event as it
\* comes holds the resting orders and the order in flight, no more and no fewer,
\* with their current quantities and types (the calls of event_handler in
\* map_orderbook.cpp:16-141, 163-187, 322-341, 441-450).
FeedMirrorsBook ==
    /\ DOMAIN feed = DOMAIN orders \cup (IF taker = NoOrder THEN {} ELSE {taker.id})
    /\ taker # NoOrder => taker.id \notin DOMAIN orders /\ SameReport(feed[taker.id], taker)
    /\ \A id \in DOMAIN orders : SameReport(feed[id], orders[id])

\* What rests has open quantity, and among the limit levels only good-till-cancel
\* orders do: fill-or-kill and immediate-or-cancel orders leave, also when they
\* were stop limit orders when they came (order.h:64-71, map_orderbook.cpp:135-143).
RestingOrdersLive ==
    \A id \in DOMAIN orders :
        /\ ~isFilled(orders[id])
        /\ orders[id].type # "Market"
        /\ orders[id].type = "Limit" => orders[id].time_in_force = "GTC"

\* Without cancels every order, resting or in flight, has executed what it no
\* longer has open, through partial trades, activation and replacement.
QuantityAccounted ==
    \A o \in {orders[id] : id \in DOMAIN orders} \cup ({taker} \ {NoOrder}) :
        o.executed_quantity + o.open_quantity = o.quantity

\* Before(q, a, b): a is ahead of b in q; Precedes(a, b): they are in one level.
Before(q, a, b) == \E i, j \in DOMAIN q : i < j /\ q[i] = a /\ q[j] = b

Precedes(a, b) ==
    \E m \in AllMaps : \E p \in DOMAIN LevelsOf(m) : Before(Queue(m, p), a, b)

\* A rebuild has moved a to the new map and not yet b, which it will put behind.
MovedFirst(a, b) == Moving /\ InNewMap(a) /\ Home(b) = UpdatedMap[pc]

Ahead(a, b) == Precedes(a, b) \/ MovedFirst(a, b)

\* Nobody overtakes an order that rests, and what joins a level joins behind
\* (map_orderbook.cpp:145-233, 343-398, level.cpp:23-48), across a rebuild too:
\* orders that share a level leave it in their order, join the new map behind
\* those moved before them, and keep their places there when the maps are
\* swapped.
TimePriority ==
    [][\A a \in DOMAIN orders \cap DOMAIN orders', b \in DOMAIN orders' :
        /\ Precedes(b, a)' => b \in DOMAIN orders /\ Ahead(b, a)
        /\ b \in DOMAIN orders /\ Ahead(a, b) => ~Ahead(b, a)']_vars

\* An order of the book trades with an incoming order only when no order of its
\* side rests at a better price or ahead of it at the same price, and at its own
\* price, which the incoming order accepts (map_orderbook.cpp:400-450).
Better(side, p, q) == IF side = "Bid" THEN p > q ELSE p < q

PriceTimePriority ==
    [][pc = "match" /\ pc' = "match" =>
        \A id \in DOMAIN orders :
            (id \in DOMAIN orders' => orders'[id].open_quantity < orders[id].open_quantity) =>
                /\ Accepts(taker, orders[id].price)
                /\ last_traded_price' = orders[id].price
                /\ \A other \in DOMAIN orders \ {id} :
                    MapOf(orders[other]) = MapOf(orders[id]) =>
                        /\ ~Better(orders[id].side, orders[other].price, orders[id].price)
                        /\ ~Before(levels[MapOf(orders[id])][level_it[id]].orders, other, id)]_vars

\* Every call returns: matching, the activation loops and the rounds that repeat
\* them come to an end (map_orderbook.cpp:260-341, 400-439).
CallReturns == pc # "idle" ~> pc = "idle"

\* What users of the book see of it: quantities, queues and the order being matched.
OpenQuantities ==
    [id \in DOMAIN orders \cup (IF taker = NoOrder THEN {} ELSE {taker.id}) |->
        IF taker # NoOrder /\ id = taker.id THEN taker.open_quantity
        ELSE orders[id].open_quantity]

LimitQueues ==
    [side \in OrderSide |-> [p \in DOMAIN levels[<<"Limit", side>>] |->
                                levels[<<"Limit", side>>][p].orders]]

Matched ==
    IF pc # "match" THEN NoOrder
    ELSE [id |-> taker.id, side |-> taker.side, price |-> taker.price,
          rests |-> taker.type = "Limit" /\ taker.time_in_force = "GTC"]

\* The order book as its users see it, where callers cancel no more than is open:
\* whatever happens to levels, indexes and stop orders in between, an order is matched
\* with the oldest at the best price, one trade is one loss of the same quantity on both
\* sides, what rests rests behind, and no order comes, goes or moves but for a trade, its
\* owner's call, or an end of its match (orderbook.h:17-78, map_orderbook.cpp:16-168,
\* 400-450).
Priority == INSTANCE PriorityBook
    WITH MaxPrice <- UINT64_MAX, Nobody <- NoOrder, open <- OpenQuantities,
         queue <- LimitQueues, incoming <- Matched, price <- last_traded_price
ImplementsPriorityBook == Priority!Spec

-----------------------------------------------------------------------------
(* What the documentation and the assertions say, and the code does not do.*)

\* A fill-or-kill order "will be executed immediately in its entirety; otherwise,
\* it will be cancelled" (order.h:67-68): when its match ends it is filled.
FillOrKill == MatchDone /\ taker.time_in_force = "FOK" => isFilled(taker)

\* cancelOrder() "Removes order from the book if provided quantity exceeds the
\* open quantity of the order" (orderbook.h:44-45).
OverCancelRemoves ==
    [][\A id \in DOMAIN orders, q \in CancelQuantities :
        CancelOrder(id, q) /\ q > orders[id].open_quantity => id \notin DOMAIN orders']_vars

\* "Executed quantity of the order should never exceed the quantity of the order"
\* (the assert of order.cpp:232).
ExecutedWithinQuantity ==
    \A o \in {orders[id] : id \in DOMAIN orders} \cup ({taker} \ {NoOrder}) :
        o.executed_quantity <= o.quantity
=============================================================================
