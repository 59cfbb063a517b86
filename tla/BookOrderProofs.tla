--------------------------- MODULE BookOrderProofs ---------------------------
(***************************************************************************)
(* Proofs about what MapOrderBook makes of its orders: what rests is live, *)
(* the events tell a listener what the book holds, no quantity is lost,    *)
(* the stop orders of either kind are where the market price says, and the *)
(* volume of a level is the sum of its orders.                             *)
(*                                                                         *)
(* First, for each action, its effect on the orders is stated as a lemma;  *)
(* the invariants need little more of it.                                  *)
(***************************************************************************)
EXTENDS MapOrderBookProofs

-----------------------------------------------------------------------------
(* What a step does to the orders that rest.                               *)

\* What a trade or a cancel leaves of an order as it is.
SameTerms(o, old) ==
    /\ o.id = old.id
    /\ o.type = old.type
    /\ o.side = old.side
    /\ o.time_in_force = old.time_in_force
    /\ o.price = old.price
    /\ o.stop_price = old.stop_price
    /\ o.trail_amount = old.trail_amount

\* The order leaves; loses quantity, and leaves when it is filled; comes to rest; or
\* gets another stop price where it is.
Removed(id) ==
    /\ id \in DOMAIN orders
    /\ DOMAIN orders' = DOMAIN orders \ {id}
    /\ \A i \in DOMAIN orders' : orders'[i] = orders[i]

Reduced(id, o) ==
    /\ id \in DOMAIN orders
    /\ o \in OrderRecord /\ SameTerms(o, orders[id])
    /\ DOMAIN orders' = IF isFilled(o) THEN DOMAIN orders \ {id} ELSE DOMAIN orders
    /\ \A i \in DOMAIN orders' : orders'[i] = IF i = id THEN o ELSE orders[i]

\* Its level loses as much.
Loses(id, o) ==
    \E amount \in UInt64 :
        Reduce(o, amount) /\ o.open_quantity = Minus(orders[id].open_quantity, amount)

Rested(o) ==
    /\ o \in OrderRecord
    /\ o.id \notin DOMAIN orders
    /\ DOMAIN orders' = DOMAIN orders \cup {o.id}
    /\ \A i \in DOMAIN orders' : orders'[i] = IF i = o.id THEN o ELSE orders[i]

Repriced(id, o) ==
    /\ id \in DOMAIN orders
    /\ o \in OrderRecord /\ o.id = id
    /\ DOMAIN orders' = DOMAIN orders
    /\ \A i \in DOMAIN orders' : orders'[i] = IF i = id THEN o ELSE orders[i]

\* Every order that rests is an order, under its own id.
LEMMA OrderAt ==
    ASSUME Inv, NEW id \in DOMAIN orders
    PROVE  /\ orders[id] \in OrderRecord /\ orders[id].id = id /\ id \in Ids
           /\ MapOf(orders[id]) \in Maps
<1>1. Typed(orders, level_it, levels) /\ orders[id].id = id
  BY DEF Inv, Shape, Static, Mid, Keyed
<1> QED BY <1>1, MapOfType DEF Typed, IsMap

\* deleteOrder() takes an order out of the map of orders.
LEMMA EraseRemoves ==
    ASSUME NEW id \in DOMAIN orders, NEW o, o.id = id, NEW maps, Erase(o, maps)
    PROVE  Removed(id)
  BY DEF Erase, Without, Removed

\* So do a trade and a cancel that leave nothing open.
LEMMA ReduceReduces ==
    ASSUME NEW id \in DOMAIN orders, NEW o \in OrderRecord, SameTerms(o, orders[id]),
           o.id = id, NEW amount, Reduce(o, amount)
    PROVE  Reduced(id, o)
<1>1. CASE isFilled(o)
  BY <1>1 DEF Reduce, Erase, Without, Reduced
<1>2. CASE ~isFilled(o)
  BY <1>2 DEF Reduce, Put, Reduced
<1> QED BY <1>1, <1>2

\* A trade and a cancel keep the terms of an order.
LEMMA TermsKept ==
    ASSUME NEW o \in OrderRecord, NEW p, NEW q
    PROVE  SameTerms(execute(o, p, q), o) /\ SameTerms(setQuantity(o, q), o)
  BY DEF SameTerms, execute, setQuantity, OrderRecord

\* What can be traded is open.
LEMMA LeastOpen ==
    ASSUME NEW a \in UInt64, NEW b \in UInt64
    PROVE  Least(a, b) \in UInt64 /\ Least(a, b) <= a /\ Least(a, b) <= b
  BY DEF Least, UInt64

\* Both overloads of executeOrder().
LEMMA TradeEffect ==
    ASSUME Inv, NEW id \in DOMAIN orders, NEW q \in UInt64, NEW p \in UInt64, TradeAt(id, q, p)
    PROVE  \E c \in UInt64, o \in OrderRecord :
              /\ c = Least(q, orders[id].open_quantity) /\ c <= orders[id].open_quantity
              /\ o = execute(orders[id], p, c)
              /\ Reduced(id, o)
              /\ Loses(id, o)
              /\ feed' = Report(feed, o)
<1> DEFINE c == Least(q, orders[id].open_quantity)
           o == execute(orders[id], p, c)
<1>1. orders[id] \in OrderRecord /\ orders[id].id = id /\ orders[id].open_quantity \in UInt64
  BY OrderAt DEF OrderRecord
<1>2. /\ c \in UInt64 /\ c <= orders[id].open_quantity
      /\ c = Least(q, orders[id].open_quantity)
  BY <1>1, LeastOpen
<1>3. Reduce(o, o.last_executed_quantity) /\ feed' = Report(feed, o)
  BY DEF TradeAt
<1> HIDE DEF c
<1>4. o \in OrderRecord
  BY <1>1, <1>2, MutatorType DEF OrderRecord
<1>5. SameTerms(o, orders[id]) /\ o.id = id
  BY <1>1, TermsKept DEF SameTerms
<1> HIDE DEF o
<1>6. Reduced(id, o)
  BY <1>3, <1>4, <1>5, ReduceReduces
<1>7. o = execute(orders[id], p, c)
  BY DEF o
<1>8. Loses(id, o)
  <2>1. /\ o.last_executed_quantity = c
        /\ o.open_quantity = Minus(orders[id].open_quantity, c)
    BY <1>1, <1>7 DEF execute, OrderRecord
  <2> QED BY <1>2, <1>3, <2>1 DEF Loses
<1> QED BY <1>2, <1>3, <1>4, <1>6, <1>7, <1>8

\* What is lost is the difference, also where it wraps around.
LEMMA MinusMinus ==
    ASSUME NEW a \in UInt64, NEW b \in UInt64
    PROVE  Minus(a, b) \in UInt64 /\ b = Minus(a, Minus(a, b))
  BY WidthAssumption DEF UInt64, Minus

\* cancelOrder().
LEMMA CancelEffect ==
    ASSUME Inv, NEW id \in Ids, NEW q \in CancelQuantities, CancelOrder(id, q)
    PROVE  \E o \in OrderRecord :
              /\ o = setQuantity(orders[id], q)
              /\ Reduced(id, o)
              /\ Loses(id, o)
              /\ feed' = Report(feed, o)
<1> DEFINE o == setQuantity(orders[id], q)
<1>1. id \in DOMAIN orders /\ q \in UInt64
  BY InputAssumption DEF CancelOrder
<1>2. orders[id] \in OrderRecord /\ orders[id].id = id
  BY <1>1, OrderAt
<1>3. /\ Reduce(o, Minus(orders[id].open_quantity, o.open_quantity))
      /\ feed' = Report(feed, o)
  BY DEF CancelOrder
<1>4. o \in OrderRecord
  BY <1>1, <1>2, MutatorType DEF OrderRecord
<1>5. SameTerms(o, orders[id]) /\ o.id = id
  BY <1>2, TermsKept DEF SameTerms
<1>6. o = setQuantity(orders[id], q)
  OBVIOUS
<1> HIDE DEF o
<1>7. Loses(id, o)
  <2>1. orders[id].open_quantity \in UInt64 /\ o.open_quantity \in UInt64
    BY <1>2, <1>4 DEF OrderRecord
  <2> QED BY <1>3, <2>1, MinusMinus DEF Loses
<1> QED BY <1>1, <1>3, <1>4, <1>5, <1>6, <1>7, ReduceReduces

\* deleteOrder() and replaceOrder().
LEMMA DeleteEffect ==
    ASSUME Inv, NEW id \in Ids, DeleteOrder(id)
    PROVE  Removed(id) /\ feed' = Without(feed, id)
  BY OrderAt, EraseRemoves DEF DeleteOrder

\* What a replacement keeps of the order it replaces.
SameOrder(o, old) ==
    /\ o.type = old.type
    /\ o.side = old.side
    /\ o.time_in_force = old.time_in_force
    /\ o.stop_price = old.stop_price
    /\ o.trail_amount = old.trail_amount
    /\ o.quantity = old.quantity
    /\ o.executed_quantity = old.executed_quantity
    /\ o.open_quantity = old.open_quantity

LEMMA ReplaceEffect ==
    ASSUME Inv, NEW id \in Ids, NEW new_id \in Ids, NEW p \in ReplacePrices,
           ReplaceOrder(id, new_id, p)
    PROVE  /\ Removed(id)
           /\ taker' = [orders[id] EXCEPT !.id = new_id, !.price = p]
           /\ taker' \in OrderRecord
           /\ SameOrder(taker', orders[id])
           /\ taker'.id = new_id /\ taker'.price = p /\ p \in UInt64 \ {0}
           /\ feed' = Put(Without(feed, id), new_id, taker')
<1>1. id \in DOMAIN orders
  BY DEF ReplaceOrder
<1>2. orders[id] \in OrderRecord /\ orders[id].id = id /\ p \in UInt64 \ {0}
  BY <1>1, OrderAt, InputAssumption
<1>3. Removed(id)
  BY <1>1, <1>2, EraseRemoves DEF ReplaceOrder
<1>4. taker' = [orders[id] EXCEPT !.id = new_id, !.price = p]
  BY <1>2 DEF ReplaceOrder, Submit, setPrice, setOrderID
<1> DEFINE o == [orders[id] EXCEPT !.id = new_id, !.price = p]
<1>5. o \in OrderRecord /\ o.id = new_id /\ o.price = p /\ SameOrder(o, orders[id])
  BY <1>2 DEF OrderRecord, SameOrder
<1> QED BY <1>2, <1>3, <1>4, <1>5 DEF ReplaceOrder, Submit

\* One trade of match(): the front order of the best level trades at its own price,
\* which the order in flight accepts.
TradesWith(id, c, o) ==
    /\ taker \in OrderRecord /\ taker.id \notin DOMAIN orders
    /\ MapOf(orders[id]) = <<"Limit", Opposite(taker.side)>>
    /\ orders[id].price = level_it[id]
    /\ IsBest(Opposite(taker.side), orders[id].price)
    /\ Accepts(taker, orders[id].price)
    /\ id = front(levels[MapOf(orders[id])][orders[id].price])
    /\ c = Least(taker.open_quantity, orders[id].open_quantity)
    /\ o = execute(orders[id], orders[id].price, c)
    /\ Reduced(id, o)
    /\ Loses(id, o)
    /\ taker' = execute(taker, orders[id].price, c)
    /\ taker' \in OrderRecord
    /\ feed' = Report(Put(feed, taker.id, taker'), o)
    /\ last_traded_price' = orders[id].price

LEMMA MatchEffect ==
    ASSUME Inv, MatchOne
    PROVE  \E id \in DOMAIN orders, c \in UInt64, o \in OrderRecord : TradesWith(id, c, o)
<1> DEFINE m == <<"Limit", Opposite(taker.side)>>
<1>1. PICK p \in DOMAIN levels[m] :
        /\ IsBest(Opposite(taker.side), p)
        /\ Accepts(taker, p)
        /\ LET resting  == orders[front(levels[m][p])]
               quantity == Least(taker.open_quantity, resting.open_quantity)
               maker    == execute(resting, resting.price, quantity)
           IN  /\ taker' = execute(taker, resting.price, quantity)
               /\ Reduce(maker, maker.last_executed_quantity)
               /\ feed' = Report(Put(feed, taker.id, taker'), maker)
               /\ last_traded_price' = resting.price
  BY DEF MatchOne
<1> DEFINE id == front(levels[m][p])
           c  == Least(taker.open_quantity, orders[id].open_quantity)
           o  == execute(orders[id], orders[id].price, c)
<1>2. /\ taker' = execute(taker, orders[id].price, c)
      /\ Reduce(o, o.last_executed_quantity)
      /\ feed' = Report(Put(feed, taker.id, taker'), o)
      /\ last_traded_price' = orders[id].price
  BY <1>1
<1>3. Static(orders, level_it, levels)
  BY Outside DEF MatchOne
<1>4. m \in Maps
  BY DEF Maps, Opposite, OrderSide
<1>5. taker \in OrderRecord /\ taker.id \notin DOMAIN orders
  BY DEF MatchOne, Inv, Scalars, Flight
<1>6. m[1] = "Limit"
  OBVIOUS
<1>7. m = <<"Limit", Opposite(taker.side)>>
  OBVIOUS
<1> HIDE DEF m
<1>8. id \in DOMAIN orders /\ MapOf(orders[id]) = m /\ level_it[id] = p
  BY <1>3, <1>4, FrontInBook DEF Static
<1>9. id = front(levels[m][p])
  OBVIOUS
<1> HIDE DEF id
<1>10. orders[id] \in OrderRecord /\ orders[id].id = id
  BY <1>8, OrderAt
<1>11. orders[id].price = p
  <2>1. KeyOf(orders[id]) = p
    BY <1>3, <1>8 DEF Static, Keyed
  <2>2. orders[id].type \notin StopTypes \cup TrailingTypes
    BY <1>6, <1>8 DEF MapOf
  <2> QED BY <2>1, <2>2 DEF KeyOf
<1>12. c \in UInt64 /\ orders[id].price \in UInt64
  BY <1>5, <1>10, LeastOpen DEF OrderRecord
<1>13. c = Least(taker.open_quantity, orders[id].open_quantity)
  OBVIOUS
<1> HIDE DEF c
<1>14. o \in OrderRecord /\ execute(taker, orders[id].price, c) \in OrderRecord
  BY <1>5, <1>10, <1>12, MutatorType DEF OrderRecord
<1>15. SameTerms(o, orders[id]) /\ o.id = id
  BY <1>10, TermsKept DEF SameTerms
<1>16. o = execute(orders[id], orders[id].price, c)
  OBVIOUS
<1> HIDE DEF o
<1>17. Reduced(id, o)
  BY <1>2, <1>8, <1>14, <1>15, ReduceReduces
<1>18. /\ taker' = execute(taker, orders[id].price, c)
       /\ taker' \in OrderRecord
  BY <1>2, <1>14
<1>19. /\ orders[id].price = level_it[id]
       /\ IsBest(Opposite(taker.side), orders[id].price)
       /\ Accepts(taker, orders[id].price)
       /\ id = front(levels[MapOf(orders[id])][orders[id].price])
  BY <1>1, <1>8, <1>9, <1>11
<1>20. Loses(id, o)
  <2>1. /\ o.last_executed_quantity = c
        /\ o.open_quantity = Minus(orders[id].open_quantity, c)
    BY <1>10, <1>16 DEF execute, OrderRecord
  <2> QED BY <1>2, <1>12, <2>1 DEF Loses
<1>21. TradesWith(id, c, o)
  BY <1>2, <1>5, <1>7, <1>8, <1>13, <1>16, <1>17, <1>18, <1>19, <1>20 DEF TradesWith
<1> QED BY <1>8, <1>12, <1>14, <1>21

\* A stop order that is activated leaves the levels as another order.
LEMMA ActivateEffect ==
    ASSUME Inv, ActivateStopOrder
    PROVE  \E id \in DOMAIN orders :
              /\ Removed(id) /\ Erase(orders[id], levels)
              /\ MapOf(orders[id]) = ActivationLoop[pc]
              /\ taker' = Converted(orders[id]) /\ taker' \in OrderRecord
              /\ feed' = Put(feed, id, taker')
<1> DEFINE m == ActivationLoop[pc]
<1>1. PICK p \in ReachedLevels :
        LET o == orders[front(levels[m][p])]
        IN  /\ Erase(o, levels)
            /\ Submit(Converted(o))
            /\ feed' = Put(feed, o.id, Converted(o))
  BY DEF ActivateStopOrder
<1> DEFINE id == front(levels[m][p])
<1>2. pc \in ActivationPCs /\ m \in Maps /\ p \in DOMAIN levels[m]
  BY DEF ActivateStopOrder, ActivationLoop, ActivationPCs, Maps, OrderSide, ReachedLevels
<1>3. /\ Erase(orders[id], levels) /\ taker' = Converted(orders[id])
      /\ feed' = Put(feed, orders[id].id, Converted(orders[id]))
  BY <1>1 DEF Submit
<1>4. Static(orders, level_it, levels)
  BY <1>2, Outside DEF ActivationPCs
<1>5. m = ActivationLoop[pc]
  OBVIOUS
<1> HIDE DEF m
<1>6. id \in DOMAIN orders /\ MapOf(orders[id]) = m
  BY <1>2, <1>4, FrontInBook DEF Static
<1> HIDE DEF id
<1>7. orders[id] \in OrderRecord /\ orders[id].id = id
  BY <1>6, OrderAt
<1>8. Converted(orders[id]) \in OrderRecord
  <2>1. 0 \in UInt64
    BY WidthAssumption DEF UInt64
  <2> QED BY <1>7, <2>1, MutatorType DEF OrderRecord
<1>9. Removed(id)
  BY <1>3, <1>6, <1>7, EraseRemoves
<1> QED BY <1>3, <1>5, <1>6, <1>7, <1>8, <1>9

\* A trailing stop order moves to a level of the new map.
LEMMA MoveEffect ==
    ASSUME Inv, MoveOrder
    PROVE  \E id \in DOMAIN orders, o \in OrderRecord :
              /\ Repriced(id, o)
              /\ MapOf(orders[id]) = UpdatedMap[pc]
              /\ level_it[id] \in DOMAIN levels[UpdatedMap[pc]]
              /\ levels' = [levels EXCEPT ![UpdatedMap[pc]] =
                              Put(@, level_it[id], popFront(@[level_it[id]], o))]
              /\ ~empty(levels[UpdatedMap[pc]][level_it[id]])
              /\ id = front(levels[UpdatedMap[pc]][level_it[id]])
              /\ o = calculateStopPrice(orders[id])
              /\ feed' = Put(feed, id, o)
              /\ new_trailing_levels' = Enqueue(new_trailing_levels, o.stop_price, o)
<1> DEFINE m == UpdatedMap[pc]
<1>1. PICK p \in DOMAIN levels[m] :
        /\ ~empty(levels[m][p])
        /\ LET o == calculateStopPrice(orders[front(levels[m][p])])
           IN  /\ orders' = Put(orders, o.id, o)
               /\ levels' = [levels EXCEPT ![m] = Put(@, p, popFront(@[p], o))]
               /\ new_trailing_levels' = Enqueue(new_trailing_levels, o.stop_price, o)
               /\ feed' = Put(feed, o.id, o)
  BY DEF MoveOrder
<1> DEFINE id == front(levels[m][p])
           o  == calculateStopPrice(orders[id])
<1>2. /\ orders' = Put(orders, o.id, o)
      /\ levels' = [levels EXCEPT ![m] = Put(@, p, popFront(@[p], o))]
      /\ ~empty(levels[m][p])
      /\ new_trailing_levels' = Enqueue(new_trailing_levels, o.stop_price, o)
      /\ feed' = Put(feed, o.id, o)
  BY <1>1
<1>3. Moving /\ m \in Maps
  <2>1. pc \in {"moveAsk", "moveBid"}
    BY DEF MoveOrder
  <2> QED BY <2>1 DEF Moving, UpdatedMap, Maps, OrderSide
<1>4. Mid(orders, level_it, levels, new_trailing_levels, m)
  BY <1>3 DEF Inv, Shape
<1>5. m = UpdatedMap[pc]
  OBVIOUS
<1> HIDE DEF m
<1>6. id \in DOMAIN orders /\ MapOf(orders[id]) = m /\ level_it[id] = p
  BY <1>1, <1>3, <1>4, FrontInBook DEF Mid
<1>11. id = front(levels[m][p])
  OBVIOUS
<1> HIDE DEF id
<1>7. orders[id] \in OrderRecord /\ orders[id].id = id
  BY <1>6, OrderAt
<1>8. o \in OrderRecord /\ o.id = id
  BY <1>7, PriceType DEF Inv, Scalars
<1>9. o = calculateStopPrice(orders[id])
  OBVIOUS
<1> HIDE DEF o
<1>10. Repriced(id, o)
  BY <1>2, <1>6, <1>8 DEF Repriced, Put
<1> QED BY <1>2, <1>5, <1>6, <1>8, <1>9, <1>10, <1>11

\* The order in flight comes to rest, among the limit orders
LEMMA InsertLimitEffect ==
    ASSUME Inv, InsertLimitOrder
    PROVE  Rested(taker)
<1>1. taker \in OrderRecord /\ taker.id \notin DOMAIN orders
  BY DEF InsertLimitOrder, MatchDone, Inv, Scalars, Flight
<1> QED BY <1>1 DEF InsertLimitOrder, Insert, Put, Rested

\* or, with the stop price it enters with, among the stop orders.
LEMMA InsertStopEffect ==
    ASSUME Inv, InsertStopOrder
    PROVE  /\ Rested(Entering(taker))
           /\ Entering(taker).type = taker.type
<1> DEFINE o == Entering(taker)
<1>1. taker \in OrderRecord /\ taker.id \notin DOMAIN orders
  BY DEF InsertStopOrder, Inv, Scalars, Flight
<1>2. o \in OrderRecord /\ o.id = taker.id /\ o.type = taker.type
  BY <1>1, PriceType DEF Entering, Inv, Scalars
<1>3. Insert(o)
  BY DEF InsertStopOrder
<1> HIDE DEF o
<1>4. Rested(o)
  BY <1>1, <1>2, <1>3 DEF Insert, Put, Rested
<1> QED BY <1>2, <1>4 DEF o

\* Every other step leaves the orders alone.
Elsewhere ==
    \/ BeginMatch \/ KillFok \/ DiscardTaker \/ ConvertOnEntry \/ BeginRound \/ LoopDone
    \/ SkipUpdate \/ BeginUpdate \/ SwapLevels \/ EndRound \/ UNCHANGED vars
    \/ \E id \in Ids : \E r \in Submissions : AddOrder(id, r)

LEMMA ElsewhereEffect == ASSUME Elsewhere PROVE orders' = orders
  BY DEF Elsewhere, AddOrder, BeginMatch, KillFok, DiscardTaker, Discard, ConvertOnEntry,
         BeginRound, LoopDone, SkipUpdate, BeginUpdate, SwapLevels, EndRound, vars, book

\* A request callers submit makes an order with something to trade.
LEMMA SubmittedOrder ==
    ASSUME NEW id \in Ids, NEW r \in Submissions
    PROVE  /\ Construct(id, r) \in OrderRecord
           /\ r \in Request
           /\ r.quantity > 0
           /\ r.type \in LimitTypes => r.price > 0
           /\ r.type \in TrailingTypes => r.trail_amount > 0
<1>1. r \in Request /\ FactoryAccepts(r)
  BY InputAssumption
<1> QED BY <1>1, ConstructType DEF FactoryAccepts

-----------------------------------------------------------------------------
(* What rests is live.                                                     *)

\* Only what is open comes to rest: an order in flight that was not matched yet is.
Live == RestingOrdersLive /\ (pc = "add" => ~isFilled(taker))

LiveOrder(o) ==
    /\ ~isFilled(o)
    /\ o.type # "Market"
    /\ o.type = "Limit" => o.time_in_force = "GTC"

\* Orders leave, or lose quantity without being filled.
LEMMA LiveShrinks ==
    ASSUME RestingOrdersLive, NEW id \in DOMAIN orders,
           Removed(id) \/ \E o \in OrderRecord : Reduced(id, o)
    PROVE  RestingOrdersLive'
<1>1. CASE Removed(id)
  BY <1>1 DEF Removed, RestingOrdersLive
<1>2. ASSUME NEW o \in OrderRecord, Reduced(id, o) PROVE RestingOrdersLive'
  BY <1>2 DEF Reduced, SameTerms, RestingOrdersLive
<1> QED BY <1>1, <1>2

LEMMA LiveStep == ASSUME Inv, Live, [Next]_vars PROVE Live'
<1>1. RestingOrdersLive /\ \A id \in DOMAIN orders : LiveOrder(orders[id])
  BY DEF Live, RestingOrdersLive, LiveOrder
<1>2. ASSUME NEW id \in Ids, NEW r \in Submissions, AddOrder(id, r) PROVE Live'
  <2>1. orders' = orders /\ taker' = Construct(id, r)
    BY <1>2 DEF AddOrder, Submit, book
  <2> QED BY <1>1, <2>1, SubmittedOrder DEF Live, RestingOrdersLive, Construct, isFilled
<1>3. ASSUME NEW id \in Ids, NEW q \in ExecuteQuantities, NEW p \in ExecutePrices,
             ExecuteOrderAt(id, q, p)
      PROVE  Live'
  BY <1>1, <1>3, TradeEffect, LiveShrinks, InputAssumption
     DEF ExecuteOrderAt, ReturnThroughActivation, Live
<1>4. ASSUME NEW id \in Ids, NEW q \in ExecuteQuantities, ExecuteOrder(id, q) PROVE Live'
  <2>1. id \in DOMAIN orders /\ orders[id].price \in UInt64
    BY <1>4, OrderAt DEF ExecuteOrder, OrderRecord
  <2> QED BY <1>1, <1>4, <2>1, TradeEffect, LiveShrinks, InputAssumption
          DEF ExecuteOrder, ReturnThroughActivation, Live
<1>5. ASSUME NEW id \in Ids, NEW q \in CancelQuantities, CancelOrder(id, q) PROVE Live'
  BY <1>1, <1>5, CancelEffect, LiveShrinks DEF CancelOrder, ReturnThroughActivation, Live
<1>6. ASSUME NEW id \in Ids, DeleteOrder(id) PROVE Live'
  BY <1>1, <1>6, DeleteEffect, LiveShrinks DEF DeleteOrder, ReturnThroughActivation, Live
<1>7. ASSUME NEW id \in Ids, NEW new_id \in Ids, NEW p \in ReplacePrices,
             ReplaceOrder(id, new_id, p)
      PROVE  Live'
  <2>1. Removed(id) /\ id \in DOMAIN orders
    BY <1>7, ReplaceEffect DEF ReplaceOrder
  <2>2. taker'.open_quantity = orders[id].open_quantity
    BY <1>7, ReplaceEffect DEF SameOrder
  <2> QED BY <1>1, <2>1, <2>2, LiveShrinks DEF Live, LiveOrder, isFilled
<1>8. CASE MatchOne
  BY <1>1, <1>8, MatchEffect, LiveShrinks DEF MatchOne, TradesWith, Live
<1>9. CASE InsertLimitOrder
  <2>1. Rested(taker) /\ Rests(taker) /\ pc' = ret
    BY <1>9, InsertLimitEffect DEF InsertLimitOrder, Settled
  <2>2. RestingOrdersLive'
    BY <1>1, <2>1 DEF Rested, Rests, LiveOrder, RestingOrdersLive
  <2> QED BY <2>1, <2>2 DEF Live, Inv, Scalars, ActivationPCs
<1>10. CASE InsertStopOrder
  <2> DEFINE o == Entering(taker)
  <2>1. /\ Rested(o) /\ o.type \in StopTypes \cup TrailingTypes /\ pc' = ret
        /\ taker \in OrderRecord
    BY <1>10, InsertStopEffect DEF InsertStopOrder, Settled, Inv, Scalars
  <2>2. o.open_quantity = taker.open_quantity
    BY <2>1 DEF Entering, calculateStopPrice, setStopPrice, OrderRecord
  <2>3. ~isFilled(o)
    BY <1>10, <2>2 DEF InsertStopOrder, Live, isFilled
  <2> HIDE DEF o
  <2>4. RestingOrdersLive'
    BY <1>1, <2>1, <2>3 DEF Rested, LiveOrder, RestingOrdersLive, StopTypes, TrailingTypes
  <2> QED BY <2>1, <2>4 DEF Live, Inv, Scalars, ActivationPCs
<1>11. CASE ActivateStopOrder
  <2>1. PICK id \in DOMAIN orders : Removed(id) /\ taker' = Converted(orders[id])
    BY <1>11, ActivateEffect
  <2>2. taker'.open_quantity = orders[id].open_quantity
    BY <2>1, OrderAt DEF Converted, OrderRecord
  <2> QED BY <1>1, <2>1, <2>2, LiveShrinks DEF Live, LiveOrder, isFilled
<1>12. CASE MoveOrder
  <2>1. PICK id \in DOMAIN orders, o \in OrderRecord :
           Repriced(id, o) /\ o = calculateStopPrice(orders[id])
    BY <1>12, MoveEffect
  <2>2. /\ o.type = orders[id].type /\ o.time_in_force = orders[id].time_in_force
        /\ o.open_quantity = orders[id].open_quantity
    BY <2>1, OrderAt DEF calculateStopPrice, setStopPrice, OrderRecord
  <2>3. LiveOrder(o)
    BY <1>1, <2>1, <2>2 DEF LiveOrder, isFilled
  <2>4. \A i \in DOMAIN orders' : LiveOrder(orders'[i])
    BY <1>1, <2>1, <2>3 DEF Repriced
  <2>5. pc' # "add"
    BY <1>12 DEF MoveOrder
  <2> QED BY <2>4, <2>5 DEF Live, LiveOrder, RestingOrdersLive, isFilled
<1>13. CASE Elsewhere /\ pc' # "add"
  BY <1>1, <1>13, ElsewhereEffect DEF Live, RestingOrdersLive
<1>14. CASE ConvertOnEntry
  <2>1. orders' = orders /\ taker' = Converted(taker) /\ taker \in OrderRecord
    BY <1>14, ElsewhereEffect DEF ConvertOnEntry, Elsewhere, Inv, Scalars
  <2>2. ~isFilled(taker')
    BY <1>14, <2>1 DEF ConvertOnEntry, Converted, OrderRecord, Live, isFilled
  <2> QED BY <1>1, <2>1, <2>2 DEF Live, RestingOrdersLive
<1>15. CASE UNCHANGED vars
  BY <1>15 DEF vars, book, Live, RestingOrdersLive, isFilled
<1>16. CASE \/ BeginMatch \/ KillFok \/ DiscardTaker \/ BeginRound \/ LoopDone
            \/ SkipUpdate \/ BeginUpdate \/ SwapLevels \/ EndRound
  <2>1. pc' # "add"
    BY <1>16 DEF BeginMatch, KillFok, DiscardTaker, Discard, Settled, BeginRound, LoopDone,
                 AfterLoop, ActivationLoop, SkipUpdate, UpdateDone, BeginUpdate, SwapLevels,
                 EndRound, Inv, Scalars, ActivationPCs
  <2> QED BY <1>13, <1>16, <2>1 DEF Elsewhere
<1> QED
  BY <1>2, <1>3, <1>4, <1>5, <1>6, <1>7, <1>8, <1>9, <1>10, <1>11, <1>12, <1>14, <1>15, <1>16
  DEF Next, Call, Step

\* What rests has open quantity, is no market order, and, among the limit orders, is
\* good till cancelled (order.h:64-71, map_orderbook.cpp:135-143): an order that enters
\* as a stop limit order is checked as any other when it is activated.
THEOREM RestingLive == Spec => []RestingOrdersLive
<1>1. Init => Live
  BY DEF Init, Live, RestingOrdersLive
<1>2. Live => RestingOrdersLive
  BY DEF Live
<1> QED BY <1>1, <1>2, LiveStep, Invariance, PTL DEF Spec

-----------------------------------------------------------------------------
(* The events tell a listener what the book holds.                         *)

\* SameReport, field by field.
LEMMA SameReportFields ==
    ASSUME NEW f \in OrderRecord, NEW o \in OrderRecord
    PROVE  SameReport(f, o) <=>
              /\ o.type \notin TrailingTypes => f.stop_price = o.stop_price
              /\ o.type # "Market" => f.price = o.price
              /\ f.id = o.id /\ f.type = o.type /\ f.side = o.side
              /\ f.time_in_force = o.time_in_force /\ f.trail_amount = o.trail_amount
              /\ f.quantity = o.quantity /\ f.executed_quantity = o.executed_quantity
              /\ f.open_quantity = o.open_quantity
              /\ f.last_executed_price = o.last_executed_price
              /\ f.last_executed_quantity = o.last_executed_quantity
  BY DEF SameReport, OrderRecord

\* An event that carries an order tells all of it.
LEMMA SameReportSelf == ASSUME NEW o \in OrderRecord PROVE SameReport(o, o)
  BY SameReportFields

\* The price a market order is matched at and the stop price a trailing order enters
\* with are the two fields no event tells.
LEMMA SameReportSilent ==
    ASSUME NEW f \in OrderRecord, NEW o \in OrderRecord, SameReport(f, o)
    PROVE  SameReport(f, Priced(o)) /\ SameReport(f, Entering(o))
<1> USE DEF SameReport, OrderRecord
<1>1. SameReport(f, Priced(o))
  BY DEF Priced, setPrice, TrailingTypes
<1>2. SameReport(f, Entering(o))
  BY DEF Entering, calculateStopPrice, setStopPrice, TrailingTypes
<1> QED BY <1>1, <1>2

\* A listener that knows the book hears that an order is filled, or what is left of it.
LEMMA ReportReduced ==
    ASSUME FeedMirrorsBook, taker = NoOrder, NEW id \in DOMAIN orders, NEW o \in OrderRecord,
           orders[id].id = id, Reduced(id, o), feed' = Report(feed, o), taker' = NoOrder
    PROVE  FeedMirrorsBook'
<1>1. o.id = id /\ SameReport(o, o)
  BY SameReportSelf DEF Reduced, SameTerms
<1>2. DOMAIN feed = DOMAIN orders /\ \A i \in DOMAIN orders : SameReport(feed[i], orders[i])
  BY DEF FeedMirrorsBook
<1>3. CASE isFilled(o)
  BY <1>1, <1>2, <1>3 DEF Report, Without, Reduced, FeedMirrorsBook
<1>4. CASE ~isFilled(o)
  BY <1>1, <1>2, <1>4 DEF Report, Put, Reduced, FeedMirrorsBook
<1> QED BY <1>3, <1>4

\* The order in flight is announced as it changes.
LEMMA TakerAnnounced ==
    ASSUME FeedMirrorsBook, NEW o \in OrderRecord, o.id \notin DOMAIN orders',
           NEW f, DOMAIN f = DOMAIN orders', \A i \in DOMAIN orders' : SameReport(f[i], orders'[i]),
           taker' = o, feed' = Put(f, o.id, o)
    PROVE  FeedMirrorsBook'
<1>1. SameReport(o, o) /\ o # NoOrder
  BY SameReportSelf, InputAssumption
<1> QED BY <1>1 DEF Put, FeedMirrorsBook

LEMMA FeedStep == ASSUME Inv, FeedMirrorsBook, [Next]_vars PROVE FeedMirrorsBook'
<1>1. /\ taker # NoOrder => taker \in OrderRecord
      /\ pc \in {"add", "match"} <=> taker # NoOrder
      /\ \A id \in DOMAIN feed : feed[id] \in OrderRecord
  BY DEF Inv, Scalars, IsMap
<1>2. /\ taker = NoOrder => DOMAIN feed = DOMAIN orders
      /\ taker # NoOrder => /\ DOMAIN feed = DOMAIN orders \cup {taker.id}
                            /\ taker.id \notin DOMAIN orders
                            /\ SameReport(feed[taker.id], taker)
      /\ \A i \in DOMAIN orders : SameReport(feed[i], orders[i])
  BY DEF FeedMirrorsBook
<1>3. ASSUME NEW id \in Ids, NEW r \in Submissions, AddOrder(id, r) PROVE FeedMirrorsBook'
  <2> DEFINE o == Construct(id, r)
  <2>1. o \in OrderRecord /\ o.id = id
    BY SubmittedOrder DEF Construct
  <2>2. taker = NoOrder /\ orders' = orders /\ taker' = o /\ feed' = Put(feed, id, o)
        /\ id \notin DOMAIN orders
    BY <1>1, <1>3 DEF AddOrder, Submit, book
  <2> HIDE DEF o
  <2> QED BY <1>2, <2>1, <2>2, TakerAnnounced
<1>4. ASSUME NEW id \in DOMAIN orders, NEW q \in UInt64, NEW p \in UInt64, pc = "idle",
             TradeAt(id, q, p), taker' = taker
      PROVE  FeedMirrorsBook'
  <2>1. PICK o \in OrderRecord : Reduced(id, o) /\ feed' = Report(feed, o)
    BY <1>4, TradeEffect
  <2> QED BY <1>1, <1>4, <2>1, ReportReduced, OrderAt
<1>5. ASSUME NEW id \in Ids, NEW q \in ExecuteQuantities, NEW p \in ExecutePrices,
             ExecuteOrderAt(id, q, p)
      PROVE  FeedMirrorsBook'
  BY <1>4, <1>5, InputAssumption DEF ExecuteOrderAt, ReturnThroughActivation
<1>6. ASSUME NEW id \in Ids, NEW q \in ExecuteQuantities, ExecuteOrder(id, q)
      PROVE  FeedMirrorsBook'
  <2>1. id \in DOMAIN orders /\ orders[id].price \in UInt64
    BY <1>6, OrderAt DEF ExecuteOrder, OrderRecord
  <2> QED BY <1>4, <1>6, <2>1, InputAssumption DEF ExecuteOrder, ReturnThroughActivation
<1>7. ASSUME NEW id \in Ids, NEW q \in CancelQuantities, CancelOrder(id, q)
      PROVE  FeedMirrorsBook'
  <2>1. id \in DOMAIN orders /\ taker = NoOrder /\ taker' = NoOrder
    BY <1>1, <1>7 DEF CancelOrder, ReturnThroughActivation
  <2>2. PICK o \in OrderRecord : Reduced(id, o) /\ feed' = Report(feed, o)
    BY <1>7, CancelEffect
  <2> QED BY <2>1, <2>2, ReportReduced, OrderAt
<1>8. ASSUME NEW id \in Ids, DeleteOrder(id) PROVE FeedMirrorsBook'
  <2>1. taker = NoOrder /\ taker' = NoOrder
    BY <1>1, <1>8 DEF DeleteOrder, ReturnThroughActivation
  <2>2. Removed(id) /\ feed' = Without(feed, id)
    BY <1>8, DeleteEffect
  <2> QED BY <1>2, <2>1, <2>2 DEF Removed, Without, FeedMirrorsBook
<1>9. ASSUME NEW id \in Ids, NEW new_id \in Ids, NEW p \in ReplacePrices,
             ReplaceOrder(id, new_id, p)
      PROVE  FeedMirrorsBook'
  <2>1. PICK o \in OrderRecord : /\ Removed(id) /\ taker' = o /\ o.id = new_id
                                 /\ feed' = Put(Without(feed, id), new_id, o)
    BY <1>9, ReplaceEffect
  <2>2. taker = NoOrder /\ (new_id = id \/ new_id \notin DOMAIN orders)
    BY <1>1, <1>9 DEF ReplaceOrder
  <2> DEFINE f == Without(feed, id)
  <2>3. /\ DOMAIN f = DOMAIN orders' /\ \A i \in DOMAIN orders' : SameReport(f[i], orders'[i])
        /\ o.id \notin DOMAIN orders'
    BY <1>2, <2>1, <2>2 DEF Removed, Without
  <2> HIDE DEF f
  <2> QED BY <2>1, <2>3, TakerAnnounced DEF f
<1>10. CASE BeginMatch
  <2>1. taker # NoOrder /\ taker' = Priced(taker) /\ orders' = orders /\ feed' = feed
    BY <1>1, <1>10 DEF BeginMatch, book
  <2>2. taker' \in OrderRecord /\ taker'.id = taker.id
    BY <1>1, <2>1, PriceType DEF Inv, Scalars
  <2>3. SameReport(feed[taker.id], taker')
    BY <1>1, <1>2, <2>1, SameReportSilent
  <2> QED BY <1>2, <2>1, <2>2, <2>3, InputAssumption DEF FeedMirrorsBook
<1>11. CASE KillFok \/ DiscardTaker
  <2>1. taker # NoOrder /\ taker' = NoOrder /\ orders' = orders /\ feed' = Without(feed, taker.id)
    BY <1>1, <1>11 DEF KillFok, DiscardTaker, MatchDone, Discard, Settled, book
  <2> QED BY <1>2, <2>1 DEF Without, FeedMirrorsBook
<1>12. CASE MatchOne
  <2>1. PICK id \in DOMAIN orders, c \in UInt64, o \in OrderRecord : TradesWith(id, c, o)
    BY <1>12, MatchEffect
  <2>2. /\ Reduced(id, o) /\ feed' = Report(Put(feed, taker.id, taker'), o)
        /\ taker' \in OrderRecord /\ taker'.id = taker.id /\ taker \in OrderRecord
    BY <2>1, TermsKept DEF TradesWith, SameTerms
  <2>3. o.id = id /\ SameReport(o, o) /\ SameReport(taker', taker')
        /\ taker # NoOrder /\ taker' # NoOrder /\ id # taker.id
    BY <1>2, <2>2, SameReportSelf, OrderAt, InputAssumption DEF Reduced, SameTerms
  <2>4. CASE isFilled(o)
    BY <1>2, <2>2, <2>3, <2>4 DEF Report, Put, Without, Reduced, FeedMirrorsBook
  <2>5. CASE ~isFilled(o)
    BY <1>2, <2>2, <2>3, <2>5 DEF Report, Put, Reduced, FeedMirrorsBook
  <2> QED BY <2>4, <2>5
<1>13. CASE InsertLimitOrder
  <2>1. Rested(taker) /\ taker' = NoOrder /\ feed' = feed /\ taker # NoOrder
    BY <1>1, <1>13, InsertLimitEffect DEF InsertLimitOrder, MatchDone, Settled
  <2> QED BY <1>2, <2>1 DEF Rested, FeedMirrorsBook
<1>14. CASE InsertStopOrder
  <2>1. Rested(Entering(taker)) /\ taker' = NoOrder /\ feed' = feed /\ taker # NoOrder
    BY <1>1, <1>14, InsertStopEffect DEF InsertStopOrder, Settled
  <2>2. SameReport(feed[taker.id], Entering(taker)) /\ Entering(taker).id = taker.id
    BY <1>1, <1>2, <2>1, SameReportSilent, PriceType DEF Entering, Inv, Scalars
  <2> QED BY <1>2, <2>1, <2>2 DEF Rested, FeedMirrorsBook
<1>15. CASE ConvertOnEntry
  <2>1. /\ taker # NoOrder /\ taker' = Converted(taker) /\ orders' = orders
        /\ feed' = Put(feed, taker.id, taker')
    BY <1>1, <1>15 DEF ConvertOnEntry, book
  <2>2. 0 \in UInt64
    BY WidthAssumption DEF UInt64
  <2>3. taker' \in OrderRecord /\ taker'.id = taker.id
    BY <1>1, <2>1, <2>2, MutatorType DEF Converted, OrderRecord
  <2>4. SameReport(taker', taker') /\ taker' # NoOrder
    BY <2>3, SameReportSelf, InputAssumption
  <2> QED BY <1>2, <2>1, <2>3, <2>4 DEF Put, FeedMirrorsBook
<1>16. CASE ActivateStopOrder
  <2>1. PICK id \in DOMAIN orders, o \in OrderRecord :
           /\ Removed(id) /\ taker' = o /\ o = Converted(orders[id])
           /\ feed' = Put(feed, id, o)
    BY <1>16, ActivateEffect
  <2>2. taker = NoOrder
    BY <1>1, <1>16 DEF ActivateStopOrder, ActivationLoop
  <2>3. o.id = id
    BY <2>1, OrderAt DEF Converted, OrderRecord
  <2>4. SameReport(o, o) /\ o # NoOrder
    BY SameReportSelf, InputAssumption
  <2> QED BY <1>2, <2>1, <2>2, <2>3, <2>4 DEF Removed, Put, FeedMirrorsBook
<1>17. CASE MoveOrder
  <2>1. PICK id \in DOMAIN orders, o \in OrderRecord : Repriced(id, o) /\ feed' = Put(feed, id, o)
    BY <1>17, MoveEffect
  <2>2. taker = NoOrder /\ taker' = NoOrder
    BY <1>1, <1>17 DEF MoveOrder
  <2>3. SameReport(o, o)
    BY SameReportSelf
  <2> QED BY <1>2, <2>1, <2>2, <2>3 DEF Repriced, Put, FeedMirrorsBook
<1>18. CASE \/ BeginRound \/ LoopDone \/ SkipUpdate \/ BeginUpdate \/ SwapLevels \/ EndRound
            \/ UNCHANGED vars
  <2>1. orders' = orders /\ feed' = feed /\ taker' = taker
    BY <1>18 DEF BeginRound, LoopDone, SkipUpdate, BeginUpdate, SwapLevels, EndRound, vars, book
  <2> QED BY <2>1 DEF FeedMirrorsBook
<1> QED
  BY <1>3, <1>5, <1>6, <1>7, <1>8, <1>9, <1>10, <1>11, <1>12, <1>13, <1>14, <1>15, <1>16, <1>17,
     <1>18
  DEF Next, Call, Step

\* A listener that applies the added, updated, executed and deleted events as they come
\* holds the resting orders and the order in flight (the calls of event_handler in
\* map_orderbook.cpp:16-141, 163-187, 322-341, 441-450), for any requests and any prices.
THEOREM FeedMirrors == Spec => []FeedMirrorsBook
<1>1. Init => FeedMirrorsBook
  BY DEF Init, FeedMirrorsBook
<1> QED BY <1>1, FeedStep, Invariance, PTL DEF Spec

-----------------------------------------------------------------------------
(* No quantity is lost.                                                    *)

Accounted(o) == o.executed_quantity + o.open_quantity = o.quantity

AllAccounted ==
    /\ \A id \in DOMAIN orders : Accounted(orders[id])
    /\ taker # NoOrder => Accounted(taker)

LEMMA AccountedAll == QuantityAccounted <=> AllAccounted
  BY DEF QuantityAccounted, AllAccounted, Accounted

\* A trade of what is open, which the 64 bits of the executed quantity hold.
LEMMA ExecuteAccounts ==
    ASSUME NEW o \in OrderRecord, Accounted(o), NEW p, NEW c \in UInt64, c <= o.open_quantity
    PROVE  Accounted(execute(o, p, c))
<1>1. /\ o.open_quantity \in UInt64 /\ o.executed_quantity \in UInt64 /\ o.quantity \in UInt64
      /\ UINT64_MAX \in Nat
  BY WidthAssumption DEF OrderRecord
<1>2. /\ Minus(o.open_quantity, c) = o.open_quantity - c
      /\ Plus(o.executed_quantity, c) = o.executed_quantity + c
  BY <1>1 DEF Minus, Plus, UInt64, Accounted
<1>3. /\ execute(o, p, c).open_quantity = o.open_quantity - c
      /\ execute(o, p, c).executed_quantity = o.executed_quantity + c
      /\ execute(o, p, c).quantity = o.quantity
  BY <1>2 DEF execute, OrderRecord
<1> QED BY <1>1, <1>3 DEF Accounted, UInt64

\* Orders leave, or lose what was traded.
LEMMA AccountedShrinks ==
    ASSUME AllAccounted, NEW id \in DOMAIN orders,
           Removed(id) \/ \E o \in OrderRecord : Reduced(id, o) /\ Accounted(o)
    PROVE  \A i \in DOMAIN orders' : Accounted(orders'[i])
  BY DEF Removed, Reduced, AllAccounted

LEMMA AccountedStep ==
    ASSUME CancelQuantities = {}, Inv, AllAccounted, [Next]_vars
    PROVE  AllAccounted'
<1>1. /\ taker # NoOrder => taker \in OrderRecord
      /\ pc \in {"add", "match"} <=> taker # NoOrder
  BY DEF Inv, Scalars
<1>2. ASSUME NEW id \in Ids, NEW r \in Submissions, AddOrder(id, r) PROVE AllAccounted'
  <2>1. orders' = orders /\ taker' = Construct(id, r)
    BY <1>2 DEF AddOrder, Submit, book
  <2>2. Accounted(Construct(id, r))
    <3>1. r.quantity \in Int
      BY SubmittedOrder, WidthAssumption DEF Request, UInt64
    <3> QED BY <3>1 DEF Construct, Accounted
  <2> QED BY <2>1, <2>2 DEF AllAccounted
<1>3. ASSUME NEW id \in DOMAIN orders, NEW q \in UInt64, NEW p \in UInt64, pc = "idle",
             TradeAt(id, q, p), taker' = taker
      PROVE  AllAccounted'
  <2>1. PICK c \in UInt64, o \in OrderRecord :
           c <= orders[id].open_quantity /\ o = execute(orders[id], p, c) /\ Reduced(id, o)
    BY <1>3, TradeEffect
  <2>2. Accounted(o)
    BY <2>1, OrderAt, ExecuteAccounts DEF AllAccounted
  <2> QED BY <1>1, <1>3, <2>1, <2>2, AccountedShrinks DEF AllAccounted
<1>4. ASSUME NEW id \in Ids, NEW q \in ExecuteQuantities, NEW p \in ExecutePrices,
             ExecuteOrderAt(id, q, p)
      PROVE  AllAccounted'
  BY <1>3, <1>4, InputAssumption DEF ExecuteOrderAt, ReturnThroughActivation
<1>5. ASSUME NEW id \in Ids, NEW q \in ExecuteQuantities, ExecuteOrder(id, q)
      PROVE  AllAccounted'
  <2>1. id \in DOMAIN orders /\ orders[id].price \in UInt64
    BY <1>5, OrderAt DEF ExecuteOrder, OrderRecord
  <2> QED BY <1>3, <1>5, <2>1, InputAssumption DEF ExecuteOrder, ReturnThroughActivation
<1>6. ASSUME NEW id \in Ids, DeleteOrder(id) PROVE AllAccounted'
  <2>1. taker' = NoOrder /\ Removed(id)
    BY <1>1, <1>6, DeleteEffect DEF DeleteOrder, ReturnThroughActivation
  <2> QED BY <2>1, AccountedShrinks DEF AllAccounted, Removed
<1>7. ASSUME NEW id \in Ids, NEW new_id \in Ids, NEW p \in ReplacePrices,
             ReplaceOrder(id, new_id, p)
      PROVE  AllAccounted'
  <2>1. Removed(id) /\ SameOrder(taker', orders[id])
    BY <1>7, ReplaceEffect
  <2> QED BY <2>1, AccountedShrinks DEF AllAccounted, Accounted, SameOrder, Removed
<1>8. CASE BeginMatch
  <2>1. taker \in OrderRecord /\ taker' = Priced(taker) /\ orders' = orders
    BY <1>1, <1>8 DEF BeginMatch, book
  <2>2. Accounted(taker) => Accounted(Priced(taker))
    BY <2>1 DEF Priced, setPrice, OrderRecord, Accounted
  <2> QED BY <1>1, <1>8, <2>1, <2>2 DEF BeginMatch, AllAccounted
<1>9. CASE MatchOne
  <2>1. PICK id \in DOMAIN orders, c \in UInt64, o \in OrderRecord : TradesWith(id, c, o)
    BY <1>9, MatchEffect
  <2>2. taker \in OrderRecord /\ taker # NoOrder /\ orders[id] \in OrderRecord
    BY <2>1, OrderAt, InputAssumption DEF TradesWith
  <2>3. c = Least(taker.open_quantity, orders[id].open_quantity)
    BY <2>1 DEF TradesWith
  <2>4. taker.open_quantity \in UInt64 /\ orders[id].open_quantity \in UInt64
    BY <2>2 DEF OrderRecord
  <2>5. c <= taker.open_quantity /\ c <= orders[id].open_quantity
    BY <2>3, <2>4, LeastOpen
  <2>6. Accounted(taker') /\ Accounted(o)
    BY <2>1, <2>2, <2>5, ExecuteAccounts DEF TradesWith, AllAccounted
  <2> QED BY <2>1, <2>6, AccountedShrinks DEF TradesWith, AllAccounted
<1>10. CASE InsertLimitOrder
  <2>1. Rested(taker) /\ taker' = NoOrder /\ taker # NoOrder
    BY <1>1, <1>10, InsertLimitEffect DEF InsertLimitOrder, MatchDone, Settled
  <2> QED BY <2>1 DEF Rested, AllAccounted
<1>11. CASE InsertStopOrder
  <2>1. Rested(Entering(taker)) /\ taker' = NoOrder /\ taker # NoOrder
    BY <1>1, <1>11, InsertStopEffect DEF InsertStopOrder, Settled
  <2>2. Accounted(taker) => Accounted(Entering(taker))
    BY <1>1, <2>1 DEF Entering, calculateStopPrice, setStopPrice, OrderRecord, Accounted
  <2> QED BY <2>1, <2>2 DEF Rested, AllAccounted
<1>12. CASE ConvertOnEntry
  <2>1. taker # NoOrder /\ taker' = Converted(taker) /\ orders' = orders
    BY <1>1, <1>12 DEF ConvertOnEntry, book
  <2>2. Accounted(taker) => Accounted(Converted(taker))
    BY <1>1, <2>1 DEF Converted, OrderRecord, Accounted
  <2> QED BY <2>1, <2>2 DEF AllAccounted
<1>13. CASE ActivateStopOrder
  <2>1. PICK id \in DOMAIN orders : Removed(id) /\ taker' = Converted(orders[id])
    BY <1>13, ActivateEffect
  <2>2. Accounted(orders[id]) => Accounted(Converted(orders[id]))
    BY <2>1, OrderAt DEF Converted, OrderRecord, Accounted
  <2> QED BY <2>1, <2>2, AccountedShrinks DEF AllAccounted
<1>14. CASE MoveOrder
  <2>1. PICK id \in DOMAIN orders, o \in OrderRecord :
           Repriced(id, o) /\ o = calculateStopPrice(orders[id])
    BY <1>14, MoveEffect
  <2>2. Accounted(orders[id]) => Accounted(o)
    BY <2>1, OrderAt DEF calculateStopPrice, setStopPrice, OrderRecord, Accounted
  <2> QED BY <1>14, <2>1, <2>2 DEF MoveOrder, Repriced, AllAccounted
<1>15. CASE KillFok \/ DiscardTaker
  BY <1>15 DEF KillFok, DiscardTaker, Discard, Settled, book, AllAccounted
<1>16. CASE \/ BeginRound \/ LoopDone \/ SkipUpdate \/ BeginUpdate \/ SwapLevels \/ EndRound
            \/ UNCHANGED vars
  <2>1. orders' = orders /\ taker' = taker
    BY <1>16 DEF BeginRound, LoopDone, SkipUpdate, BeginUpdate, SwapLevels, EndRound, vars, book
  <2> QED BY <2>1 DEF AllAccounted, Accounted
<1> QED
  BY <1>2, <1>4, <1>5, <1>6, <1>7, <1>8, <1>9, <1>10, <1>11, <1>12, <1>13, <1>14, <1>15, <1>16
  DEF Next, Call, Step

\* Where callers cancel nothing, every order has executed what it no longer has open
\* (order.h:516-522, map_orderbook.cpp:43-84, 400-450), through partial trades, activation
\* and replacement, and no sum of quantities leaves its 64 bits.
THEOREM QuantityKept == CancelQuantities = {} => (Spec => []QuantityAccounted)
<1> SUFFICES ASSUME CancelQuantities = {} PROVE Spec => []QuantityAccounted
  OBVIOUS
<1>1. Init => AllAccounted
  BY DEF Init, AllAccounted
<1>2. Inv /\ AllAccounted /\ [Next]_vars => AllAccounted'
  BY AccountedStep
<1>3. AllAccounted => QuantityAccounted
  BY AccountedAll
<1> QED BY <1>1, <1>2, <1>3, Invariance, PTL DEF Spec

-----------------------------------------------------------------------------
(* The stop orders are where the price says.  A round of                   *)
(* activateStopOrders() in which nothing is activated keeps the last       *)
(* traded price it began with; what each of its loops leaves waiting is    *)
(* therefore still out of reach when the next ones are done, and the       *)
(* references of the trailing stops are the last traded price at its end.  *)

\* Where the outermost call is: in the loop whose activated order is in flight, if any.
Position == IF ret = "activate" THEN pc ELSE ret

\* An order in flight that a loop activated is matched like any other and trades at once.
Nested ==
    /\ pc \notin {"add", "match"} => ret = "activate"
    /\ ret # "activate" => activated /\ taker.type \in {"Limit", "Market"}

\* Limit prices and trail amounts are positive.
PositiveTerms(o) ==
    /\ o.type \in LimitTypes => o.price > 0
    /\ o.type \in TrailingTypes => o.trail_amount > 0

Positive ==
    /\ \A id \in DOMAIN orders : PositiveTerms(orders[id])
    /\ taker # NoOrder => PositiveTerms(taker)

Trails(o, side) == o.type \in TrailingTypes /\ o.side = side

\* At price 0 a bid loop sees the highest price, which activates every trailing bid.
NoneAtZero ==
    last_traded_price = 0 =>
        /\ Position \notin {"activate", "bidStop", "bidTrailing"} =>
            \A id \in DOMAIN orders : ~Trails(orders[id], "Bid")
        /\ Position \in {"bidStop", "bidTrailing"} => trigger_price = UINT64_MAX

\* The price a loop works with is the last traded price until it activates an order.
Captured ==
    ~activated =>
        /\ pc \in {"bidStop", "bidTrailing"} => trigger_price = lastTradedPriceAsk
        /\ pc \in {"askStop", "askTrailing"} => trigger_price = lastTradedPriceBid

\* The references of the trailing stops.
References ==
    /\ ~activated /\ pc \in {"askStop", "askTrailing", "updateBid", "moveBid", "endRound"} =>
        trailing_bid_price = last_traded_price
    /\ ~activated /\ pc = "endRound" => trailing_ask_price = last_traded_price
    /\ pc = "idle" \/ (pc = "add" /\ taker.type \in TrailingTypes) =>
        /\ trailing_bid_price = last_traded_price
        /\ trailing_ask_price = last_traded_price \/ last_traded_price = 0
    /\ pc = "moveAsk" => trailing_bid_price < last_traded_price
    /\ pc = "moveBid" => last_traded_price > 0 /\ last_traded_price < trailing_ask_price

\* A trailing stop is within its trail amount of its reference, and, once a rebuild has
\* moved it, of the last traded price, on the far side of it.
Within ==
    \A id \in DOMAIN orders :
        LET o == orders[id]
        IN  /\ Trails(o, "Ask") => o.stop_price + o.trail_amount >= trailing_bid_price
            /\ Trails(o, "Bid") => o.stop_price <= trailing_ask_price + o.trail_amount

MovedWithin ==
    \A p \in DOMAIN new_trailing_levels :
        /\ pc = "moveBid" => p > last_traded_price
        /\ \A id \in LevelIds(new_trailing_levels[p]) :
            LET o == orders[id]
            IN  /\ pc = "moveAsk" => o.stop_price + o.trail_amount >= last_traded_price
                /\ pc = "moveBid" => o.stop_price <= last_traded_price + o.trail_amount

\* The last traded price does not reach the orders of a map.
Unreached(m) ==
    \A p \in DOMAIN levels[m] :
        IF m[2] = "Ask" THEN p < last_traded_price ELSE p > last_traded_price

\* The parts of a round that come after the loop over a map.
AfterAskTrailing == {"updateBid", "moveBid", "endRound"}
AfterAskStop     == AfterAskTrailing \cup {"askTrailing"}
AfterBidTrailing == AfterAskStop \cup {"askStop", "updateAsk", "moveAsk"}
AfterBidStop     == AfterBidTrailing \cup {"bidTrailing"}

LeftWaiting(m, after) == pc = "idle" \/ (~activated /\ pc \in after) => Unreached(m)

Waiting ==
    /\ LeftWaiting(<<"Stop", "Bid">>, AfterBidStop)
    /\ LeftWaiting(<<"Trailing", "Bid">>, AfterBidTrailing)
    /\ LeftWaiting(<<"Stop", "Ask">>, AfterAskStop)
    /\ LeftWaiting(<<"Trailing", "Ask">>, AfterAskTrailing)

Stops == Nested /\ Positive /\ NoneAtZero /\ Captured /\ References /\ Within /\ MovedWithin /\ Waiting

-----------------------------------------------------------------------------
(* The steps, by what they can do to the stop orders: calls begin, orders  *)
(* in flight are matched, stop orders join the book or leave it, and the   *)
(* rounds of activateStopOrders() go on.                                   *)

FlightStep ==
    BeginMatch \/ KillFok \/ MatchOne \/ InsertLimitOrder \/ DiscardTaker \/ ConvertOnEntry

RoundStep ==
    \/ BeginRound \/ LoopDone \/ SkipUpdate \/ BeginUpdate \/ MoveOrder \/ SwapLevels
    \/ EndRound

LEMMA NextCases ==
    ASSUME [Next]_vars
    PROVE  \/ Call \/ FlightStep \/ InsertStopOrder \/ ActivateStopOrder \/ RoundStep
           \/ UNCHANGED vars
  BY DEF Next, Step, FlightStep, RoundStep

\* No order comes to rest, and none that rests changes its terms.
Shrinks == \A id \in DOMAIN orders' : id \in DOMAIN orders /\ SameTerms(orders'[id], orders[id])

LEMMA ShrinkCases ==
    ASSUME \/ orders' = orders
           \/ \E id \in DOMAIN orders : Removed(id) \/ \E o \in OrderRecord : Reduced(id, o)
    PROVE  Shrinks
<1>1. CASE orders' = orders
  BY <1>1 DEF Shrinks, SameTerms
<1>2. ASSUME NEW id \in DOMAIN orders, Removed(id) PROVE Shrinks
  BY <1>2 DEF Shrinks, SameTerms, Removed
<1>3. ASSUME NEW id \in DOMAIN orders, NEW o \in OrderRecord, Reduced(id, o) PROVE Shrinks
  BY <1>3 DEF Shrinks, SameTerms, Reduced
<1> QED BY <1>1, <1>2, <1>3

\* A public call begins: it goes to its order in flight, whose terms are a request's or
\* those of the order it replaces, or straight to the stop orders.
Submitted ==
    \/ \E id \in Ids, r \in Submissions : taker' = Construct(id, r)
    \/ \E id \in DOMAIN orders : SameOrder(taker', orders[id]) /\ taker'.price > 0

LEMMA CallEffect ==
    ASSUME Inv, Call
    PROVE  /\ pc = "idle" /\ taker = NoOrder /\ Shrinks
           /\ UNCHANGED <<ret, trailing_bid_price, trailing_ask_price, activated,
                          new_trailing_levels>>
           /\ \/ pc' = "activate" /\ taker' = NoOrder
              \/ pc' = "add" /\ last_traded_price' = last_traded_price /\ Submitted
<1>1. pc = "idle" => taker = NoOrder
  BY DEF Inv, Scalars
<1>2. ASSUME NEW id \in Ids, NEW r \in Submissions, AddOrder(id, r)
      PROVE  /\ pc = "idle" /\ orders' = orders
             /\ UNCHANGED <<ret, prices, activated, new_trailing_levels>>
             /\ pc' = "add" /\ Submitted
  BY <1>2 DEF AddOrder, Submit, book, Submitted
<1>3. ASSUME NEW id \in Ids, NEW q \in ExecuteQuantities, NEW p \in ExecutePrices,
             ExecuteOrderAt(id, q, p)
      PROVE  pc = "idle" /\ id \in DOMAIN orders /\ ReturnThroughActivation
             /\ UNCHANGED <<trailing_bid_price, trailing_ask_price>>
             /\ \E o \in OrderRecord : Reduced(id, o)
  <2>1. id \in DOMAIN orders /\ q \in UInt64 /\ p \in UInt64 /\ TradeAt(id, q, p)
    BY <1>3, InputAssumption DEF ExecuteOrderAt
  <2>2. \E o \in OrderRecord : Reduced(id, o)
    BY <2>1, TradeEffect
  <2> QED BY <1>3, <2>2 DEF ExecuteOrderAt, TradeAt
<1>4. ASSUME NEW id \in Ids, NEW q \in ExecuteQuantities, ExecuteOrder(id, q)
      PROVE  pc = "idle" /\ id \in DOMAIN orders /\ ReturnThroughActivation
             /\ UNCHANGED <<trailing_bid_price, trailing_ask_price>>
             /\ \E o \in OrderRecord : Reduced(id, o)
  <2>1. id \in DOMAIN orders
    BY <1>4 DEF ExecuteOrder
  <2>2. q \in UInt64 /\ orders[id].price \in UInt64 /\ TradeAt(id, q, orders[id].price)
    BY <1>4, <2>1, OrderAt, InputAssumption DEF ExecuteOrder, OrderRecord
  <2>3. \E o \in OrderRecord : Reduced(id, o)
    BY <2>1, <2>2, TradeEffect
  <2> QED BY <1>4, <2>3 DEF ExecuteOrder, TradeAt
<1>5. ASSUME NEW id \in Ids, NEW q \in CancelQuantities, CancelOrder(id, q)
      PROVE  pc = "idle" /\ id \in DOMAIN orders /\ ReturnThroughActivation
             /\ UNCHANGED <<trailing_bid_price, trailing_ask_price>>
             /\ \E o \in OrderRecord : Reduced(id, o)
  BY <1>5, CancelEffect DEF CancelOrder, prices
<1>6. ASSUME NEW id \in Ids, DeleteOrder(id)
      PROVE  pc = "idle" /\ id \in DOMAIN orders /\ ReturnThroughActivation
             /\ UNCHANGED <<trailing_bid_price, trailing_ask_price>>
             /\ Removed(id)
  BY <1>6, DeleteEffect DEF DeleteOrder, prices
<1>7. ASSUME NEW id \in Ids, NEW new_id \in Ids, NEW p \in ReplacePrices,
             ReplaceOrder(id, new_id, p)
      PROVE  /\ pc = "idle" /\ id \in DOMAIN orders /\ Removed(id)
             /\ UNCHANGED <<ret, prices, activated, new_trailing_levels>>
             /\ pc' = "add" /\ Submitted
  <2>1. id \in DOMAIN orders
    BY <1>7 DEF ReplaceOrder
  <2>2. Removed(id) /\ SameOrder(taker', orders[id]) /\ taker'.price = p /\ p > 0
    <3>1. p \in UInt64 \ {0}
      BY InputAssumption
    <3>2. p > 0
      BY <3>1 DEF UInt64
    <3> QED BY <1>7, <3>2, ReplaceEffect
  <2>3. Submitted
    BY <2>1, <2>2 DEF Submitted
  <2> QED BY <1>7, <2>1, <2>2, <2>3 DEF ReplaceOrder, Submit
<1> QED
  BY <1>1, <1>2, <1>3, <1>4, <1>5, <1>6, <1>7, ShrinkCases
  DEF Call, ReturnThroughActivation, prices

\* An order in flight trades, or is done with: it rests as a limit order or is dropped.
LEMMA FlightEffect ==
    ASSUME Inv, FlightStep
    PROVE  /\ pc \in {"add", "match"} /\ taker \in OrderRecord
           /\ UNCHANGED <<trailing_bid_price, trailing_ask_price, loop>>
           /\ \/ /\ pc' \in {"add", "match"} /\ ret' = ret /\ Shrinks
                 /\ taker' \in OrderRecord /\ taker'.type \in {"Limit", "Market"}
                 /\ PositiveTerms(taker) => PositiveTerms(taker')
                 /\ \/ last_traded_price' = last_traded_price
                    \/ \E id \in DOMAIN orders :
                          /\ last_traded_price' = orders[id].price
                          /\ MapOf(orders[id])[1] = "Limit"
              \/ /\ pc' = ret /\ ret' = "activate" /\ taker' = NoOrder
                 /\ last_traded_price' = last_traded_price
                 /\ Shrinks \/ (Rested(taker) /\ taker.type = "Limit")
<1>1. /\ pc \in {"add", "match"} => taker \in OrderRecord
      /\ pc = "match" => taker.type \in {"Limit", "Market"}
  BY DEF Inv, Scalars, Flight
<1>2. CASE BeginMatch
  <2>1. pc = "add" /\ taker.type \in {"Limit", "Market"} /\ taker' = Priced(taker)
    BY <1>2 DEF BeginMatch
  <2>2. taker' \in OrderRecord /\ taker'.type = taker.type
    BY <1>1, <2>1, PriceType DEF Inv, Scalars
  <2>3. PositiveTerms(taker) => PositiveTerms(taker')
    BY <1>1, <2>1 DEF Priced, setPrice, PositiveTerms, OrderRecord, LimitTypes, TrailingTypes
  <2>4. Shrinks
    BY <1>2, ShrinkCases DEF BeginMatch, book
  <2> QED BY <1>1, <1>2, <2>1, <2>2, <2>3, <2>4 DEF BeginMatch, prices
<1>3. CASE KillFok \/ DiscardTaker
  BY <1>1, <1>3, ShrinkCases
  DEF KillFok, DiscardTaker, MatchDone, Discard, Settled, book, prices
<1>4. CASE MatchOne
  <2>1. PICK id \in DOMAIN orders, c \in UInt64, o \in OrderRecord : TradesWith(id, c, o)
    BY <1>4, MatchEffect
  <2>2. taker' \in OrderRecord /\ SameTerms(taker', taker)
    BY <2>1, TermsKept DEF TradesWith
  <2>3. MapOf(orders[id])[1] = "Limit" /\ last_traded_price' = orders[id].price /\ Reduced(id, o)
    BY <2>1 DEF TradesWith
  <2>4. Shrinks
    BY <2>3, ShrinkCases
  <2> QED BY <1>1, <1>4, <2>2, <2>3, <2>4 DEF MatchOne, SameTerms, PositiveTerms
<1>5. CASE InsertLimitOrder
  BY <1>1, <1>5, InsertLimitEffect DEF InsertLimitOrder, MatchDone, Rests, Settled, prices
<1>6. CASE ConvertOnEntry
  <2>1. pc = "add" /\ taker' = Converted(taker) /\ taker.type \in StopTypes \cup TrailingTypes
    BY <1>6 DEF ConvertOnEntry
  <2>2. 0 \in UInt64
    BY WidthAssumption DEF UInt64
  <2>3. /\ taker' \in OrderRecord
        /\ taker'.type = IF taker.type \in {"Stop", "TrailingStop"} THEN "Market" ELSE "Limit"
        /\ taker'.price = taker.price
    BY <1>1, <2>1, <2>2, MutatorType DEF Converted, OrderRecord
  <2>4. PositiveTerms(taker) => PositiveTerms(taker')
    BY <2>1, <2>3 DEF PositiveTerms, LimitTypes, StopTypes, TrailingTypes
  <2>5. Shrinks
    BY <1>6, ShrinkCases DEF ConvertOnEntry, book
  <2> QED BY <1>1, <1>6, <2>1, <2>3, <2>4, <2>5 DEF ConvertOnEntry, prices
<1> QED BY <1>2, <1>3, <1>4, <1>5, <1>6 DEF FlightStep

\* A round goes on: only a rebuild touches the orders.
LEMMA RoundEffect ==
    ASSUME Inv, RoundStep
    PROVE  /\ pc \in {"activate", "endRound"} \cup ActivationPCs \cup UpdatePCs
           /\ pc' \in {"idle", "activate", "endRound"} \cup ActivationPCs \cup UpdatePCs
           /\ taker = NoOrder
           /\ UNCHANGED <<last_traded_price, ret, taker>>
           /\ ~MoveOrder => orders' = orders /\ level_it' = level_it
<1>1. /\ pc \in {"activate", "endRound"} \cup ActivationPCs \cup UpdatePCs
      /\ pc' \in {"idle", "activate", "endRound"} \cup ActivationPCs \cup UpdatePCs
  <2> USE DEF ActivationPCs, UpdatePCs
  <2>1. CASE BeginRound \/ EndRound \/ BeginUpdate \/ MoveOrder
    BY <2>1 DEF BeginRound, EndRound, BeginUpdate, MoveOrder
  <2>2. CASE SkipUpdate \/ SwapLevels
    BY <2>2 DEF SkipUpdate, SwapLevels, UpdateDone
  <2>3. CASE LoopDone
    BY <2>3 DEF LoopDone, ActivationLoop, AfterLoop
  <2> QED BY <2>1, <2>2, <2>3 DEF RoundStep
<1>2. pc \notin {"add", "match"}
  BY <1>1 DEF ActivationPCs, UpdatePCs
<1>3. taker = NoOrder
  BY <1>2 DEF Inv, Scalars
<1> QED
  BY <1>1, <1>3
  DEF RoundStep, BeginRound, LoopDone, SkipUpdate, BeginUpdate, MoveOrder, SwapLevels, EndRound,
      book, prices

-----------------------------------------------------------------------------
(* Each part of Stops is preserved by every step.                          *)

LEMMA NestedStep == ASSUME Inv, Nested, [Next]_vars PROVE Nested'
<1>1. pc = "idle" => ret = "activate"
  BY DEF Nested
<1>2. CASE Call
  BY <1>1, <1>2, CallEffect DEF Nested
<1>3. CASE FlightStep
  BY <1>3, FlightEffect DEF Nested, loop
<1>4. CASE InsertStopOrder
  BY <1>4 DEF InsertStopOrder, Settled, Nested
<1>5. CASE ActivateStopOrder
  <2>1. PICK id \in DOMAIN orders : taker' = Converted(orders[id])
    BY <1>5, ActivateEffect
  <2>2. taker'.type \in {"Limit", "Market"}
    BY <2>1, OrderAt DEF Converted, OrderRecord
  <2> QED BY <1>5, <2>2 DEF ActivateStopOrder, Submit, Nested
<1>6. CASE RoundStep
  <2>1. ret = "activate" /\ ret' = ret
    BY <1>6, RoundEffect DEF Nested, ActivationPCs, UpdatePCs
  <2> QED BY <2>1 DEF Nested
<1>7. CASE UNCHANGED vars
  BY <1>7 DEF vars, loop, Nested
<1> QED BY <1>2, <1>3, <1>4, <1>5, <1>6, <1>7, NextCases

\* What keeps the terms of an order keeps them positive.
LEMMA SameTermsPositive ==
    ASSUME NEW o, NEW old, SameTerms(o, old), PositiveTerms(old)
    PROVE  PositiveTerms(o)
  BY DEF SameTerms, PositiveTerms

LEMMA PositiveStep == ASSUME Inv, Positive, [Next]_vars PROVE Positive'
<1>1. \A id \in DOMAIN orders : PositiveTerms(orders[id])
  BY DEF Positive
<1>2. Shrinks => \A id \in DOMAIN orders' : PositiveTerms(orders'[id])
  BY <1>1, SameTermsPositive DEF Shrinks
<1>3. CASE Call
  <2>1. Submitted => PositiveTerms(taker')
    <3>1. ASSUME NEW id \in Ids, NEW r \in Submissions, taker' = Construct(id, r)
          PROVE  PositiveTerms(taker')
      BY <3>1, SubmittedOrder DEF Construct, PositiveTerms
    <3>2. ASSUME NEW id \in DOMAIN orders, SameOrder(taker', orders[id]), taker'.price > 0
          PROVE  PositiveTerms(taker')
      BY <1>1, <3>2 DEF SameOrder, PositiveTerms
    <3> QED BY <3>1, <3>2 DEF Submitted
  <2> QED BY <1>2, <1>3, <2>1, CallEffect DEF Positive
<1>4. CASE FlightStep
  <2>1. taker # NoOrder /\ PositiveTerms(taker)
    BY <1>4, FlightEffect, InputAssumption DEF Positive
  <2>2. taker' # NoOrder => PositiveTerms(taker')
    BY <1>4, <2>1, FlightEffect
  <2>3. Rested(taker) => \A id \in DOMAIN orders' : PositiveTerms(orders'[id])
    BY <1>1, <2>1 DEF Rested
  <2> QED BY <1>2, <1>4, <2>2, <2>3, FlightEffect DEF Positive
<1>5. CASE InsertStopOrder
  <2>1. Rested(Entering(taker)) /\ taker' = NoOrder /\ taker \in OrderRecord /\ taker # NoOrder
    BY <1>5, InsertStopEffect DEF InsertStopOrder, Settled, Inv, Scalars
  <2>2. PositiveTerms(taker) /\ PositiveTerms(Entering(taker))
    BY <2>1 DEF Positive, PositiveTerms, Entering, calculateStopPrice, setStopPrice, OrderRecord
  <2> QED BY <1>1, <2>1, <2>2 DEF Rested, Positive
<1>6. CASE ActivateStopOrder
  <2>1. PICK id \in DOMAIN orders :
           /\ Removed(id)
           /\ MapOf(orders[id]) = ActivationLoop[pc]
           /\ taker' = Converted(orders[id])
    BY <1>6, ActivateEffect
  <2>2. ActivationLoop[pc][1] # "Limit"
    BY <1>6 DEF ActivateStopOrder, ActivationLoop
  <2>3. orders[id].type \in StopTypes \cup TrailingTypes
    BY <2>1, <2>2 DEF MapOf
  <2>4. /\ taker'.type = IF orders[id].type \in {"Stop", "TrailingStop"} THEN "Market" ELSE "Limit"
        /\ taker'.price = orders[id].price
    BY <2>1, OrderAt DEF Converted, OrderRecord
  <2>5. PositiveTerms(taker')
    BY <1>1, <2>3, <2>4 DEF PositiveTerms, LimitTypes, StopTypes, TrailingTypes
  <2> QED BY <1>2, <2>1, <2>5, ShrinkCases DEF Positive
<1>7. CASE MoveOrder
  <2>1. PICK id \in DOMAIN orders, o \in OrderRecord :
           Repriced(id, o) /\ o = calculateStopPrice(orders[id])
    BY <1>7, MoveEffect
  <2>2. PositiveTerms(o)
    BY <1>1, <2>1, OrderAt
    DEF calculateStopPrice, setStopPrice, OrderRecord, PositiveTerms
  <2>3. taker' = taker
    BY <1>7 DEF MoveOrder
  <2> QED BY <1>1, <2>1, <2>2, <2>3 DEF Repriced, Positive
<1>8. CASE RoundStep /\ ~MoveOrder
  BY <1>8, RoundEffect DEF Positive
<1>9. CASE UNCHANGED vars
  BY <1>9 DEF vars, book, Positive
<1> QED BY <1>3, <1>4, <1>5, <1>6, <1>7, <1>8, <1>9, NextCases

\* A limit order that rests can be traded with at a positive price only.
LEMMA LimitPricePositive ==
    ASSUME Inv, RestingOrdersLive, Positive, NEW id \in DOMAIN orders,
           MapOf(orders[id])[1] = "Limit"
    PROVE  orders[id].price > 0
<1>1. orders[id].type \in OrderType \ (StopTypes \cup TrailingTypes \cup {"Market"})
  <2>1. orders[id].type \notin StopTypes \cup TrailingTypes
    BY DEF MapOf
  <2> QED BY <2>1, OrderAt DEF OrderRecord, RestingOrdersLive
<1> QED BY <1>1 DEF OrderType, StopTypes, TrailingTypes, LimitTypes, Positive, PositiveTerms

\* A trailing bid rests in the trailing bid levels.
LEMMA TrailLevel ==
    ASSUME Inv, ~Moving, NEW id \in DOMAIN orders, NEW side, Trails(orders[id], side)
    PROVE  level_it[id] \in DOMAIN levels[<<"Trailing", side>>] /\ level_it[id] = orders[id].stop_price
<1>1. Static(orders, level_it, levels)
  BY DEF Inv, Shape
<1>2. MapOf(orders[id]) = <<"Trailing", side>> /\ KeyOf(orders[id]) = orders[id].stop_price
  BY DEF Trails, MapOf, KeyOf, TrailingTypes, StopTypes
<1> QED BY <1>1, <1>2 DEF Static, HoldsAt, Keyed

LEMMA NoneAtZeroStep ==
    ASSUME Inv, RestingOrdersLive, Nested, Positive, NoneAtZero, [Next]_vars
    PROVE  NoneAtZero'
<1> SUFFICES ASSUME last_traded_price' = 0 PROVE NoneAtZero'
  BY DEF NoneAtZero
<1> DEFINE None == \A id \in DOMAIN orders : ~Trails(orders[id], "Bid")
<1>1. Shrinks /\ None => None'
  BY DEF Shrinks, SameTerms, Trails
<1>2. last_traded_price = 0 /\ Position \notin {"activate", "bidStop", "bidTrailing"} => None
  BY DEF NoneAtZero
<1>3. CASE Call
  <2>1. pc = "idle" /\ ret = "activate" /\ ret' = ret /\ Shrinks
    BY <1>3, CallEffect DEF Nested
  <2>2. CASE pc' = "activate"
    BY <2>1, <2>2 DEF Position, NoneAtZero
  <2>3. CASE pc' = "add" /\ last_traded_price' = last_traded_price
    <3>1. None'
      BY <1>1, <1>2, <2>1, <2>3 DEF Position
    <3> QED BY <2>1, <2>3, <3>1 DEF Position, NoneAtZero
  <2> QED BY <1>3, <2>2, <2>3, CallEffect
<1>4. CASE FlightStep
  <2>1. last_traded_price' = last_traded_price /\ pc \in {"add", "match"} /\ trigger_price' = trigger_price
    <3>1. ASSUME NEW id \in DOMAIN orders, MapOf(orders[id])[1] = "Limit",
                 last_traded_price' = orders[id].price
          PROVE  FALSE
      BY <3>1, LimitPricePositive
    <3> QED BY <1>4, <3>1, FlightEffect DEF loop
  <2>2. Rested(taker) /\ taker.type = "Limit" /\ None => None'
    BY DEF Rested, Trails, TrailingTypes
  <2>3. None => None'
    BY <1>1, <1>4, <2>2, FlightEffect
  <2>4. CASE ret = "activate"
    <3>1. Position = pc /\ Position' \in {"add", "match", "activate"}
      BY <1>4, <2>4, FlightEffect DEF Position
    <3> QED BY <1>2, <2>1, <2>3, <3>1 DEF NoneAtZero
  <2>5. CASE ret # "activate"
    <3>1. Position = ret /\ Position' = ret
      BY <1>4, <2>5, FlightEffect DEF Position
    <3> QED BY <1>2, <2>1, <2>3, <3>1 DEF NoneAtZero
  <2> QED BY <2>4, <2>5
<1>5. CASE InsertStopOrder
  <2>1. taker.type \in StopTypes \cup TrailingTypes /\ pc = "add" /\ pc' = ret /\ ret' = "activate"
    BY <1>5 DEF InsertStopOrder, Settled
  <2>2. ret = "activate"
    BY <2>1 DEF Nested, StopTypes, TrailingTypes
  <2> QED BY <2>1, <2>2 DEF Position, NoneAtZero
<1>6. CASE ActivateStopOrder
  <2>1. /\ pc \in ActivationPCs /\ ret' = pc
        /\ last_traded_price' = last_traded_price /\ trigger_price' = trigger_price
    BY <1>6 DEF ActivateStopOrder, ActivationLoop, ActivationPCs, prices
  <2>2. Position = pc /\ Position' = pc
    BY <2>1 DEF Nested, Position, ActivationPCs
  <2>3. Shrinks
    BY <1>6, ActivateEffect, ShrinkCases
  <2> QED BY <1>1, <1>2, <2>1, <2>2, <2>3 DEF NoneAtZero
<1>7. CASE RoundStep
  <2>1. /\ ret = "activate" /\ ret' = "activate" /\ last_traded_price = 0
        /\ pc \in {"activate", "endRound"} \cup ActivationPCs \cup UpdatePCs
    BY <1>7, RoundEffect DEF Nested, ActivationPCs, UpdatePCs
  <2>2. Position = pc /\ Position' = pc'
    BY <2>1 DEF Position
  <2>3. pc \in {"bidStop", "bidTrailing"} => trigger_price = UINT64_MAX
    BY <2>1, <2>2 DEF NoneAtZero
  <2>4. CASE BeginRound
    BY <2>1, <2>2, <2>4 DEF BeginRound, lastTradedPriceAsk, NoneAtZero
  <2>5. CASE LoopDone /\ pc = "bidStop"
    <3>1. pc' = "bidTrailing" /\ trigger_price' = UINT64_MAX
      BY <2>1, <2>5 DEF LoopDone, AfterLoop, lastTradedPriceAsk
    <3> QED BY <2>2, <3>1 DEF NoneAtZero
  <2>6. CASE LoopDone /\ pc = "bidTrailing"
    <3>1. pc' = "updateAsk" /\ orders' = orders /\ ReachedLevels = {}
      BY <2>6 DEF LoopDone, AfterLoop, book
    <3>2. ~Moving /\ IsMap(levels[<<"Trailing", "Bid">>], UInt64, LevelRecord)
      <4>1. Typed(orders, level_it, levels)
        BY DEF Inv, Shape, Static, Mid
      <4> QED BY <2>6, <4>1 DEF Moving, Typed, Maps, OrderSide
    <3>3. \A p \in DOMAIN levels[<<"Trailing", "Bid">>] : p <= UINT64_MAX
      BY <3>2, WidthAssumption DEF IsMap, UInt64
    <3>4. DOMAIN levels[<<"Trailing", "Bid">>] = {}
      BY <2>3, <2>6, <3>1, <3>3, WidthAssumption DEF ReachedLevels, ActivationLoop, Reached
    <3>5. None
      BY <3>2, <3>4, TrailLevel
    <3> QED BY <2>2, <3>1, <3>5 DEF NoneAtZero
  <2>7. CASE MoveOrder
    <3>1. PICK id \in DOMAIN orders, o \in OrderRecord :
             Repriced(id, o) /\ o = calculateStopPrice(orders[id])
      BY <2>7, MoveEffect
    <3>2. o.type = orders[id].type /\ o.side = orders[id].side
      BY <3>1, OrderAt DEF calculateStopPrice, setStopPrice, OrderRecord
    <3>3. pc \in {"moveAsk", "moveBid"} /\ pc' = pc
      BY <2>7 DEF MoveOrder
    <3>4. None
      BY <1>2, <2>1, <2>2, <3>3
    <3>5. None'
      BY <3>1, <3>2, <3>4 DEF Repriced, Trails
    <3> QED BY <2>2, <3>3, <3>5 DEF NoneAtZero
  <2>8. CASE \/ LoopDone /\ pc \in {"askStop", "askTrailing"}
             \/ SkipUpdate \/ BeginUpdate \/ SwapLevels \/ EndRound
    <3>1. pc \notin {"activate", "bidStop", "bidTrailing"} /\ pc' \notin {"bidStop", "bidTrailing"}
      BY <2>8 DEF LoopDone, AfterLoop, SkipUpdate, UpdateDone, BeginUpdate, SwapLevels, EndRound
    <3>2. orders' = orders
      BY <2>8 DEF LoopDone, SkipUpdate, BeginUpdate, SwapLevels, EndRound, book
    <3> QED BY <1>2, <2>1, <2>2, <3>1, <3>2 DEF NoneAtZero
  <2> QED BY <1>7, <2>4, <2>5, <2>6, <2>7, <2>8 DEF RoundStep, LoopDone, ActivationLoop
<1>8. CASE UNCHANGED vars
  BY <1>8 DEF vars, book, prices, loop, Position, NoneAtZero
<1> QED BY <1>3, <1>4, <1>5, <1>6, <1>7, <1>8, NextCases

\* A loop that activated nothing keeps the price it captured; one that did is in a round
\* that says so.
LEMMA CapturedStep == ASSUME Inv, Nested, Captured, [Next]_vars PROVE Captured'
<1> SUFFICES ASSUME ~activated' PROVE Captured'
  BY DEF Captured
<1>1. CASE Call
  BY <1>1, CallEffect DEF Captured
<1>2. CASE FlightStep
  BY <1>2, FlightEffect DEF Nested, Captured, loop
<1>3. CASE InsertStopOrder
  BY <1>3 DEF InsertStopOrder, Settled, Nested, StopTypes, TrailingTypes, Captured
<1>4. CASE ActivateStopOrder
  BY <1>4 DEF ActivateStopOrder
<1>5. CASE RoundStep
  <2>1. /\ lastTradedPriceAsk' = lastTradedPriceAsk
        /\ lastTradedPriceBid' = lastTradedPriceBid
    BY <1>5, RoundEffect DEF lastTradedPriceAsk, lastTradedPriceBid
  <2>2. CASE BeginRound
    BY <2>1, <2>2 DEF BeginRound, Captured
  <2>3. CASE LoopDone
    <3>1. pc \in ActivationPCs /\ pc' = AfterLoop[pc]
      BY <2>3 DEF LoopDone, ActivationLoop, ActivationPCs
    <3> QED BY <2>1, <2>3, <3>1 DEF LoopDone, AfterLoop, ActivationPCs, Captured
  <2>4. CASE SkipUpdate \/ SwapLevels
    BY <2>1, <2>4 DEF SkipUpdate, SwapLevels, UpdateDone, Captured
  <2>5. CASE BeginUpdate \/ MoveOrder \/ EndRound
    BY <2>5 DEF BeginUpdate, MoveOrder, EndRound, Captured
  <2> QED BY <1>5, <2>2, <2>3, <2>4, <2>5 DEF RoundStep
<1>6. CASE UNCHANGED vars
  BY <1>6 DEF vars, prices, loop, lastTradedPriceAsk, lastTradedPriceBid, Captured
<1> QED BY <1>1, <1>2, <1>3, <1>4, <1>5, <1>6, NextCases

\* The references follow the last traded price round by round.
LEMMA ReferencesStep == ASSUME Inv, Nested, References, [Next]_vars PROVE References'
<1>1. CASE Call
  BY <1>1, CallEffect DEF References
<1>2. CASE FlightStep
  <2>1. /\ UNCHANGED <<trailing_bid_price, trailing_ask_price, activated>>
        /\ \/ pc' = ret
           \/ pc' \in {"add", "match"} /\ taker'.type \in {"Limit", "Market"}
    BY <1>2, FlightEffect DEF loop
  <2>2. ret \in {"activate"} \cup ActivationPCs /\ (ret # "activate" => activated)
    BY DEF Inv, Scalars, Nested
  <2> QED BY <2>1, <2>2 DEF References, TrailingTypes, ActivationPCs
<1>3. CASE InsertStopOrder
  BY <1>3 DEF InsertStopOrder, Settled, Nested, StopTypes, TrailingTypes, References
<1>4. CASE ActivateStopOrder
  <2>1. PICK id \in DOMAIN orders : taker' = Converted(orders[id])
    BY <1>4, ActivateEffect
  <2>2. taker'.type \in {"Limit", "Market"}
    BY <2>1, OrderAt DEF Converted, OrderRecord
  <2> QED BY <1>4, <2>2 DEF ActivateStopOrder, Submit, References, TrailingTypes
<1>5. CASE RoundStep
  <2>1. last_traded_price' = last_traded_price /\ pc' \notin {"add", "match"}
    BY <1>5, RoundEffect DEF ActivationPCs, UpdatePCs
  <2>2. CASE BeginRound
    BY <2>2 DEF BeginRound, References
  <2>3. CASE LoopDone
    <3>1. pc \in ActivationPCs /\ pc' = AfterLoop[pc]
      BY <2>3 DEF LoopDone, ActivationLoop, ActivationPCs
    <3> QED BY <2>1, <2>3, <3>1 DEF LoopDone, AfterLoop, ActivationPCs, prices, References
  <2>4. CASE SkipUpdate \/ SwapLevels
    <3>1. /\ activated' = activated
          /\ pc \in {"updateAsk", "moveAsk", "updateBid", "moveBid"}
      BY <2>4 DEF SkipUpdate, SwapLevels
    <3>2. UpdateDone
      BY <2>4 DEF SkipUpdate, SwapLevels
    <3> QED BY <2>1, <3>1, <3>2 DEF UpdateDone, References
  <2>5. CASE BeginUpdate
    <3>1. pc \in {"updateAsk", "updateBid"} /\ ~NoUpdate /\ UNCHANGED <<prices, activated>>
          /\ pc' = IF pc = "updateAsk" THEN "moveAsk" ELSE "moveBid"
      BY <2>5 DEF BeginUpdate, loop
    <3>2. /\ last_traded_price \in UInt64 /\ trailing_bid_price \in UInt64
          /\ trailing_ask_price \in UInt64 /\ UINT64_MAX \in Nat
      BY WidthAssumption DEF Inv, Scalars
    <3>3. pc = "updateAsk" => trailing_bid_price < last_traded_price
      BY <3>1, <3>2 DEF NoUpdate, lastTradedPriceBid, UInt64
    <3>4. pc = "updateBid" => last_traded_price > 0 /\ last_traded_price < trailing_ask_price
      BY <3>1, <3>2 DEF NoUpdate, lastTradedPriceAsk, UInt64
    <3> QED BY <3>1, <3>3, <3>4 DEF prices, References
  <2>6. CASE MoveOrder
    <3>1. pc \in {"moveAsk", "moveBid"} /\ pc' = pc
          /\ UNCHANGED <<last_traded_price, trailing_bid_price, trailing_ask_price, activated>>
      BY <2>6 DEF MoveOrder, prices
    <3> QED BY <3>1 DEF References
  <2>7. CASE EndRound
    <3>1. pc = "endRound" /\ UNCHANGED prices
          /\ (pc' = "activate" \/ (pc' \in {"activate", "idle"} /\ ~activated))
      BY <2>7 DEF EndRound
    <3> QED BY <3>1 DEF prices, References
  <2> QED BY <1>5, <2>2, <2>3, <2>4, <2>5, <2>6, <2>7 DEF RoundStep
<1>6. CASE UNCHANGED vars
  BY <1>6 DEF vars, prices, loop, References
<1> QED BY <1>1, <1>2, <1>3, <1>4, <1>5, <1>6, NextCases

\* The stop price a trailing order is given: within the trail amount of the last traded
\* price, and beyond it, but for the highest price, where there is no beyond.
LEMMA CalculatedPrice ==
    ASSUME Inv, NEW o \in OrderRecord
    PROVE  LET s == calculateStopPrice(o)
           IN  /\ s \in OrderRecord /\ s.id = o.id /\ s.type = o.type /\ s.side = o.side
               /\ s.trail_amount = o.trail_amount
               /\ o.side = "Ask" => s.stop_price + o.trail_amount >= last_traded_price
               /\ o.side = "Bid" /\ last_traded_price > 0 =>
                    /\ s.stop_price <= last_traded_price + o.trail_amount
                    /\ (o.trail_amount > 0 /\ last_traded_price < UINT64_MAX =>
                            s.stop_price > last_traded_price)
<1> DEFINE s == calculateStopPrice(o)
<1>1. /\ last_traded_price \in UInt64 /\ o.trail_amount \in UInt64 /\ UINT64_MAX \in Nat
      /\ o.side \in OrderSide
  BY WidthAssumption DEF Inv, Scalars, OrderRecord
<1>2. s \in OrderRecord /\ s.id = o.id /\ s.type = o.type
  BY <1>1, PriceType
<1>3. s.side = o.side /\ s.trail_amount = o.trail_amount
  BY DEF calculateStopPrice, setStopPrice, OrderRecord
<1>4. o.side = "Ask" =>
        s.stop_price = IF last_traded_price > o.trail_amount
                       THEN last_traded_price - o.trail_amount ELSE 0
  BY DEF calculateStopPrice, setStopPrice, OrderRecord, MarketPrice, lastTradedPriceBid
<1>5. o.side = "Bid" /\ last_traded_price > 0 =>
        s.stop_price = IF last_traded_price < UINT64_MAX - o.trail_amount
                       THEN last_traded_price + o.trail_amount ELSE UINT64_MAX
  BY DEF calculateStopPrice, setStopPrice, OrderRecord, MarketPrice, lastTradedPriceAsk
<1> HIDE DEF s
<1>6. o.side = "Ask" => s.stop_price + o.trail_amount >= last_traded_price
  BY <1>1, <1>4 DEF UInt64
<1>7. o.side = "Bid" /\ last_traded_price > 0 =>
        /\ s.stop_price <= last_traded_price + o.trail_amount
        /\ (o.trail_amount > 0 /\ last_traded_price < UINT64_MAX =>
                s.stop_price > last_traded_price)
  BY <1>1, <1>5 DEF UInt64
<1> QED BY <1>2, <1>3, <1>6, <1>7 DEF s

\* What an insertion at the back of a level adds to a map of levels.
LEMMA EnqueueElements ==
    ASSUME NEW map, IsMap(map, UInt64, LevelRecord), NEW p, NEW o \in OrderRecord
    PROVE  /\ DOMAIN Enqueue(map, p, o) = DOMAIN map \cup {p}
           /\ \A q \in DOMAIN Enqueue(map, p, o) : \A id \in LevelIds(Enqueue(map, p, o)[q]) :
                \/ q = p /\ id = o.id
                \/ q \in DOMAIN map /\ id \in LevelIds(map[q])
<1> DEFINE old == IF p \in DOMAIN map THEN map[p] ELSE NewLevel
           new == Enqueue(map, p, o)
<1>1. old.orders \in Seq(Ids)
  BY DEF IsMap, LevelRecord, NewLevel
<1>2. /\ DOMAIN new = DOMAIN map \cup {p}
      /\ new[p].orders = Append(old.orders, o.id)
      /\ \A q \in DOMAIN map : q # p => new[q] = map[q]
  BY DEF Enqueue, Put, addOrder
<1>3. p \notin DOMAIN map => LevelIds(old) = {}
  BY EmptyQueue DEF LevelIds, NewLevel
<1> HIDE DEF new
<1>4. ASSUME NEW id \in LevelIds(new[p])
      PROVE  id = o.id \/ (p \in DOMAIN map /\ id \in LevelIds(map[p]))
  <2> DEFINE s == old.orders
  <2>1. PICK i \in DOMAIN Append(s, o.id) : Append(s, o.id)[i] = id
    BY <1>2, <1>4 DEF LevelIds, ToSet
  <2>2. i = Len(s) + 1 => id = o.id
    BY <1>1, <2>1
  <2>3. i # Len(s) + 1 => i \in DOMAIN s /\ s[i] = id
    BY <1>1, <2>1
  <2>4. id = o.id \/ id \in LevelIds(old)
    BY <2>2, <2>3 DEF LevelIds, ToSet
  <2> QED BY <1>3, <2>4
<1> QED BY <1>2, <1>4 DEF new

\* A trailing stop enters and moves within its trail amount of its reference, and a
\* reference follows the market only when no stop is left behind.
WithinTerms(o) ==
    /\ Trails(o, "Ask") => o.stop_price + o.trail_amount >= trailing_bid_price
    /\ Trails(o, "Bid") => o.stop_price <= trailing_ask_price + o.trail_amount

LEMMA WithinStep ==
    ASSUME Inv, Nested, NoneAtZero, References, Within, MovedWithin, [Next]_vars
    PROVE  Within'
<1>1. \A id \in DOMAIN orders : WithinTerms(orders[id])
  BY DEF Within, WithinTerms
<1>2. /\ Shrinks /\ UNCHANGED <<trailing_bid_price, trailing_ask_price>> => Within'
  BY <1>1 DEF Shrinks, SameTerms, WithinTerms, Trails, Within
<1>3. /\ last_traded_price \in UInt64 /\ trailing_bid_price \in UInt64
      /\ trailing_ask_price \in UInt64 /\ UINT64_MAX \in Nat
  BY WidthAssumption DEF Inv, Scalars
<1>4. CASE Call
  BY <1>2, <1>4, CallEffect
<1>5. CASE FlightStep
  <2>1. Rested(taker) /\ taker.type = "Limit"
        /\ UNCHANGED <<trailing_bid_price, trailing_ask_price>> => Within'
    BY <1>1 DEF Rested, WithinTerms, Trails, TrailingTypes, Within
  <2> QED BY <1>2, <1>5, <2>1, FlightEffect
<1>6. CASE InsertStopOrder
  <2> DEFINE o == Entering(taker)
  <2>1. /\ pc = "add" /\ taker \in OrderRecord /\ Rested(o) /\ ~EntersReached(taker)
        /\ UNCHANGED <<last_traded_price, trailing_bid_price, trailing_ask_price>>
    BY <1>6, InsertStopEffect DEF InsertStopOrder, prices, Inv, Scalars
  <2>2. o.side = taker.side /\ o.type = taker.type
    BY <2>1 DEF Entering, calculateStopPrice, setStopPrice, OrderRecord
  <2>3. ASSUME Trails(o, "Ask") PROVE o.stop_price + o.trail_amount >= trailing_bid_price
    <3>1. taker.type \in TrailingTypes /\ taker.side = "Ask"
      BY <2>2, <2>3 DEF Trails
    <3>2. trailing_bid_price = last_traded_price
      BY <2>1, <3>1 DEF References
    <3> QED BY <2>1, <3>1, <3>2, CalculatedPrice DEF Entering
  <2>4. ASSUME Trails(o, "Bid") PROVE o.stop_price <= trailing_ask_price + o.trail_amount
    <3>1. taker.type \in TrailingTypes /\ taker.side = "Bid" /\ o = calculateStopPrice(taker)
      BY <2>2, <2>4 DEF Trails, Entering
    <3>2. last_traded_price > 0
      <4>1. SUFFICES ASSUME last_traded_price = 0 PROVE FALSE
        BY <1>3 DEF UInt64
      <4>2. taker.trail_amount \in UInt64
        BY <2>1 DEF OrderRecord
      <4>3. o.stop_price = UINT64_MAX
        BY <1>3, <2>1, <3>1, <4>1, <4>2
        DEF calculateStopPrice, setStopPrice, OrderRecord, MarketPrice, lastTradedPriceAsk, UInt64
      <4> QED BY <1>3, <2>1, <3>1, <4>1, <4>3
              DEF EntersReached, Reached, MarketPrice, lastTradedPriceAsk
    <3>3. trailing_ask_price = last_traded_price
      BY <1>3, <2>1, <3>1, <3>2 DEF References, UInt64
    <3> QED BY <2>1, <3>1, <3>2, <3>3, CalculatedPrice
  <2> HIDE DEF o
  <2>5. WithinTerms(o)
    BY <2>3, <2>4 DEF WithinTerms
  <2> QED BY <1>1, <2>1, <2>5 DEF Rested, WithinTerms, Trails, Within
<1>7. CASE ActivateStopOrder
  BY <1>2, <1>7, ActivateEffect, ShrinkCases DEF ActivateStopOrder, prices
<1>8. CASE MoveOrder
  <2>1. PICK id \in DOMAIN orders, o \in OrderRecord :
           /\ Repriced(id, o)
           /\ MapOf(orders[id]) = UpdatedMap[pc]
           /\ o = calculateStopPrice(orders[id])
    BY <1>8, MoveEffect
  <2>2. /\ pc \in {"moveAsk", "moveBid"}
        /\ UNCHANGED <<trailing_bid_price, trailing_ask_price>>
    BY <1>8 DEF MoveOrder, prices
  <2>3. orders[id].side = IF pc = "moveAsk" THEN "Ask" ELSE "Bid"
    BY <2>1, <2>2 DEF MapOf, UpdatedMap
  <2>4. orders[id] \in OrderRecord /\ o.side = orders[id].side /\ o.trail_amount = orders[id].trail_amount
    BY <2>1, OrderAt, CalculatedPrice
  <2>5. o.stop_price \in UInt64 /\ o.trail_amount \in UInt64
    BY DEF OrderRecord
  <2>6. WithinTerms(o)
    <3>1. CASE pc = "moveAsk"
      <4>1. trailing_bid_price < last_traded_price
        BY <3>1 DEF References
      <4>2. o.stop_price + o.trail_amount >= last_traded_price
        BY <2>1, <2>3, <2>4, <3>1, CalculatedPrice
      <4> QED BY <1>3, <2>3, <2>4, <2>5, <3>1, <4>1, <4>2 DEF WithinTerms, Trails, UInt64
    <3>2. CASE pc = "moveBid"
      <4>1. last_traded_price > 0 /\ last_traded_price < trailing_ask_price
        BY <3>2 DEF References
      <4>2. o.stop_price <= last_traded_price + o.trail_amount
        BY <2>1, <2>3, <2>4, <3>2, <4>1, CalculatedPrice
      <4> QED BY <1>3, <2>3, <2>4, <2>5, <3>2, <4>1, <4>2 DEF WithinTerms, Trails, UInt64
    <3> QED BY <2>2, <3>1, <3>2
  <2> QED BY <1>1, <2>1, <2>2, <2>6 DEF Repriced, WithinTerms, Trails, Within
<1>9. CASE SkipUpdate \/ SwapLevels
  <2>1. /\ orders' = orders /\ level_it' = level_it /\ UpdateDone
        /\ pc \in {"updateAsk", "moveAsk", "updateBid", "moveBid"}
    BY <1>9 DEF SkipUpdate, SwapLevels, book
  <2> DEFINE side == IF pc \in {"updateAsk", "moveAsk"} THEN "Ask" ELSE "Bid"
  <2>2. /\ side = "Ask" => /\ trailing_bid_price' = last_traded_price
                           /\ trailing_ask_price' = trailing_ask_price
        /\ side = "Bid" => /\ trailing_bid_price' = trailing_bid_price
                           /\ trailing_ask_price' = last_traded_price
    BY <2>1 DEF UpdateDone
  <2>3. ASSUME NEW id \in DOMAIN orders, Trails(orders[id], side)
        PROVE  IF side = "Ask"
               THEN orders[id].stop_price + orders[id].trail_amount >= last_traded_price
               ELSE orders[id].stop_price <= last_traded_price + orders[id].trail_amount
    <3>1. orders[id].stop_price \in UInt64 /\ orders[id].trail_amount \in UInt64
      BY OrderAt DEF OrderRecord
    <3>2. CASE SkipUpdate
      <4>1. pc \in {"updateAsk", "updateBid"} /\ NoUpdate /\ ~Moving
        BY <3>2 DEF SkipUpdate, Moving
      <4>2. UpdatedMap[pc] = <<"Trailing", side>>
        BY <4>1 DEF UpdatedMap
      <4>3. DOMAIN levels[UpdatedMap[pc]] # {}
        BY <2>3, <4>1, <4>2, TrailLevel
      <4>4. CASE pc = "updateAsk"
        <5>1. trailing_bid_price >= last_traded_price
          BY <4>1, <4>3, <4>4 DEF NoUpdate, lastTradedPriceBid
        <5> QED BY <1>1, <1>3, <2>3, <3>1, <4>4, <5>1 DEF WithinTerms, UInt64
      <4>5. CASE pc = "updateBid"
        <5>1. trailing_ask_price <= lastTradedPriceAsk
          BY <4>1, <4>3, <4>5 DEF NoUpdate
        <5>2. last_traded_price # 0
          BY <2>3, <4>5 DEF Nested, Position, NoneAtZero
        <5> QED BY <1>1, <1>3, <2>3, <3>1, <4>5, <5>1, <5>2
                DEF WithinTerms, lastTradedPriceAsk, UInt64
      <4> QED BY <4>1, <4>4, <4>5
    <3>3. CASE SwapLevels
      <4> DEFINE m == UpdatedMap[pc]
      <4>1. /\ pc \in {"moveAsk", "moveBid"} /\ Moving
            /\ \A q \in DOMAIN levels[m] : empty(levels[m][q])
        BY <3>3 DEF SwapLevels, Moving
      <4>2. Mid(orders, level_it, levels, new_trailing_levels, m) /\ m = <<"Trailing", side>>
        BY <4>1 DEF Inv, Shape, UpdatedMap
      <4>3. MapOf(orders[id]) = m
        BY <2>3, <4>2 DEF Trails, MapOf, TrailingTypes, StopTypes
      <4>4. ~HoldsAt(levels[m], level_it[id], id)
        BY <4>1, EmptyQueue DEF HoldsAt, LevelIds, empty
      <4>5. HoldsAt(new_trailing_levels, level_it[id], id)
        BY <4>2, <4>3, <4>4 DEF Mid
      <4> QED BY <4>1, <4>5 DEF HoldsAt, MovedWithin
    <3> QED BY <1>9, <3>2, <3>3
  <2>4. side \in {"Ask", "Bid"}
    OBVIOUS
  <2> HIDE DEF side
  <2> QED BY <1>1, <2>1, <2>2, <2>3, <2>4 DEF WithinTerms, Trails, Within
<1>10. CASE BeginRound \/ LoopDone \/ BeginUpdate \/ EndRound
  BY <1>2, <1>10, ShrinkCases DEF BeginRound, LoopDone, BeginUpdate, EndRound, book, prices
<1>11. CASE UNCHANGED vars
  BY <1>2, <1>11, ShrinkCases DEF vars, book, prices
<1> QED
  BY <1>4, <1>5, <1>6, <1>7, <1>8, <1>9, <1>10, <1>11, NextCases DEF RoundStep

\* A rebuild puts every order it moves there too.
LEMMA MovedWithinStep ==
    ASSUME Inv, Positive, References, MovedWithin, [Next]_vars
    PROVE  MovedWithin'
<1>1. CASE pc' \notin {"moveAsk", "moveBid"}
  BY <1>1 DEF MovedWithin
<1>2. CASE BeginUpdate
  <2>1. new_trailing_levels' = EmptyMap
    BY <1>2, Outside DEF BeginUpdate, loop
  <2> QED BY <2>1 DEF EmptyMap, MovedWithin
<1>3. CASE MoveOrder
  <2>1. PICK id \in DOMAIN orders, o \in OrderRecord :
           /\ Repriced(id, o)
           /\ MapOf(orders[id]) = UpdatedMap[pc]
           /\ o = calculateStopPrice(orders[id])
           /\ new_trailing_levels' = Enqueue(new_trailing_levels, o.stop_price, o)
    BY <1>3, MoveEffect
  <2>2. pc \in {"moveAsk", "moveBid"} /\ pc' = pc /\ last_traded_price' = last_traded_price
    BY <1>3 DEF MoveOrder, prices
  <2>3. /\ orders[id].side = IF pc = "moveAsk" THEN "Ask" ELSE "Bid"
        /\ orders[id].type \in TrailingTypes
    BY <2>1, <2>2 DEF MapOf, UpdatedMap
  <2>4. /\ orders[id] \in OrderRecord /\ o.trail_amount = orders[id].trail_amount
        /\ orders[id].trail_amount > 0
    BY <2>1, <2>3, OrderAt, CalculatedPrice DEF Positive, PositiveTerms
  <2>5. pc = "moveAsk" => o.stop_price + o.trail_amount >= last_traded_price
    BY <2>1, <2>3, <2>4, CalculatedPrice
  <2>6. pc = "moveBid" => /\ o.stop_price <= last_traded_price + o.trail_amount
                          /\ o.stop_price > last_traded_price
    <3>1. SUFFICES ASSUME pc = "moveBid"
                   PROVE  /\ o.stop_price <= last_traded_price + o.trail_amount
                          /\ o.stop_price > last_traded_price
      OBVIOUS
    <3>2. last_traded_price > 0 /\ last_traded_price < trailing_ask_price
      BY <3>1 DEF References
    <3>3. last_traded_price < UINT64_MAX
      BY <3>2, WidthAssumption DEF Inv, Scalars, UInt64
    <3> QED BY <2>1, <2>3, <2>4, <3>1, <3>2, <3>3, CalculatedPrice
  <2>7. Mid(orders, level_it, levels, new_trailing_levels, UpdatedMap[pc])
    BY <2>2 DEF Inv, Shape, Moving
  <2>8. IsMap(new_trailing_levels, UInt64, LevelRecord) /\ o.id = id
    BY <2>1, <2>7 DEF Mid, Repriced
  <2>9. \A q \in DOMAIN new_trailing_levels : \A i \in LevelIds(new_trailing_levels[q]) :
            i \in DOMAIN orders
    BY <2>7 DEF Mid, Fits
  <2>10. ASSUME NEW q \in DOMAIN new_trailing_levels'
         PROVE  /\ pc = "moveBid" => q > last_traded_price
                /\ \A i \in LevelIds(new_trailing_levels'[q]) :
                    /\ pc = "moveAsk" =>
                         orders'[i].stop_price + orders'[i].trail_amount >= last_traded_price
                    /\ pc = "moveBid" =>
                         orders'[i].stop_price <= last_traded_price + orders'[i].trail_amount
    <3>1. q \in DOMAIN new_trailing_levels \/ q = o.stop_price
      <4> DEFINE map == Enqueue(new_trailing_levels, o.stop_price, o)
      <4>1. DOMAIN map = DOMAIN new_trailing_levels \cup {o.stop_price}
        BY <2>8, EnqueueElements
      <4> HIDE DEF map
      <4>2. new_trailing_levels' = map
        BY <2>1 DEF map
      <4> QED BY <4>1, <4>2
    <3>2. pc = "moveBid" => q > last_traded_price
      BY <2>6, <3>1 DEF MovedWithin
    <3>3. ASSUME NEW i \in LevelIds(new_trailing_levels'[q])
          PROVE  /\ pc = "moveAsk" =>
                      orders'[i].stop_price + orders'[i].trail_amount >= last_traded_price
                 /\ pc = "moveBid" =>
                      orders'[i].stop_price <= last_traded_price + orders'[i].trail_amount
      <4>1. i = id \/ (q \in DOMAIN new_trailing_levels /\ i \in LevelIds(new_trailing_levels[q]))
        BY <2>1, <2>8, EnqueueElements
      <4>2. CASE i = id
        BY <2>1, <2>5, <2>6, <4>2 DEF Repriced
      <4>3. CASE i # id
        <5>1. q \in DOMAIN new_trailing_levels /\ i \in LevelIds(new_trailing_levels[q])
          BY <4>1, <4>3
        <5>2. i \in DOMAIN orders /\ orders'[i] = orders[i]
          BY <2>1, <2>9, <4>3, <5>1 DEF Repriced
        <5> QED BY <5>1, <5>2 DEF MovedWithin
      <4> QED BY <4>2, <4>3
    <3> QED BY <3>2, <3>3
  <2> QED BY <2>2, <2>10 DEF MovedWithin, LevelIds
<1>4. CASE UNCHANGED vars
  BY <1>4 DEF vars, book, prices, loop, MovedWithin, LevelIds
<1>5. CASE ~MoveOrder /\ ~BeginUpdate /\ ~UNCHANGED vars
  <2>1. CASE Call
    BY <1>1, <2>1, CallEffect
  <2>2. CASE FlightStep
    BY <1>1, <2>2, FlightEffect DEF Inv, Scalars, ActivationPCs
  <2>3. CASE InsertStopOrder \/ ActivateStopOrder
    BY <1>1, <2>3
    DEF InsertStopOrder, Settled, ActivateStopOrder, Submit, Inv, Scalars, ActivationPCs
  <2>4. CASE RoundStep
    BY <1>1, <1>5, <2>4
    DEF RoundStep, BeginRound, LoopDone, ActivationLoop, AfterLoop, SkipUpdate, UpdateDone,
        SwapLevels, EndRound
  <2> QED BY <1>5, <2>1, <2>2, <2>3, <2>4, NextCases
<1> QED BY <1>2, <1>3, <1>4, <1>5

\* What a loop leaves waiting stays out of reach for the rest of a round that activates
\* nothing, and for the trailing bids the next update begins with a market below them.
LEMMA WaitingStep ==
    ASSUME Inv, Nested, Captured, MovedWithin, Waiting, [Next]_vars
    PROVE  Waiting'
<1>1. CASE pc' # "idle" /\ (activated' \/ pc' \notin AfterBidStop)
  BY <1>1 DEF Waiting, LeftWaiting, AfterBidStop, AfterBidTrailing, AfterAskStop, AfterAskTrailing
<1>2. CASE Call
  BY <1>1, <1>2, CallEffect DEF AfterBidStop, AfterBidTrailing, AfterAskStop, AfterAskTrailing
<1>3. CASE FlightStep
  <2>1. pc' \in {"add", "match", "activate"} \/ (pc' = ret /\ activated' /\ pc' # "idle")
    BY <1>3, FlightEffect DEF Nested, loop, Inv, Scalars, ActivationPCs
  <2> QED BY <1>1, <2>1 DEF AfterBidStop, AfterBidTrailing, AfterAskStop, AfterAskTrailing
<1>4. CASE InsertStopOrder
  <2>1. pc' = "activate"
    BY <1>4 DEF InsertStopOrder, Settled, Nested, StopTypes, TrailingTypes
  <2> QED BY <1>1, <2>1 DEF AfterBidStop, AfterBidTrailing, AfterAskStop, AfterAskTrailing
<1>5. CASE ActivateStopOrder
  BY <1>1, <1>5 DEF ActivateStopOrder, Submit
<1>6. CASE BeginRound
  BY <1>1, <1>6 DEF BeginRound, AfterBidStop, AfterBidTrailing, AfterAskStop, AfterAskTrailing
<1>7. CASE LoopDone
  <2>1. /\ pc \in {"bidStop", "bidTrailing", "askStop", "askTrailing"} /\ pc' = AfterLoop[pc]
        /\ levels' = levels /\ last_traded_price' = last_traded_price /\ activated' = activated
        /\ ReachedLevels = {}
    BY <1>7 DEF LoopDone, ActivationLoop, book, prices
  <2>2. CASE ~activated
    <3>1. \A m \in Maps : IsMap(levels[m], UInt64, LevelRecord)
      BY DEF Inv, Shape, Static, Mid, Typed
    <3>2. ActivationLoop[pc] \in Maps
      BY <2>1 DEF ActivationLoop, Maps, OrderSide
    <3>3. /\ DOMAIN levels[ActivationLoop[pc]] \subseteq UInt64
          /\ last_traded_price \in UInt64 /\ UINT64_MAX \in Nat
      BY <3>1, <3>2, WidthAssumption DEF IsMap, Inv, Scalars
    <3>4. trigger_price = IF pc \in {"bidStop", "bidTrailing"}
                          THEN lastTradedPriceAsk ELSE last_traded_price
      BY <2>1, <2>2 DEF Captured, lastTradedPriceBid
    <3>5. ActivationLoop[pc][2] = IF pc \in {"bidStop", "bidTrailing"} THEN "Bid" ELSE "Ask"
      BY <2>1 DEF ActivationLoop
    <3>6. ASSUME NEW p \in DOMAIN levels[ActivationLoop[pc]]
          PROVE  IF ActivationLoop[pc][2] = "Ask" THEN p < last_traded_price
                 ELSE p > last_traded_price
      <4>1. ~Reached(ActivationLoop[pc][2], p, trigger_price) /\ p \in UInt64
        BY <2>1, <3>3 DEF ReachedLevels
      <4>2. CASE pc \in {"bidStop", "bidTrailing"}
        BY <3>3, <3>4, <3>5, <4>1, <4>2 DEF Reached, lastTradedPriceAsk, UInt64
      <4>3. CASE pc \notin {"bidStop", "bidTrailing"}
        BY <3>3, <3>4, <3>5, <4>1, <4>3 DEF Reached, UInt64
      <4> QED BY <4>2, <4>3
    <3>7. Unreached(ActivationLoop[pc])
      BY <3>6 DEF Unreached
    <3>8. \A m : Unreached(m) => Unreached(m)'
      BY <2>1 DEF Unreached
    <3> QED BY <2>1, <2>2, <3>7, <3>8
            DEF Waiting, LeftWaiting, AfterLoop, ActivationLoop, AfterBidStop, AfterBidTrailing,
                AfterAskStop, AfterAskTrailing
  <2>3. CASE activated
    <3>1. pc' # "idle"
      BY <2>1 DEF AfterLoop
    <3> QED BY <1>1, <2>1, <2>3, <3>1
  <2> QED BY <2>2, <2>3
<1>8. CASE SkipUpdate \/ BeginUpdate
  <2>1. /\ levels' = levels /\ last_traded_price' = last_traded_price /\ activated' = activated
        /\ \/ pc = "updateAsk" /\ pc' \in {"moveAsk", "askStop"}
           \/ pc = "updateBid" /\ pc' \in {"moveBid", "endRound"}
    BY <1>8 DEF SkipUpdate, UpdateDone, BeginUpdate, book, prices, loop
  <2>2. \A m : Unreached(m) => Unreached(m)'
    BY <2>1 DEF Unreached
  <2> QED BY <2>1, <2>2
          DEF Waiting, LeftWaiting, AfterBidStop, AfterBidTrailing, AfterAskStop, AfterAskTrailing
<1>9. CASE MoveOrder
  <2> DEFINE m0 == UpdatedMap[pc]
  <2>1. /\ last_traded_price' = last_traded_price /\ activated' = activated
        /\ pc \in {"moveAsk", "moveBid"} /\ pc' = pc
        /\ \E p \in DOMAIN levels[m0] : \E level : levels' = [levels EXCEPT ![m0] = Put(@, p, level)]
    BY <1>9 DEF MoveOrder, prices
  <2>2. DOMAIN levels = Maps
    BY DEF Inv, Shape, Static, Mid, Typed
  <2>3. \A m \in Maps : DOMAIN levels'[m] = DOMAIN levels[m]
    BY <2>1, <2>2 DEF Put
  <2>4. \A m \in Maps : Unreached(m) => Unreached(m)'
    BY <2>1, <2>3 DEF Unreached
  <2> QED BY <2>1, <2>4
          DEF Waiting, LeftWaiting, AfterBidStop, AfterBidTrailing, AfterAskStop, AfterAskTrailing,
              Maps, OrderSide
<1>10. CASE SwapLevels
  <2> DEFINE m0 == UpdatedMap[pc]
  <2>1. /\ last_traded_price' = last_traded_price /\ activated' = activated
        /\ levels' = [levels EXCEPT ![m0] = new_trailing_levels]
        /\ \/ pc = "moveAsk" /\ pc' = "askStop" /\ m0 = <<"Trailing", "Ask">>
           \/ pc = "moveBid" /\ pc' = "endRound" /\ m0 = <<"Trailing", "Bid">>
    BY <1>10 DEF SwapLevels, UpdateDone, UpdatedMap
  <2>2. DOMAIN levels = Maps
    BY DEF Inv, Shape, Static, Mid, Typed
  <2>3. \A m \in Maps : m # m0 => levels'[m] = levels[m]
    BY <2>1, <2>2
  <2>4. \A m \in Maps : m # m0 /\ Unreached(m) => Unreached(m)'
    BY <2>1, <2>3 DEF Unreached
  <2>5. ASSUME pc = "moveBid" PROVE Unreached(<<"Trailing", "Bid">>)'
    <3>1. levels'[<<"Trailing", "Bid">>] = new_trailing_levels
      BY <2>1, <2>2, <2>5 DEF Maps, OrderSide
    <3> QED BY <2>1, <2>5, <3>1 DEF MovedWithin, Unreached
  <2> QED BY <2>1, <2>4, <2>5
          DEF Waiting, LeftWaiting, AfterBidStop, AfterBidTrailing, AfterAskStop, AfterAskTrailing,
              Maps, OrderSide
<1>11. CASE EndRound
  <2>1. /\ levels' = levels /\ last_traded_price' = last_traded_price
        /\ pc = "endRound" /\ pc' \in {"activate", "idle"} /\ (pc' = "idle" => ~activated)
    BY <1>11 DEF EndRound, book, prices
  <2>2. \A m : Unreached(m) => Unreached(m)'
    BY <2>1 DEF Unreached
  <2> QED BY <2>1, <2>2
          DEF Waiting, LeftWaiting, AfterBidStop, AfterBidTrailing, AfterAskStop, AfterAskTrailing
<1>12. CASE UNCHANGED vars
  BY <1>12 DEF vars, book, prices, loop, Waiting, LeftWaiting, Unreached
<1> QED
  BY <1>2, <1>3, <1>4, <1>5, <1>6, <1>7, <1>8, <1>9, <1>10, <1>11, <1>12, NextCases DEF RoundStep

-----------------------------------------------------------------------------
(* The two properties of stop orders.                                      *)

LEMMA StopsInit == Init => Stops
<1> SUFFICES ASSUME Init PROVE Stops
  OBVIOUS
<1>1. DOMAIN orders = {} /\ taker = NoOrder /\ pc = "idle" /\ ret = "activate"
  BY DEF Init
<1>2. Nested /\ Positive /\ NoneAtZero /\ Captured /\ References /\ Within
  BY <1>1 DEF Init, Nested, Positive, NoneAtZero, Position, Captured, References, Within
<1>3. MovedWithin
  BY <1>1 DEF MovedWithin
<1>4. \A m \in Maps : Unreached(m)
  BY DEF Init, EmptyMap, Unreached
<1> QED BY <1>2, <1>3, <1>4 DEF Stops, Waiting, LeftWaiting, Maps, OrderSide

LEMMA StopsStep == Inv /\ Live /\ Stops /\ [Next]_vars => Stops'
  BY NestedStep, PositiveStep, NoneAtZeroStep, CapturedStep, ReferencesStep, WithinStep,
     MovedWithinStep, WaitingStep
  DEF Stops, Live

LEMMA StopsInvariance == Spec => [](Inv /\ Stops)
<1>1. Init => Live
  BY DEF Init, Live, RestingOrdersLive
<1>2. Inv /\ Live /\ [Next]_vars => Live'
  BY LiveStep
<1> QED BY <1>1, <1>2, StopsInit, StopsStep, Invariance, PTL DEF Spec

\* When a call returns, the last traded price reaches no stop order that waits (the asserts
\* of map_orderbook.cpp:569, 584, 602, 618): the last round of activateStopOrders()
\* activated nothing, so each of its loops worked with the price the call ends with.
THEOREM NothingLeftTriggered == Spec => []StopsUntriggered
<1>1. Stops => StopsUntriggered
  BY DEF Stops, Waiting, LeftWaiting, Unreached, StopsUntriggered, OrderSide
<1> QED BY <1>1, StopsInvariance, PTL

\* When a call returns, no trailing stop is further from the last traded price than its
\* trail amount (map_orderbook.cpp:235-258, 343-398), whatever trades, activations and
\* rebuilds the call ran, at the ends of the range of prices as well.
THEOREM TrailsWithin == Spec => []TrailWithin
<1>1. ASSUME Inv, Stops, pc = "idle", NEW id \in DOMAIN orders, orders[id].type \in TrailingTypes
      PROVE  IF orders[id].side = "Ask"
             THEN orders[id].stop_price + orders[id].trail_amount >= last_traded_price
             ELSE orders[id].stop_price <= last_traded_price + orders[id].trail_amount
  <2>1. /\ trailing_bid_price = last_traded_price
        /\ trailing_ask_price = last_traded_price \/ last_traded_price = 0
        /\ ret = "activate"
    BY <1>1 DEF Stops, Nested, References
  <2>2. CASE orders[id].side = "Ask"
    BY <1>1, <2>1, <2>2 DEF Stops, Within, Trails
  <2>3. CASE orders[id].side # "Ask"
    <3>1. orders[id].side = "Bid"
      BY <1>1, <2>3, OrderAt DEF OrderRecord, OrderSide
    <3>2. Trails(orders[id], "Bid")
      BY <1>1, <3>1 DEF Trails
    <3>3. last_traded_price # 0
      BY <1>1, <2>1, <3>2 DEF Stops, NoneAtZero, Position
    <3> QED BY <1>1, <2>1, <2>3, <3>2, <3>3 DEF Stops, Within
  <2> QED BY <2>2, <2>3
<1>2. Inv /\ Stops => TrailWithin
  BY <1>1 DEF TrailWithin
<1> QED BY <1>2, StopsInvariance, PTL

-----------------------------------------------------------------------------
(* The volumes.  LevelProofs says what the sum of a queue is and how the   *)
(* operations of a level change it; here follow the maps of levels, the    *)
(* updates of the book, and the actions.                                   *)

\* The volumes of a map of levels are the sums of the queues.
Summed(map, ords) == \A p \in DOMAIN map : Sums(map[p].volume, map[p].orders, ords)

Volumes == (\A m \in Maps : Summed(levels[m], orders)) /\ Summed(new_trailing_levels, orders)

\* The levels of a map hold orders that rest, each once.
Holding(map, ords) ==
    /\ IsMap(map, UInt64, LevelRecord)
    /\ IsMap(ords, Ids, OrderRecord)
    /\ \A p \in DOMAIN map : IsInjective(map[p].orders) /\ LevelIds(map[p]) \subseteq DOMAIN ords

LEMMA StaticHolding ==
    ASSUME NEW ords, NEW lit, NEW lvs, Static(ords, lit, lvs), NEW m \in Maps
    PROVE  Holding(lvs[m], ords)
  BY DEF Static, Typed, Fits, Holding

LEMMA MidHolding ==
    ASSUME NEW ords, NEW lit, NEW lvs, NEW new, NEW source, Mid(ords, lit, lvs, new, source)
    PROVE  Holding(new, ords) /\ \A m \in Maps : Holding(lvs[m], ords)
  BY DEF Mid, Typed, Fits, Holding

LEMMA InvHolding ==
    ASSUME Inv
    PROVE  Holding(new_trailing_levels, orders) /\ \A m \in Maps : Holding(levels[m], orders)
<1>1. CASE Moving
  <2>1. Mid(orders, level_it, levels, new_trailing_levels, UpdatedMap[pc])
    BY <1>1 DEF Inv, Shape
  <2> QED BY <2>1, MidHolding
<1>2. CASE ~Moving
  <2>1. Static(orders, level_it, levels) /\ new_trailing_levels = EmptyMap
    BY <1>2 DEF Inv, Shape
  <2>2. DOMAIN EmptyMap = {} /\ IsMap(EmptyMap, UInt64, LevelRecord)
    BY DEF EmptyMap, IsMap
  <2>3. Holding(EmptyMap, orders)
    BY <2>1, <2>2 DEF Holding, Static, Typed
  <2> QED BY <2>1, <2>3, StaticHolding
<1> QED BY <1>1, <1>2

\* The queue of a level, its orders and their quantities.
LEMMA HeldQuantities ==
    ASSUME NEW map, NEW ords, Holding(map, ords), NEW p \in DOMAIN map
    PROVE  /\ map[p].orders \in Seq(Ids) /\ IsInjective(map[p].orders)
           /\ \A i \in 1 .. Len(map[p].orders) : map[p].orders[i] \in LevelIds(map[p])
           /\ \A i \in 1 .. Len(map[p].orders) : map[p].orders[i] \in DOMAIN ords
           /\ Quantities(map[p].orders, ords)
<1>1. map[p].orders \in Seq(Ids) /\ IsInjective(map[p].orders)
  BY DEF Holding, IsMap, LevelRecord
<1>2. \A i \in 1 .. Len(map[p].orders) : map[p].orders[i] \in LevelIds(map[p])
  BY <1>1 DEF LevelIds, ToSet
<1>3. \A i \in 1 .. Len(map[p].orders) : map[p].orders[i] \in DOMAIN ords
  BY <1>2 DEF Holding
<1>4. \A id \in DOMAIN ords : ords[id].open_quantity \in UInt64
  BY DEF Holding, IsMap, OrderRecord
<1>5. Quantities(map[p].orders, ords)
  BY <1>3, <1>4 DEF Quantities
<1> QED BY <1>1, <1>2, <1>3, <1>5

\* Levels whose orders keep their quantities keep their sums.
LEMMA SummedSame ==
    ASSUME NEW map, NEW ords, NEW ords2, Holding(map, ords), Summed(map, ords),
           \A p \in DOMAIN map : \A id \in LevelIds(map[p]) :
                ords2[id].open_quantity = ords[id].open_quantity
    PROVE  Summed(map, ords2)
<1>1. ASSUME NEW p \in DOMAIN map PROVE Sums(map[p].volume, map[p].orders, ords2)
  BY HeldQuantities, SumSame DEF Summed
<1> QED BY <1>1 DEF Summed

\* emplace and addOrder: the order's quantity is added.
LEMMA EnqueueSummed ==
    ASSUME NEW map, NEW ords, Holding(map, ords), Summed(map, ords), NEW p,
           NEW o \in OrderRecord, ords[o.id].open_quantity = o.open_quantity
    PROVE  Summed(Enqueue(map, p, o), ords)
<1> DEFINE old == IF p \in DOMAIN map THEN map[p] ELSE NewLevel
           new == Enqueue(map, p, o)
<1>1. old.orders \in Seq(Ids) /\ Sums(old.volume, old.orders, ords)
  <2>1. CASE p \in DOMAIN map
    BY <2>1, HeldQuantities DEF Summed
  <2>2. CASE p \notin DOMAIN map
    BY <2>2, SumEmpty DEF NewLevel
  <2> QED BY <2>1, <2>2
<1>2. /\ DOMAIN new = DOMAIN map \cup {p}
      /\ new[p].volume = Plus(old.volume, o.open_quantity)
      /\ new[p].orders = Append(old.orders, o.id)
      /\ \A q \in DOMAIN map : q # p => new[q] = map[q]
  BY DEF Enqueue, Put, addOrder
<1> HIDE DEF old, new
<1>3. o.id \in Ids /\ ords[o.id].open_quantity \in UInt64
  BY DEF OrderRecord
<1>4. Sums(Plus(old.volume, ords[o.id].open_quantity), Append(old.orders, o.id), ords)
  BY <1>1, <1>3, SumAppend
<1>5. Sums(new[p].volume, new[p].orders, ords)
  BY <1>2, <1>4
<1>6. Summed(new, ords)
  BY <1>2, <1>5 DEF Summed
<1> QED BY <1>6 DEF new

\* deleteOrder: the order's quantity is taken off, wherever in the queue it stood.
LEMMA UnlinkSummed ==
    ASSUME NEW map, NEW ords, Holding(map, ords), Summed(map, ords), NEW p \in DOMAIN map,
           NEW o \in OrderRecord, o.id \in LevelIds(map[p]),
           ords[o.id].open_quantity = o.open_quantity
    PROVE  Summed(Unlink(map, p, o), ords)
<1> DEFINE q    == map[p].orders
           left == deleteOrder(map[p], o)
<1>1. q \in Seq(Ids) /\ IsInjective(q) /\ Quantities(q, ords)
  BY HeldQuantities
<1>2. PICK k \in DOMAIN q : q[k] = o.id
  BY DEF LevelIds, ToSet
<1>3. left.orders = RemoveAt(q, k) /\ left.volume = Minus(map[p].volume, ords[q[k]].open_quantity)
  BY <1>1, <1>2, RemoveFirstOfInjective DEF deleteOrder
<1>4. Sums(map[p].volume, q, ords)
  BY DEF Summed
<1> HIDE DEF q, left
<1>5. Sums(left.volume, left.orders, ords)
  BY <1>1, <1>2, <1>3, <1>4, SumRemoved
<1>6. Unlink(map, p, o) = IF empty(left) THEN Without(map, p) ELSE Put(map, p, left)
  BY DEF Unlink, left
<1>7. Summed(Without(map, p), ords) /\ Summed(Put(map, p, left), ords)
  BY <1>5 DEF Summed, Without, Put
<1> QED BY <1>6, <1>7

\* reduceVolume, with the order that loses the amount: no other level holds it.
LEMMA ReduceSummed ==
    ASSUME NEW map, NEW ords, Holding(map, ords), Summed(map, ords), NEW p \in DOMAIN map,
           NEW id \in LevelIds(map[p]), NEW amount \in UInt64, NEW ords2,
           ords2[id].open_quantity = Minus(ords[id].open_quantity, amount),
           \A i \in DOMAIN ords : i # id => ords2[i] = ords[i],
           \A q \in DOMAIN map : q # p => id \notin LevelIds(map[q])
    PROVE  Summed(Put(map, p, reduceVolume(map[p], amount)), ords2)
<1> DEFINE map2 == Put(map, p, reduceVolume(map[p], amount))
           s    == map[p].orders
<1>1. /\ DOMAIN map2 = DOMAIN map
      /\ map2[p].orders = s
      /\ map2[p].volume = Minus(map[p].volume, amount)
      /\ \A q \in DOMAIN map : q # p => map2[q] = map[q]
  <2>1. map[p] \in LevelRecord
    BY DEF Holding, IsMap
  <2> QED BY <2>1 DEF Put, reduceVolume, LevelRecord
<1> HIDE DEF map2
<1>2. Sums(map2[p].volume, map2[p].orders, ords2)
  <2>1. s \in Seq(Ids) /\ IsInjective(s) /\ Quantities(s, ords)
        /\ \A i \in 1 .. Len(s) : s[i] \in DOMAIN ords
    BY HeldQuantities
  <2>2. PICK k \in 1 .. Len(s) : s[k] = id
    BY <2>1 DEF LevelIds, ToSet
  <2>3. Sums(map[p].volume, s, ords)
    BY DEF Summed
  <2> HIDE DEF s
  <2>4. \A i \in 1 .. Len(s) : i # k => ords2[s[i]].open_quantity = ords[s[i]].open_quantity
    BY <2>1, <2>2 DEF IsInjective
  <2>5. Sums(Minus(map[p].volume, amount), s, ords2)
    BY <2>1, <2>2, <2>3, <2>4, SumReduced
  <2> QED BY <1>1, <2>5
<1>3. ASSUME NEW q \in DOMAIN map, q # p PROVE Sums(map2[q].volume, map2[q].orders, ords2)
  <2>1. /\ map[q].orders \in Seq(Ids) /\ Sums(map[q].volume, map[q].orders, ords)
        /\ \A i \in 1 .. Len(map[q].orders) : map[q].orders[i] \in DOMAIN ords /\ map[q].orders[i] # id
    BY <1>3, HeldQuantities DEF Summed
  <2>2. Sums(map[q].volume, map[q].orders, ords2)
    BY <2>1, SumSame
  <2> QED BY <1>1, <1>3, <2>2
<1>4. Summed(map2, ords2)
  BY <1>1, <1>2, <1>3 DEF Summed
<1> QED BY <1>4 DEF map2

\* popFront: the quantity of the order at the front is taken off.
LEMMA PopSummed ==
    ASSUME NEW map, NEW ords, Holding(map, ords), Summed(map, ords), NEW p \in DOMAIN map,
           ~empty(map[p]), NEW o \in OrderRecord,
           ords[front(map[p])].open_quantity = o.open_quantity
    PROVE  Summed(Put(map, p, popFront(map[p], o)), ords)
<1> DEFINE q    == map[p].orders
           rest == popFront(map[p], o)
<1>1. q \in Seq(Ids) /\ Quantities(q, ords) /\ Sums(map[p].volume, q, ords) /\ q # <<>>
  BY HeldQuantities DEF Summed, empty
<1>2. 1 \in DOMAIN q /\ q[1] = Head(q) /\ Tail(q) \in Seq(Ids)
  BY <1>1
<1>3. RemoveAt(q, 1) = Tail(q)
  <2>1. /\ RemoveAt(q, 1) \in Seq(Ids)
        /\ Len(RemoveAt(q, 1)) = Len(q) - 1
        /\ \A i \in 1 .. Len(RemoveAt(q, 1)) : RemoveAt(q, 1)[i] = q[i + 1]
    BY <1>1, <1>2, RemoveAtPositions
  <2>2. Len(Tail(q)) = Len(q) - 1 /\ \A i \in 1 .. Len(Tail(q)) : Tail(q)[i] = q[i + 1]
    BY <1>1
  <2> HIDE DEF q
  <2> DEFINE r == RemoveAt(q, 1)
             t == Tail(q)
  <2>3. r \in Seq(Ids) /\ t \in Seq(Ids) /\ Len(r) = Len(t)
        /\ \A i \in 1 .. Len(r) : r[i] = t[i]
    BY <1>2, <2>1, <2>2
  <2> HIDE DEF r, t
  <2>4. r = t
    BY <2>3
  <2> QED BY <2>4 DEF r, t
<1>4. rest.orders = RemoveAt(q, 1) /\ rest.volume = Minus(map[p].volume, ords[q[1]].open_quantity)
  BY <1>2, <1>3 DEF popFront, front
<1> HIDE DEF q, rest
<1>5. Sums(rest.volume, rest.orders, ords)
  BY <1>1, <1>2, <1>4, SumRemoved
<1> QED BY <1>5 DEF Summed, Put, rest

\* insertLimitOrder, insertStopOrder, insertTrailingStopOrder.
LEMMA InsertVolumes ==
    ASSUME NEW ords, NEW lit, NEW lvs, Static(ords, lit, lvs),
           \A m \in Maps : Summed(lvs[m], ords),
           NEW o \in OrderRecord, o.id \notin DOMAIN ords, NEW m \in Maps
    PROVE  Summed([lvs EXCEPT ![MapOf(o)] = Enqueue(@, KeyOf(o), o)][m], Put(ords, o.id, o))
<1> DEFINE ords2 == Put(ords, o.id, o)
           m0    == MapOf(o)
           p0    == KeyOf(o)
           lvs2  == [lvs EXCEPT ![m0] = Enqueue(@, p0, o)]
<1>1. /\ ords2[o.id] = o
      /\ DOMAIN ords \subseteq DOMAIN ords2
      /\ \A i \in DOMAIN ords : ords2[i] = ords[i]
  BY DEF Put
<1>2. IsMap(ords2, Ids, OrderRecord)
  BY PutType DEF Static, Typed, OrderRecord
<1>3. /\ DOMAIN lvs = Maps
      /\ lvs2[m] = IF m = m0 THEN Enqueue(lvs[m], p0, o) ELSE lvs[m]
  BY DEF Static, Typed
<1>4. Holding(lvs[m], ords) /\ Summed(lvs[m], ords)
  BY StaticHolding
<1> HIDE DEF ords2, lvs2
<1>5. Holding(lvs[m], ords2) /\ Summed(lvs[m], ords2)
  <2>1. \A p \in DOMAIN lvs[m] : LevelIds(lvs[m][p]) \subseteq DOMAIN ords
    BY <1>4 DEF Holding
  <2>2. Holding(lvs[m], ords2)
    BY <1>1, <1>2, <1>4, <2>1 DEF Holding
  <2>3. Summed(lvs[m], ords2)
    BY <1>1, <1>4, <2>1, SummedSame
  <2> QED BY <2>2, <2>3
<1>6. Summed(lvs2[m], ords2)
  BY <1>1, <1>3, <1>5, EnqueueSummed
<1> QED BY <1>6 DEF ords2, lvs2

\* deleteOrder().
LEMMA EraseVolumes ==
    ASSUME NEW ords, NEW lit, NEW lvs, Static(ords, lit, lvs),
           \A m \in Maps : Summed(lvs[m], ords),
           NEW o \in OrderRecord, o.id \in DOMAIN ords, MapOf(o) = MapOf(ords[o.id]),
           o.open_quantity = ords[o.id].open_quantity, NEW m \in Maps
    PROVE  Summed([lvs EXCEPT ![MapOf(o)] = Unlink(@, lit[o.id], o)][m], Without(ords, o.id))
<1> DEFINE ords2 == Without(ords, o.id)
           m0    == MapOf(o)
           p0    == lit[o.id]
           lvs2  == [lvs EXCEPT ![m0] = Unlink(@, p0, o)]
<1>1. Static(ords2, Without(lit, o.id), lvs2)
  BY EraseStatic
<1>2. /\ DOMAIN lvs = Maps
      /\ lvs2[m] = IF m = m0 THEN Unlink(lvs[m], p0, o) ELSE lvs[m]
  BY DEF Static, Typed
<1>3. \A i \in DOMAIN ords2 : ords2[i] = ords[i] /\ i \in DOMAIN ords
  BY DEF Without
<1>4. Holding(lvs[m], ords) /\ Summed(lvs[m], ords)
  BY StaticHolding
<1>5. m = m0 => p0 \in DOMAIN lvs[m0] /\ o.id \in LevelIds(lvs[m0][p0])
  BY DEF Static, HoldsAt
<1> HIDE DEF ords2, lvs2, p0
<1>6. Summed(lvs2[m], ords)
  BY <1>2, <1>4, <1>5, UnlinkSummed
<1>7. Holding(lvs2[m], ords2)
  BY <1>1, StaticHolding
<1>8. Holding(lvs2[m], ords)
  BY <1>3, <1>4, <1>7 DEF Holding
<1>9. Summed(lvs2[m], ords2)
  <2>1. \A p \in DOMAIN lvs2[m] : LevelIds(lvs2[m][p]) \subseteq DOMAIN ords2
    BY <1>7 DEF Holding
  <2> QED BY <1>3, <1>6, <1>8, <2>1, SummedSame
<1> QED BY <1>9 DEF ords2, lvs2, p0

\* A trade or a cancel, up to the deletion of what it fills.
LEMMA ReduceVolumes ==
    ASSUME NEW ords, NEW lit, NEW lvs, Static(ords, lit, lvs),
           \A m \in Maps : Summed(lvs[m], ords),
           NEW o \in OrderRecord, o.id \in DOMAIN ords, MapOf(o) = MapOf(ords[o.id]),
           KeyOf(o) = KeyOf(ords[o.id]),
           NEW amount \in UInt64,
           o.open_quantity = Minus(ords[o.id].open_quantity, amount)
    PROVE  LET reduced == [lvs EXCEPT ![MapOf(o)] =
                              Put(@, lit[o.id], reduceVolume(@[lit[o.id]], amount))]
           IN  /\ Static(Put(ords, o.id, o), lit, reduced)
               /\ \A m \in Maps : Summed(reduced[m], Put(ords, o.id, o))
<1> DEFINE ords2   == Put(ords, o.id, o)
           m0      == MapOf(o)
           p0      == lit[o.id]
           reduced == [lvs EXCEPT ![m0] = Put(@, p0, reduceVolume(@[p0], amount))]
<1>1. m0 \in Maps /\ p0 \in DOMAIN lvs[m0] /\ o.id \in LevelIds(lvs[m0][p0])
  BY MapOfType DEF Static, HoldsAt
<1>2. Static(ords, lit, reduced)
  BY <1>1, ReduceVolumeStatic
<1>3. ASSUME NEW m \in Maps, NEW p \in DOMAIN lvs[m], o.id \in LevelIds(lvs[m][p])
      PROVE  m = m0 /\ p = p0
  BY <1>3 DEF Static, Fits
<1>4. /\ DOMAIN lvs = Maps
      /\ \A m \in Maps : reduced[m] =
            IF m = m0 THEN Put(lvs[m0], p0, reduceVolume(lvs[m0][p0], amount)) ELSE lvs[m]
  BY DEF Static, Typed
<1>5. /\ ords2[o.id] = o
      /\ \A i \in DOMAIN ords : i # o.id => ords2[i] = ords[i]
  BY DEF Put
<1>6. \A m \in Maps : Holding(lvs[m], ords) /\ Summed(lvs[m], ords)
  BY StaticHolding
<1> HIDE DEF reduced
<1>7. Static(ords2, lit, reduced)
  BY <1>2, UpdateStatic
<1> HIDE DEF ords2, m0, p0
<1>8. Summed(reduced[m0], ords2)
  <2>1. \A q \in DOMAIN lvs[m0] : q # p0 => o.id \notin LevelIds(lvs[m0][q])
    BY <1>1, <1>3
  <2>2. ords2[o.id].open_quantity = Minus(ords[o.id].open_quantity, amount)
    BY <1>5
  <2>3. Summed(Put(lvs[m0], p0, reduceVolume(lvs[m0][p0], amount)), ords2)
    BY <1>1, <1>5, <1>6, <2>1, <2>2, ReduceSummed
  <2> QED BY <1>1, <1>4, <2>3
<1>9. ASSUME NEW m \in Maps, m # m0 PROVE Summed(reduced[m], ords2)
  <2>1. \A p \in DOMAIN lvs[m] : LevelIds(lvs[m][p]) \subseteq DOMAIN ords /\ o.id \notin LevelIds(lvs[m][p])
    BY <1>3, <1>6, <1>9 DEF Holding
  <2>2. Summed(lvs[m], ords2)
    BY <1>5, <1>6, <2>1, SummedSame
  <2> QED BY <1>4, <1>9, <2>2
<1>10. \A m \in Maps : Summed(reduced[m], ords2)
  BY <1>8, <1>9
<1> QED BY <1>7, <1>10 DEF reduced, ords2, m0, p0

\* All of it.
LEMMA LoseVolumes ==
    ASSUME Static(orders, level_it, levels), \A m \in Maps : Summed(levels[m], orders),
           NEW id \in DOMAIN orders, NEW o \in OrderRecord, SameTerms(o, orders[id]),
           orders[id].id = id, Loses(id, o)
    PROVE  \A m \in Maps : Summed(levels'[m], orders')
<1>1. PICK amount \in UInt64 :
        Reduce(o, amount) /\ o.open_quantity = Minus(orders[id].open_quantity, amount)
  BY DEF Loses
<1>2. o.id = id /\ MapOf(o) = MapOf(orders[id]) /\ KeyOf(o) = KeyOf(orders[id])
  BY DEF SameTerms, MapOf, KeyOf
<1> DEFINE ords    == Put(orders, o.id, o)
           reduced == [levels EXCEPT ![MapOf(o)] =
                          Put(@, level_it[o.id], reduceVolume(@[level_it[o.id]], amount))]
<1>3. Static(ords, level_it, reduced) /\ \A m \in Maps : Summed(reduced[m], ords)
  BY <1>1, <1>2, ReduceVolumes
<1>4. CASE isFilled(o)
  <2>1. Erase(o, reduced)
    BY <1>1, <1>4 DEF Reduce
  <2>2. orders' = Without(ords, o.id)
    <3>1. DOMAIN ords = DOMAIN orders /\ \A i \in DOMAIN orders : i # o.id => ords[i] = orders[i]
      BY <1>2 DEF Put
    <3> HIDE DEF ords
    <3>2. orders' = Without(orders, o.id)
      BY <2>1 DEF Erase
    <3> QED BY <3>1, <3>2 DEF Without
  <2>3. levels' = [reduced EXCEPT ![MapOf(o)] = Unlink(@, level_it[o.id], o)]
    BY <2>1 DEF Erase
  <2>4. o.id \in DOMAIN ords /\ ords[o.id] = o
    BY DEF Put
  <2> HIDE DEF ords, reduced
  <2>5. ASSUME NEW m \in Maps PROVE Summed(levels'[m], orders')
    BY <1>3, <2>2, <2>3, <2>4, EraseVolumes
  <2> QED BY <2>5
<1>5. CASE ~isFilled(o)
  <2>1. orders' = ords /\ levels' = reduced
    BY <1>1, <1>5 DEF Reduce
  <2> QED BY <1>3, <2>1
<1> QED BY <1>4, <1>5

\* Outside a rebuild there is only the book to look at.
LEMMA VolumesOutside ==
    ASSUME Inv, pc \notin {"moveAsk", "moveBid"}, new_trailing_levels' = new_trailing_levels,
           \A m \in Maps : Summed(levels'[m], orders')
    PROVE  Volumes'
<1>1. DOMAIN new_trailing_levels' = {}
  BY Outside DEF EmptyMap
<1> QED BY <1>1 DEF Volumes, Summed

LEMMA EraseStep ==
    ASSUME Inv, Volumes, pc \notin {"moveAsk", "moveBid"}, NEW id \in DOMAIN orders,
           Erase(orders[id], levels), new_trailing_levels' = new_trailing_levels
    PROVE  Volumes'
<1>1. Static(orders, level_it, levels) /\ orders[id] \in OrderRecord /\ orders[id].id = id
  BY Outside, OrderAt
<1> DEFINE o == orders[id]
<1>2. /\ orders' = Without(orders, o.id)
      /\ levels' = [levels EXCEPT ![MapOf(o)] = Unlink(@, level_it[o.id], o)]
  BY DEF Erase
<1>3. /\ o \in OrderRecord /\ o.id \in DOMAIN orders /\ MapOf(o) = MapOf(orders[o.id])
      /\ o.open_quantity = orders[o.id].open_quantity
  BY <1>1
<1> HIDE DEF o
<1>4. ASSUME NEW m \in Maps PROVE Summed(levels'[m], orders')
  BY <1>1, <1>2, <1>3, EraseVolumes DEF Volumes
<1> QED BY <1>4, VolumesOutside

LEMMA LoseStep ==
    ASSUME Inv, Volumes, pc \notin {"moveAsk", "moveBid"}, NEW id \in DOMAIN orders,
           NEW o, Reduced(id, o), Loses(id, o), new_trailing_levels' = new_trailing_levels
    PROVE  Volumes'
<1>1. Static(orders, level_it, levels) /\ orders[id].id = id
  BY Outside, OrderAt
<1>2. \A m \in Maps : Summed(levels'[m], orders')
  BY <1>1, LoseVolumes DEF Reduced, Volumes
<1> QED BY <1>2, VolumesOutside

LEMMA RestStep ==
    ASSUME Inv, Volumes, pc \notin {"moveAsk", "moveBid"}, NEW o \in OrderRecord,
           o.id \notin DOMAIN orders, Insert(o), new_trailing_levels' = new_trailing_levels
    PROVE  Volumes'
<1>1. Static(orders, level_it, levels)
  BY Outside
<1>2. ASSUME NEW m \in Maps PROVE Summed(levels'[m], orders')
  BY <1>1, InsertVolumes DEF Insert, Volumes
<1> QED BY <1>2, VolumesOutside

\* A rebuild takes an order's quantity off its old level and adds it to the new one.
LEMMA MoveStep ==
    ASSUME Inv, Volumes, MoveOrder
    PROVE  Volumes'
<1> DEFINE m0 == UpdatedMap[pc]
<1>1. PICK p \in DOMAIN levels[m0] :
        /\ ~empty(levels[m0][p])
        /\ LET o == calculateStopPrice(orders[front(levels[m0][p])])
           IN  /\ orders' = Put(orders, o.id, o)
               /\ levels' = [levels EXCEPT ![m0] = Put(@, p, popFront(@[p], o))]
               /\ new_trailing_levels' = Enqueue(new_trailing_levels, o.stop_price, o)
  BY DEF MoveOrder
<1> DEFINE id == front(levels[m0][p])
           o  == calculateStopPrice(orders[id])
<1>2. /\ orders' = Put(orders, o.id, o)
      /\ levels' = [levels EXCEPT ![m0] = Put(@, p, popFront(@[p], o))]
      /\ new_trailing_levels' = Enqueue(new_trailing_levels, o.stop_price, o)
      /\ ~empty(levels[m0][p])
      /\ id = front(levels[m0][p])
  BY <1>1
<1>3. Moving /\ m0 \in Maps
  <2>1. pc \in {"moveAsk", "moveBid"}
    BY DEF MoveOrder
  <2> QED BY <2>1 DEF Moving, UpdatedMap, Maps, OrderSide
<1>4. Mid(orders, level_it, levels, new_trailing_levels, m0)
  BY <1>3 DEF Inv, Shape
<1> HIDE DEF m0
<1>5. id \in DOMAIN orders
  BY <1>1, <1>3, <1>4, FrontInBook DEF Mid
<1> HIDE DEF id
<1>6. orders[id] \in OrderRecord /\ orders[id].id = id
  BY <1>5, OrderAt
<1>7. o \in OrderRecord /\ o.id = id
  BY <1>6, PriceType DEF Inv, Scalars
<1>8. o.open_quantity = orders[id].open_quantity
  BY <1>6 DEF calculateStopPrice, setStopPrice, OrderRecord
<1> HIDE DEF o
<1>9. /\ DOMAIN orders' = DOMAIN orders
      /\ \A i \in DOMAIN orders : orders'[i].open_quantity = orders[i].open_quantity
      /\ IsMap(orders', Ids, OrderRecord)
  <2>1. IsMap(orders', Ids, OrderRecord)
    BY <1>2, <1>4, <1>7, PutType DEF Mid, Typed, OrderRecord
  <2> QED BY <1>2, <1>5, <1>7, <1>8, <2>1 DEF Put
<1>10. ASSUME NEW map, Holding(map, orders), Summed(map, orders)
       PROVE  Holding(map, orders') /\ Summed(map, orders')
  <2>1. Holding(map, orders')
    BY <1>9, <1>10 DEF Holding
  <2>2. \A q \in DOMAIN map : LevelIds(map[q]) \subseteq DOMAIN orders
    BY <1>10 DEF Holding
  <2>3. Summed(map, orders')
    BY <1>9, <1>10, <2>2, SummedSame
  <2> QED BY <2>1, <2>3
<1>11. /\ Holding(new_trailing_levels, orders') /\ Summed(new_trailing_levels, orders')
       /\ \A m \in Maps : Holding(levels[m], orders') /\ Summed(levels[m], orders')
  BY <1>10, InvHolding DEF Volumes
<1>12. orders'[o.id].open_quantity = o.open_quantity
  BY <1>5, <1>7, <1>8, <1>9
<1>13. Summed(new_trailing_levels', orders')
  BY <1>2, <1>7, <1>11, <1>12, EnqueueSummed
<1>14. Summed(Put(levels[m0], p, popFront(levels[m0][p], o)), orders')
  BY <1>1, <1>2, <1>3, <1>7, <1>11, <1>12, PopSummed
<1>15. ASSUME NEW m \in Maps PROVE Summed(levels'[m], orders')
  <2>1. DOMAIN levels = Maps
    BY <1>4 DEF Mid, Typed
  <2>2. levels'[m] = IF m = m0 THEN Put(levels[m0], p, popFront(levels[m0][p], o)) ELSE levels[m]
    BY <1>2, <2>1
  <2> QED BY <1>11, <1>14, <2>2
<1> QED BY <1>13, <1>15 DEF Volumes

LEMMA SwapStep ==
    ASSUME Inv, Volumes, SwapLevels
    PROVE  Volumes'
<1> DEFINE m0 == UpdatedMap[pc]
<1>1. /\ orders' = orders
      /\ levels' = [levels EXCEPT ![m0] = new_trailing_levels]
      /\ new_trailing_levels' = EmptyMap
  BY DEF SwapLevels
<1>2. DOMAIN levels = Maps
  BY DEF Inv, Shape, Static, Mid, Typed
<1> HIDE DEF m0
<1>3. \A m \in Maps : levels'[m] = IF m = m0 THEN new_trailing_levels ELSE levels[m]
  BY <1>1, <1>2
<1>4. Summed(new_trailing_levels', orders')
  BY <1>1 DEF EmptyMap, Summed
<1>5. \A m \in Maps : Summed(levels'[m], orders')
  BY <1>1, <1>3 DEF Volumes
<1> QED BY <1>4, <1>5 DEF Volumes

LEMMA VolumesStep == ASSUME Inv, Volumes, [Next]_vars PROVE Volumes'
<1>1. ASSUME NEW id \in DOMAIN orders, NEW q \in UInt64, NEW p \in UInt64, pc = "idle",
             TradeAt(id, q, p), ReturnThroughActivation
      PROVE  Volumes'
  BY <1>1, TradeEffect, LoseStep DEF ReturnThroughActivation
<1>2. ASSUME NEW id \in Ids, NEW q \in ExecuteQuantities, NEW p \in ExecutePrices,
             ExecuteOrderAt(id, q, p)
      PROVE  Volumes'
  BY <1>1, <1>2, InputAssumption DEF ExecuteOrderAt
<1>3. ASSUME NEW id \in Ids, NEW q \in ExecuteQuantities, ExecuteOrder(id, q)
      PROVE  Volumes'
  <2>1. id \in DOMAIN orders /\ orders[id].price \in UInt64
    BY <1>3, OrderAt DEF ExecuteOrder, OrderRecord
  <2> QED BY <1>1, <1>3, <2>1, InputAssumption DEF ExecuteOrder
<1>4. ASSUME NEW id \in Ids, NEW q \in CancelQuantities, CancelOrder(id, q) PROVE Volumes'
  <2>1. PICK o \in OrderRecord : Reduced(id, o) /\ Loses(id, o)
    BY <1>4, CancelEffect
  <2>2. id \in DOMAIN orders /\ pc = "idle" /\ new_trailing_levels' = new_trailing_levels
    BY <1>4 DEF CancelOrder, ReturnThroughActivation
  <2> QED BY <2>1, <2>2, LoseStep
<1>5. ASSUME NEW id \in Ids, DeleteOrder(id) PROVE Volumes'
  BY <1>5, EraseStep DEF DeleteOrder, ReturnThroughActivation
<1>6. ASSUME NEW id \in Ids, NEW new_id \in Ids, NEW p \in ReplacePrices,
             ReplaceOrder(id, new_id, p)
      PROVE  Volumes'
  BY <1>6, EraseStep DEF ReplaceOrder
<1>7. CASE MatchOne
  <2>1. PICK id \in DOMAIN orders, c \in UInt64, o \in OrderRecord : TradesWith(id, c, o)
    BY <1>7, MatchEffect
  <2>2. pc = "match" /\ new_trailing_levels' = new_trailing_levels
    BY <1>7 DEF MatchOne, loop
  <2> QED BY <2>1, <2>2, LoseStep DEF TradesWith
<1>8. CASE InsertLimitOrder
  <2>1. Rested(taker) /\ Insert(taker) /\ pc = "match" /\ new_trailing_levels' = new_trailing_levels
    BY <1>8, InsertLimitEffect DEF InsertLimitOrder, MatchDone, loop
  <2> QED BY <2>1, RestStep DEF Rested
<1>9. CASE InsertStopOrder
  <2>1. /\ Rested(Entering(taker)) /\ Insert(Entering(taker))
        /\ pc = "add" /\ new_trailing_levels' = new_trailing_levels
    BY <1>9, InsertStopEffect DEF InsertStopOrder, loop
  <2> QED BY <2>1, RestStep DEF Rested
<1>10. CASE ActivateStopOrder
  <2>1. PICK id \in DOMAIN orders : Erase(orders[id], levels)
    BY <1>10, ActivateEffect
  <2>2. pc \notin {"moveAsk", "moveBid"} /\ new_trailing_levels' = new_trailing_levels
    BY <1>10 DEF ActivateStopOrder, ActivationLoop
  <2> QED BY <2>1, <2>2, EraseStep
<1>11. CASE Elsewhere /\ ~SwapLevels
  <2>1. orders' = orders /\ levels' = levels /\ new_trailing_levels' = new_trailing_levels
    BY <1>11 DEF Elsewhere, AddOrder, BeginMatch, KillFok, DiscardTaker, Discard, ConvertOnEntry,
         BeginRound, LoopDone, SkipUpdate, BeginUpdate, EndRound, vars, book, loop
  <2> QED BY <2>1 DEF Volumes
<1> QED
  BY <1>2, <1>3, <1>4, <1>5, <1>6, <1>7, <1>8, <1>9, <1>10, <1>11, MoveStep, SwapStep
  DEF Next, Call, Step, Elsewhere

LEMMA VolumesInit == Init => Volumes
<1> SUFFICES ASSUME Init PROVE Volumes
  OBVIOUS
<1>1. Summed(EmptyMap, orders)
  BY DEF EmptyMap, Summed
<1> QED BY <1>1 DEF Init, Volumes

\* The volume of every level, those of a rebuild included, is the 64-bit sum of the open
\* quantities of its orders (level.cpp:7-104), however they came to join, trade, be
\* cancelled, be erased from the middle or move, and although the book never adds up a
\* level: each operation adjusts the volume on its own, and a cancel of more than is open
\* wraps both sides around alike.
THEOREM VolumesExact == Spec => []VolumeExact
<1>1. ASSUME Inv, Volumes, NEW m \in AllMaps, NEW p \in DOMAIN LevelsOf(m)
      PROVE  LevelsOf(m)[p].volume =
                FoldLeft(LAMBDA sum, id : Plus(sum, orders[id].open_quantity), 0, Queue(m, p))
  <2>1. Holding(LevelsOf(m), orders) /\ Summed(LevelsOf(m), orders)
    BY <1>1, InvHolding DEF AllMaps, LevelsOf, Volumes
  <2> DEFINE q == LevelsOf(m)[p].orders
             v == LevelsOf(m)[p].volume
  <2>2. q \in Seq(Ids) /\ Quantities(q, orders) /\ Sums(v, q, orders)
    BY <2>1, HeldQuantities DEF Summed
  <2>3. Queue(m, p) = q
    BY DEF Queue
  <2> HIDE DEF q, v
  <2>4. v = FoldedVolume(q, orders)
    BY <2>2, SumIsFold
  <2>5. LevelsOf(m)[p].volume = v
    BY DEF v
  <2> QED BY <2>3, <2>4, <2>5 DEF FoldedVolume
<1>2. Inv /\ Volumes => VolumeExact
  BY <1>1 DEF VolumeExact
<1>3. Inv /\ Volumes /\ [Next]_vars => Volumes'
  BY VolumesStep
<1> QED BY <1>2, <1>3, VolumesInit, Invariance, PTL DEF Spec
=============================================================================
