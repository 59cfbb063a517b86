---------------------------- MODULE PriorityBook ----------------------------
(***************************************************************************)
(* What an order book (include/matching/orderbook/orderbook.h) promises    *)
(* whoever submits orders to it: price-time priority, and that an order's  *)
(* open quantity goes only where a trade or its owner takes it.  Nothing   *)
(* is said of when a stop order enters, of levels, indexes or rounds.      *)
(***************************************************************************)
EXTENDS Integers, Sequences, SequencesExt, Functions

CONSTANTS Ids, MaxPrice, Nobody

VARIABLES open,      \* the open quantity of each order the book has
          queue,     \* the limit orders that rest: by side and price, oldest first
          incoming,  \* the order that is being matched
          price      \* the price of the last trade, 0 before the first

Sides  == {"Bid", "Ask"}
Prices == 0 .. MaxPrice

\* An order to match, the worst price it takes, and whether it rests after that.
Incoming == [id : Ids, side : Sides, price : Prices, rests : BOOLEAN]

Init ==
    /\ open = [id \in {} |-> 0]
    /\ queue = [s \in Sides |-> [p \in {} |-> <<>>]]
    /\ incoming = Nobody
    /\ price = 0

Makers == queue[IF incoming.side = "Bid" THEN "Ask" ELSE "Bid"]

Better(p, q) == IF incoming.side = "Bid" THEN p < q ELSE p > q

Accepted == {p \in DOMAIN Makers : p = incoming.price \/ Better(p, incoming.price)}

WithoutOrder(id) ==
    [s \in Sides |-> [p \in {q \in DOMAIN queue[s] : RemoveFirst(queue[s][q], id) # <<>>} |->
                          RemoveFirst(queue[s][p], id)]]

With(f, x, v) == [y \in DOMAIN f \cup {x} |-> IF y = x THEN v ELSE f[y]]

Forget(quantities, id) == Restrict(quantities, DOMAIN quantities \ {id})

\* An order loses open quantity, and its place with the last of it.
Lose(id, quantity, quantities) ==
    IF quantity = open[id]
    THEN open' = Forget(quantities, id) /\ queue' = WithoutOrder(id)
    ELSE open' = [quantities EXCEPT ![id] = @ - quantity] /\ UNCHANGED queue

Accept(id) ==
    /\ incoming = Nobody
    /\ id \notin DOMAIN open
    /\ \E quantity \in Prices \ {0} : open' = With(open, id, quantity)
    /\ UNCHANGED <<queue, incoming, price>>

\* Of those the book has and that do not rest, one is matched: a new one, or a stop
\* order that waited.
Enter ==
    /\ incoming = Nobody
    /\ incoming' \in Incoming
    /\ incoming'.id \in DOMAIN open
    /\ WithoutOrder(incoming'.id) = queue
    /\ UNCHANGED <<open, queue, price>>

\* The oldest order at the best price trades with it, at that price, as much as both can.
Trade ==
    /\ incoming # Nobody
    /\ \E p \in Accepted :
        /\ ~\E q \in Accepted : Better(q, p)
        /\ LET maker    == Head(Makers[p])
               quantity == Min({open[incoming.id], open[maker]})
           IN  /\ quantity > 0
               /\ Lose(maker, quantity, [open EXCEPT ![incoming.id] = @ - quantity])
        /\ price' = p
    /\ UNCHANGED incoming

\* What is left of it rests behind the others of its price, ...
Rest ==
    /\ incoming # Nobody
    /\ open[incoming.id] > 0 /\ Accepted = {} /\ incoming.rests
    /\ LET own == queue[incoming.side]
           p   == incoming.price
       IN  queue' = [queue EXCEPT ![incoming.side] =
                        With(own, p, IF p \in DOMAIN own THEN Append(own[p], incoming.id)
                                     ELSE <<incoming.id>>)]
    /\ incoming' = Nobody
    /\ UNCHANGED <<open, price>>

\* ... or it leaves.
Leave ==
    /\ incoming # Nobody
    /\ open[incoming.id] = 0 \/ (Accepted = {} /\ ~incoming.rests)
    /\ open' = Forget(open, incoming.id)
    /\ incoming' = Nobody
    /\ UNCHANGED <<queue, price>>

\* The owner takes some of an order back, or all; or has it traded elsewhere.
Cancel(id, quantity) == Lose(id, quantity, open) /\ UNCHANGED <<incoming, price>>

Execute(id, quantity) == Lose(id, quantity, open) /\ price' \in Prices /\ UNCHANGED incoming

\* It loses its place, and is a new order of the same quantity.
Replace(id, new_id) ==
    /\ new_id \notin DOMAIN open \ {id}
    /\ open' = With(Forget(open, id), new_id, open[id])
    /\ queue' = WithoutOrder(id)
    /\ UNCHANGED <<incoming, price>>

Next ==
    \/ \E id \in Ids : Accept(id)
    \/ Enter \/ Trade \/ Rest \/ Leave
    \/ /\ incoming = Nobody
       /\ \E id \in DOMAIN open :
            \/ \E quantity \in 1 .. open[id] : Cancel(id, quantity) \/ Execute(id, quantity)
            \/ \E new_id \in Ids : Replace(id, new_id)

Spec == Init /\ [][Next]_<<open, queue, incoming, price>>
=============================================================================
