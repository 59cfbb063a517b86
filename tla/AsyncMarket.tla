---------------------------- MODULE AsyncMarket -----------------------------
(***************************************************************************)
(* What a market that works asynchronously promises its caller: the        *)
(* requests about a symbol, from the one that adds it to the one that      *)
(* deletes it, are served one after the other in the order they were made. *)
(* Market (market.h, market.cpp) is the case where each is served before   *)
(* the call returns.                                                       *)
(***************************************************************************)
EXTENDS Sequences, Naturals

CONSTANTS
    Lives,  \* a symbol added anew begins another life
    Orders  \* the requests about a symbol's orders

VARIABLES requested, served

Init ==
    /\ requested = [l \in Lives |-> <<>>]
    /\ served = [l \in Lives |-> <<>>]

\* A life begins with the request to add the symbol and ends with its deletion.
Request(l, r) ==
    /\ requested' = [requested EXCEPT ![l] = Append(@, r)]
    /\ (r = "addOrderBook") <=> (requested[l] = <<>>)
    /\ \A i \in 1 .. Len(requested[l]) : requested[l][i] # "deleteOrderBook"
    /\ UNCHANGED served

Serve(l) ==
    /\ Len(served[l]) < Len(requested[l])
    /\ served' = [served EXCEPT ![l] = Append(@, requested[l][Len(served[l]) + 1])]
    /\ UNCHANGED requested

Next ==
    \/ \E l \in Lives, r \in Orders \cup {"addOrderBook", "deleteOrderBook"} : Request(l, r)
    \/ \E l \in Lives : Serve(l)

Spec == Init /\ [][Next]_<<requested, served>>
=============================================================================
