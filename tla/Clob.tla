--------------------------------- MODULE Clob ---------------------------------
(***************************************************************************)
(* What every matching engine of the repository promises, whatever its     *)
(* containers: a limit-order book under price-time priority.  An incoming  *)
(* order trades with the best-priced resting order of the other side, the  *)
(* oldest one at that price, one resting order at a time, for as long as   *)
(* its price crosses; what is left of it then rests.  A cancel removes     *)
(* a resting order and is ignored for any other id.                        *)
(*                                                                         *)
(* The generator numbers limit orders 1, 2, 3, ..., so that the id of an   *)
(* order is also its arrival time: "oldest" is the least id.               *)
(***************************************************************************)
EXTENDS Integers

CONSTANTS
    Prices,     \* prices orders may carry, integers
    Qtys,       \* quantities orders may carry, positive
    MaxOps      \* how many operations a run consists of

VARIABLES
    live,       \* the resting orders: id -> [side, price, qty]
    taker,      \* the order being matched, or NoTaker
    lastId,     \* id of the last limit order submitted
    ops,        \* operations submitted
    fills,      \* number of trades
    volume      \* quantity traded

clobVars == <<live, taker, lastId, ops, fills, volume>>

Sides == {"bid", "ask"}
Ids == 1 .. MaxOps
Orders == [side : Sides, price : Prices, qty : Nat]
NoTaker == [id |-> 0]

Opposite(side) == IF side = "bid" THEN "ask" ELSE "bid"

(* An incoming order of this side and limit price may trade at p. *)
Crosses(side, limit, p) == IF side = "bid" THEN p <= limit ELSE p >= limit

(* Price p is strictly better than q for an incoming order of this side.   *)
Better(side, p, q) == IF side = "bid" THEN p < q ELSE p > q

(* The resting orders an incoming order may trade with. *)
Matches(side, limit) ==
    {i \in DOMAIN live : /\ live[i].side = Opposite(side)
                         /\ Crosses(side, limit, live[i].price)}

(* Maker i has priority over maker j. *)
Before(side, i, j) ==
    \/ Better(side, live[i].price, live[j].price)
    \/ live[i].price = live[j].price /\ i <= j

Init ==
    /\ live = [i \in {} |-> <<>>]
    /\ taker = NoTaker
    /\ lastId = 0 /\ ops = 0
    /\ fills = 0 /\ volume = 0

Submit(side, price, qty) ==
    /\ taker = NoTaker
    /\ ops < MaxOps
    /\ ops' = ops + 1
    /\ lastId' = lastId + 1
    /\ taker' = [id |-> lastId + 1, side |-> side, price |-> price, qty |-> qty]
    /\ UNCHANGED <<live, fills, volume>>

Cancel(id) ==
    /\ taker = NoTaker
    /\ ops < MaxOps
    /\ ops' = ops + 1
    /\ live' = [i \in DOMAIN live \ {id} |-> live[i]]
    /\ UNCHANGED <<taker, lastId, fills, volume>>

(* One trade, with the maker that has priority over all others. *)
Trade ==
    /\ taker # NoTaker
    /\ taker.qty > 0
    /\ \E i \in Matches(taker.side, taker.price) :
         /\ \A j \in Matches(taker.side, taker.price) : Before(taker.side, i, j)
         /\ LET m == IF live[i].qty < taker.qty THEN live[i].qty ELSE taker.qty
            IN  /\ live' = IF live[i].qty = m
                           THEN [j \in DOMAIN live \ {i} |-> live[j]]
                           ELSE [live EXCEPT ![i].qty = @ - m]
                /\ taker' = [taker EXCEPT !.qty = @ - m]
                /\ volume' = volume + m
    /\ fills' = fills + 1
    /\ UNCHANGED <<lastId, ops>>

(* Nothing left to trade with: the residual rests. *)
Rest ==
    /\ taker # NoTaker
    /\ taker.qty > 0
    /\ Matches(taker.side, taker.price) = {}
    /\ live' = [i \in DOMAIN live \cup {taker.id} |->
                  IF i = taker.id
                  THEN [side |-> taker.side, price |-> taker.price, qty |-> taker.qty]
                  ELSE live[i]]
    /\ taker' = NoTaker
    /\ UNCHANGED <<lastId, ops, fills, volume>>

(* The incoming order is filled completely. *)
Finish ==
    /\ taker # NoTaker
    /\ taker.qty = 0
    /\ taker' = NoTaker
    /\ UNCHANGED <<live, lastId, ops, fills, volume>>

Match == Trade \/ Rest \/ Finish

Next ==
    \/ \E side \in Sides, price \in Prices, qty \in Qtys : Submit(side, price, qty)
    \/ \E id \in 0 .. lastId : Cancel(id)
    \/ Match

SafeSpec == Init /\ [][Next]_clobVars

(* Once an order is submitted the engine works on it; nobody has to submit. *)
Spec == SafeSpec /\ WF_clobVars(Match)

===============================================================================
