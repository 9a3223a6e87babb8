--------------------------------- MODULE Book ---------------------------------
(***************************************************************************)
(* The idiomatic C++ book (cpp/book.hpp): per side an ordered map from     *)
(* price to a FIFO of ids, and one map from id to what is left of the      *)
(* order.  Cancellation is lazy: cancel() only erases the order; its id    *)
(* stays in its queue until a matching loop finds it at the head.          *)
(*                                                                         *)
(* A call of limit() is a sequence of steps here, one per iteration of its *)
(* two nested loops, so that each trade is a step of the abstract book.    *)
(* `taker' holds the locals of that call (qty shrinks), `it' the iterator  *)
(* to the level the inner loop works on.  The ids are those of the         *)
(* workload generator, which numbers limit orders 1, 2, 3, ... and cancels *)
(* ids it has used, or 0.                                                  *)
(***************************************************************************)
EXTENDS Integers, Sequences, SequencesExt, FiniteSetsExt

CONSTANTS Prices, Qtys, MaxOps

VARIABLES
    levels,     \* bids and asks: side -> (price -> FIFO of ids)
    orders,     \* id -> Resting, what is left of a live order
    fills,
    volume,
    pc,         \* idle, or in the outer or the inner loop of limit()
    taker,      \* the arguments of limit(), or NoTaker
    it,         \* price of the level the inner loop works on
    lastId,     \* the generator's last_id
    ops,        \* calls made
    booked      \* history: quantity submitted less quantity cancelled

bookVars == <<levels, orders, fills, volume>>
callVars == <<pc, taker, it>>
vars == <<bookVars, callVars, lastId, ops, booked>>

Sides == {"bid", "ask"}
Ids == 1 .. MaxOps
NoTaker == [id |-> 0]
Opposite(side) == IF side = "bid" THEN "ask" ELSE "bid"
Crosses(side, limit, p) == IF side = "bid" THEN p <= limit ELSE p >= limit

ASSUME BookAssumption ==
    /\ Prices \subseteq Int
    /\ Qtys \subseteq Nat \ {0}
    /\ MaxOps \in Nat

Without(f, x) == [y \in DOMAIN f \ {x} |-> f[y]]
With(f, x, v) == [y \in DOMAIN f \cup {x} |-> IF y = x THEN v ELSE f[y]]

-------------------------------------------------------------------------------

Init ==
    /\ levels = [s \in Sides |-> [p \in {} |-> <<>>]]
    /\ orders = [i \in {} |-> <<>>]
    /\ fills = 0 /\ volume = 0
    /\ pc = "idle" /\ taker = NoTaker /\ it = 0
    /\ lastId = 0 /\ ops = 0 /\ booked = 0

(* A faulty choice: begin() and prev(end()) swapped. *)
WorstLevel(side) == IF side = "ask" THEN Max(DOMAIN levels[side]) ELSE Min(DOMAIN levels[side])

(* The level limit() looks at first: asks.begin() or std::prev(bids.end()). *)
BestLevel(side) == IF side = "ask" THEN Min(DOMAIN levels[side]) ELSE Max(DOMAIN levels[side])

(* A faulty test: equal prices do not trade. *)
CrossesBestStrictly(side, price) ==
    LET opp == Opposite(side)
    IN  /\ DOMAIN levels[opp] # {}
        /\ Crosses(side, price, BestLevel(opp))
        /\ BestLevel(opp) # price

(* The two early exits of the outer loop: no level, or none that crosses.  *)
CrossesBest(side, price) ==
    LET opp == Opposite(side)
    IN  DOMAIN levels[opp] # {} /\ Crosses(side, price, BestLevel(opp))

CallLimit(side, price, qty) ==
    /\ pc = "idle"
    /\ ops < MaxOps
    /\ taker' = [id |-> lastId + 1, side |-> side, price |-> price, qty |-> qty]
    /\ pc' = "outer"
    /\ lastId' = lastId + 1 /\ ops' = ops + 1 /\ booked' = booked + qty
    /\ UNCHANGED <<bookVars, it>>

(* cancel(): the id is erased if it is there; queues are left alone.       *)
CancelCall(id) ==
    /\ pc = "idle"
    /\ ops < MaxOps
    /\ orders' = Without(orders, id)
    /\ ops' = ops + 1
    /\ booked' = booked - (IF id \in DOMAIN orders THEN orders[id].qty ELSE 0)
    /\ UNCHANGED <<levels, fills, volume, callVars, lastId>>

PickLevel ==
    /\ pc = "outer"
    /\ taker.qty > 0
    /\ CrossesBest(taker.side, taker.price)
    /\ it' = BestLevel(Opposite(taker.side))
    /\ pc' = "inner"
    /\ UNCHANGED <<bookVars, taker, lastId, ops, booked>>

(* A faulty rest: the residual goes to the front of its queue. *)
EnqueueInFront(queue, id) == <<id>> \o queue
Enqueue(queue, id) == Append(queue, id)

(* The residual rests: book_side[price].push_back(id), orders.emplace.     *)
Rest ==
    /\ pc = "outer"
    /\ taker.qty > 0
    /\ ~CrossesBest(taker.side, taker.price)
    /\ LET side == taker.side
           queue == IF taker.price \in DOMAIN levels[side]
                    THEN levels[side][taker.price] ELSE <<>>
       IN  levels' = [levels EXCEPT ![side] =
                         With(@, taker.price, Enqueue(queue, taker.id))]
    /\ orders' = With(orders, taker.id, [price |-> taker.price, qty |-> taker.qty])
    /\ pc' = "idle" /\ taker' = NoTaker /\ it' = 0
    /\ UNCHANGED <<fills, volume, lastId, ops, booked>>

(* Both loop conditions fail on qty = 0 and there is nothing to rest.      *)
Return ==
    /\ pc = "outer"
    /\ taker.qty = 0
    /\ pc' = "idle" /\ taker' = NoTaker /\ it' = 0
    /\ UNCHANGED <<bookVars, lastId, ops, booked>>

-------------------------------------------------------------------------------
(* The inner loop, on the level `it' of the other side.                    *)

Level == levels[Opposite(taker.side)][it]

InLevel == pc = "inner" /\ taker.qty > 0 /\ Level # <<>>

PopFront == [levels EXCEPT ![Opposite(taker.side)][it] = Tail(@)]

(* A lazily-cancelled order at the head is dropped. *)
SkipCancelled ==
    /\ InLevel
    /\ Head(Level) \notin DOMAIN orders
    /\ levels' = PopFront
    /\ UNCHANGED <<orders, fills, volume, callVars, lastId, ops, booked>>

(* A faulty test: the head leaves the book even if some of it is left.     *)
FilledAnyway(left) == TRUE
Filled(left) == left = 0

(* One trade with the head; a head filled completely leaves the book.      *)
Fill ==
    /\ InLevel
    /\ Head(Level) \in DOMAIN orders
    /\ LET head == Head(Level)
           m == Min({taker.qty, orders[head].qty})
           left == orders[head].qty - m
       IN  /\ taker' = [taker EXCEPT !.qty = @ - m]
           /\ volume' = volume + m
           /\ orders' = IF Filled(left) THEN Without(orders, head)
                        ELSE [orders EXCEPT ![head].qty = left]
           /\ levels' = IF Filled(left) THEN PopFront ELSE levels
    /\ fills' = fills + 1
    /\ UNCHANGED <<pc, it, lastId, ops, booked>>

(* The inner loop is over; a level it has emptied is erased from its map.  *)
LeaveLevel ==
    /\ pc = "inner"
    /\ taker.qty = 0 \/ Level = <<>>
    /\ levels' = IF Level = <<>>
                 THEN [levels EXCEPT ![Opposite(taker.side)] = Without(@, it)]
                 ELSE levels
    /\ pc' = "outer" /\ it' = 0
    /\ UNCHANGED <<orders, fills, volume, taker, lastId, ops, booked>>

Engine == PickLevel \/ Rest \/ Return \/ SkipCancelled \/ Fill \/ LeaveLevel

Next ==
    \/ \E side \in Sides, price \in Prices, qty \in Qtys : CallLimit(side, price, qty)
    \/ \E id \in 0 .. lastId : CancelCall(id)
    \/ Engine

SafeSpec == Init /\ [][Next]_vars

(* The matching thread runs a call to its end; nobody has to make a call.  *)
Spec == SafeSpec /\ WF_vars(Engine)

-------------------------------------------------------------------------------
(* checksum(): the orders it folds, in the order it folds them.  The       *)
(* mixing function is left out: what the languages must agree on is what   *)
(* goes into it, and in which order.                                       *)

LiveIn(queue) ==
    FoldLeft(LAMBDA acc, id : IF id \in DOMAIN orders THEN Append(acc, id) ELSE acc, <<>>, queue)

(* A faulty fold: the levels of a side as its best price comes first.      *)
FoldBestFirst(side) ==
    MapThenFoldSet(LAMBDA ids, acc : acc \o ids, <<>>, LAMBDA p : LiveIn(levels[side][p]),
                   LAMBDA S : IF side = "bid" THEN Min(S) ELSE Max(S), DOMAIN levels[side])

(* The map's order: the level of the highest price is folded last.         *)
FoldSide(side) ==
    MapThenFoldSet(LAMBDA ids, acc : acc \o ids, <<>>, LAMBDA p : LiveIn(levels[side][p]),
                   Max, DOMAIN levels[side])

Checksum ==
    LET ids == FoldSide("bid") \o FoldSide("ask")
    IN  [k \in DOMAIN ids |-> <<ids[k], orders[ids[k]].price, orders[ids[k]].qty>>]

-------------------------------------------------------------------------------
(* Properties *)

(* The side of a resting order: where its id is queued. *)
QueuedAt(id, side, p) == p \in DOMAIN levels[side] /\ id \in Range(levels[side][p])
SideOf(id) == IF \E p \in DOMAIN levels["bid"] : QueuedAt(id, "bid", p) THEN "bid" ELSE "ask"

(* The two containers agree although cancel() touches only one of them: a  *)
(* live order is queued on one side only, at its own price, and each queue *)
(* is in arrival order without repetitions, dead ids included.             *)
QueueDiscipline ==
    /\ \A s \in Sides : \A p \in DOMAIN levels[s] :
         \A j, k \in DOMAIN levels[s][p] :
             j < k => levels[s][p][j] < levels[s][p][k]
    /\ \A id \in DOMAIN orders :
         /\ QueuedAt(id, SideOf(id), orders[id].price)
         /\ \A s \in Sides : \A p \in DOMAIN levels[s] :
               QueuedAt(id, s, p) => s = SideOf(id) /\ p = orders[id].price

(* The book never stays crossed, not even inside a call: every resting bid *)
(* is below every resting ask.                                             *)
NotCrossed ==
    \A i, j \in DOMAIN orders :
        SideOf(i) = "bid" /\ SideOf(j) = "ask" => orders[i].price < orders[j].price

(* What was submitted and not cancelled is traded (once by each party),    *)
(* resting, or still in the hands of the call in progress.                 *)
Conservation ==
    booked = 2 * volume
             + MapThenSumSet(LAMBDA i : orders[i].qty, DOMAIN orders)
             + (IF pc = "idle" THEN 0 ELSE taker.qty)

(* checksum() folds every resting order once: bids before asks, prices     *)
(* ascending, oldest first, whatever dead ids lie in the queues.  It is    *)
(* this order that makes the checksums of the four languages comparable.   *)
Earlier(i, j) ==
    \/ SideOf(i) = "bid" /\ SideOf(j) = "ask"
    \/ /\ SideOf(i) = SideOf(j)
       /\ \/ orders[i].price < orders[j].price
          \/ orders[i].price = orders[j].price /\ i < j
ChecksumCanonical ==
    LET folded == Checksum
    IN  /\ Range(folded) = {<<i, orders[i].price, orders[i].qty>> : i \in DOMAIN orders}
        /\ \A j, k \in DOMAIN folded : j < k => Earlier(folded[j][1], folded[k][1])

(* The book implements price-time priority: every iteration of its loops   *)
(* is a trade with the order that has priority, or no visible step; and    *)
(* a call, once made, is worked on until it returns.                       *)
Priority == INSTANCE Clob WITH
                live <- [i \in DOMAIN orders |->
                           [side |-> SideOf(i), price |-> orders[i].price,
                            qty |-> orders[i].qty]]
ImplementsClob == Priority!Spec

===============================================================================
