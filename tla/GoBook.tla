-------------------------------- MODULE GoBook --------------------------------
(***************************************************************************)
(* The idiomatic Go book (go/book.go).  The ordered map of the C++ book is *)
(* two structures here, a b-tree of prices and a map from price to level   *)
(* per side, that limit() has to keep in step; a level is a slice with a   *)
(* head index that is never compacted; and an order is a value that the    *)
(* inner loop copies out of the id map and has to write back.              *)
(*                                                                         *)
(* Calls, locals and steps are those of module Book.  The pointer lvl is   *)
(* the price of the level it points to: no level is removed while it is    *)
(* in use.                                                                 *)
(***************************************************************************)
EXTENDS Integers, Sequences, SequencesExt, FiniteSetsExt

CONSTANTS Prices, Qtys, MaxOps

ASSUME GoBookAssumption ==
    /\ Prices \subseteq Int
    /\ Qtys \subseteq Nat \ {0}
    /\ MaxOps \in Nat

VARIABLES
    prices,     \* bidPrices and askPrices: side -> set of prices
    levels,     \* bidLevels and askLevels: side -> (price -> level)
    orders,     \* id -> resting
    fills,
    volume,
    pc,         \* idle, or in the outer or the inner loop of limit()
    taker,      \* the arguments of limit(), or NoTaker
    lvl,        \* price of the level the inner loop works on
    lastId,     \* the generator's lastID
    ops         \* calls made

bookVars == <<prices, levels, orders, fills, volume>>
callVars == <<pc, taker, lvl>>
vars == <<bookVars, callVars, lastId, ops>>

Sides == {"bid", "ask"}
NoTaker == [id |-> 0]
Opposite(side) == IF side = "bid" THEN "ask" ELSE "bid"
Crosses(side, limit, p) == IF side = "bid" THEN p <= limit ELSE p >= limit

(* level: what is before head is consumed. *)
NoLevel == [ids |-> <<>>, head |-> 0]
IsEmpty(l) == l.head = Len(l.ids)
Waiting(l) == SubSeq(l.ids, l.head + 1, Len(l.ids))

(* delete() of a key, and assignment to one. *)
Without(f, x) == Restrict(f, DOMAIN f \ {x})
With(f, x, v) == [y \in DOMAIN f \cup {x} |-> IF y = x THEN v ELSE f[y]]

Init ==
    /\ prices = [s \in Sides |-> {}]
    /\ levels = [s \in Sides |-> [p \in {} |-> NoLevel]]
    /\ orders = [i \in {} |-> <<>>]
    /\ fills = 0 /\ volume = 0
    /\ pc = "idle" /\ taker = NoTaker /\ lvl = 0
    /\ lastId = 0 /\ ops = 0

(* askPrices.Min() and bidPrices.Max(). *)
BestPrice(side) == IF side = "ask" THEN Min(prices[side]) ELSE Max(prices[side])

(* The two breaks of the outer loop: an empty tree, or no price crosses.   *)
CrossesBest(side, price) ==
    /\ prices[Opposite(side)] # {}
    /\ Crosses(side, price, BestPrice(Opposite(side)))

CallLimit(side, price, qty) ==
    /\ pc = "idle"
    /\ ops < MaxOps
    /\ taker' = [id |-> lastId + 1, side |-> side, price |-> price, qty |-> qty]
    /\ pc' = "outer"
    /\ lastId' = lastId + 1 /\ ops' = ops + 1
    /\ UNCHANGED <<bookVars, lvl>>

CancelCall(id) ==
    /\ pc = "idle"
    /\ ops < MaxOps
    /\ orders' = Without(orders, id)
    /\ ops' = ops + 1
    /\ UNCHANGED <<prices, levels, fills, volume, callVars, lastId>>

PickLevel ==
    /\ pc = "outer"
    /\ taker.qty > 0
    /\ CrossesBest(taker.side, taker.price)
    /\ lvl' = BestPrice(Opposite(taker.side))
    /\ pc' = "inner"
    /\ UNCHANGED <<bookVars, taker, lastId, ops>>

(* The residual rests.  A level that is missing from the map is added to   *)
(* it and its price to the tree; one that is there is used.                *)
Rest ==
    /\ pc = "outer"
    /\ taker.qty > 0
    /\ ~CrossesBest(taker.side, taker.price)
    /\ LET s == taker.side
           p == taker.price
           missing == p \notin DOMAIN levels[s]
           level == IF missing THEN NoLevel ELSE levels[s][p]
       IN  /\ levels' = [levels EXCEPT ![s] =
                           With(@, p, [level EXCEPT !.ids = Append(@, taker.id)])]
           /\ prices' = IF missing THEN [prices EXCEPT ![s] = @ \cup {p}] ELSE prices
    /\ orders' = With(orders, taker.id, [price |-> taker.price, qty |-> taker.qty])
    /\ pc' = "idle" /\ taker' = NoTaker
    /\ UNCHANGED <<fills, volume, lvl, lastId, ops>>

Return ==
    /\ pc = "outer"
    /\ taker.qty = 0
    /\ pc' = "idle" /\ taker' = NoTaker
    /\ UNCHANGED <<bookVars, lvl, lastId, ops>>

-------------------------------------------------------------------------------
(* The inner loop, on level `lvl' of the other side.                       *)

Level == levels[Opposite(taker.side)][lvl]
FrontId == Level.ids[Level.head + 1]
InLevel == pc = "inner" /\ taker.qty > 0 /\ ~IsEmpty(Level)
PopFront == [levels EXCEPT ![Opposite(taker.side)][lvl].head = @ + 1]

SkipCancelled ==
    /\ InLevel
    /\ FrontId \notin DOMAIN orders
    /\ levels' = PopFront
    /\ UNCHANGED <<prices, orders, fills, volume, callVars, lastId, ops>>

(* A faulty write: it only changes the copy. *)
WriteCopy(id, qty) == orders
WriteBack(id, qty) == [orders EXCEPT ![id].qty = qty]

(* One trade; an order filled completely is deleted, one filled partly is  *)
(* written back.                                                           *)
Fill ==
    /\ InLevel
    /\ FrontId \in DOMAIN orders
    /\ LET m == Min({taker.qty, orders[FrontId].qty})
           filled == orders[FrontId].qty = m
       IN  /\ taker' = [taker EXCEPT !.qty = @ - m]
           /\ volume' = volume + m
           /\ orders' = IF filled THEN Without(orders, FrontId)
                        ELSE WriteBack(FrontId, orders[FrontId].qty - m)
           /\ levels' = IF filled THEN PopFront ELSE levels
    /\ fills' = fills + 1
    /\ UNCHANGED <<prices, pc, lvl, lastId, ops>>

(* A faulty exit: the map forgets the level, the tree keeps its price.     *)
KeepPrice(side, p) == prices
DeletePrice(side, p) == [prices EXCEPT ![side] = @ \ {p}]

(* The inner loop is over; an exhausted level leaves tree and map. *)
LeaveLevel ==
    /\ pc = "inner"
    /\ taker.qty = 0 \/ IsEmpty(Level)
    /\ LET s == Opposite(taker.side)
       IN  IF IsEmpty(Level)
           THEN /\ prices' = DeletePrice(s, lvl)
                /\ levels' = [levels EXCEPT ![s] = Without(@, lvl)]
           ELSE UNCHANGED <<prices, levels>>
    /\ pc' = "outer" /\ lvl' = 0
    /\ UNCHANGED <<orders, fills, volume, taker, lastId, ops>>

Engine == PickLevel \/ Rest \/ Return \/ SkipCancelled \/ Fill \/ LeaveLevel

Next ==
    \/ \E side \in Sides, price \in Prices, qty \in Qtys : CallLimit(side, price, qty)
    \/ \E id \in 0 .. lastId : CancelCall(id)
    \/ Engine

SafeSpec == Init /\ [][Next]_vars

(* The consumer goroutine runs a call to its end; nobody has to make one.  *)
Spec == SafeSpec /\ WF_vars(Engine)

-------------------------------------------------------------------------------
(* checksum(): the orders it folds, in the order it folds them.            *)

LiveIn(l) ==
    FoldLeft(LAMBDA acc, id : IF id \in DOMAIN orders THEN Append(acc, id) ELSE acc,
             <<>>, Waiting(l))

(* A faulty fold: Descend where it should Ascend. *)
FoldDescending(side) ==
    MapThenFoldSet(LAMBDA ids, acc : acc \o ids, <<>>, LAMBDA p : LiveIn(levels[side][p]),
                   Min, prices[side])

(* Ascend comes to the highest price last. *)
FoldSide(side) ==
    MapThenFoldSet(LAMBDA ids, acc : acc \o ids, <<>>, LAMBDA p : LiveIn(levels[side][p]),
                   Max, prices[side])

Checksum ==
    LET ids == FoldSide("bid") \o FoldSide("ask")
    IN  [k \in DOMAIN ids |-> <<ids[k], orders[ids[k]].price, orders[ids[k]].qty>>]

-------------------------------------------------------------------------------
(* Properties *)

(* Tree and map are in step, so that no lookup of a price the tree gives   *)
(* returns nil; and outside the inner loop no level is exhausted, so that  *)
(* the outer loop never picks one again and again.                         *)
TreeMatchesMap ==
    \A s \in Sides :
        /\ prices[s] = DOMAIN levels[s]
        /\ pc # "inner" => \A p \in prices[s] : ~IsEmpty(levels[s][p])

QueuedAt(id, side, p) == p \in DOMAIN levels[side] /\ id \in Range(Waiting(levels[side][p]))
SideOf(id) == IF \E p \in DOMAIN levels["bid"] : QueuedAt(id, "bid", p) THEN "bid" ELSE "ask"

(* checksum() folds every resting order once, in the order all the books   *)
(* fold them: bids before asks, prices ascending, oldest first.            *)
Earlier(i, j) ==
    \/ SideOf(i) = "bid" /\ SideOf(j) = "ask"
    \/ /\ SideOf(i) = SideOf(j)
       /\ \/ orders[i].price < orders[j].price
          \/ orders[i].price = orders[j].price /\ i < j
ChecksumCanonical ==
    LET folded == Checksum
    IN  /\ Range(folded) = {<<i, orders[i].price, orders[i].qty>> : i \in DOMAIN orders}
        /\ \A j, k \in DOMAIN folded : j < k => Earlier(folded[j][1], folded[k][1])

(* The Go book implements the price-time priority that the C++ books       *)
(* implement, trade by trade, and works on a call until it returns.        *)
Priority == INSTANCE Clob WITH
                live <- [i \in DOMAIN orders |->
                           [side |-> SideOf(i), price |-> orders[i].price,
                            qty |-> orders[i].qty]]
ImplementsClob == Priority!Spec

===============================================================================
