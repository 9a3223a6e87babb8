------------------------------ MODULE TunedBook -------------------------------
(***************************************************************************)
(* The tuned C++ book (cpp/tuned.hpp): per side an array of levels indexed *)
(* by price with a pointer to the best occupied one, levels that keep      *)
(* their consumed prefix until they are empty, and an array of orders      *)
(* indexed by id in which quantity 0 means "no such order".  What the      *)
(* containers of the idiomatic book keep by themselves is kept by hand:    *)
(* the best pointers, the heads, the number of live orders.                *)
(*                                                                         *)
(* Calls, locals and steps are those of module Book.  LADDER_BASE is 0 in  *)
(* the code and here.  best[side] is best_bid or best_ask.                 *)
(***************************************************************************)
EXTENDS Integers, Sequences, SequencesExt, FiniteSetsExt

CONSTANTS
    Prices, Qtys, MaxOps,
    LadderLen,      \* LADDER_LEN
    NoAsks          \* what best_ask may hold without asks: INT64_MAX in C++,
                    \* in Go and Java the end of the ladder

ASSUME TunedBookAssumption ==
    /\ LadderLen \in Nat \ {0}
    /\ NoAsks \subseteq Nat /\ \A n \in NoAsks : n >= LadderLen
    /\ Prices \subseteq 0 .. LadderLen - 1
    /\ Qtys \subseteq Nat \ {0}
    /\ MaxOps \in Nat

VARIABLES
    levels,     \* bids and asks: side -> array of FlatLevel
    best,       \* best_bid and best_ask
    orders,     \* id -> Resting; slot 0 belongs to no order
    live,       \* how many orders rest
    fills,
    volume,
    pc,         \* idle, or in the outer or the inner loop of limit()
    taker,      \* the arguments of limit(), or NoTaker
    lvl,        \* index of the level the inner loop works on
    lastId,     \* the generator's last_id
    ops,        \* calls made
    noAsk       \* the one of NoAsks that this book uses

bookVars == <<levels, best, orders, live, fills, volume>>
callVars == <<pc, taker, lvl>>
vars == <<bookVars, callVars, lastId, ops, noAsk>>

Sides == {"bid", "ask"}
Ladder == 0 .. LadderLen - 1
NoTaker == [id |-> 0]
Opposite(side) == IF side = "bid" THEN "ask" ELSE "bid"
Crosses(side, limit, p) == IF side = "bid" THEN p <= limit ELSE p >= limit

(* FlatLevel: the ids past `head' wait, those before it are consumed.      *)
NoLevel == [ids |-> <<>>, head |-> 0]
IsEmpty(l) == l.head = Len(l.ids)
Waiting(l) == SubSeq(l.ids, l.head + 1, Len(l.ids))

(* The values of best_bid and best_ask that mean "no level". *)
NoBest(side) == IF side = "bid" THEN -1 ELSE noAsk

Init ==
    /\ noAsk \in NoAsks
    /\ levels = [s \in Sides |-> [p \in Ladder |-> NoLevel]]
    /\ best = [s \in Sides |-> NoBest(s)]
    /\ orders = [i \in 0 .. MaxOps + 1 |-> [price |-> 0, qty |-> 0]]
    /\ live = 0 /\ fills = 0 /\ volume = 0
    /\ pc = "idle" /\ taker = NoTaker /\ lvl = 0
    /\ lastId = 0 /\ ops = 0

CallLimit(side, price, qty) ==
    /\ pc = "idle"
    /\ ops < MaxOps
    /\ taker' = [id |-> lastId + 1, side |-> side, price |-> price, qty |-> qty]
    /\ pc' = "outer"
    /\ lastId' = lastId + 1 /\ ops' = ops + 1
    /\ UNCHANGED <<bookVars, lvl, noAsk>>

(* A faulty test: a dead order is cancelled again. *)
LiveOrDead(id) == TRUE
Cancellable(id) == orders[id].qty # 0

(* cancel(): the slot is cleared once; id 0 hits the dead slot 0. *)
CancelCall(id) ==
    /\ pc = "idle"
    /\ ops < MaxOps
    /\ IF Cancellable(id)
       THEN orders' = [orders EXCEPT ![id].qty = 0] /\ live' = live - 1
       ELSE UNCHANGED <<orders, live>>
    /\ ops' = ops + 1
    /\ UNCHANGED <<levels, best, fills, volume, callVars, lastId, noAsk>>

(* The best opposite level exists, is on the ladder, and crosses. *)
CrossesBest(side, price) ==
    LET b == best[Opposite(side)]
    IN  b >= 0 /\ b < LadderLen /\ Crosses(side, price, b)

PickLevel ==
    /\ pc = "outer"
    /\ taker.qty > 0
    /\ CrossesBest(taker.side, taker.price)
    /\ lvl' = best[Opposite(taker.side)]
    /\ pc' = "inner"
    /\ UNCHANGED <<bookVars, taker, lastId, ops, noAsk>>

(* A faulty update: the newest level becomes the best one. *)
Newest(side, p, q) == q

(* std::max for best_bid, std::min for best_ask. *)
BetterOf(side, p, q) == IF side = "bid" THEN Max({p, q}) ELSE Min({p, q})

(* The residual rests; its slot is written and counted. *)
Rest ==
    /\ pc = "outer"
    /\ taker.qty > 0
    /\ ~CrossesBest(taker.side, taker.price)
    /\ LET s == taker.side
       IN  /\ levels' = [levels EXCEPT ![s][taker.price].ids = Append(@, taker.id)]
           /\ best' = [best EXCEPT ![s] = BetterOf(s, @, taker.price)]
    /\ orders' = [orders EXCEPT ![taker.id] = [price |-> taker.price, qty |-> taker.qty]]
    /\ live' = live + 1
    /\ pc' = "idle" /\ taker' = NoTaker
    /\ UNCHANGED <<fills, volume, lvl, lastId, ops, noAsk>>

Return ==
    /\ pc = "outer"
    /\ taker.qty = 0
    /\ pc' = "idle" /\ taker' = NoTaker
    /\ UNCHANGED <<bookVars, lvl, lastId, ops, noAsk>>

-------------------------------------------------------------------------------
(* The inner loop, on level `lvl' of the other side.                       *)

Level == levels[Opposite(taker.side)][lvl]
HeadId == Level.ids[Level.head + 1]
InLevel == pc = "inner" /\ taker.qty > 0 /\ ~IsEmpty(Level)
AdvanceHead == [levels EXCEPT ![Opposite(taker.side)][lvl].head = @ + 1]

SkipCancelled ==
    /\ InLevel
    /\ orders[HeadId].qty = 0
    /\ levels' = AdvanceHead
    /\ UNCHANGED <<best, orders, live, fills, volume, callVars, lastId, ops, noAsk>>

(* A faulty test: the head is consumed even if some of it is left. *)
ConsumedAnyway(m) == TRUE
Consumed(m) == orders[HeadId].qty = m

Fill ==
    /\ InLevel
    /\ orders[HeadId].qty # 0
    /\ LET m == Min({taker.qty, orders[HeadId].qty})
       IN  /\ taker' = [taker EXCEPT !.qty = @ - m]
           /\ volume' = volume + m
           /\ orders' = [orders EXCEPT ![HeadId].qty = @ - m]
           /\ live' = IF Consumed(m) THEN live - 1 ELSE live
           /\ levels' = IF Consumed(m) THEN AdvanceHead ELSE levels
    /\ fills' = fills + 1
    /\ UNCHANGED <<best, pc, lvl, lastId, ops, noAsk>>

(* A faulty scan: one level further than it should start. *)
ScanFromSecond(side) ==
    LET beyond == {p \in Ladder : /\ ~IsEmpty(levels[side][p])
                                  /\ IF side = "bid" THEN p < lvl - 1 ELSE p > lvl + 1}
    IN  IF beyond = {} THEN NoBest(side)
        ELSE IF side = "bid" THEN Max(beyond) ELSE Min(beyond)

(* The scan from an exhausted level for the next occupied one, away from   *)
(* the spread; off the end of the ladder it leaves the "no level" value.   *)
Scan(side) ==
    LET beyond == {p \in Ladder : /\ ~IsEmpty(levels[side][p])
                                  /\ IF side = "bid" THEN p < lvl ELSE p > lvl}
    IN  IF beyond = {} THEN NoBest(side)
        ELSE IF side = "bid" THEN Max(beyond) ELSE Min(beyond)

(* The inner loop is over; an exhausted level is reset, which makes its    *)
(* storage reusable, and the best pointer moves on.                        *)
LeaveLevel ==
    /\ pc = "inner"
    /\ taker.qty = 0 \/ IsEmpty(Level)
    /\ LET s == Opposite(taker.side)
       IN  IF IsEmpty(Level)
           THEN /\ levels' = [levels EXCEPT ![s][lvl] = NoLevel]
                /\ best' = [best EXCEPT ![s] = Scan(s)]
           ELSE UNCHANGED <<levels, best>>
    /\ pc' = "outer" /\ lvl' = 0
    /\ UNCHANGED <<orders, live, fills, volume, taker, lastId, ops, noAsk>>

Engine == PickLevel \/ Rest \/ Return \/ SkipCancelled \/ Fill \/ LeaveLevel

Next ==
    \/ \E side \in Sides, price \in Prices, qty \in Qtys : CallLimit(side, price, qty)
    \/ \E id \in 0 .. lastId : CancelCall(id)
    \/ Engine

SafeSpec == Init /\ [][Next]_vars
Spec == SafeSpec /\ WF_vars(Engine)

-------------------------------------------------------------------------------
(* checksum(): the orders it folds, in the order it folds them.            *)

LiveIn(l) ==
    FoldLeft(LAMBDA acc, id : IF orders[id].qty # 0 THEN Append(acc, id) ELSE acc,
             <<>>, Waiting(l))

(* A faulty fold: it does not look whether an order is still live. *)
FoldDeadToo(side) ==
    MapThenFoldSet(LAMBDA ids, acc : acc \o ids, <<>>, LAMBDA p : Waiting(levels[side][p]),
                   Max, Ladder)

(* The loop over the ladder, which comes to the highest price last.        *)
FoldSide(side) ==
    MapThenFoldSet(LAMBDA ids, acc : acc \o ids, <<>>, LAMBDA p : LiveIn(levels[side][p]),
                   Max, Ladder)

Checksum ==
    LET ids == FoldSide("bid") \o FoldSide("ask")
    IN  [k \in DOMAIN ids |-> <<ids[k], orders[ids[k]].price, orders[ids[k]].qty>>]

-------------------------------------------------------------------------------
(* Properties *)

LiveIds == {i \in DOMAIN orders : orders[i].qty # 0}
QueuedAt(id, side, p) == id \in Range(Waiting(levels[side][p]))
SideOf(id) == IF \E p \in Ladder : QueuedAt(id, "bid", p) THEN "bid" ELSE "ask"

(* A live order waits on one side only, at its own price, and not in the   *)
(* consumed part of a level; each level is in arrival order without        *)
(* repetitions.  Slot 0, which a saturated cancel hits, is never live.     *)
QueueDiscipline ==
    /\ \A s \in Sides : \A p \in Ladder :
         \A j, k \in DOMAIN levels[s][p].ids :
             j < k => levels[s][p].ids[j] < levels[s][p].ids[k]
    /\ \A id \in LiveIds :
         /\ id \in 1 .. lastId
         /\ QueuedAt(id, SideOf(id), orders[id].price)
         /\ \A s \in Sides : \A p \in Ladder :
               QueuedAt(id, s, p) => s = SideOf(id) /\ p = orders[id].price

(* Outside the inner loop each best pointer is exact: it names the best    *)
(* level of its side in which an id, live or dead, is waiting.             *)
BestExact ==
    pc # "inner" =>
        \A s \in Sides :
            LET occupied == {p \in Ladder : ~IsEmpty(levels[s][p])}
            IN  best[s] = IF occupied = {} THEN NoBest(s)
                          ELSE IF s = "bid" THEN Max(occupied) ELSE Min(occupied)

(* The hand-kept counter that resting() returns is exact: an order leaves  *)
(* it once, by its last fill or by its first cancel.                       *)
LiveExact == live = Cardinality(LiveIds)

(* checksum() folds every resting order once, in the order all the books   *)
(* fold them: bids before asks, prices ascending, oldest first.            *)
Earlier(i, j) ==
    \/ SideOf(i) = "bid" /\ SideOf(j) = "ask"
    \/ /\ SideOf(i) = SideOf(j)
       /\ \/ orders[i].price < orders[j].price
          \/ orders[i].price = orders[j].price /\ i < j
ChecksumCanonical ==
    LET folded == Checksum
    IN  /\ Range(folded) = {<<i, orders[i].price, orders[i].qty>> : i \in LiveIds}
        /\ \A j, k \in DOMAIN folded : j < k => Earlier(folded[j][1], folded[k][1])

(* The tuned book implements the same price-time priority as the idiomatic *)
(* one, trade by trade, and works on a call until it returns: its fills,   *)
(* volume and resting orders are those of Book on the same operations.     *)
Priority == INSTANCE Clob WITH
                live <- [i \in LiveIds |->
                           [side |-> SideOf(i), price |-> orders[i].price,
                            qty |-> orders[i].qty]]
ImplementsClob == Priority!Spec

===============================================================================
