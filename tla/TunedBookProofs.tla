---------------------------- MODULE TunedBookProofs ---------------------------
(***************************************************************************)
(* Proofs about TunedBook for every ladder, every set of prices on it and  *)
(* any number of calls: the inductive invariant IInv, that what the tuned  *)
(* book keeps by hand - best pointers, heads, the number of live orders -  *)
(* is exact, and that every iteration of its loops is a step of the        *)
(* abstract price-time priority book, Clob.  Then, that the calls the      *)
(* generator (Workload) makes are calls this book is proved for, and what  *)
(* the checksum depends on.                                                *)
(***************************************************************************)
EXTENDS TunedBook, Workload, FiniteSetTheorems, SequenceTheorems, TLAPS

-------------------------------------------------------------------------------
(* The inductive invariant.  BestExact is not inductive: what leaving a    *)
(* level finds rests on the level the inner loop is at having been the     *)
(* best one and no level having become occupied since (Working).           *)

Increasing(queue) == \A j, k \in DOMAIN queue : j < k => queue[j] < queue[k]

(* A level is its ids, oldest first, of which `head' are consumed. *)
LevelOK(l) ==
    /\ l \in [ids : Seq(Nat), head : Nat]
    /\ l.head <= Len(l.ids)
    /\ Increasing(l.ids)

LevelsOK ==
    /\ levels \in [Sides -> [Ladder -> [ids : Seq(Nat), head : Nat]]]
    /\ \A s \in Sides : \A p \in Ladder : LevelOK(levels[s][p])

Takers == [id : Nat \ {0}, side : Sides, price : Prices, qty : Nat]

Types ==
    /\ orders \in [0 .. MaxOps + 1 -> [price : Ladder, qty : Nat]]
    /\ live \in Nat /\ fills \in Nat /\ volume \in Nat
    /\ lastId \in Nat /\ ops \in Nat /\ lastId <= ops /\ ops <= MaxOps
    /\ noAsk \in NoAsks
    /\ pc \in {"idle", "outer", "inner"}
    /\ IF pc = "idle" THEN taker = NoTaker ELSE taker \in Takers /\ taker.id = lastId

(* Every id a level has ever held since it was last reset was submitted    *)
(* before the order a call works on, which has no slot in use yet.         *)
Known ==
    /\ \A s \in Sides : \A p \in Ladder : \A k \in DOMAIN levels[s][p].ids :
         LET i == levels[s][p].ids[k]
         IN  1 <= i /\ i <= lastId /\ (pc # "idle" => i < taker.id)
    /\ pc # "idle" => orders[taker.id].qty = 0

(* No id, live or dead, waits twice. *)
Unique ==
    \A i \in Nat : \A s, t \in Sides : \A p, q \in Ladder :
        QueuedAt(i, s, p) /\ QueuedAt(i, t, q) => s = t /\ p = q

(* A live order waits at its price on one of the sides. *)
Placed == \A i \in LiveIds : \E s \in Sides : QueuedAt(i, s, orders[i].price)

(* Price p is at least as good as q for an incoming order that trades with *)
(* this side of the book.                                                  *)
AsGood(side, p, q) == IF side = "ask" THEN p <= q ELSE p >= q

Occupied(s) == {p \in Ladder : ~IsEmpty(levels[s][p])}

(* The best pointer of a side is exact. *)
BestRight(s) ==
    IF Occupied(s) = {} THEN best[s] = NoBest(s)
    ELSE best[s] \in Occupied(s) /\ \A p \in Occupied(s) : AsGood(s, best[s], p)

(* The pointer of the side the inner loop works on is the only one that    *)
(* may be out of date, and it still names the level the loop is at, than   *)
(* which no occupied one is better.                                        *)
Working ==
    /\ best \in [Sides -> Int]
    /\ \A s \in Sides : (pc = "inner" /\ s = Opposite(taker.side)) \/ BestRight(s)
    /\ pc = "inner" =>
         /\ lvl \in Ladder
         /\ \A p \in Occupied(Opposite(taker.side)) : AsGood(Opposite(taker.side), lvl, p)
         /\ Crosses(taker.side, taker.price, lvl)
         /\ best[Opposite(taker.side)] = lvl

IInv ==
    /\ LevelsOK
    /\ Types
    /\ Known
    /\ Unique
    /\ Placed
    /\ Working
    /\ LiveExact

-------------------------------------------------------------------------------
(* Levels. *)

Waits(l, i) == \E k \in l.head + 1 .. Len(l.ids) : l.ids[k] = i

LEMMA WaitingIs ==
    ASSUME NEW l, LevelOK(l)
    PROVE  \A i : i \in Range(Waiting(l)) <=> Waits(l, i)
<1>1. l.ids \in Seq(Nat) /\ l.head \in Nat /\ Len(l.ids) \in Nat /\ l.head <= Len(l.ids)
  BY DEF LevelOK
<1> DEFINE w == Waiting(l)
           len == Len(l.ids) - l.head
<1>2. DOMAIN w = 1 .. len /\ \A k \in 1 .. len : w[k] = l.ids[l.head + k]
  <2>1. \A i \in l.head + 1 .. Len(l.ids) : l.ids[i] \in Nat
    BY <1>1
  <2>2. /\ w \in Seq(Nat)
        /\ Len(w) = IF l.head + 1 <= Len(l.ids) THEN Len(l.ids) - (l.head + 1) + 1 ELSE 0
        /\ \A k \in 1 .. Len(l.ids) - (l.head + 1) + 1 : w[k] = l.ids[(l.head + 1) + k - 1]
    <3>1. l.head + 1 \in Int /\ Len(l.ids) \in Int
      BY <1>1
    <3>2. ASSUME NEW a \in Int, NEW b \in Int, \A i \in a .. b : l.ids[i] \in Nat
          PROVE  /\ SubSeq(l.ids, a, b) \in Seq(Nat)
                 /\ Len(SubSeq(l.ids, a, b)) = IF a <= b THEN b - a + 1 ELSE 0
                 /\ \A k \in 1 .. b - a + 1 : SubSeq(l.ids, a, b)[k] = l.ids[a + k - 1]
      BY ONLY <3>2, SubSeqProperties
    <3>3. QED
      BY <2>1, <3>1, <3>2 DEF Waiting
  <2>3. /\ Len(l.ids) - (l.head + 1) + 1 = len
        /\ (IF l.head + 1 <= Len(l.ids) THEN len ELSE 0) = len
    BY <1>1
  <2>4. \A k \in 1 .. len : (l.head + 1) + k - 1 = l.head + k
    BY <1>1
  <2> HIDE DEF w, len
  <2>5. DOMAIN w = 1 .. len
    BY <2>2, <2>3
  <2>6. QED
    BY <2>2, <2>3, <2>4, <2>5
<1> HIDE DEF w, len
<1>3. \A k \in 1 .. len : l.head + k \in l.head + 1 .. Len(l.ids)
  BY <1>1 DEF len
<1>4. \A k \in l.head + 1 .. Len(l.ids) : k - l.head \in 1 .. len /\ l.head + (k - l.head) = k
  BY <1>1 DEF len
<1>5. ASSUME NEW i, i \in Range(w) PROVE Waits(l, i)
  <2>1. PICK k \in 1 .. len : i = l.ids[l.head + k]
    BY <1>2, <1>5 DEF Range
  <2>2. QED
    BY <1>3, <2>1 DEF Waits
<1>6. ASSUME NEW i, Waits(l, i) PROVE i \in Range(w)
  <2>1. PICK k \in l.head + 1 .. Len(l.ids) : l.ids[k] = i
    BY <1>6 DEF Waits
  <2>2. k - l.head \in DOMAIN w /\ w[k - l.head] = i
    BY <1>2, <1>4, <2>1
  <2>3. QED
    BY <2>2 DEF Range
<1>7. QED
  BY <1>5, <1>6 DEF w

(* A newer id at the end of a level. *)
LEMMA AppendLevel ==
    ASSUME NEW l, LevelOK(l), NEW n \in Nat, \A k \in DOMAIN l.ids : l.ids[k] < n,
           NEW r, r = [l EXCEPT !.ids = Append(@, n)]
    PROVE  /\ r \in [ids : Seq(Nat), head : Nat] /\ LevelOK(r)
           /\ \A i : Waits(r, i) <=> Waits(l, i) \/ i = n
           /\ ~IsEmpty(r)
           /\ \A k \in DOMAIN r.ids : r.ids[k] = n \/ \E j \in DOMAIN l.ids : r.ids[k] = l.ids[j]
<1> DEFINE len == Len(l.ids)
<1>1. /\ l \in [ids : Seq(Nat), head : Nat] /\ l.ids \in Seq(Nat) /\ l.head \in Nat
      /\ len \in Nat /\ l.head <= len /\ DOMAIN l.ids = 1 .. len
  BY DEF LevelOK
<1>2. r.ids = Append(l.ids, n) /\ r.head = l.head /\ r \in [ids : Seq(Nat), head : Nat]
  <2>1. Append(l.ids, n) \in Seq(Nat)
    BY <1>1, AppendProperties
  <2>2. QED
    BY <1>1, <2>1
<1>3. /\ Len(r.ids) = len + 1 /\ DOMAIN r.ids = 1 .. len + 1
      /\ r.ids[len + 1] = n
      /\ \A k \in 1 .. len : r.ids[k] = l.ids[k] /\ l.ids[k] \in Nat
  <2>1. /\ Append(l.ids, n) \in Seq(Nat) /\ Len(Append(l.ids, n)) = len + 1
        /\ Append(l.ids, n)[len + 1] = n
        /\ \A k \in 1 .. len : Append(l.ids, n)[k] = l.ids[k]
    BY <1>1, AppendProperties
  <2>2. \A k \in 1 .. len : l.ids[k] \in Nat
    BY <1>1
  <2>3. QED
    BY <1>2, <2>1, <2>2
<1> HIDE DEF len
<1>4. \A k \in DOMAIN r.ids : k \in 1 .. len \/ k = len + 1
  BY <1>1, <1>3
<1>5. Increasing(r.ids)
  <2> SUFFICES ASSUME NEW j \in DOMAIN r.ids, NEW k \in DOMAIN r.ids, j < k
               PROVE  r.ids[j] < r.ids[k]
    BY DEF Increasing
  <2>1. j \in 1 .. len
    BY <1>1, <1>3
  <2>2. CASE k \in 1 .. len
    BY <1>1, <1>3, <2>1, <2>2 DEF Increasing, LevelOK
  <2>3. CASE k = len + 1
    BY <1>1, <1>3, <2>1, <2>3
  <2>4. QED
    BY <1>4, <2>2, <2>3
<1>6. LevelOK(r)
  BY <1>1, <1>2, <1>3, <1>5 DEF LevelOK
<1>7. \A k : k \in r.head + 1 .. Len(r.ids) <=> k \in l.head + 1 .. len \/ k = len + 1
  BY <1>1, <1>2, <1>3
<1>8. \A k \in l.head + 1 .. len : r.ids[k] = l.ids[k]
  BY <1>1, <1>3
<1>9. \A i : Waits(r, i) <=> Waits(l, i) \/ i = n
  BY <1>3, <1>7, <1>8 DEF Waits, len
<1>10. ~IsEmpty(r)
  BY <1>1, <1>2, <1>3 DEF IsEmpty
<1>11. \A k \in DOMAIN r.ids : r.ids[k] = n \/ \E j \in DOMAIN l.ids : r.ids[k] = l.ids[j]
  BY <1>1, <1>3, <1>4
<1>12. QED
  BY <1>2, <1>6, <1>9, <1>10, <1>11

(* The oldest waiting id is consumed. *)
LEMMA AdvanceLevel ==
    ASSUME NEW l, LevelOK(l), ~IsEmpty(l),
           NEW h, h = l.ids[l.head + 1],
           NEW r, r = [l EXCEPT !.head = @ + 1]
    PROVE  /\ r \in [ids : Seq(Nat), head : Nat] /\ LevelOK(r) /\ r.ids = l.ids
           /\ h \in Nat /\ Waits(l, h)
           /\ l.head + 1 \in DOMAIN l.ids
           /\ \A i : Waits(r, i) <=> Waits(l, i) /\ i # h
           /\ \A i : Waits(l, i) => h <= i
<1> DEFINE len == Len(l.ids)
<1>1. /\ l \in [ids : Seq(Nat), head : Nat] /\ l.ids \in Seq(Nat) /\ l.head \in Nat
      /\ len \in Nat /\ l.head <= len /\ DOMAIN l.ids = 1 .. len /\ l.head # len
      /\ Increasing(l.ids)
  BY DEF LevelOK, IsEmpty
<1>2. r.ids = l.ids /\ r.head = l.head + 1 /\ r \in [ids : Seq(Nat), head : Nat]
  BY <1>1
<1>3. l.head + 1 \in DOMAIN l.ids /\ h \in Nat
  BY <1>1
<1>4. LevelOK(r)
  <2>1. l.head + 1 <= Len(l.ids)
    BY <1>1
  <2>2. QED
    BY <1>1, <1>2, <2>1 DEF LevelOK
<1>5. \A k \in l.head + 2 .. len : k \in DOMAIN l.ids /\ h < l.ids[k] /\ l.ids[k] \in Nat
  <2> SUFFICES ASSUME NEW k \in l.head + 2 .. len
               PROVE  k \in DOMAIN l.ids /\ h < l.ids[k] /\ l.ids[k] \in Nat
    OBVIOUS
  <2>1. k \in DOMAIN l.ids /\ l.head + 1 < k
    BY <1>1
  <2>2. QED
    BY <1>1, <1>3, <2>1 DEF Increasing
<1>6. \A k : k \in l.head + 1 .. len <=> k = l.head + 1 \/ k \in l.head + 2 .. len
  BY <1>1
<1>7. r.head + 1 .. Len(r.ids) = l.head + 2 .. len
  BY <1>1, <1>2
<1>8. l.head + 1 \in l.head + 1 .. len
  BY <1>1
<1>9. \A i : Waits(l, i) <=> i = h \/ \E k \in l.head + 2 .. len : l.ids[k] = i
  BY <1>6, <1>8 DEF Waits
<1>10. \A i : Waits(r, i) <=> \E k \in l.head + 2 .. len : l.ids[k] = i
  BY <1>2, <1>7 DEF Waits
<1> HIDE DEF len
<1>11. \A i : Waits(r, i) => i # h /\ h <= i
  <2> SUFFICES ASSUME NEW i, Waits(r, i) PROVE i # h /\ h <= i
    OBVIOUS
  <2>1. PICK k \in l.head + 2 .. len : l.ids[k] = i
    BY <1>10
  <2>2. h < i /\ i \in Nat
    BY <1>5, <2>1
  <2>3. QED
    BY <1>3, <2>2
<1>12. h <= h
  BY <1>3
<1>13. QED
  BY <1>2, <1>3, <1>4, <1>9, <1>10, <1>11, <1>12

LEMMA FreshLevel ==
    /\ NoLevel \in [ids : Seq(Nat), head : Nat] /\ LevelOK(NoLevel) /\ IsEmpty(NoLevel)
    /\ \A i : ~Waits(NoLevel, i)
    /\ DOMAIN NoLevel.ids = {}
<1>1. NoLevel.ids = <<>> /\ NoLevel.head = 0 /\ Len(<<>>) = 0 /\ <<>> \in Seq(Nat)
  BY DEF NoLevel
<1>2. NoLevel \in [ids : Seq(Nat), head : Nat] /\ IsEmpty(NoLevel) /\ DOMAIN NoLevel.ids = {}
  BY <1>1 DEF NoLevel, IsEmpty
<1>3. LevelOK(NoLevel)
  BY <1>1, <1>2 DEF LevelOK, Increasing
<1>4. \A i : ~Waits(NoLevel, i)
  BY <1>1 DEF Waits
<1>5. QED
  BY <1>2, <1>3, <1>4

LEMMA EmptyWaits ==
    ASSUME NEW l, LevelOK(l), IsEmpty(l)
    PROVE  \A i : ~Waits(l, i)
  BY DEF LevelOK, IsEmpty, Waits

LEMMA WaitsOccupied ==
    ASSUME NEW l, LevelOK(l), NEW i, Waits(l, i)
    PROVE  ~IsEmpty(l) /\ \E k \in DOMAIN l.ids : l.ids[k] = i
<1>1. ~IsEmpty(l)
  BY EmptyWaits
<1>2. PICK k \in l.head + 1 .. Len(l.ids) : l.ids[k] = i
  BY DEF Waits
<1>3. k \in DOMAIN l.ids
  BY <1>2 DEF LevelOK
<1>4. QED
  BY <1>1, <1>2, <1>3

(* The least and the greatest of a set of slots of the ladder. *)
LEMMA LadderHasLeast ==
    ASSUME NEW S \in SUBSET Ladder, S # {}
    PROVE  \E x \in S : \A y \in S : x <= y
<1>1. S \subseteq Nat
  BY TunedBookAssumption DEF Ladder
<1>2. IsWellFoundedOn(OpToRel(<, Nat), Nat)
  BY NatLessThanWellFounded
<1>3. PICK x \in S : \A y \in S : ~(<<y, x>> \in OpToRel(<, Nat))
  BY <1>1, <1>2, WFMin
<1>4. \A y \in S : ~(y < x)
  BY <1>1, <1>3 DEF OpToRel
<1>5. QED
  BY <1>1, <1>4

LEMMA LadderHasGreatest ==
    ASSUME NEW S \in SUBSET Ladder, S # {}
    PROVE  \E x \in S : \A y \in S : x >= y
<1> DEFINE T == {z \in Ladder : LadderLen - 1 - z \in S}
<1>1. LadderLen \in Nat
  BY TunedBookAssumption
<1>2. \A y \in S : LadderLen - 1 - y \in T
  <2> SUFFICES ASSUME NEW y \in S PROVE LadderLen - 1 - y \in T
    OBVIOUS
  <2>1. y \in 0 .. LadderLen - 1
    BY DEF Ladder
  <2>2. LadderLen - 1 - y \in 0 .. LadderLen - 1 /\ LadderLen - 1 - (LadderLen - 1 - y) = y
    BY <1>1, <2>1
  <2>3. QED
    BY <2>2 DEF Ladder
<1>3. T \in SUBSET Ladder /\ T # {}
  BY <1>2
<1>4. PICK z \in T : \A y \in T : z <= y
  <2> HIDE DEF T
  <2>1. QED
    BY <1>3, LadderHasLeast
<1>5. \A y \in S : LadderLen - 1 - z >= y
  <2> SUFFICES ASSUME NEW y \in S PROVE LadderLen - 1 - z >= y
    OBVIOUS
  <2>1. z <= LadderLen - 1 - y
    BY <1>2, <1>4
  <2>2. z \in Int /\ y \in Int
    BY DEF Ladder
  <2>3. QED
    BY ONLY <1>1, <2>1, <2>2
<1>6. QED
  BY <1>5

LEMMA LeastAndGreatest ==
    ASSUME NEW S \in SUBSET Ladder, S # {}
    PROVE  /\ Min(S) \in S /\ \A y \in S : Min(S) <= y
           /\ Max(S) \in S /\ \A y \in S : Max(S) >= y
<1>1. Min(S) \in S /\ \A y \in S : Min(S) <= y
  BY LadderHasLeast DEF Min
<1>2. Max(S) \in S /\ \A y \in S : Max(S) >= y
  BY LadderHasGreatest DEF Max
<1>3. QED
  BY <1>1, <1>2

LEMMA MinOfTwo ==
    ASSUME NEW a \in Int, NEW b \in Int
    PROVE  Min({a, b}) = IF a <= b THEN a ELSE b
<1>1. \E x \in {a, b} : \A y \in {a, b} : x <= y
  OBVIOUS
<1>2. Min({a, b}) \in {a, b} /\ \A y \in {a, b} : Min({a, b}) <= y
  BY <1>1 DEF Min
<1>3. QED
  BY <1>2

LEMMA MaxOfTwo ==
    ASSUME NEW a \in Int, NEW b \in Int
    PROVE  Max({a, b}) = IF a >= b THEN a ELSE b
<1>1. \E x \in {a, b} : \A y \in {a, b} : x >= y
  OBVIOUS
<1>2. Max({a, b}) \in {a, b} /\ \A y \in {a, b} : Max({a, b}) >= y
  BY <1>1 DEF Max
<1>3. QED
  BY <1>2

-------------------------------------------------------------------------------
(* What the steps do to the levels. *)

QueuesRight ==
    \A i : \A s \in Sides : \A p \in Ladder : QueuedAt(i, s, p) <=> Waits(levels[s][p], i)

LEMMA QueuedIs == LevelsOK => QueuesRight
<1> SUFFICES ASSUME LevelsOK, NEW i, NEW s \in Sides, NEW p \in Ladder
             PROVE  QueuedAt(i, s, p) <=> Waits(levels[s][p], i)
  BY DEF QueuesRight
<1>1. LevelOK(levels[s][p])
  BY DEF LevelsOK
<1>2. QED
  BY <1>1, WaitingIs DEF QueuedAt

LEMMA QueuedBeforeAndAfter ==
    ASSUME LevelsOK, LevelsOK'
    PROVE  \A i : \A s \in Sides : \A p \in Ladder :
               /\ QueuedAt(i, s, p) <=> Waits(levels[s][p], i)
               /\ QueuedAt(i, s, p)' <=> Waits(levels'[s][p], i)
<1> SUFFICES ASSUME NEW i, NEW s \in Sides, NEW p \in Ladder
             PROVE  /\ QueuedAt(i, s, p) <=> Waits(levels[s][p], i)
                    /\ QueuedAt(i, s, p)' <=> Waits(levels'[s][p], i)
  OBVIOUS
<1>1. QueuesRight'
  BY QueuedIs, PTL
<1>2. QueuedAt(i, s, p) <=> Waits(levels[s][p], i)
  BY QueuedIs DEF QueuesRight
<1>3. QueuedAt(i, s, p)' <=> Waits(levels[s][p], i)'
  BY <1>1 DEF QueuesRight
<1>4. Waits(levels[s][p], i)' <=> Waits(levels'[s][p], i)
  BY DEF Waits
<1>5. QED
  BY <1>2, <1>3, <1>4

LEMMA OneLevelChanges ==
    ASSUME LevelsOK, NEW s \in Sides, NEW p \in Ladder, NEW r, LevelOK(r),
           levels' \in [Sides -> [Ladder -> [ids : Seq(Nat), head : Nat]]],
           levels'[s][p] = r,
           \A t \in Sides : \A q \in Ladder :
               ~(t = s /\ q = p) => levels'[t][q] = levels[t][q]
    PROVE  LevelsOK'
<1>1. ASSUME NEW t \in Sides, NEW q \in Ladder PROVE LevelOK(levels'[t][q])
  <2>1. CASE t = s /\ q = p
    BY <2>1
  <2>2. CASE ~(t = s /\ q = p)
    BY <2>2 DEF LevelsOK
  <2>3. QED
    BY <2>1, <2>2
<1>2. \A t \in Sides : \A q \in Ladder : LevelOK(levels[t][q])'
  BY <1>1 DEF LevelOK, Increasing
<1>3. QED
  BY <1>2 DEF LevelsOK

LEMMA LevelsKept ==
    ASSUME LevelsOK, UNCHANGED levels
    PROVE  /\ LevelsOK'
           /\ \A i : \A s \in Sides : \A p \in Ladder : QueuedAt(i, s, p)' <=> QueuedAt(i, s, p)
           /\ \A s \in Sides : Occupied(s)' = Occupied(s)
  BY DEF LevelsOK, LevelOK, Increasing, QueuedAt, Waiting, Occupied, IsEmpty

(* Resting puts the order at the end of the level of its price. *)
LEMMA Queued ==
    ASSUME IInv, Rest
    PROVE  /\ LevelsOK'
           /\ \A i : \A s \in Sides : \A p \in Ladder :
                QueuedAt(i, s, p)' <=>
                    \/ QueuedAt(i, s, p)
                    \/ s = taker.side /\ p = taker.price /\ i = taker.id
           /\ \A s \in Sides :
                Occupied(s)' = IF s = taker.side THEN Occupied(s) \cup {taker.price}
                               ELSE Occupied(s)
           /\ \A s \in Sides : \A p \in Ladder : \A k \in DOMAIN levels'[s][p].ids :
                \/ levels'[s][p].ids[k] = taker.id
                \/ \E j \in DOMAIN levels[s][p].ids :
                     levels'[s][p].ids[k] = levels[s][p].ids[j]
<1> DEFINE side == taker.side
           price == taker.price
           id == taker.id
           l == levels[side][price]
           r == [l EXCEPT !.ids = Append(@, id)]
<1>1. side \in Sides /\ price \in Ladder /\ id \in Nat /\ LevelsOK
  BY TunedBookAssumption DEF IInv, Types, Takers, Rest, Ladder
<1>2. LevelOK(l) /\ l \in [ids : Seq(Nat), head : Nat]
  BY <1>1 DEF LevelsOK
<1>3. \A k \in DOMAIN l.ids : l.ids[k] < id
  BY <1>1 DEF IInv, Known, Rest
<1>4. levels' = [levels EXCEPT ![side][price] = r]
  BY <1>1 DEF Rest, LevelsOK
<1>5. r = [l EXCEPT !.ids = Append(@, id)]
  OBVIOUS
<1> HIDE DEF side, price, id, l, r
<1>6. /\ r \in [ids : Seq(Nat), head : Nat] /\ LevelOK(r)
      /\ \A i : Waits(r, i) <=> Waits(l, i) \/ i = id
      /\ ~IsEmpty(r)
      /\ \A k \in DOMAIN r.ids : r.ids[k] = id \/ \E j \in DOMAIN l.ids : r.ids[k] = l.ids[j]
  <2>1. LevelOK(l) /\ id \in Nat
    BY <1>1, <1>2
  <2>2. QED
    BY ONLY <1>3, <1>5, <2>1, AppendLevel
<1>7. /\ levels'[side][price] = r
      /\ \A t \in Sides : \A q \in Ladder :
           ~(t = side /\ q = price) => levels'[t][q] = levels[t][q]
      /\ LevelsOK'
  <2>1. r \in [ids : Seq(Nat), head : Nat] /\ LevelOK(r)
    BY <1>6
  <2>2. /\ levels'[side][price] = r
        /\ \A t \in Sides : \A q \in Ladder :
             ~(t = side /\ q = price) => levels'[t][q] = levels[t][q]
        /\ levels' \in [Sides -> [Ladder -> [ids : Seq(Nat), head : Nat]]]
    BY <1>1, <1>4, <2>1 DEF LevelsOK
  <2>3. QED
    BY <1>1, <2>1, <2>2, OneLevelChanges
<1>8. ASSUME NEW i, NEW s \in Sides, NEW p \in Ladder
      PROVE  QueuedAt(i, s, p)' <=>
                 QueuedAt(i, s, p) \/ (s = side /\ p = price /\ i = id)
  <2>1. QueuedAt(i, s, p)' <=> Waits(levels'[s][p], i)
    BY <1>1, <1>7, QueuedBeforeAndAfter
  <2>2. QueuedAt(i, s, p) <=> Waits(levels[s][p], i)
    BY <1>1, <1>7, QueuedBeforeAndAfter
  <2>3. CASE s = side /\ p = price
    BY <1>6, <1>7, <2>1, <2>2, <2>3 DEF l
  <2>4. CASE ~(s = side /\ p = price)
    BY <1>7, <2>1, <2>2, <2>4
  <2>5. QED
    BY <2>3, <2>4
<1>9. ASSUME NEW s \in Sides
      PROVE  Occupied(s)' = IF s = side THEN Occupied(s) \cup {price} ELSE Occupied(s)
  <2>1. Occupied(s)' = {p \in Ladder : ~IsEmpty(levels'[s][p])}
    BY DEF Occupied, IsEmpty
  <2>2. \A p \in Ladder : ~IsEmpty(levels'[s][p]) <=>
            ~IsEmpty(levels[s][p]) \/ (s = side /\ p = price)
    BY <1>6, <1>7
  <2>3. QED
    BY <1>1, <2>1, <2>2 DEF Occupied
<1>10. ASSUME NEW s \in Sides, NEW p \in Ladder, NEW k \in DOMAIN levels'[s][p].ids
      PROVE  \/ levels'[s][p].ids[k] = id
             \/ \E j \in DOMAIN levels[s][p].ids : levels'[s][p].ids[k] = levels[s][p].ids[j]
  <2>1. CASE s = side /\ p = price
    <3>1. levels'[s][p].ids = r.ids /\ levels[s][p] = l
      BY <1>7, <2>1 DEF l
    <3>2. k \in DOMAIN r.ids
      BY <3>1
    <3>3. QED
      BY <1>6, <3>1, <3>2
  <2>2. CASE ~(s = side /\ p = price)
    BY <1>7, <2>2
  <2>3. QED
    BY <2>1, <2>2
<1>11. QED
  BY <1>7, <1>8, <1>9, <1>10 DEF side, price, id

(* The level the inner loop is at and its head. *)
LEMMA AtLevel ==
    ASSUME IInv, InLevel
    PROVE  /\ Opposite(taker.side) \in Sides /\ lvl \in Ladder
           /\ LevelOK(Level) /\ ~IsEmpty(Level)
           /\ Level = levels[Opposite(taker.side)][lvl]
           /\ HeadId \in Nat
           /\ QueuedAt(HeadId, Opposite(taker.side), lvl)
           /\ HeadId \in 1 .. lastId /\ HeadId # taker.id
           /\ \A s \in Sides : \A p \in Ladder :
                QueuedAt(HeadId, s, p) => s = Opposite(taker.side) /\ p = lvl
           /\ \A i : QueuedAt(i, Opposite(taker.side), lvl) => HeadId <= i
<1> DEFINE opp == Opposite(taker.side)
<1>1. /\ opp \in Sides /\ lvl \in Ladder /\ LevelsOK
      /\ pc = "inner" /\ taker \in Takers /\ lastId \in Nat
  BY DEF IInv, Types, Working, InLevel, Opposite, Sides
<1>2. LevelOK(Level) /\ ~IsEmpty(Level) /\ Level = levels[opp][lvl]
  BY <1>1 DEF LevelsOK, Level, InLevel
<1>3. /\ HeadId \in Nat /\ Waits(Level, HeadId)
      /\ Level.head + 1 \in DOMAIN Level.ids
      /\ \A i : Waits(Level, i) => HeadId <= i
  <2>1. HeadId = Level.ids[Level.head + 1]
    BY DEF HeadId
  <2>2. PICK r : r = [Level EXCEPT !.head = @ + 1]
    OBVIOUS
  <2>3. LevelOK(Level) /\ ~IsEmpty(Level)
    BY <1>2
  <2>4. QED
    BY ONLY <2>1, <2>2, <2>3, AdvanceLevel
<1>4. \A i : QueuedAt(i, opp, lvl) <=> Waits(Level, i)
  BY <1>1, <1>2, QueuedIs DEF QueuesRight
<1>5. HeadId \in 1 .. lastId /\ HeadId < taker.id /\ taker.id \in Nat
  <2>1. /\ HeadId = levels[opp][lvl].ids[Level.head + 1]
        /\ Level.head + 1 \in DOMAIN levels[opp][lvl].ids
    BY <1>2, <1>3 DEF HeadId
  <2>2. 1 <= HeadId /\ HeadId <= lastId /\ HeadId < taker.id
    <3> HIDE DEF opp
    <3>1. QED
      BY <1>1, <2>1 DEF IInv, Known
  <2>3. QED
    BY <1>1, <1>3, <2>2 DEF Takers
<1>6. HeadId # taker.id
  BY <1>3, <1>5
<1>7. QED
  BY <1>1, <1>2, <1>3, <1>4, <1>5, <1>6 DEF IInv, Unique

LEMMA Advanced ==
    ASSUME IInv, InLevel, levels' = AdvanceHead
    PROVE  /\ LevelsOK'
           /\ \A i : \A s \in Sides : \A p \in Ladder :
                QueuedAt(i, s, p)' <=>
                    /\ QueuedAt(i, s, p)
                    /\ ~(s = Opposite(taker.side) /\ p = lvl /\ i = HeadId)
           /\ \A s \in Sides : /\ Occupied(s)' \subseteq Occupied(s)
                               /\ s # Opposite(taker.side) => Occupied(s)' = Occupied(s)
           /\ \A s \in Sides : \A p \in Ladder : levels'[s][p].ids = levels[s][p].ids
<1> DEFINE opp == Opposite(taker.side)
           l == levels[opp][lvl]
           r == [l EXCEPT !.head = @ + 1]
<1>1. opp \in Sides /\ lvl \in Ladder /\ LevelsOK /\ LevelOK(l) /\ ~IsEmpty(l) /\ Level = l
  BY AtLevel DEF IInv
<1>2. levels' = [levels EXCEPT ![opp][lvl] = r]
  BY <1>1 DEF AdvanceHead, LevelsOK
<1>3. HeadId = l.ids[l.head + 1]
  BY <1>1 DEF HeadId
<1>4. r = [l EXCEPT !.head = @ + 1]
  OBVIOUS
<1> HIDE DEF opp, l, r
<1>5. /\ r \in [ids : Seq(Nat), head : Nat] /\ LevelOK(r) /\ r.ids = l.ids
      /\ \A i : Waits(r, i) <=> Waits(l, i) /\ i # HeadId
  BY <1>1, <1>3, <1>4, AdvanceLevel
<1>6. /\ levels'[opp][lvl] = r
      /\ \A t \in Sides : \A q \in Ladder :
           ~(t = opp /\ q = lvl) => levels'[t][q] = levels[t][q]
      /\ LevelsOK'
  <2>1. r \in [ids : Seq(Nat), head : Nat] /\ LevelOK(r)
    BY <1>5
  <2>2. /\ levels'[opp][lvl] = r
        /\ \A t \in Sides : \A q \in Ladder :
             ~(t = opp /\ q = lvl) => levels'[t][q] = levels[t][q]
        /\ levels' \in [Sides -> [Ladder -> [ids : Seq(Nat), head : Nat]]]
    BY <1>1, <1>2, <2>1 DEF LevelsOK
  <2>3. QED
    BY <1>1, <2>1, <2>2, OneLevelChanges
<1>7. ASSUME NEW i, NEW s \in Sides, NEW p \in Ladder
      PROVE  QueuedAt(i, s, p)' <=>
                 QueuedAt(i, s, p) /\ ~(s = opp /\ p = lvl /\ i = HeadId)
  <2>1. QueuedAt(i, s, p)' <=> Waits(levels'[s][p], i)
    BY <1>1, <1>6, QueuedBeforeAndAfter
  <2>2. QueuedAt(i, s, p) <=> Waits(levels[s][p], i)
    BY <1>1, <1>6, QueuedBeforeAndAfter
  <2>3. CASE s = opp /\ p = lvl
    BY <1>5, <1>6, <2>1, <2>2, <2>3 DEF l
  <2>4. CASE ~(s = opp /\ p = lvl)
    BY <1>6, <2>1, <2>2, <2>4
  <2>5. QED
    BY <2>3, <2>4
<1>8. ASSUME NEW s \in Sides
      PROVE  Occupied(s)' \subseteq Occupied(s) /\ (s # opp => Occupied(s)' = Occupied(s))
  <2>1. Occupied(s)' = {p \in Ladder : ~IsEmpty(levels'[s][p])}
    BY DEF Occupied, IsEmpty
  <2>2. \A p \in Ladder : ~(s = opp /\ p = lvl) =>
            (~IsEmpty(levels'[s][p]) <=> ~IsEmpty(levels[s][p]))
    BY <1>6
  <2>3. s = opp => ~IsEmpty(levels[s][lvl])
    BY <1>1 DEF l
  <2>4. QED
    BY <2>1, <2>2, <2>3 DEF Occupied
<1>9. \A s \in Sides : \A p \in Ladder : levels'[s][p].ids = levels[s][p].ids
  BY <1>5, <1>6 DEF l
<1>10. QED
  BY <1>6, <1>7, <1>8, <1>9 DEF opp

(* Leaving a level resets it if every id in it is consumed. *)
LEMMA ResetLevel ==
    ASSUME IInv, LeaveLevel
    PROVE  /\ LevelsOK'
           /\ \A i : \A s \in Sides : \A p \in Ladder : QueuedAt(i, s, p)' <=> QueuedAt(i, s, p)
           /\ \A s \in Sides : Occupied(s)' = Occupied(s)
           /\ \A s \in Sides : \A p \in Ladder :
                levels'[s][p].ids = levels[s][p].ids \/ DOMAIN levels'[s][p].ids = {}
<1>1. CASE ~IsEmpty(Level)
  <2>1. levels' = levels
    BY <1>1 DEF LeaveLevel
  <2>2. QED
    BY <2>1, LevelsKept DEF IInv
<1>2. CASE IsEmpty(Level)
  <2> DEFINE opp == Opposite(taker.side)
             l == levels[opp][lvl]
  <2>1. opp \in Sides /\ lvl \in Ladder /\ LevelsOK /\ IsEmpty(l)
    BY <1>2 DEF IInv, Types, Takers, Working, Opposite, Sides, LeaveLevel, Level
  <2>2. LevelOK(l)
    BY <2>1 DEF LevelsOK
  <2>3. levels' = [levels EXCEPT ![opp][lvl] = NoLevel]
    BY <1>2 DEF LeaveLevel
  <2>4. \A i : ~Waits(l, i)
    BY <2>1, <2>2, EmptyWaits
  <2> HIDE DEF opp, l
  <2>5. /\ levels'[opp][lvl] = NoLevel
        /\ \A t \in Sides : \A q \in Ladder :
             ~(t = opp /\ q = lvl) => levels'[t][q] = levels[t][q]
        /\ LevelsOK'
    <3>1. NoLevel \in [ids : Seq(Nat), head : Nat] /\ LevelOK(NoLevel)
      BY FreshLevel
    <3>2. /\ levels'[opp][lvl] = NoLevel
          /\ \A t \in Sides : \A q \in Ladder :
               ~(t = opp /\ q = lvl) => levels'[t][q] = levels[t][q]
          /\ levels' \in [Sides -> [Ladder -> [ids : Seq(Nat), head : Nat]]]
      BY <2>1, <2>3, <3>1 DEF LevelsOK
    <3>3. QED
      BY <2>1, <3>1, <3>2, OneLevelChanges
  <2>6. ASSUME NEW i, NEW s \in Sides, NEW p \in Ladder
        PROVE  QueuedAt(i, s, p)' <=> QueuedAt(i, s, p)
    <3>1. QueuedAt(i, s, p)' <=> Waits(levels'[s][p], i)
      BY <2>1, <2>5, QueuedBeforeAndAfter
    <3>2. QueuedAt(i, s, p) <=> Waits(levels[s][p], i)
      BY <2>1, <2>5, QueuedBeforeAndAfter
    <3>3. CASE s = opp /\ p = lvl
      BY <2>4, <2>5, <3>1, <3>2, <3>3, FreshLevel DEF l
    <3>4. CASE ~(s = opp /\ p = lvl)
      BY <2>5, <3>1, <3>2, <3>4
    <3>5. QED
      BY <3>3, <3>4
  <2>7. ASSUME NEW s \in Sides PROVE Occupied(s)' = Occupied(s)
    <3>1. Occupied(s)' = {p \in Ladder : ~IsEmpty(levels'[s][p])}
      BY DEF Occupied, IsEmpty
    <3>2. \A p \in Ladder : ~IsEmpty(levels'[s][p]) <=> ~IsEmpty(levels[s][p])
      BY <2>1, <2>5, FreshLevel DEF l
    <3>3. QED
      BY <3>1, <3>2 DEF Occupied
  <2>8. \A s \in Sides : \A p \in Ladder :
            levels'[s][p].ids = levels[s][p].ids \/ DOMAIN levels'[s][p].ids = {}
    BY <2>5, FreshLevel
  <2>9. QED
    BY <2>5, <2>6, <2>7, <2>8
<1>3. QED
  BY <1>1, <1>2

-------------------------------------------------------------------------------
(* The number of live orders and the best pointers. *)

LEMMA LiveFinite == Types => IsFiniteSet(LiveIds) /\ Cardinality(LiveIds) \in Nat
<1> SUFFICES ASSUME Types PROVE IsFiniteSet(LiveIds) /\ Cardinality(LiveIds) \in Nat
  OBVIOUS
<1>1. IsFiniteSet(0 .. MaxOps + 1)
  BY TunedBookAssumption, FS_Interval
<1>2. LiveIds \subseteq 0 .. MaxOps + 1
  BY DEF Types, LiveIds
<1>3. IsFiniteSet(LiveIds)
  BY <1>1, <1>2, FS_Subset
<1>4. QED
  BY <1>3, FS_CardinalityType

LEMMA OneDies ==
    ASSUME IInv, NEW id \in LiveIds, LiveIds' = LiveIds \ {id}, live' = live - 1
    PROVE  LiveExact' /\ live' \in Nat
<1>1. IsFiniteSet(LiveIds) /\ IsFiniteSet(LiveIds \ {id})
  BY LiveFinite, FS_RemoveElement DEF IInv
<1>2. Cardinality(LiveIds \ {id}) = Cardinality(LiveIds) - 1
  BY <1>1, FS_RemoveElement
<1>3. Cardinality(LiveIds \ {id}) \in Nat
  BY <1>1, FS_CardinalityType
<1>4. QED
  BY <1>2, <1>3 DEF IInv, LiveExact

LEMMA OneRests ==
    ASSUME IInv, NEW id, id \notin LiveIds, LiveIds' = LiveIds \cup {id}, live' = live + 1
    PROVE  LiveExact' /\ live' \in Nat
<1>1. IsFiniteSet(LiveIds)
  BY LiveFinite DEF IInv
<1>2. Cardinality(LiveIds \cup {id}) = Cardinality(LiveIds) + 1
  BY <1>1, FS_AddElement
<1>3. QED
  BY <1>2 DEF IInv, LiveExact, Types

LEMMA BestStays ==
    ASSUME NEW s \in Sides, BestRight(s), best'[s] = best[s], noAsk' = noAsk,
           Occupied(s)' = Occupied(s)
    PROVE  BestRight(s)'
  BY DEF BestRight, AsGood, NoBest

(* What resting at price does to the best pointer. *)
LEMMA BestAdds ==
    ASSUME IInv, NEW s \in Sides, NEW p \in Ladder, BestRight(s),
           best'[s] = BetterOf(s, best[s], p), noAsk' = noAsk,
           Occupied(s)' = Occupied(s) \cup {p}
    PROVE  BestRight(s)' /\ best'[s] \in Int
<1> DEFINE b == best[s]
           c == best'[s]
<1>1. b \in Int /\ p \in Int /\ 0 <= p /\ p < LadderLen /\ noAsk \in Int /\ noAsk >= LadderLen
      /\ LadderLen \in Int
  BY TunedBookAssumption DEF IInv, Working, Types, Ladder
<1>2. /\ s = "bid" => c = IF b >= p THEN b ELSE p
      /\ s = "ask" => c = IF b <= p THEN b ELSE p
  BY <1>1, MinOfTwo, MaxOfTwo DEF BetterOf
<1>3. s = "bid" \/ s = "ask"
  BY DEF Sides
<1>4. c \in Int
  BY <1>1, <1>2, <1>3
<1>5. CASE Occupied(s) = {}
  <2>1. b = IF s = "bid" THEN -1 ELSE noAsk
    BY <1>5 DEF BestRight, NoBest
  <2>2. c = p
    <3> HIDE DEF b, c
    <3>1. CASE s = "bid"
      BY <1>1, <1>2, <2>1, <3>1
    <3>2. CASE s = "ask"
      BY <1>1, <1>2, <2>1, <3>2
    <3>3. QED
      BY <1>3, <3>1, <3>2
  <2>3. Occupied(s)' = {p}
    BY <1>5
  <2>4. AsGood(s, p, p)
    BY <1>1 DEF AsGood
  <2>5. BestRight(s)'
    BY <2>2, <2>3, <2>4 DEF BestRight, AsGood
  <2>6. QED
    BY <1>4, <2>5
<1>6. CASE Occupied(s) # {}
  <2>1. b \in Occupied(s) /\ \A q \in Occupied(s) : AsGood(s, b, q)
    BY <1>6 DEF BestRight
  <2>2. \A q \in Occupied(s) : q \in Int
    BY DEF Occupied, Ladder
  <2> HIDE DEF b, c
  <2>3. c \in Occupied(s) \cup {p}
    BY <1>2, <1>3, <2>1
  <2>4. \A q \in Occupied(s) \cup {p} : AsGood(s, c, q)
    BY <1>1, <1>2, <1>3, <2>1, <2>2 DEF AsGood
  <2>5. BestRight(s)'
    BY <1>6, <2>3, <2>4 DEF BestRight, AsGood, c
  <2>6. QED
    BY <1>4, <2>5 DEF c
<1>7. QED
  BY <1>5, <1>6

(* The scan from an exhausted level finds the best of those occupied. *)
LEMMA ScanFinds ==
    ASSUME IInv, pc = "inner", IsEmpty(Level),
           NEW s, s = Opposite(taker.side), best'[s] = Scan(s), noAsk' = noAsk,
           Occupied(s)' = Occupied(s)
    PROVE  BestRight(s)' /\ best'[s] \in Int
<1>1. s \in Sides /\ lvl \in Ladder /\ \A p \in Occupied(s) : AsGood(s, lvl, p)
  BY DEF IInv, Working, Types, Takers, Opposite, Sides
<1>2. lvl \notin Occupied(s) /\ lvl \in Int /\ \A p \in Occupied(s) : p \in Int
  BY <1>1 DEF Occupied, Level, Ladder
<1>3. {p \in Ladder : /\ ~IsEmpty(levels[s][p])
                      /\ IF s = "bid" THEN p < lvl ELSE p > lvl} = Occupied(s)
  <2>1. \A p \in Occupied(s) : IF s = "bid" THEN p < lvl ELSE p > lvl
    <3>1. CASE s = "bid"
      BY <1>1, <1>2, <3>1 DEF AsGood
    <3>2. CASE s = "ask"
      BY <1>1, <1>2, <3>2 DEF AsGood
    <3>3. QED
      BY <1>1, <3>1, <3>2 DEF Sides
  <2>2. QED
    BY <2>1 DEF Occupied
<1>4. best'[s] = IF Occupied(s) = {} THEN NoBest(s)
                 ELSE IF s = "bid" THEN Max(Occupied(s)) ELSE Min(Occupied(s))
  BY <1>3 DEF Scan
<1>5. NoBest(s) \in Int
  BY TunedBookAssumption DEF NoBest, IInv, Types
<1>6. CASE Occupied(s) = {}
  BY <1>4, <1>5, <1>6 DEF BestRight, NoBest
<1>7. CASE Occupied(s) # {}
  <2>1. Occupied(s) \in SUBSET Ladder
    BY DEF Occupied
  <2>2. best'[s] \in Occupied(s) /\ \A p \in Occupied(s) : AsGood(s, best'[s], p)
    <3> DEFINE O == Occupied(s)
    <3>1. /\ Min(O) \in O /\ \A y \in O : Min(O) <= y
          /\ Max(O) \in O /\ \A y \in O : Max(O) >= y
      <4> HIDE DEF O
      <4>1. QED
        BY <1>7, <2>1, LeastAndGreatest DEF O
    <3>2. s = "bid" \/ s = "ask"
      BY <1>1 DEF Sides
    <3>3. QED
      BY <1>4, <1>7, <3>1, <3>2 DEF AsGood
  <2>3. QED
    BY <1>2, <1>7, <2>2 DEF BestRight, AsGood
<1>8. QED
  BY <1>6, <1>7

-------------------------------------------------------------------------------
(* Every step preserves the inductive invariant. *)

LEMMA InitIInv == Init => IInv
<1> SUFFICES ASSUME Init PROVE IInv
  OBVIOUS
<1> USE DEF Init
<1>1. LevelsOK /\ \A s \in Sides : \A p \in Ladder : levels[s][p] = NoLevel
  BY FreshLevel DEF LevelsOK
<1>2. /\ \A i : \A s \in Sides : \A p \in Ladder : ~QueuedAt(i, s, p)
      /\ \A s \in Sides : Occupied(s) = {}
  BY <1>1, FreshLevel, QueuedIs DEF QueuesRight, Occupied
<1>3. LiveIds = {}
  BY DEF LiveIds
<1>4. Types
  BY TunedBookAssumption DEF Types, Ladder
<1>5. Known
  BY <1>1, FreshLevel DEF Known
<1>6. Unique /\ Placed
  BY <1>2, <1>3 DEF Unique, Placed
<1>7. Working
  <2>1. noAsk \in Int
    BY TunedBookAssumption
  <2>2. QED
    BY <1>2, <2>1 DEF Working, BestRight, NoBest
<1>8. LiveExact
  BY <1>3, FS_EmptySet DEF LiveExact
<1>9. QED
  BY <1>1, <1>4, <1>5, <1>6, <1>7, <1>8 DEF IInv

(* An id that waits was submitted before the order a call works on. *)
LEMMA QueuedIsKnown ==
    ASSUME IInv, NEW i, NEW s \in Sides, NEW p \in Ladder, QueuedAt(i, s, p)
    PROVE  i \in Nat /\ 1 <= i /\ i <= lastId /\ (pc # "idle" => i < taker.id)
<1>1. LevelOK(levels[s][p]) /\ Waits(levels[s][p], i)
  BY QueuedIs DEF IInv, LevelsOK, QueuesRight
<1>2. PICK k \in DOMAIN levels[s][p].ids : levels[s][p].ids[k] = i
  BY <1>1, WaitsOccupied
<1>3. i \in Nat
  BY <1>1, <1>2 DEF LevelOK
<1>4. QED
  BY <1>2, <1>3 DEF IInv, Known

LEMMA CallLimitStep ==
    ASSUME IInv, NEW side \in Sides, NEW price \in Prices, NEW qty \in Qtys,
           CallLimit(side, price, qty)
    PROVE  IInv'
<1> USE DEF CallLimit, bookVars
<1>1. /\ LevelsOK'
      /\ \A i : \A s \in Sides : \A p \in Ladder : QueuedAt(i, s, p)' <=> QueuedAt(i, s, p)
      /\ \A s \in Sides : Occupied(s)' = Occupied(s)
  BY LevelsKept DEF IInv
<1>2. /\ lastId \in Nat /\ lastId + 1 \in 0 .. MaxOps + 1
      /\ taker'.id = lastId + 1 /\ lastId' = lastId + 1
  BY TunedBookAssumption DEF IInv, Types
<1>3. taker' \in Takers
  BY <1>2, TunedBookAssumption DEF Takers
<1>4. Types'
  BY <1>2, <1>3, TunedBookAssumption DEF IInv, Types
<1>5. orders[lastId + 1].qty = 0
  <2> SUFFICES ASSUME lastId + 1 \in LiveIds PROVE FALSE
    BY <1>2 DEF LiveIds, IInv, Types
  <2>1. PICK s \in Sides : QueuedAt(lastId + 1, s, orders[lastId + 1].price)
    BY DEF IInv, Placed
  <2>2. orders[lastId + 1].price \in Ladder
    BY <1>2 DEF IInv, Types
  <2>3. lastId + 1 <= lastId
    BY <2>1, <2>2, QueuedIsKnown
  <2>4. QED
    BY <1>2, <2>3
<1>6. Known'
  <2>1. ASSUME NEW s \in Sides, NEW p \in Ladder, NEW k \in DOMAIN levels'[s][p].ids
        PROVE  /\ 1 <= levels'[s][p].ids[k]
               /\ levels'[s][p].ids[k] <= lastId + 1 /\ levels'[s][p].ids[k] < lastId + 1
    <3>1. levels'[s][p] = levels[s][p] /\ LevelOK(levels[s][p])
      BY DEF IInv, LevelsOK
    <3>2. levels[s][p].ids[k] \in Nat
      BY <3>1 DEF LevelOK
    <3>3. 1 <= levels[s][p].ids[k] /\ levels[s][p].ids[k] <= lastId
      BY DEF IInv, Known
    <3>4. QED
      BY <1>2, <3>1, <3>2, <3>3
  <2>2. QED
    BY <1>2, <1>5, <2>1 DEF Known
<1>7. Unique' /\ Placed'
  BY <1>1 DEF IInv, Unique, Placed, Types, LiveIds
<1>8. Working'
  <2>1. \A s \in Sides : BestRight(s)'
    BY <1>1, BestStays DEF IInv, Working
  <2>2. QED
    BY <2>1 DEF IInv, Working
<1>9. LiveExact'
  BY DEF IInv, LiveExact, LiveIds
<1>10. QED
  BY <1>1, <1>4, <1>6, <1>7, <1>8, <1>9 DEF IInv

LEMMA CancelCallStep ==
    ASSUME IInv, NEW id \in 0 .. lastId, CancelCall(id)
    PROVE  IInv'
<1> USE DEF CancelCall, callVars
<1>1. /\ LevelsOK'
      /\ \A i : \A s \in Sides : \A p \in Ladder : QueuedAt(i, s, p)' <=> QueuedAt(i, s, p)
      /\ \A s \in Sides : Occupied(s)' = Occupied(s)
  BY LevelsKept DEF IInv
<1>2. /\ orders \in [0 .. MaxOps + 1 -> [price : Ladder, qty : Nat]]
      /\ id \in DOMAIN orders
  BY TunedBookAssumption DEF IInv, Types
<1>3. /\ orders' \in [0 .. MaxOps + 1 -> [price : Ladder, qty : Nat]]
      /\ \A i \in DOMAIN orders : orders'[i].price = orders[i].price
      /\ LiveIds' = LiveIds \ {id}
  <2>1. CASE Cancellable(id)
    <3>1. orders' = [orders EXCEPT ![id].qty = 0]
      BY <2>1
    <3>2. orders' \in [0 .. MaxOps + 1 -> [price : Ladder, qty : Nat]]
      BY <1>2, <3>1
    <3>3. \A i \in DOMAIN orders : orders'[i].price = orders[i].price
      BY <1>2, <3>1
    <3>4. \A i \in DOMAIN orders : orders'[i].qty = IF i = id THEN 0 ELSE orders[i].qty
      BY <1>2, <3>1
    <3>5. QED
      BY <1>2, <3>2, <3>3, <3>4 DEF LiveIds
  <2>2. CASE ~Cancellable(id)
    BY <1>2, <2>2 DEF Cancellable, LiveIds
  <2>3. QED
    BY <2>1, <2>2
<1>4. LiveExact' /\ live' \in Nat
  <2>1. CASE Cancellable(id)
    <3>1. id \in LiveIds /\ live' = live - 1
      BY <1>2, <2>1 DEF Cancellable, LiveIds
    <3>2. QED
      BY <1>3, <3>1, OneDies
  <2>2. CASE ~Cancellable(id)
    BY <2>2 DEF IInv, LiveExact, LiveIds, Types
  <2>3. QED
    BY <2>1, <2>2
<1>5. Types'
  BY <1>3, <1>4, TunedBookAssumption DEF IInv, Types
<1>6. Known'
  BY DEF IInv, Known
<1>7. Unique' /\ Placed'
  <2>1. Unique'
    BY <1>1 DEF IInv, Unique
  <2>2. \A i \in LiveIds' : i \in LiveIds /\ orders'[i].price = orders[i].price
    BY <1>2, <1>3 DEF LiveIds
  <2>3. \A i \in LiveIds : orders[i].price \in Ladder
    BY <1>2 DEF LiveIds
  <2>4. QED
    BY <1>1, <2>1, <2>2, <2>3 DEF IInv, Placed
<1>8. Working'
  <2>1. \A s \in Sides : BestRight(s)'
    BY <1>1, BestStays DEF IInv, Working
  <2>2. QED
    BY <2>1 DEF IInv, Working
<1>9. QED
  BY <1>1, <1>4, <1>5, <1>6, <1>7, <1>8 DEF IInv

LEMMA PickLevelStep == ASSUME IInv, PickLevel PROVE IInv'
<1> USE DEF PickLevel, bookVars
<1>1. /\ LevelsOK'
      /\ \A i : \A s \in Sides : \A p \in Ladder : QueuedAt(i, s, p)' <=> QueuedAt(i, s, p)
      /\ \A s \in Sides : Occupied(s)' = Occupied(s)
  BY LevelsKept DEF IInv
<1>2. Types'
  BY DEF IInv, Types
<1>3. Known'
  BY DEF IInv, Known
<1>4. Unique' /\ Placed'
  BY <1>1 DEF IInv, Unique, Placed, Types, LiveIds
<1>5. Working'
  <2>1. \A s \in Sides : BestRight(s)'
    BY <1>1, BestStays DEF IInv, Working
  <2>2. PICK opp \in Sides : opp = Opposite(taker.side)
    BY DEF IInv, Types, Takers, Opposite, Sides
  <2>3. /\ lvl' = best[opp] /\ best[opp] \in Int
        /\ 0 <= best[opp] /\ best[opp] < LadderLen
        /\ Crosses(taker.side, taker.price, best[opp])
    BY <2>2 DEF CrossesBest, IInv, Working
  <2>4. lvl' \in Ladder
    BY <2>3, TunedBookAssumption DEF Ladder
  <2>5. \A p \in Occupied(opp) : AsGood(opp, lvl', p)
    BY <2>3 DEF IInv, Working, BestRight
  <2>6. /\ Opposite(taker'.side) = opp /\ best' = best
        /\ Crosses(taker'.side, taker'.price, lvl')
    BY <2>2, <2>3
  <2>7. best' \in [Sides -> Int]
    BY DEF IInv, Working
  <2>8. Opposite(taker.side)' = opp /\ best'[opp] = lvl'
    BY <2>2, <2>3, <2>6 DEF Opposite
  <2>9. \A p \in Occupied(Opposite(taker.side))' : AsGood(Opposite(taker.side), lvl, p)'
    BY <2>2, <2>5 DEF Occupied, AsGood, Opposite, IsEmpty
  <2>10. Crosses(taker.side, taker.price, lvl)'
    BY <2>6 DEF Crosses
  <2>11. QED
    BY <2>1, <2>4, <2>7, <2>8, <2>9, <2>10 DEF Working
<1>6. LiveExact'
  BY DEF IInv, LiveExact, LiveIds
<1>7. QED
  BY <1>1, <1>2, <1>3, <1>4, <1>5, <1>6 DEF IInv

LEMMA RestStep == ASSUME IInv, Rest PROVE IInv'
<1> USE DEF Rest
<1> DEFINE side == taker.side
           price == taker.price
           id == taker.id
<1>1. /\ taker \in Takers /\ id = lastId /\ pc = "outer"
      /\ side \in Sides /\ price \in Ladder /\ id \in Nat \ {0} /\ taker.qty \in Nat \ {0}
      /\ id \in 0 .. MaxOps + 1 /\ orders[id].qty = 0
  BY TunedBookAssumption DEF IInv, Types, Takers, Known, Ladder
<1>2. /\ LevelsOK'
      /\ \A i : \A s \in Sides : \A p \in Ladder :
           QueuedAt(i, s, p)' <=> QueuedAt(i, s, p) \/ (s = side /\ p = price /\ i = id)
      /\ \A s \in Sides :
           Occupied(s)' = IF s = side THEN Occupied(s) \cup {price} ELSE Occupied(s)
      /\ \A s \in Sides : \A p \in Ladder : \A k \in DOMAIN levels'[s][p].ids :
           \/ levels'[s][p].ids[k] = id
           \/ \E j \in DOMAIN levels[s][p].ids :
                levels'[s][p].ids[k] = levels[s][p].ids[j]
  BY Queued
<1>3. /\ orders' = [orders EXCEPT ![id] = [price |-> price, qty |-> taker.qty]]
      /\ live' = live + 1 /\ pc' = "idle" /\ lastId' = lastId /\ noAsk' = noAsk
  OBVIOUS
<1>4. \A s \in Sides : best'[s] = IF s = side THEN BetterOf(s, best[s], price) ELSE best[s]
  BY <1>1 DEF IInv, Working
<1>5. best' \in [Sides -> Int] /\ \A s \in Sides : BestRight(s)'
  <2>1. \A s \in Sides : BestRight(s)
    BY <1>1 DEF IInv, Working
  <2>2. ASSUME NEW s \in Sides PROVE BestRight(s)' /\ best'[s] \in Int
    <3>1. CASE s = side
      <4>1. PICK p \in Ladder : p = price
        BY <1>1
      <4>2. best'[s] = BetterOf(s, best[s], p) /\ Occupied(s)' = Occupied(s) \cup {p}
        BY <1>2, <1>4, <3>1, <4>1
      <4>3. QED
        BY <1>3, <2>1, <4>2, BestAdds
    <3>2. CASE s # side
      BY <1>2, <1>3, <1>4, <2>1, <3>2, BestStays DEF IInv, Working
    <3>3. QED
      BY <3>1, <3>2
  <2>3. QED
    BY <2>2 DEF IInv, Working
<1> HIDE DEF side, price, id
<1>6. /\ orders' \in [0 .. MaxOps + 1 -> [price : Ladder, qty : Nat]]
      /\ orders'[id].price = price
      /\ \A i \in DOMAIN orders : i # id => orders'[i] = orders[i]
      /\ LiveIds' = LiveIds \cup {id} /\ id \notin LiveIds
  <2>1. orders \in [0 .. MaxOps + 1 -> [price : Ladder, qty : Nat]]
    BY DEF IInv, Types
  <2>2. /\ orders' \in [0 .. MaxOps + 1 -> [price : Ladder, qty : Nat]]
        /\ orders'[id] = [price |-> price, qty |-> taker.qty]
        /\ \A i \in DOMAIN orders : i # id => orders'[i] = orders[i]
    BY <1>1, <1>3, <2>1
  <2>3. DOMAIN orders' = DOMAIN orders
    BY <1>3
  <2>4. LiveIds' = LiveIds \cup {id} /\ id \notin LiveIds
    BY <1>1, <2>1, <2>2, <2>3 DEF LiveIds
  <2>5. QED
    BY <2>2, <2>4
<1>7. LiveExact' /\ live' \in Nat
  BY <1>3, <1>6, OneRests
<1>8. Types'
  BY <1>3, <1>6, <1>7 DEF IInv, Types
<1>9. Known'
  <2>1. ASSUME NEW s \in Sides, NEW p \in Ladder, NEW k \in DOMAIN levels'[s][p].ids
        PROVE  1 <= levels'[s][p].ids[k] /\ levels'[s][p].ids[k] <= lastId
    <3>1. CASE levels'[s][p].ids[k] = id
      <4>1. id \in Nat \ {0} /\ id = lastId
        BY <1>1
      <4>2. 1 <= id /\ id <= lastId
        BY ONLY <4>1
      <4>3. QED
        BY ONLY <3>1, <4>2
    <3>2. CASE \E j \in DOMAIN levels[s][p].ids : levels'[s][p].ids[k] = levels[s][p].ids[j]
      BY <3>2 DEF IInv, Known
    <3>3. QED
      BY <1>2, <3>1, <3>2
  <2>2. pc' = "idle" /\ lastId' = lastId
    BY <1>3
  <2>3. QED
    BY ONLY <2>1, <2>2 DEF Known
<1>10. Unique'
  <2>1. \A s \in Sides : \A p \in Ladder : ~QueuedAt(id, s, p)
    <3> SUFFICES ASSUME NEW s \in Sides, NEW p \in Ladder, QueuedAt(id, s, p) PROVE FALSE
      OBVIOUS
    <3>1. id < id
      BY <1>1, QueuedIsKnown DEF id
    <3>2. QED
      BY <1>1, <3>1
  <2>2. QED
    BY <1>2, <2>1 DEF IInv, Unique
<1>11. Placed'
  <2>1. ASSUME NEW i \in LiveIds' PROVE \E s \in Sides : QueuedAt(i, s, orders[i].price)'
    <3>1. CASE i = id
      <4>1. PICK s \in Sides, p \in Ladder : s = side /\ p = price
        BY <1>1
      <4>2. QueuedAt(i, s, p)' /\ orders'[i].price = p
        BY <1>2, <1>6, <3>1, <4>1
      <4>3. QED
        BY <4>2
    <3>2. CASE i # id
      <4>1. i \in LiveIds /\ orders'[i] = orders[i] /\ orders[i].price \in Ladder
        BY <1>6, <3>2 DEF LiveIds, IInv, Types
      <4>2. PICK s \in Sides : QueuedAt(i, s, orders[i].price)
        BY <4>1 DEF IInv, Placed
      <4>3. PICK p \in Ladder : p = orders[i].price
        BY <4>1
      <4>4. QueuedAt(i, s, p)' /\ orders'[i].price = p
        BY <1>2, <4>1, <4>2, <4>3
      <4>5. QED
        BY <4>4
    <3>3. QED
      BY <3>1, <3>2
  <2>2. QED
    BY <2>1 DEF Placed
<1>12. Working'
  BY <1>3, <1>5 DEF Working
<1>13. QED
  BY <1>2, <1>7, <1>8, <1>9, <1>10, <1>11, <1>12 DEF IInv

LEMMA ReturnStep == ASSUME IInv, Return PROVE IInv'
<1> USE DEF Return, bookVars
<1>1. /\ LevelsOK'
      /\ \A i : \A s \in Sides : \A p \in Ladder : QueuedAt(i, s, p)' <=> QueuedAt(i, s, p)
      /\ \A s \in Sides : Occupied(s)' = Occupied(s)
  BY LevelsKept DEF IInv
<1>2. Types'
  BY DEF IInv, Types
<1>3. Known'
  BY DEF IInv, Known
<1>4. Unique' /\ Placed'
  BY <1>1 DEF IInv, Unique, Placed, Types, LiveIds
<1>5. Working'
  <2>1. \A s \in Sides : BestRight(s)'
    BY <1>1, BestStays DEF IInv, Working
  <2>2. QED
    BY <2>1 DEF IInv, Working
<1>6. LiveExact'
  BY DEF IInv, LiveExact, LiveIds
<1>7. QED
  BY <1>1, <1>2, <1>3, <1>4, <1>5, <1>6 DEF IInv

(* The pointers after a step of the inner loop. *)
LEMMA WorkingStays ==
    ASSUME IInv, pc = "inner", UNCHANGED <<best, lvl, noAsk>>, pc' = "inner",
           taker'.side = taker.side, taker'.price = taker.price,
           NEW opp \in Sides, opp = Opposite(taker.side),
           \A s \in Sides : /\ Occupied(s)' \subseteq Occupied(s)
                            /\ s # opp => Occupied(s)' = Occupied(s)
    PROVE  Working'
<1>1. Opposite(taker.side)' = opp
  BY DEF Opposite
<1>2. \A s \in Sides : s # opp => BestRight(s)'
  BY BestStays DEF IInv, Working
<1>3. /\ lvl' \in Ladder /\ best' \in [Sides -> Int] /\ best'[opp] = lvl'
      /\ \A p \in Occupied(opp)' : AsGood(opp, lvl, p)
  BY DEF IInv, Working
<1>4. \A p \in Occupied(Opposite(taker.side))' : AsGood(Opposite(taker.side), lvl, p)'
  BY <1>1, <1>3 DEF AsGood, Occupied, IsEmpty
<1>5. Crosses(taker.side, taker.price, lvl)'
  BY DEF IInv, Working, Crosses
<1>6. QED
  BY <1>1, <1>2, <1>3, <1>4, <1>5 DEF Working

LEMMA SkipCancelledStep == ASSUME IInv, SkipCancelled PROVE IInv'
<1> USE DEF SkipCancelled, callVars
<1>1. /\ LevelsOK'
      /\ \A i : \A s \in Sides : \A p \in Ladder :
           QueuedAt(i, s, p)' <=>
               QueuedAt(i, s, p) /\ ~(s = Opposite(taker.side) /\ p = lvl /\ i = HeadId)
      /\ \A s \in Sides : /\ Occupied(s)' \subseteq Occupied(s)
                          /\ s # Opposite(taker.side) => Occupied(s)' = Occupied(s)
      /\ \A s \in Sides : \A p \in Ladder : levels'[s][p].ids = levels[s][p].ids
  BY Advanced
<1>2. Types'
  BY DEF IInv, Types
<1>3. Known'
  BY <1>1 DEF IInv, Known
<1>4. Unique'
  BY <1>1 DEF IInv, Unique
<1>5. Placed'
  <2>1. HeadId \notin LiveIds
    BY DEF LiveIds
  <2>2. LiveIds' = LiveIds /\ \A i \in LiveIds : orders[i].price \in Ladder
    BY DEF LiveIds, IInv, Types
  <2>3. QED
    BY <1>1, <2>1, <2>2 DEF IInv, Placed
<1>6. Working'
  <2>1. PICK opp \in Sides : opp = Opposite(taker.side)
    BY AtLevel
  <2>2. QED
    BY <1>1, <2>1, WorkingStays DEF InLevel
<1>7. LiveExact'
  BY DEF IInv, LiveExact, LiveIds
<1>8. QED
  BY <1>1, <1>2, <1>3, <1>4, <1>5, <1>6, <1>7 DEF IInv

(* One trade: m is traded with the head. *)
LEMMA Traded ==
    ASSUME IInv, Fill, NEW head, head = HeadId,
           NEW m, m = Min({taker.qty, orders[head].qty})
    PROVE  /\ head \in LiveIds /\ head \in DOMAIN orders
           /\ orders[head].qty \in Nat \ {0}
           /\ m \in Nat \ {0} /\ taker.qty - m \in Nat
           /\ m = IF orders[head].qty < taker.qty THEN orders[head].qty ELSE taker.qty
           /\ orders[head].qty - m \in Nat
           /\ orders[head].qty - m = 0 <=> orders[head].qty = m
           /\ taker' = [taker EXCEPT !.qty = @ - m]
           /\ volume' = volume + m
           /\ orders' = [orders EXCEPT ![head].qty = @ - m]
           /\ live' = IF orders[head].qty = m THEN live - 1 ELSE live
           /\ levels' = IF orders[head].qty = m THEN AdvanceHead ELSE levels
<1>1. InLevel /\ taker.qty \in Nat /\ taker.qty > 0 /\ orders[head].qty # 0
  BY DEF IInv, Types, Takers, Fill, InLevel
<1>2. head \in 1 .. lastId /\ lastId \in Nat /\ lastId <= ops /\ ops <= MaxOps /\ ops \in Nat
  BY <1>1, AtLevel DEF IInv, Types
<1>3. head \in 0 .. MaxOps + 1
  BY <1>2, TunedBookAssumption
<1>4. head \in DOMAIN orders /\ orders[head].qty \in Nat \ {0}
  BY <1>1, <1>3 DEF IInv, Types
<1>5. head \in LiveIds
  BY <1>4 DEF LiveIds
<1>6. m = IF taker.qty <= orders[head].qty THEN taker.qty ELSE orders[head].qty
  BY <1>1, <1>4, MinOfTwo
<1>7. /\ m \in Nat \ {0} /\ taker.qty - m \in Nat
      /\ m = IF orders[head].qty < taker.qty THEN orders[head].qty ELSE taker.qty
      /\ orders[head].qty - m \in Nat
      /\ orders[head].qty - m = 0 <=> orders[head].qty = m
  <2>1. CASE taker.qty <= orders[head].qty
    BY ONLY <1>1, <1>4, <1>6, <2>1
  <2>2. CASE ~(taker.qty <= orders[head].qty)
    BY ONLY <1>1, <1>4, <1>6, <2>2
  <2>3. QED
    BY <2>1, <2>2
<1>8. /\ taker' = [taker EXCEPT !.qty = @ - m]
      /\ volume' = volume + m
      /\ orders' = [orders EXCEPT ![head].qty = @ - m]
      /\ live' = IF orders[head].qty = m THEN live - 1 ELSE live
      /\ levels' = IF orders[head].qty = m THEN AdvanceHead ELSE levels
  BY DEF Fill, Consumed
<1>9. QED
  BY <1>4, <1>5, <1>7, <1>8

LEMMA FillStep == ASSUME IInv, Fill PROVE IInv'
<1> DEFINE head == HeadId
           m == Min({taker.qty, orders[head].qty})
<1>1. /\ head \in LiveIds /\ head \in DOMAIN orders
      /\ orders[head].qty \in Nat \ {0}
      /\ m \in Nat \ {0} /\ taker.qty - m \in Nat
      /\ orders[head].qty - m \in Nat
      /\ orders[head].qty - m = 0 <=> orders[head].qty = m
      /\ taker' = [taker EXCEPT !.qty = @ - m]
      /\ volume' = volume + m
      /\ orders' = [orders EXCEPT ![head].qty = @ - m]
      /\ live' = IF orders[head].qty = m THEN live - 1 ELSE live
      /\ levels' = IF orders[head].qty = m THEN AdvanceHead ELSE levels
  BY Traded
<1>2. /\ InLevel /\ pc = "inner" /\ pc' = "inner" /\ fills' = fills + 1
      /\ UNCHANGED <<best, pc, lvl, lastId, ops, noAsk>>
  BY DEF Fill, InLevel
<1>3. /\ Opposite(taker.side) \in Sides /\ head # taker.id
      /\ \A s \in Sides : \A p \in Ladder :
           QueuedAt(head, s, p) => s = Opposite(taker.side) /\ p = lvl
  BY <1>2, AtLevel
<1>4. taker \in Takers /\ taker.id = lastId
  BY <1>2 DEF IInv, Types
<1> HIDE DEF head, m
<1>5. /\ taker' \in Takers
      /\ taker'.id = taker.id /\ taker'.side = taker.side /\ taker'.price = taker.price
  BY <1>1, <1>4 DEF Takers
<1>6. /\ LevelsOK'
      /\ \A i : \A s \in Sides : \A p \in Ladder :
           QueuedAt(i, s, p)' <=>
               /\ QueuedAt(i, s, p)
               /\ ~(orders[head].qty = m /\ s = Opposite(taker.side) /\ p = lvl /\ i = head)
      /\ \A s \in Sides : /\ Occupied(s)' \subseteq Occupied(s)
                          /\ s # Opposite(taker.side) => Occupied(s)' = Occupied(s)
      /\ \A s \in Sides : \A p \in Ladder : levels'[s][p].ids = levels[s][p].ids
  <2>1. CASE orders[head].qty = m
    BY <1>1, <1>2, <2>1, Advanced DEF head
  <2>2. CASE orders[head].qty # m
    BY <1>1, <2>2, LevelsKept DEF IInv
  <2>3. QED
    BY <2>1, <2>2
<1>7. /\ orders' \in [0 .. MaxOps + 1 -> [price : Ladder, qty : Nat]]
      /\ DOMAIN orders' = DOMAIN orders
      /\ \A i \in DOMAIN orders : orders'[i].price = orders[i].price
      /\ orders'[head].qty = orders[head].qty - m
      /\ \A i \in DOMAIN orders : i # head => orders'[i] = orders[i]
  <2>1. orders \in [0 .. MaxOps + 1 -> [price : Ladder, qty : Nat]]
    BY DEF IInv, Types
  <2>2. QED
    BY <1>1, <2>1
<1>8. LiveIds' = IF orders[head].qty = m THEN LiveIds \ {head} ELSE LiveIds
  <2>1. \A i \in DOMAIN orders :
            orders'[i].qty # 0 <=> orders[i].qty # 0 /\ ~(i = head /\ orders[head].qty = m)
    BY <1>1, <1>7
  <2>2. QED
    BY <1>7, <2>1 DEF LiveIds
<1>9. LiveExact' /\ live' \in Nat
  <2>1. CASE orders[head].qty = m
    BY <1>1, <1>8, <2>1, OneDies
  <2>2. CASE orders[head].qty # m
    BY <1>1, <1>8, <2>2 DEF IInv, LiveExact, Types
  <2>3. QED
    BY <2>1, <2>2
<1>10. Types'
  <2>1. fills' \in Nat /\ volume' \in Nat
    BY <1>1, <1>2 DEF IInv, Types
  <2>2. QED
    BY <1>2, <1>4, <1>5, <1>7, <1>9, <2>1 DEF IInv, Types
<1>11. Known'
  <2>1. taker.id \in DOMAIN orders /\ orders[taker.id].qty = 0
    BY <1>2, <1>4, TunedBookAssumption DEF IInv, Known, Types
  <2>2. orders'[taker'.id].qty = 0
    BY <1>3, <1>5, <1>7, <2>1 DEF head
  <2>3. QED
    BY <1>2, <1>5, <1>6, <2>2 DEF IInv, Known
<1>12. Unique'
  BY <1>6 DEF IInv, Unique
<1>13. Placed'
  <2>1. ASSUME NEW i \in LiveIds' PROVE \E s \in Sides : QueuedAt(i, s, orders[i].price)'
    <3>1. i \in LiveIds /\ ~(orders[head].qty = m /\ i = head)
      BY <1>8
    <3>2. PICK s \in Sides : QueuedAt(i, s, orders[i].price)
      BY <3>1 DEF IInv, Placed
    <3>3. PICK p \in Ladder : p = orders[i].price
      BY <3>1 DEF IInv, Types, LiveIds
    <3>4. QueuedAt(i, s, p)' /\ orders'[i].price = p
      BY <1>6, <1>7, <3>1, <3>2, <3>3 DEF LiveIds
    <3>5. QED
      BY <3>4
  <2>2. QED
    BY <2>1 DEF Placed
<1>14. Working'
  <2>1. PICK opp \in Sides : opp = Opposite(taker.side)
    BY <1>3
  <2>2. QED
    BY <1>2, <1>5, <1>6, <2>1, WorkingStays
<1>15. QED
  BY <1>6, <1>9, <1>10, <1>11, <1>12, <1>13, <1>14 DEF IInv

LEMMA LeaveLevelStep == ASSUME IInv, LeaveLevel PROVE IInv'
<1>1. /\ LevelsOK'
      /\ \A i : \A s \in Sides : \A p \in Ladder : QueuedAt(i, s, p)' <=> QueuedAt(i, s, p)
      /\ \A s \in Sides : Occupied(s)' = Occupied(s)
      /\ \A s \in Sides : \A p \in Ladder :
           levels'[s][p].ids = levels[s][p].ids \/ DOMAIN levels'[s][p].ids = {}
  BY ResetLevel
<1> USE DEF LeaveLevel
<1>2. Types'
  BY DEF IInv, Types
<1>3. Known'
  BY <1>1 DEF IInv, Known
<1>4. Unique' /\ Placed'
  BY <1>1 DEF IInv, Unique, Placed, Types, LiveIds
<1>5. Working'
  <2>1. PICK opp \in Sides : opp = Opposite(taker.side)
    BY DEF IInv, Types, Takers, Opposite, Sides
  <2>2. \A s \in Sides : s # opp => BestRight(s) /\ best'[s] = best[s]
    BY <2>1 DEF IInv, Working
  <2>3. \A s \in Sides : s # opp => BestRight(s)'
    BY <1>1, <2>2, BestStays
  <2>4. BestRight(opp)' /\ best'[opp] \in Int
    <3>1. CASE IsEmpty(Level)
      <4>1. best'[opp] = Scan(opp)
        BY <2>1, <3>1 DEF IInv, Working
      <4>2. QED
        BY <1>1, <2>1, <3>1, <4>1, ScanFinds
    <3>2. CASE ~IsEmpty(Level)
      <4>1. best' = best /\ best[opp] = lvl /\ lvl \in Ladder
        BY <2>1, <3>2 DEF IInv, Working
      <4>2. lvl \in Occupied(opp) /\ \A p \in Occupied(opp) : AsGood(opp, lvl, p)
        BY <2>1, <3>2, <4>1 DEF IInv, Working, Occupied, Level
      <4>3. BestRight(opp) /\ best[opp] \in Int
        BY <4>1, <4>2 DEF BestRight, IInv, Working
      <4>4. QED
        BY <1>1, <4>1, <4>3, BestStays
    <3>3. QED
      BY <3>1, <3>2
  <2>5. best' \in [Sides -> Int]
    <3>1. best \in [Sides -> Int] /\ \A s \in Sides : best'[s] \in Int
      BY <2>2, <2>4 DEF IInv, Working
    <3>2. DOMAIN best' = Sides
      BY <3>1
    <3>3. QED
      BY <3>1, <3>2
  <2>6. QED
    BY <2>3, <2>4, <2>5 DEF Working
<1>6. LiveExact'
  BY DEF IInv, LiveExact, LiveIds
<1>7. QED
  BY <1>1, <1>2, <1>3, <1>4, <1>5, <1>6 DEF IInv

LEMMA StutterStep == ASSUME IInv, UNCHANGED vars PROVE IInv'
<1> USE DEF vars, bookVars, callVars
<1>1. /\ LevelsOK'
      /\ \A i : \A s \in Sides : \A p \in Ladder : QueuedAt(i, s, p)' <=> QueuedAt(i, s, p)
      /\ \A s \in Sides : Occupied(s)' = Occupied(s)
  BY LevelsKept DEF IInv
<1>2. Types' /\ Known'
  BY DEF IInv, Types, Known
<1>3. Unique' /\ Placed'
  BY <1>1 DEF IInv, Unique, Placed, Types, LiveIds
<1>4. Working'
  <2>1. CASE pc = "inner"
    <3>1. PICK opp \in Sides : opp = Opposite(taker.side)
      BY <2>1 DEF IInv, Types, Takers, Opposite, Sides
    <3>2. QED
      BY <1>1, <2>1, <3>1, WorkingStays
  <2>2. CASE pc # "inner"
    <3>1. \A s \in Sides : BestRight(s)'
      BY <1>1, <2>2, BestStays DEF IInv, Working
    <3>2. QED
      BY <2>2, <3>1 DEF IInv, Working
  <2>3. QED
    BY <2>1, <2>2
<1>5. LiveExact'
  BY DEF IInv, LiveExact, LiveIds
<1>6. QED
  BY <1>1, <1>2, <1>3, <1>4, <1>5 DEF IInv

LEMMA NextStep == IInv /\ [Next]_vars => IInv'
<1> SUFFICES ASSUME IInv, [Next]_vars PROVE IInv'
  OBVIOUS
<1>1. CASE \E side \in Sides, price \in Prices, qty \in Qtys : CallLimit(side, price, qty)
  BY <1>1, CallLimitStep
<1>2. CASE \E id \in 0 .. lastId : CancelCall(id)
  BY <1>2, CancelCallStep
<1>3. CASE Engine
  BY <1>3, PickLevelStep, RestStep, ReturnStep, SkipCancelledStep, FillStep, LeaveLevelStep
     DEF Engine
<1>4. CASE UNCHANGED vars
  BY <1>4, StutterStep
<1>5. QED
  BY <1>1, <1>2, <1>3, <1>4 DEF Next

LEMMA Invariance == Spec => []IInv
  BY InitIInv, NextStep, PTL DEF Spec, SafeSpec

-------------------------------------------------------------------------------
(* What the inductive invariant implies. *)

(* The side of a live order is the one it waits on at its price.           *)
SidesRight ==
    \A i \in LiveIds : \A s \in Sides :
        SideOf(i) = s <=> QueuedAt(i, s, orders[i].price)

LEMMA SideIs == IInv => SidesRight
<1> SUFFICES ASSUME IInv, NEW i \in LiveIds, NEW s \in Sides
             PROVE SideOf(i) = s <=> QueuedAt(i, s, orders[i].price)
  BY DEF SidesRight
<1>1. i \in Nat /\ orders[i].price \in Ladder
  BY TunedBookAssumption DEF IInv, Types, LiveIds
<1>2. PICK t \in Sides : QueuedAt(i, t, orders[i].price)
  BY DEF IInv, Placed
<1>3. \A u \in Sides : \A p \in Ladder : QueuedAt(i, u, p) => u = t /\ p = orders[i].price
  BY <1>1, <1>2 DEF IInv, Unique
<1>4. SideOf(i) = t
  <2>1. CASE t = "bid"
    BY <1>1, <1>2, <2>1 DEF SideOf
  <2>2. CASE t = "ask"
    <3>1. \A p \in Ladder : ~QueuedAt(i, "bid", p)
      BY <1>3, <2>2 DEF Sides
    <3>2. QED
      BY <2>2, <3>1 DEF SideOf
  <2>3. QED
    BY <2>1, <2>2 DEF Sides
<1>5. QED
  BY <1>1, <1>2, <1>3, <1>4

(* The array of orders and the levels of ids agree although cancel()       *)
(* touches only one of them, whatever the ladder and however long the run: *)
(* a live order waits once, at its own price and not in the consumed part  *)
(* of a level, and slot 0 is never live.                                   *)
THEOREM QueueDisciplineHolds == Spec => []QueueDiscipline
<1>1. IInv => QueueDiscipline
  <2> SUFFICES ASSUME IInv PROVE QueueDiscipline
    OBVIOUS
  <2>1. \A s \in Sides : \A p \in Ladder : \A j, k \in DOMAIN levels[s][p].ids :
            j < k => levels[s][p].ids[j] < levels[s][p].ids[k]
    BY DEF IInv, LevelsOK, LevelOK, Increasing
  <2>2. ASSUME NEW id \in LiveIds
        PROVE  /\ id \in 1 .. lastId
               /\ QueuedAt(id, SideOf(id), orders[id].price)
               /\ \A s \in Sides : \A p \in Ladder :
                     QueuedAt(id, s, p) => s = SideOf(id) /\ p = orders[id].price
    <3>1. SideOf(id) \in Sides
      BY DEF SideOf, Sides
    <3>2. QueuedAt(id, SideOf(id), orders[id].price)
      BY <3>1, SideIs DEF SidesRight
    <3>3. orders[id].price \in Ladder
      BY DEF IInv, Types, LiveIds
    <3>4. id \in Nat /\ 1 <= id /\ id <= lastId
      BY <3>1, <3>2, <3>3, QueuedIsKnown
    <3>5. id \in 1 .. lastId
      BY <3>4 DEF IInv, Types
    <3>6. QED
      BY <3>1, <3>2, <3>3, <3>4, <3>5 DEF IInv, Unique
  <2>3. QED
    BY <2>1, <2>2 DEF QueueDiscipline
<1>2. QED
  BY <1>1, Invariance, PTL

(* Between two levels each best pointer names the best level of its side   *)
(* in which an id waits, or none: the comparison on resting and the scan   *)
(* on leaving an exhausted level keep it exact on a ladder of any length.  *)
THEOREM BestExactHolds == Spec => []BestExact
<1>1. IInv => BestExact
  <2> SUFFICES ASSUME IInv, pc # "inner", NEW s \in Sides
               PROVE  best[s] = IF Occupied(s) = {} THEN NoBest(s)
                                ELSE IF s = "bid" THEN Max(Occupied(s))
                                     ELSE Min(Occupied(s))
    BY DEF BestExact, Occupied
  <2> DEFINE O == Occupied(s)
  <2>1. BestRight(s)
    BY DEF IInv, Working
  <2>2. CASE O = {}
    BY <2>1, <2>2 DEF BestRight
  <2>3. CASE O # {}
    <3>1. best[s] \in O /\ \A p \in O : AsGood(s, best[s], p)
      BY <2>1, <2>3 DEF BestRight
    <3>2. O \in SUBSET Ladder /\ \A p \in O : p \in Int
      BY DEF Occupied, Ladder
    <3> HIDE DEF O
    <3>3. /\ Min(O) \in O /\ \A y \in O : Min(O) <= y
          /\ Max(O) \in O /\ \A y \in O : Max(O) >= y
      BY <2>3, <3>2, LeastAndGreatest
    <3>4. CASE s = "bid"
      <4>1. best[s] >= Max(O) /\ Max(O) >= best[s]
        BY <3>1, <3>3, <3>4 DEF AsGood
      <4>2. best[s] = Max(O)
        BY <3>1, <3>2, <3>3, <4>1
      <4>3. QED
        BY <2>3, <3>4, <4>2 DEF O
    <3>5. CASE s = "ask"
      <4>1. best[s] <= Min(O) /\ Min(O) <= best[s]
        BY <3>1, <3>3, <3>5 DEF AsGood
      <4>2. best[s] = Min(O)
        BY <3>1, <3>2, <3>3, <4>1
      <4>3. QED
        BY <2>3, <3>5, <4>2 DEF O
    <3>6. QED
      BY <3>4, <3>5 DEF Sides
  <2>4. QED
    BY <2>2, <2>3
<1>2. QED
  BY <1>1, Invariance, PTL

(* The counter resting() returns is the number of live orders: an order    *)
(* leaves it once, by its last fill or by its first cancel.                *)
THEOREM LiveExactHolds == Spec => []LiveExact
<1>1. IInv => LiveExact
  BY DEF IInv
<1>2. QED
  BY <1>1, Invariance, PTL

-------------------------------------------------------------------------------
(* The tuned book refines the price-time priority book.                    *)

Live == [i \in LiveIds |->
           [side |-> SideOf(i), price |-> orders[i].price, qty |-> orders[i].qty]]

LEMMA LiveIs ==
    IInv => /\ DOMAIN Live = LiveIds
            /\ \A i \in LiveIds :
                 /\ Live[i].side \in Sides
                 /\ Live[i].price = orders[i].price /\ Live[i].price \in Ladder
                 /\ Live[i].qty = orders[i].qty
                 /\ \A s \in Sides : Live[i].side = s <=> QueuedAt(i, s, orders[i].price)
<1> SUFFICES ASSUME IInv, NEW i \in LiveIds
             PROVE  /\ Live[i].side \in Sides
                    /\ Live[i].price = orders[i].price /\ Live[i].price \in Ladder
                    /\ Live[i].qty = orders[i].qty
                    /\ \A s \in Sides : Live[i].side = s <=> QueuedAt(i, s, orders[i].price)
  BY DEF Live
<1>1. /\ Live[i].side = SideOf(i) /\ Live[i].price = orders[i].price
      /\ Live[i].qty = orders[i].qty
  BY DEF Live
<1>2. SideOf(i) \in Sides
  BY DEF SideOf, Sides
<1>3. orders[i].price \in Ladder
  BY DEF IInv, Types, LiveIds
<1>4. QED
  BY <1>1, <1>2, <1>3, SideIs DEF SidesRight

(* A step that neither moves a live order to another level nor brings one  *)
(* in leaves the side of each.                                             *)
LEMMA SidesStay ==
    ASSUME IInv, IInv',
           \A i \in LiveIds' : i \in LiveIds,
           \A i \in LiveIds' : orders'[i].price = orders[i].price,
           \A i : \A s \in Sides : \A p \in Ladder :
               QueuedAt(i, s, p)' => QueuedAt(i, s, p)
    PROVE  \A i \in LiveIds' : SideOf(i)' = SideOf(i)
<1> SUFFICES ASSUME NEW i \in LiveIds' PROVE SideOf(i)' = SideOf(i)
  OBVIOUS
<1>1. \A s \in Sides : SideOf(i)' = s <=> QueuedAt(i, s, orders[i].price)'
  <2>1. SidesRight'
    BY SideIs, PTL
  <2>2. QED
    BY <2>1 DEF SidesRight
<1>2. SideOf(i)' \in Sides
  BY DEF SideOf, Sides
<1>3. i \in LiveIds /\ orders'[i].price = orders[i].price /\ orders[i].price \in Ladder
  BY DEF IInv, Types, LiveIds
<1>4. PICK s \in Sides : s = SideOf(i)'
  BY <1>2
<1>5. PICK p \in Ladder : p = orders[i].price
  BY <1>3
<1>6. QueuedAt(i, s, orders[i].price)'
  BY <1>1, <1>4
<1>7. QueuedAt(i, s, p)'
  BY <1>3, <1>5, <1>6
<1>8. QueuedAt(i, s, orders[i].price)
  BY <1>5, <1>7
<1>9. QED
  BY <1>3, <1>4, <1>8, SideIs DEF SidesRight

LEMMA LiveStays ==
    ASSUME IInv, IInv', UNCHANGED orders,
           \A i : \A s \in Sides : \A p \in Ladder :
               QueuedAt(i, s, p)' => QueuedAt(i, s, p)
    PROVE  Live' = Live
<1>1. LiveIds' = LiveIds
  BY DEF LiveIds
<1>2. \A i \in LiveIds' : SideOf(i)' = SideOf(i)
  BY <1>1, SidesStay
<1>3. QED
  BY <1>1, <1>2 DEF Live

LEMMA Submits ==
    ASSUME IInv, NEW side \in Sides, NEW price \in Prices, NEW qty \in Qtys,
           CallLimit(side, price, qty)
    PROVE  Priority!Submit(side, price, qty)
<1>1. Live' = Live
  BY LiveStays, CallLimitStep, LevelsKept DEF CallLimit, bookVars, IInv
<1>2. taker = NoTaker
  BY DEF IInv, Types, CallLimit
<1>3. QED
  BY <1>1, <1>2 DEF Priority!Submit, Priority!NoTaker, NoTaker, Live, CallLimit, bookVars

LEMMA Cancels ==
    ASSUME IInv, NEW id \in 0 .. lastId, CancelCall(id)
    PROVE  Priority!Cancel(id)
<1>1. /\ orders \in [0 .. MaxOps + 1 -> [price : Ladder, qty : Nat]]
      /\ id \in DOMAIN orders
  BY TunedBookAssumption DEF IInv, Types, CancelCall
<1>2. LiveIds' = LiveIds \ {id} /\ \A i \in LiveIds' : orders'[i] = orders[i]
  <2>1. CASE Cancellable(id)
    <3>1. orders' = [orders EXCEPT ![id].qty = 0]
      BY <2>1 DEF CancelCall
    <3>2. /\ DOMAIN orders' = DOMAIN orders /\ orders'[id].qty = 0
          /\ \A i \in DOMAIN orders : i # id => orders'[i] = orders[i]
      BY <1>1, <3>1
    <3>3. QED
      BY <3>2 DEF LiveIds
  <2>2. CASE ~Cancellable(id)
    BY <1>1, <2>2 DEF Cancellable, CancelCall, LiveIds
  <2>3. QED
    BY <2>1, <2>2
<1>3. \A i \in LiveIds' : SideOf(i)' = SideOf(i)
  BY <1>2, SidesStay, CancelCallStep, LevelsKept DEF CancelCall, IInv
<1>4. Live' = [i \in DOMAIN Live \ {id} |-> Live[i]]
  BY <1>2, <1>3 DEF Live
<1>5. taker = NoTaker
  BY DEF IInv, Types, CancelCall
<1>6. QED
  BY <1>4, <1>5 DEF Priority!Cancel, Priority!NoTaker, NoTaker, Live, CancelCall, callVars

LEMMA Finishes == ASSUME IInv, Return PROVE Priority!Finish
<1>1. Live' = Live
  BY LiveStays, ReturnStep, LevelsKept DEF Return, bookVars, IInv
<1>2. taker # NoTaker
  BY DEF IInv, Types, Takers, Return, NoTaker
<1>3. QED
  BY <1>1, <1>2 DEF Priority!Finish, Priority!NoTaker, NoTaker, Live, Return, bookVars

(* The orders an incoming one may trade with wait on the other side at     *)
(* prices that cross.                                                      *)
LEMMA MatchesAre ==
    ASSUME IInv, taker.side \in Sides
    PROVE  \A i : i \in Priority!Matches(taker.side, taker.price) <=>
               /\ i \in LiveIds
               /\ QueuedAt(i, Opposite(taker.side), orders[i].price)
               /\ Crosses(taker.side, taker.price, orders[i].price)
<1>1. Opposite(taker.side) \in Sides
  BY DEF Opposite, Sides
<1>2. Priority!Matches(taker.side, taker.price) =
        {i \in DOMAIN Live : /\ Live[i].side = Opposite(taker.side)
                             /\ Crosses(taker.side, taker.price, Live[i].price)}
  BY DEF Priority!Matches, Priority!Opposite, Priority!Crosses, Opposite, Crosses, Live
<1>3. QED
  BY <1>1, <1>2, LiveIs

LEMMA QueuedIsOccupied ==
    ASSUME IInv, NEW i, NEW s \in Sides, NEW p \in Ladder, QueuedAt(i, s, p)
    PROVE  p \in Occupied(s)
<1>1. LevelOK(levels[s][p]) /\ Waits(levels[s][p], i)
  BY QueuedIs DEF IInv, LevelsOK, QueuesRight
<1>2. QED
  BY <1>1, WaitsOccupied DEF Occupied

(* If the best level of the other side does not cross, none does. *)
LEMMA NoneCrosses ==
    ASSUME IInv, pc = "outer", ~CrossesBest(taker.side, taker.price),
           NEW opp, opp = Opposite(taker.side)
    PROVE  \A p \in Occupied(opp) : ~Crosses(taker.side, taker.price, p)
<1> SUFFICES ASSUME NEW p \in Occupied(opp) PROVE ~Crosses(taker.side, taker.price, p)
  OBVIOUS
<1>1. opp \in Sides /\ taker.side \in Sides /\ taker.price \in Int
  <2>1. taker.side \in Sides /\ taker.price \in Prices
    BY DEF IInv, Types, Takers
  <2>2. taker.price \in Int
    <3>1. Prices \subseteq 0 .. LadderLen - 1
      BY TunedBookAssumption
    <3>2. 0 .. LadderLen - 1 \subseteq Int
      OBVIOUS
    <3>3. QED
      BY ONLY <2>1, <3>1, <3>2
  <2>3. QED
    BY <2>1, <2>2 DEF Opposite, Sides
<1>2. best[opp] \in Occupied(opp) /\ AsGood(opp, best[opp], p)
  BY <1>1 DEF IInv, Working, BestRight
<1>3. best[opp] \in Int /\ p \in Int /\ best[opp] >= 0 /\ best[opp] < LadderLen
  BY <1>2, TunedBookAssumption DEF Occupied, Ladder
<1>4. ~Crosses(taker.side, taker.price, best[opp])
  BY <1>3 DEF CrossesBest
<1>5. CASE taker.side = "bid"
  BY <1>1, <1>2, <1>3, <1>4, <1>5 DEF AsGood, Crosses, Opposite
<1>6. CASE taker.side = "ask"
  BY <1>1, <1>2, <1>3, <1>4, <1>6 DEF AsGood, Crosses, Opposite
<1>7. QED
  BY <1>1, <1>5, <1>6 DEF Sides

LEMMA Rests == ASSUME IInv, Rest PROVE Priority!Rest
<1>1. /\ taker \in Takers /\ taker # NoTaker /\ pc = "outer" /\ taker.qty \in Nat \ {0}
      /\ taker.side \in Sides /\ taker.price \in Ladder /\ taker.id \in Nat
      /\ taker.id \in 0 .. MaxOps + 1 /\ taker.id \notin LiveIds
  BY TunedBookAssumption DEF IInv, Types, Takers, Known, Rest, NoTaker, Ladder, LiveIds
<1>2. Priority!Matches(taker.side, taker.price) = {}
  <2> SUFFICES ASSUME NEW i \in Priority!Matches(taker.side, taker.price) PROVE FALSE
    OBVIOUS
  <2>1. PICK opp \in Sides : opp = Opposite(taker.side)
    BY <1>1 DEF Opposite, Sides
  <2>2. /\ i \in LiveIds /\ QueuedAt(i, opp, orders[i].price)
        /\ Crosses(taker.side, taker.price, orders[i].price)
    BY <1>1, <2>1, MatchesAre
  <2>3. orders[i].price \in Ladder
    BY <2>2 DEF IInv, Types, LiveIds
  <2>4. orders[i].price \in Occupied(opp)
    BY <2>2, <2>3, QueuedIsOccupied
  <2>5. QED
    BY <1>1, <2>1, <2>2, <2>4, NoneCrosses DEF Rest
<1>3. IInv'
  BY RestStep
<1>4. PICK side \in Sides, price \in Ladder, id \in Nat :
          side = taker.side /\ price = taker.price /\ id = taker.id
  BY <1>1
<1>5. /\ LiveIds' = LiveIds \cup {id} /\ id \notin LiveIds
      /\ orders'[id] = [price |-> price, qty |-> taker.qty]
      /\ \A i \in LiveIds : orders'[i] = orders[i]
  <2>1. orders \in [0 .. MaxOps + 1 -> [price : Ladder, qty : Nat]]
    BY DEF IInv, Types
  <2>2. orders' = [orders EXCEPT ![id] = [price |-> price, qty |-> taker.qty]]
    BY <1>4 DEF Rest
  <2>3. /\ DOMAIN orders' = DOMAIN orders /\ orders'[id] = [price |-> price, qty |-> taker.qty]
        /\ \A i \in DOMAIN orders : i # id => orders'[i] = orders[i]
    BY <1>1, <1>4, <2>1, <2>2
  <2>4. id \in DOMAIN orders /\ id \notin LiveIds /\ taker.qty # 0
    BY <1>1, <1>4, <2>1
  <2>5. QED
    BY <2>3, <2>4 DEF LiveIds
<1>6. \A i : \A s \in Sides : \A p \in Ladder :
          QueuedAt(i, s, p)' <=> QueuedAt(i, s, p) \/ (s = side /\ p = price /\ i = id)
  BY <1>4, Queued
<1>7. \A i \in LiveIds' : \A s \in Sides :
          SideOf(i)' = s <=> QueuedAt(i, s, orders[i].price)'
  <2>1. SidesRight'
    BY <1>3, SideIs, PTL
  <2>2. QED
    BY <2>1 DEF SidesRight
<1>8. SideOf(id)' = side
  <2>1. QueuedAt(id, side, price)' /\ orders'[id].price = price
    BY <1>5, <1>6
  <2>2. QueuedAt(id, side, orders[id].price)'
    BY <2>1
  <2>3. QED
    BY <1>5, <1>7, <2>2
<1>9. ASSUME NEW i \in LiveIds PROVE SideOf(i)' = SideOf(i)
  <2>1. orders[i].price \in Ladder
    BY DEF IInv, Types, LiveIds
  <2>2. PICK s \in Sides : s = SideOf(i)
    BY DEF SideOf, Sides
  <2>3. PICK p \in Ladder : p = orders[i].price
    BY <2>1
  <2>4. QueuedAt(i, s, p)
    BY <2>2, <2>3, SideIs DEF SidesRight
  <2>5. QueuedAt(i, s, p)' /\ orders'[i].price = p
    BY <1>5, <1>6, <2>3, <2>4
  <2>6. QueuedAt(i, s, orders[i].price)'
    BY <2>5
  <2>7. QED
    BY <1>5, <1>7, <2>2, <2>6
<1>10. Live' = [i \in DOMAIN Live \cup {taker.id} |->
                  IF i = taker.id
                  THEN [side |-> taker.side, price |-> taker.price, qty |-> taker.qty]
                  ELSE Live[i]]
  <2>1. DOMAIN Live = LiveIds
    BY DEF Live
  <2>2. ASSUME NEW i \in LiveIds'
        PROVE  [side |-> SideOf(i), price |-> orders[i].price, qty |-> orders[i].qty]' =
                 IF i = taker.id
                 THEN [side |-> taker.side, price |-> taker.price, qty |-> taker.qty]
                 ELSE Live[i]
    <3>1. CASE i = id
      BY <1>4, <1>5, <1>8, <3>1
    <3>2. CASE i # id
      <4>1. i \in LiveIds /\ orders'[i] = orders[i] /\ SideOf(i)' = SideOf(i)
        BY <1>5, <1>9, <3>2
      <4>2. Live[i] = [side |-> SideOf(i), price |-> orders[i].price, qty |-> orders[i].qty]
        BY <4>1 DEF Live
      <4>3. QED
        BY <1>4, <3>2, <4>1, <4>2
    <3>3. QED
      BY <3>1, <3>2
  <2>3. Live' = [i \in LiveIds' |->
          [side |-> SideOf(i), price |-> orders[i].price, qty |-> orders[i].qty]']
    BY DEF Live
  <2>4. QED
    BY <1>4, <1>5, <2>1, <2>2, <2>3
<1>11. QED
  BY <1>1, <1>2, <1>10 DEF Priority!Rest, Priority!NoTaker, NoTaker, Live, Rest

LEMMA Trades == ASSUME IInv, Fill PROVE Priority!Trade
<1> DEFINE head == HeadId
           m == Min({taker.qty, orders[head].qty})
<1>1. /\ head \in LiveIds /\ head \in DOMAIN orders
      /\ orders[head].qty \in Nat \ {0}
      /\ m = IF orders[head].qty < taker.qty THEN orders[head].qty ELSE taker.qty
      /\ orders[head].qty - m \in Nat
      /\ orders[head].qty - m = 0 <=> orders[head].qty = m
      /\ taker' = [taker EXCEPT !.qty = @ - m]
      /\ volume' = volume + m
      /\ orders' = [orders EXCEPT ![head].qty = @ - m]
      /\ levels' = IF orders[head].qty = m THEN AdvanceHead ELSE levels
  BY Traded
<1>2. /\ InLevel /\ pc = "inner" /\ taker.qty > 0 /\ fills' = fills + 1
      /\ UNCHANGED <<lastId, ops>>
  BY DEF Fill, InLevel
<1>3. taker \in Takers /\ taker.side \in Sides
  BY <1>2 DEF IInv, Types, Takers
<1>4. PICK opp \in Sides : opp = Opposite(taker.side)
  BY <1>3 DEF Opposite, Sides
<1>5. /\ head \in Nat /\ lvl \in Ladder
      /\ QueuedAt(head, opp, lvl)
      /\ \A s \in Sides : \A p \in Ladder : QueuedAt(head, s, p) => s = opp /\ p = lvl
      /\ \A i : QueuedAt(i, opp, lvl) => head <= i
  BY <1>2, <1>4, AtLevel
<1> HIDE DEF head, m
<1>6. orders[head].price = lvl
  <2>1. PICK s \in Sides : QueuedAt(head, s, orders[head].price)
    BY <1>1 DEF IInv, Placed
  <2>2. orders[head].price \in Ladder
    BY <1>1 DEF IInv, Types
  <2>3. QED
    BY <1>5, <2>1, <2>2
<1>7. head \in Priority!Matches(taker.side, taker.price)
  BY <1>1, <1>2, <1>3, <1>4, <1>5, <1>6, MatchesAre DEF IInv, Working
<1>8. \A j \in Priority!Matches(taker.side, taker.price) :
          Priority!Before(taker.side, head, j)
  <2> SUFFICES ASSUME NEW j \in Priority!Matches(taker.side, taker.price)
               PROVE  Priority!Before(taker.side, head, j)
    OBVIOUS
  <2>1. j \in LiveIds /\ QueuedAt(j, opp, orders[j].price)
    BY <1>3, <1>4, MatchesAre
  <2>2. orders[j].price \in Ladder
    BY <2>1 DEF IInv, Types, LiveIds
  <2>3. orders[j].price \in Occupied(opp)
    BY <2>1, <2>2, QueuedIsOccupied
  <2>4. AsGood(opp, lvl, orders[j].price)
    BY <1>2, <1>4, <2>3 DEF IInv, Working
  <2>5. lvl = orders[j].price => head <= j
    BY <1>5, <2>1
  <2>6. Live[head].price = lvl /\ Live[j].price = orders[j].price
    BY <1>1, <1>6, <2>1, LiveIs
  <2>7. lvl \in Int /\ orders[j].price \in Int
    BY <1>5, <2>2 DEF Ladder
  <2>8. opp = "ask" <=> taker.side = "bid"
    BY <1>3, <1>4 DEF Opposite, Sides
  <2>9. \/ IF taker.side = "bid" THEN lvl < orders[j].price ELSE lvl > orders[j].price
        \/ lvl = orders[j].price /\ head <= j
    BY <2>4, <2>5, <2>7, <2>8 DEF AsGood
  <2>10. \/ Priority!Better(taker.side, Live[head].price, Live[j].price)
         \/ Live[head].price = Live[j].price /\ head <= j
    BY <2>6, <2>9 DEF Priority!Better
  <2>11. QED
    BY <2>10 DEF Priority!Before, Live
<1>9. /\ DOMAIN orders' = DOMAIN orders
      /\ orders'[head].price = orders[head].price
      /\ orders'[head].qty = orders[head].qty - m
      /\ \A i \in DOMAIN orders : i # head => orders'[i] = orders[i]
  <2>1. orders \in [0 .. MaxOps + 1 -> [price : Ladder, qty : Nat]]
    BY DEF IInv, Types
  <2>2. QED
    BY <1>1, <2>1
<1>10. LiveIds' = IF orders[head].qty = m THEN LiveIds \ {head} ELSE LiveIds
  <2>1. \A i \in DOMAIN orders :
            orders'[i].qty # 0 <=> orders[i].qty # 0 /\ ~(i = head /\ orders[head].qty = m)
    BY <1>1, <1>9
  <2>2. QED
    BY <1>9, <2>1 DEF LiveIds
<1>11. \A i \in LiveIds' : i \in LiveIds /\ SideOf(i)' = SideOf(i)
  <2>1. \A i \in LiveIds' : i \in LiveIds /\ orders'[i].price = orders[i].price
    BY <1>9, <1>10 DEF LiveIds
  <2>2. \A i : \A s \in Sides : \A p \in Ladder : QueuedAt(i, s, p)' => QueuedAt(i, s, p)
    <3>1. CASE orders[head].qty = m
      BY <1>1, <1>2, <3>1, Advanced
    <3>2. CASE orders[head].qty # m
      BY <1>1, <3>2, LevelsKept DEF IInv
    <3>3. QED
      BY <3>1, <3>2
  <2>3. IInv'
    BY FillStep
  <2>4. QED
    BY <2>1, <2>2, <2>3, SidesStay
<1>12. /\ DOMAIN Live = LiveIds /\ DOMAIN Live' = LiveIds'
       /\ \A i \in LiveIds :
            Live[i] = [side |-> SideOf(i), price |-> orders[i].price, qty |-> orders[i].qty]
       /\ \A i \in LiveIds' :
            Live'[i] = [side |-> SideOf(i), price |-> orders'[i].price, qty |-> orders'[i].qty]
  BY <1>11 DEF Live
<1>13. Live' = IF Live[head].qty = m
               THEN [j \in DOMAIN Live \ {head} |-> Live[j]]
               ELSE [Live EXCEPT ![head].qty = @ - m]
  <2>1. Live[head].qty = orders[head].qty
    BY <1>1, <1>12
  <2>2. CASE orders[head].qty = m
    <3>1. \A i \in LiveIds' : Live'[i] = Live[i]
      BY <1>9, <1>10, <1>11, <1>12, <2>2 DEF LiveIds
    <3>2. LiveIds' = DOMAIN Live \ {head}
      BY <1>10, <1>12, <2>2
    <3>3. Live' = [i \in LiveIds' |-> Live'[i]]
      BY DEF Live
    <3>4. QED
      BY <2>1, <2>2, <3>1, <3>2, <3>3
  <2>3. CASE orders[head].qty # m
    <3>1. LiveIds' = LiveIds
      BY <1>10, <2>3
    <3>2. ASSUME NEW i \in LiveIds
          PROVE  Live'[i] = [Live EXCEPT ![head].qty = @ - m][i]
      <4>1. CASE i = head
        BY <1>9, <1>12, <2>1, <3>1, <4>1
      <4>2. CASE i # head
        BY <1>9, <1>12, <3>1, <4>2 DEF LiveIds
      <4>3. QED
        BY <4>1, <4>2
    <3>3. Live' = [i \in LiveIds' |-> Live'[i]] /\ Live = [i \in LiveIds |-> Live[i]]
      BY DEF Live
    <3>4. [Live EXCEPT ![head].qty = @ - m] =
              [i \in LiveIds |-> [Live EXCEPT ![head].qty = @ - m][i]]
      BY <1>12, <3>3
    <3>5. QED
      BY <2>1, <2>3, <3>1, <3>2, <3>3, <3>4
  <2>4. QED
    BY <2>2, <2>3
<1>14. taker # NoTaker
  BY <1>3 DEF NoTaker, Takers
<1>15. m = IF Live[head].qty < taker.qty THEN Live[head].qty ELSE taker.qty
  BY <1>1, <1>12
<1>16. QED
  <2>1. \E i \in Priority!Matches(taker.side, taker.price) :
          /\ \A j \in Priority!Matches(taker.side, taker.price) :
                Priority!Before(taker.side, i, j)
          /\ LET k == IF Live[i].qty < taker.qty THEN Live[i].qty ELSE taker.qty
             IN  /\ Live' = IF Live[i].qty = k
                            THEN [j \in DOMAIN Live \ {i} |-> Live[j]]
                            ELSE [Live EXCEPT ![i].qty = @ - k]
                 /\ taker' = [taker EXCEPT !.qty = @ - k]
                 /\ volume' = volume + k
    BY <1>1, <1>7, <1>8, <1>13, <1>15
  <2>2. QED
    BY <1>2, <1>14, <2>1 DEF Priority!Trade, Priority!NoTaker, NoTaker, Live

LEMMA Invisible ==
    ASSUME IInv, PickLevel \/ SkipCancelled \/ LeaveLevel \/ UNCHANGED vars
    PROVE  UNCHANGED <<Live, taker, lastId, ops, fills, volume>>
<1>1. /\ UNCHANGED <<orders, taker, lastId, ops, fills, volume>>
      /\ SkipCancelled => InLevel /\ levels' = AdvanceHead
      /\ SkipCancelled \/ LeaveLevel \/ UNCHANGED levels
  BY DEF PickLevel, SkipCancelled, LeaveLevel, vars, bookVars, callVars
<1>2. IInv'
  BY PickLevelStep, SkipCancelledStep, LeaveLevelStep, StutterStep
<1>3. \A i : \A s \in Sides : \A p \in Ladder : QueuedAt(i, s, p)' => QueuedAt(i, s, p)
  BY <1>1, Advanced, ResetLevel, LevelsKept DEF IInv
<1>4. QED
  BY <1>1, <1>2, <1>3, LiveStays

(* The flat levels, the hand-kept best pointers and the dead slots trade   *)
(* by price-time priority, for every ladder and however long the run:      *)
(* every iteration of the loops is a trade with the order that has         *)
(* priority over all others on the other side, or is invisible.            *)
THEOREM RefinesClob == Spec => Priority!SafeSpec
<1>1. Init => Priority!Init
  BY DEF Init, Priority!Init, Priority!NoTaker, NoTaker, LiveIds
<1>2. IInv /\ [Next]_vars => [Priority!Next]_(Priority!clobVars)
  <2> SUFFICES ASSUME IInv, [Next]_vars
               PROVE  Priority!Next \/ UNCHANGED Priority!clobVars
    OBVIOUS
  <2>1. CASE \E side \in Sides, price \in Prices, qty \in Qtys : CallLimit(side, price, qty)
    BY <2>1, Submits DEF Priority!Next, Priority!Sides, Sides
  <2>2. CASE \E id \in 0 .. lastId : CancelCall(id)
    BY <2>2, Cancels DEF Priority!Next
  <2>3. CASE Fill \/ Rest \/ Return
    BY <2>3, Trades, Rests, Finishes DEF Priority!Next, Priority!Match
  <2>4. CASE PickLevel \/ SkipCancelled \/ LeaveLevel \/ UNCHANGED vars
    BY <2>4, Invisible DEF Priority!clobVars, Live
  <2>5. QED
    BY <2>1, <2>2, <2>3, <2>4 DEF Next, Engine
<1>3. QED
  BY <1>1, <1>2, Invariance, PTL DEF Spec, SafeSpec, Priority!SafeSpec

-------------------------------------------------------------------------------
(* The generator feeds the book: Workload, whose LadderSize and TotalOps   *)
(* are the LadderLen and MaxOps of the book it feeds.  The code checks     *)
(* neither price nor id.  The program's constants (500, 1500, 10, 20,      *)
(* 5000, a ladder of 4096) satisfy WorkloadAssumption.                     *)

(* The walk stays in its range and the ids count the limit orders. *)
WalkRange ==
    /\ mid \in MidMin .. MidMax
    /\ last_id \in 0 .. calls
    /\ calls \in 0 .. TotalOps

Generated == MidMin - PassSpan .. MidMax + PassSpan

(* A call CallLimit makes for one of the prices and quantities, or one     *)
(* CancelCall makes for an id there has been.                              *)
FitsCall(prices, qtys) ==
    /\ op.kind = "limit" =>
         op.side \in Sides /\ op.price \in prices /\ op.qty \in qtys /\ op.id = last_id
    /\ op.kind = "cancel" => op.id \in 0 .. last_id

GenInv == WalkRange /\ FitsCall(Generated, 1 .. QtyMax) /\ OnLadder /\ InOrderArray

LEMMA ClampInRange ==
    \A m \in Int : Clamp(m) \in MidMin .. MidMax
  BY WorkloadAssumption DEF Clamp

LEMMA GenInit == WalkInit => GenInv
  BY WorkloadAssumption
     DEF WalkInit, GenInv, WalkRange, FitsCall, OnLadder, InOrderArray

LEMMA LimitOpStep == ASSUME GenInv, LimitOp PROVE GenInv'
<1> USE DEF GenInv, WalkRange
<1>1. PICK step \in -1 .. 1, side \in {"bid", "ask"}, qty \in 1 .. QtyMax,
           aggressive \in BOOLEAN :
         \E offset \in IF aggressive THEN 0 .. AggrSpan - 1 ELSE 1 .. PassSpan :
           /\ mid' = NextMid(step)
           /\ op' = [kind |-> "limit", side |-> side, qty |-> qty, id |-> last_id + 1,
                     price |-> IF (side = "bid") # aggressive
                               THEN mid' - offset ELSE mid' + offset]
  BY DEF LimitOp
<1>2. PICK offset \in 0 .. PassSpan :
           /\ mid' = NextMid(step)
           /\ op'.kind = "limit" /\ op'.id = last_id + 1
           /\ op'.side \in Sides /\ op'.qty \in 1 .. QtyMax
           /\ op'.price = mid' - offset \/ op'.price = mid' + offset
  BY <1>1, WorkloadAssumption DEF Sides
<1>3. mid' \in MidMin .. MidMax
  BY <1>2, ClampInRange, WorkloadAssumption DEF NextMid
<1>4. WalkRange' /\ InOrderArray'
  <2>1. /\ calls < TotalOps /\ calls' = calls + 1 /\ last_id' = last_id + 1
        /\ last_id \in 0 .. calls /\ calls \in 0 .. TotalOps /\ TotalOps \in Nat
    BY WorkloadAssumption DEF LimitOp
  <2>2. /\ last_id' \in 0 .. calls' /\ calls' \in 0 .. TotalOps
        /\ last_id + 1 \in 1 .. calls' /\ last_id' <= calls' /\ calls' <= TotalOps
    BY ONLY <2>1
  <2>3. op'.kind = "limit" /\ op'.id = last_id + 1
    BY <1>2
  <2>4. QED
    BY ONLY <1>3, <2>2, <2>3, "limit" # "cancel" DEF WalkRange, InOrderArray
<1>5. OnLadder'
  <2>1. /\ MidMin \in Nat /\ MidMax \in Nat /\ PassSpan \in Nat /\ LadderSize \in Nat
        /\ PassSpan <= MidMin /\ MidMax + PassSpan < LadderSize
    BY WorkloadAssumption
  <2>2. op'.price \in 0 .. LadderSize - 1
    <3>1. ASSUME NEW m \in MidMin .. MidMax
          PROVE  m - offset \in 0 .. LadderSize - 1 /\ m + offset \in 0 .. LadderSize - 1
      BY ONLY <2>1, <3>1, offset \in 0 .. PassSpan
    <3>2. QED
      BY ONLY <3>1, <1>2, <1>3
  <2>3. QED
    BY <2>2 DEF OnLadder
<1>6. FitsCall(Generated, 1 .. QtyMax)'
  BY <1>2, <1>3, WorkloadAssumption DEF LimitOp, FitsCall, Generated
<1>7. QED
  BY <1>4, <1>5, <1>6

LEMMA CancelOpStep == ASSUME GenInv, CancelOp PROVE GenInv'
<1> USE DEF GenInv, WalkRange
<1>1. PICK step \in -1 .. 1, back \in 0 .. BackSpan - 1 :
         /\ mid' = NextMid(step)
         /\ op' = [kind |-> "cancel", id |-> Saturated(last_id, back)]
  BY DEF CancelOp
<1>2. mid' \in MidMin .. MidMax
  BY <1>1, ClampInRange, WorkloadAssumption DEF NextMid
<1>3. Saturated(last_id, back) \in 0 .. last_id
  BY WorkloadAssumption DEF Saturated
<1>4. QED
  BY <1>1, <1>2, <1>3, WorkloadAssumption DEF CancelOp, FitsCall, OnLadder, InOrderArray

LEMMA GenInvariance == WalkSpec => []GenInv
<1>1. GenInv /\ [WalkNext]_walkVars => GenInv'
  BY LimitOpStep, CancelOpStep
     DEF WalkNext, Ended, walkVars, GenInv, WalkRange, FitsCall, Generated,
         OnLadder, InOrderArray
<1>2. QED
  BY <1>1, GenInit, PTL DEF WalkSpec

(* No price leaves the ladder: limit() may index it with the price, as it  *)
(* does.                                                                   *)
THEOREM GeneratedOnLadder == WalkSpec => []OnLadder
<1>1. GenInv => OnLadder
  BY DEF GenInv
<1>2. QED
  BY <1>1, GenInvariance, PTL

(* No id leaves the order array, and none is used before its order came.   *)
THEOREM GeneratedInOrderArray == WalkSpec => []InOrderArray
<1>1. GenInv => InOrderArray
  BY DEF GenInv
<1>2. QED
  BY <1>1, GenInvariance, PTL

(* Every operation generated is a call that TunedBook's Next makes when    *)
(* Prices and Qtys have what the generator may draw: what is proved of the *)
(* book is proved of it under this load.                                   *)
THEOREM GeneratedCallsFit ==
    ASSUME Generated \subseteq Prices, 1 .. QtyMax \subseteq Qtys
    PROVE  WalkSpec => []FitsCall(Prices, Qtys)
<1>1. GenInv => FitsCall(Prices, Qtys)
  BY DEF GenInv, FitsCall
<1>2. QED
  BY <1>1, GenInvariance, PTL

-------------------------------------------------------------------------------
(* Folds over finite sets.  MapThenFoldSet and FoldLeft are recursive      *)
(* functions on the subsets of the set they fold: c chooses the element    *)
(* to take out, F what it makes of it and of the fold of the others.  That *)
(* there is such a function is proved by descending to smaller sets.       *)

LEMMA SubsetInduction ==
    ASSUME NEW S, IsFiniteSet(S), NEW Good,
           \A T \in SUBSET S : (\A U \in SUBSET T : U # T => U \in Good) => T \in Good
    PROVE  \A T \in SUBSET S : T \in Good
<1> DEFINE Bad == {T \in SUBSET S : T \notin Good}
<1>1. SUFFICES ASSUME Bad # {} PROVE FALSE
  OBVIOUS
<1>2. Bad \subseteq FiniteSubsetsOf(S)
  BY FS_FiniteSubsetsOfFinite
<1>3. \E T \in Bad : \A U \in Bad : ~(<<U, T>> \in StrictSubsetOrdering(S))
  <2> HIDE DEF Bad
  <2>1. QED
    BY <1>1, <1>2, FS_StrictSubsetOrderingWellFounded, WFMin
<1>4. PICK T \in Bad : \A U \in Bad : ~(<<U, T>> \in StrictSubsetOrdering(S))
  BY <1>3
<1>5. \A U \in SUBSET T : U # T => U \in Good
  BY <1>4 DEF StrictSubsetOrdering
<1>6. QED
  BY <1>4, <1>5

IsFold(h, T, base, c, F) ==
    \A s \in SUBSET T : h[s] = IF s = {} THEN base ELSE F[<<c[s], h[s \ {c[s]}]>>]

LEMMA FoldsAgree ==
    ASSUME NEW S, IsFiniteSet(S), NEW base, NEW c, NEW F, NEW T \in SUBSET S, NEW U, NEW h, NEW k,
           \A s \in SUBSET S : s # {} => c[s] \in s,
           IsFold(h, T, base, c, F), IsFold(k, U, base, c, F)
    PROVE  \A s \in SUBSET T : s \in SUBSET U => h[s] = k[s]
<1> DEFINE Good == {s \in SUBSET T : s \in SUBSET U => h[s] = k[s]}
<1>1. ASSUME NEW s \in SUBSET T, \A u \in SUBSET s : u # s => u \in Good
      PROVE  s \in Good
  <2>1. SUFFICES ASSUME s \in SUBSET U PROVE h[s] = k[s]
    OBVIOUS
  <2>2. CASE s = {}
    BY <2>1, <2>2 DEF IsFold
  <2>3. CASE s # {}
    <3>1. c[s] \in s
      BY <2>3
    <3>2. h[s \ {c[s]}] = k[s \ {c[s]}]
      BY <1>1, <2>1, <3>1
    <3>3. h[s] = F[<<c[s], h[s \ {c[s]}]>>] /\ k[s] = F[<<c[s], k[s \ {c[s]}]>>]
      BY <2>1, <2>3 DEF IsFold
    <3>4. QED
      BY <3>2, <3>3
  <2>4. QED
    BY <2>2, <2>3
<1>2. IsFiniteSet(T)
  BY FS_Subset
<1> HIDE DEF Good
<1>3. \A s \in SUBSET T : s \in Good
  BY <1>1, <1>2, SubsetInduction
<1>4. QED
  BY <1>3 DEF Good

LEMMA FoldExists ==
    ASSUME NEW S, IsFiniteSet(S), NEW V, NEW base \in V, NEW c, NEW F \in [S \X V -> V],
           \A s \in SUBSET S : s # {} => c[s] \in s
    PROVE  \E h \in [SUBSET S -> V] : IsFold(h, S, base, c, F)
<1> DEFINE FoldOn(T, h) == h \in [SUBSET T -> V] /\ IsFold(h, T, base, c, F)
           Good == {T \in SUBSET S : \E h : FoldOn(T, h)}
           val(T) == (CHOOSE h : FoldOn(T, h))[T]
<1>1. ASSUME NEW T \in SUBSET S, \A U \in SUBSET T : U # T => U \in Good
      PROVE  T \in Good
  <2> DEFINE h == [s \in SUBSET T |-> IF s = {} THEN base ELSE F[<<c[s], val(s \ {c[s]})>>]]
  <2>1. ASSUME NEW u \in SUBSET T, u # T
        PROVE  FoldOn(u, CHOOSE k : FoldOn(u, k)) /\ val(u) \in V
    <3>1. \E k : FoldOn(u, k)
      BY <1>1, <2>1
    <3>2. FoldOn(u, CHOOSE k : FoldOn(u, k))
      <4> HIDE DEF FoldOn
      <4>1. QED
        BY <3>1
    <3>3. QED
      BY <3>2
  <2>2. ASSUME NEW s \in SUBSET T, s # {}
        PROVE  LET u == s \ {c[s]} IN u \in SUBSET T /\ u # T /\ <<c[s], val(u)>> \in S \X V
    <3>1. c[s] \in s
      BY <2>2
    <3> DEFINE u == s \ {c[s]}
    <3>2. u \in SUBSET T /\ u # T
      BY <3>1
    <3>3. val(u) \in V
      <4> HIDE DEF u, val, FoldOn
      <4>1. QED
        BY <2>1, <3>2
    <3>4. c[s] \in S
      BY <3>1
    <3> HIDE DEF val
    <3>5. QED
      BY <3>2, <3>3, <3>4
  <2>3. h \in [SUBSET T -> V]
    <3>1. ASSUME NEW s \in SUBSET T
          PROVE  (IF s = {} THEN base ELSE F[<<c[s], val(s \ {c[s]})>>]) \in V
      <4> HIDE DEF val
      <4>1. QED
        BY <2>2
    <3> HIDE DEF val
    <3>2. QED
      BY <3>1
  <2>4. ASSUME NEW s \in SUBSET T, s # {}
        PROVE  h[s \ {c[s]}] = val(s \ {c[s]})
    <3> DEFINE u == s \ {c[s]}
               k == CHOOSE k : FoldOn(u, k)
               w == u \ {c[u]}
               m == CHOOSE m : FoldOn(w, m)
    <3>1. u \in SUBSET T /\ u # T
      BY <2>2, <2>4
    <3>2. FoldOn(u, k) /\ val(u) = k[u]
      <4>1. FoldOn(u, k)
        <5> HIDE DEF u, FoldOn, val
        <5>1. QED
          BY <2>1, <3>1
      <4>2. QED
        BY <4>1
    <3>3. h[u] = IF u = {} THEN base ELSE F[<<c[u], val(w)>>]
      <4> HIDE DEF val, u
      <4>1. QED
        BY <3>1
    <3>4. k[u] = IF u = {} THEN base ELSE F[<<c[u], k[w]>>]
      <4> HIDE DEF u, k
      <4>1. QED
        BY <3>2 DEF IsFold
    <3>5. ASSUME u # {} PROVE k[w] = val(w)
      <4>1. c[u] \in u
        BY <3>1, <3>5
      <4>2. w \in SUBSET u /\ w \in SUBSET T /\ w # T
        BY <3>1, <4>1
      <4>3. FoldOn(w, m)
        <5> HIDE DEF w, FoldOn, val
        <5>1. QED
          BY <2>1, <4>2
      <4>4. val(w) = m[w]
        OBVIOUS
      <4>5. k[w] = m[w]
        <5>1. u \in SUBSET S
          BY <3>1
        <5>2. IsFold(k, u, base, c, F) /\ IsFold(m, w, base, c, F)
          <6> HIDE DEF u, k, w, m
          <6>1. QED
            BY ONLY <3>2, <4>3
        <5> HIDE DEF u, k, w, m
        <5>3. \A s1 \in SUBSET u : s1 \in SUBSET w => k[s1] = m[s1]
          BY ONLY <5>1, <5>2, FoldsAgree, IsFiniteSet(S),
             \A s1 \in SUBSET S : s1 # {} => c[s1] \in s1
        <5>4. QED
          BY ONLY <4>2, <5>3
      <4>6. QED
        BY <4>4, <4>5
    <3> HIDE DEF h, k, w, val
    <3>6. h[u] = val(u)
      BY <3>2, <3>3, <3>4, <3>5
    <3>7. QED
      BY <3>6
  <2>5. IsFold(h, T, base, c, F)
    <3>1. \A s \in SUBSET T : h[s] = IF s = {} THEN base ELSE F[<<c[s], val(s \ {c[s]})>>]
      <4> HIDE DEF val
      <4>1. QED
        OBVIOUS
    <3> HIDE DEF h, val
    <3>2. QED
      BY <2>4, <3>1 DEF IsFold
  <2>6. QED
    <3> HIDE DEF h
    <3>1. QED
      BY <2>3, <2>5
<1>2. S \in Good
  <2> HIDE DEF Good
  <2>1. QED
    BY <1>1, SubsetInduction
<1>3. QED
  BY <1>2


-------------------------------------------------------------------------------
(* The checksum: what its two nested loops fold, and in which order.       *)

LEMMA FiniteHasGreatest ==
    ASSUME NEW S, IsFiniteSet(S), S \subseteq Int, S # {}
    PROVE  \E x \in S : \A y \in S : x >= y
<1> DEFINE Above(x) == {y \in S : y > x}
<1> DEFINE T == {Above(x) : x \in S}
<1>1. T \subseteq FiniteSubsetsOf(S) /\ T # {}
  <2>1. FiniteSubsetsOf(S) = SUBSET S
    BY FS_FiniteSubsetsOfFinite
  <2>2. T \subseteq SUBSET S
    OBVIOUS
  <2>3. \A x \in S : Above(x) \in T
    OBVIOUS
  <2>4. QED
    BY <2>1, <2>2, <2>3
<1>2. \E U \in T : \A V \in T : ~(<<V, U>> \in StrictSubsetOrdering(S))
  <2> HIDE DEF T
  <2>1. QED
    BY <1>1, FS_StrictSubsetOrderingWellFounded, WFMin
<1>3. PICK x \in S : \A y \in S : ~(<<Above(y), Above(x)>> \in StrictSubsetOrdering(S))
  BY <1>2
<1>4. ASSUME NEW y \in S, y > x PROVE FALSE
  <2>1. Above(y) \subseteq Above(x) /\ y \in Above(x) /\ y \notin Above(y)
    <3>1. x \in Int /\ y \in Int /\ \A z \in S : z \in Int
      OBVIOUS
    <3>2. \A z \in S : z > y => z > x
      BY <1>4, <3>1
    <3>3. ~(y > y)
      BY <3>1
    <3>4. QED
      BY <1>4, <3>2, <3>3
  <2>2. <<Above(y), Above(x)>> \in StrictSubsetOrdering(S)
    BY <2>1 DEF StrictSubsetOrdering
  <2>3. QED
    BY <1>3, <2>2
<1>5. QED
  BY <1>4

LEMMA MaxIs ==
    ASSUME NEW S, IsFiniteSet(S), S \subseteq Int, S # {}
    PROVE  Max(S) \in S /\ \A y \in S : Max(S) >= y
  BY FiniteHasGreatest DEF Max

(* A fold that comes to the greatest element last: there is a function     *)
(* that does what the recursive definitions below say.                     *)
Ascends(h, S, F) ==
    \A s \in SUBSET S :
        h[s] = IF s = {} THEN <<>> ELSE F[<<Max(s), h[s \ {Max(s)}]>>]

LEMMA AscendingFold ==
    ASSUME NEW S, IsFiniteSet(S), S \subseteq Int, NEW F \in [S \X Seq(Nat) -> Seq(Nat)]
    PROVE  \E h \in [SUBSET S -> Seq(Nat)] : Ascends(h, S, F)
<1> DEFINE c == [s \in SUBSET S |-> Max(s)]
<1>1. ASSUME NEW s \in SUBSET S, s # {} PROVE c[s] \in s
  BY <1>1, MaxIs, FS_Subset
<1>2. PICK h \in [SUBSET S -> Seq(Nat)] : IsFold(h, S, <<>>, c, F)
  <2>1. <<>> \in Seq(Nat)
    OBVIOUS
  <2> HIDE DEF c
  <2>2. QED
    BY <1>1, <2>1, FoldExists
<1>3. \A s \in SUBSET S : c[s] = Max(s)
  OBVIOUS
<1> HIDE DEF c
<1>4. Ascends(h, S, F)
  BY <1>2, <1>3 DEF IsFold, Ascends
<1>5. QED
  BY <1>4

LEMMA EmptyQueue == <<>> \in Seq(Nat) /\ Increasing(<<>>) /\ Range(<<>>) = {}
  BY DEF Increasing, Range

(* What waits in a level is a queue: ids, oldest first. *)
LEMMA WaitingQueue ==
    ASSUME NEW l, LevelOK(l)
    PROVE  Waiting(l) \in Seq(Nat) /\ Increasing(Waiting(l))
<1> DEFINE w == Waiting(l)
           h == l.head
           n == Len(l.ids)
<1>1. h \in Nat /\ n \in Nat /\ h <= n /\ l.ids \in Seq(Nat)
  BY DEF LevelOK
<1>2. /\ w \in Seq(Nat)
      /\ Len(w) = IF h + 1 <= n THEN n - (h + 1) + 1 ELSE 0
      /\ \A k \in 1 .. n - (h + 1) + 1 : w[k] = l.ids[(h + 1) + k - 1]
  <2>1. h + 1 \in Int /\ n \in Int /\ \A k \in h + 1 .. n : l.ids[k] \in Nat
    BY <1>1
  <2>2. ASSUME NEW a \in Int, NEW b \in Int, \A k \in a .. b : l.ids[k] \in Nat
        PROVE  /\ SubSeq(l.ids, a, b) \in Seq(Nat)
               /\ Len(SubSeq(l.ids, a, b)) = IF a <= b THEN b - a + 1 ELSE 0
               /\ \A k \in 1 .. b - a + 1 : SubSeq(l.ids, a, b)[k] = l.ids[a + k - 1]
    BY ONLY <2>2, SubSeqProperties
  <2>3. w = SubSeq(l.ids, h + 1, n)
    BY DEF Waiting
  <2> HIDE DEF w, h, n
  <2>4. QED
    BY <2>1, <2>2, <2>3
<1> HIDE DEF w, h, n
<1>3. ASSUME NEW j \in DOMAIN w, NEW k \in DOMAIN w, j < k PROVE w[j] < w[k]
  <2>1. /\ DOMAIN w = 1 .. n - h
        /\ \A x \in 1 .. n - h : w[x] = l.ids[x + h]
    <3>1. DOMAIN w = 1 .. Len(w)
      BY <1>2
    <3>2. (IF h + 1 <= n THEN n - (h + 1) + 1 ELSE 0) = n - h /\ n - (h + 1) + 1 = n - h
      BY <1>1
    <3>3. \A x \in 1 .. n - h : (h + 1) + x - 1 = x + h
      BY <1>1
    <3>4. QED
      BY <1>2, <3>1, <3>2, <3>3
  <2>2. j + h \in h + 1 .. n /\ k + h \in h + 1 .. n /\ j + h < k + h
    BY <1>1, <1>3, <2>1
  <2>3. \A x, y \in h + 1 .. n : x < y => l.ids[x] < l.ids[y]
    <3>1. DOMAIN l.ids = 1 .. n
      BY <1>1 DEF n
    <3>2. h + 1 .. n \subseteq 1 .. n
      BY <1>1
    <3>3. QED
      BY <3>1, <3>2 DEF LevelOK, Increasing
  <2>4. l.ids[j + h] < l.ids[k + h]
    BY <2>2, <2>3
  <2>5. QED
    BY <2>1, <2>4
<1>4. QED
  BY <1>2, <1>3 DEF w, Increasing

(* A newer id at the end of a queue. *)
LEMMA AppendQueue ==
    ASSUME NEW q \in Seq(Nat), Increasing(q), NEW n \in Nat, \A i \in Range(q) : i < n
    PROVE  /\ Append(q, n) \in Seq(Nat)
           /\ Increasing(Append(q, n))
           /\ Range(Append(q, n)) = Range(q) \cup {n}
<1> DEFINE r == Append(q, n)
<1>1. /\ r \in Seq(Nat) /\ Len(q) \in Nat /\ DOMAIN q = 1 .. Len(q)
      /\ DOMAIN r = 1 .. Len(q) + 1
      /\ r[Len(q) + 1] = n
      /\ \A k \in 1 .. Len(q) : r[k] = q[k] /\ q[k] \in Nat /\ q[k] \in Range(q)
  BY DEF Range
<1>2. \A k \in DOMAIN r : k \in 1 .. Len(q) \/ k = Len(q) + 1
  BY <1>1
<1> HIDE DEF r
<1>3. Increasing(r)
  BY <1>1, <1>2 DEF Increasing
<1>4. Range(r) = Range(q) \cup {n}
  <2>1. \A x \in Range(r) : x \in Range(q) \cup {n}
    BY <1>1, <1>2 DEF Range
  <2>2. n \in Range(r)
    <3>1. Len(q) + 1 \in DOMAIN r
      BY <1>1
    <3>2. QED
      BY <1>1, <3>1 DEF Range
  <2>3. \A x \in Range(q) : x \in Range(r)
    <3>1. \A k \in DOMAIN q : k \in DOMAIN r /\ r[k] = q[k]
      BY <1>1
    <3>2. QED
      BY <3>1 DEF Range
  <2>4. QED
    BY <2>1, <2>2, <2>3
<1>5. QED
  BY <1>1, <1>3, <1>4 DEF r

(* The live orders of a level, oldest first. *)
LEMMA LiveInIs ==
    ASSUME NEW l, Waiting(l) \in Seq(Nat), Increasing(Waiting(l)),
           \A i \in Range(Waiting(l)) : i \in LiveIds <=> orders[i].qty # 0
    PROVE  /\ LiveIn(l) \in Seq(Nat)
           /\ Increasing(LiveIn(l))
           /\ Range(LiveIn(l)) = Range(Waiting(l)) \cap LiveIds
<1> DEFINE q == Waiting(l)
           S == DOMAIN q
           Step(x, v) == IF orders[q[x]].qty # 0 THEN Append(v, q[x]) ELSE v
           Loop(g) == g = [s \in SUBSET S |-> IF s = {} THEN <<>>
                                              ELSE Step(Max(s), g[s \ {Max(s)}])]
           g == CHOOSE f : Loop(f)
           F == [xv \in S \X Seq(Nat) |-> Step(xv[1], xv[2])]
<1>1. /\ S = 1 .. Len(q) /\ IsFiniteSet(S) /\ S \subseteq Int
      /\ \A x \in S : q[x] \in Nat
  BY FS_Interval
<1>2. LiveIn(l) = g[S]
  BY DEF LiveIn, FoldLeft, MapThenFoldSet
<1>3. Loop(g)
  <2>1. F \in [S \X Seq(Nat) -> Seq(Nat)]
    BY <1>1
  <2>2. PICK h \in [SUBSET S -> Seq(Nat)] : Ascends(h, S, F)
    <3>1. IsFiniteSet(S) /\ S \subseteq Int
      BY <1>1
    <3> HIDE DEF F, S
    <3>2. QED
      BY ONLY <2>1, <3>1, AscendingFold
  <2>3. ASSUME NEW s \in SUBSET S
        PROVE  h[s] = IF s = {} THEN <<>> ELSE Step(Max(s), h[s \ {Max(s)}])
    <3>1. CASE s = {}
      BY <2>2, <3>1 DEF Ascends
    <3>2. CASE s # {}
      <4>1. Max(s) \in S /\ h[s \ {Max(s)}] \in Seq(Nat)
        <5> HIDE DEF S
        <5>1. QED
          BY <1>1, <3>2, MaxIs, FS_Subset
      <4>2. F[<<Max(s), h[s \ {Max(s)}]>>] = Step(Max(s), h[s \ {Max(s)}])
        <5> HIDE DEF S
        <5>1. QED
          BY <4>1
      <4> HIDE DEF F, S, Step
      <4>3. QED
        BY <2>2, <3>2, <4>2 DEF Ascends
    <3>3. QED
      BY <3>1, <3>2
  <2>4. Loop(h)
    <3>1. h = [s \in SUBSET S |-> h[s]]
      <4> HIDE DEF S
      <4>1. QED
        OBVIOUS
    <3> HIDE DEF S, Step
    <3>2. QED
      BY <2>3, <3>1
  <2> HIDE DEF Loop
  <2>5. QED
    BY <2>4
<1>4. ASSUME NEW s \in SUBSET S
      PROVE  g[s] = IF s = {} THEN <<>> ELSE Step(Max(s), g[s \ {Max(s)}])
  <2> HIDE DEF g, S, Step
  <2>1. QED
    BY <1>3
<1> DEFINE Right(s) == /\ g[s] \in Seq(Nat) /\ Increasing(g[s])
                       /\ Range(g[s]) = {q[k] : k \in s} \cap LiveIds
           Good == {s \in SUBSET S : Right(s)}
<1>5. ASSUME NEW s \in SUBSET S, \A u \in SUBSET s : u # s => u \in Good
      PROVE  s \in Good
  <2> DEFINE m == Max(s)
             u == s \ {m}
  <2>1. CASE s = {}
    <3>1. g[s] = <<>>
      <4> HIDE DEF g
      <4>1. QED
        BY <1>4, <2>1
    <3>2. {q[k] : k \in s} = {}
      BY <2>1
    <3> HIDE DEF g
    <3>3. QED
      BY <3>1, <3>2, EmptyQueue
  <2>2. CASE s # {}
    <3>1. m \in s /\ \A k \in s : m >= k
      <4> HIDE DEF S
      <4>1. QED
        BY <1>1, <2>2, MaxIs, FS_Subset
    <3>2. Right(u) /\ g[s] = Step(m, g[u])
      <4>1. u \in SUBSET s /\ u # s
        BY <3>1
      <4> HIDE DEF g, Step, Right, m, S
      <4>2. u \in Good
        BY <1>5, <4>1
      <4>3. g[s] = Step(m, g[u])
        BY <1>4, <2>2 DEF m
      <4>4. QED
        BY <4>2, <4>3
    <3>3. q[m] \in Nat /\ \A i \in Range(g[u]) : i < q[m]
      <4>1. \A k \in u : k \in S /\ k < m /\ m \in S
        BY <1>1, <3>1
      <4>2. \A k \in u : q[k] < q[m]
        <5> HIDE DEF u, m
        <5>1. QED
          BY <4>1 DEF Increasing
      <4>3. q[m] \in Nat
        BY <1>1, <3>1
      <4> HIDE DEF g, u, m
      <4>4. QED
        BY <3>2, <4>2, <4>3
    <3>4. /\ {q[k] : k \in s} = {q[k] : k \in u} \cup {q[m]}
          /\ q[m] \in LiveIds <=> orders[q[m]].qty # 0
      <4>1. {q[k] : k \in s} = {q[k] : k \in u} \cup {q[m]}
        BY <3>1
      <4>2. q[m] \in Range(Waiting(l))
        <5> HIDE DEF m
        <5>1. QED
          BY <3>1 DEF Range
      <4> HIDE DEF m, q
      <4>3. QED
        BY <4>1, <4>2
    <3> HIDE DEF g, u, m, S
    <3>5. CASE q[m] \in LiveIds
      <4>1. g[s] = Append(g[u], q[m])
        BY <3>2, <3>4, <3>5
      <4>2. Range(g[s]) = Range(g[u]) \cup {q[m]} /\ g[s] \in Seq(Nat) /\ Increasing(g[s])
        BY <3>2, <3>3, <4>1, AppendQueue
      <4>3. QED
        BY <3>2, <3>4, <3>5, <4>2
    <3>6. CASE q[m] \notin LiveIds
      <4>1. g[s] = g[u]
        BY <3>2, <3>4, <3>6
      <4>2. QED
        BY <3>2, <3>4, <3>6, <4>1
    <3>7. QED
      BY <3>5, <3>6
  <2>3. QED
    BY <2>1, <2>2
<1>6. S \in Good
  <2>1. IsFiniteSet(S) /\ S \in SUBSET S
    BY <1>1
  <2> HIDE DEF Good, S
  <2>2. QED
    BY ONLY <1>5, <2>1, SubsetInduction
<1>7. Range(q) = {q[k] : k \in S}
  BY DEF Range
<1> HIDE DEF g, S
<1>8. QED
  BY <1>2, <1>6, <1>7

(* One sequence after another. *)
Ordered(R, a) == \A j, k \in DOMAIN a : j < k => <<a[j], a[k]>> \in R

LEMMA Joined ==
    ASSUME NEW a \in Seq(Nat), NEW b \in Seq(Nat), NEW R, Ordered(R, a), Ordered(R, b),
           \A i \in Range(a) : \A j \in Range(b) : <<i, j>> \in R
    PROVE  /\ a \o b \in Seq(Nat)
           /\ Range(a \o b) = Range(a) \cup Range(b)
           /\ Ordered(R, a \o b)
<1> DEFINE r == a \o b
           n == Len(a)
<1>1. /\ r \in Seq(Nat) /\ n \in Nat /\ Len(b) \in Nat
      /\ DOMAIN a = 1 .. n /\ DOMAIN b = 1 .. Len(b) /\ DOMAIN r = 1 .. n + Len(b)
      /\ \A k \in DOMAIN r : r[k] = IF k <= n THEN a[k] ELSE b[k - n]
  OBVIOUS
<1> HIDE DEF r, n
<1>2. ASSUME NEW k \in DOMAIN r
      PROVE  \/ k \in DOMAIN a /\ k <= n /\ r[k] = a[k] /\ r[k] \in Range(a)
             \/ k - n \in DOMAIN b /\ k > n /\ r[k] = b[k - n] /\ r[k] \in Range(b)
  BY <1>1 DEF Range
<1>3. Ordered(R, r)
  <2> SUFFICES ASSUME NEW j \in DOMAIN r, NEW k \in DOMAIN r, j < k
               PROVE  <<r[j], r[k]>> \in R
    BY DEF Ordered
  <2>1. j \in Int /\ k \in Int /\ n \in Int
    BY <1>1
  <2>2. CASE k <= n
    <3>1. j \in DOMAIN a /\ k \in DOMAIN a /\ r[j] = a[j] /\ r[k] = a[k]
      BY <1>1, <2>1, <2>2
    <3>2. QED
      BY <3>1 DEF Ordered
  <2>3. CASE j <= n /\ k > n
    <3>1. r[j] \in Range(a) /\ r[k] \in Range(b)
      BY <1>2, <2>1, <2>3
    <3>2. QED
      BY <3>1
  <2>4. CASE j > n
    <3>1. /\ j - n \in DOMAIN b /\ k - n \in DOMAIN b /\ j - n < k - n
          /\ r[j] = b[j - n] /\ r[k] = b[k - n]
      <4>1. j - n \in Int /\ k - n \in Int /\ k > n /\ j - n < k - n
        BY <2>1, <2>4
      <4>2. j - n \in DOMAIN b /\ r[j] = b[j - n]
        BY <1>2, <2>1, <2>4
      <4>3. k - n \in DOMAIN b /\ r[k] = b[k - n]
        BY <1>2, <2>1, <4>1
      <4>4. QED
        BY <4>1, <4>2, <4>3
    <3> HIDE DEF n
    <3>2. QED
      BY <3>1 DEF Ordered
  <2>5. QED
    BY <2>1, <2>2, <2>3, <2>4
<1>4. Range(r) = Range(a) \cup Range(b)
  <2>1. ASSUME NEW x \in Range(r) PROVE x \in Range(a) \cup Range(b)
    BY <1>2 DEF Range
  <2>2. ASSUME NEW x \in Range(a) PROVE x \in Range(r)
    <3>1. PICK k \in DOMAIN a : x = a[k]
      BY DEF Range
    <3>2. k \in DOMAIN r /\ r[k] = a[k]
      BY <1>1
    <3>3. QED
      BY <3>1, <3>2 DEF Range
  <2>3. ASSUME NEW x \in Range(b) PROVE x \in Range(r)
    <3>1. PICK k \in DOMAIN b : x = b[k]
      BY DEF Range
    <3>2. k + n \in DOMAIN r /\ ~(k + n <= n) /\ (k + n) - n = k
      BY <1>1
    <3>3. r[k + n] = b[k]
      BY <1>1, <3>2
    <3>4. QED
      BY <3>1, <3>2, <3>3 DEF Range
  <2>4. QED
    BY <2>1, <2>2, <2>3
<1>5. QED
  BY <1>1, <1>3, <1>4 DEF r

Precedes == {ij \in LiveIds \X LiveIds : Earlier(ij[1], ij[2])}

LEMMA PairOf ==
    ASSUME NEW A, NEW i \in A, NEW j \in A
    PROVE  <<i, j>> \in A \X A /\ <<i, j>>[1] = i /\ <<i, j>>[2] = j
  OBVIOUS

LEMMA PrecedesIs ==
    \A i, j \in LiveIds : (<<i, j>> \in Precedes <=> Earlier(i, j))
<1> SUFFICES ASSUME NEW i \in LiveIds, NEW j \in LiveIds
             PROVE  <<i, j>> \in Precedes <=> Earlier(i, j)
  OBVIOUS
<1> DEFINE ij == <<i, j>>
<1>1. ij \in LiveIds \X LiveIds /\ ij[1] = i /\ ij[2] = j
  BY PairOf
<1> HIDE DEF ij
<1>2. ij \in Precedes <=> Earlier(i, j)
  BY <1>1 DEF Precedes, Earlier, SideOf
<1>3. QED
  BY <1>2 DEF ij

(* The live orders in some of the levels of a side. *)
LiveAt(side, ps) == {i \in LiveIds : \E p \in ps : QueuedAt(i, side, p)}

LEMMA QueuedOnce ==
    ASSUME IInv, NEW side \in Sides, NEW p \in Ladder, NEW i \in LiveAt(side, {p})
    PROVE  i \in LiveIds /\ i \in Nat /\ SideOf(i) = side /\ orders[i].price = p
<1>1. i \in LiveIds /\ QueuedAt(i, side, p) /\ i \in Nat
  BY TunedBookAssumption DEF LiveAt, LiveIds, IInv, Types
<1>2. PICK t \in Sides : QueuedAt(i, t, orders[i].price)
  BY <1>1 DEF IInv, Placed
<1>3. orders[i].price \in Ladder
  BY <1>1 DEF IInv, Types, LiveIds
<1>4. t = side /\ orders[i].price = p
  BY <1>1, <1>2, <1>3 DEF IInv, Unique
<1>5. QED
  BY <1>1, <1>2, <1>4, SideIs DEF SidesRight

LEMMA LevelFolded ==
    ASSUME IInv, NEW side \in Sides, NEW p \in Ladder
    PROVE  LET ids == LiveIn(levels[side][p])
           IN  /\ ids \in Seq(Nat)
               /\ Range(ids) = LiveAt(side, {p})
               /\ Ordered(Precedes, ids)
<1> DEFINE ids == LiveIn(levels[side][p])
           l == levels[side][p]
<1>1. /\ ids \in Seq(Nat) /\ Increasing(ids)
      /\ Range(ids) = Range(Waiting(l)) \cap LiveIds
  <2>1. LevelOK(l)
    BY DEF IInv, LevelsOK
  <2>2. Waiting(l) \in Seq(Nat) /\ Increasing(Waiting(l))
    BY <2>1, WaitingQueue
  <2>3. ASSUME NEW i \in Range(Waiting(l)) PROVE i \in LiveIds <=> orders[i].qty # 0
    <3>1. QueuedAt(i, side, p)
      BY <2>3 DEF QueuedAt
    <3>2. i \in Nat /\ i <= lastId
      BY <3>1, QueuedIsKnown
    <3>3. lastId \in Nat /\ lastId <= MaxOps /\ MaxOps \in Nat
      BY TunedBookAssumption DEF IInv, Types
    <3>4. i \in 0 .. MaxOps + 1
      BY <3>2, <3>3
    <3>5. QED
      BY <3>4 DEF LiveIds, IInv, Types
  <2> HIDE DEF l
  <2>4. QED
    BY <2>2, <2>3, LiveInIs DEF ids, l
<1> HIDE DEF ids, l
<1>2. Range(ids) = LiveAt(side, {p})
  <2>1. \A i : QueuedAt(i, side, p) <=> i \in Range(Waiting(l))
    BY DEF QueuedAt, l
  <2>2. QED
    BY <1>1, <2>1 DEF LiveAt
<1>3. Ordered(Precedes, ids)
  <2> SUFFICES ASSUME NEW j \in DOMAIN ids, NEW k \in DOMAIN ids, j < k
               PROVE  <<ids[j], ids[k]>> \in Precedes
    BY DEF Ordered
  <2>1. ids[j] \in LiveAt(side, {p}) /\ ids[k] \in LiveAt(side, {p}) /\ ids[j] < ids[k]
    BY <1>1, <1>2 DEF Range, Increasing
  <2>2. QED
    BY <2>1, QueuedOnce, PrecedesIs DEF Earlier
<1>4. QED
  BY <1>1, <1>2, <1>3 DEF ids

(* A side: its levels, lowest price first. *)
LEMMA SideFolded ==
    ASSUME IInv, NEW side \in Sides
    PROVE  /\ FoldSide(side) \in Seq(Nat)
           /\ Range(FoldSide(side)) = LiveAt(side, Ladder)
           /\ Ordered(Precedes, FoldSide(side))
<1> DEFINE S == Ladder
           Folded(p) == LiveIn(levels[side][p])
           Loop(g) == g = [s \in SUBSET S |-> IF s = {} THEN <<>>
                                              ELSE g[s \ {Max(s)}] \o Folded(Max(s))]
           g == CHOOSE f : Loop(f)
           F == [xv \in S \X Seq(Nat) |-> xv[2] \o Folded(xv[1])]
<1>1. /\ IsFiniteSet(S) /\ S \subseteq Int
      /\ \A p \in S : Folded(p) \in Seq(Nat)
  <2>1. IsFiniteSet(S) /\ S \subseteq Int
    BY TunedBookAssumption, FS_Interval DEF Ladder
  <2>2. QED
    BY <2>1, LevelFolded
<1>2. FoldSide(side) = g[S]
  BY DEF FoldSide, MapThenFoldSet
<1> HIDE DEF S, Folded
<1>3. Loop(g)
  <2>1. F \in [S \X Seq(Nat) -> Seq(Nat)]
    <3>1. ASSUME NEW a \in Seq(Nat), NEW b \in Seq(Nat) PROVE a \o b \in Seq(Nat)
      OBVIOUS
    <3>2. \A xv \in S \X Seq(Nat) : xv[2] \in Seq(Nat) /\ Folded(xv[1]) \in Seq(Nat)
      BY <1>1
    <3>3. \A xv \in S \X Seq(Nat) : xv[2] \o Folded(xv[1]) \in Seq(Nat)
      BY <3>1, <3>2
    <3>4. QED
      BY <3>3
  <2>2. PICK h \in [SUBSET S -> Seq(Nat)] : Ascends(h, S, F)
    <3>1. IsFiniteSet(S) /\ S \subseteq Int
      BY <1>1
    <3> HIDE DEF F
    <3>2. QED
      BY ONLY <2>1, <3>1, AscendingFold
  <2>3. ASSUME NEW s \in SUBSET S
        PROVE  h[s] = IF s = {} THEN <<>> ELSE h[s \ {Max(s)}] \o Folded(Max(s))
    <3>1. CASE s = {}
      BY <2>2, <3>1 DEF Ascends
    <3>2. CASE s # {}
      <4>1. Max(s) \in S /\ h[s \ {Max(s)}] \in Seq(Nat)
        BY <1>1, <3>2, MaxIs, FS_Subset
      <4>2. F[<<Max(s), h[s \ {Max(s)}]>>] = h[s \ {Max(s)}] \o Folded(Max(s))
        BY <4>1
      <4> HIDE DEF F
      <4>3. QED
        BY <2>2, <3>2, <4>2 DEF Ascends
    <3>3. QED
      BY <3>1, <3>2
  <2>4. Loop(h)
    <3>1. h = [s \in SUBSET S |-> h[s]]
      OBVIOUS
    <3>2. QED
      BY <2>3, <3>1
  <2> HIDE DEF Loop
  <2>5. QED
    BY <2>4
<1>4. ASSUME NEW s \in SUBSET S
      PROVE  g[s] = IF s = {} THEN <<>> ELSE g[s \ {Max(s)}] \o Folded(Max(s))
  <2> HIDE DEF g
  <2>1. QED
    BY <1>3
<1> HIDE DEF g
<1> DEFINE Right(s) == /\ g[s] \in Seq(Nat) /\ Range(g[s]) = LiveAt(side, s)
                       /\ Ordered(Precedes, g[s])
           Good == {s \in SUBSET S : Right(s)}
<1>5. ASSUME NEW s \in SUBSET S, \A u \in SUBSET s : u # s => u \in Good
      PROVE  s \in Good
  <2> DEFINE m == Max(s)
             u == s \ {m}
             b == Folded(m)
  <2>1. CASE s = {}
    <3>1. g[s] = <<>>
      BY <1>4, <2>1
    <3>2. LiveAt(side, s) = {} /\ Ordered(Precedes, <<>>)
      BY <2>1 DEF LiveAt, Ordered
    <3>3. QED
      BY <3>1, <3>2, EmptyQueue
  <2>2. CASE s # {}
    <3>1. m \in s /\ m \in S /\ \A p \in s : m >= p
      BY <1>1, <2>2, MaxIs, FS_Subset
    <3>2. Right(u) /\ g[s] = g[u] \o b
      <4>1. u \in SUBSET s /\ u # s
        BY <3>1
      <4> HIDE DEF Right, m
      <4>2. u \in Good
        BY <1>5, <4>1
      <4>3. g[s] = g[u] \o b
        BY <1>4, <2>2 DEF m
      <4>4. QED
        BY <4>2, <4>3
    <3>3. b \in Seq(Nat) /\ Range(b) = LiveAt(side, {m}) /\ Ordered(Precedes, b)
      BY <3>1, LevelFolded DEF S, Folded
    <3>4. ASSUME NEW i \in LiveAt(side, u), NEW j \in LiveAt(side, {m})
          PROVE  <<i, j>> \in Precedes
      <4>1. PICK p \in u : i \in LiveAt(side, {p})
        BY DEF LiveAt
      <4>2. p \in S /\ p < m
        <5>1. p \in S /\ p # m /\ m >= p /\ p \in Int /\ m \in Int
          BY <1>1, <3>1
        <5>2. QED
          BY <5>1
      <4>3. /\ i \in LiveIds /\ SideOf(i) = side /\ orders[i].price = p
            /\ j \in LiveIds /\ SideOf(j) = side /\ orders[j].price = m
        BY <3>1, <4>1, <4>2, QueuedOnce DEF S
      <4>4. QED
        BY <4>2, <4>3, PrecedesIs DEF Earlier
    <3>5. LiveAt(side, s) = LiveAt(side, u) \cup LiveAt(side, {m})
      BY <3>1 DEF LiveAt
    <3> HIDE DEF u, m, b
    <3>6. /\ g[u] \o b \in Seq(Nat) /\ Range(g[u] \o b) = Range(g[u]) \cup Range(b)
          /\ Ordered(Precedes, g[u] \o b)
      <4>1. \A i \in Range(g[u]) : \A j \in Range(b) : <<i, j>> \in Precedes
        BY <3>2, <3>3, <3>4
      <4>2. QED
        BY ONLY <3>2, <3>3, <4>1, Joined
    <3>7. QED
      BY <3>2, <3>3, <3>5, <3>6
  <2>3. QED
    BY <2>1, <2>2
<1>6. S \in Good
  <2> HIDE DEF Good
  <2>1. QED
    BY <1>1, <1>5, SubsetInduction
<1>7. QED
  BY <1>2, <1>6 DEF S

(* Whatever is in the book, dead ids in its queues included: checksum()    *)
(* mixes in every resting order once, bids before asks, prices ascending,  *)
(* oldest first.  This is all it depends on: two books with the same       *)
(* resting orders have the same checksum, in whatever way each stores them.*)
THEOREM ChecksumCanonicalHolds == Spec => []ChecksumCanonical
<1>1. IInv => ChecksumCanonical
  <2> SUFFICES ASSUME IInv PROVE ChecksumCanonical
    OBVIOUS
  <2> DEFINE ids == FoldSide("bid") \o FoldSide("ask")
             what(i) == <<i, orders[i].price, orders[i].qty>>
  <2>1. ids \in Seq(Nat) /\ Ordered(Precedes, ids) /\ Range(ids) = LiveIds
    <3>0. \A i \in LiveIds : orders[i].price \in Ladder
      BY DEF IInv, Types, LiveIds
    <3>1. \A i : i \in LiveAt("bid", Ladder) <=>
                     i \in LiveIds /\ SideOf(i) = "bid"
      BY <3>0, SideIs, QueuedOnce DEF LiveAt, SidesRight, QueuedAt, Sides
    <3>2. \A i : i \in LiveAt("ask", Ladder) <=>
                     i \in LiveIds /\ SideOf(i) = "ask"
      BY <3>0, SideIs, QueuedOnce DEF LiveAt, SidesRight, QueuedAt, Sides
    <3>3. \A i \in LiveAt("bid", Ladder) :
             \A j \in LiveAt("ask", Ladder) : <<i, j>> \in Precedes
      BY <3>1, <3>2, PrecedesIs DEF Earlier
    <3>4. ids \in Seq(Nat) /\ Ordered(Precedes, ids)
          /\ Range(ids) = LiveAt("bid", Ladder)
                              \cup LiveAt("ask", Ladder)
      BY <3>3, SideFolded, Joined DEF Sides
    <3>5. \A i : SideOf(i) = "bid" \/ SideOf(i) = "ask"
      BY DEF SideOf
    <3> HIDE DEF ids
    <3>6. QED
      BY <3>1, <3>2, <3>4, <3>5
  <2>2. Checksum = [k \in DOMAIN ids |-> what(ids[k])]
    BY DEF Checksum
  <2> HIDE DEF ids
  <2>3. Range(Checksum) = {what(i) : i \in LiveIds}
    BY <2>1, <2>2 DEF Range
  <2>4. ASSUME NEW j \in DOMAIN Checksum, NEW k \in DOMAIN Checksum, j < k
        PROVE  Earlier(Checksum[j][1], Checksum[k][1])
    <3>1. j \in DOMAIN ids /\ k \in DOMAIN ids
      BY <2>2
    <3>2. <<ids[j], ids[k]>> \in Precedes
      BY <2>1, <2>4, <3>1 DEF Ordered
    <3>3. Earlier(ids[j], ids[k])
      BY <2>1, <3>1, <3>2, PrecedesIs DEF Range
    <3>4. Checksum[j][1] = ids[j] /\ Checksum[k][1] = ids[k]
      BY <2>2, <3>1
    <3>5. QED
      BY <3>3, <3>4
  <2>5. QED
    BY <2>3, <2>4 DEF ChecksumCanonical
<1>2. QED
  BY <1>1, Invariance, PTL

===============================================================================
