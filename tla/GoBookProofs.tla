----------------------------- MODULE GoBookProofs -----------------------------
(***************************************************************************)
(* Proofs about GoBook for every set of prices and quantities and any      *)
(* number of calls: the inductive invariant IInv, that the tree of prices  *)
(* and the map of levels stay in step, that every iteration of the         *)
(* matching loops is a step of the abstract price-time priority book,      *)
(* Clob: the one the two C++ books are proved to implement, and what the   *)
(* checksum depends on.                                                    *)
(***************************************************************************)
EXTENDS GoBook, FiniteSetTheorems, SequenceTheorems, TLAPS

-------------------------------------------------------------------------------
(* The inductive invariant.  TreeMatchesMap is not inductive: that no      *)
(* level is exhausted when the inner loop has left one, or that the level  *)
(* it works on is in the tree at all, says nothing about what the loop may *)
(* do to it; and which orders are queued where needs the ids of cancelled  *)
(* orders too.                                                             *)

(* A level's slice has its consumed part before head and the waiting ids,  *)
(* oldest first, behind it.                                                *)
WellFormed(l) ==
    /\ l \in [ids : Seq(Nat), head : Nat]
    /\ l.head <= Len(l.ids)
    /\ \A j, k \in l.head + 1 .. Len(l.ids) : j < k => l.ids[j] < l.ids[k]

LevelsOK ==
    /\ DOMAIN levels = Sides /\ DOMAIN prices = Sides
    /\ \A s \in Sides :
         /\ DOMAIN levels[s] \subseteq Prices
         /\ IsFiniteSet(DOMAIN levels[s])
         /\ prices[s] = DOMAIN levels[s]
         /\ \A p \in DOMAIN levels[s] : WellFormed(levels[s][p])

(* Only the level the inner loop works on may be exhausted. *)
NotExhausted ==
    \A s \in Sides : \A p \in DOMAIN levels[s] :
        IsEmpty(levels[s][p]) => pc = "inner" /\ s = Opposite(taker.side) /\ p = lvl

Types ==
    /\ DOMAIN orders \subseteq Nat
    /\ \A i \in DOMAIN orders : orders[i] \in [price : Prices, qty : Nat \ {0}]
    /\ fills \in Nat /\ volume \in Nat /\ lastId \in Nat
    /\ pc \in {"idle", "outer", "inner"}
    /\ IF pc = "idle" THEN taker = NoTaker
       ELSE taker \in [id : Nat \ {0}, side : Sides, price : Prices, qty : Nat]

(* Every id that waits has been submitted; the order a call works on is    *)
(* the last one submitted and waits nowhere yet.                           *)
Known ==
    /\ \A i \in Nat : \A s \in Sides : \A p \in Prices :
         QueuedAt(i, s, p) => i <= lastId /\ (pc # "idle" => i < taker.id)
    /\ pc # "idle" => taker.id = lastId /\ taker.id \notin DOMAIN orders

(* No id, live or dead, waits in two levels. *)
Unique ==
    \A i \in Nat : \A s, t \in Sides : \A p, q \in Prices :
        QueuedAt(i, s, p) /\ QueuedAt(i, t, q) => s = t /\ p = q

(* A live order waits in the level of its price on one of the sides. *)
Placed == \A i \in DOMAIN orders : \E s \in Sides : QueuedAt(i, s, orders[i].price)

(* Price p is at least as good as q for an incoming order of this side. *)
AsGood(side, p, q) == IF side = "bid" THEN p <= q ELSE p >= q

(* The inner loop is at the best level of the other side, which crosses. *)
Working ==
    pc = "inner" =>
        /\ lvl \in DOMAIN levels[Opposite(taker.side)]
        /\ \A p \in DOMAIN levels[Opposite(taker.side)] : AsGood(taker.side, lvl, p)
        /\ Crosses(taker.side, taker.price, lvl)

IInv ==
    /\ LevelsOK
    /\ NotExhausted
    /\ Types
    /\ Known
    /\ Unique
    /\ Placed
    /\ Working

-------------------------------------------------------------------------------
(* The best level: a finite set of prices has a least and a greatest one.  *)

LEMMA FiniteHasLeast ==
    ASSUME NEW S, IsFiniteSet(S), S \subseteq Int, S # {}
    PROVE  \E x \in S : \A y \in S : x <= y
<1> DEFINE Below(x) == {y \in S : y < x}
<1> DEFINE T == {Below(x) : x \in S}
<1>1. T \subseteq FiniteSubsetsOf(S) /\ T # {}
  <2>1. FiniteSubsetsOf(S) = SUBSET S
    BY FS_FiniteSubsetsOfFinite
  <2>2. T \subseteq SUBSET S
    OBVIOUS
  <2>3. \A x \in S : Below(x) \in T
    OBVIOUS
  <2>4. QED
    BY <2>1, <2>2, <2>3
<1>2. \E U \in T : \A V \in T : ~(<<V, U>> \in StrictSubsetOrdering(S))
  <2> HIDE DEF T
  <2>1. QED
    BY <1>1, FS_StrictSubsetOrderingWellFounded, WFMin
<1>3. PICK x \in S : \A y \in S : ~(<<Below(y), Below(x)>> \in StrictSubsetOrdering(S))
  BY <1>2
<1>4. ASSUME NEW y \in S, y < x PROVE FALSE
  <2>1. Below(y) \subseteq Below(x) /\ y \in Below(x) /\ y \notin Below(y)
    <3>1. x \in Int /\ y \in Int /\ \A z \in S : z \in Int
      OBVIOUS
    <3>2. \A z \in S : z < y => z < x
      BY <1>4, <3>1
    <3>3. ~(y < y)
      BY <3>1
    <3>4. QED
      BY <1>4, <3>2, <3>3
  <2>2. <<Below(y), Below(x)>> \in StrictSubsetOrdering(S)
    BY <2>1 DEF StrictSubsetOrdering
  <2>3. QED
    BY <1>3, <2>2
<1>5. QED
  BY <1>4

LEMMA FiniteHasGreatest ==
    ASSUME NEW S, IsFiniteSet(S), S \subseteq Int, S # {}
    PROVE  \E x \in S : \A y \in S : x >= y
<1> DEFINE Above(x) == {y \in S : y > x}
<1> DEFINE T == {Above(x) : x \in S}
<1>1. T \subseteq FiniteSubsetsOf(S) /\ T # {}
  <2>1. FiniteSubsetsOf(S) = SUBSET S
    BY FS_FiniteSubsetsOfFinite
  <2>2. T \subseteq SUBSET S
    OBVIOUS
  <2>3. \A x \in S : Above(x) \in T
    OBVIOUS
  <2>4. QED
    BY <2>1, <2>2, <2>3
<1>2. \E U \in T : \A V \in T : ~(<<V, U>> \in StrictSubsetOrdering(S))
  <2> HIDE DEF T
  <2>1. QED
    BY <1>1, FS_StrictSubsetOrderingWellFounded, WFMin
<1>3. PICK x \in S : \A y \in S : ~(<<Above(y), Above(x)>> \in StrictSubsetOrdering(S))
  BY <1>2
<1>4. ASSUME NEW y \in S, y > x PROVE FALSE
  <2>1. Above(y) \subseteq Above(x) /\ y \in Above(x) /\ y \notin Above(y)
    <3>1. x \in Int /\ y \in Int /\ \A z \in S : z \in Int
      OBVIOUS
    <3>2. \A z \in S : z > y => z > x
      BY <1>4, <3>1
    <3>3. ~(y > y)
      BY <3>1
    <3>4. QED
      BY <1>4, <3>2, <3>3
  <2>2. <<Above(y), Above(x)>> \in StrictSubsetOrdering(S)
    BY <2>1 DEF StrictSubsetOrdering
  <2>3. QED
    BY <1>3, <2>2
<1>5. QED
  BY <1>4

LEMMA MinOfTwo ==
    ASSUME NEW a \in Int, NEW b \in Int
    PROVE  Min({a, b}) = IF a <= b THEN a ELSE b
<1>1. \E x \in {a, b} : \A y \in {a, b} : x <= y
  OBVIOUS
<1>2. Min({a, b}) \in {a, b} /\ \A y \in {a, b} : Min({a, b}) <= y
  BY <1>1 DEF Min
<1>3. QED
  BY <1>2

(* What an incoming order of `side' finds at the head of the other side. *)
LEMMA BestIsBest ==
    ASSUME LevelsOK, NEW side \in Sides, DOMAIN levels[Opposite(side)] # {}
    PROVE  LET best == BestPrice(Opposite(side))
           IN  /\ best \in DOMAIN levels[Opposite(side)]
               /\ \A p \in DOMAIN levels[Opposite(side)] : AsGood(side, best, p)
<1> DEFINE S == DOMAIN levels[Opposite(side)]
<1>1. S \subseteq Int /\ IsFiniteSet(S) /\ S # {} /\ prices[Opposite(side)] = S
  BY GoBookAssumption DEF LevelsOK, Sides, Opposite
<1>2. CASE side = "bid"
  <2>1. BestPrice(Opposite(side)) = Min(S)
    BY <1>1, <1>2 DEF BestPrice, Opposite
  <2> HIDE DEF S
  <2>2. Min(S) \in S /\ \A y \in S : Min(S) <= y
    BY <1>1, FiniteHasLeast DEF Min
  <2>3. QED
    BY <1>2, <2>1, <2>2 DEF AsGood, S
<1>3. CASE side = "ask"
  <2>1. BestPrice(Opposite(side)) = Max(S)
    BY <1>1, <1>3 DEF BestPrice, Opposite
  <2> HIDE DEF S
  <2>2. Max(S) \in S /\ \A y \in S : Max(S) >= y
    BY <1>1, FiniteHasGreatest DEF Max
  <2>3. QED
    BY <1>3, <2>1, <2>2 DEF AsGood, S
<1>4. QED
  BY <1>2, <1>3 DEF Sides

-------------------------------------------------------------------------------
(* Levels. *)

Has(l, i) == \E k \in l.head + 1 .. Len(l.ids) : l.ids[k] = i

(* The waiting ids are the slice behind head. *)
LEMMA WaitingIs ==
    ASSUME NEW l, WellFormed(l)
    PROVE  \A i : i \in Range(Waiting(l)) <=> Has(l, i)
<1> DEFINE w == Waiting(l)
           h == l.head
           n == Len(l.ids)
<1>1. h \in Nat /\ n \in Nat /\ h <= n /\ l.ids \in Seq(Nat)
  BY DEF WellFormed
<1>2. /\ DOMAIN w = 1 .. n - h
      /\ \A k \in 1 .. n - h : w[k] = l.ids[k + h]
  <2>1. Waiting(l) = SubSeq(l.ids, h + 1, n)
    BY DEF Waiting
  <2>2. h + 1 \in 1 .. n + 1 /\ n - (h + 1) + 1 = n - h
    BY <1>1
  <2>3. /\ Len(SubSeq(l.ids, h + 1, n)) = n - h
        /\ SubSeq(l.ids, h + 1, n) \in Seq(Nat)
        /\ \A k \in 1 .. n - h : SubSeq(l.ids, h + 1, n)[k] = l.ids[(h + 1) + k - 1]
    <3>1. h + 1 \in Int /\ n \in Int /\ \A k \in h + 1 .. n : l.ids[k] \in Nat
      BY <1>1
    <3>2. (IF h + 1 <= n THEN n - (h + 1) + 1 ELSE 0) = n - h
      <4>1. h \in Nat /\ n \in Nat /\ h <= n
        BY <1>1
      <4>2. QED
        BY ONLY <4>1
    <3> HIDE DEF h, n
    <3>3. QED
      BY <2>2, <3>1, <3>2, SubSeqProperties
  <2>4. \A k \in 1 .. n - h : (h + 1) + k - 1 = k + h
    BY <1>1
  <2>5. QED
    BY <2>1, <2>2, <2>3, <2>4
<1> HIDE DEF w, h, n
<1>3. \A k \in h + 1 .. n : k - h \in 1 .. n - h /\ (k - h) + h = k
  BY <1>1
<1>4. \A k \in 1 .. n - h : k + h \in h + 1 .. n
  BY <1>1
<1>5. Range(w) = {w[k] : k \in 1 .. n - h}
  BY <1>2 DEF Range
<1>6. ASSUME NEW i PROVE i \in Range(w) <=> \E k \in h + 1 .. n : l.ids[k] = i
  <2>1. ASSUME i \in Range(w) PROVE \E k \in h + 1 .. n : l.ids[k] = i
    <3>1. PICK k \in 1 .. n - h : w[k] = i
      BY <1>5, <2>1
    <3>2. k + h \in h + 1 .. n /\ l.ids[k + h] = i
      BY <1>2, <1>4, <3>1
    <3>3. QED
      BY <3>2
  <2>2. ASSUME NEW k \in h + 1 .. n, l.ids[k] = i PROVE i \in Range(w)
    <3>1. k - h \in 1 .. n - h /\ w[k - h] = i
      BY <1>2, <1>3, <2>2
    <3>2. QED
      BY <1>5, <3>1
  <2>3. QED
    BY <2>1, <2>2
<1>7. QED
  BY <1>6 DEF w, h, n, Has

LEMMA EmptyLevel ==
    /\ WellFormed(NoLevel)
    /\ \A l : WellFormed(l) /\ IsEmpty(l) => \A i : ~Has(l, i)
    /\ IsEmpty(NoLevel)
<1>1. NoLevel \in [ids : Seq(Nat), head : Nat] /\ NoLevel.head = 0 /\ NoLevel.ids = <<>>
  BY DEF NoLevel
<1>2. WellFormed(NoLevel) /\ IsEmpty(NoLevel)
  BY <1>1 DEF WellFormed, IsEmpty
<1>3. ASSUME NEW l, WellFormed(l), IsEmpty(l) PROVE \A i : ~Has(l, i)
  BY <1>3 DEF WellFormed, IsEmpty, Has
<1>4. QED
  BY <1>2, <1>3

(* An order that rests is behind all that wait. *)
LEMMA AppendLevel ==
    ASSUME NEW l, WellFormed(l), NEW n \in Nat, \A i : Has(l, i) => i < n,
           NEW r, r = [l EXCEPT !.ids = Append(@, n)]
    PROVE  /\ WellFormed(r) /\ ~IsEmpty(r)
           /\ \A i : Has(r, i) <=> Has(l, i) \/ i = n
<1> DEFINE q == l.ids
<1>1. /\ l \in [ids : Seq(Nat), head : Nat] /\ l.head \in Nat /\ q \in Seq(Nat)
      /\ Len(q) \in Nat /\ l.head <= Len(q)
      /\ \A j, k \in l.head + 1 .. Len(q) : j < k => q[j] < q[k]
  BY DEF WellFormed
<1>2. /\ r \in [ids : Seq(Nat), head : Nat]
      /\ r.head = l.head /\ r.ids = Append(q, n)
  <2>1. Append(q, n) \in Seq(Nat)
    BY <1>1
  <2>2. r = [l EXCEPT !.ids = Append(q, n)]
    OBVIOUS
  <2> HIDE DEF q
  <2>3. QED
    BY <1>1, <2>1, <2>2
<1>3. /\ Len(r.ids) = Len(q) + 1 /\ r.ids[Len(q) + 1] = n
      /\ \A k \in 1 .. Len(q) : r.ids[k] = q[k]
  BY <1>1, <1>2
<1> HIDE DEF q
<1>4. \A k \in l.head + 1 .. Len(q) + 1 : k \in l.head + 1 .. Len(q) \/ k = Len(q) + 1
  BY <1>1
<1>5. \A k \in l.head + 1 .. Len(q) : r.ids[k] = q[k] /\ q[k] < n /\ k # Len(q) + 1
  <2>1. \A k \in l.head + 1 .. Len(q) : k \in 1 .. Len(q) /\ k # Len(q) + 1
    BY <1>1
  <2>2. \A k \in l.head + 1 .. Len(q) : Has(l, q[k])
    BY DEF Has, q
  <2>3. QED
    BY <1>3, <2>1, <2>2
<1>6. ASSUME NEW j \in l.head + 1 .. Len(q) + 1, NEW k \in l.head + 1 .. Len(q) + 1, j < k
      PROVE  r.ids[j] < r.ids[k]
  <2>1. j \in l.head + 1 .. Len(q)
    BY <1>1, <1>6
  <2>2. CASE k \in l.head + 1 .. Len(q)
    BY <1>1, <1>5, <1>6, <2>1, <2>2
  <2>3. CASE k = Len(q) + 1
    BY <1>3, <1>5, <2>1, <2>3
  <2>4. QED
    BY <1>4, <2>2, <2>3
<1>7. WellFormed(r)
  <2>1. r.head <= Len(r.ids)
    BY <1>1, <1>2, <1>3
  <2>2. QED
    BY <1>2, <1>3, <1>6, <2>1 DEF WellFormed
<1>8. ~IsEmpty(r)
  BY <1>1, <1>2, <1>3 DEF IsEmpty
<1>9. /\ Len(q) + 1 \in l.head + 1 .. Len(q) + 1
      /\ \A k \in l.head + 1 .. Len(q) : k \in l.head + 1 .. Len(q) + 1
  <2>1. l.head \in Nat /\ Len(q) \in Nat /\ l.head <= Len(q)
    BY <1>1
  <2>2. QED
    BY ONLY <2>1
<1>10. ASSUME NEW i PROVE Has(r, i) <=> Has(l, i) \/ i = n
  <2>1. Has(r, i) <=> \E k \in l.head + 1 .. Len(q) + 1 : r.ids[k] = i
    BY <1>2, <1>3 DEF Has
  <2>2. Has(l, i) <=> \E k \in l.head + 1 .. Len(q) : q[k] = i
    BY DEF Has, q
  <2>3. QED
    BY <1>3, <1>4, <1>5, <1>9, <2>1, <2>2
<1>11. QED
  BY <1>7, <1>8, <1>10

(* head moves past the oldest id that waits. *)
LEMMA PopLevel ==
    ASSUME NEW l, WellFormed(l), ~IsEmpty(l), NEW r, r = [l EXCEPT !.head = @ + 1],
           NEW front, front = l.ids[l.head + 1]
    PROVE  /\ WellFormed(r)
           /\ front \in Nat /\ Has(l, front)
           /\ \A i : Has(r, i) <=> Has(l, i) /\ i # front
           /\ \A i : Has(l, i) => front <= i
<1> DEFINE n == Len(l.ids)
           h == l.head
<1>1. /\ l \in [ids : Seq(Nat), head : Nat] /\ h \in Nat /\ n \in Nat /\ h < n
      /\ \A j, k \in h + 1 .. n : j < k => l.ids[j] < l.ids[k]
      /\ \A k \in 1 .. n : l.ids[k] \in Nat
  BY DEF WellFormed, IsEmpty
<1>2. r \in [ids : Seq(Nat), head : Nat] /\ r.head = h + 1 /\ r.ids = l.ids
  BY <1>1
<1> HIDE DEF n, h
<1>3. /\ h + 1 \in h + 1 .. n /\ h + 1 \in 1 .. n /\ h + 1 <= n
      /\ \A k \in h + 1 .. n : k \in 1 .. n /\ (k = h + 1 \/ k \in (h + 1) + 1 .. n)
      /\ \A k \in (h + 1) + 1 .. n : k \in h + 1 .. n /\ h + 1 < k
  BY <1>1
<1>4. front = l.ids[h + 1] /\ front \in Nat
  BY <1>1, <1>3 DEF h
<1>5. \A i : Has(l, i) <=> \E k \in h + 1 .. n : l.ids[k] = i
  BY DEF Has, h, n
<1>6. \A i : Has(r, i) <=> \E k \in (h + 1) + 1 .. n : l.ids[k] = i
  BY <1>2 DEF Has, n
<1>7. \A k \in (h + 1) + 1 .. n : l.ids[k] \in Nat /\ front < l.ids[k] /\ l.ids[k] # front
  <2>1. ASSUME NEW k \in (h + 1) + 1 .. n
        PROVE  l.ids[k] \in Nat /\ front < l.ids[k]
    BY <1>1, <1>3, <1>4
  <2>2. QED
    BY <1>4, <2>1
<1>8. WellFormed(r)
  <2>1. \A j, k \in (h + 1) + 1 .. n : j < k => r.ids[j] < r.ids[k]
    BY <1>1, <1>2, <1>3
  <2>2. QED
    BY <1>2, <1>3, <2>1 DEF WellFormed, n
<1>9. \A i : Has(r, i) <=> Has(l, i) /\ i # front
  BY <1>3, <1>4, <1>5, <1>6, <1>7
<1>10. \A i : Has(l, i) => front <= i
  BY <1>3, <1>4, <1>5, <1>7
<1>11. Has(l, front)
  BY <1>3, <1>4, <1>5
<1>12. QED
  BY <1>4, <1>8, <1>9, <1>10, <1>11

(* An order is queued at a price if it waits in its level. *)
LEMMA QueuedHas ==
    LevelsOK => \A i : \A s \in Sides : \A p :
        QueuedAt(i, s, p) <=> p \in DOMAIN levels[s] /\ Has(levels[s][p], i)
  BY WaitingIs DEF LevelsOK, QueuedAt

LEMMA QueuedAfter ==
    LevelsOK' => \A i : \A s \in Sides : \A p :
        QueuedAt(i, s, p)' <=> p \in DOMAIN levels'[s] /\ Has(levels'[s][p], i)
<1>1. LevelsOK' => (\A i : \A s \in Sides : \A p :
        QueuedAt(i, s, p) <=> p \in DOMAIN levels[s] /\ Has(levels[s][p], i))'
  BY QueuedHas, PTL
<1>2. QED
  BY <1>1 DEF Has

LEMMA QueuesKept ==
    ASSUME LevelsOK, UNCHANGED <<levels, prices>>
    PROVE  /\ LevelsOK'
           /\ \A i \in Nat : \A s \in Sides : \A p \in Prices :
                QueuedAt(i, s, p)' <=> QueuedAt(i, s, p)
  BY DEF LevelsOK, WellFormed, QueuedAt, Waiting

-------------------------------------------------------------------------------
(* What the steps of a call do to the queues.                              *)

(* PopFront: the head of the level the inner loop works on waits no more,  *)
(* and nothing else changes.                                               *)
LEMMA Popped ==
    ASSUME IInv, pc = "inner", ~IsEmpty(Level), levels' = PopFront, UNCHANGED prices
    PROVE  /\ LevelsOK'
           /\ \A s \in Sides : DOMAIN levels'[s] = DOMAIN levels[s]
           /\ \A s \in Sides : \A p \in DOMAIN levels[s] :
                s # Opposite(taker.side) \/ p # lvl => levels'[s][p] = levels[s][p]
           /\ \A i \in Nat : \A s \in Sides : \A p \in Prices :
                QueuedAt(i, s, p)' <=>
                    /\ QueuedAt(i, s, p)
                    /\ ~(s = Opposite(taker.side) /\ p = lvl /\ i = FrontId)
<1> DEFINE opp == Opposite(taker.side)
<1>1. opp \in Sides /\ lvl \in DOMAIN levels[opp]
  BY DEF IInv, Types, Working, Opposite, Sides
<1>2. Level = levels[opp][lvl] /\ WellFormed(Level) /\ FrontId = Level.ids[Level.head + 1]
  BY <1>1 DEF IInv, LevelsOK, Level, FrontId
<1>3. DOMAIN levels = Sides
  BY DEF IInv, LevelsOK
<1>4. /\ DOMAIN levels' = Sides
      /\ \A s \in Sides : DOMAIN levels'[s] = DOMAIN levels[s]
      /\ levels'[opp][lvl] = [Level EXCEPT !.head = @ + 1]
      /\ \A s \in Sides : \A p \in DOMAIN levels[s] :
            s # opp \/ p # lvl => levels'[s][p] = levels[s][p]
  BY <1>1, <1>2, <1>3 DEF PopFront
<1> HIDE DEF opp
<1>5. PICK r : r = [Level EXCEPT !.head = @ + 1]
  OBVIOUS
<1>6. /\ WellFormed(r)
      /\ \A i : Has(r, i) <=> Has(Level, i) /\ i # FrontId
  BY <1>2, <1>5, PopLevel
<1>7. LevelsOK'
  <2>1. ASSUME NEW s \in Sides, NEW p \in DOMAIN levels'[s]
        PROVE  WellFormed(levels'[s][p])
    <3>1. p \in DOMAIN levels[s] /\ WellFormed(levels[s][p])
      BY <1>4 DEF IInv, LevelsOK
    <3>2. CASE s = opp /\ p = lvl
      BY <1>4, <1>5, <1>6, <3>2
    <3>3. CASE s # opp \/ p # lvl
      <4>1. levels'[s][p] = levels[s][p]
        BY <1>4, <3>1, <3>3
      <4>2. QED
        BY <3>1, <4>1
    <3>4. QED
      BY <3>2, <3>3
  <2>2. \A s \in Sides : /\ DOMAIN levels'[s] \subseteq Prices /\ IsFiniteSet(DOMAIN levels'[s])
                         /\ prices'[s] = DOMAIN levels'[s]
    BY <1>4 DEF IInv, LevelsOK
  <2>3. DOMAIN prices' = Sides
    BY DEF IInv, LevelsOK
  <2>4. QED
    BY <1>4, <2>1, <2>2, <2>3 DEF LevelsOK, WellFormed
<1>8. ASSUME NEW i \in Nat, NEW s \in Sides, NEW p \in Prices
      PROVE  QueuedAt(i, s, p)' <=>
                 QueuedAt(i, s, p) /\ ~(s = opp /\ p = lvl /\ i = FrontId)
  <2>1. QueuedAt(i, s, p) <=> p \in DOMAIN levels[s] /\ Has(levels[s][p], i)
    BY QueuedHas DEF IInv
  <2>2. QueuedAt(i, s, p)' <=> p \in DOMAIN levels'[s] /\ Has(levels'[s][p], i)
    BY <1>7, QueuedAfter
  <2>3. CASE s = opp /\ p = lvl
    BY <1>1, <1>2, <1>4, <1>5, <1>6, <2>1, <2>2, <2>3
  <2>4. CASE s # opp \/ p # lvl
    <3>1. p \in DOMAIN levels[s] => levels'[s][p] = levels[s][p]
      BY <1>4, <2>4
    <3>2. DOMAIN levels'[s] = DOMAIN levels[s]
      BY <1>4
    <3>3. QED
      BY <2>1, <2>2, <2>4, <3>1, <3>2
  <2>5. QED
    BY <2>3, <2>4
<1>9. QED
  BY <1>4, <1>7, <1>8 DEF opp

(* Resting: the order waits in the level of its price, and nothing else    *)
(* changes.                                                                *)
LEMMA Queued ==
    ASSUME IInv, Rest
    PROVE  /\ LevelsOK' /\ NotExhausted'
           /\ \A i \in Nat : \A s \in Sides : \A p \in Prices :
                QueuedAt(i, s, p)' <=>
                    \/ QueuedAt(i, s, p)
                    \/ s = taker.side /\ p = taker.price /\ i = taker.id
<1> DEFINE side == taker.side
           price == taker.price
           id == taker.id
           old == IF price \notin DOMAIN levels[side] THEN NoLevel ELSE levels[side][price]
<1>1. side \in Sides /\ price \in Prices /\ id \in Nat
  BY DEF IInv, Types, Rest
<1>2. /\ WellFormed(old)
      /\ \A i : Has(old, i) => i < id
      /\ \A i : Has(old, i) <=> QueuedAt(i, side, price)
  <2>1. CASE price \in DOMAIN levels[side]
    <3>1. old = levels[side][price] /\ WellFormed(old)
      BY <1>1, <2>1 DEF IInv, LevelsOK
    <3>2. \A i : Has(old, i) <=> QueuedAt(i, side, price)
      BY <1>1, <2>1, <3>1, QueuedHas DEF IInv
    <3>3. \A i : Has(old, i) => i \in Nat
      <4>1. \A k \in old.head + 1 .. Len(old.ids) : k \in DOMAIN old.ids
        BY <3>1 DEF WellFormed
      <4>2. old.ids \in Seq(Nat)
        BY <3>1 DEF WellFormed
      <4>3. QED
        BY <4>1, <4>2 DEF Has
    <3>4. QED
      BY <1>1, <3>1, <3>2, <3>3 DEF IInv, Known, Rest
  <2>2. CASE price \notin DOMAIN levels[side]
    <3>1. old = NoLevel /\ WellFormed(old) /\ \A i : ~Has(old, i)
      BY <2>2, EmptyLevel
    <3>2. \A i : ~QueuedAt(i, side, price)
      BY <2>2 DEF QueuedAt
    <3>3. QED
      BY <3>1, <3>2
  <2>3. QED
    BY <2>1, <2>2
<1>3. DOMAIN levels = Sides /\ DOMAIN prices = Sides /\ \A s \in Sides : prices[s] = DOMAIN levels[s]
  BY DEF IInv, LevelsOK
<1>4. PICK new : new = [old EXCEPT !.ids = Append(@, id)]
  OBVIOUS
<1>5. /\ DOMAIN levels' = Sides
      /\ DOMAIN levels'[side] = DOMAIN levels[side] \cup {price}
      /\ levels'[side][price] = new
      /\ \A p \in DOMAIN levels[side] \ {price} : levels'[side][p] = levels[side][p]
      /\ \A s \in Sides \ {side} : levels'[s] = levels[s]
      /\ DOMAIN prices' = Sides
      /\ prices'[side] = prices[side] \cup {price}
      /\ \A s \in Sides \ {side} : prices'[s] = prices[s]
  <2>1. levels' = [levels EXCEPT ![side] = With(@, price, [old EXCEPT !.ids = Append(@, id)])]
    BY DEF Rest
  <2>2. prices' = IF price \notin DOMAIN levels[side]
                  THEN [prices EXCEPT ![side] = @ \cup {price}] ELSE prices
    BY DEF Rest
  <2> HIDE DEF side, price, id, old
  <2>3. levels' = [levels EXCEPT ![side] = With(@, price, new)]
    BY <1>4, <2>1
  <2>4. QED
    BY <1>1, <1>3, <2>2, <2>3 DEF With
<1> HIDE DEF old, side, price, id
<1>6. /\ WellFormed(new) /\ ~IsEmpty(new)
      /\ \A i : Has(new, i) <=> Has(old, i) \/ i = id
  BY <1>1, <1>2, <1>4, AppendLevel
<1>7. LevelsOK'
  <2>1. ASSUME NEW s \in Sides
        PROVE  /\ DOMAIN levels'[s] \subseteq Prices /\ IsFiniteSet(DOMAIN levels'[s])
               /\ prices'[s] = DOMAIN levels'[s]
    <3>1. DOMAIN levels[s] \subseteq Prices /\ IsFiniteSet(DOMAIN levels[s])
      BY DEF IInv, LevelsOK
    <3>2. IsFiniteSet(DOMAIN levels[s] \cup {price})
      BY <3>1, FS_AddElement
    <3>3. QED
      BY <1>1, <1>3, <1>5, <3>1, <3>2
  <2>2. ASSUME NEW s \in Sides, NEW p \in DOMAIN levels'[s]
        PROVE  WellFormed(levels'[s][p])
    <3>1. CASE s = side /\ p = price
      BY <1>5, <1>6, <3>1
    <3>2. CASE ~(s = side /\ p = price)
      <4>1. p \in DOMAIN levels[s] /\ levels'[s][p] = levels[s][p]
        BY <1>5, <3>2
      <4>2. QED
        BY <4>1 DEF IInv, LevelsOK
    <3>3. QED
      BY <3>1, <3>2
  <2>3. QED
    BY <1>5, <2>1, <2>2 DEF LevelsOK, WellFormed
<1>8. NotExhausted'
  <2> SUFFICES ASSUME NEW s \in Sides, NEW p \in DOMAIN levels'[s]
               PROVE  ~IsEmpty(levels'[s][p])
    BY DEF NotExhausted, IsEmpty
  <2>1. CASE s = side /\ p = price
    BY <1>5, <1>6, <2>1
  <2>2. CASE ~(s = side /\ p = price)
    <3>1. p \in DOMAIN levels[s] /\ levels'[s][p] = levels[s][p]
      BY <1>5, <2>2
    <3>2. QED
      BY <3>1 DEF IInv, NotExhausted, Rest
  <2>3. QED
    BY <2>1, <2>2
<1>9. ASSUME NEW i \in Nat, NEW s \in Sides, NEW p \in Prices
      PROVE  QueuedAt(i, s, p)' <=>
                 QueuedAt(i, s, p) \/ (s = side /\ p = price /\ i = id)
  <2>1. QueuedAt(i, s, p) <=> p \in DOMAIN levels[s] /\ Has(levels[s][p], i)
    BY QueuedHas DEF IInv
  <2>2. QueuedAt(i, s, p)' <=> p \in DOMAIN levels'[s] /\ Has(levels'[s][p], i)
    BY <1>7, QueuedAfter
  <2>3. CASE s = side /\ p = price
    <3>1. Has(old, i) <=> QueuedAt(i, side, price)
      BY <1>2 DEF side, price
    <3>2. QED
      BY <1>5, <1>6, <2>2, <2>3, <3>1
  <2>4. CASE ~(s = side /\ p = price)
    <3>1. p \in DOMAIN levels'[s] <=> p \in DOMAIN levels[s]
      BY <1>5, <2>4
    <3>2. p \in DOMAIN levels[s] => levels'[s][p] = levels[s][p]
      BY <1>5, <2>4
    <3>3. QED
      BY <2>1, <2>2, <2>4, <3>1, <3>2
  <2>5. QED
    BY <2>3, <2>4
<1>10. QED
  BY <1>7, <1>8, <1>9 DEF side, price, id

(* Leaving a level takes it out of tree and map if it is exhausted: no id  *)
(* that waits is lost.                                                     *)
LEMMA Erased ==
    ASSUME IInv, LeaveLevel
    PROVE  /\ LevelsOK' /\ NotExhausted'
           /\ \A i \in Nat : \A s \in Sides : \A p \in Prices :
                QueuedAt(i, s, p)' <=> QueuedAt(i, s, p)
<1> DEFINE opp == Opposite(taker.side)
<1>1. opp \in Sides /\ lvl \in DOMAIN levels[opp] /\ Level = levels[opp][lvl]
  BY DEF IInv, Types, Working, Opposite, Sides, Level, LeaveLevel
<1>2. \A s \in Sides : \A p \in DOMAIN levels[s] :
          IsEmpty(levels[s][p]) => s = opp /\ p = lvl
  BY DEF IInv, NotExhausted
<1>3. CASE ~IsEmpty(Level)
  <2>1. levels' = levels /\ prices' = prices
    BY <1>3 DEF LeaveLevel
  <2>2. NotExhausted'
    <3>1. \A s \in Sides : \A p \in DOMAIN levels[s] : ~IsEmpty(levels[s][p])
      BY <1>1, <1>2, <1>3
    <3>2. QED
      BY <2>1, <3>1 DEF NotExhausted, IsEmpty
  <2>3. QED
    BY <2>1, <2>2, QueuesKept DEF IInv
<1>4. CASE IsEmpty(Level)
  <2>1. DOMAIN levels = Sides /\ DOMAIN prices = Sides /\ \A s \in Sides : prices[s] = DOMAIN levels[s]
    BY DEF IInv, LevelsOK
  <2>2. /\ levels' = [levels EXCEPT ![opp] = Without(@, lvl)]
        /\ prices' = [prices EXCEPT ![opp] = @ \ {lvl}]
    BY <1>4 DEF LeaveLevel, DeletePrice
  <2> HIDE DEF opp
  <2>3. /\ DOMAIN levels' = Sides
        /\ DOMAIN levels'[opp] = DOMAIN levels[opp] \ {lvl}
        /\ \A p \in DOMAIN levels[opp] \ {lvl} : levels'[opp][p] = levels[opp][p]
        /\ \A s \in Sides \ {opp} : levels'[s] = levels[s]
        /\ DOMAIN prices' = Sides
        /\ prices'[opp] = prices[opp] \ {lvl}
        /\ \A s \in Sides \ {opp} : prices'[s] = prices[s]
    BY <1>1, <2>1, <2>2 DEF Without, Restrict
  <2>4. ASSUME NEW s \in Sides
        PROVE  /\ DOMAIN levels'[s] \subseteq Prices /\ IsFiniteSet(DOMAIN levels'[s])
               /\ prices'[s] = DOMAIN levels'[s]
    <3>1. DOMAIN levels[s] \subseteq Prices /\ IsFiniteSet(DOMAIN levels[s])
      BY DEF IInv, LevelsOK
    <3>2. IsFiniteSet(DOMAIN levels[s] \ {lvl})
      BY <3>1, FS_RemoveElement
    <3>3. QED
      BY <2>1, <2>3, <3>1, <3>2
  <2>5. ASSUME NEW s \in Sides, NEW p \in DOMAIN levels'[s]
        PROVE  /\ p \in DOMAIN levels[s] /\ levels'[s][p] = levels[s][p]
               /\ WellFormed(levels'[s][p]) /\ ~IsEmpty(levels'[s][p])
    <3>1. p \in DOMAIN levels[s] /\ levels'[s][p] = levels[s][p] /\ (s # opp \/ p # lvl)
      BY <2>3
    <3>2. QED
      BY <1>2, <3>1 DEF IInv, LevelsOK
  <2>6. LevelsOK'
    BY <2>3, <2>4, <2>5 DEF LevelsOK, WellFormed
  <2>7. NotExhausted'
    BY <2>5 DEF NotExhausted, IsEmpty
  <2>8. ASSUME NEW i \in Nat, NEW s \in Sides, NEW p \in Prices
        PROVE  QueuedAt(i, s, p)' <=> QueuedAt(i, s, p)
    <3>1. QueuedAt(i, s, p) <=> p \in DOMAIN levels[s] /\ Has(levels[s][p], i)
      BY QueuedHas DEF IInv
    <3>2. QueuedAt(i, s, p)' <=> p \in DOMAIN levels'[s] /\ Has(levels'[s][p], i)
      BY <2>6, QueuedAfter
    <3>3. CASE s = opp /\ p = lvl
      <4>1. WellFormed(Level)
        BY <1>1 DEF IInv, LevelsOK
      <4>2. ~Has(Level, i)
        BY <1>4, <4>1, EmptyLevel
      <4>3. QED
        BY <1>1, <2>3, <3>1, <3>2, <3>3, <4>2
    <3>4. CASE ~(s = opp /\ p = lvl)
      <4>1. p \in DOMAIN levels'[s] <=> p \in DOMAIN levels[s]
        BY <2>3, <3>4
      <4>2. p \in DOMAIN levels[s] => levels'[s][p] = levels[s][p]
        BY <2>3, <3>4
      <4>3. QED
        BY <3>1, <3>2, <4>1, <4>2
    <3>5. QED
      BY <3>3, <3>4
  <2>9. QED
    BY <2>6, <2>7, <2>8
<1>5. QED
  BY <1>3, <1>4

-------------------------------------------------------------------------------
(* Every step preserves the inductive invariant. *)

LEMMA InitIInv == Init => IInv
<1> SUFFICES ASSUME Init PROVE IInv
  OBVIOUS
<1> USE DEF Init
<1>1. DOMAIN levels = Sides /\ \A s \in Sides : DOMAIN levels[s] = {}
  OBVIOUS
<1>2. LevelsOK
  BY <1>1, FS_EmptySet DEF LevelsOK
<1>3. Types
  BY DEF Types
<1>4. Known /\ Unique
  BY <1>1 DEF Known, Unique, QueuedAt
<1>5. Placed /\ NotExhausted
  BY <1>1 DEF Placed, NotExhausted
<1>6. Working
  BY DEF Working
<1>7. QED
  BY <1>2, <1>3, <1>4, <1>5, <1>6 DEF IInv

(* A step that queues nothing keeps the ids apart. *)
LEMMA NothingQueued ==
    ASSUME IInv,
           \A i \in Nat : \A s \in Sides : \A p \in Prices :
               QueuedAt(i, s, p)' => QueuedAt(i, s, p)
    PROVE  Unique'
  BY DEF IInv, Unique

(* A step that keeps every level and does not start in the inner loop      *)
(* leaves no level exhausted.                                              *)
LEMMA NoneExhausted ==
    ASSUME IInv, UNCHANGED levels, pc # "inner"
    PROVE  NotExhausted'
<1>1. \A s \in Sides : \A p \in DOMAIN levels[s] : ~IsEmpty(levels[s][p])
  BY DEF IInv, NotExhausted
<1>2. QED
  BY <1>1 DEF NotExhausted, IsEmpty

LEMMA CallLimitStep ==
    ASSUME IInv, NEW side \in Sides, NEW price \in Prices, NEW qty \in Qtys,
           CallLimit(side, price, qty)
    PROVE  IInv'
<1> USE DEF CallLimit, bookVars
<1>1. LevelsOK' /\ NotExhausted' /\ \A i \in Nat : \A s \in Sides : \A p \in Prices :
          QueuedAt(i, s, p)' <=> QueuedAt(i, s, p)
  BY QueuesKept, NoneExhausted DEF IInv
<1>2. Types'
  BY GoBookAssumption DEF IInv, Types
<1>3. Known'
  <2>1. lastId \in Nat /\ taker'.id = lastId + 1 /\ lastId' = lastId + 1
    BY DEF IInv, Types
  <2>2. \A i \in Nat : \A s \in Sides : \A p \in Prices : QueuedAt(i, s, p) => i <= lastId
    BY DEF IInv, Known
  <2>3. \A i \in DOMAIN orders : i <= lastId
    BY <2>2 DEF IInv, Placed, Types
  <2>4. lastId + 1 \notin DOMAIN orders
    BY <2>1, <2>3
  <2>5. QED
    BY <1>1, <2>1, <2>2, <2>4 DEF Known
<1>4. Unique'
  BY <1>1, NothingQueued
<1>5. Placed'
  BY <1>1 DEF IInv, Placed, Types
<1>6. Working'
  BY DEF Working
<1>7. QED
  BY <1>1, <1>2, <1>3, <1>4, <1>5, <1>6 DEF IInv

LEMMA CancelCallStep ==
    ASSUME IInv, NEW id, CancelCall(id)
    PROVE  IInv'
<1> USE DEF CancelCall, callVars
<1>1. LevelsOK' /\ NotExhausted' /\ \A i \in Nat : \A s \in Sides : \A p \in Prices :
          QueuedAt(i, s, p)' <=> QueuedAt(i, s, p)
  BY QueuesKept, NoneExhausted DEF IInv
<1>2. DOMAIN orders' = DOMAIN orders \ {id} /\ \A i \in DOMAIN orders' : orders'[i] = orders[i]
  BY DEF Without, Restrict
<1>3. Types'
  BY <1>2 DEF IInv, Types
<1>4. Known'
  BY <1>1 DEF IInv, Known
<1>5. Unique'
  BY <1>1, <1>2, NothingQueued
<1>6. Placed'
  BY <1>1, <1>2 DEF IInv, Placed, Types
<1>7. Working'
  BY DEF Working
<1>8. QED
  BY <1>1, <1>3, <1>4, <1>5, <1>6, <1>7 DEF IInv

LEMMA PickLevelStep == ASSUME IInv, PickLevel PROVE IInv'
<1> USE DEF PickLevel, bookVars
<1>1. LevelsOK' /\ NotExhausted' /\ \A i \in Nat : \A s \in Sides : \A p \in Prices :
          QueuedAt(i, s, p)' <=> QueuedAt(i, s, p)
  BY QueuesKept, NoneExhausted DEF IInv
<1>2. Types'
  BY DEF IInv, Types
<1>3. Known'
  BY <1>1 DEF IInv, Known
<1>4. Unique'
  BY <1>1, NothingQueued
<1>5. Placed'
  BY <1>1 DEF IInv, Placed, Types
<1>6. Working'
  <2>1. /\ taker.side \in Sides
        /\ prices[Opposite(taker.side)] = DOMAIN levels[Opposite(taker.side)]
    BY DEF IInv, Types, LevelsOK, Opposite, Sides
  <2>2. /\ lvl' \in DOMAIN levels[Opposite(taker.side)]
        /\ \A p \in DOMAIN levels[Opposite(taker.side)] : AsGood(taker.side, lvl', p)
        /\ Crosses(taker.side, taker.price, lvl')
    BY <2>1, BestIsBest DEF IInv, CrossesBest
  <2>3. QED
    BY <2>2 DEF Working, AsGood, Crosses, Opposite
<1>7. QED
  BY <1>1, <1>2, <1>3, <1>4, <1>5, <1>6 DEF IInv

(* If the best level of the other side does not cross, none does. *)
LEMMA NoneCrosses ==
    ASSUME IInv, NEW side \in Sides, NEW price \in Prices, ~CrossesBest(side, price)
    PROVE  \A p \in DOMAIN levels[Opposite(side)] : ~Crosses(side, price, p)
<1> SUFFICES ASSUME NEW p \in DOMAIN levels[Opposite(side)] PROVE ~Crosses(side, price, p)
  OBVIOUS
<1> DEFINE best == BestPrice(Opposite(side))
<1>1. best \in DOMAIN levels[Opposite(side)] /\ AsGood(side, best, p)
  BY BestIsBest DEF IInv
<1>2. ~Crosses(side, price, best)
  <2>1. prices[Opposite(side)] = DOMAIN levels[Opposite(side)]
    BY DEF IInv, LevelsOK, Opposite, Sides
  <2>2. QED
    BY <2>1 DEF CrossesBest
<1>3. best \in Int /\ p \in Int /\ price \in Int
  BY <1>1, GoBookAssumption DEF IInv, LevelsOK, Opposite, Sides
<1> HIDE DEF best
<1>4. QED
  BY <1>1, <1>2, <1>3 DEF AsGood, Crosses

LEMMA RestStep == ASSUME IInv, Rest PROVE IInv'
<1> USE DEF Rest
<1>1. /\ taker.side \in Sides /\ taker.price \in Prices
      /\ taker.id \in Nat \ {0} /\ taker.qty \in Nat \ {0}
      /\ taker.id = lastId /\ taker.id \notin DOMAIN orders
  BY DEF IInv, Types, Known
<1>2. LevelsOK' /\ NotExhausted' /\ \A i \in Nat : \A s \in Sides : \A p \in Prices :
          QueuedAt(i, s, p)' <=>
              \/ QueuedAt(i, s, p)
              \/ s = taker.side /\ p = taker.price /\ i = taker.id
  BY Queued
<1>3. /\ DOMAIN orders' = DOMAIN orders \cup {taker.id}
      /\ orders'[taker.id] = [price |-> taker.price, qty |-> taker.qty]
      /\ \A i \in DOMAIN orders : orders'[i] = orders[i]
  BY <1>1 DEF With
<1>4. Types'
  BY <1>1, <1>3 DEF IInv, Types
<1>5. \A i \in Nat : \A s \in Sides : \A p \in Prices : QueuedAt(i, s, p) => i < taker.id
  BY DEF IInv, Known
<1>6. Known'
  BY <1>1, <1>2, <1>5 DEF Known
<1>7. Unique'
  BY <1>1, <1>2, <1>5 DEF IInv, Unique
<1>8. Placed'
  BY <1>1, <1>2, <1>3 DEF IInv, Placed, Types
<1>9. Working'
  BY DEF Working
<1>10. QED
  BY <1>2, <1>4, <1>6, <1>7, <1>8, <1>9 DEF IInv

LEMMA ReturnStep == ASSUME IInv, Return PROVE IInv'
<1> USE DEF Return, bookVars
<1>1. LevelsOK' /\ NotExhausted' /\ \A i \in Nat : \A s \in Sides : \A p \in Prices :
          QueuedAt(i, s, p)' <=> QueuedAt(i, s, p)
  BY QueuesKept, NoneExhausted DEF IInv
<1>2. Types'
  BY DEF IInv, Types
<1>3. Known'
  BY <1>1 DEF IInv, Known
<1>4. Unique'
  BY <1>1, NothingQueued
<1>5. Placed'
  BY <1>1 DEF IInv, Placed, Types
<1>6. Working'
  BY DEF Working
<1>7. QED
  BY <1>1, <1>2, <1>3, <1>4, <1>5, <1>6 DEF IInv

(* The head of the level waits in no other one. *)
LEMMA HeadQueuedOnce ==
    ASSUME IInv, pc = "inner", ~IsEmpty(Level)
    PROVE  /\ FrontId \in Nat
           /\ QueuedAt(FrontId, Opposite(taker.side), lvl)
           /\ Opposite(taker.side) \in Sides /\ lvl \in Prices
           /\ \A s \in Sides : \A p \in Prices :
                QueuedAt(FrontId, s, p) => s = Opposite(taker.side) /\ p = lvl
           /\ \A i : QueuedAt(i, Opposite(taker.side), lvl) => FrontId <= i
<1>1. Opposite(taker.side) \in Sides /\ lvl \in DOMAIN levels[Opposite(taker.side)]
  BY DEF IInv, Types, Working, Opposite, Sides
<1>2. /\ WellFormed(Level) /\ Level = levels[Opposite(taker.side)][lvl]
      /\ FrontId = Level.ids[Level.head + 1] /\ lvl \in Prices
  BY <1>1 DEF IInv, LevelsOK, Level, FrontId
<1>3. PICK r : r = [Level EXCEPT !.head = @ + 1]
  OBVIOUS
<1>4. /\ FrontId \in Nat /\ Has(Level, FrontId)
      /\ \A i : Has(Level, i) => FrontId <= i
  BY <1>2, <1>3, PopLevel
<1>5. \A i : QueuedAt(i, Opposite(taker.side), lvl) <=> Has(Level, i)
  BY <1>1, <1>2, QueuedHas DEF IInv
<1>6. QueuedAt(FrontId, Opposite(taker.side), lvl)
  BY <1>4, <1>5
<1>7. \A s \in Sides : \A p \in Prices :
          QueuedAt(FrontId, s, p) => s = Opposite(taker.side) /\ p = lvl
  BY <1>1, <1>2, <1>4, <1>6 DEF IInv, Unique
<1>8. QED
  BY <1>1, <1>2, <1>4, <1>5, <1>6, <1>7

(* Popping may exhaust the level the inner loop works on, and no other. *)
LEMMA StillNotExhausted ==
    ASSUME IInv, pc = "inner", ~IsEmpty(Level), levels' = PopFront,
           UNCHANGED <<prices, pc, lvl>>, taker'.side = taker.side
    PROVE  NotExhausted'
<1> SUFFICES ASSUME NEW s \in Sides, NEW p \in DOMAIN levels'[s],
                    s # Opposite(taker.side) \/ p # lvl
             PROVE  ~IsEmpty(levels'[s][p])
  BY DEF NotExhausted, IsEmpty, Opposite
<1>1. p \in DOMAIN levels[s] /\ levels'[s][p] = levels[s][p]
  BY Popped
<1>2. QED
  BY <1>1 DEF IInv, NotExhausted

LEMMA SkipCancelledStep == ASSUME IInv, SkipCancelled PROVE IInv'
<1> USE DEF SkipCancelled, InLevel, callVars
<1>1. /\ LevelsOK' /\ NotExhausted'
      /\ \A s \in Sides : DOMAIN levels'[s] = DOMAIN levels[s]
      /\ \A i \in Nat : \A s \in Sides : \A p \in Prices :
           QueuedAt(i, s, p)' <=>
               /\ QueuedAt(i, s, p)
               /\ ~(s = Opposite(taker.side) /\ p = lvl /\ i = FrontId)
  BY StillNotExhausted, Popped
<1>2. Types'
  BY DEF IInv, Types
<1>3. Known'
  BY <1>1 DEF IInv, Known
<1>4. Unique'
  BY <1>1, NothingQueued
<1>5. Placed'
  BY <1>1 DEF IInv, Placed, Types
<1>6. Working'
  BY <1>1 DEF IInv, Working, Types, AsGood, Crosses, Opposite, Sides
<1>7. QED
  BY <1>1, <1>2, <1>3, <1>4, <1>5, <1>6 DEF IInv

(* One trade of quantity m with the head of the level. *)
LEMMA Traded ==
    ASSUME IInv, Fill, NEW head, head = FrontId,
           NEW m, m = Min({taker.qty, orders[head].qty})
    PROVE  /\ m \in Nat \ {0} /\ taker.qty - m \in Nat
           /\ m = IF orders[head].qty < taker.qty THEN orders[head].qty ELSE taker.qty
           /\ orders[head].qty \in Nat
           /\ orders[head].qty - m \in Nat
           /\ head \in DOMAIN orders
           /\ taker' = [taker EXCEPT !.qty = @ - m]
           /\ volume' = volume + m
           /\ orders' = IF orders[head].qty = m THEN Without(orders, head)
                        ELSE [orders EXCEPT ![head].qty = orders[head].qty - m]
           /\ levels' = IF orders[head].qty = m THEN PopFront ELSE levels
<1>1. /\ taker.qty \in Nat /\ taker.qty > 0
      /\ head \in DOMAIN orders /\ orders[head].qty \in Nat \ {0}
  BY DEF IInv, Types, Fill, InLevel
<1>2. m = IF taker.qty <= orders[head].qty THEN taker.qty ELSE orders[head].qty
  BY <1>1, MinOfTwo
<1>3. /\ taker' = [taker EXCEPT !.qty = @ - m]
      /\ volume' = volume + m
      /\ orders' = IF orders[head].qty = m THEN Without(orders, head)
                   ELSE [orders EXCEPT ![head].qty = orders[head].qty - m]
      /\ levels' = IF orders[head].qty = m THEN PopFront ELSE levels
  BY DEF Fill, WriteBack
<1>4. /\ m \in Nat \ {0} /\ taker.qty - m \in Nat
      /\ m = IF orders[head].qty < taker.qty THEN orders[head].qty ELSE taker.qty
      /\ orders[head].qty \in Nat /\ orders[head].qty - m \in Nat
  <2>1. CASE taker.qty <= orders[head].qty
    BY ONLY <1>1, <1>2, <2>1
  <2>2. CASE ~(taker.qty <= orders[head].qty)
    BY ONLY <1>1, <1>2, <2>2
  <2>3. QED
    BY <2>1, <2>2
<1>5. QED
  BY <1>1, <1>3, <1>4

LEMMA FillStep == ASSUME IInv, Fill PROVE IInv'
<1> DEFINE head == FrontId
           m == Min({taker.qty, orders[head].qty})
<1>1. /\ m \in Nat \ {0} /\ taker.qty - m \in Nat
      /\ orders[head].qty \in Nat
      /\ orders[head].qty - m \in Nat
      /\ head \in DOMAIN orders
      /\ taker' = [taker EXCEPT !.qty = @ - m]
      /\ volume' = volume + m
      /\ orders' = IF orders[head].qty = m THEN Without(orders, head)
                   ELSE [orders EXCEPT ![head].qty = orders[head].qty - m]
      /\ levels' = IF orders[head].qty = m THEN PopFront ELSE levels
  BY Traded
<1>2. /\ pc = "inner" /\ pc' = "inner" /\ lvl' = lvl /\ ~IsEmpty(Level)
      /\ fills' = fills + 1 /\ lastId' = lastId /\ prices' = prices
  BY DEF Fill, InLevel
<1> HIDE DEF m, head
<1>3. taker \in [id : Nat \ {0}, side : Sides, price : Prices, qty : Nat]
  BY <1>2 DEF IInv, Types
<1>4. /\ taker' \in [id : Nat \ {0}, side : Sides, price : Prices, qty : Nat]
      /\ taker'.id = taker.id /\ taker'.side = taker.side /\ taker'.price = taker.price
  BY <1>1, <1>3
<1>5. /\ LevelsOK'
      /\ \A s \in Sides : DOMAIN levels'[s] = DOMAIN levels[s]
      /\ \A i \in Nat : \A s \in Sides : \A p \in Prices :
           QueuedAt(i, s, p)' <=>
               /\ QueuedAt(i, s, p)
               /\ ~(orders[head].qty = m /\ s = Opposite(taker.side) /\ p = lvl /\ i = head)
  <2>1. CASE orders[head].qty = m
    BY <1>1, <1>2, <2>1, Popped DEF head
  <2>2. CASE orders[head].qty # m
    BY <1>1, <1>2, <2>2, QueuesKept DEF IInv
  <2>3. QED
    BY <2>1, <2>2
<1>6. /\ DOMAIN orders' = IF orders[head].qty = m THEN DOMAIN orders \ {head} ELSE DOMAIN orders
      /\ \A i \in DOMAIN orders' :
           /\ orders'[i] \in [price : Prices, qty : Nat \ {0}]
           /\ orders'[i].price = orders[i].price
  <2>1. \A i \in DOMAIN orders : orders[i] \in [price : Prices, qty : Nat \ {0}]
    BY DEF IInv, Types
  <2>2. CASE orders[head].qty = m
    BY <1>1, <2>1, <2>2 DEF Without, Restrict
  <2>3. CASE orders[head].qty # m
    <3>1. orders[head].qty - m \in Nat \ {0}
      BY <1>1, <2>3
    <3>2. QED
      BY <1>1, <2>1, <2>3, <3>1
  <2>4. QED
    BY <2>2, <2>3
<1>7. Types'
  <2>1. fills' \in Nat /\ volume' \in Nat /\ lastId' \in Nat
    BY <1>1, <1>2 DEF IInv, Types
  <2>2. DOMAIN orders' \subseteq Nat
    BY <1>6 DEF IInv, Types
  <2>3. QED
    BY <1>2, <1>4, <1>6, <2>1, <2>2 DEF Types
<1>8. Known'
  BY <1>2, <1>4, <1>5, <1>6 DEF IInv, Known
<1>9. Unique'
  BY <1>5, <1>6, NothingQueued
<1>10. Placed'
  BY <1>5, <1>6 DEF IInv, Placed, Types
<1>11. Working'
  <2>1. DOMAIN levels'[Opposite(taker.side)] = DOMAIN levels[Opposite(taker.side)]
    BY <1>3, <1>5 DEF Opposite, Sides
  <2>2. QED
    BY <1>2, <1>4, <2>1 DEF IInv, Working, AsGood, Crosses, Opposite
<1>12. NotExhausted'
  <2>1. CASE orders[head].qty = m
    BY <1>1, <1>2, <1>4, <2>1, StillNotExhausted
  <2>2. CASE orders[head].qty # m
    BY <1>1, <1>2, <1>4, <2>2 DEF IInv, NotExhausted, IsEmpty, Opposite
  <2>3. QED
    BY <2>1, <2>2
<1>13. QED
  BY <1>5, <1>7, <1>8, <1>9, <1>10, <1>11, <1>12 DEF IInv

LEMMA LeaveLevelStep == ASSUME IInv, LeaveLevel PROVE IInv'
<1>1. /\ LevelsOK' /\ NotExhausted'
      /\ \A i \in Nat : \A s \in Sides : \A p \in Prices :
           QueuedAt(i, s, p)' <=> QueuedAt(i, s, p)
  BY Erased
<1> USE DEF LeaveLevel
<1>2. Types'
  BY DEF IInv, Types
<1>3. Known'
  BY <1>1 DEF IInv, Known
<1>4. Unique'
  BY <1>1, NothingQueued
<1>5. Placed'
  BY <1>1 DEF IInv, Placed, Types
<1>6. Working'
  BY DEF Working
<1>7. QED
  BY <1>1, <1>2, <1>3, <1>4, <1>5, <1>6 DEF IInv

LEMMA StutterStep == ASSUME IInv, UNCHANGED vars PROVE IInv'
<1> USE DEF vars, bookVars, callVars
<1>1. LevelsOK' /\ \A i \in Nat : \A s \in Sides : \A p \in Prices :
          QueuedAt(i, s, p)' <=> QueuedAt(i, s, p)
  BY QueuesKept DEF IInv
<1>2. Types' /\ Known' /\ Placed'
  BY <1>1 DEF IInv, Types, Known, Placed
<1>3. Unique'
  BY <1>1, NothingQueued
<1>4. Working'
  BY DEF IInv, Working, AsGood, Crosses, Opposite
<1>5. NotExhausted'
  BY DEF IInv, NotExhausted, IsEmpty, Opposite
<1>6. QED
  BY <1>1, <1>2, <1>3, <1>4, <1>5 DEF IInv

LEMMA NextStep == IInv /\ [Next]_vars => IInv'
<1> SUFFICES ASSUME IInv, [Next]_vars PROVE IInv'
  OBVIOUS
<1>1. CASE \E side \in Sides, price \in Prices, qty \in Qtys : CallLimit(side, price, qty)
  BY <1>1, CallLimitStep
<1>2. CASE \E id \in 0 .. lastId : CancelCall(id)
  BY <1>2, CancelCallStep
<1>3. CASE Engine
  BY <1>3, PickLevelStep, RestStep, ReturnStep, SkipCancelledStep, FillStep, LeaveLevelStep
     DEF Engine
<1>4. CASE UNCHANGED vars
  BY <1>4, StutterStep
<1>5. QED
  BY <1>1, <1>2, <1>3, <1>4 DEF Next

LEMMA Invariance == Spec => []IInv
  BY InitIInv, NextStep, PTL DEF Spec, SafeSpec

-------------------------------------------------------------------------------
(* What the inductive invariant implies. *)

(* The side of a live order is the one it is queued on at its price.       *)
SidesRight ==
    \A i \in DOMAIN orders : \A s \in Sides :
        SideOf(i) = s <=> QueuedAt(i, s, orders[i].price)

LEMMA SideIs == IInv => SidesRight
<1> SUFFICES ASSUME IInv, NEW i \in DOMAIN orders, NEW s \in Sides
             PROVE SideOf(i) = s <=> QueuedAt(i, s, orders[i].price)
  BY DEF SidesRight
<1>1. i \in Nat /\ orders[i].price \in Prices
  BY DEF IInv, Types
<1>2. \A t \in Sides : \A p : QueuedAt(i, t, p) => p \in Prices
  BY DEF IInv, LevelsOK, QueuedAt
<1>3. PICK t \in Sides : QueuedAt(i, t, orders[i].price)
  BY DEF IInv, Placed
<1>4. \A u \in Sides : \A p : QueuedAt(i, u, p) => u = t /\ p = orders[i].price
  BY <1>1, <1>2, <1>3 DEF IInv, Unique
<1>5. orders[i].price \in DOMAIN levels[t]
  BY <1>3 DEF QueuedAt
<1>6. SideOf(i) = t
  <2>1. CASE t = "bid"
    BY <1>3, <1>5, <2>1 DEF SideOf
  <2>2. CASE t = "ask"
    <3>1. \A p : ~QueuedAt(i, "bid", p)
      BY <1>4, <2>2 DEF Sides
    <3>2. QED
      BY <2>2, <3>1 DEF SideOf
  <2>3. QED
    BY <2>1, <2>2 DEF Sides
<1>7. QED
  BY <1>3, <1>4, <1>6

(* Whatever the prices and quantities and however long the run, limit()    *)
(* keeps the b-tree of prices and the map of levels in step, so that no    *)
(* lookup of a price of the tree returns nil, and leaves no exhausted      *)
(* level behind for the outer loop to pick again and again.                *)
THEOREM TreeMatchesMapHolds == Spec => []TreeMatchesMap
<1>1. IInv => TreeMatchesMap
  BY DEF IInv, LevelsOK, NotExhausted, TreeMatchesMap
<1>2. QED
  BY <1>1, Invariance, PTL

-------------------------------------------------------------------------------
(* The book refines the price-time priority book: a call is Submit or      *)
(* Cancel, an iteration of the inner loop that fills is Trade, what        *)
(* follows the loops is Rest or Finish, and the steps that only move       *)
(* between levels or drop dead ids are invisible.                          *)

Live == [i \in DOMAIN orders |->
           [side |-> SideOf(i), price |-> orders[i].price, qty |-> orders[i].qty]]

LEMMA LiveIs ==
    IInv => /\ DOMAIN Live = DOMAIN orders
            /\ \A i \in DOMAIN orders :
                 /\ Live[i].side \in Sides
                 /\ Live[i].price = orders[i].price /\ Live[i].price \in Prices
                 /\ Live[i].qty = orders[i].qty
                 /\ \A s \in Sides : Live[i].side = s <=> QueuedAt(i, s, orders[i].price)
<1> SUFFICES ASSUME IInv, NEW i \in DOMAIN orders
             PROVE  /\ Live[i].side \in Sides
                    /\ Live[i].price = orders[i].price /\ Live[i].price \in Prices
                    /\ Live[i].qty = orders[i].qty
                    /\ \A s \in Sides : Live[i].side = s <=> QueuedAt(i, s, orders[i].price)
  BY DEF Live
<1>1. /\ Live[i].side = SideOf(i) /\ Live[i].price = orders[i].price
      /\ Live[i].qty = orders[i].qty
  BY DEF Live
<1>2. SideOf(i) \in Sides
  BY DEF SideOf, Sides
<1>3. orders[i].price \in Prices
  BY DEF IInv, Types
<1>4. QED
  BY <1>1, <1>2, <1>3, SideIs DEF SidesRight

(* A step that neither moves a live order to another queue nor brings one  *)
(* in leaves the side of each.                                             *)
LEMMA SidesStay ==
    ASSUME IInv, IInv',
           \A i \in DOMAIN orders' : i \in DOMAIN orders,
           \A i \in DOMAIN orders' : orders'[i].price = orders[i].price,
           \A i \in Nat : \A s \in Sides : \A p \in Prices :
               QueuedAt(i, s, p)' => QueuedAt(i, s, p)
    PROVE  \A i \in DOMAIN orders' : SideOf(i)' = SideOf(i)
<1> SUFFICES ASSUME NEW i \in DOMAIN orders' PROVE SideOf(i)' = SideOf(i)
  OBVIOUS
<1>1. \A s \in Sides : SideOf(i)' = s <=> QueuedAt(i, s, orders[i].price)'
  <2>1. SidesRight'
    BY SideIs, PTL
  <2>2. QED
    BY <2>1 DEF SidesRight
<1>2. SideOf(i)' \in Sides
  BY DEF SideOf, Sides
<1>3. i \in Nat /\ i \in DOMAIN orders /\ orders[i].price \in Prices
  BY DEF IInv, Types
<1>4. QueuedAt(i, SideOf(i)', orders[i].price)
  BY <1>1, <1>2, <1>3
<1>5. QED
  BY <1>2, <1>3, <1>4, SideIs DEF SidesRight

LEMMA LiveStays ==
    ASSUME IInv, IInv', UNCHANGED orders,
           \A i \in Nat : \A s \in Sides : \A p \in Prices :
               QueuedAt(i, s, p)' => QueuedAt(i, s, p)
    PROVE  Live' = Live
  BY SidesStay DEF Live

LEMMA Submits ==
    ASSUME IInv, NEW side \in Sides, NEW price \in Prices, NEW qty \in Qtys,
           CallLimit(side, price, qty)
    PROVE  Priority!Submit(side, price, qty)
<1>1. Live' = Live
  BY LiveStays, CallLimitStep, QueuesKept DEF CallLimit, bookVars, IInv
<1>2. taker = NoTaker
  BY DEF IInv, Types, CallLimit
<1>3. QED
  BY <1>1, <1>2 DEF Priority!Submit, Priority!NoTaker, NoTaker, Live, CallLimit, bookVars

LEMMA Cancels ==
    ASSUME IInv, NEW id, CancelCall(id)
    PROVE  Priority!Cancel(id)
<1>1. /\ DOMAIN orders' = DOMAIN orders \ {id}
      /\ \A i \in DOMAIN orders' : orders'[i] = orders[i]
  BY DEF CancelCall, Without, Restrict
<1>2. \A i \in DOMAIN orders' : SideOf(i)' = SideOf(i)
  BY <1>1, SidesStay, CancelCallStep, QueuesKept DEF CancelCall, IInv
<1>3. Live' = [i \in DOMAIN Live \ {id} |-> Live[i]]
  BY <1>1, <1>2 DEF Live
<1>4. taker = NoTaker
  BY DEF IInv, Types, CancelCall
<1>5. QED
  BY <1>3, <1>4 DEF Priority!Cancel, Priority!NoTaker, NoTaker, Live, CancelCall, callVars

LEMMA Finishes == ASSUME IInv, Return PROVE Priority!Finish
<1>1. Live' = Live
  BY LiveStays, ReturnStep, QueuesKept DEF Return, bookVars, IInv
<1>2. taker # NoTaker
  BY DEF IInv, Types, Return, NoTaker
<1>3. QED
  BY <1>1, <1>2 DEF Priority!Finish, Priority!NoTaker, NoTaker, Live, Return, bookVars

(* The orders an incoming one may trade with are in the queues of the      *)
(* other side that its price crosses.                                      *)
LEMMA MatchesAre ==
    ASSUME IInv, taker.side \in Sides
    PROVE  \A i : i \in Priority!Matches(taker.side, taker.price) <=>
               /\ i \in DOMAIN orders
               /\ QueuedAt(i, Opposite(taker.side), orders[i].price)
               /\ Crosses(taker.side, taker.price, orders[i].price)
<1>1. Opposite(taker.side) \in Sides
  BY DEF Opposite, Sides
<1>2. Priority!Matches(taker.side, taker.price) =
        {i \in DOMAIN Live : /\ Live[i].side = Opposite(taker.side)
                             /\ Crosses(taker.side, taker.price, Live[i].price)}
  BY DEF Priority!Matches, Priority!Opposite, Priority!Crosses, Opposite, Crosses, Live
<1>3. QED
  BY <1>1, <1>2, LiveIs

LEMMA Rests == ASSUME IInv, Rest PROVE Priority!Rest
<1>1. /\ taker.side \in Sides /\ taker.price \in Prices /\ taker.id \in Nat \ {0}
      /\ taker # NoTaker /\ taker.id \notin DOMAIN orders
  BY DEF IInv, Types, Known, Rest, NoTaker
<1>2. Priority!Matches(taker.side, taker.price) = {}
  <2>1. \A p \in DOMAIN levels[Opposite(taker.side)] : ~Crosses(taker.side, taker.price, p)
    BY <1>1, NoneCrosses DEF Rest
  <2>2. QED
    BY <1>1, <2>1, MatchesAre DEF QueuedAt
<1>3. IInv'
  BY RestStep
<1>4. /\ DOMAIN orders' = DOMAIN orders \cup {taker.id}
      /\ orders'[taker.id] = [price |-> taker.price, qty |-> taker.qty]
      /\ \A i \in DOMAIN orders : orders'[i] = orders[i]
  BY <1>1 DEF With, Rest
<1>5. \A i \in Nat : \A s \in Sides : \A p \in Prices :
          QueuedAt(i, s, p)' <=>
              \/ QueuedAt(i, s, p)
              \/ s = taker.side /\ p = taker.price /\ i = taker.id
  BY Queued
<1>6. \A i \in DOMAIN orders' : \A s \in Sides :
          SideOf(i)' = s <=> QueuedAt(i, s, orders[i].price)'
  <2>1. SidesRight'
    BY <1>3, SideIs, PTL
  <2>2. QED
    BY <2>1 DEF SidesRight
<1>7. ASSUME NEW i \in DOMAIN orders', i = taker.id
      PROVE  SideOf(i)' = taker.side
  <2>1. orders'[i].price = taker.price
    BY <1>4, <1>7
  <2>2. PICK s \in Sides, p \in Prices : s = taker.side /\ p = taker.price
    BY <1>1
  <2>3. QueuedAt(i, s, p)'
    BY <1>1, <1>5, <1>7, <2>2
  <2>4. QueuedAt(i, s, orders[i].price)'
    BY <2>1, <2>2, <2>3
  <2>5. QED
    BY <1>6, <2>2, <2>4
<1>8. ASSUME NEW i \in DOMAIN orders PROVE SideOf(i)' = SideOf(i)
  <2>1. i \in Nat /\ orders[i].price \in Prices
    BY DEF IInv, Types
  <2>2. PICK s \in Sides : s = SideOf(i)
    BY DEF SideOf, Sides
  <2>3. PICK p \in Prices : p = orders[i].price
    BY <2>1
  <2>4. QueuedAt(i, s, p)
    BY <2>2, <2>3, SideIs DEF SidesRight
  <2>5. i \in DOMAIN orders' /\ orders'[i].price = p
    BY <1>4, <2>3
  <2>6. QueuedAt(i, s, p)'
    BY <1>5, <2>1, <2>4
  <2>7. QueuedAt(i, s, orders[i].price)'
    BY <2>5, <2>6
  <2>8. QED
    BY <1>6, <2>2, <2>5, <2>7
<1>9. Live' = [i \in DOMAIN Live \cup {taker.id} |->
                 IF i = taker.id
                 THEN [side |-> taker.side, price |-> taker.price, qty |-> taker.qty]
                 ELSE Live[i]]
  <2>1. DOMAIN Live = DOMAIN orders
    BY DEF Live
  <2>2. ASSUME NEW i \in DOMAIN orders'
        PROVE  [side |-> SideOf(i), price |-> orders[i].price, qty |-> orders[i].qty]' =
                 IF i = taker.id
                 THEN [side |-> taker.side, price |-> taker.price, qty |-> taker.qty]
                 ELSE Live[i]
    <3>1. CASE i = taker.id
      BY <1>4, <1>7, <3>1
    <3>2. CASE i # taker.id
      <4>1. i \in DOMAIN orders /\ orders'[i] = orders[i] /\ SideOf(i)' = SideOf(i)
        BY <1>4, <1>8, <3>2
      <4>2. Live[i] = [side |-> SideOf(i), price |-> orders[i].price, qty |-> orders[i].qty]
        BY <4>1 DEF Live
      <4>3. QED
        BY <3>2, <4>1, <4>2
    <3>3. QED
      BY <3>1, <3>2
  <2>3. Live' = [i \in DOMAIN orders' |->
          [side |-> SideOf(i), price |-> orders[i].price, qty |-> orders[i].qty]']
    BY DEF Live
  <2>4. QED
    BY <1>4, <2>1, <2>2, <2>3
<1>10. QED
  BY <1>1, <1>2, <1>9 DEF Priority!Rest, Priority!NoTaker, NoTaker, Live, Rest

LEMMA Trades == ASSUME IInv, Fill PROVE Priority!Trade
<1> DEFINE head == FrontId
           m == Min({taker.qty, orders[head].qty})
<1>1. /\ m = IF orders[head].qty < taker.qty THEN orders[head].qty ELSE taker.qty
      /\ head \in DOMAIN orders
      /\ taker' = [taker EXCEPT !.qty = @ - m]
      /\ volume' = volume + m
      /\ orders' = IF orders[head].qty = m THEN Without(orders, head)
                   ELSE [orders EXCEPT ![head].qty = orders[head].qty - m]
      /\ levels' = IF orders[head].qty = m THEN PopFront ELSE levels
  BY Traded
<1>2. /\ pc = "inner" /\ ~IsEmpty(Level) /\ taker.qty > 0 /\ fills' = fills + 1
      /\ UNCHANGED <<prices, lastId, ops>>
  BY DEF Fill, InLevel
<1>3. /\ taker \in [id : Nat \ {0}, side : Sides, price : Prices, qty : Nat]
      /\ taker.side \in Sides
  BY <1>2 DEF IInv, Types
<1>4. /\ head \in Nat
      /\ QueuedAt(head, Opposite(taker.side), lvl)
      /\ Opposite(taker.side) \in Sides /\ lvl \in Prices
      /\ \A s \in Sides : \A p \in Prices :
           QueuedAt(head, s, p) => s = Opposite(taker.side) /\ p = lvl
      /\ \A i : QueuedAt(i, Opposite(taker.side), lvl) => head <= i
  BY <1>2, HeadQueuedOnce
<1> HIDE DEF head, m
<1>5. QueuedAt(head, Opposite(taker.side), orders[head].price) /\ orders[head].price = lvl
  <2>1. PICK s \in Sides : QueuedAt(head, s, orders[head].price)
    BY <1>1 DEF IInv, Placed
  <2>2. orders[head].price \in Prices
    BY <1>1 DEF IInv, Types
  <2>3. QED
    BY <1>4, <2>1, <2>2
<1>6. head \in Priority!Matches(taker.side, taker.price)
  BY <1>1, <1>2, <1>3, <1>5, MatchesAre DEF IInv, Working
<1>7. \A j \in Priority!Matches(taker.side, taker.price) :
          Priority!Before(taker.side, head, j)
  <2> SUFFICES ASSUME NEW j \in Priority!Matches(taker.side, taker.price)
               PROVE  Priority!Before(taker.side, head, j)
    OBVIOUS
  <2>1. j \in DOMAIN orders /\ QueuedAt(j, Opposite(taker.side), orders[j].price)
    BY <1>3, MatchesAre
  <2>2. AsGood(taker.side, lvl, orders[j].price)
    BY <1>2, <2>1 DEF IInv, Working, QueuedAt
  <2>3. lvl = orders[j].price => head <= j
    BY <1>4, <2>1
  <2>4. Live[head].price = lvl /\ Live[j].price = orders[j].price
    BY <1>1, <1>5, <2>1, LiveIs
  <2>5. lvl \in Int /\ orders[j].price \in Int
    BY <1>4, <2>1, GoBookAssumption DEF IInv, Types
  <2>6. \/ IF taker.side = "bid" THEN lvl < orders[j].price ELSE lvl > orders[j].price
        \/ lvl = orders[j].price /\ head <= j
    BY <2>2, <2>3, <2>5 DEF AsGood
  <2>7. \/ Priority!Better(taker.side, Live[head].price, Live[j].price)
        \/ Live[head].price = Live[j].price /\ head <= j
    BY <2>4, <2>6 DEF Priority!Better
  <2>8. QED
    BY <2>7 DEF Priority!Before, Live
<1>8. \A i \in DOMAIN orders' : i \in DOMAIN orders /\ SideOf(i)' = SideOf(i)
  <2>1. \A i \in DOMAIN orders' : i \in DOMAIN orders /\ orders'[i].price = orders[i].price
    <3>1. CASE orders[head].qty = m
      BY <1>1, <3>1 DEF Without, Restrict
    <3>2. CASE orders[head].qty # m
      BY <1>1, <3>2
    <3>3. QED
      BY <3>1, <3>2
  <2>2. \A i \in Nat : \A s \in Sides : \A p \in Prices :
            QueuedAt(i, s, p)' => QueuedAt(i, s, p)
    <3>1. CASE orders[head].qty = m
      BY <1>1, <1>2, <3>1, Popped
    <3>2. CASE orders[head].qty # m
      BY <1>1, <1>2, <3>2, QueuesKept DEF IInv
    <3>3. QED
      BY <3>1, <3>2
  <2>3. IInv'
    BY FillStep
  <2>4. QED
    BY <2>1, <2>2, <2>3, SidesStay
<1>9. Live' = IF Live[head].qty = m
              THEN [j \in DOMAIN Live \ {head} |-> Live[j]]
              ELSE [Live EXCEPT ![head].qty = @ - m]
  <2>1. DOMAIN Live = DOMAIN orders /\ Live[head].qty = orders[head].qty
    BY <1>1 DEF Live
  <2>2. CASE orders[head].qty = m
    BY <1>1, <1>8, <2>1, <2>2 DEF Live, Without, Restrict
  <2>3. CASE orders[head].qty # m
    <3>1. orders' = [orders EXCEPT ![head].qty = orders[head].qty - m]
      BY <1>1, <2>3
    <3>2. DOMAIN orders' = DOMAIN orders
      BY <3>1
    <3>3. ASSUME NEW i \in DOMAIN orders
          PROVE  Live'[i] = [Live EXCEPT ![head].qty = @ - m][i]
      <4>1. Live'[i] = [side |-> SideOf(i), price |-> orders'[i].price, qty |-> orders'[i].qty]
        BY <1>8, <3>2 DEF Live
      <4>2. Live[i] = [side |-> SideOf(i), price |-> orders[i].price, qty |-> orders[i].qty]
        BY DEF Live
      <4>3. CASE i = head
        <5>1. orders[i] \in [price : Prices, qty : Nat \ {0}]
          BY DEF IInv, Types
        <5>2. orders'[i].price = orders[i].price /\ orders'[i].qty = orders[i].qty - m
          BY <1>1, <3>1, <4>3, <5>1
        <5>3. QED
          BY <2>1, <4>1, <4>2, <4>3, <5>2
      <4>4. CASE i # head
        BY <2>1, <3>1, <4>1, <4>2, <4>4
      <4>5. QED
        BY <4>3, <4>4
    <3>4. QED
      BY <2>1, <2>3, <3>2, <3>3 DEF Live
  <2>4. QED
    BY <2>1, <2>2, <2>3
<1>10. taker # NoTaker
  BY <1>3 DEF NoTaker
<1>11. m = IF Live[head].qty < taker.qty THEN Live[head].qty ELSE taker.qty
  BY <1>1 DEF Live
<1>12. QED
  <2>1. \E i \in Priority!Matches(taker.side, taker.price) :
          /\ \A j \in Priority!Matches(taker.side, taker.price) :
                Priority!Before(taker.side, i, j)
          /\ LET k == IF Live[i].qty < taker.qty THEN Live[i].qty ELSE taker.qty
             IN  /\ Live' = IF Live[i].qty = k
                            THEN [j \in DOMAIN Live \ {i} |-> Live[j]]
                            ELSE [Live EXCEPT ![i].qty = @ - k]
                 /\ taker' = [taker EXCEPT !.qty = @ - k]
                 /\ volume' = volume + k
    BY <1>1, <1>6, <1>7, <1>9, <1>11
  <2>2. QED
    BY <1>2, <1>10, <2>1 DEF Priority!Trade, Priority!NoTaker, NoTaker, Live

LEMMA Invisible ==
    ASSUME IInv, PickLevel \/ SkipCancelled \/ LeaveLevel \/ UNCHANGED vars
    PROVE  UNCHANGED <<Live, taker, lastId, ops, fills, volume>>
<1>1. /\ UNCHANGED <<orders, taker, lastId, ops, fills, volume>>
      /\ SkipCancelled => /\ pc = "inner" /\ ~IsEmpty(Level)
                          /\ levels' = PopFront /\ UNCHANGED prices
      /\ SkipCancelled \/ LeaveLevel \/ UNCHANGED <<levels, prices>>
  BY DEF PickLevel, SkipCancelled, LeaveLevel, InLevel, vars, bookVars, callVars
<1>2. IInv'
  BY PickLevelStep, SkipCancelledStep, LeaveLevelStep, StutterStep
<1>3. \A i \in Nat : \A s \in Sides : \A p \in Prices :
          QueuedAt(i, s, p)' => QueuedAt(i, s, p)
  BY <1>1, Popped, Erased, QueuesKept DEF IInv
<1>4. QED
  BY <1>1, <1>2, <1>3, LiveStays

(* Whatever the prices and quantities and however long the run, the book   *)
(* with its lazily cancelled levels trades by price-time priority: every   *)
(* iteration of its loops is a trade with the order that has priority over *)
(* all others on the other side, or changes nothing anyone can see.        *)
THEOREM RefinesClob == Spec => Priority!SafeSpec
<1>1. Init => Priority!Init
  BY DEF Init, Priority!Init, Priority!NoTaker, NoTaker
<1>2. IInv /\ [Next]_vars => [Priority!Next]_(Priority!clobVars)
  <2> SUFFICES ASSUME IInv, [Next]_vars
               PROVE  Priority!Next \/ UNCHANGED Priority!clobVars
    OBVIOUS
  <2>1. CASE \E side \in Sides, price \in Prices, qty \in Qtys : CallLimit(side, price, qty)
    BY <2>1, Submits DEF Priority!Next, Priority!Sides, Sides
  <2>2. CASE \E id \in 0 .. lastId : CancelCall(id)
    BY <2>2, Cancels DEF Priority!Next
  <2>3. CASE Fill \/ Rest \/ Return
    BY <2>3, Trades, Rests, Finishes DEF Priority!Next, Priority!Match
  <2>4. CASE PickLevel \/ SkipCancelled \/ LeaveLevel \/ UNCHANGED vars
    BY <2>4, Invisible DEF Priority!clobVars, Live
  <2>5. QED
    BY <2>1, <2>2, <2>3, <2>4 DEF Next, Engine
<1>3. QED
  BY <1>1, <1>2, Invariance, PTL DEF Spec, SafeSpec, Priority!SafeSpec

-------------------------------------------------------------------------------
(* Folds over finite sets.  MapThenFoldSet and FoldLeft are recursive      *)
(* functions on the subsets of the set they fold: c chooses the element    *)
(* to take out, F what it makes of it and of the fold of the others.  That *)
(* there is such a function is proved by descending to smaller sets.       *)

LEMMA SubsetInduction ==
    ASSUME NEW S, IsFiniteSet(S), NEW Good,
           \A T \in SUBSET S : (\A U \in SUBSET T : U # T => U \in Good) => T \in Good
    PROVE  \A T \in SUBSET S : T \in Good
<1> DEFINE Bad == {T \in SUBSET S : T \notin Good}
<1>1. SUFFICES ASSUME Bad # {} PROVE FALSE
  OBVIOUS
<1>2. Bad \subseteq FiniteSubsetsOf(S)
  BY FS_FiniteSubsetsOfFinite
<1>3. \E T \in Bad : \A U \in Bad : ~(<<U, T>> \in StrictSubsetOrdering(S))
  <2> HIDE DEF Bad
  <2>1. QED
    BY <1>1, <1>2, FS_StrictSubsetOrderingWellFounded, WFMin
<1>4. PICK T \in Bad : \A U \in Bad : ~(<<U, T>> \in StrictSubsetOrdering(S))
  BY <1>3
<1>5. \A U \in SUBSET T : U # T => U \in Good
  BY <1>4 DEF StrictSubsetOrdering
<1>6. QED
  BY <1>4, <1>5

IsFold(h, T, base, c, F) ==
    \A s \in SUBSET T : h[s] = IF s = {} THEN base ELSE F[<<c[s], h[s \ {c[s]}]>>]

LEMMA FoldsAgree ==
    ASSUME NEW S, IsFiniteSet(S), NEW base, NEW c, NEW F, NEW T \in SUBSET S, NEW U, NEW h, NEW k,
           \A s \in SUBSET S : s # {} => c[s] \in s,
           IsFold(h, T, base, c, F), IsFold(k, U, base, c, F)
    PROVE  \A s \in SUBSET T : s \in SUBSET U => h[s] = k[s]
<1> DEFINE Good == {s \in SUBSET T : s \in SUBSET U => h[s] = k[s]}
<1>1. ASSUME NEW s \in SUBSET T, \A u \in SUBSET s : u # s => u \in Good
      PROVE  s \in Good
  <2>1. SUFFICES ASSUME s \in SUBSET U PROVE h[s] = k[s]
    OBVIOUS
  <2>2. CASE s = {}
    BY <2>1, <2>2 DEF IsFold
  <2>3. CASE s # {}
    <3>1. c[s] \in s
      BY <2>3
    <3>2. h[s \ {c[s]}] = k[s \ {c[s]}]
      BY <1>1, <2>1, <3>1
    <3>3. h[s] = F[<<c[s], h[s \ {c[s]}]>>] /\ k[s] = F[<<c[s], k[s \ {c[s]}]>>]
      BY <2>1, <2>3 DEF IsFold
    <3>4. QED
      BY <3>2, <3>3
  <2>4. QED
    BY <2>2, <2>3
<1>2. IsFiniteSet(T)
  BY FS_Subset
<1> HIDE DEF Good
<1>3. \A s \in SUBSET T : s \in Good
  BY <1>1, <1>2, SubsetInduction
<1>4. QED
  BY <1>3 DEF Good

LEMMA FoldExists ==
    ASSUME NEW S, IsFiniteSet(S), NEW V, NEW base \in V, NEW c, NEW F \in [S \X V -> V],
           \A s \in SUBSET S : s # {} => c[s] \in s
    PROVE  \E h \in [SUBSET S -> V] : IsFold(h, S, base, c, F)
<1> DEFINE FoldOn(T, h) == h \in [SUBSET T -> V] /\ IsFold(h, T, base, c, F)
           Good == {T \in SUBSET S : \E h : FoldOn(T, h)}
           val(T) == (CHOOSE h : FoldOn(T, h))[T]
<1>1. ASSUME NEW T \in SUBSET S, \A U \in SUBSET T : U # T => U \in Good
      PROVE  T \in Good
  <2> DEFINE h == [s \in SUBSET T |-> IF s = {} THEN base ELSE F[<<c[s], val(s \ {c[s]})>>]]
  <2>1. ASSUME NEW u \in SUBSET T, u # T
        PROVE  FoldOn(u, CHOOSE k : FoldOn(u, k)) /\ val(u) \in V
    <3>1. \E k : FoldOn(u, k)
      BY <1>1, <2>1
    <3>2. FoldOn(u, CHOOSE k : FoldOn(u, k))
      <4> HIDE DEF FoldOn
      <4>1. QED
        BY <3>1
    <3>3. QED
      BY <3>2
  <2>2. ASSUME NEW s \in SUBSET T, s # {}
        PROVE  LET u == s \ {c[s]} IN u \in SUBSET T /\ u # T /\ <<c[s], val(u)>> \in S \X V
    <3>1. c[s] \in s
      BY <2>2
    <3> DEFINE u == s \ {c[s]}
    <3>2. u \in SUBSET T /\ u # T
      BY <3>1
    <3>3. val(u) \in V
      <4> HIDE DEF u, val, FoldOn
      <4>1. QED
        BY <2>1, <3>2
    <3>4. c[s] \in S
      BY <3>1
    <3> HIDE DEF val
    <3>5. QED
      BY <3>2, <3>3, <3>4
  <2>3. h \in [SUBSET T -> V]
    <3>1. ASSUME NEW s \in SUBSET T
          PROVE  (IF s = {} THEN base ELSE F[<<c[s], val(s \ {c[s]})>>]) \in V
      <4> HIDE DEF val
      <4>1. QED
        BY <2>2
    <3> HIDE DEF val
    <3>2. QED
      BY <3>1
  <2>4. ASSUME NEW s \in SUBSET T, s # {}
        PROVE  h[s \ {c[s]}] = val(s \ {c[s]})
    <3> DEFINE u == s \ {c[s]}
               k == CHOOSE k : FoldOn(u, k)
               w == u \ {c[u]}
               m == CHOOSE m : FoldOn(w, m)
    <3>1. u \in SUBSET T /\ u # T
      BY <2>2, <2>4
    <3>2. FoldOn(u, k) /\ val(u) = k[u]
      <4>1. FoldOn(u, k)
        <5> HIDE DEF u, FoldOn, val
        <5>1. QED
          BY <2>1, <3>1
      <4>2. QED
        BY <4>1
    <3>3. h[u] = IF u = {} THEN base ELSE F[<<c[u], val(w)>>]
      <4> HIDE DEF val, u
      <4>1. QED
        BY <3>1
    <3>4. k[u] = IF u = {} THEN base ELSE F[<<c[u], k[w]>>]
      <4> HIDE DEF u, k
      <4>1. QED
        BY <3>2 DEF IsFold
    <3>5. ASSUME u # {} PROVE k[w] = val(w)
      <4>1. c[u] \in u
        BY <3>1, <3>5
      <4>2. w \in SUBSET u /\ w \in SUBSET T /\ w # T
        BY <3>1, <4>1
      <4>3. FoldOn(w, m)
        <5> HIDE DEF w, FoldOn, val
        <5>1. QED
          BY <2>1, <4>2
      <4>4. val(w) = m[w]
        OBVIOUS
      <4>5. k[w] = m[w]
        <5>1. u \in SUBSET S
          BY <3>1
        <5>2. IsFold(k, u, base, c, F) /\ IsFold(m, w, base, c, F)
          <6> HIDE DEF u, k, w, m
          <6>1. QED
            BY ONLY <3>2, <4>3
        <5> HIDE DEF u, k, w, m
        <5>3. \A s1 \in SUBSET u : s1 \in SUBSET w => k[s1] = m[s1]
          BY ONLY <5>1, <5>2, FoldsAgree, IsFiniteSet(S),
             \A s1 \in SUBSET S : s1 # {} => c[s1] \in s1
        <5>4. QED
          BY ONLY <4>2, <5>3
      <4>6. QED
        BY <4>4, <4>5
    <3> HIDE DEF h, k, w, val
    <3>6. h[u] = val(u)
      BY <3>2, <3>3, <3>4, <3>5
    <3>7. QED
      BY <3>6
  <2>5. IsFold(h, T, base, c, F)
    <3>1. \A s \in SUBSET T : h[s] = IF s = {} THEN base ELSE F[<<c[s], val(s \ {c[s]})>>]
      <4> HIDE DEF val
      <4>1. QED
        OBVIOUS
    <3> HIDE DEF h, val
    <3>2. QED
      BY <2>4, <3>1 DEF IsFold
  <2>6. QED
    <3> HIDE DEF h
    <3>1. QED
      BY <2>3, <2>5
<1>2. S \in Good
  <2> HIDE DEF Good
  <2>1. QED
    BY <1>1, SubsetInduction
<1>3. QED
  BY <1>2


-------------------------------------------------------------------------------
(* The checksum: what its two nested loops fold, and in which order.       *)

LEMMA MaxIs ==
    ASSUME NEW S, IsFiniteSet(S), S \subseteq Int, S # {}
    PROVE  Max(S) \in S /\ \A y \in S : Max(S) >= y
  BY FiniteHasGreatest DEF Max

(* A fold that comes to the greatest element last: there is a function     *)
(* that does what the recursive definitions below say.                     *)
Ascends(h, S, F) ==
    \A s \in SUBSET S :
        h[s] = IF s = {} THEN <<>> ELSE F[<<Max(s), h[s \ {Max(s)}]>>]

LEMMA AscendingFold ==
    ASSUME NEW S, IsFiniteSet(S), S \subseteq Int, NEW F \in [S \X Seq(Nat) -> Seq(Nat)]
    PROVE  \E h \in [SUBSET S -> Seq(Nat)] : Ascends(h, S, F)
<1> DEFINE c == [s \in SUBSET S |-> Max(s)]
<1>1. ASSUME NEW s \in SUBSET S, s # {} PROVE c[s] \in s
  BY <1>1, MaxIs, FS_Subset
<1>2. PICK h \in [SUBSET S -> Seq(Nat)] : IsFold(h, S, <<>>, c, F)
  <2>1. <<>> \in Seq(Nat)
    OBVIOUS
  <2> HIDE DEF c
  <2>2. QED
    BY <1>1, <2>1, FoldExists
<1>3. \A s \in SUBSET S : c[s] = Max(s)
  OBVIOUS
<1> HIDE DEF c
<1>4. Ascends(h, S, F)
  BY <1>2, <1>3 DEF IsFold, Ascends
<1>5. QED
  BY <1>4

(* A sequence of ids, oldest first. *)
Increasing(queue) == \A j, k \in DOMAIN queue : j < k => queue[j] < queue[k]

LEMMA EmptyQueue == <<>> \in Seq(Nat) /\ Increasing(<<>>) /\ Range(<<>>) = {}
  BY DEF Increasing, Range

(* What waits in a level is a queue: ids, oldest first. *)
LEMMA WaitingQueue ==
    ASSUME NEW l, WellFormed(l)
    PROVE  Waiting(l) \in Seq(Nat) /\ Increasing(Waiting(l))
<1> DEFINE w == Waiting(l)
           h == l.head
           n == Len(l.ids)
<1>1. h \in Nat /\ n \in Nat /\ h <= n /\ l.ids \in Seq(Nat)
  BY DEF WellFormed
<1>2. /\ w \in Seq(Nat)
      /\ Len(w) = IF h + 1 <= n THEN n - (h + 1) + 1 ELSE 0
      /\ \A k \in 1 .. n - (h + 1) + 1 : w[k] = l.ids[(h + 1) + k - 1]
  <2>1. h + 1 \in Int /\ n \in Int /\ \A k \in h + 1 .. n : l.ids[k] \in Nat
    BY <1>1
  <2>2. ASSUME NEW a \in Int, NEW b \in Int, \A k \in a .. b : l.ids[k] \in Nat
        PROVE  /\ SubSeq(l.ids, a, b) \in Seq(Nat)
               /\ Len(SubSeq(l.ids, a, b)) = IF a <= b THEN b - a + 1 ELSE 0
               /\ \A k \in 1 .. b - a + 1 : SubSeq(l.ids, a, b)[k] = l.ids[a + k - 1]
    BY ONLY <2>2, SubSeqProperties
  <2>3. w = SubSeq(l.ids, h + 1, n)
    BY DEF Waiting
  <2> HIDE DEF w, h, n
  <2>4. QED
    BY <2>1, <2>2, <2>3
<1> HIDE DEF w, h, n
<1>3. ASSUME NEW j \in DOMAIN w, NEW k \in DOMAIN w, j < k PROVE w[j] < w[k]
  <2>1. /\ DOMAIN w = 1 .. n - h
        /\ \A x \in 1 .. n - h : w[x] = l.ids[x + h]
    <3>1. DOMAIN w = 1 .. Len(w)
      BY <1>2
    <3>2. (IF h + 1 <= n THEN n - (h + 1) + 1 ELSE 0) = n - h /\ n - (h + 1) + 1 = n - h
      BY <1>1
    <3>3. \A x \in 1 .. n - h : (h + 1) + x - 1 = x + h
      BY <1>1
    <3>4. QED
      BY <1>2, <3>1, <3>2, <3>3
  <2>2. j + h \in h + 1 .. n /\ k + h \in h + 1 .. n /\ j + h < k + h
    BY <1>1, <1>3, <2>1
  <2>3. \A x, y \in h + 1 .. n : x < y => l.ids[x] < l.ids[y]
    BY DEF WellFormed, h, n
  <2>4. l.ids[j + h] < l.ids[k + h]
    BY <2>2, <2>3
  <2>5. QED
    BY <2>1, <2>4
<1>4. QED
  BY <1>2, <1>3 DEF w, Increasing

(* A newer id at the end of a queue. *)
LEMMA AppendQueue ==
    ASSUME NEW q \in Seq(Nat), Increasing(q), NEW n \in Nat, \A i \in Range(q) : i < n
    PROVE  /\ Append(q, n) \in Seq(Nat)
           /\ Increasing(Append(q, n))
           /\ Range(Append(q, n)) = Range(q) \cup {n}
<1> DEFINE r == Append(q, n)
<1>1. /\ r \in Seq(Nat) /\ Len(q) \in Nat /\ DOMAIN q = 1 .. Len(q)
      /\ DOMAIN r = 1 .. Len(q) + 1
      /\ r[Len(q) + 1] = n
      /\ \A k \in 1 .. Len(q) : r[k] = q[k] /\ q[k] \in Nat /\ q[k] \in Range(q)
  BY DEF Range
<1>2. \A k \in DOMAIN r : k \in 1 .. Len(q) \/ k = Len(q) + 1
  BY <1>1
<1> HIDE DEF r
<1>3. Increasing(r)
  BY <1>1, <1>2 DEF Increasing
<1>4. Range(r) = Range(q) \cup {n}
  <2>1. \A x \in Range(r) : x \in Range(q) \cup {n}
    BY <1>1, <1>2 DEF Range
  <2>2. n \in Range(r)
    <3>1. Len(q) + 1 \in DOMAIN r
      BY <1>1
    <3>2. QED
      BY <1>1, <3>1 DEF Range
  <2>3. \A x \in Range(q) : x \in Range(r)
    <3>1. \A k \in DOMAIN q : k \in DOMAIN r /\ r[k] = q[k]
      BY <1>1
    <3>2. QED
      BY <3>1 DEF Range
  <2>4. QED
    BY <2>1, <2>2, <2>3
<1>5. QED
  BY <1>1, <1>3, <1>4 DEF r

(* The live orders of a level, oldest first. *)
LEMMA LiveInIs ==
    ASSUME NEW l, Waiting(l) \in Seq(Nat), Increasing(Waiting(l))
    PROVE  /\ LiveIn(l) \in Seq(Nat)
           /\ Increasing(LiveIn(l))
           /\ Range(LiveIn(l)) = Range(Waiting(l)) \cap DOMAIN orders
<1> DEFINE q == Waiting(l)
           S == DOMAIN q
           Step(x, v) == IF q[x] \in DOMAIN orders THEN Append(v, q[x]) ELSE v
           Loop(g) == g = [s \in SUBSET S |-> IF s = {} THEN <<>>
                                              ELSE Step(Max(s), g[s \ {Max(s)}])]
           g == CHOOSE f : Loop(f)
           F == [xv \in S \X Seq(Nat) |-> Step(xv[1], xv[2])]
<1>1. /\ S = 1 .. Len(q) /\ IsFiniteSet(S) /\ S \subseteq Int
      /\ \A x \in S : q[x] \in Nat
  BY FS_Interval
<1>2. LiveIn(l) = g[S]
  BY DEF LiveIn, FoldLeft, MapThenFoldSet
<1>3. Loop(g)
  <2>1. F \in [S \X Seq(Nat) -> Seq(Nat)]
    BY <1>1
  <2>2. PICK h \in [SUBSET S -> Seq(Nat)] : Ascends(h, S, F)
    <3>1. IsFiniteSet(S) /\ S \subseteq Int
      BY <1>1
    <3> HIDE DEF F, S
    <3>2. QED
      BY ONLY <2>1, <3>1, AscendingFold
  <2>3. ASSUME NEW s \in SUBSET S
        PROVE  h[s] = IF s = {} THEN <<>> ELSE Step(Max(s), h[s \ {Max(s)}])
    <3>1. CASE s = {}
      BY <2>2, <3>1 DEF Ascends
    <3>2. CASE s # {}
      <4>1. Max(s) \in S /\ h[s \ {Max(s)}] \in Seq(Nat)
        <5> HIDE DEF S
        <5>1. QED
          BY <1>1, <3>2, MaxIs, FS_Subset
      <4>2. F[<<Max(s), h[s \ {Max(s)}]>>] = Step(Max(s), h[s \ {Max(s)}])
        <5> HIDE DEF S
        <5>1. QED
          BY <4>1
      <4> HIDE DEF F, S, Step
      <4>3. QED
        BY <2>2, <3>2, <4>2 DEF Ascends
    <3>3. QED
      BY <3>1, <3>2
  <2>4. Loop(h)
    <3>1. h = [s \in SUBSET S |-> h[s]]
      <4> HIDE DEF S
      <4>1. QED
        OBVIOUS
    <3> HIDE DEF S, Step
    <3>2. QED
      BY <2>3, <3>1
  <2> HIDE DEF Loop
  <2>5. QED
    BY <2>4
<1>4. ASSUME NEW s \in SUBSET S
      PROVE  g[s] = IF s = {} THEN <<>> ELSE Step(Max(s), g[s \ {Max(s)}])
  <2> HIDE DEF g, S, Step
  <2>1. QED
    BY <1>3
<1> DEFINE Right(s) == /\ g[s] \in Seq(Nat) /\ Increasing(g[s])
                       /\ Range(g[s]) = {q[k] : k \in s} \cap DOMAIN orders
           Good == {s \in SUBSET S : Right(s)}
<1>5. ASSUME NEW s \in SUBSET S, \A u \in SUBSET s : u # s => u \in Good
      PROVE  s \in Good
  <2> DEFINE m == Max(s)
             u == s \ {m}
  <2>1. CASE s = {}
    <3>1. g[s] = <<>>
      <4> HIDE DEF g
      <4>1. QED
        BY <1>4, <2>1
    <3>2. {q[k] : k \in s} = {}
      BY <2>1
    <3> HIDE DEF g
    <3>3. QED
      BY <3>1, <3>2, EmptyQueue
  <2>2. CASE s # {}
    <3>1. m \in s /\ \A k \in s : m >= k
      <4> HIDE DEF S
      <4>1. QED
        BY <1>1, <2>2, MaxIs, FS_Subset
    <3>2. Right(u) /\ g[s] = Step(m, g[u])
      <4>1. u \in SUBSET s /\ u # s
        BY <3>1
      <4> HIDE DEF g, Step, Right, m, S
      <4>2. u \in Good
        BY <1>5, <4>1
      <4>3. g[s] = Step(m, g[u])
        BY <1>4, <2>2 DEF m
      <4>4. QED
        BY <4>2, <4>3
    <3>3. q[m] \in Nat /\ \A i \in Range(g[u]) : i < q[m]
      <4>1. \A k \in u : k \in S /\ k < m /\ m \in S
        BY <1>1, <3>1
      <4>2. \A k \in u : q[k] < q[m]
        <5> HIDE DEF u, m
        <5>1. QED
          BY <4>1 DEF Increasing
      <4>3. q[m] \in Nat
        BY <1>1, <3>1
      <4> HIDE DEF g, u, m
      <4>4. QED
        BY <3>2, <4>2, <4>3
    <3>4. {q[k] : k \in s} = {q[k] : k \in u} \cup {q[m]}
      BY <3>1
    <3> HIDE DEF g, u, m, S
    <3>5. CASE q[m] \in DOMAIN orders
      <4>1. g[s] = Append(g[u], q[m])
        BY <3>2, <3>5
      <4>2. Range(g[s]) = Range(g[u]) \cup {q[m]} /\ g[s] \in Seq(Nat) /\ Increasing(g[s])
        BY <3>2, <3>3, <4>1, AppendQueue
      <4>3. QED
        BY <3>2, <3>4, <3>5, <4>2
    <3>6. CASE q[m] \notin DOMAIN orders
      <4>1. g[s] = g[u]
        BY <3>2, <3>6
      <4>2. QED
        BY <3>2, <3>4, <3>6, <4>1
    <3>7. QED
      BY <3>5, <3>6
  <2>3. QED
    BY <2>1, <2>2
<1>6. S \in Good
  <2>1. IsFiniteSet(S) /\ S \in SUBSET S
    BY <1>1
  <2> HIDE DEF Good, S
  <2>2. QED
    BY ONLY <1>5, <2>1, SubsetInduction
<1>7. Range(q) = {q[k] : k \in S}
  BY DEF Range
<1> HIDE DEF g, S
<1>8. QED
  BY <1>2, <1>6, <1>7

(* One sequence after another. *)
Ordered(R, a) == \A j, k \in DOMAIN a : j < k => <<a[j], a[k]>> \in R

LEMMA Joined ==
    ASSUME NEW a \in Seq(Nat), NEW b \in Seq(Nat), NEW R, Ordered(R, a), Ordered(R, b),
           \A i \in Range(a) : \A j \in Range(b) : <<i, j>> \in R
    PROVE  /\ a \o b \in Seq(Nat)
           /\ Range(a \o b) = Range(a) \cup Range(b)
           /\ Ordered(R, a \o b)
<1> DEFINE r == a \o b
           n == Len(a)
<1>1. /\ r \in Seq(Nat) /\ n \in Nat /\ Len(b) \in Nat
      /\ DOMAIN a = 1 .. n /\ DOMAIN b = 1 .. Len(b) /\ DOMAIN r = 1 .. n + Len(b)
      /\ \A k \in DOMAIN r : r[k] = IF k <= n THEN a[k] ELSE b[k - n]
  OBVIOUS
<1> HIDE DEF r, n
<1>2. ASSUME NEW k \in DOMAIN r
      PROVE  \/ k \in DOMAIN a /\ k <= n /\ r[k] = a[k] /\ r[k] \in Range(a)
             \/ k - n \in DOMAIN b /\ k > n /\ r[k] = b[k - n] /\ r[k] \in Range(b)
  BY <1>1 DEF Range
<1>3. Ordered(R, r)
  <2> SUFFICES ASSUME NEW j \in DOMAIN r, NEW k \in DOMAIN r, j < k
               PROVE  <<r[j], r[k]>> \in R
    BY DEF Ordered
  <2>1. j \in Int /\ k \in Int /\ n \in Int
    BY <1>1
  <2>2. CASE k <= n
    <3>1. j \in DOMAIN a /\ k \in DOMAIN a /\ r[j] = a[j] /\ r[k] = a[k]
      BY <1>1, <2>1, <2>2
    <3>2. QED
      BY <3>1 DEF Ordered
  <2>3. CASE j <= n /\ k > n
    <3>1. r[j] \in Range(a) /\ r[k] \in Range(b)
      BY <1>2, <2>1, <2>3
    <3>2. QED
      BY <3>1
  <2>4. CASE j > n
    <3>1. /\ j - n \in DOMAIN b /\ k - n \in DOMAIN b /\ j - n < k - n
          /\ r[j] = b[j - n] /\ r[k] = b[k - n]
      <4>1. j - n \in Int /\ k - n \in Int /\ k > n /\ j - n < k - n
        BY <2>1, <2>4
      <4>2. j - n \in DOMAIN b /\ r[j] = b[j - n]
        BY <1>2, <2>1, <2>4
      <4>3. k - n \in DOMAIN b /\ r[k] = b[k - n]
        BY <1>2, <2>1, <4>1
      <4>4. QED
        BY <4>1, <4>2, <4>3
    <3> HIDE DEF n
    <3>2. QED
      BY <3>1 DEF Ordered
  <2>5. QED
    BY <2>1, <2>2, <2>3, <2>4
<1>4. Range(r) = Range(a) \cup Range(b)
  <2>1. ASSUME NEW x \in Range(r) PROVE x \in Range(a) \cup Range(b)
    BY <1>2 DEF Range
  <2>2. ASSUME NEW x \in Range(a) PROVE x \in Range(r)
    <3>1. PICK k \in DOMAIN a : x = a[k]
      BY DEF Range
    <3>2. k \in DOMAIN r /\ r[k] = a[k]
      BY <1>1
    <3>3. QED
      BY <3>1, <3>2 DEF Range
  <2>3. ASSUME NEW x \in Range(b) PROVE x \in Range(r)
    <3>1. PICK k \in DOMAIN b : x = b[k]
      BY DEF Range
    <3>2. k + n \in DOMAIN r /\ ~(k + n <= n) /\ (k + n) - n = k
      BY <1>1
    <3>3. r[k + n] = b[k]
      BY <1>1, <3>2
    <3>4. QED
      BY <3>1, <3>2, <3>3 DEF Range
  <2>4. QED
    BY <2>1, <2>2, <2>3
<1>5. QED
  BY <1>1, <1>3, <1>4 DEF r

Precedes == {ij \in (DOMAIN orders) \X (DOMAIN orders) : Earlier(ij[1], ij[2])}

LEMMA PairOf ==
    ASSUME NEW A, NEW i \in A, NEW j \in A
    PROVE  <<i, j>> \in A \X A /\ <<i, j>>[1] = i /\ <<i, j>>[2] = j
  OBVIOUS

LEMMA PrecedesIs ==
    \A i, j \in DOMAIN orders : (<<i, j>> \in Precedes <=> Earlier(i, j))
<1> SUFFICES ASSUME NEW i \in DOMAIN orders, NEW j \in DOMAIN orders
             PROVE  <<i, j>> \in Precedes <=> Earlier(i, j)
  OBVIOUS
<1> DEFINE ij == <<i, j>>
<1>1. ij \in (DOMAIN orders) \X (DOMAIN orders) /\ ij[1] = i /\ ij[2] = j
  BY PairOf
<1> HIDE DEF ij
<1>2. ij \in Precedes <=> Earlier(i, j)
  BY <1>1 DEF Precedes, Earlier, SideOf
<1>3. QED
  BY <1>2 DEF ij

(* The live orders in some of the levels of a side. *)
LiveAt(side, ps) == {i \in DOMAIN orders : \E p \in ps : QueuedAt(i, side, p)}

LEMMA QueuedOnce ==
    ASSUME IInv, NEW side \in Sides, NEW p \in DOMAIN levels[side], NEW i \in LiveAt(side, {p})
    PROVE  i \in DOMAIN orders /\ i \in Nat /\ SideOf(i) = side /\ orders[i].price = p
<1>1. i \in DOMAIN orders /\ QueuedAt(i, side, p) /\ p \in Prices /\ i \in Nat
  BY DEF LiveAt, IInv, LevelsOK, Types
<1>2. PICK t \in Sides : QueuedAt(i, t, orders[i].price)
  BY <1>1 DEF IInv, Placed
<1>3. orders[i].price \in Prices
  BY <1>1 DEF IInv, Types
<1>4. t = side /\ orders[i].price = p
  BY <1>1, <1>2, <1>3 DEF IInv, Unique
<1>5. QED
  BY <1>1, <1>2, <1>4, SideIs DEF SidesRight

LEMMA LevelFolded ==
    ASSUME IInv, NEW side \in Sides, NEW p \in DOMAIN levels[side]
    PROVE  LET ids == LiveIn(levels[side][p])
           IN  /\ ids \in Seq(Nat)
               /\ Range(ids) = LiveAt(side, {p})
               /\ Ordered(Precedes, ids)
<1> DEFINE ids == LiveIn(levels[side][p])
           l == levels[side][p]
<1>1. /\ ids \in Seq(Nat) /\ Increasing(ids)
      /\ Range(ids) = Range(Waiting(l)) \cap DOMAIN orders
  <2>1. WellFormed(l)
    BY DEF IInv, LevelsOK
  <2>2. Waiting(l) \in Seq(Nat) /\ Increasing(Waiting(l))
    BY <2>1, WaitingQueue
  <2> HIDE DEF l
  <2>3. QED
    BY <2>2, LiveInIs DEF ids, l
<1> HIDE DEF ids, l
<1>2. Range(ids) = LiveAt(side, {p})
  <2>1. \A i : QueuedAt(i, side, p) <=> i \in Range(Waiting(l))
    BY DEF QueuedAt, l
  <2>2. QED
    BY <1>1, <2>1 DEF LiveAt
<1>3. Ordered(Precedes, ids)
  <2> SUFFICES ASSUME NEW j \in DOMAIN ids, NEW k \in DOMAIN ids, j < k
               PROVE  <<ids[j], ids[k]>> \in Precedes
    BY DEF Ordered
  <2>1. ids[j] \in LiveAt(side, {p}) /\ ids[k] \in LiveAt(side, {p}) /\ ids[j] < ids[k]
    BY <1>1, <1>2 DEF Range, Increasing
  <2>2. QED
    BY <2>1, QueuedOnce, PrecedesIs DEF Earlier
<1>4. QED
  BY <1>1, <1>2, <1>3 DEF ids

(* A side: its levels, lowest price first. *)
LEMMA SideFolded ==
    ASSUME IInv, NEW side \in Sides
    PROVE  /\ FoldSide(side) \in Seq(Nat)
           /\ Range(FoldSide(side)) = LiveAt(side, DOMAIN levels[side])
           /\ Ordered(Precedes, FoldSide(side))
<1>0. prices[side] = DOMAIN levels[side]
  BY DEF IInv, LevelsOK
<1> DEFINE S == prices[side]
           Folded(p) == LiveIn(levels[side][p])
           Loop(g) == g = [s \in SUBSET S |-> IF s = {} THEN <<>>
                                              ELSE g[s \ {Max(s)}] \o Folded(Max(s))]
           g == CHOOSE f : Loop(f)
           F == [xv \in S \X Seq(Nat) |-> xv[2] \o Folded(xv[1])]
<1>1. /\ IsFiniteSet(S) /\ S \subseteq Int
      /\ \A p \in S : Folded(p) \in Seq(Nat)
  BY <1>0, LevelFolded, GoBookAssumption DEF IInv, LevelsOK
<1>2. FoldSide(side) = g[S]
  BY DEF FoldSide, MapThenFoldSet
<1> HIDE DEF S, Folded
<1>3. Loop(g)
  <2>1. F \in [S \X Seq(Nat) -> Seq(Nat)]
    <3>1. ASSUME NEW a \in Seq(Nat), NEW b \in Seq(Nat) PROVE a \o b \in Seq(Nat)
      OBVIOUS
    <3>2. \A xv \in S \X Seq(Nat) : xv[2] \in Seq(Nat) /\ Folded(xv[1]) \in Seq(Nat)
      BY <1>1
    <3>3. \A xv \in S \X Seq(Nat) : xv[2] \o Folded(xv[1]) \in Seq(Nat)
      BY <3>1, <3>2
    <3>4. QED
      BY <3>3
  <2>2. PICK h \in [SUBSET S -> Seq(Nat)] : Ascends(h, S, F)
    <3>1. IsFiniteSet(S) /\ S \subseteq Int
      BY <1>1
    <3> HIDE DEF F
    <3>2. QED
      BY ONLY <2>1, <3>1, AscendingFold
  <2>3. ASSUME NEW s \in SUBSET S
        PROVE  h[s] = IF s = {} THEN <<>> ELSE h[s \ {Max(s)}] \o Folded(Max(s))
    <3>1. CASE s = {}
      BY <2>2, <3>1 DEF Ascends
    <3>2. CASE s # {}
      <4>1. Max(s) \in S /\ h[s \ {Max(s)}] \in Seq(Nat)
        BY <1>1, <3>2, MaxIs, FS_Subset
      <4>2. F[<<Max(s), h[s \ {Max(s)}]>>] = h[s \ {Max(s)}] \o Folded(Max(s))
        BY <4>1
      <4> HIDE DEF F
      <4>3. QED
        BY <2>2, <3>2, <4>2 DEF Ascends
    <3>3. QED
      BY <3>1, <3>2
  <2>4. Loop(h)
    <3>1. h = [s \in SUBSET S |-> h[s]]
      OBVIOUS
    <3>2. QED
      BY <2>3, <3>1
  <2> HIDE DEF Loop
  <2>5. QED
    BY <2>4
<1>4. ASSUME NEW s \in SUBSET S
      PROVE  g[s] = IF s = {} THEN <<>> ELSE g[s \ {Max(s)}] \o Folded(Max(s))
  <2> HIDE DEF g
  <2>1. QED
    BY <1>3
<1> HIDE DEF g
<1> DEFINE Right(s) == /\ g[s] \in Seq(Nat) /\ Range(g[s]) = LiveAt(side, s)
                       /\ Ordered(Precedes, g[s])
           Good == {s \in SUBSET S : Right(s)}
<1>5. ASSUME NEW s \in SUBSET S, \A u \in SUBSET s : u # s => u \in Good
      PROVE  s \in Good
  <2> DEFINE m == Max(s)
             u == s \ {m}
             b == Folded(m)
  <2>1. CASE s = {}
    <3>1. g[s] = <<>>
      BY <1>4, <2>1
    <3>2. LiveAt(side, s) = {} /\ Ordered(Precedes, <<>>)
      BY <2>1 DEF LiveAt, Ordered
    <3>3. QED
      BY <3>1, <3>2, EmptyQueue
  <2>2. CASE s # {}
    <3>1. m \in s /\ m \in S /\ \A p \in s : m >= p
      BY <1>1, <2>2, MaxIs, FS_Subset
    <3>2. Right(u) /\ g[s] = g[u] \o b
      <4>1. u \in SUBSET s /\ u # s
        BY <3>1
      <4> HIDE DEF Right, m
      <4>2. u \in Good
        BY <1>5, <4>1
      <4>3. g[s] = g[u] \o b
        BY <1>4, <2>2 DEF m
      <4>4. QED
        BY <4>2, <4>3
    <3>3. b \in Seq(Nat) /\ Range(b) = LiveAt(side, {m}) /\ Ordered(Precedes, b)
      BY <1>0, <3>1, LevelFolded DEF S, Folded
    <3>4. ASSUME NEW i \in LiveAt(side, u), NEW j \in LiveAt(side, {m})
          PROVE  <<i, j>> \in Precedes
      <4>1. PICK p \in u : i \in LiveAt(side, {p})
        BY DEF LiveAt
      <4>2. p \in S /\ p < m
        <5>1. p \in S /\ p # m /\ m >= p /\ p \in Int /\ m \in Int
          BY <1>1, <3>1
        <5>2. QED
          BY <5>1
      <4>3. /\ i \in DOMAIN orders /\ SideOf(i) = side /\ orders[i].price = p
            /\ j \in DOMAIN orders /\ SideOf(j) = side /\ orders[j].price = m
        BY <1>0, <3>1, <4>1, <4>2, QueuedOnce DEF S
      <4>4. QED
        BY <4>2, <4>3, PrecedesIs DEF Earlier
    <3>5. LiveAt(side, s) = LiveAt(side, u) \cup LiveAt(side, {m})
      BY <3>1 DEF LiveAt
    <3> HIDE DEF u, m, b
    <3>6. /\ g[u] \o b \in Seq(Nat) /\ Range(g[u] \o b) = Range(g[u]) \cup Range(b)
          /\ Ordered(Precedes, g[u] \o b)
      <4>1. \A i \in Range(g[u]) : \A j \in Range(b) : <<i, j>> \in Precedes
        BY <3>2, <3>3, <3>4
      <4>2. QED
        BY ONLY <3>2, <3>3, <4>1, Joined
    <3>7. QED
      BY <3>2, <3>3, <3>5, <3>6
  <2>3. QED
    BY <2>1, <2>2
<1>6. S \in Good
  <2> HIDE DEF Good
  <2>1. QED
    BY <1>1, <1>5, SubsetInduction
<1>7. QED
  BY <1>0, <1>2, <1>6 DEF S

(* Whatever is in the book, dead ids in its queues included: checksum()    *)
(* mixes in every resting order once, bids before asks, prices ascending,  *)
(* oldest first.  This is all it depends on: two books with the same       *)
(* resting orders have the same checksum, in whatever way each stores them.*)
THEOREM ChecksumCanonicalHolds == Spec => []ChecksumCanonical
<1>1. IInv => ChecksumCanonical
  <2> SUFFICES ASSUME IInv PROVE ChecksumCanonical
    OBVIOUS
  <2> DEFINE ids == FoldSide("bid") \o FoldSide("ask")
             what(i) == <<i, orders[i].price, orders[i].qty>>
  <2>1. ids \in Seq(Nat) /\ Ordered(Precedes, ids) /\ Range(ids) = DOMAIN orders
    <3>1. \A i : i \in LiveAt("bid", DOMAIN levels["bid"]) <=>
                     i \in DOMAIN orders /\ SideOf(i) = "bid"
      BY SideIs, QueuedOnce DEF LiveAt, SidesRight, QueuedAt, Sides
    <3>2. \A i : i \in LiveAt("ask", DOMAIN levels["ask"]) <=>
                     i \in DOMAIN orders /\ SideOf(i) = "ask"
      BY SideIs, QueuedOnce DEF LiveAt, SidesRight, QueuedAt, Sides
    <3>3. \A i \in LiveAt("bid", DOMAIN levels["bid"]) :
             \A j \in LiveAt("ask", DOMAIN levels["ask"]) : <<i, j>> \in Precedes
      BY <3>1, <3>2, PrecedesIs DEF Earlier
    <3>4. ids \in Seq(Nat) /\ Ordered(Precedes, ids)
          /\ Range(ids) = LiveAt("bid", DOMAIN levels["bid"])
                              \cup LiveAt("ask", DOMAIN levels["ask"])
      BY <3>3, SideFolded, Joined DEF Sides
    <3>5. \A i : SideOf(i) = "bid" \/ SideOf(i) = "ask"
      BY DEF SideOf
    <3> HIDE DEF ids
    <3>6. QED
      BY <3>1, <3>2, <3>4, <3>5
  <2>2. Checksum = [k \in DOMAIN ids |-> what(ids[k])]
    BY DEF Checksum
  <2> HIDE DEF ids
  <2>3. Range(Checksum) = {what(i) : i \in DOMAIN orders}
    BY <2>1, <2>2 DEF Range
  <2>4. ASSUME NEW j \in DOMAIN Checksum, NEW k \in DOMAIN Checksum, j < k
        PROVE  Earlier(Checksum[j][1], Checksum[k][1])
    <3>1. j \in DOMAIN ids /\ k \in DOMAIN ids
      BY <2>2
    <3>2. <<ids[j], ids[k]>> \in Precedes
      BY <2>1, <2>4, <3>1 DEF Ordered
    <3>3. Earlier(ids[j], ids[k])
      BY <2>1, <3>1, <3>2, PrecedesIs DEF Range
    <3>4. Checksum[j][1] = ids[j] /\ Checksum[k][1] = ids[k]
      BY <2>2, <3>1
    <3>5. QED
      BY <3>3, <3>4
  <2>5. QED
    BY <2>3, <2>4 DEF ChecksumCanonical
<1>2. QED
  BY <1>1, Invariance, PTL

===============================================================================
