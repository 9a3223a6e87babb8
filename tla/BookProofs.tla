------------------------------ MODULE BookProofs ------------------------------
(***************************************************************************)
(* Proofs about Book for every set of prices and quantities and any number *)
(* of calls: the inductive invariant IInv, that the lazily cancelled       *)
(* queues and the map of orders stay consistent and the book uncrossed     *)
(* (inside a call too), that every iteration of the matching loops is a    *)
(* step of the abstract price-time priority book, Clob, that no quantity   *)
(* is lost or made, and what the checksum depends on.                      *)
(***************************************************************************)
EXTENDS Book, FiniteSetTheorems, TLAPS

-------------------------------------------------------------------------------
(* The inductive invariant.  QueueDiscipline is not inductive: that an     *)
(* order which rests is new to every queue rests on the ids of dead orders *)
(* too (Known, Unique), and NotCrossed on the level the inner loop is at   *)
(* being the best one (Working).                                           *)

Increasing(queue) == \A j, k \in DOMAIN queue : j < k => queue[j] < queue[k]

(* Every level has its queue, oldest order first. *)
LevelsOK ==
    /\ DOMAIN levels = Sides
    /\ \A s \in Sides :
         /\ DOMAIN levels[s] \subseteq Prices
         /\ IsFiniteSet(DOMAIN levels[s])
         /\ \A p \in DOMAIN levels[s] :
              levels[s][p] \in Seq(Nat) /\ Increasing(levels[s][p])

Types ==
    /\ DOMAIN orders \subseteq Nat
    /\ \A i \in DOMAIN orders : orders[i] \in [price : Prices, qty : Nat \ {0}]
    /\ fills \in Nat /\ volume \in Nat /\ lastId \in Nat
    /\ pc \in {"idle", "outer", "inner"}
    /\ IF pc = "idle" THEN taker = NoTaker
       ELSE taker \in [id : Nat \ {0}, side : Sides, price : Prices, qty : Nat]

(* Every id in a queue has been submitted; the order a call works on is    *)
(* the last one submitted and is in no queue yet.                          *)
Known ==
    /\ \A i \in Nat : \A s \in Sides : \A p \in Prices :
         QueuedAt(i, s, p) => i <= lastId /\ (pc # "idle" => i < taker.id)
    /\ pc # "idle" => taker.id = lastId /\ taker.id \notin DOMAIN orders

(* No id, live or dead, is in two queues. *)
Unique ==
    \A i \in Nat : \A s, t \in Sides : \A p, q \in Prices :
        QueuedAt(i, s, p) /\ QueuedAt(i, t, q) => s = t /\ p = q

(* A live order is in the queue of its price on one of the sides. *)
Placed == \A i \in DOMAIN orders : \E s \in Sides : QueuedAt(i, s, orders[i].price)

Uncrossed ==
    \A i, j \in DOMAIN orders :
        /\ QueuedAt(i, "bid", orders[i].price)
        /\ QueuedAt(j, "ask", orders[j].price)
        => orders[i].price < orders[j].price

(* Price p is at least as good as q for an incoming order of this side. *)
AsGood(side, p, q) == IF side = "bid" THEN p <= q ELSE p >= q

(* The inner loop is at the best level of the other side, which crosses. *)
Working ==
    pc = "inner" =>
        /\ it \in DOMAIN levels[Opposite(taker.side)]
        /\ \A p \in DOMAIN levels[Opposite(taker.side)] : AsGood(taker.side, it, p)
        /\ Crosses(taker.side, taker.price, it)

IInv ==
    /\ LevelsOK
    /\ Types
    /\ Known
    /\ Unique
    /\ Placed
    /\ Uncrossed
    /\ Working

-------------------------------------------------------------------------------
(* The best level: a finite set of prices has a least and a greatest one.  *)

LEMMA FiniteHasLeast ==
    ASSUME NEW S, IsFiniteSet(S), S \subseteq Int, S # {}
    PROVE  \E x \in S : \A y \in S : x <= y
<1> DEFINE Below(x) == {y \in S : y < x}
<1> DEFINE T == {Below(x) : x \in S}
<1>1. T \subseteq FiniteSubsetsOf(S) /\ T # {}
  <2>1. FiniteSubsetsOf(S) = SUBSET S
    BY FS_FiniteSubsetsOfFinite
  <2>2. T \subseteq SUBSET S
    OBVIOUS
  <2>3. \A x \in S : Below(x) \in T
    OBVIOUS
  <2>4. QED
    BY <2>1, <2>2, <2>3
<1>2. \E U \in T : \A V \in T : ~(<<V, U>> \in StrictSubsetOrdering(S))
  <2> HIDE DEF T
  <2>1. QED
    BY <1>1, FS_StrictSubsetOrderingWellFounded, WFMin
<1>3. PICK x \in S : \A y \in S : ~(<<Below(y), Below(x)>> \in StrictSubsetOrdering(S))
  BY <1>2
<1>4. ASSUME NEW y \in S, y < x PROVE FALSE
  <2>1. Below(y) \subseteq Below(x) /\ y \in Below(x) /\ y \notin Below(y)
    <3>1. x \in Int /\ y \in Int /\ \A z \in S : z \in Int
      OBVIOUS
    <3>2. \A z \in S : z < y => z < x
      BY <1>4, <3>1
    <3>3. ~(y < y)
      BY <3>1
    <3>4. QED
      BY <1>4, <3>2, <3>3
  <2>2. <<Below(y), Below(x)>> \in StrictSubsetOrdering(S)
    BY <2>1 DEF StrictSubsetOrdering
  <2>3. QED
    BY <1>3, <2>2
<1>5. QED
  BY <1>4

LEMMA FiniteHasGreatest ==
    ASSUME NEW S, IsFiniteSet(S), S \subseteq Int, S # {}
    PROVE  \E x \in S : \A y \in S : x >= y
<1> DEFINE Above(x) == {y \in S : y > x}
<1> DEFINE T == {Above(x) : x \in S}
<1>1. T \subseteq FiniteSubsetsOf(S) /\ T # {}
  <2>1. FiniteSubsetsOf(S) = SUBSET S
    BY FS_FiniteSubsetsOfFinite
  <2>2. T \subseteq SUBSET S
    OBVIOUS
  <2>3. \A x \in S : Above(x) \in T
    OBVIOUS
  <2>4. QED
    BY <2>1, <2>2, <2>3
<1>2. \E U \in T : \A V \in T : ~(<<V, U>> \in StrictSubsetOrdering(S))
  <2> HIDE DEF T
  <2>1. QED
    BY <1>1, FS_StrictSubsetOrderingWellFounded, WFMin
<1>3. PICK x \in S : \A y \in S : ~(<<Above(y), Above(x)>> \in StrictSubsetOrdering(S))
  BY <1>2
<1>4. ASSUME NEW y \in S, y > x PROVE FALSE
  <2>1. Above(y) \subseteq Above(x) /\ y \in Above(x) /\ y \notin Above(y)
    <3>1. x \in Int /\ y \in Int /\ \A z \in S : z \in Int
      OBVIOUS
    <3>2. \A z \in S : z > y => z > x
      BY <1>4, <3>1
    <3>3. ~(y > y)
      BY <3>1
    <3>4. QED
      BY <1>4, <3>2, <3>3
  <2>2. <<Above(y), Above(x)>> \in StrictSubsetOrdering(S)
    BY <2>1 DEF StrictSubsetOrdering
  <2>3. QED
    BY <1>3, <2>2
<1>5. QED
  BY <1>4

LEMMA MinOfTwo ==
    ASSUME NEW a \in Int, NEW b \in Int
    PROVE  Min({a, b}) = IF a <= b THEN a ELSE b
<1>1. \E x \in {a, b} : \A y \in {a, b} : x <= y
  OBVIOUS
<1>2. Min({a, b}) \in {a, b} /\ \A y \in {a, b} : Min({a, b}) <= y
  BY <1>1 DEF Min
<1>3. QED
  BY <1>2

(* What an incoming order of `side' finds at the head of the other side. *)
LEMMA BestIsBest ==
    ASSUME LevelsOK, NEW side \in Sides, DOMAIN levels[Opposite(side)] # {}
    PROVE  LET best == BestLevel(Opposite(side))
           IN  /\ best \in DOMAIN levels[Opposite(side)]
               /\ \A p \in DOMAIN levels[Opposite(side)] : AsGood(side, best, p)
<1> DEFINE S == DOMAIN levels[Opposite(side)]
<1>1. S \subseteq Int /\ IsFiniteSet(S) /\ S # {}
  BY BookAssumption DEF LevelsOK, Sides, Opposite
<1>2. CASE side = "bid"
  <2>1. BestLevel(Opposite(side)) = Min(S)
    BY <1>2 DEF BestLevel, Opposite
  <2> HIDE DEF S
  <2>2. Min(S) \in S /\ \A y \in S : Min(S) <= y
    BY <1>1, FiniteHasLeast DEF Min
  <2>3. QED
    BY <1>2, <2>1, <2>2 DEF AsGood, S
<1>3. CASE side = "ask"
  <2>1. BestLevel(Opposite(side)) = Max(S)
    BY <1>3 DEF BestLevel, Opposite
  <2> HIDE DEF S
  <2>2. Max(S) \in S /\ \A y \in S : Max(S) >= y
    BY <1>1, FiniteHasGreatest DEF Max
  <2>3. QED
    BY <1>3, <2>1, <2>2 DEF AsGood, S
<1>4. QED
  BY <1>2, <1>3 DEF Sides

-------------------------------------------------------------------------------
(* Queues. *)

LEMMA AppendQueue ==
    ASSUME NEW q \in Seq(Nat), Increasing(q), NEW n \in Nat, \A i \in Range(q) : i < n
    PROVE  /\ Append(q, n) \in Seq(Nat)
           /\ Increasing(Append(q, n))
           /\ Range(Append(q, n)) = Range(q) \cup {n}
<1> DEFINE r == Append(q, n)
<1>1. /\ r \in Seq(Nat) /\ Len(q) \in Nat /\ DOMAIN q = 1 .. Len(q)
      /\ DOMAIN r = 1 .. Len(q) + 1
      /\ r[Len(q) + 1] = n
      /\ \A k \in 1 .. Len(q) : r[k] = q[k] /\ q[k] \in Nat /\ q[k] \in Range(q)
  BY DEF Range
<1>2. \A k \in DOMAIN r : k \in 1 .. Len(q) \/ k = Len(q) + 1
  BY <1>1
<1> HIDE DEF r
<1>3. Increasing(r)
  BY <1>1, <1>2 DEF Increasing
<1>4. Range(r) = Range(q) \cup {n}
  <2>1. \A x \in Range(r) : x \in Range(q) \cup {n}
    BY <1>1, <1>2 DEF Range
  <2>2. n \in Range(r)
    <3>1. Len(q) + 1 \in DOMAIN r
      BY <1>1
    <3>2. QED
      BY <1>1, <3>1 DEF Range
  <2>3. \A x \in Range(q) : x \in Range(r)
    <3>1. \A k \in DOMAIN q : k \in DOMAIN r /\ r[k] = q[k]
      BY <1>1
    <3>2. QED
      BY <3>1 DEF Range
  <2>4. QED
    BY <2>1, <2>2, <2>3
<1>5. QED
  BY <1>1, <1>3, <1>4 DEF r

LEMMA TailQueue ==
    ASSUME NEW q \in Seq(Nat), Increasing(q), q # <<>>
    PROVE  /\ Head(q) \in Nat /\ Head(q) \in Range(q)
           /\ Tail(q) \in Seq(Nat)
           /\ Increasing(Tail(q))
           /\ Range(Tail(q)) = Range(q) \ {Head(q)}
           /\ \A i \in Range(q) : Head(q) <= i
<1> DEFINE r == Tail(q)
<1>1. /\ r \in Seq(Nat) /\ Len(q) \in Nat /\ Len(q) >= 1 /\ DOMAIN q = 1 .. Len(q)
      /\ DOMAIN r = 1 .. Len(q) - 1
      /\ Head(q) = q[1]
      /\ \A k \in 1 .. Len(q) - 1 : r[k] = q[k + 1]
      /\ \A k \in 1 .. Len(q) : q[k] \in Nat
  OBVIOUS
<1> HIDE DEF r
<1>2. Increasing(r)
  <2> SUFFICES ASSUME NEW j \in DOMAIN r, NEW k \in DOMAIN r, j < k PROVE r[j] < r[k]
    BY DEF Increasing
  <2>1. /\ j \in Int /\ 1 <= j /\ j <= Len(q) - 1
        /\ k \in Int /\ 1 <= k /\ k <= Len(q) - 1
        /\ Len(q) \in Nat /\ DOMAIN q = 1 .. Len(q) /\ j < k
    BY <1>1
  <2>2. j + 1 \in DOMAIN q /\ k + 1 \in DOMAIN q /\ j + 1 < k + 1
    BY ONLY <2>1
  <2>3. r[j] = q[j + 1] /\ r[k] = q[k + 1]
    BY <1>1
  <2>4. QED
    BY <2>2, <2>3 DEF Increasing
<1>3. \A k \in 2 .. Len(q) : k - 1 \in DOMAIN r /\ r[k - 1] = q[k] /\ q[1] < q[k]
  <2> SUFFICES ASSUME NEW k \in 2 .. Len(q)
               PROVE k - 1 \in DOMAIN r /\ r[k - 1] = q[k] /\ q[1] < q[k]
    OBVIOUS
  <2>1. Len(q) \in Nat /\ Len(q) >= 1 /\ k \in Int /\ 2 <= k /\ k <= Len(q)
    BY <1>1
  <2>2. k - 1 \in 1 .. Len(q) - 1 /\ (k - 1) + 1 = k /\ k \in DOMAIN q /\ 1 \in DOMAIN q /\ 1 < k
    BY <1>1, <2>1
  <2>3. QED
    BY <1>1, <2>2 DEF Increasing
<1>4. \A k \in DOMAIN r : k + 1 \in 2 .. Len(q) /\ r[k] = q[k + 1]
  <2> TAKE k \in DOMAIN r
  <2>1. Len(q) \in Nat /\ k \in 1 .. Len(q) - 1 /\ r[k] = q[k + 1]
    BY <1>1
  <2>2. QED
    BY ONLY <2>1
<1>5. Range(r) = Range(q) \ {q[1]}
  <2>1. ASSUME NEW x \in Range(r) PROVE x \in Range(q) \ {q[1]}
    <3>1. PICK k \in DOMAIN r : x = r[k]
      BY DEF Range
    <3>2. k + 1 \in DOMAIN q /\ x = q[k + 1] /\ q[1] < q[k + 1] /\ q[1] \in Nat /\ q[k + 1] \in Nat
      BY <1>1, <1>3, <1>4, <3>1
    <3>3. QED
      BY <3>2 DEF Range
  <2>2. ASSUME NEW x \in Range(q) \ {q[1]} PROVE x \in Range(r)
    <3>1. PICK k \in DOMAIN q : x = q[k]
      BY DEF Range
    <3>2. k \in 2 .. Len(q)
      BY <1>1, <2>2, <3>1
    <3>3. QED
      BY <1>3, <3>1, <3>2 DEF Range
  <2>3. QED
    BY <2>1, <2>2
<1>6. \A i \in Range(q) : q[1] <= i
  <2> SUFFICES ASSUME NEW k \in DOMAIN q PROVE q[1] <= q[k]
    BY DEF Range
  <2>1. k = 1 \/ k \in 2 .. Len(q)
    BY <1>1
  <2>2. QED
    BY <1>1, <1>3, <2>1
<1>7. QED
  <2>1. 1 \in DOMAIN q
    BY <1>1
  <2>2. q[1] \in Nat /\ q[1] \in Range(q)
    BY <1>1, <2>1 DEF Range
  <2>3. QED
    BY <1>1, <1>2, <1>5, <1>6, <2>2 DEF r

(* What PopFront does to the queues: the head of the level the inner loop  *)
(* works on is in it no more, and nothing else changes.                    *)
LEMMA Popped ==
    ASSUME IInv, pc = "inner", Level # <<>>, levels' = PopFront
    PROVE  /\ LevelsOK'
           /\ \A s \in Sides : DOMAIN levels'[s] = DOMAIN levels[s]
           /\ Head(Level) \in Nat
           /\ QueuedAt(Head(Level), Opposite(taker.side), it)
           /\ \A i \in Range(Level) : Head(Level) <= i
           /\ \A i \in Nat : \A s \in Sides : \A p \in Prices :
                QueuedAt(i, s, p)' <=>
                    /\ QueuedAt(i, s, p)
                    /\ ~(s = Opposite(taker.side) /\ p = it /\ i = Head(Level))
<1> DEFINE opp == Opposite(taker.side)
<1>1. opp \in Sides /\ it \in DOMAIN levels[opp]
  BY DEF IInv, Types, Working, Opposite, Sides
<1>2. Level = levels[opp][it] /\ Level \in Seq(Nat) /\ Increasing(Level)
  BY <1>1 DEF IInv, LevelsOK, Level
<1>3. DOMAIN levels = Sides
  BY DEF IInv, LevelsOK
<1>4. /\ DOMAIN levels' = Sides
      /\ \A s \in Sides : DOMAIN levels'[s] = DOMAIN levels[s]
      /\ levels'[opp][it] = Tail(Level)
      /\ \A s \in Sides : \A p \in DOMAIN levels[s] :
            s # opp \/ p # it => levels'[s][p] = levels[s][p]
  BY <1>1, <1>2, <1>3 DEF PopFront
<1> HIDE DEF opp
<1>5. /\ Head(Level) \in Nat /\ Head(Level) \in Range(Level)
      /\ Tail(Level) \in Seq(Nat) /\ Increasing(Tail(Level))
      /\ Range(Tail(Level)) = Range(Level) \ {Head(Level)}
      /\ \A i \in Range(Level) : Head(Level) <= i
  BY <1>2, TailQueue
<1>6. LevelsOK'
  <2>1. ASSUME NEW s \in Sides, NEW p \in DOMAIN levels'[s]
        PROVE  levels'[s][p] \in Seq(Nat) /\ Increasing(levels'[s][p])
    <3>1. p \in DOMAIN levels[s] /\ levels[s][p] \in Seq(Nat) /\ Increasing(levels[s][p])
      BY <1>4 DEF IInv, LevelsOK
    <3>2. CASE s = opp /\ p = it
      BY <1>4, <1>5, <3>2
    <3>3. CASE s # opp \/ p # it
      <4>1. levels'[s][p] = levels[s][p]
        BY <1>4, <3>1, <3>3
      <4>2. QED
        BY <3>1, <4>1
    <3>4. QED
      BY <3>2, <3>3
  <2>2. \A s \in Sides : DOMAIN levels'[s] \subseteq Prices /\ IsFiniteSet(DOMAIN levels'[s])
    BY <1>4 DEF IInv, LevelsOK
  <2>3. QED
    BY <1>4, <2>1, <2>2 DEF LevelsOK, Increasing
<1>7. ASSUME NEW i \in Nat, NEW s \in Sides, NEW p \in Prices
      PROVE  QueuedAt(i, s, p)' <=>
                 QueuedAt(i, s, p) /\ ~(s = opp /\ p = it /\ i = Head(Level))
  <2>1. CASE s = opp /\ p = it
    BY <1>1, <1>2, <1>4, <1>5, <2>1 DEF QueuedAt
  <2>2. CASE s # opp \/ p # it
    <3>1. p \in DOMAIN levels[s] => levels'[s][p] = levels[s][p]
      BY <1>4, <2>2
    <3>2. DOMAIN levels'[s] = DOMAIN levels[s]
      BY <1>4
    <3>3. QED
      BY <2>2, <3>1, <3>2 DEF QueuedAt
  <2>3. QED
    BY <2>1, <2>2
<1>8. QueuedAt(Head(Level), opp, it)
  BY <1>1, <1>2, <1>5 DEF QueuedAt
<1>9. QED
  BY <1>4, <1>5, <1>6, <1>7, <1>8 DEF opp

(* What resting does to the queues: the order is in the one of its price,  *)
(* and nothing else changes.                                               *)
LEMMA Queued ==
    ASSUME IInv, Rest
    PROVE  /\ LevelsOK'
           /\ \A i \in Nat : \A s \in Sides : \A p \in Prices :
                QueuedAt(i, s, p)' <=>
                    \/ QueuedAt(i, s, p)
                    \/ s = taker.side /\ p = taker.price /\ i = taker.id
<1> DEFINE side == taker.side
           price == taker.price
           id == taker.id
           queue == IF price \in DOMAIN levels[side] THEN levels[side][price] ELSE <<>>
<1>1. side \in Sides /\ price \in Prices /\ id \in Nat
  BY DEF IInv, Types, Rest
<1>2. queue \in Seq(Nat) /\ Increasing(queue) /\ \A i \in Range(queue) : i < id
  <2>1. CASE price \in DOMAIN levels[side]
    <3>1. queue = levels[side][price] /\ queue \in Seq(Nat) /\ Increasing(queue)
      BY <1>1, <2>1 DEF IInv, LevelsOK
    <3>2. \A i \in Range(queue) : i \in Nat /\ QueuedAt(i, side, price)
      BY <2>1, <3>1 DEF QueuedAt, Range
    <3>3. QED
      BY <1>1, <3>1, <3>2 DEF IInv, Known, Rest
  <2>2. CASE price \notin DOMAIN levels[side]
    <3>1. queue = <<>> /\ Range(<<>>) = {} /\ Increasing(<<>>) /\ <<>> \in Seq(Nat)
      BY <2>2 DEF Range, Increasing
    <3>2. QED
      BY <3>1
  <2>3. QED
    BY <2>1, <2>2
<1>3. DOMAIN levels = Sides
  BY DEF IInv, LevelsOK
<1>4. /\ DOMAIN levels' = Sides
      /\ DOMAIN levels'[side] = DOMAIN levels[side] \cup {price}
      /\ levels'[side][price] = Append(queue, id)
      /\ \A p \in DOMAIN levels[side] \ {price} : levels'[side][p] = levels[side][p]
      /\ \A s \in Sides \ {side} : levels'[s] = levels[s]
  <2>1. levels' = [levels EXCEPT ![side] = With(@, price, Append(queue, id))]
    BY DEF Rest, Enqueue
  <2> HIDE DEF side, price, id, queue
  <2>2. QED
    BY <1>1, <1>3, <2>1 DEF With
<1> HIDE DEF queue, side, price, id
<1>5. /\ Append(queue, id) \in Seq(Nat) /\ Increasing(Append(queue, id))
      /\ Range(Append(queue, id)) = Range(queue) \cup {id}
  BY <1>1, <1>2, AppendQueue
<1>6. LevelsOK'
  <2>1. ASSUME NEW s \in Sides
        PROVE  DOMAIN levels'[s] \subseteq Prices /\ IsFiniteSet(DOMAIN levels'[s])
    <3>1. DOMAIN levels[s] \subseteq Prices /\ IsFiniteSet(DOMAIN levels[s])
      BY DEF IInv, LevelsOK
    <3>2. IsFiniteSet(DOMAIN levels[s] \cup {price})
      BY <3>1, FS_AddElement
    <3>3. QED
      BY <1>1, <1>4, <3>1, <3>2
  <2>2. ASSUME NEW s \in Sides, NEW p \in DOMAIN levels'[s]
        PROVE  levels'[s][p] \in Seq(Nat) /\ Increasing(levels'[s][p])
    <3>1. CASE s = side /\ p = price
      BY <1>4, <1>5, <3>1
    <3>2. CASE ~(s = side /\ p = price)
      <4>1. p \in DOMAIN levels[s] /\ levels'[s][p] = levels[s][p]
        BY <1>4, <3>2
      <4>2. QED
        BY <4>1 DEF IInv, LevelsOK
    <3>3. QED
      BY <3>1, <3>2
  <2>3. QED
    BY <1>4, <2>1, <2>2 DEF LevelsOK, Increasing
<1>7. ASSUME NEW i \in Nat, NEW s \in Sides, NEW p \in Prices
      PROVE  QueuedAt(i, s, p)' <=>
                 QueuedAt(i, s, p) \/ (s = side /\ p = price /\ i = id)
  <2>1. CASE s = side /\ p = price
    <3>1. QueuedAt(i, s, p)' <=> i \in Range(queue) \/ i = id
      BY <1>4, <1>5, <2>1 DEF QueuedAt
    <3>2. i \in Range(queue) <=> QueuedAt(i, s, p)
      BY <2>1 DEF QueuedAt, queue, Range
    <3>3. QED
      BY <2>1, <3>1, <3>2
  <2>2. CASE ~(s = side /\ p = price)
    <3>1. p \in DOMAIN levels'[s] <=> p \in DOMAIN levels[s]
      BY <1>4, <2>2
    <3>2. p \in DOMAIN levels[s] => levels'[s][p] = levels[s][p]
      BY <1>4, <2>2
    <3>3. QED
      BY <2>2, <3>1, <3>2 DEF QueuedAt
  <2>3. QED
    BY <2>1, <2>2
<1>8. QED
  BY <1>6, <1>7 DEF side, price, id

(* Leaving the level erases it if it is empty: no queue loses an id.       *)
LEMMA Erased ==
    ASSUME IInv, LeaveLevel
    PROVE  /\ LevelsOK'
           /\ \A s \in Sides : DOMAIN levels'[s] \subseteq DOMAIN levels[s]
           /\ \A i \in Nat : \A s \in Sides : \A p \in Prices :
                QueuedAt(i, s, p)' <=> QueuedAt(i, s, p)
<1>1. CASE Level # <<>>
  <2>1. levels' = levels
    BY <1>1 DEF LeaveLevel
  <2>2. QED
    BY <2>1 DEF IInv, LevelsOK, QueuedAt, Increasing
<1>2. CASE Level = <<>>
  <2> DEFINE opp == Opposite(taker.side)
  <2>1. opp \in Sides /\ it \in DOMAIN levels[opp] /\ levels[opp][it] = <<>>
    BY <1>2 DEF IInv, Types, Working, Opposite, Sides, Level, LeaveLevel
  <2>2. DOMAIN levels = Sides
    BY DEF IInv, LevelsOK
  <2>3. /\ DOMAIN levels' = Sides
        /\ DOMAIN levels'[opp] = DOMAIN levels[opp] \ {it}
        /\ \A p \in DOMAIN levels[opp] \ {it} : levels'[opp][p] = levels[opp][p]
        /\ \A s \in Sides \ {opp} : levels'[s] = levels[s]
    BY <1>2, <2>1, <2>2 DEF LeaveLevel, Without
  <2> HIDE DEF opp
  <2>4. ASSUME NEW s \in Sides
        PROVE  DOMAIN levels'[s] \subseteq Prices /\ IsFiniteSet(DOMAIN levels'[s])
    <3>1. DOMAIN levels[s] \subseteq Prices /\ IsFiniteSet(DOMAIN levels[s])
      BY DEF IInv, LevelsOK
    <3>2. IsFiniteSet(DOMAIN levels[s] \ {it})
      BY <3>1, FS_RemoveElement
    <3>3. QED
      BY <2>3, <3>1, <3>2
  <2>5. ASSUME NEW s \in Sides, NEW p \in DOMAIN levels'[s]
        PROVE  levels'[s][p] \in Seq(Nat) /\ Increasing(levels'[s][p])
    <3>1. p \in DOMAIN levels[s] /\ levels'[s][p] = levels[s][p]
      BY <2>3
    <3>2. QED
      BY <3>1 DEF IInv, LevelsOK
  <2>6. LevelsOK'
    BY <2>3, <2>4, <2>5 DEF LevelsOK, Increasing
  <2>7. ASSUME NEW i \in Nat, NEW s \in Sides, NEW p \in Prices
        PROVE  QueuedAt(i, s, p)' <=> QueuedAt(i, s, p)
    <3>1. CASE s = opp /\ p = it
      <4>1. i \notin Range(<<>>)
        BY DEF Range
      <4>2. QED
        BY <2>1, <2>3, <3>1, <4>1 DEF QueuedAt
    <3>2. CASE ~(s = opp /\ p = it)
      <4>1. p \in DOMAIN levels'[s] <=> p \in DOMAIN levels[s]
        BY <2>3, <3>2
      <4>2. p \in DOMAIN levels[s] => levels'[s][p] = levels[s][p]
        BY <2>3, <3>2
      <4>3. QED
        BY <4>1, <4>2 DEF QueuedAt
    <3>3. QED
      BY <3>1, <3>2
  <2>8. \A s \in Sides : DOMAIN levels'[s] \subseteq DOMAIN levels[s]
    BY <2>3
  <2>9. QED
    BY <2>6, <2>7, <2>8
<1>3. QED
  BY <1>1, <1>2

-------------------------------------------------------------------------------
(* Every step preserves the inductive invariant. *)

LEMMA InitIInv == Init => IInv
<1> SUFFICES ASSUME Init PROVE IInv
  OBVIOUS
<1> USE DEF Init
<1>1. DOMAIN levels = Sides /\ \A s \in Sides : DOMAIN levels[s] = {}
  OBVIOUS
<1>2. LevelsOK
  BY <1>1, FS_EmptySet DEF LevelsOK
<1>3. Types
  BY DEF Types
<1>4. Known /\ Unique
  BY <1>1 DEF Known, Unique, QueuedAt
<1>5. Placed /\ Uncrossed
  BY DEF Placed, Uncrossed
<1>6. Working
  BY DEF Working
<1>7. QED
  BY <1>2, <1>3, <1>4, <1>5, <1>6 DEF IInv

LEMMA QueuesKept ==
    ASSUME LevelsOK, UNCHANGED levels
    PROVE  /\ LevelsOK'
           /\ \A i \in Nat : \A s \in Sides : \A p \in Prices :
                QueuedAt(i, s, p)' <=> QueuedAt(i, s, p)
  BY DEF LevelsOK, Increasing, QueuedAt

(* A step that only takes ids out of queues keeps the ids apart, and the   *)
(* book uncrossed if it neither adds an order nor changes a price.         *)
LEMMA NothingQueued ==
    ASSUME IInv,
           \A i \in Nat : \A s \in Sides : \A p \in Prices :
               QueuedAt(i, s, p)' => QueuedAt(i, s, p),
           DOMAIN orders' \subseteq DOMAIN orders,
           \A i \in DOMAIN orders' : orders'[i].price = orders[i].price
    PROVE  Unique' /\ Uncrossed'
<1>1. Unique'
  BY DEF IInv, Unique
<1>2. \A i \in DOMAIN orders' : i \in Nat /\ orders[i].price \in Prices
  BY DEF IInv, Types
<1>3. "bid" \in Sides /\ "ask" \in Sides
  BY DEF Sides
<1>4. Uncrossed'
  BY <1>2, <1>3 DEF IInv, Uncrossed
<1>5. QED
  BY <1>1, <1>4

LEMMA CallLimitStep ==
    ASSUME IInv, NEW side \in Sides, NEW price \in Prices, NEW qty \in Qtys,
           CallLimit(side, price, qty)
    PROVE  IInv'
<1> USE DEF CallLimit, bookVars
<1>1. LevelsOK' /\ \A i \in Nat : \A s \in Sides : \A p \in Prices :
          QueuedAt(i, s, p)' <=> QueuedAt(i, s, p)
  BY QueuesKept DEF IInv
<1>2. Types'
  BY BookAssumption DEF IInv, Types
<1>3. Known'
  <2>1. lastId \in Nat /\ taker'.id = lastId + 1 /\ lastId' = lastId + 1
    BY DEF IInv, Types
  <2>2. \A i \in Nat : \A s \in Sides : \A p \in Prices : QueuedAt(i, s, p) => i <= lastId
    BY DEF IInv, Known
  <2>3. \A i \in DOMAIN orders : i <= lastId
    BY <2>2 DEF IInv, Placed, Types
  <2>4. lastId + 1 \notin DOMAIN orders
    BY <2>1, <2>3
  <2>5. QED
    BY <1>1, <2>1, <2>2, <2>4 DEF Known
<1>4. Unique' /\ Uncrossed'
  BY <1>1, NothingQueued
<1>5. Placed'
  BY <1>1 DEF IInv, Placed, Types
<1>6. Working'
  BY DEF Working
<1>7. QED
  BY <1>1, <1>2, <1>3, <1>4, <1>5, <1>6 DEF IInv

LEMMA CancelCallStep ==
    ASSUME IInv, NEW id, CancelCall(id)
    PROVE  IInv'
<1> USE DEF CancelCall, callVars
<1>1. LevelsOK' /\ \A i \in Nat : \A s \in Sides : \A p \in Prices :
          QueuedAt(i, s, p)' <=> QueuedAt(i, s, p)
  BY QueuesKept DEF IInv
<1>2. DOMAIN orders' = DOMAIN orders \ {id} /\ \A i \in DOMAIN orders' : orders'[i] = orders[i]
  BY DEF Without
<1>3. Types'
  BY <1>2 DEF IInv, Types
<1>4. Known'
  BY <1>1 DEF IInv, Known
<1>5. Unique' /\ Uncrossed'
  BY <1>1, <1>2, NothingQueued
<1>6. Placed'
  BY <1>1, <1>2 DEF IInv, Placed, Types
<1>7. Working'
  BY DEF Working
<1>8. QED
  BY <1>1, <1>3, <1>4, <1>5, <1>6, <1>7 DEF IInv

LEMMA PickLevelStep == ASSUME IInv, PickLevel PROVE IInv'
<1> USE DEF PickLevel, bookVars
<1>1. LevelsOK' /\ \A i \in Nat : \A s \in Sides : \A p \in Prices :
          QueuedAt(i, s, p)' <=> QueuedAt(i, s, p)
  BY QueuesKept DEF IInv
<1>2. Types'
  BY DEF IInv, Types
<1>3. Known'
  BY <1>1 DEF IInv, Known
<1>4. Unique' /\ Uncrossed'
  BY <1>1, NothingQueued
<1>5. Placed'
  BY <1>1 DEF IInv, Placed, Types
<1>6. Working'
  <2>1. taker.side \in Sides
    BY DEF IInv, Types
  <2>2. /\ it' \in DOMAIN levels[Opposite(taker.side)]
        /\ \A p \in DOMAIN levels[Opposite(taker.side)] : AsGood(taker.side, it', p)
        /\ Crosses(taker.side, taker.price, it')
    BY <2>1, BestIsBest DEF IInv, CrossesBest
  <2>3. QED
    BY <2>2 DEF Working, AsGood, Crosses, Opposite
<1>7. QED
  BY <1>1, <1>2, <1>3, <1>4, <1>5, <1>6 DEF IInv

(* If the best level of the other side does not cross, none does. *)
LEMMA NoneCrosses ==
    ASSUME IInv, NEW side \in Sides, NEW price \in Prices, ~CrossesBest(side, price)
    PROVE  \A p \in DOMAIN levels[Opposite(side)] : ~Crosses(side, price, p)
<1> SUFFICES ASSUME NEW p \in DOMAIN levels[Opposite(side)] PROVE ~Crosses(side, price, p)
  OBVIOUS
<1> DEFINE best == BestLevel(Opposite(side))
<1>1. best \in DOMAIN levels[Opposite(side)] /\ AsGood(side, best, p)
  BY BestIsBest DEF IInv
<1>2. ~Crosses(side, price, best)
  BY DEF CrossesBest
<1>3. best \in Int /\ p \in Int /\ price \in Int
  BY <1>1, BookAssumption DEF IInv, LevelsOK, Opposite, Sides
<1> HIDE DEF best
<1>4. QED
  BY <1>1, <1>2, <1>3 DEF AsGood, Crosses

LEMMA RestStep == ASSUME IInv, Rest PROVE IInv'
<1> USE DEF Rest
<1>1. /\ taker.side \in Sides /\ taker.price \in Prices
      /\ taker.id \in Nat \ {0} /\ taker.qty \in Nat \ {0}
      /\ taker.id = lastId /\ taker.id \notin DOMAIN orders
  BY DEF IInv, Types, Known
<1>2. LevelsOK' /\ \A i \in Nat : \A s \in Sides : \A p \in Prices :
          QueuedAt(i, s, p)' <=>
              \/ QueuedAt(i, s, p)
              \/ s = taker.side /\ p = taker.price /\ i = taker.id
  BY Queued
<1>3. /\ DOMAIN orders' = DOMAIN orders \cup {taker.id}
      /\ orders'[taker.id] = [price |-> taker.price, qty |-> taker.qty]
      /\ \A i \in DOMAIN orders : orders'[i] = orders[i]
  BY <1>1 DEF With
<1>4. Types'
  BY <1>1, <1>3 DEF IInv, Types
<1>5. \A i \in Nat : \A s \in Sides : \A p \in Prices : QueuedAt(i, s, p) => i < taker.id
  BY DEF IInv, Known
<1>6. Known'
  BY <1>1, <1>2, <1>5 DEF Known
<1>7. Unique'
  BY <1>1, <1>2, <1>5 DEF IInv, Unique
<1>8. Placed'
  BY <1>1, <1>2, <1>3 DEF IInv, Placed, Types
<1>9. Uncrossed'
  <2> SUFFICES ASSUME NEW i \in DOMAIN orders', NEW j \in DOMAIN orders',
                      QueuedAt(i, "bid", orders[i].price)', QueuedAt(j, "ask", orders[j].price)'
               PROVE  orders'[i].price < orders'[j].price
    BY DEF Uncrossed
  <2>1. /\ i \in Nat /\ j \in Nat /\ "bid" \in Sides /\ "ask" \in Sides
        /\ orders'[i].price \in Prices /\ orders'[j].price \in Prices
    BY <1>4 DEF Types, Sides
  <2>2. \A p \in DOMAIN levels[Opposite(taker.side)] : ~Crosses(taker.side, taker.price, p)
    BY <1>1, NoneCrosses
  <2>3. CASE i = taker.id
    <3>1. taker.side = "bid" /\ orders'[i].price = taker.price
      <4>1. ~QueuedAt(i, "bid", orders'[i].price)
        BY <1>1, <1>5, <2>1, <2>3
      <4>2. QED
        BY <1>2, <1>3, <2>1, <2>3, <4>1
    <3>2. QueuedAt(j, "ask", orders'[j].price)
      BY <1>2, <2>1, <3>1
    <3>3. orders'[j].price \in DOMAIN levels[Opposite(taker.side)]
      BY <3>1, <3>2 DEF QueuedAt, Opposite
    <3>4. ~(orders'[j].price <= taker.price)
      BY <2>2, <3>1, <3>3 DEF Crosses
    <3>5. orders'[i].price \in Int /\ orders'[j].price \in Int
      BY <2>1, BookAssumption
    <3>6. QED
      BY ONLY <3>1, <3>4, <3>5
  <2>4. CASE j = taker.id
    <3>1. taker.side = "ask" /\ orders'[j].price = taker.price
      <4>1. ~QueuedAt(j, "ask", orders'[j].price)
        BY <1>1, <1>5, <2>1, <2>4
      <4>2. QED
        BY <1>2, <1>3, <2>1, <2>4, <4>1
    <3>2. QueuedAt(i, "bid", orders'[i].price)
      BY <1>2, <2>1, <3>1
    <3>3. orders'[i].price \in DOMAIN levels[Opposite(taker.side)]
      BY <3>1, <3>2 DEF QueuedAt, Opposite
    <3>4. ~(orders'[i].price >= taker.price)
      BY <2>2, <3>1, <3>3 DEF Crosses
    <3>5. orders'[i].price \in Int /\ orders'[j].price \in Int
      BY <2>1, BookAssumption
    <3>6. QED
      BY ONLY <3>1, <3>4, <3>5
  <2>5. CASE i # taker.id /\ j # taker.id
    <3>1. /\ i \in DOMAIN orders /\ orders'[i] = orders[i] /\ QueuedAt(i, "bid", orders[i].price)
          /\ j \in DOMAIN orders /\ orders'[j] = orders[j] /\ QueuedAt(j, "ask", orders[j].price)
      BY <1>2, <1>3, <2>1, <2>5
    <3>2. QED
      BY <3>1 DEF IInv, Uncrossed
  <2>6. QED
    BY <2>3, <2>4, <2>5
<1>10. Working'
  BY DEF Working
<1>11. QED
  BY <1>2, <1>4, <1>6, <1>7, <1>8, <1>9, <1>10 DEF IInv

LEMMA ReturnStep == ASSUME IInv, Return PROVE IInv'
<1> USE DEF Return, bookVars
<1>1. LevelsOK' /\ \A i \in Nat : \A s \in Sides : \A p \in Prices :
          QueuedAt(i, s, p)' <=> QueuedAt(i, s, p)
  BY QueuesKept DEF IInv
<1>2. Types'
  BY DEF IInv, Types
<1>3. Known'
  BY <1>1 DEF IInv, Known
<1>4. Unique' /\ Uncrossed'
  BY <1>1, NothingQueued
<1>5. Placed'
  BY <1>1 DEF IInv, Placed, Types
<1>6. Working'
  BY DEF Working
<1>7. QED
  BY <1>1, <1>2, <1>3, <1>4, <1>5, <1>6 DEF IInv

(* The head of the level is in no other queue. *)
LEMMA HeadQueuedOnce ==
    ASSUME IInv, pc = "inner", Level # <<>>
    PROVE  /\ Head(Level) \in Nat
           /\ QueuedAt(Head(Level), Opposite(taker.side), it)
           /\ Opposite(taker.side) \in Sides /\ it \in Prices
           /\ \A s \in Sides : \A p \in Prices :
                QueuedAt(Head(Level), s, p) => s = Opposite(taker.side) /\ p = it
           /\ \A i \in Range(Level) : Head(Level) <= i
<1>1. Opposite(taker.side) \in Sides /\ it \in DOMAIN levels[Opposite(taker.side)]
  BY DEF IInv, Types, Working, Opposite, Sides
<1>2. /\ Level \in Seq(Nat) /\ Increasing(Level) /\ Level = levels[Opposite(taker.side)][it]
      /\ it \in Prices
  BY <1>1 DEF IInv, LevelsOK, Level
<1>3. /\ Head(Level) \in Nat /\ Head(Level) \in Range(Level)
      /\ \A i \in Range(Level) : Head(Level) <= i
  BY <1>2, TailQueue
<1>4. QueuedAt(Head(Level), Opposite(taker.side), it)
  BY <1>1, <1>2, <1>3 DEF QueuedAt
<1>5. QED
  BY <1>1, <1>2, <1>3, <1>4 DEF IInv, Unique

LEMMA SkipCancelledStep == ASSUME IInv, SkipCancelled PROVE IInv'
<1> USE DEF SkipCancelled, InLevel, callVars
<1>1. /\ LevelsOK'
      /\ \A s \in Sides : DOMAIN levels'[s] = DOMAIN levels[s]
      /\ \A i \in Nat : \A s \in Sides : \A p \in Prices :
           QueuedAt(i, s, p)' <=>
               /\ QueuedAt(i, s, p)
               /\ ~(s = Opposite(taker.side) /\ p = it /\ i = Head(Level))
  BY Popped
<1>2. Types'
  BY DEF IInv, Types
<1>3. Known'
  BY <1>1 DEF IInv, Known
<1>4. Unique' /\ Uncrossed'
  BY <1>1, NothingQueued
<1>5. Placed'
  BY <1>1 DEF IInv, Placed, Types
<1>6. Working'
  BY <1>1 DEF IInv, Working, Types, AsGood, Crosses, Opposite, Sides
<1>7. QED
  BY <1>1, <1>2, <1>3, <1>4, <1>5, <1>6 DEF IInv

(* One trade: m is traded, `left' of the head remains. *)
LEMMA Traded ==
    ASSUME IInv, Fill, NEW head, head = Head(Level),
           NEW m, m = Min({taker.qty, orders[head].qty})
    PROVE  /\ m \in Nat \ {0} /\ taker.qty - m \in Nat
           /\ m = IF orders[head].qty < taker.qty THEN orders[head].qty ELSE taker.qty
           /\ orders[head].qty \in Nat
           /\ orders[head].qty - m \in Nat
           /\ head \in DOMAIN orders
           /\ taker' = [taker EXCEPT !.qty = @ - m]
           /\ volume' = volume + m
           /\ orders' = IF orders[head].qty = m THEN Without(orders, head)
                        ELSE [orders EXCEPT ![head].qty = orders[head].qty - m]
           /\ levels' = IF orders[head].qty = m THEN PopFront ELSE levels
<1>1. /\ taker.qty \in Nat /\ taker.qty > 0
      /\ head \in DOMAIN orders /\ orders[head].qty \in Nat \ {0}
  BY DEF IInv, Types, Fill, InLevel
<1>2. m = IF taker.qty <= orders[head].qty THEN taker.qty ELSE orders[head].qty
  BY <1>1, MinOfTwo
<1>3. Filled(orders[head].qty - m) <=> orders[head].qty = m
  BY <1>1, <1>2 DEF Filled
<1>4. /\ taker' = [taker EXCEPT !.qty = @ - m]
      /\ volume' = volume + m
      /\ orders' = IF Filled(orders[head].qty - m) THEN Without(orders, head)
                   ELSE [orders EXCEPT ![head].qty = orders[head].qty - m]
      /\ levels' = IF Filled(orders[head].qty - m) THEN PopFront ELSE levels
  BY DEF Fill
<1>5. /\ m \in Nat \ {0} /\ taker.qty - m \in Nat
      /\ m = IF orders[head].qty < taker.qty THEN orders[head].qty ELSE taker.qty
      /\ orders[head].qty \in Nat /\ orders[head].qty - m \in Nat
  <2>1. CASE taker.qty <= orders[head].qty
    BY ONLY <1>1, <1>2, <2>1
  <2>2. CASE ~(taker.qty <= orders[head].qty)
    BY ONLY <1>1, <1>2, <2>2
  <2>3. QED
    BY <2>1, <2>2
<1>6. QED
  BY <1>1, <1>3, <1>4, <1>5

LEMMA FillStep == ASSUME IInv, Fill PROVE IInv'
<1> DEFINE head == Head(Level)
           m == Min({taker.qty, orders[head].qty})
<1>1. /\ m \in Nat \ {0} /\ taker.qty - m \in Nat
      /\ orders[head].qty \in Nat
      /\ orders[head].qty - m \in Nat
      /\ head \in DOMAIN orders
      /\ taker' = [taker EXCEPT !.qty = @ - m]
      /\ volume' = volume + m
      /\ orders' = IF orders[head].qty = m THEN Without(orders, head)
                   ELSE [orders EXCEPT ![head].qty = orders[head].qty - m]
      /\ levels' = IF orders[head].qty = m THEN PopFront ELSE levels
  BY Traded
<1>2. /\ pc = "inner" /\ pc' = "inner" /\ it' = it /\ Level # <<>>
      /\ fills' = fills + 1 /\ lastId' = lastId
  BY DEF Fill, InLevel
<1> HIDE DEF m, head
<1>3. taker \in [id : Nat \ {0}, side : Sides, price : Prices, qty : Nat]
  BY <1>2 DEF IInv, Types
<1>4. /\ taker' \in [id : Nat \ {0}, side : Sides, price : Prices, qty : Nat]
      /\ taker'.id = taker.id /\ taker'.side = taker.side /\ taker'.price = taker.price
  BY <1>1, <1>3
<1>5. /\ LevelsOK'
      /\ \A s \in Sides : DOMAIN levels'[s] = DOMAIN levels[s]
      /\ \A i \in Nat : \A s \in Sides : \A p \in Prices :
           QueuedAt(i, s, p)' <=>
               /\ QueuedAt(i, s, p)
               /\ ~(orders[head].qty = m /\ s = Opposite(taker.side) /\ p = it /\ i = head)
  <2>1. CASE orders[head].qty = m
    BY <1>1, <1>2, <2>1, Popped DEF head
  <2>2. CASE orders[head].qty # m
    BY <1>1, <2>2, QueuesKept DEF IInv
  <2>3. QED
    BY <2>1, <2>2
<1>6. /\ DOMAIN orders' = IF orders[head].qty = m THEN DOMAIN orders \ {head} ELSE DOMAIN orders
      /\ \A i \in DOMAIN orders' :
           /\ orders'[i] \in [price : Prices, qty : Nat \ {0}]
           /\ orders'[i].price = orders[i].price
  <2>1. \A i \in DOMAIN orders : orders[i] \in [price : Prices, qty : Nat \ {0}]
    BY DEF IInv, Types
  <2>2. CASE orders[head].qty = m
    BY <1>1, <2>1, <2>2 DEF Without
  <2>3. CASE orders[head].qty # m
    <3>1. orders[head].qty - m \in Nat \ {0}
      BY <1>1, <2>3
    <3>2. QED
      BY <1>1, <2>1, <2>3, <3>1
  <2>4. QED
    BY <2>2, <2>3
<1>7. Types'
  <2>1. fills' \in Nat /\ volume' \in Nat /\ lastId' \in Nat
    BY <1>1, <1>2 DEF IInv, Types
  <2>2. DOMAIN orders' \subseteq Nat
    BY <1>6 DEF IInv, Types
  <2>3. QED
    BY <1>2, <1>4, <1>6, <2>1, <2>2 DEF Types
<1>8. Known'
  BY <1>2, <1>4, <1>5, <1>6 DEF IInv, Known
<1>9. Unique' /\ Uncrossed'
  BY <1>5, <1>6, NothingQueued
<1>10. Placed'
  BY <1>5, <1>6 DEF IInv, Placed, Types
<1>11. Working'
  <2>1. DOMAIN levels'[Opposite(taker.side)] = DOMAIN levels[Opposite(taker.side)]
    BY <1>3, <1>5 DEF Opposite, Sides
  <2>2. QED
    BY <1>2, <1>4, <2>1 DEF IInv, Working, AsGood, Crosses, Opposite
<1>12. QED
  BY <1>5, <1>7, <1>8, <1>9, <1>10, <1>11 DEF IInv

LEMMA LeaveLevelStep == ASSUME IInv, LeaveLevel PROVE IInv'
<1>1. /\ LevelsOK'
      /\ \A i \in Nat : \A s \in Sides : \A p \in Prices :
           QueuedAt(i, s, p)' <=> QueuedAt(i, s, p)
  BY Erased
<1> USE DEF LeaveLevel
<1>2. Types'
  BY DEF IInv, Types
<1>3. Known'
  BY <1>1 DEF IInv, Known
<1>4. Unique' /\ Uncrossed'
  BY <1>1, NothingQueued
<1>5. Placed'
  BY <1>1 DEF IInv, Placed, Types
<1>6. Working'
  BY DEF Working
<1>7. QED
  BY <1>1, <1>2, <1>3, <1>4, <1>5, <1>6 DEF IInv

LEMMA StutterStep == ASSUME IInv, UNCHANGED vars PROVE IInv'
<1> USE DEF vars, bookVars, callVars
<1>1. LevelsOK' /\ \A i \in Nat : \A s \in Sides : \A p \in Prices :
          QueuedAt(i, s, p)' <=> QueuedAt(i, s, p)
  BY QueuesKept DEF IInv
<1>2. Types' /\ Known' /\ Placed'
  BY <1>1 DEF IInv, Types, Known, Placed
<1>3. Unique' /\ Uncrossed'
  BY <1>1, NothingQueued
<1>4. Working'
  BY DEF IInv, Working, AsGood, Crosses, Opposite
<1>5. QED
  BY <1>1, <1>2, <1>3, <1>4 DEF IInv

LEMMA NextStep == IInv /\ [Next]_vars => IInv'
<1> SUFFICES ASSUME IInv, [Next]_vars PROVE IInv'
  OBVIOUS
<1>1. CASE \E side \in Sides, price \in Prices, qty \in Qtys : CallLimit(side, price, qty)
  BY <1>1, CallLimitStep
<1>2. CASE \E id \in 0 .. lastId : CancelCall(id)
  BY <1>2, CancelCallStep
<1>3. CASE Engine
  BY <1>3, PickLevelStep, RestStep, ReturnStep, SkipCancelledStep, FillStep, LeaveLevelStep
     DEF Engine
<1>4. CASE UNCHANGED vars
  BY <1>4, StutterStep
<1>5. QED
  BY <1>1, <1>2, <1>3, <1>4 DEF Next

LEMMA Invariance == Spec => []IInv
  BY InitIInv, NextStep, PTL DEF Spec, SafeSpec

-------------------------------------------------------------------------------
(* What the inductive invariant implies. *)

(* The side of a live order is the one it is queued on at its price.       *)
SidesRight ==
    \A i \in DOMAIN orders : \A s \in Sides :
        SideOf(i) = s <=> QueuedAt(i, s, orders[i].price)

LEMMA SideIs == IInv => SidesRight
<1> SUFFICES ASSUME IInv, NEW i \in DOMAIN orders, NEW s \in Sides
             PROVE SideOf(i) = s <=> QueuedAt(i, s, orders[i].price)
  BY DEF SidesRight
<1>1. i \in Nat /\ orders[i].price \in Prices
  BY DEF IInv, Types
<1>2. \A t \in Sides : \A p : QueuedAt(i, t, p) => p \in Prices
  BY DEF IInv, LevelsOK, QueuedAt
<1>3. PICK t \in Sides : QueuedAt(i, t, orders[i].price)
  BY DEF IInv, Placed
<1>4. \A u \in Sides : \A p : QueuedAt(i, u, p) => u = t /\ p = orders[i].price
  BY <1>1, <1>2, <1>3 DEF IInv, Unique
<1>5. orders[i].price \in DOMAIN levels[t]
  BY <1>3 DEF QueuedAt
<1>6. SideOf(i) = t
  <2>1. CASE t = "bid"
    BY <1>3, <1>5, <2>1 DEF SideOf
  <2>2. CASE t = "ask"
    <3>1. \A p : ~QueuedAt(i, "bid", p)
      BY <1>4, <2>2 DEF Sides
    <3>2. QED
      BY <2>2, <3>1 DEF SideOf
  <2>3. QED
    BY <2>1, <2>2 DEF Sides
<1>7. QED
  BY <1>3, <1>4, <1>6

(* The map of orders and the queues of ids agree although cancel() touches *)
(* only one of them, whatever the prices and however long the run: a live  *)
(* order is in one queue, of its own price, and queues are in order of     *)
(* arrival without repetitions.                                            *)
THEOREM QueueDisciplineHolds == Spec => []QueueDiscipline
<1>1. IInv => QueueDiscipline
  <2> SUFFICES ASSUME IInv PROVE QueueDiscipline
    OBVIOUS
  <2>1. \A s \in Sides : \A p \in DOMAIN levels[s] : \A j, k \in DOMAIN levels[s][p] :
            j < k => levels[s][p][j] < levels[s][p][k]
    BY DEF IInv, LevelsOK, Increasing
  <2>2. ASSUME NEW id \in DOMAIN orders
        PROVE  /\ QueuedAt(id, SideOf(id), orders[id].price)
               /\ \A s \in Sides : \A p \in DOMAIN levels[s] :
                     QueuedAt(id, s, p) => s = SideOf(id) /\ p = orders[id].price
    <3>1. SideOf(id) \in Sides
      BY DEF SideOf, Sides
    <3>2. QueuedAt(id, SideOf(id), orders[id].price)
      BY <3>1, SideIs DEF SidesRight
    <3>3. id \in Nat /\ orders[id].price \in Prices
      BY DEF IInv, Types
    <3>4. \A s \in Sides : \A p \in DOMAIN levels[s] : p \in Prices
      BY DEF IInv, LevelsOK
    <3>5. QED
      BY <3>1, <3>2, <3>3, <3>4 DEF IInv, Unique
  <2>3. QED
    BY <2>1, <2>2 DEF QueueDiscipline
<1>2. QED
  BY <1>1, Invariance, PTL

(* The matching loops never leave a resting bid at or above a resting ask, *)
(* not even between two trades of one call.                                *)
THEOREM NotCrossedHolds == Spec => []NotCrossed
<1>1. IInv => NotCrossed
  BY SideIs DEF SidesRight, IInv, Uncrossed, NotCrossed, Sides
<1>2. QED
  BY <1>1, Invariance, PTL

-------------------------------------------------------------------------------
(* The book refines the price-time priority book: a call is Submit or      *)
(* Cancel, an iteration of the inner loop that fills is Trade, what        *)
(* follows the loops is Rest or Finish, and the steps that only move       *)
(* between levels or drop dead ids are invisible.                          *)

Live == [i \in DOMAIN orders |->
           [side |-> SideOf(i), price |-> orders[i].price, qty |-> orders[i].qty]]

LEMMA LiveIs ==
    IInv => /\ DOMAIN Live = DOMAIN orders
            /\ \A i \in DOMAIN orders :
                 /\ Live[i].side \in Sides
                 /\ Live[i].price = orders[i].price /\ Live[i].price \in Prices
                 /\ Live[i].qty = orders[i].qty
                 /\ \A s \in Sides : Live[i].side = s <=> QueuedAt(i, s, orders[i].price)
<1> SUFFICES ASSUME IInv, NEW i \in DOMAIN orders
             PROVE  /\ Live[i].side \in Sides
                    /\ Live[i].price = orders[i].price /\ Live[i].price \in Prices
                    /\ Live[i].qty = orders[i].qty
                    /\ \A s \in Sides : Live[i].side = s <=> QueuedAt(i, s, orders[i].price)
  BY DEF Live
<1>1. /\ Live[i].side = SideOf(i) /\ Live[i].price = orders[i].price
      /\ Live[i].qty = orders[i].qty
  BY DEF Live
<1>2. SideOf(i) \in Sides
  BY DEF SideOf, Sides
<1>3. orders[i].price \in Prices
  BY DEF IInv, Types
<1>4. QED
  BY <1>1, <1>2, <1>3, SideIs DEF SidesRight

(* A step that neither moves a live order to another queue nor brings one  *)
(* in leaves the side of each.                                             *)
LEMMA SidesStay ==
    ASSUME IInv, IInv',
           \A i \in DOMAIN orders' : i \in DOMAIN orders,
           \A i \in DOMAIN orders' : orders'[i].price = orders[i].price,
           \A i \in Nat : \A s \in Sides : \A p \in Prices :
               QueuedAt(i, s, p)' => QueuedAt(i, s, p)
    PROVE  \A i \in DOMAIN orders' : SideOf(i)' = SideOf(i)
<1> SUFFICES ASSUME NEW i \in DOMAIN orders' PROVE SideOf(i)' = SideOf(i)
  OBVIOUS
<1>1. \A s \in Sides : SideOf(i)' = s <=> QueuedAt(i, s, orders[i].price)'
  <2>1. SidesRight'
    BY SideIs, PTL
  <2>2. QED
    BY <2>1 DEF SidesRight
<1>2. SideOf(i)' \in Sides
  BY DEF SideOf, Sides
<1>3. i \in Nat /\ i \in DOMAIN orders /\ orders[i].price \in Prices
  BY DEF IInv, Types
<1>4. QueuedAt(i, SideOf(i)', orders[i].price)
  BY <1>1, <1>2, <1>3
<1>5. QED
  BY <1>2, <1>3, <1>4, SideIs DEF SidesRight

LEMMA LiveStays ==
    ASSUME IInv, IInv', UNCHANGED orders,
           \A i \in Nat : \A s \in Sides : \A p \in Prices :
               QueuedAt(i, s, p)' => QueuedAt(i, s, p)
    PROVE  Live' = Live
  BY SidesStay DEF Live

LEMMA Submits ==
    ASSUME IInv, NEW side \in Sides, NEW price \in Prices, NEW qty \in Qtys,
           CallLimit(side, price, qty)
    PROVE  Priority!Submit(side, price, qty)
<1>1. Live' = Live
  BY LiveStays, CallLimitStep, QueuesKept DEF CallLimit, bookVars, IInv
<1>2. taker = NoTaker
  BY DEF IInv, Types, CallLimit
<1>3. QED
  BY <1>1, <1>2 DEF Priority!Submit, Priority!NoTaker, NoTaker, Live, CallLimit, bookVars

LEMMA Cancels ==
    ASSUME IInv, NEW id, CancelCall(id)
    PROVE  Priority!Cancel(id)
<1>1. /\ DOMAIN orders' = DOMAIN orders \ {id}
      /\ \A i \in DOMAIN orders' : orders'[i] = orders[i]
  BY DEF CancelCall, Without
<1>2. \A i \in DOMAIN orders' : SideOf(i)' = SideOf(i)
  BY <1>1, SidesStay, CancelCallStep, QueuesKept DEF CancelCall, IInv
<1>3. Live' = [i \in DOMAIN Live \ {id} |-> Live[i]]
  BY <1>1, <1>2 DEF Live
<1>4. taker = NoTaker
  BY DEF IInv, Types, CancelCall
<1>5. QED
  BY <1>3, <1>4 DEF Priority!Cancel, Priority!NoTaker, NoTaker, Live, CancelCall, callVars

LEMMA Finishes == ASSUME IInv, Return PROVE Priority!Finish
<1>1. Live' = Live
  BY LiveStays, ReturnStep, QueuesKept DEF Return, bookVars, IInv
<1>2. taker # NoTaker
  BY DEF IInv, Types, Return, NoTaker
<1>3. QED
  BY <1>1, <1>2 DEF Priority!Finish, Priority!NoTaker, NoTaker, Live, Return, bookVars

(* The orders an incoming one may trade with are in the queues of the      *)
(* other side that its price crosses.                                      *)
LEMMA MatchesAre ==
    ASSUME IInv, taker.side \in Sides
    PROVE  \A i : i \in Priority!Matches(taker.side, taker.price) <=>
               /\ i \in DOMAIN orders
               /\ QueuedAt(i, Opposite(taker.side), orders[i].price)
               /\ Crosses(taker.side, taker.price, orders[i].price)
<1>1. Opposite(taker.side) \in Sides
  BY DEF Opposite, Sides
<1>2. Priority!Matches(taker.side, taker.price) =
        {i \in DOMAIN Live : /\ Live[i].side = Opposite(taker.side)
                             /\ Crosses(taker.side, taker.price, Live[i].price)}
  BY DEF Priority!Matches, Priority!Opposite, Priority!Crosses, Opposite, Crosses, Live
<1>3. QED
  BY <1>1, <1>2, LiveIs

LEMMA Rests == ASSUME IInv, Rest PROVE Priority!Rest
<1>1. /\ taker.side \in Sides /\ taker.price \in Prices /\ taker.id \in Nat \ {0}
      /\ taker # NoTaker /\ taker.id \notin DOMAIN orders
  BY DEF IInv, Types, Known, Rest, NoTaker
<1>2. Priority!Matches(taker.side, taker.price) = {}
  <2>1. \A p \in DOMAIN levels[Opposite(taker.side)] : ~Crosses(taker.side, taker.price, p)
    BY <1>1, NoneCrosses DEF Rest
  <2>2. QED
    BY <1>1, <2>1, MatchesAre DEF QueuedAt
<1>3. IInv'
  BY RestStep
<1>4. /\ DOMAIN orders' = DOMAIN orders \cup {taker.id}
      /\ orders'[taker.id] = [price |-> taker.price, qty |-> taker.qty]
      /\ \A i \in DOMAIN orders : orders'[i] = orders[i]
  BY <1>1 DEF With, Rest
<1>5. \A i \in Nat : \A s \in Sides : \A p \in Prices :
          QueuedAt(i, s, p)' <=>
              \/ QueuedAt(i, s, p)
              \/ s = taker.side /\ p = taker.price /\ i = taker.id
  BY Queued
<1>6. \A i \in DOMAIN orders' : \A s \in Sides :
          SideOf(i)' = s <=> QueuedAt(i, s, orders[i].price)'
  <2>1. SidesRight'
    BY <1>3, SideIs, PTL
  <2>2. QED
    BY <2>1 DEF SidesRight
<1>7. ASSUME NEW i \in DOMAIN orders', i = taker.id
      PROVE  SideOf(i)' = taker.side
  <2>1. orders'[i].price = taker.price
    BY <1>4, <1>7
  <2>2. PICK s \in Sides, p \in Prices : s = taker.side /\ p = taker.price
    BY <1>1
  <2>3. QueuedAt(i, s, p)'
    BY <1>1, <1>5, <1>7, <2>2
  <2>4. QueuedAt(i, s, orders[i].price)'
    BY <2>1, <2>2, <2>3
  <2>5. QED
    BY <1>6, <2>2, <2>4
<1>8. ASSUME NEW i \in DOMAIN orders PROVE SideOf(i)' = SideOf(i)
  <2>1. i \in Nat /\ orders[i].price \in Prices
    BY DEF IInv, Types
  <2>2. PICK s \in Sides : s = SideOf(i)
    BY DEF SideOf, Sides
  <2>3. PICK p \in Prices : p = orders[i].price
    BY <2>1
  <2>4. QueuedAt(i, s, p)
    BY <2>2, <2>3, SideIs DEF SidesRight
  <2>5. i \in DOMAIN orders' /\ orders'[i].price = p
    BY <1>4, <2>3
  <2>6. QueuedAt(i, s, p)'
    BY <1>5, <2>1, <2>4
  <2>7. QueuedAt(i, s, orders[i].price)'
    BY <2>5, <2>6
  <2>8. QED
    BY <1>6, <2>2, <2>5, <2>7
<1>9. Live' = [i \in DOMAIN Live \cup {taker.id} |->
                 IF i = taker.id
                 THEN [side |-> taker.side, price |-> taker.price, qty |-> taker.qty]
                 ELSE Live[i]]
  <2>1. DOMAIN Live = DOMAIN orders
    BY DEF Live
  <2>2. ASSUME NEW i \in DOMAIN orders'
        PROVE  [side |-> SideOf(i), price |-> orders[i].price, qty |-> orders[i].qty]' =
                 IF i = taker.id
                 THEN [side |-> taker.side, price |-> taker.price, qty |-> taker.qty]
                 ELSE Live[i]
    <3>1. CASE i = taker.id
      BY <1>4, <1>7, <3>1
    <3>2. CASE i # taker.id
      <4>1. i \in DOMAIN orders /\ orders'[i] = orders[i] /\ SideOf(i)' = SideOf(i)
        BY <1>4, <1>8, <3>2
      <4>2. Live[i] = [side |-> SideOf(i), price |-> orders[i].price, qty |-> orders[i].qty]
        BY <4>1 DEF Live
      <4>3. QED
        BY <3>2, <4>1, <4>2
    <3>3. QED
      BY <3>1, <3>2
  <2>3. Live' = [i \in DOMAIN orders' |->
          [side |-> SideOf(i), price |-> orders[i].price, qty |-> orders[i].qty]']
    BY DEF Live
  <2>4. QED
    BY <1>4, <2>1, <2>2, <2>3
<1>10. QED
  BY <1>1, <1>2, <1>9 DEF Priority!Rest, Priority!NoTaker, NoTaker, Live, Rest

LEMMA Trades == ASSUME IInv, Fill PROVE Priority!Trade
<1> DEFINE head == Head(Level)
           m == Min({taker.qty, orders[head].qty})
<1>1. /\ m = IF orders[head].qty < taker.qty THEN orders[head].qty ELSE taker.qty
      /\ head \in DOMAIN orders
      /\ taker' = [taker EXCEPT !.qty = @ - m]
      /\ volume' = volume + m
      /\ orders' = IF orders[head].qty = m THEN Without(orders, head)
                   ELSE [orders EXCEPT ![head].qty = orders[head].qty - m]
      /\ levels' = IF orders[head].qty = m THEN PopFront ELSE levels
  BY Traded
<1>2. /\ pc = "inner" /\ Level # <<>> /\ taker.qty > 0 /\ fills' = fills + 1
      /\ UNCHANGED <<lastId, ops>>
  BY DEF Fill, InLevel
<1>3. /\ taker \in [id : Nat \ {0}, side : Sides, price : Prices, qty : Nat]
      /\ taker.side \in Sides
  BY <1>2 DEF IInv, Types
<1>4. /\ head \in Nat
      /\ QueuedAt(head, Opposite(taker.side), it)
      /\ Opposite(taker.side) \in Sides /\ it \in Prices
      /\ \A s \in Sides : \A p \in Prices :
           QueuedAt(head, s, p) => s = Opposite(taker.side) /\ p = it
      /\ \A i \in Range(Level) : head <= i
  BY <1>2, HeadQueuedOnce
<1> HIDE DEF head, m
<1>5. QueuedAt(head, Opposite(taker.side), orders[head].price) /\ orders[head].price = it
  <2>1. PICK s \in Sides : QueuedAt(head, s, orders[head].price)
    BY <1>1 DEF IInv, Placed
  <2>2. orders[head].price \in Prices
    BY <1>1 DEF IInv, Types
  <2>3. QED
    BY <1>4, <2>1, <2>2
<1>6. head \in Priority!Matches(taker.side, taker.price)
  BY <1>1, <1>2, <1>3, <1>5, MatchesAre DEF IInv, Working
<1>7. \A j \in Priority!Matches(taker.side, taker.price) :
          Priority!Before(taker.side, head, j)
  <2> SUFFICES ASSUME NEW j \in Priority!Matches(taker.side, taker.price)
               PROVE  Priority!Before(taker.side, head, j)
    OBVIOUS
  <2>1. j \in DOMAIN orders /\ QueuedAt(j, Opposite(taker.side), orders[j].price)
    BY <1>3, MatchesAre
  <2>2. AsGood(taker.side, it, orders[j].price)
    BY <1>2, <2>1 DEF IInv, Working, QueuedAt
  <2>3. it = orders[j].price => head <= j
    BY <1>4, <2>1 DEF QueuedAt, Level
  <2>4. Live[head].price = it /\ Live[j].price = orders[j].price
    BY <1>1, <1>5, <2>1, LiveIs
  <2>5. it \in Int /\ orders[j].price \in Int
    BY <1>4, <2>1, BookAssumption DEF IInv, Types
  <2>6. \/ IF taker.side = "bid" THEN it < orders[j].price ELSE it > orders[j].price
        \/ it = orders[j].price /\ head <= j
    BY <2>2, <2>3, <2>5 DEF AsGood
  <2>7. \/ Priority!Better(taker.side, Live[head].price, Live[j].price)
        \/ Live[head].price = Live[j].price /\ head <= j
    BY <2>4, <2>6 DEF Priority!Better
  <2>8. QED
    BY <2>7 DEF Priority!Before, Live
<1>8. \A i \in DOMAIN orders' : i \in DOMAIN orders /\ SideOf(i)' = SideOf(i)
  <2>1. \A i \in DOMAIN orders' : i \in DOMAIN orders /\ orders'[i].price = orders[i].price
    <3>1. CASE orders[head].qty = m
      BY <1>1, <3>1 DEF Without
    <3>2. CASE orders[head].qty # m
      BY <1>1, <3>2
    <3>3. QED
      BY <3>1, <3>2
  <2>2. \A i \in Nat : \A s \in Sides : \A p \in Prices :
            QueuedAt(i, s, p)' => QueuedAt(i, s, p)
    <3>1. CASE orders[head].qty = m
      BY <1>1, <1>2, <3>1, Popped
    <3>2. CASE orders[head].qty # m
      BY <1>1, <3>2, QueuesKept DEF IInv
    <3>3. QED
      BY <3>1, <3>2
  <2>3. IInv'
    BY FillStep
  <2>4. QED
    BY <2>1, <2>2, <2>3, SidesStay
<1>9. Live' = IF Live[head].qty = m
              THEN [j \in DOMAIN Live \ {head} |-> Live[j]]
              ELSE [Live EXCEPT ![head].qty = @ - m]
  <2>1. DOMAIN Live = DOMAIN orders /\ Live[head].qty = orders[head].qty
    BY <1>1 DEF Live
  <2>2. CASE orders[head].qty = m
    BY <1>1, <1>8, <2>1, <2>2 DEF Live, Without
  <2>3. CASE orders[head].qty # m
    <3>1. orders' = [orders EXCEPT ![head].qty = orders[head].qty - m]
      BY <1>1, <2>3
    <3>2. DOMAIN orders' = DOMAIN orders
      BY <3>1
    <3>3. ASSUME NEW i \in DOMAIN orders
          PROVE  Live'[i] = [Live EXCEPT ![head].qty = @ - m][i]
      <4>1. Live'[i] = [side |-> SideOf(i), price |-> orders'[i].price, qty |-> orders'[i].qty]
        BY <1>8, <3>2 DEF Live
      <4>2. Live[i] = [side |-> SideOf(i), price |-> orders[i].price, qty |-> orders[i].qty]
        BY DEF Live
      <4>3. CASE i = head
        <5>1. orders[i] \in [price : Prices, qty : Nat \ {0}]
          BY DEF IInv, Types
        <5>2. orders'[i].price = orders[i].price /\ orders'[i].qty = orders[i].qty - m
          BY <1>1, <3>1, <4>3, <5>1
        <5>3. QED
          BY <2>1, <4>1, <4>2, <4>3, <5>2
      <4>4. CASE i # head
        BY <2>1, <3>1, <4>1, <4>2, <4>4
      <4>5. QED
        BY <4>3, <4>4
    <3>4. QED
      BY <2>1, <2>3, <3>2, <3>3 DEF Live
  <2>4. QED
    BY <2>1, <2>2, <2>3
<1>10. taker # NoTaker
  BY <1>3 DEF NoTaker
<1>11. m = IF Live[head].qty < taker.qty THEN Live[head].qty ELSE taker.qty
  BY <1>1 DEF Live
<1>12. QED
  <2>1. \E i \in Priority!Matches(taker.side, taker.price) :
          /\ \A j \in Priority!Matches(taker.side, taker.price) :
                Priority!Before(taker.side, i, j)
          /\ LET k == IF Live[i].qty < taker.qty THEN Live[i].qty ELSE taker.qty
             IN  /\ Live' = IF Live[i].qty = k
                            THEN [j \in DOMAIN Live \ {i} |-> Live[j]]
                            ELSE [Live EXCEPT ![i].qty = @ - k]
                 /\ taker' = [taker EXCEPT !.qty = @ - k]
                 /\ volume' = volume + k
    BY <1>1, <1>6, <1>7, <1>9, <1>11
  <2>2. QED
    BY <1>2, <1>10, <2>1 DEF Priority!Trade, Priority!NoTaker, NoTaker, Live

LEMMA Invisible ==
    ASSUME IInv, PickLevel \/ SkipCancelled \/ LeaveLevel \/ UNCHANGED vars
    PROVE  UNCHANGED <<Live, taker, lastId, ops, fills, volume>>
<1>1. /\ UNCHANGED <<orders, taker, lastId, ops, fills, volume>>
      /\ SkipCancelled => pc = "inner" /\ Level # <<>> /\ levels' = PopFront
      /\ SkipCancelled \/ LeaveLevel \/ UNCHANGED levels
  BY DEF PickLevel, SkipCancelled, LeaveLevel, InLevel, vars, bookVars, callVars
<1>2. IInv'
  BY PickLevelStep, SkipCancelledStep, LeaveLevelStep, StutterStep
<1>3. \A i \in Nat : \A s \in Sides : \A p \in Prices :
          QueuedAt(i, s, p)' => QueuedAt(i, s, p)
  BY <1>1, Popped, Erased, QueuesKept DEF IInv
<1>4. QED
  BY <1>1, <1>2, <1>3, LiveStays

(* Whatever the prices and quantities and however long the run, the book   *)
(* with its lazily cancelled queues trades by price-time priority: every   *)
(* iteration of its loops is a trade with the order that has priority over *)
(* all others on the other side, or changes nothing anyone can see.        *)
THEOREM RefinesClob == Spec => Priority!SafeSpec
<1>1. Init => Priority!Init
  BY DEF Init, Priority!Init, Priority!NoTaker, NoTaker
<1>2. IInv /\ [Next]_vars => [Priority!Next]_(Priority!clobVars)
  <2> SUFFICES ASSUME IInv, [Next]_vars
               PROVE  Priority!Next \/ UNCHANGED Priority!clobVars
    OBVIOUS
  <2>1. CASE \E side \in Sides, price \in Prices, qty \in Qtys : CallLimit(side, price, qty)
    BY <2>1, Submits DEF Priority!Next, Priority!Sides, Sides
  <2>2. CASE \E id \in 0 .. lastId : CancelCall(id)
    BY <2>2, Cancels DEF Priority!Next
  <2>3. CASE Fill \/ Rest \/ Return
    BY <2>3, Trades, Rests, Finishes DEF Priority!Next, Priority!Match
  <2>4. CASE PickLevel \/ SkipCancelled \/ LeaveLevel \/ UNCHANGED vars
    BY <2>4, Invisible DEF Priority!clobVars, Live
  <2>5. QED
    BY <2>1, <2>2, <2>3, <2>4 DEF Next, Engine
<1>3. QED
  BY <1>1, <1>2, Invariance, PTL DEF Spec, SafeSpec, Priority!SafeSpec

-------------------------------------------------------------------------------
(* Folds over finite sets.  MapThenFoldSet and FoldLeft are recursive      *)
(* functions on the subsets of the set they fold: c chooses the element    *)
(* to take out, F what it makes of it and of the fold of the others.  That *)
(* there is such a function is proved by descending to smaller sets.       *)

LEMMA SubsetInduction ==
    ASSUME NEW S, IsFiniteSet(S), NEW Good,
           \A T \in SUBSET S : (\A U \in SUBSET T : U # T => U \in Good) => T \in Good
    PROVE  \A T \in SUBSET S : T \in Good
<1> DEFINE Bad == {T \in SUBSET S : T \notin Good}
<1>1. SUFFICES ASSUME Bad # {} PROVE FALSE
  OBVIOUS
<1>2. Bad \subseteq FiniteSubsetsOf(S)
  BY FS_FiniteSubsetsOfFinite
<1>3. \E T \in Bad : \A U \in Bad : ~(<<U, T>> \in StrictSubsetOrdering(S))
  <2> HIDE DEF Bad
  <2>1. QED
    BY <1>1, <1>2, FS_StrictSubsetOrderingWellFounded, WFMin
<1>4. PICK T \in Bad : \A U \in Bad : ~(<<U, T>> \in StrictSubsetOrdering(S))
  BY <1>3
<1>5. \A U \in SUBSET T : U # T => U \in Good
  BY <1>4 DEF StrictSubsetOrdering
<1>6. QED
  BY <1>4, <1>5

IsFold(h, T, base, c, F) ==
    \A s \in SUBSET T : h[s] = IF s = {} THEN base ELSE F[<<c[s], h[s \ {c[s]}]>>]

LEMMA FoldsAgree ==
    ASSUME NEW S, IsFiniteSet(S), NEW base, NEW c, NEW F, NEW T \in SUBSET S, NEW U, NEW h, NEW k,
           \A s \in SUBSET S : s # {} => c[s] \in s,
           IsFold(h, T, base, c, F), IsFold(k, U, base, c, F)
    PROVE  \A s \in SUBSET T : s \in SUBSET U => h[s] = k[s]
<1> DEFINE Good == {s \in SUBSET T : s \in SUBSET U => h[s] = k[s]}
<1>1. ASSUME NEW s \in SUBSET T, \A u \in SUBSET s : u # s => u \in Good
      PROVE  s \in Good
  <2>1. SUFFICES ASSUME s \in SUBSET U PROVE h[s] = k[s]
    OBVIOUS
  <2>2. CASE s = {}
    BY <2>1, <2>2 DEF IsFold
  <2>3. CASE s # {}
    <3>1. c[s] \in s
      BY <2>3
    <3>2. h[s \ {c[s]}] = k[s \ {c[s]}]
      BY <1>1, <2>1, <3>1
    <3>3. h[s] = F[<<c[s], h[s \ {c[s]}]>>] /\ k[s] = F[<<c[s], k[s \ {c[s]}]>>]
      BY <2>1, <2>3 DEF IsFold
    <3>4. QED
      BY <3>2, <3>3
  <2>4. QED
    BY <2>2, <2>3
<1>2. IsFiniteSet(T)
  BY FS_Subset
<1> HIDE DEF Good
<1>3. \A s \in SUBSET T : s \in Good
  BY <1>1, <1>2, SubsetInduction
<1>4. QED
  BY <1>3 DEF Good

LEMMA FoldExists ==
    ASSUME NEW S, IsFiniteSet(S), NEW V, NEW base \in V, NEW c, NEW F \in [S \X V -> V],
           \A s \in SUBSET S : s # {} => c[s] \in s
    PROVE  \E h \in [SUBSET S -> V] : IsFold(h, S, base, c, F)
<1> DEFINE FoldOn(T, h) == h \in [SUBSET T -> V] /\ IsFold(h, T, base, c, F)
           Good == {T \in SUBSET S : \E h : FoldOn(T, h)}
           val(T) == (CHOOSE h : FoldOn(T, h))[T]
<1>1. ASSUME NEW T \in SUBSET S, \A U \in SUBSET T : U # T => U \in Good
      PROVE  T \in Good
  <2> DEFINE h == [s \in SUBSET T |-> IF s = {} THEN base ELSE F[<<c[s], val(s \ {c[s]})>>]]
  <2>1. ASSUME NEW u \in SUBSET T, u # T
        PROVE  FoldOn(u, CHOOSE k : FoldOn(u, k)) /\ val(u) \in V
    <3>1. \E k : FoldOn(u, k)
      BY <1>1, <2>1
    <3>2. FoldOn(u, CHOOSE k : FoldOn(u, k))
      <4> HIDE DEF FoldOn
      <4>1. QED
        BY <3>1
    <3>3. QED
      BY <3>2
  <2>2. ASSUME NEW s \in SUBSET T, s # {}
        PROVE  LET u == s \ {c[s]} IN u \in SUBSET T /\ u # T /\ <<c[s], val(u)>> \in S \X V
    <3>1. c[s] \in s
      BY <2>2
    <3> DEFINE u == s \ {c[s]}
    <3>2. u \in SUBSET T /\ u # T
      BY <3>1
    <3>3. val(u) \in V
      <4> HIDE DEF u, val, FoldOn
      <4>1. QED
        BY <2>1, <3>2
    <3>4. c[s] \in S
      BY <3>1
    <3> HIDE DEF val
    <3>5. QED
      BY <3>2, <3>3, <3>4
  <2>3. h \in [SUBSET T -> V]
    <3>1. ASSUME NEW s \in SUBSET T
          PROVE  (IF s = {} THEN base ELSE F[<<c[s], val(s \ {c[s]})>>]) \in V
      <4> HIDE DEF val
      <4>1. QED
        BY <2>2
    <3> HIDE DEF val
    <3>2. QED
      BY <3>1
  <2>4. ASSUME NEW s \in SUBSET T, s # {}
        PROVE  h[s \ {c[s]}] = val(s \ {c[s]})
    <3> DEFINE u == s \ {c[s]}
               k == CHOOSE k : FoldOn(u, k)
               w == u \ {c[u]}
               m == CHOOSE m : FoldOn(w, m)
    <3>1. u \in SUBSET T /\ u # T
      BY <2>2, <2>4
    <3>2. FoldOn(u, k) /\ val(u) = k[u]
      <4>1. FoldOn(u, k)
        <5> HIDE DEF u, FoldOn, val
        <5>1. QED
          BY <2>1, <3>1
      <4>2. QED
        BY <4>1
    <3>3. h[u] = IF u = {} THEN base ELSE F[<<c[u], val(w)>>]
      <4> HIDE DEF val, u
      <4>1. QED
        BY <3>1
    <3>4. k[u] = IF u = {} THEN base ELSE F[<<c[u], k[w]>>]
      <4> HIDE DEF u, k
      <4>1. QED
        BY <3>2 DEF IsFold
    <3>5. ASSUME u # {} PROVE k[w] = val(w)
      <4>1. c[u] \in u
        BY <3>1, <3>5
      <4>2. w \in SUBSET u /\ w \in SUBSET T /\ w # T
        BY <3>1, <4>1
      <4>3. FoldOn(w, m)
        <5> HIDE DEF w, FoldOn, val
        <5>1. QED
          BY <2>1, <4>2
      <4>4. val(w) = m[w]
        OBVIOUS
      <4>5. k[w] = m[w]
        <5>1. u \in SUBSET S
          BY <3>1
        <5>2. IsFold(k, u, base, c, F) /\ IsFold(m, w, base, c, F)
          <6> HIDE DEF u, k, w, m
          <6>1. QED
            BY ONLY <3>2, <4>3
        <5> HIDE DEF u, k, w, m
        <5>3. \A s1 \in SUBSET u : s1 \in SUBSET w => k[s1] = m[s1]
          BY ONLY <5>1, <5>2, FoldsAgree, IsFiniteSet(S),
             \A s1 \in SUBSET S : s1 # {} => c[s1] \in s1
        <5>4. QED
          BY ONLY <4>2, <5>3
      <4>6. QED
        BY <4>4, <4>5
    <3> HIDE DEF h, k, w, val
    <3>6. h[u] = val(u)
      BY <3>2, <3>3, <3>4, <3>5
    <3>7. QED
      BY <3>6
  <2>5. IsFold(h, T, base, c, F)
    <3>1. \A s \in SUBSET T : h[s] = IF s = {} THEN base ELSE F[<<c[s], val(s \ {c[s]})>>]
      <4> HIDE DEF val
      <4>1. QED
        OBVIOUS
    <3> HIDE DEF h, val
    <3>2. QED
      BY <2>4, <3>1 DEF IsFold
  <2>6. QED
    <3> HIDE DEF h
    <3>1. QED
      BY <2>3, <2>5
<1>2. S \in Good
  <2> HIDE DEF Good
  <2>1. QED
    BY <1>1, SubsetInduction
<1>3. QED
  BY <1>2

-------------------------------------------------------------------------------
(* The sum over the map of orders.                                        *)

First(s) == CHOOSE x \in s : TRUE

(* h is what the definition of the sum says on the subsets of T. *)
Sums(o, h, T) ==
    h = [s \in SUBSET T |-> IF s = {} THEN 0 ELSE o[First(s)].qty + h[s \ {First(s)}]]

SumsOver(o, T) == CHOOSE h : Sums(o, h, T)

Total(o, S) == SumsOver(o, S)[S]

LEMMA TotalIs ==
    ASSUME NEW o, NEW S
    PROVE  MapThenSumSet(LAMBDA i : o[i].qty, S) = Total(o, S)
  BY DEF MapThenSumSet, MapThenFoldSet, Total, SumsOver, Sums, First

LEMMA SumsAt ==
    ASSUME NEW o, NEW T, NEW h, Sums(o, h, T), NEW s \in SUBSET T
    PROVE  h[s] = IF s = {} THEN 0 ELSE o[First(s)].qty + h[s \ {First(s)}]
<1> DEFINE F == [u \in SUBSET T |-> IF u = {} THEN 0 ELSE o[First(u)].qty + h[u \ {First(u)}]]
<1>1. h = F
  BY DEF Sums
<1>2. F[s] = IF s = {} THEN 0 ELSE o[First(s)].qty + h[s \ {First(s)}]
  OBVIOUS
<1> HIDE DEF F
<1>3. QED
  BY <1>1, <1>2

LEMMA FirstIn == ASSUME NEW s, s # {} PROVE First(s) \in s
  BY DEF First

LEMMA SumsAgree ==
    ASSUME NEW o, NEW T, NEW U, NEW h, NEW k, Sums(o, h, T), Sums(o, k, U),
           IsFiniteSet(T)
    PROVE  \A s \in SUBSET T : s \in SUBSET U => h[s] = k[s]
<1> DEFINE Good == {s \in SUBSET T : s \in SUBSET U => h[s] = k[s]}
<1>1. ASSUME NEW s \in SUBSET T, \A u \in SUBSET s : u # s => u \in Good
      PROVE  s \in Good
  <2>1. SUFFICES ASSUME s \in SUBSET U PROVE h[s] = k[s]
    OBVIOUS
  <2>2. CASE s = {}
    BY <2>1, <2>2, SumsAt
  <2>3. CASE s # {}
    <3> DEFINE x == First(s)
    <3>1. x \in s
      BY <2>3, FirstIn
    <3>2. h[s \ {x}] = k[s \ {x}]
      BY <1>1, <2>1, <3>1
    <3>3. h[s] = o[x].qty + h[s \ {x}] /\ k[s] = o[x].qty + k[s \ {x}]
      BY <2>1, <2>3, SumsAt
    <3>4. QED
      BY <3>2, <3>3
  <2>4. QED
    BY <2>2, <2>3
<1> HIDE DEF Good
<1>2. \A s \in SUBSET T : s \in Good
  BY <1>1, SubsetInduction
<1>3. QED
  BY <1>2 DEF Good

Summable(o, S) == IsFiniteSet(S) /\ \A i \in S : o[i].qty \in Int

LEMMA SumsExist ==
    ASSUME NEW o, NEW T, Summable(o, T)
    PROVE  Sums(o, SumsOver(o, T), T)
<1> DEFINE c == [s \in SUBSET T |-> First(s)]
           F == [xv \in T \X Int |-> o[xv[1]].qty + xv[2]]
<1>1. PICK h \in [SUBSET T -> Int] : IsFold(h, T, 0, c, F)
  <2>1. F \in [T \X Int -> Int]
    BY DEF Summable
  <2>2. \A s \in SUBSET T : s # {} => c[s] \in s
    BY FirstIn
  <2>3. IsFiniteSet(T) /\ 0 \in Int
    BY DEF Summable
  <2> HIDE DEF c, F
  <2>4. QED
    BY ONLY <2>1, <2>2, <2>3, FoldExists
<1> DEFINE G == [s \in SUBSET T |-> IF s = {} THEN 0 ELSE o[First(s)].qty + h[s \ {First(s)}]]
<1>2. ASSUME NEW s \in SUBSET T
      PROVE  h[s] = IF s = {} THEN 0 ELSE o[First(s)].qty + h[s \ {First(s)}]
  <2>1. c[s] = First(s)
    OBVIOUS
  <2>2. CASE s = {}
    BY <1>1, <2>2 DEF IsFold
  <2>3. CASE s # {}
    <3>1. First(s) \in T /\ h[s \ {First(s)}] \in Int
      BY <2>3, FirstIn
    <3>2. F[<<First(s), h[s \ {First(s)}]>>] = o[First(s)].qty + h[s \ {First(s)}]
      BY <3>1
    <3> HIDE DEF c, F
    <3>3. QED
      BY <1>1, <2>1, <2>3, <3>2 DEF IsFold
  <2>4. QED
    BY <2>2, <2>3
<1>3. h = G
  <2>1. h = [s \in SUBSET T |-> h[s]]
    OBVIOUS
  <2>2. QED
    BY <1>2, <2>1
<1>4. QED
  BY <1>3 DEF Sums, SumsOver

(* The sum of a set is one summand and the sum of the others: the one its  *)
(* definition takes first ...                                              *)
LEMMA TotalUnfolds ==
    ASSUME NEW o, NEW S, Summable(o, S)
    PROVE  Total(o, S) = IF S = {} THEN 0 ELSE o[First(S)].qty + Total(o, S \ {First(S)})
<1>1. Sums(o, SumsOver(o, S), S)
  BY SumsExist
<1>2. Total(o, S) = IF S = {} THEN 0
                    ELSE o[First(S)].qty + SumsOver(o, S)[S \ {First(S)}]
  BY <1>1, SumsAt DEF Total
<1>3. SumsOver(o, S)[S \ {First(S)}] = Total(o, S \ {First(S)})
  <2> DEFINE v == S \ {First(S)}
  <2>1. v \in SUBSET S
    OBVIOUS
  <2>2. Sums(o, SumsOver(o, v), v)
    BY <2>1, SumsExist, FS_Subset DEF Summable
  <2> HIDE DEF v
  <2>3. SumsOver(o, S)[v] = SumsOver(o, v)[v]
    BY <1>1, <2>1, <2>2, SumsAgree DEF Summable
  <2>4. QED
    BY <2>3 DEF Total, v
<1>4. QED
  BY <1>2, <1>3

LEMMA TotalIsInt ==
    ASSUME NEW o, NEW S, Summable(o, S)
    PROVE  \A T \in SUBSET S : Total(o, T) \in Int
<1> DEFINE Good == {T \in SUBSET S : Total(o, T) \in Int}
<1>1. ASSUME NEW T \in SUBSET S, \A U \in SUBSET T : U # T => U \in Good
      PROVE  T \in Good
  <2> DEFINE x == First(T)
  <2>1. Summable(o, T)
    BY FS_Subset DEF Summable
  <2>2. Total(o, T) = IF T = {} THEN 0 ELSE o[x].qty + Total(o, T \ {x})
    BY <2>1, TotalUnfolds
  <2>3. ASSUME T # {} PROVE o[x].qty \in Int /\ Total(o, T \ {x}) \in Int
    <3>1. x \in T
      BY <2>3, FirstIn
    <3>2. T \ {x} \in Good
      BY <1>1, <3>1
    <3>3. QED
      BY <3>1, <3>2 DEF Summable
  <2>4. Total(o, T) \in Int
    BY <2>2, <2>3
  <2>5. QED
    BY <2>4
<1> HIDE DEF Good
<1>2. \A T \in SUBSET S : T \in Good
  BY <1>1, SubsetInduction DEF Summable
<1>3. QED
  BY <1>2 DEF Good

(* ... or any other.                                                       *)
LEMMA TotalSplits ==
    ASSUME NEW o, NEW S, Summable(o, S)
    PROVE  \A T \in SUBSET S : \A x \in T : Total(o, T) = o[x].qty + Total(o, T \ {x})
<1> DEFINE Good == {T \in SUBSET S : \A x \in T : Total(o, T) = o[x].qty + Total(o, T \ {x})}
<1>1. ASSUME NEW T \in SUBSET S, \A U \in SUBSET T : U # T => U \in Good
      PROVE  T \in Good
  <2>1. SUFFICES ASSUME NEW x \in T PROVE Total(o, T) = o[x].qty + Total(o, T \ {x})
    OBVIOUS
  <2>2. PICK y \in T : Total(o, T) = o[y].qty + Total(o, T \ {y})
    <3>1. Summable(o, T)
      BY FS_Subset DEF Summable
    <3>2. QED
      BY <2>1, <3>1, TotalUnfolds, FirstIn
  <2>3. CASE x = y
    BY <2>2, <2>3
  <2>4. CASE x # y
    <3> DEFINE u == T \ {x, y}
    <3>1. /\ T \ {y} \in Good /\ T \ {x} \in Good
          /\ x \in T \ {y} /\ y \in T \ {x}
          /\ (T \ {y}) \ {x} = u /\ (T \ {x}) \ {y} = u
          /\ u \in SUBSET S
      BY <1>1, <2>4
    <3>2. o[x].qty \in Int /\ o[y].qty \in Int /\ Total(o, u) \in Int
      BY <3>1, TotalIsInt DEF Summable
    <3>3. Total(o, T \ {y}) = o[x].qty + Total(o, u)
      BY <3>1
    <3>4. Total(o, T \ {x}) = o[y].qty + Total(o, u)
      BY <3>1
    <3>5. QED
      BY ONLY <2>2, <3>2, <3>3, <3>4
  <2>5. QED
    BY <2>3, <2>4
<1> HIDE DEF Good
<1>2. \A T \in SUBSET S : T \in Good
  BY <1>1, SubsetInduction DEF Summable
<1>3. QED
  BY <1>2 DEF Good

(* Only the quantities of the orders summed matter. *)
LEMMA TotalSame ==
    ASSUME NEW o, NEW p, NEW S, Summable(o, S), \A i \in S : o[i].qty = p[i].qty
    PROVE  \A T \in SUBSET S : Total(o, T) = Total(p, T)
<1> DEFINE Good == {T \in SUBSET S : Total(o, T) = Total(p, T)}
<1>1. ASSUME NEW T \in SUBSET S, \A U \in SUBSET T : U # T => U \in Good
      PROVE  T \in Good
  <2>1. Summable(o, T) /\ Summable(p, T)
    BY FS_Subset DEF Summable
  <2>2. CASE T = {}
    BY <2>1, <2>2, TotalUnfolds
  <2>3. CASE T # {}
    <3>1. First(T) \in T
      BY <2>3, FirstIn
    <3>2. Total(o, T \ {First(T)}) = Total(p, T \ {First(T)})
      BY <1>1, <3>1
    <3>3. /\ Total(o, T) = o[First(T)].qty + Total(o, T \ {First(T)})
          /\ Total(p, T) = p[First(T)].qty + Total(p, T \ {First(T)})
      BY <2>1, <2>3, TotalUnfolds
    <3>4. QED
      BY <3>1, <3>2, <3>3
  <2>4. QED
    BY <2>2, <2>3
<1> HIDE DEF Good
<1>2. \A T \in SUBSET S : T \in Good
  BY <1>1, SubsetInduction DEF Summable
<1>3. QED
  BY <1>2 DEF Good

(* What the three updates of the map of orders do to the sum over it.      *)

LEMMA TotalErased ==
    ASSUME NEW o, NEW x, Summable(o, DOMAIN o)
    PROVE  Total(Without(o, x), DOMAIN Without(o, x))
               = Total(o, DOMAIN o) - (IF x \in DOMAIN o THEN o[x].qty ELSE 0)
<1> DEFINE p == Without(o, x)
           S == DOMAIN o
<1>1. DOMAIN p = S \ {x} /\ \A i \in S \ {x} : p[i] = o[i]
  BY DEF Without
<1>2. Summable(o, S \ {x})
  BY FS_Subset DEF Summable
<1>3. Total(p, S \ {x}) = Total(o, S \ {x})
  <2> HIDE DEF p, S
  <2>1. QED
    BY <1>1, <1>2, TotalSame
<1>4. CASE x \in S
  <2>1. /\ Total(o, S) = o[x].qty + Total(o, S \ {x})
        /\ o[x].qty \in Int /\ Total(o, S \ {x}) \in Int
    BY <1>4, TotalSplits, TotalIsInt DEF Summable
  <2>2. Total(p, DOMAIN p) = Total(o, S) - o[x].qty
    BY ONLY <2>1, <1>1, <1>3
  <2>3. QED
    BY <1>4, <2>2
<1>5. CASE x \notin S
  <2>1. S \ {x} = S /\ Total(o, S) \in Int
    BY <1>5, TotalIsInt
  <2>2. Total(p, DOMAIN p) = Total(o, S) - 0
    BY ONLY <2>1, <1>1, <1>3
  <2>3. QED
    BY <1>5, <2>2
<1>6. QED
  BY <1>4, <1>5

LEMMA TotalReplaced ==
    ASSUME NEW o, NEW x \in DOMAIN o, NEW p, Summable(o, DOMAIN o),
           DOMAIN p = DOMAIN o, \A i \in DOMAIN o \ {x} : p[i].qty = o[i].qty,
           p[x].qty \in Int
    PROVE  Total(p, DOMAIN p) = Total(o, DOMAIN o) - o[x].qty + p[x].qty
<1> DEFINE S == DOMAIN o
<1>1. Summable(p, S)
  BY DEF Summable
<1>2. Total(p, S \ {x}) = Total(o, S \ {x})
  <2>1. Summable(o, S \ {x})
    BY FS_Subset DEF Summable
  <2> HIDE DEF S
  <2>2. QED
    BY <2>1, TotalSame DEF S
<1>3. /\ Total(o, S) = o[x].qty + Total(o, S \ {x})
      /\ Total(p, S) = p[x].qty + Total(p, S \ {x})
      /\ o[x].qty \in Int /\ p[x].qty \in Int /\ Total(o, S \ {x}) \in Int
  BY <1>1, TotalSplits, TotalIsInt DEF Summable
<1>4. Total(p, S) = Total(o, S) - o[x].qty + p[x].qty
  BY ONLY <1>2, <1>3
<1>5. QED
  BY <1>4

LEMMA TotalAdded ==
    ASSUME NEW o, NEW x, NEW v, Summable(o, DOMAIN o), x \notin DOMAIN o, v.qty \in Int
    PROVE  Total(With(o, x, v), DOMAIN With(o, x, v)) = Total(o, DOMAIN o) + v.qty
<1> DEFINE p == With(o, x, v)
           S == DOMAIN o
<1>1. /\ DOMAIN p = S \cup {x} /\ p[x] = v /\ \A i \in S : p[i] = o[i]
      /\ (S \cup {x}) \ {x} = S
  BY DEF With
<1>2. Summable(p, S \cup {x})
  BY <1>1, FS_AddElement DEF Summable
<1>3. Total(p, S) = Total(o, S)
  <2> HIDE DEF p
  <2>1. QED
    BY <1>1, TotalSame DEF Summable
<1>4. Total(p, S \cup {x}) = v.qty + Total(p, S)
  <2> HIDE DEF p, S
  <2>1. QED
    BY <1>1, <1>2, TotalSplits
<1>5. Total(o, S) \in Int /\ v.qty \in Int
  BY TotalIsInt
<1>6. Total(p, DOMAIN p) = Total(o, S) + v.qty
  BY ONLY <1>1, <1>3, <1>4, <1>5
<1>7. QED
  BY <1>6

-------------------------------------------------------------------------------
(* Nothing is lost and nothing traded twice.                               *)

Resting == Total(orders, DOMAIN orders)
InHand == IF pc = "idle" THEN 0 ELSE taker.qty
Conserved == booked = 2 * volume + Resting + InHand

LEMMA OrdersSummable ==
    ASSUME IInv
    PROVE  /\ Summable(orders, DOMAIN orders)
           /\ Resting \in Int /\ InHand \in Int /\ volume \in Nat
<1>1. \A i \in DOMAIN orders : i \in 0 .. lastId
  <2> SUFFICES ASSUME NEW i \in DOMAIN orders PROVE i \in 0 .. lastId
    OBVIOUS
  <2>1. i \in Nat /\ orders[i].price \in Prices /\ lastId \in Nat
    BY DEF IInv, Types
  <2>2. \E s \in Sides : QueuedAt(i, s, orders[i].price)
    BY DEF IInv, Placed
  <2>3. i <= lastId
    BY <2>1, <2>2 DEF IInv, Known
  <2>4. QED
    BY <2>1, <2>3
<1>2. IsFiniteSet(DOMAIN orders)
  <2>1. IsFiniteSet(0 .. lastId)
    BY FS_Interval DEF IInv, Types
  <2>2. DOMAIN orders \in SUBSET (0 .. lastId)
    BY <1>1
  <2>3. QED
    BY <2>1, <2>2, FS_Subset
<1>3. \A i \in DOMAIN orders : orders[i].qty \in Int
  BY DEF IInv, Types
<1>4. Summable(orders, DOMAIN orders)
  BY <1>2, <1>3 DEF Summable
<1>5. QED
  BY <1>4, TotalIsInt DEF Resting, InHand, IInv, Types

LEMMA ConservedInit == Init => Conserved
<1> SUFFICES ASSUME Init PROVE Conserved
  OBVIOUS
<1>1. DOMAIN orders = {}
  BY DEF Init
<1>2. Resting = 0
  BY <1>1, TotalUnfolds, FS_EmptySet DEF Resting, Summable
<1>3. QED
  BY <1>2 DEF Init, Conserved, InHand

LEMMA ConservedCallLimit ==
    ASSUME IInv, Conserved, NEW side \in Sides, NEW price \in Prices, NEW qty \in Qtys,
           CallLimit(side, price, qty)
    PROVE  Conserved'
<1>1. /\ booked' = booked + qty /\ volume' = volume /\ Resting' = Resting
      /\ InHand = 0 /\ InHand' = qty
  BY DEF CallLimit, bookVars, Resting, InHand
<1>2. qty \in Int
  BY BookAssumption
<1>3. QED
  BY <1>1, <1>2, OrdersSummable DEF Conserved

LEMMA ConservedCancelCall ==
    ASSUME IInv, Conserved, NEW id, CancelCall(id)
    PROVE  Conserved'
<1> DEFINE gone == IF id \in DOMAIN orders THEN orders[id].qty ELSE 0
<1>1. /\ booked' = booked - gone /\ volume' = volume
      /\ InHand = 0 /\ InHand' = 0
  BY DEF CancelCall, callVars, InHand
<1>2. Resting' = Resting - gone /\ gone \in Int
  BY OrdersSummable, TotalErased DEF CancelCall, Resting, Summable
<1> HIDE DEF gone
<1>3. QED
  BY <1>1, <1>2, OrdersSummable DEF Conserved

LEMMA ConservedRest == ASSUME IInv, Conserved, Rest PROVE Conserved'
<1>1. /\ booked' = booked /\ volume' = volume
      /\ InHand = taker.qty /\ InHand' = 0
  BY DEF Rest, InHand
<1>2. Resting' = Resting + taker.qty
  <2> DEFINE v == [price |-> taker.price, qty |-> taker.qty]
  <2>1. taker.id \notin DOMAIN orders /\ v.qty = taker.qty /\ v.qty \in Int
    BY DEF IInv, Known, Types, Rest
  <2>2. orders' = With(orders, taker.id, v)
    BY DEF Rest
  <2> HIDE DEF v
  <2>3. QED
    BY <2>1, <2>2, OrdersSummable, TotalAdded DEF Resting
<1>3. QED
  BY <1>1, <1>2, OrdersSummable DEF Conserved

(* A trade: the head gives up what the incoming order gets, and that much  *)
(* is counted for each of the two.                                         *)
LEMMA ConservedFill == ASSUME IInv, Conserved, Fill PROVE Conserved'
<1> DEFINE head == Head(Level)
           m == Min({taker.qty, orders[head].qty})
           left == orders[head].qty - m
<1>1. /\ m \in Nat \ {0} /\ taker.qty - m \in Nat
      /\ orders[head].qty \in Nat /\ head \in DOMAIN orders
  BY Traded DEF Fill, IInv, Types
<1>2. taker.qty \in Int /\ pc = "inner" /\ taker' = [taker EXCEPT !.qty = @ - m]
  BY DEF Fill, InLevel, IInv, Types
<1>3. /\ booked' = booked /\ volume' = volume + m
      /\ InHand = taker.qty /\ InHand' = taker.qty - m
  BY <1>2 DEF Fill, InHand, IInv, Types
<1>4. Resting' = Resting - m
  <2>1. CASE left = 0
    <3>1. orders' = Without(orders, head)
      BY <2>1 DEF Fill, Filled
    <3>2. Resting' = Resting - orders[head].qty
      BY <1>1, <3>1, OrdersSummable, TotalErased DEF Resting
    <3>3. m \in Int /\ orders[head].qty \in Int /\ orders[head].qty - m = 0
      BY <1>1, <2>1
    <3>4. orders[head].qty = m
      BY ONLY <3>3
    <3>5. QED
      BY <3>2, <3>4
  <2>2. CASE left # 0
    <3>1. orders' = [orders EXCEPT ![head].qty = left]
      BY <2>2 DEF Fill, Filled
    <3>2. /\ DOMAIN orders' = DOMAIN orders
          /\ \A i \in DOMAIN orders \ {head} : orders'[i].qty = orders[i].qty
          /\ orders'[head].qty = left /\ left \in Int
      <4>1. left \in Int
        BY <1>1
      <4>2. orders[head] \in [price : Prices, qty : Nat \ {0}] /\ head \in DOMAIN orders
        BY <1>1 DEF IInv, Types
      <4> HIDE DEF head, left
      <4>3. QED
        BY <3>1, <4>1, <4>2
    <3> HIDE DEF head, left
    <3>3. Resting' = Resting - orders[head].qty + left
      BY <1>1, <3>2, OrdersSummable, TotalReplaced DEF Resting
    <3>4. QED
      BY <1>1, <3>3, OrdersSummable DEF left
  <2>3. QED
    BY <2>1, <2>2
<1> HIDE DEF m
<1>5. QED
  BY <1>1, <1>2, <1>3, <1>4, OrdersSummable DEF Conserved

LEMMA ConservedKept ==
    ASSUME Conserved, PickLevel \/ Return \/ SkipCancelled \/ LeaveLevel \/ UNCHANGED vars
    PROVE  Conserved'
<1>1. booked' = booked /\ volume' = volume /\ Resting' = Resting
  BY DEF PickLevel, Return, SkipCancelled, LeaveLevel, vars, bookVars, Resting
<1>2. InHand' = InHand
  BY DEF PickLevel, Return, SkipCancelled, InLevel, LeaveLevel, vars, callVars, InHand
<1>3. QED
  BY <1>1, <1>2 DEF Conserved

(* Whatever is called, and inside a call too: every quantity submitted and *)
(* not cancelled has been traded, counted once for each party, or rests in *)
(* the map of orders, or is what the call at work still holds.  No trade,  *)
(* no lazy cancellation and no dead id in a queue loses or doubles any.    *)
THEOREM ConservationHolds == Spec => []Conservation
<1>1. IInv /\ Conserved /\ [Next]_vars => Conserved'
  <2> SUFFICES ASSUME IInv, Conserved, [Next]_vars PROVE Conserved'
    OBVIOUS
  <2>1. CASE \E side \in Sides, price \in Prices, qty \in Qtys : CallLimit(side, price, qty)
    BY <2>1, ConservedCallLimit
  <2>2. CASE \E id \in 0 .. lastId : CancelCall(id)
    BY <2>2, ConservedCancelCall
  <2>3. CASE Fill \/ Rest
    BY <2>3, ConservedFill, ConservedRest
  <2>4. CASE PickLevel \/ Return \/ SkipCancelled \/ LeaveLevel \/ UNCHANGED vars
    BY <2>4, ConservedKept
  <2>5. QED
    BY <2>1, <2>2, <2>3, <2>4 DEF Next, Engine
<1>2. Conserved => Conservation
  <2>1. MapThenSumSet(LAMBDA i : orders[i].qty, DOMAIN orders) = Resting
    BY TotalIs DEF Resting
  <2>2. QED
    BY <2>1 DEF Conserved, Conservation, InHand
<1>3. Spec => []Conserved
  BY <1>1, ConservedInit, Invariance, PTL DEF Spec, SafeSpec
<1>4. QED
  BY <1>2, <1>3, PTL

-------------------------------------------------------------------------------
(* The checksum: what its two nested loops fold, and in which order.       *)

LEMMA MaxIs ==
    ASSUME NEW S, IsFiniteSet(S), S \subseteq Int, S # {}
    PROVE  Max(S) \in S /\ \A y \in S : Max(S) >= y
  BY FiniteHasGreatest DEF Max

(* A fold that comes to the greatest element last: there is a function     *)
(* that does what the recursive definitions below say.                     *)
Ascends(h, S, F) ==
    \A s \in SUBSET S :
        h[s] = IF s = {} THEN <<>> ELSE F[<<Max(s), h[s \ {Max(s)}]>>]

LEMMA AscendingFold ==
    ASSUME NEW S, IsFiniteSet(S), S \subseteq Int, NEW F \in [S \X Seq(Nat) -> Seq(Nat)]
    PROVE  \E h \in [SUBSET S -> Seq(Nat)] : Ascends(h, S, F)
<1> DEFINE c == [s \in SUBSET S |-> Max(s)]
<1>1. ASSUME NEW s \in SUBSET S, s # {} PROVE c[s] \in s
  BY <1>1, MaxIs, FS_Subset
<1>2. PICK h \in [SUBSET S -> Seq(Nat)] : IsFold(h, S, <<>>, c, F)
  <2>1. <<>> \in Seq(Nat)
    OBVIOUS
  <2> HIDE DEF c
  <2>2. QED
    BY <1>1, <2>1, FoldExists
<1>3. \A s \in SUBSET S : c[s] = Max(s)
  OBVIOUS
<1> HIDE DEF c
<1>4. Ascends(h, S, F)
  BY <1>2, <1>3 DEF IsFold, Ascends
<1>5. QED
  BY <1>4

LEMMA EmptyQueue == <<>> \in Seq(Nat) /\ Increasing(<<>>) /\ Range(<<>>) = {}
  BY DEF Increasing, Range

(* The live orders of a queue, oldest first. *)
LEMMA LiveInIs ==
    ASSUME NEW q \in Seq(Nat), Increasing(q)
    PROVE  /\ LiveIn(q) \in Seq(Nat)
           /\ Increasing(LiveIn(q))
           /\ Range(LiveIn(q)) = Range(q) \cap DOMAIN orders
<1> DEFINE S == DOMAIN q
           Step(x, v) == IF q[x] \in DOMAIN orders THEN Append(v, q[x]) ELSE v
           Loop(g) == g = [s \in SUBSET S |-> IF s = {} THEN <<>>
                                              ELSE Step(Max(s), g[s \ {Max(s)}])]
           g == CHOOSE f : Loop(f)
           F == [xv \in S \X Seq(Nat) |-> Step(xv[1], xv[2])]
<1>1. /\ S = 1 .. Len(q) /\ IsFiniteSet(S) /\ S \subseteq Int
      /\ \A x \in S : q[x] \in Nat
  BY FS_Interval
<1>2. LiveIn(q) = g[S]
  BY DEF LiveIn, FoldLeft, MapThenFoldSet
<1>3. Loop(g)
  <2>1. F \in [S \X Seq(Nat) -> Seq(Nat)]
    BY <1>1
  <2>2. PICK h \in [SUBSET S -> Seq(Nat)] : Ascends(h, S, F)
    <3>1. IsFiniteSet(S) /\ S \subseteq Int
      BY <1>1
    <3> HIDE DEF F, S
    <3>2. QED
      BY ONLY <2>1, <3>1, AscendingFold
  <2>3. ASSUME NEW s \in SUBSET S
        PROVE  h[s] = IF s = {} THEN <<>> ELSE Step(Max(s), h[s \ {Max(s)}])
    <3>1. CASE s = {}
      BY <2>2, <3>1 DEF Ascends
    <3>2. CASE s # {}
      <4>1. Max(s) \in S /\ h[s \ {Max(s)}] \in Seq(Nat)
        <5> HIDE DEF S
        <5>1. QED
          BY <1>1, <3>2, MaxIs, FS_Subset
      <4>2. F[<<Max(s), h[s \ {Max(s)}]>>] = Step(Max(s), h[s \ {Max(s)}])
        <5> HIDE DEF S
        <5>1. QED
          BY <4>1
      <4> HIDE DEF F, S, Step
      <4>3. QED
        BY <2>2, <3>2, <4>2 DEF Ascends
    <3>3. QED
      BY <3>1, <3>2
  <2>4. Loop(h)
    <3>1. h = [s \in SUBSET S |-> h[s]]
      <4> HIDE DEF S
      <4>1. QED
        OBVIOUS
    <3> HIDE DEF S, Step
    <3>2. QED
      BY <2>3, <3>1
  <2> HIDE DEF Loop
  <2>5. QED
    BY <2>4
<1>4. ASSUME NEW s \in SUBSET S
      PROVE  g[s] = IF s = {} THEN <<>> ELSE Step(Max(s), g[s \ {Max(s)}])
  <2> HIDE DEF g, S, Step
  <2>1. QED
    BY <1>3
<1> DEFINE Right(s) == /\ g[s] \in Seq(Nat) /\ Increasing(g[s])
                       /\ Range(g[s]) = {q[k] : k \in s} \cap DOMAIN orders
           Good == {s \in SUBSET S : Right(s)}
<1>5. ASSUME NEW s \in SUBSET S, \A u \in SUBSET s : u # s => u \in Good
      PROVE  s \in Good
  <2> DEFINE m == Max(s)
             u == s \ {m}
  <2>1. CASE s = {}
    <3>1. g[s] = <<>>
      <4> HIDE DEF g
      <4>1. QED
        BY <1>4, <2>1
    <3>2. {q[k] : k \in s} = {}
      BY <2>1
    <3> HIDE DEF g
    <3>3. QED
      BY <3>1, <3>2, EmptyQueue
  <2>2. CASE s # {}
    <3>1. m \in s /\ \A k \in s : m >= k
      <4> HIDE DEF S
      <4>1. QED
        BY <1>1, <2>2, MaxIs, FS_Subset
    <3>2. Right(u) /\ g[s] = Step(m, g[u])
      <4>1. u \in SUBSET s /\ u # s
        BY <3>1
      <4> HIDE DEF g, Step, Right, m, S
      <4>2. u \in Good
        BY <1>5, <4>1
      <4>3. g[s] = Step(m, g[u])
        BY <1>4, <2>2 DEF m
      <4>4. QED
        BY <4>2, <4>3
    <3>3. q[m] \in Nat /\ \A i \in Range(g[u]) : i < q[m]
      <4>1. \A k \in u : k \in S /\ k < m /\ m \in S
        BY <1>1, <3>1
      <4>2. \A k \in u : q[k] < q[m]
        <5> HIDE DEF u, m
        <5>1. QED
          BY <4>1 DEF Increasing
      <4>3. q[m] \in Nat
        BY <1>1, <3>1
      <4> HIDE DEF g, u, m
      <4>4. QED
        BY <3>2, <4>2, <4>3
    <3>4. {q[k] : k \in s} = {q[k] : k \in u} \cup {q[m]}
      BY <3>1
    <3> HIDE DEF g, u, m, S
    <3>5. CASE q[m] \in DOMAIN orders
      <4>1. g[s] = Append(g[u], q[m])
        BY <3>2, <3>5
      <4>2. Range(g[s]) = Range(g[u]) \cup {q[m]} /\ g[s] \in Seq(Nat) /\ Increasing(g[s])
        BY <3>2, <3>3, <4>1, AppendQueue
      <4>3. QED
        BY <3>2, <3>4, <3>5, <4>2
    <3>6. CASE q[m] \notin DOMAIN orders
      <4>1. g[s] = g[u]
        BY <3>2, <3>6
      <4>2. QED
        BY <3>2, <3>4, <3>6, <4>1
    <3>7. QED
      BY <3>5, <3>6
  <2>3. QED
    BY <2>1, <2>2
<1>6. S \in Good
  <2>1. IsFiniteSet(S) /\ S \in SUBSET S
    BY <1>1
  <2> HIDE DEF Good, S
  <2>2. QED
    BY ONLY <1>5, <2>1, SubsetInduction
<1>7. Range(q) = {q[k] : k \in S}
  BY DEF Range
<1> HIDE DEF g, S
<1>8. QED
  BY <1>2, <1>6, <1>7

(* One sequence after another. *)
Ordered(R, a) == \A j, k \in DOMAIN a : j < k => <<a[j], a[k]>> \in R

LEMMA Joined ==
    ASSUME NEW a \in Seq(Nat), NEW b \in Seq(Nat), NEW R, Ordered(R, a), Ordered(R, b),
           \A i \in Range(a) : \A j \in Range(b) : <<i, j>> \in R
    PROVE  /\ a \o b \in Seq(Nat)
           /\ Range(a \o b) = Range(a) \cup Range(b)
           /\ Ordered(R, a \o b)
<1> DEFINE r == a \o b
           n == Len(a)
<1>1. /\ r \in Seq(Nat) /\ n \in Nat /\ Len(b) \in Nat
      /\ DOMAIN a = 1 .. n /\ DOMAIN b = 1 .. Len(b) /\ DOMAIN r = 1 .. n + Len(b)
      /\ \A k \in DOMAIN r : r[k] = IF k <= n THEN a[k] ELSE b[k - n]
  OBVIOUS
<1> HIDE DEF r, n
<1>2. ASSUME NEW k \in DOMAIN r
      PROVE  \/ k \in DOMAIN a /\ k <= n /\ r[k] = a[k] /\ r[k] \in Range(a)
             \/ k - n \in DOMAIN b /\ k > n /\ r[k] = b[k - n] /\ r[k] \in Range(b)
  BY <1>1 DEF Range
<1>3. Ordered(R, r)
  <2> SUFFICES ASSUME NEW j \in DOMAIN r, NEW k \in DOMAIN r, j < k
               PROVE  <<r[j], r[k]>> \in R
    BY DEF Ordered
  <2>1. j \in Int /\ k \in Int /\ n \in Int
    BY <1>1
  <2>2. CASE k <= n
    <3>1. j \in DOMAIN a /\ k \in DOMAIN a /\ r[j] = a[j] /\ r[k] = a[k]
      BY <1>1, <2>1, <2>2
    <3>2. QED
      BY <3>1 DEF Ordered
  <2>3. CASE j <= n /\ k > n
    <3>1. r[j] \in Range(a) /\ r[k] \in Range(b)
      BY <1>2, <2>1, <2>3
    <3>2. QED
      BY <3>1
  <2>4. CASE j > n
    <3>1. /\ j - n \in DOMAIN b /\ k - n \in DOMAIN b /\ j - n < k - n
          /\ r[j] = b[j - n] /\ r[k] = b[k - n]
      <4>1. j - n \in Int /\ k - n \in Int /\ k > n /\ j - n < k - n
        BY <2>1, <2>4
      <4>2. j - n \in DOMAIN b /\ r[j] = b[j - n]
        BY <1>2, <2>1, <2>4
      <4>3. k - n \in DOMAIN b /\ r[k] = b[k - n]
        BY <1>2, <2>1, <4>1
      <4>4. QED
        BY <4>1, <4>2, <4>3
    <3> HIDE DEF n
    <3>2. QED
      BY <3>1 DEF Ordered
  <2>5. QED
    BY <2>1, <2>2, <2>3, <2>4
<1>4. Range(r) = Range(a) \cup Range(b)
  <2>1. ASSUME NEW x \in Range(r) PROVE x \in Range(a) \cup Range(b)
    BY <1>2 DEF Range
  <2>2. ASSUME NEW x \in Range(a) PROVE x \in Range(r)
    <3>1. PICK k \in DOMAIN a : x = a[k]
      BY DEF Range
    <3>2. k \in DOMAIN r /\ r[k] = a[k]
      BY <1>1
    <3>3. QED
      BY <3>1, <3>2 DEF Range
  <2>3. ASSUME NEW x \in Range(b) PROVE x \in Range(r)
    <3>1. PICK k \in DOMAIN b : x = b[k]
      BY DEF Range
    <3>2. k + n \in DOMAIN r /\ ~(k + n <= n) /\ (k + n) - n = k
      BY <1>1
    <3>3. r[k + n] = b[k]
      BY <1>1, <3>2
    <3>4. QED
      BY <3>1, <3>2, <3>3 DEF Range
  <2>4. QED
    BY <2>1, <2>2, <2>3
<1>5. QED
  BY <1>1, <1>3, <1>4 DEF r

Precedes == {ij \in (DOMAIN orders) \X (DOMAIN orders) : Earlier(ij[1], ij[2])}

LEMMA PairOf ==
    ASSUME NEW A, NEW i \in A, NEW j \in A
    PROVE  <<i, j>> \in A \X A /\ <<i, j>>[1] = i /\ <<i, j>>[2] = j
  OBVIOUS

LEMMA PrecedesIs ==
    \A i, j \in DOMAIN orders : (<<i, j>> \in Precedes <=> Earlier(i, j))
<1> SUFFICES ASSUME NEW i \in DOMAIN orders, NEW j \in DOMAIN orders
             PROVE  <<i, j>> \in Precedes <=> Earlier(i, j)
  OBVIOUS
<1> DEFINE ij == <<i, j>>
<1>1. ij \in (DOMAIN orders) \X (DOMAIN orders) /\ ij[1] = i /\ ij[2] = j
  BY PairOf
<1> HIDE DEF ij
<1>2. ij \in Precedes <=> Earlier(i, j)
  BY <1>1 DEF Precedes, Earlier, SideOf
<1>3. QED
  BY <1>2 DEF ij

(* The live orders in some of the levels of a side. *)
LiveAt(side, ps) == {i \in DOMAIN orders : \E p \in ps : QueuedAt(i, side, p)}

LEMMA QueuedOnce ==
    ASSUME IInv, NEW side \in Sides, NEW p \in DOMAIN levels[side], NEW i \in LiveAt(side, {p})
    PROVE  i \in DOMAIN orders /\ i \in Nat /\ SideOf(i) = side /\ orders[i].price = p
<1>1. i \in DOMAIN orders /\ QueuedAt(i, side, p) /\ p \in Prices /\ i \in Nat
  BY DEF LiveAt, IInv, LevelsOK, Types
<1>2. PICK t \in Sides : QueuedAt(i, t, orders[i].price)
  BY <1>1 DEF IInv, Placed
<1>3. orders[i].price \in Prices
  BY <1>1 DEF IInv, Types
<1>4. t = side /\ orders[i].price = p
  BY <1>1, <1>2, <1>3 DEF IInv, Unique
<1>5. QED
  BY <1>1, <1>2, <1>4, SideIs DEF SidesRight

LEMMA LevelFolded ==
    ASSUME IInv, NEW side \in Sides, NEW p \in DOMAIN levels[side]
    PROVE  LET ids == LiveIn(levels[side][p])
           IN  /\ ids \in Seq(Nat)
               /\ Range(ids) = LiveAt(side, {p})
               /\ Ordered(Precedes, ids)
<1> DEFINE ids == LiveIn(levels[side][p])
<1>1. /\ ids \in Seq(Nat) /\ Increasing(ids)
      /\ Range(ids) = Range(levels[side][p]) \cap DOMAIN orders
  BY LiveInIs DEF IInv, LevelsOK
<1> HIDE DEF ids
<1>2. Range(ids) = LiveAt(side, {p})
  BY <1>1 DEF LiveAt, QueuedAt
<1>3. Ordered(Precedes, ids)
  <2> SUFFICES ASSUME NEW j \in DOMAIN ids, NEW k \in DOMAIN ids, j < k
               PROVE  <<ids[j], ids[k]>> \in Precedes
    BY DEF Ordered
  <2>1. ids[j] \in LiveAt(side, {p}) /\ ids[k] \in LiveAt(side, {p}) /\ ids[j] < ids[k]
    BY <1>1, <1>2 DEF Range, Increasing
  <2>2. QED
    BY <2>1, QueuedOnce, PrecedesIs DEF Earlier
<1>4. QED
  BY <1>1, <1>2, <1>3 DEF ids

(* A side: its levels, lowest price first. *)
LEMMA SideFolded ==
    ASSUME IInv, NEW side \in Sides
    PROVE  /\ FoldSide(side) \in Seq(Nat)
           /\ Range(FoldSide(side)) = LiveAt(side, DOMAIN levels[side])
           /\ Ordered(Precedes, FoldSide(side))
<1> DEFINE S == DOMAIN levels[side]
           Folded(p) == LiveIn(levels[side][p])
           Loop(g) == g = [s \in SUBSET S |-> IF s = {} THEN <<>>
                                              ELSE g[s \ {Max(s)}] \o Folded(Max(s))]
           g == CHOOSE f : Loop(f)
           F == [xv \in S \X Seq(Nat) |-> xv[2] \o Folded(xv[1])]
<1>1. /\ IsFiniteSet(S) /\ S \subseteq Int
      /\ \A p \in S : Folded(p) \in Seq(Nat)
  BY LevelFolded, BookAssumption DEF IInv, LevelsOK
<1>2. FoldSide(side) = g[S]
  BY DEF FoldSide, MapThenFoldSet
<1> HIDE DEF S, Folded
<1>3. Loop(g)
  <2>1. F \in [S \X Seq(Nat) -> Seq(Nat)]
    <3>1. ASSUME NEW a \in Seq(Nat), NEW b \in Seq(Nat) PROVE a \o b \in Seq(Nat)
      OBVIOUS
    <3>2. \A xv \in S \X Seq(Nat) : xv[2] \in Seq(Nat) /\ Folded(xv[1]) \in Seq(Nat)
      BY <1>1
    <3>3. \A xv \in S \X Seq(Nat) : xv[2] \o Folded(xv[1]) \in Seq(Nat)
      BY <3>1, <3>2
    <3>4. QED
      BY <3>3
  <2>2. PICK h \in [SUBSET S -> Seq(Nat)] : Ascends(h, S, F)
    <3>1. IsFiniteSet(S) /\ S \subseteq Int
      BY <1>1
    <3> HIDE DEF F
    <3>2. QED
      BY ONLY <2>1, <3>1, AscendingFold
  <2>3. ASSUME NEW s \in SUBSET S
        PROVE  h[s] = IF s = {} THEN <<>> ELSE h[s \ {Max(s)}] \o Folded(Max(s))
    <3>1. CASE s = {}
      BY <2>2, <3>1 DEF Ascends
    <3>2. CASE s # {}
      <4>1. Max(s) \in S /\ h[s \ {Max(s)}] \in Seq(Nat)
        BY <1>1, <3>2, MaxIs, FS_Subset
      <4>2. F[<<Max(s), h[s \ {Max(s)}]>>] = h[s \ {Max(s)}] \o Folded(Max(s))
        BY <4>1
      <4> HIDE DEF F
      <4>3. QED
        BY <2>2, <3>2, <4>2 DEF Ascends
    <3>3. QED
      BY <3>1, <3>2
  <2>4. Loop(h)
    <3>1. h = [s \in SUBSET S |-> h[s]]
      OBVIOUS
    <3>2. QED
      BY <2>3, <3>1
  <2> HIDE DEF Loop
  <2>5. QED
    BY <2>4
<1>4. ASSUME NEW s \in SUBSET S
      PROVE  g[s] = IF s = {} THEN <<>> ELSE g[s \ {Max(s)}] \o Folded(Max(s))
  <2> HIDE DEF g
  <2>1. QED
    BY <1>3
<1> HIDE DEF g
<1> DEFINE Right(s) == /\ g[s] \in Seq(Nat) /\ Range(g[s]) = LiveAt(side, s)
                       /\ Ordered(Precedes, g[s])
           Good == {s \in SUBSET S : Right(s)}
<1>5. ASSUME NEW s \in SUBSET S, \A u \in SUBSET s : u # s => u \in Good
      PROVE  s \in Good
  <2> DEFINE m == Max(s)
             u == s \ {m}
             b == Folded(m)
  <2>1. CASE s = {}
    <3>1. g[s] = <<>>
      BY <1>4, <2>1
    <3>2. LiveAt(side, s) = {} /\ Ordered(Precedes, <<>>)
      BY <2>1 DEF LiveAt, Ordered
    <3>3. QED
      BY <3>1, <3>2, EmptyQueue
  <2>2. CASE s # {}
    <3>1. m \in s /\ m \in S /\ \A p \in s : m >= p
      BY <1>1, <2>2, MaxIs, FS_Subset
    <3>2. Right(u) /\ g[s] = g[u] \o b
      <4>1. u \in SUBSET s /\ u # s
        BY <3>1
      <4> HIDE DEF Right, m
      <4>2. u \in Good
        BY <1>5, <4>1
      <4>3. g[s] = g[u] \o b
        BY <1>4, <2>2 DEF m
      <4>4. QED
        BY <4>2, <4>3
    <3>3. b \in Seq(Nat) /\ Range(b) = LiveAt(side, {m}) /\ Ordered(Precedes, b)
      BY <3>1, LevelFolded DEF S, Folded
    <3>4. ASSUME NEW i \in LiveAt(side, u), NEW j \in LiveAt(side, {m})
          PROVE  <<i, j>> \in Precedes
      <4>1. PICK p \in u : i \in LiveAt(side, {p})
        BY DEF LiveAt
      <4>2. p \in S /\ p < m
        <5>1. p \in S /\ p # m /\ m >= p /\ p \in Int /\ m \in Int
          BY <1>1, <3>1
        <5>2. QED
          BY <5>1
      <4>3. /\ i \in DOMAIN orders /\ SideOf(i) = side /\ orders[i].price = p
            /\ j \in DOMAIN orders /\ SideOf(j) = side /\ orders[j].price = m
        BY <3>1, <4>1, <4>2, QueuedOnce DEF S
      <4>4. QED
        BY <4>2, <4>3, PrecedesIs DEF Earlier
    <3>5. LiveAt(side, s) = LiveAt(side, u) \cup LiveAt(side, {m})
      BY <3>1 DEF LiveAt
    <3> HIDE DEF u, m, b
    <3>6. /\ g[u] \o b \in Seq(Nat) /\ Range(g[u] \o b) = Range(g[u]) \cup Range(b)
          /\ Ordered(Precedes, g[u] \o b)
      <4>1. \A i \in Range(g[u]) : \A j \in Range(b) : <<i, j>> \in Precedes
        BY <3>2, <3>3, <3>4
      <4>2. QED
        BY ONLY <3>2, <3>3, <4>1, Joined
    <3>7. QED
      BY <3>2, <3>3, <3>5, <3>6
  <2>3. QED
    BY <2>1, <2>2
<1>6. S \in Good
  <2> HIDE DEF Good
  <2>1. QED
    BY <1>1, <1>5, SubsetInduction
<1>7. QED
  BY <1>2, <1>6 DEF S

(* Whatever is in the book, dead ids in its queues included: checksum()    *)
(* mixes in every resting order once, bids before asks, prices ascending,  *)
(* oldest first.  This is all it depends on: two books with the same       *)
(* resting orders have the same checksum, in whatever way each stores them.*)
THEOREM ChecksumCanonicalHolds == Spec => []ChecksumCanonical
<1>1. IInv => ChecksumCanonical
  <2> SUFFICES ASSUME IInv PROVE ChecksumCanonical
    OBVIOUS
  <2> DEFINE ids == FoldSide("bid") \o FoldSide("ask")
             what(i) == <<i, orders[i].price, orders[i].qty>>
  <2>1. ids \in Seq(Nat) /\ Ordered(Precedes, ids) /\ Range(ids) = DOMAIN orders
    <3>1. \A i : i \in LiveAt("bid", DOMAIN levels["bid"]) <=>
                     i \in DOMAIN orders /\ SideOf(i) = "bid"
      BY SideIs, QueuedOnce DEF LiveAt, SidesRight, QueuedAt, Sides
    <3>2. \A i : i \in LiveAt("ask", DOMAIN levels["ask"]) <=>
                     i \in DOMAIN orders /\ SideOf(i) = "ask"
      BY SideIs, QueuedOnce DEF LiveAt, SidesRight, QueuedAt, Sides
    <3>3. \A i \in LiveAt("bid", DOMAIN levels["bid"]) :
             \A j \in LiveAt("ask", DOMAIN levels["ask"]) : <<i, j>> \in Precedes
      BY <3>1, <3>2, PrecedesIs DEF Earlier
    <3>4. ids \in Seq(Nat) /\ Ordered(Precedes, ids)
          /\ Range(ids) = LiveAt("bid", DOMAIN levels["bid"])
                              \cup LiveAt("ask", DOMAIN levels["ask"])
      BY <3>3, SideFolded, Joined DEF Sides
    <3>5. \A i : SideOf(i) = "bid" \/ SideOf(i) = "ask"
      BY DEF SideOf
    <3> HIDE DEF ids
    <3>6. QED
      BY <3>1, <3>2, <3>4, <3>5
  <2>2. Checksum = [k \in DOMAIN ids |-> what(ids[k])]
    BY DEF Checksum
  <2> HIDE DEF ids
  <2>3. Range(Checksum) = {what(i) : i \in DOMAIN orders}
    BY <2>1, <2>2 DEF Range
  <2>4. ASSUME NEW j \in DOMAIN Checksum, NEW k \in DOMAIN Checksum, j < k
        PROVE  Earlier(Checksum[j][1], Checksum[k][1])
    <3>1. j \in DOMAIN ids /\ k \in DOMAIN ids
      BY <2>2
    <3>2. <<ids[j], ids[k]>> \in Precedes
      BY <2>1, <2>4, <3>1 DEF Ordered
    <3>3. Earlier(ids[j], ids[k])
      BY <2>1, <3>1, <3>2, PrecedesIs DEF Range
    <3>4. Checksum[j][1] = ids[j] /\ Checksum[k][1] = ids[k]
      BY <2>2, <3>1
    <3>5. QED
      BY <3>3, <3>4
  <2>5. QED
    BY <2>3, <2>4 DEF ChecksumCanonical
<1>2. QED
  BY <1>1, Invariance, PTL

===============================================================================
