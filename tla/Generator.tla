------------------------------- MODULE Generator ------------------------------
(***************************************************************************)
(* The generator as it computes: SplitMix64 and Gen::next_op of            *)
(* cpp/workload.hpp beside SplitMix64.java and Workload.java.  C++ (like   *)
(* Go and Rust) works on unsigned words; Java has only signed ones, on     *)
(* which it has to do unsigned arithmetic: the same bits mean a negative   *)
(* number when the top one is set.                                         *)
(*                                                                         *)
(* The 64-bit word is scaled down to Bits: a shift by n is one by          *)
(* n * Bits / 64, the constants keep their low bits.  The spans are        *)
(* Workload's constants, and its variables are the C++ generator's; this   *)
(* module adds the state of SplitMix64 and the Java generator.             *)
(***************************************************************************)
EXTENDS Workload, Bitwise

CONSTANTS
    Bits,           \* 64
    WalkEvery,      \* 7: one draw in so many moves the mid price
    Kinds,          \* 100: the draw's remainder that decides the kind ...
    Limits,         \* 85: ... limit orders below this one ...
    Passive         \* 55: ... and passive ones below this one

ASSUME GeneratorAssumption ==
    /\ Bits \in 8 .. 15     \* TLC's integers hold no larger products
    /\ WalkEvery \in Nat \ {0} /\ Kinds \in Nat \ {0}
    /\ 0 <= Passive /\ Passive <= Limits /\ Limits <= Kinds

VARIABLES
    rng,        \* SplitMix64::state of the C++ generator
    java        \* the Java generator: state, mid, lastId and out-params

genVars == <<walkVars, rng, java>>

-------------------------------------------------------------------------------
(* Words.                                                                  *)

Modulus == 2 ^ Bits
By(n) == (n * Bits) \div 64

(* The low bits of 0x9E3779B97F4A7C15, 0xBF58476D1CE4E5B9 and              *)
(* 0x94D049BB133111EB.                                                     *)
Gamma == 31765 % Modulus
Mix1  == 58809 % Modulus
Mix2  ==  4587 % Modulus

(* The value of a signed word, and the bits of one. *)
Signed(w) == IF w >= Modulus \div 2 THEN w - Modulus ELSE w
BitsOf(x) == x % Modulus

-------------------------------------------------------------------------------
(* C++: unsigned words.                                                    *)

XorShift(z, n) == z ^^ shiftR(z, By(n))

(* The draw made from a state that has been advanced. *)
Draw(state) ==
    LET z1 == (XorShift(state, 30) * Mix1) % Modulus
        z2 == (XorShift(z1, 27) * Mix2) % Modulus
    IN  XorShift(z2, 31)

(* A faulty remainder, of one more than the span. *)
FieldOneMore(r, n, span) == shiftR(r, By(n)) % (span + 1)
Field(r, n, span) == shiftR(r, By(n)) % span

Walk(m, r) == IF r % WalkEvery = 0 THEN Clamp(m + Field(r, 40, 3) - 1) ELSE m

(* The operation next_op makes of the draw r, the mid price m after the    *)
(* walk, and the id `last' of the last limit order.                        *)
OpOf(r, m, last) ==
    LET c == r % Kinds
        side == IF Field(r, 8, 2) = 0 THEN "bid" ELSE "ask"
        aggressive == c >= Passive
        offset == IF aggressive THEN Field(r, 16, AggrSpan) ELSE 1 + Field(r, 16, PassSpan)
        back == Field(r, 16, BackSpan)
    IN  IF c < Limits
        THEN [kind |-> "limit", side |-> side, qty |-> 1 + Field(r, 32, QtyMax), id |-> last + 1,
              price |-> IF (side = "bid") # aggressive THEN m - offset ELSE m + offset]
        ELSE [kind |-> "cancel", id |-> Saturated(last, back)]

-------------------------------------------------------------------------------
(* Java: signed words.  Sums and products wrap around.                     *)

(* A faulty shift, `>>': it copies the sign into the top bits. *)
ShiftKeepingSign(x, n) == x \div 2 ^ By(n)

(* `>>>': it shifts zeros in. *)
ShiftUnsigned(x, n) == Signed(shiftR(BitsOf(x), By(n)))

(* Long.remainderUnsigned *)
RemainderUnsigned(x, m) == BitsOf(x) % m

JavaXorShift(z, n) == Signed(BitsOf(z) ^^ BitsOf(ShiftUnsigned(z, n)))

JavaDraw(state) ==
    LET z1 == Signed(BitsOf(JavaXorShift(state, 30) * Signed(Mix1)))
        z2 == Signed(BitsOf(JavaXorShift(z1, 27) * Signed(Mix2)))
    IN  JavaXorShift(z2, 31)

JavaField(r, n, span) == RemainderUnsigned(ShiftUnsigned(r, n), span)

JavaWalk(m, r) ==
    IF RemainderUnsigned(r, WalkEvery) = 0 THEN Clamp(m + JavaField(r, 40, 3) - 1) ELSE m

JavaOp(r, m, last) ==
    LET c == RemainderUnsigned(r, Kinds)
        side == IF BitsOf(ShiftUnsigned(r, 8)) % 2 = 0 THEN "bid" ELSE "ask"
        aggressive == c >= Passive
        offset == IF aggressive THEN JavaField(r, 16, AggrSpan) ELSE 1 + JavaField(r, 16, PassSpan)
        back == JavaField(r, 16, BackSpan)
    IN  IF c < Limits
        THEN [kind |-> "limit", side |-> side, qty |-> 1 + JavaField(r, 32, QtyMax), id |-> last + 1,
              price |-> IF (side = "bid") # aggressive THEN m - offset ELSE m + offset]
        ELSE [kind |-> "cancel", id |-> Saturated(last, back)]

-------------------------------------------------------------------------------

(* Any seed; the harnesses use 42. *)
GenInit ==
    /\ WalkInit
    /\ rng \in 0 .. Modulus - 1
    /\ java = [state |-> Signed(rng), mid |-> MidStart, lastId |-> 0, op |-> [kind |-> "none"]]

LastIdAfter(o, last) == IF o.kind = "limit" THEN o.id ELSE last

(* One call of next_op. *)
NextOp ==
    LET state == (rng + Gamma) % Modulus
        r == Draw(state)
    IN  /\ rng' = state
        /\ mid' = Walk(mid, r)
        /\ op' = OpOf(r, mid', last_id)
        /\ last_id' = LastIdAfter(op', last_id)
        /\ calls' = calls + 1

(* One call of nextOp. *)
JavaNextOp ==
    LET state == Signed(BitsOf(java.state + Signed(Gamma)))
        r == JavaDraw(state)
        m == JavaWalk(java.mid, r)
        o == JavaOp(r, m, java.lastId)
    IN  java' = [state |-> state, mid |-> m, lastId |-> LastIdAfter(o, java.lastId), op |-> o]

GenNext ==
    \/ calls < TotalOps /\ NextOp /\ JavaNextOp
    \/ calls = TotalOps /\ UNCHANGED genVars

GenSpec == GenInit /\ [][GenNext]_genVars

-------------------------------------------------------------------------------
(* Properties *)

(* All implementations consume the same stream (CONFORMANCE, section 1 and *)
(* 2: all arithmetic is unsigned, shifts fill with zeros): from every seed *)
(* the Java generator makes the operations the C++ one makes.              *)
SameStream == java.op = op /\ java.mid = mid /\ java.lastId = last_id

(* What next_op computes from its draw stays within what Workload allows,  *)
(* so that the bounds proved there - prices on the ladder, ids in the      *)
(* order array - hold of the generator as it is.                           *)
ImplementsWorkload == WalkSpec

===============================================================================
