------------------------------- MODULE Workload --------------------------------
(***************************************************************************)
(* The operation generator (Gen in cpp/workload.hpp) and the bounds on its *)
(* output that the tuned book's arrays rest on without checking: a price   *)
(* indexes the ladder, an id the order array.                              *)
(*                                                                         *)
(* The random number r is left out: every remainder and bit field taken    *)
(* from it is an arbitrary value of its range.  They are independent here, *)
(* which allows every operation the program can generate and more.         *)
(***************************************************************************)
EXTENDS Integers

CONSTANTS
    MidMin, MidMax, MidStart,   \* 500, 1500 and 1000
    AggrSpan, PassSpan,         \* 10 and 20: offsets from the mid price
    QtyMax,                     \* 100
    BackSpan,                   \* 5000: how far back a cancel may reach
    LadderSize,                 \* LADDER_LEN of the tuned book, 4096
    TotalOps                    \* calls of next_op in a run

ASSUME WorkloadAssumption ==
    /\ {AggrSpan, PassSpan, QtyMax, BackSpan} \subseteq Nat \ {0}
    /\ MidMin \in Nat /\ MidMax \in Nat /\ MidStart \in MidMin .. MidMax
    /\ AggrSpan <= PassSpan
    /\ PassSpan <= MidMin
    /\ LadderSize \in Nat /\ MidMax + PassSpan < LadderSize
    /\ TotalOps \in Nat

VARIABLES
    mid,        \* the random walk the prices follow
    last_id,    \* id of the last limit order
    op,         \* the out-parameters of next_op
    calls       \* calls of next_op so far

walkVars == <<mid, last_id, op, calls>>

WalkInit ==
    /\ mid = MidStart
    /\ last_id = 0
    /\ op = [kind |-> "none"]
    /\ calls = 0

(* A faulty walk: nothing keeps it in its range. *)
Unclamped(m) == m

(* std::clamp *)
Clamp(m) == IF m < MidMin THEN MidMin ELSE IF m > MidMax THEN MidMax ELSE m

(* On some calls the mid price moves by one step, or by none. *)
NextMid(step) == Clamp(mid + step)

(* A limit order around the mid price as it is after the walk: an          *)
(* aggressive one on the other side's half, a passive one on its own.      *)
LimitOp ==
    /\ calls < TotalOps
    /\ \E step \in -1 .. 1, side \in {"bid", "ask"}, qty \in 1 .. QtyMax,
          aggressive \in BOOLEAN :
         \E offset \in IF aggressive THEN 0 .. AggrSpan - 1 ELSE 1 .. PassSpan :
           /\ mid' = NextMid(step)
           /\ op' = [kind |-> "limit", side |-> side, qty |-> qty, id |-> last_id + 1,
                     price |-> IF (side = "bid") # aggressive
                               THEN mid' - offset ELSE mid' + offset]
    /\ last_id' = last_id + 1
    /\ calls' = calls + 1

(* A faulty subtraction: it does not saturate. *)
Reach(last, back) == last - back

(* Cancels aim at a recent id, or at 0 if there are not that many. *)
Saturated(last, back) == IF last > back THEN last - back ELSE 0

CancelOp ==
    /\ calls < TotalOps
    /\ \E step \in -1 .. 1, back \in 0 .. BackSpan - 1 :
         /\ mid' = NextMid(step)
         /\ op' = [kind |-> "cancel", id |-> Saturated(last_id, back)]
    /\ calls' = calls + 1
    /\ UNCHANGED last_id

(* The run is over. *)
Ended == calls = TotalOps /\ UNCHANGED walkVars

WalkNext == LimitOp \/ CancelOp \/ Ended

WalkSpec == WalkInit /\ [][WalkNext]_walkVars

-------------------------------------------------------------------------------
(* Properties *)

(* Every price generated indexes a level of the ladder. *)
OnLadder == op.kind = "limit" => op.price \in 0 .. LadderSize - 1

(* Every id generated indexes the order array of TotalOps + 2 slots; a     *)
(* cancel never names an order still to come, and slot 0 is no order's.    *)
InOrderArray ==
    /\ op.kind = "limit" => op.id \in 1 .. calls
    /\ op.kind = "cancel" => op.id \in 0 .. last_id
    /\ last_id <= calls /\ calls <= TotalOps

===============================================================================
