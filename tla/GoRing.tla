-------------------------------- MODULE GoRing --------------------------------
(***************************************************************************)
(* The Go engine's ring (go/ring.go) and the two goroutines run() connects *)
(* with it (go/harness.go).  It differs from the C++ one in what can go    *)
(* wrong: Go's atomics are sequentially consistent, so a load returns the  *)
(* last value stored; there is no cached cursor; the consumer loads the    *)
(* producer cursor for each event and hands each slot back on its own; and *)
(* the run ends by a message on a channel, not by joining the consumer.    *)
(*                                                                         *)
(* The slots are plain memory.  A load of a cursor synchronizes with the   *)
(* store of the value it returns: what the storing goroutine had read or   *)
(* written by then (handed, filled) happens before what the loading one    *)
(* does next (pSees, cSees).  As in CppRing an event is its sequence       *)
(* number and a slot's field holds the number of the event it is for.      *)
(***************************************************************************)
EXTENDS Integers, Sequences

CONSTANTS
    RingSize,   \* ringSize
    TotalOps,   \* totalOps
    WarmupOps   \* warmupOps

ASSUME GoRingAssumption ==
    /\ RingSize \in Nat \ {0}
    /\ TotalOps \in Nat
    /\ WarmupOps \in 0 .. TotalOps

VARIABLES
    paced,      \* interval > 0: operations have a due time and are stamped
    buf,        \* the slots
    prod,       \* the producer cursor
    filled,     \* events completely written when prod was last stored
    cons,       \* the consumer cursor
    handed,     \* events completely read when cons was last stored
    ppc,        \* where the goroutine that runs run() is
    pSees,      \* events whose reads happen before the producer's next step
    cpc,        \* where the consumer goroutine is
    seq,        \* its local seq
    cSees,      \* events whose writes happen before the consumer's next step
    applied,    \* the events its switch dispatched, in order
    hist,       \* the stamps of the samples recorded
    done,       \* the channel of capacity one
    rep         \* the report received: operations covered, and samples

producerVars == <<paced, prod, filled, ppc, pSees>>
consumerVars == <<cons, handed, cpc, seq, cSees, applied, hist>>
vars == <<buf, producerVars, consumerVars, done, rep>>

ReportEvent == TotalOps + 1
Idx(s) == s % RingSize

(* Field `ts' of event s: zero unless the run is paced and past its warmup. *)
Stamp(s) == IF paced /\ WarmupOps < s /\ s <= TotalOps THEN s ELSE 0

NoReport == [ops |-> <<>>, samples |-> <<>>]

Init ==
    /\ paced \in BOOLEAN
    /\ buf = [i \in 0 .. RingSize - 1 |-> [kind |-> 0, op |-> 0, ts |-> 0]]
    /\ prod = 0 /\ filled = 0 /\ cons = 0 /\ handed = 0
    /\ ppc = "claim" /\ pSees = 0
    /\ cpc = "poll" /\ seq = 0 /\ cSees = 0
    /\ applied = <<>> /\ hist = <<>> /\ done = <<>> /\ rep = NoReport

-------------------------------------------------------------------------------
(* The producer.                                                           *)

(* A faulty test: one slot too generous. *)
HasRoomOffByOne(next, c) == next - c <= RingSize + 1

HasRoom(next, c) == next - c <= RingSize

(* claim(): one iteration of its loop; without room it yields and retries. *)
Claim ==
    /\ ppc = "claim"
    /\ pSees' = handed
    /\ ppc' = IF HasRoom(prod + 1, cons) THEN "kind" ELSE "claim"
    /\ UNCHANGED <<paced, buf, prod, filled, consumerVars, done, rep>>

WriteKind ==
    /\ ppc = "kind"
    /\ buf' = [buf EXCEPT ![Idx(prod + 1)].kind = prod + 1]
    /\ ppc' = IF prod + 1 = ReportEvent THEN "ts" ELSE "op"
    /\ UNCHANGED <<paced, prod, filled, pSees, consumerVars, done, rep>>

WriteOp ==
    /\ ppc = "op"
    /\ buf' = [buf EXCEPT ![Idx(prod + 1)].op = prod + 1]
    /\ ppc' = "ts"
    /\ UNCHANGED <<paced, prod, filled, pSees, consumerVars, done, rep>>

WriteTs ==
    /\ ppc = "ts"
    /\ buf' = [buf EXCEPT ![Idx(prod + 1)].ts = Stamp(prod + 1)]
    /\ ppc' = "publish"
    /\ UNCHANGED <<paced, prod, filled, pSees, consumerVars, done, rep>>

Publish ==
    /\ ppc = "publish"
    /\ prod' = prod + 1 /\ filled' = prod + 1
    /\ ppc' = IF prod + 1 = ReportEvent THEN "receive" ELSE "claim"
    /\ UNCHANGED <<paced, buf, pSees, consumerVars, done, rep>>

(* rep := <-done: run() returns with what the consumer sent. *)
Receive ==
    /\ ppc = "receive"
    /\ done # <<>>
    /\ rep' = Head(done)
    /\ done' = Tail(done)
    /\ ppc' = "returned"
    /\ UNCHANGED <<paced, buf, prod, filled, pSees, consumerVars>>

Producer == Claim \/ WriteKind \/ WriteOp \/ WriteTs \/ Publish \/ Receive

-------------------------------------------------------------------------------
(* The consumer goroutine.                                                 *)

(* One load of the busy-spin; when an event is there, seq moves to it.     *)
Poll ==
    /\ cpc = "poll"
    /\ cSees' = filled
    /\ IF prod = seq THEN UNCHANGED <<seq, cpc>>
       ELSE seq' = seq + 1 /\ cpc' = "dispatch"
    /\ UNCHANGED <<buf, producerVars, cons, handed, applied, hist, done, rep>>

(* The switch takes the kindLimit or kindCancel arm. *)
DispatchOp ==
    /\ cpc = "dispatch"
    /\ buf[Idx(seq)].kind # ReportEvent
    /\ cpc' = "apply"
    /\ UNCHANGED <<buf, producerVars, cons, handed, seq, cSees, applied, hist, done, rep>>

(* A faulty report: the histogram is not in it yet. *)
StatisticsOnly == [ops |-> applied, samples |-> <<>>]
Statistics == [ops |-> applied, samples |-> hist]

(* The default arm: the statistics go on the channel - there is room, it   *)
(* is the only message - and the goroutine ends without handing the slot   *)
(* back.                                                                   *)
DispatchReport ==
    /\ cpc = "dispatch"
    /\ buf[Idx(seq)].kind = ReportEvent
    /\ Len(done) < 1
    /\ done' = Append(done, Statistics)
    /\ applied' = Append(applied, buf[Idx(seq)].kind)
    /\ cpc' = "exit"
    /\ UNCHANGED <<buf, producerVars, cons, handed, seq, cSees, hist, rep>>

ApplyOp ==
    /\ cpc = "apply"
    /\ applied' = Append(applied, buf[Idx(seq)].op)
    /\ cpc' = "sample"
    /\ UNCHANGED <<buf, producerVars, cons, handed, seq, cSees, hist, done, rep>>

Sample ==
    /\ cpc = "sample"
    /\ LET ts == buf[Idx(seq)].ts
       IN  hist' = IF ts # 0 THEN Append(hist, ts) ELSE hist
    /\ cpc' = "store"
    /\ UNCHANGED <<buf, producerVars, cons, handed, seq, cSees, applied, done, rep>>

(* Each event's slot is handed back on its own. *)
StoreCons ==
    /\ cpc = "store"
    /\ cons' = seq /\ handed' = seq
    /\ cpc' = "poll"
    /\ UNCHANGED <<buf, producerVars, seq, cSees, applied, hist, done, rep>>

Consumer == Poll \/ DispatchOp \/ DispatchReport \/ ApplyOp \/ Sample \/ StoreCons

Ended == ppc = "returned" /\ UNCHANGED vars

Next == Producer \/ Consumer \/ Ended

(* Both goroutines hold an OS thread (LockOSThread) and the loop that      *)
(* waits for room yields, so neither starves the other.                    *)
Fairness == WF_vars(Producer) /\ WF_vars(Consumer)

SafeSpec == Init /\ [][Next]_vars

Spec == SafeSpec /\ Fairness

-------------------------------------------------------------------------------
(* Properties *)

(* The cursors order every access to a slot: the producer writes one only  *)
(* if the consumer's reads of its previous event happen before, the        *)
(* consumer reads one only if the producer's writes happen before.         *)
RaceFree ==
    /\ ppc \in {"kind", "op", "ts"} => prod + 1 - RingSize <= pSees
    /\ cpc \in {"dispatch", "apply", "sample"} => seq <= cSees

(* How many operations of the run are measured. *)
Measured == IF paced THEN TotalOps - WarmupOps ELSE 0

(* What run() returns covers the whole run although it only waits for the  *)
(* message, not for the goroutine; a run that is not paced has no samples. *)
ReturnedReport ==
    ppc = "returned" =>
        /\ rep.ops = [i \in 1 .. TotalOps |-> i]
        /\ rep.samples = [i \in 1 .. Measured |-> WarmupOps + i]

(* Ring and goroutines are a bounded, lossless, in-order channel of        *)
(* RingSize events that delivers everything.                               *)
Channel == INSTANCE EventChannel WITH
               Capacity <- RingSize, Events <- TotalOps + 1,
               sent <- prod, delivered <- applied
ImplementsChannel == Channel!Spec

===============================================================================
