----------------------------- MODULE JavaHarness ------------------------------
(***************************************************************************)
(* Harness.run and CoreHandler.onEvent of the Java engine, on the LMAX     *)
(* Disruptor: the producer generates, paces, stamps and publishes the      *)
(* operations, then the sentinel, shuts the disruptor down and reads the   *)
(* report the handler has left in an AtomicReference.                      *)
(*                                                                         *)
(* An operation is its number; `applied' is the order in which the engine  *)
(* sees them.  A sample keeps the operation it is for beside its value.    *)
(* rate = 0, throughput mode, is interval 0: no pacing and no samples.     *)
(* nanoTime is taken to count from 0: its origin is not in the future.     *)
(***************************************************************************)
EXTENDS LibRing, FiniteSetsExt

VARIABLES
    ppc,        \* where run() is
    interval,   \* nanoseconds between two operations, 0 if not paced
    i,          \* the loop counter: operations published
    nextDue,    \* scheduled time of the last operation generated
    ts,         \* its stamp, 0 if it is not measured
    halted,     \* shutdown() has told the consumer thread to stop
    applied,    \* the events onEvent has dispatched, in order
    hist,       \* the samples recorded
    reportRef,  \* the AtomicReference
    result      \* the report run() returns

producerVars == <<ppc, interval, i, nextDue, ts, halted, result>>
handlerVars == <<applied, hist, reportRef>>
vars == <<ringVars, threadVars, clock, producerVars, handlerVars>>

ASSUME JavaHarnessAssumption ==
    /\ RingSize \in Nat \ {0}
    /\ TotalOps \in Nat
    /\ WarmupOps \in 0 .. TotalOps
    /\ Intervals \subseteq Nat
    /\ MaxClock \in Nat
    /\ \A v \in Intervals : v * TotalOps <= MaxClock

(* null: no report is equal to it. *)
NoReport == [null |-> TRUE]
Paced == interval > 0

Init ==
    /\ RingInit
    /\ clock = 0
    /\ ppc = "generate" /\ interval \in Intervals
    /\ i = 0 /\ nextDue = 0 /\ ts = 0 /\ halted = FALSE
    /\ applied = <<>> /\ hist = <<>>
    /\ reportRef = NoReport /\ result = NoReport

-------------------------------------------------------------------------------
(* The producer.                                                           *)

(* A faulty schedule: it starts anew from the clock after every stall.     *)
DueFromNow == clock + interval
DueNext == nextDue + interval

(* The head of the loop: nextOp(), and the next scheduled time. *)
Generate ==
    /\ ppc = "generate"
    /\ i < TotalOps
    /\ ts' = 0
    /\ IF Paced THEN nextDue' = DueNext /\ ppc' = "spin"
                ELSE UNCHANGED nextDue /\ ppc' = "claim"
    /\ UNCHANGED <<ringVars, threadVars, clock, interval, i, halted, result, handlerVars>>

(* A faulty wait: it ends at the scheduled tick or never. *)
DueExactly == clock = nextDue

Due == clock >= nextDue

(* onSpinWait until the operation is due; past the warmup it is stamped    *)
(* with the time it was scheduled for, not with the time it is.            *)
SpinEnds ==
    /\ ppc = "spin"
    /\ Due
    /\ ts' = IF i >= WarmupOps THEN nextDue ELSE 0
    /\ ppc' = "claim"
    /\ UNCHANGED <<ringVars, threadVars, clock, interval, i, nextDue, halted, result, handlerVars>>

(* rb.next(), for an operation or, after the loop, for the sentinel.       *)
Claim ==
    /\ \/ ppc = "claim"
       \/ ppc = "generate" /\ i = TotalOps
    /\ HasRoom
    /\ ppc' = "fill"
    /\ UNCHANGED <<ringVars, threadVars, clock, interval, i, nextDue, ts, halted, result, handlerVars>>

(* The fields of the claimed event; the sentinel leaves those of an        *)
(* earlier lap in place except kind and ts.                                *)
Fill ==
    /\ ppc = "fill"
    /\ slots' = [slots EXCEPT ![IndexOf(cursor + 1)] =
                   IF i < TotalOps THEN [kind |-> "op", op |-> i + 1, ts |-> ts]
                   ELSE [@ EXCEPT !.kind = "report", !.ts = 0]]
    /\ ppc' = "publish"
    /\ UNCHANGED <<cursor, gating, threadVars, clock, interval, i, nextDue, ts, halted, result, handlerVars>>

Publish ==
    /\ ppc = "publish"
    /\ cursor' = cursor + 1
    /\ IF i < TotalOps THEN i' = i + 1 /\ ppc' = "generate"
                       ELSE UNCHANGED i /\ ppc' = "shutdown"
    /\ UNCHANGED <<slots, gating, threadVars, clock, interval, nextDue, ts, halted, result, handlerVars>>

(* A faulty shutdown: it stops the consumer without waiting for it.        *)
BacklogIgnored == TRUE
BacklogDone == gating = cursor

(* disruptor.shutdown(): it spins until every published event is behind    *)
(* the consumer, then halts it; it does not wait for the thread to end.    *)
Shutdown ==
    /\ ppc = "shutdown"
    /\ BacklogDone
    /\ halted' = TRUE
    /\ ppc' = "get"
    /\ UNCHANGED <<ringVars, threadVars, clock, interval, i, nextDue, ts, result, handlerVars>>

(* reportRef.get(): without a report run() throws IllegalStateException.   *)
GetReport ==
    /\ ppc = "get"
    /\ result' = reportRef
    /\ ppc' = IF reportRef = NoReport THEN "thrown" ELSE "returned"
    /\ UNCHANGED <<ringVars, threadVars, clock, interval, i, nextDue, ts, halted, handlerVars>>

Producer == Generate \/ SpinEnds \/ Claim \/ Fill \/ Publish \/ Shutdown \/ GetReport

-------------------------------------------------------------------------------
(* The consumer thread.                                                    *)

(* onEvent for an operation: the call into the engine. *)
Apply ==
    /\ hpc = "handle"
    /\ Slot(at).kind = "op"
    /\ applied' = Append(applied, Slot(at).op)
    /\ hpc' = "record"
    /\ UNCHANGED <<ringVars, at, upTo, clock, producerVars, hist, reportRef>>

(* The rest of onEvent: the time since the stamp, at least 1. *)
Record ==
    /\ hpc = "record"
    /\ hist' = IF Slot(at).ts = 0 THEN hist
               ELSE Append(hist, [op |-> at, value |-> Max({1, clock - Slot(at).ts})])
    /\ HandlerReturns
    /\ UNCHANGED <<ringVars, upTo, clock, producerVars, applied, reportRef>>

(* onEvent for the sentinel: a report with a copy of the histogram.        *)
SetReport ==
    /\ hpc = "handle"
    /\ Slot(at).kind = "report"
    /\ reportRef' = [ops |-> applied, samples |-> hist]
    /\ applied' = Append(applied, ReportEvent)
    /\ HandlerReturns
    /\ UNCHANGED <<ringVars, upTo, clock, producerVars, hist>>

Library == NewBatch \/ CommitBatch \/ ThreadEnds(halted)

Consumer ==
    \/ Apply \/ Record \/ SetReport
    \/ Library /\ UNCHANGED <<producerVars, handlerVars>>

(* Past MaxClock nothing need happen: RunEnds says that all has by then.   *)
TimeIsUp == clock = MaxClock /\ UNCHANGED vars

Next ==
    \/ Producer
    \/ Consumer
    \/ Tick /\ UNCHANGED <<producerVars, handlerVars>>
    \/ TimeIsUp

SafeSpec == Init /\ [][Next]_vars

(* Each thread runs on and time passes. *)
Spec ==
    /\ SafeSpec
    /\ WF_vars(Producer) /\ WF_vars(Consumer)
    /\ WF_vars(Tick /\ UNCHANGED <<producerVars, handlerVars>>)

-------------------------------------------------------------------------------
(* Properties *)

(* Past shutdown() the report is there and whole: all operations, once and *)
(* in order, and one sample for each that is measured - in latency mode    *)
(* the operations past the warmup, in throughput mode none.  The           *)
(* IllegalStateException is never thrown.                                  *)
ReportComplete ==
    /\ ppc # "thrown"
    /\ ppc = "returned" =>
         /\ result.ops = [k \in 1 .. TotalOps |-> k]
         /\ [k \in DOMAIN result.samples |-> result.samples[k].op]
              = [k \in 1 .. (IF Paced THEN TotalOps - WarmupOps ELSE 0) |-> WarmupOps + k]

(* A stall is charged to every operation that was due during it (README,   *)
(* "Coordinated omission"): from one sample to the next the latency falls  *)
(* by no more than the time between their schedules.                       *)
StallsCharged ==
    \A k \in 1 .. Len(hist) - 1 : hist[k + 1].value >= hist[k].value - interval

(* run() returns or throws, and its consumer thread ends as well. *)
RunEnds == <>(ppc \in {"returned", "thrown"} /\ hpc = "end")

===============================================================================
