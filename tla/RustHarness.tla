----------------------------- MODULE RustHarness ------------------------------
(***************************************************************************)
(* run() and Core::on_event of the Rust engine (rust/src/harness.rs), on   *)
(* the disruptor crate.  It differs from the Java harness in how a run is  *)
(* paced and how it ends: the interval is an Option, Some(0) for a rate    *)
(* above 10^9, which paces and samples with no time between operations;    *)
(* an event is filled inside publish(); dropping the producer joins the    *)
(* consumer thread; and the report is taken out of a Mutex<Option>.        *)
(*                                                                         *)
(* An operation is its number; `applied' is the order in which the book    *)
(* sees them.  Time is counted from the run's epoch.  The first reading,   *)
(* made after the consumer thread has been built, is positive.             *)
(***************************************************************************)
EXTENDS LibRing, FiniteSetsExt

CONSTANT Unpaced    \* None, as the interval of a throughput run

VARIABLES
    ppc,        \* where run() is
    interval,   \* Some number of nanoseconds, or Unpaced
    i,          \* the loop counter: operations published
    nextDue,    \* scheduled time of the last operation generated
    ts,         \* its stamp, 0 if it is not measured
    dropped,    \* the producer has been dropped
    applied,    \* the events on_event has dispatched, in order
    hist,       \* the samples recorded
    report,     \* inside the Mutex
    rep         \* the report run() returns

producerVars == <<ppc, interval, i, nextDue, ts, dropped, rep>>
handlerVars == <<applied, hist>>
vars == <<ringVars, threadVars, clock, producerVars, handlerVars, report>>

Started == 1

ASSUME RustHarnessAssumption ==
    /\ RingSize \in Nat \ {0}
    /\ TotalOps \in Nat
    /\ WarmupOps \in 0 .. TotalOps
    /\ Unpaced \notin Nat
    /\ Intervals \subseteq Nat \cup {Unpaced}
    /\ MaxClock \in Nat
    /\ \A v \in Intervals \ {Unpaced} : Started + v * TotalOps <= MaxClock

Paced == interval # Unpaced
(* The empty Option: no report is equal to it. *)
None == [some |-> FALSE]

Init ==
    /\ RingInit
    /\ clock = Started
    /\ ppc = "generate" /\ interval \in Intervals
    /\ i = 0 /\ nextDue = Started /\ ts = 0 /\ dropped = FALSE
    /\ applied = <<>> /\ hist = <<>> /\ report = None /\ rep = None

-------------------------------------------------------------------------------
(* The producer.                                                           *)

(* The head of the loop: next_op(), and the next scheduled time if paced.  *)
Generate ==
    /\ ppc = "generate"
    /\ i < TotalOps
    /\ IF Paced THEN nextDue' = nextDue + interval /\ ppc' = "spin" /\ UNCHANGED ts
                ELSE ts' = 0 /\ ppc' = "publish" /\ UNCHANGED nextDue
    /\ UNCHANGED <<ringVars, threadVars, clock, interval, i, dropped, rep, handlerVars, report>>

SpinEnds ==
    /\ ppc = "spin"
    /\ clock >= nextDue
    /\ ts' = IF i >= WarmupOps THEN nextDue ELSE 0
    /\ ppc' = "publish"
    /\ UNCHANGED <<ringVars, threadVars, clock, interval, i, nextDue, dropped, rep, handlerVars, report>>

(* A faulty closure: the slot keeps the operation of an earlier lap.       *)
OpOfEarlierLap == [Slot(cursor + 1) EXCEPT !.kind = "op", !.ts = ts]
OpEvent == [kind |-> "op", op |-> i + 1, ts |-> ts]

(* producer.publish(): waits for room, runs the closure on the slot.       *)
PublishOp ==
    /\ ppc = "publish"
    /\ HasRoom
    /\ slots' = [slots EXCEPT ![IndexOf(cursor + 1)] = OpEvent]
    /\ cursor' = cursor + 1
    /\ i' = i + 1
    /\ ppc' = "generate"
    /\ UNCHANGED <<gating, threadVars, clock, interval, nextDue, ts, dropped, rep, handlerVars, report>>

(* The sentinel: the closure sets kind and ts only. *)
PublishReport ==
    /\ ppc = "generate" /\ i = TotalOps
    /\ HasRoom
    /\ slots' = [slots EXCEPT ![IndexOf(cursor + 1)].kind = "report",
                              ![IndexOf(cursor + 1)].ts = 0]
    /\ cursor' = cursor + 1
    /\ ppc' = "drop"
    /\ UNCHANGED <<gating, threadVars, clock, interval, i, nextDue, ts, dropped, rep, handlerVars, report>>

(* drop(producer) tells the consumer thread to stop after what is          *)
(* published ...                                                           *)
DropProducer ==
    /\ ppc = "drop"
    /\ dropped' = TRUE
    /\ ppc' = "join"
    /\ UNCHANGED <<ringVars, threadVars, clock, interval, i, nextDue, ts, rep, handlerVars, report>>

(* A faulty drop: it does not join. *)
Detached == TRUE
ThreadEnded == hpc = "end"

(* ... and joins it. *)
DropJoins ==
    /\ ppc = "join"
    /\ ThreadEnded
    /\ ppc' = "take"
    /\ UNCHANGED <<ringVars, threadVars, clock, interval, i, nextDue, ts, dropped, rep, handlerVars, report>>

(* report.lock().take().expect(): panics if there is none. *)
TakeReport ==
    /\ ppc = "take"
    /\ rep' = report
    /\ report' = None
    /\ ppc' = IF report = None THEN "panicked" ELSE "returned"
    /\ UNCHANGED <<ringVars, threadVars, clock, interval, i, nextDue, ts, dropped, handlerVars>>

Producer ==
    \/ Generate \/ SpinEnds \/ PublishOp \/ PublishReport
    \/ DropProducer \/ DropJoins \/ TakeReport

-------------------------------------------------------------------------------
(* The consumer thread.                                                    *)

(* on_event for an operation: the call into the book. *)
Apply ==
    /\ hpc = "handle"
    /\ Slot(at).kind = "op"
    /\ applied' = Append(applied, Slot(at).op)
    /\ hpc' = "record"
    /\ UNCHANGED <<ringVars, at, upTo, clock, producerVars, hist, report>>

(* The rest of on_event: now.saturating_sub(e.ts).max(1). *)
Record ==
    /\ hpc = "record"
    /\ hist' = IF Slot(at).ts = 0 THEN hist
               ELSE Append(hist, [op |-> at, value |-> Max({1, clock - Slot(at).ts})])
    /\ HandlerReturns
    /\ UNCHANGED <<ringVars, upTo, clock, producerVars, applied, report>>

(* on_event for the sentinel: statistics and a clone of the histogram.     *)
SetReport ==
    /\ hpc = "handle"
    /\ Slot(at).kind = "report"
    /\ report' = [ops |-> applied, samples |-> hist]
    /\ applied' = Append(applied, ReportEvent)
    /\ HandlerReturns
    /\ UNCHANGED <<ringVars, upTo, clock, producerVars, hist>>

Library == NewBatch \/ CommitBatch \/ ThreadEnds(dropped)

Consumer ==
    \/ Apply \/ Record \/ SetReport
    \/ Library /\ UNCHANGED <<producerVars, handlerVars, report>>

TimePasses == Tick /\ UNCHANGED <<producerVars, handlerVars, report>>

(* The bound is reached; the threads may go on, or not. *)
TimeIsUp == clock = MaxClock /\ UNCHANGED vars

Next == Producer \/ Consumer \/ TimePasses \/ TimeIsUp

SafeSpec == Init /\ [][Next]_vars

(* Each thread runs on and time passes. *)
Spec == SafeSpec /\ WF_vars(Producer) /\ WF_vars(Consumer) /\ WF_vars(TimePasses)

-------------------------------------------------------------------------------
(* Properties *)

(* Once the consumer is joined the report is there and whole: every        *)
(* operation once and in order, and one sample for each measured one, also *)
(* when the rate leaves no time between operations.  expect() never fails. *)
ReportComplete ==
    /\ ppc # "panicked"
    /\ ppc = "returned" =>
         /\ rep.ops = [k \in 1 .. TotalOps |-> k]
         /\ [k \in DOMAIN rep.samples |-> rep.samples[k].op]
              = [k \in 1 .. (IF Paced THEN TotalOps - WarmupOps ELSE 0) |-> WarmupOps + k]

(* Library ring, producer and handler are a bounded, lossless, in-order    *)
(* channel that delivers everything, the sentinel last.                    *)
Channel == INSTANCE EventChannel WITH
               Capacity <- RingSize, Events <- TotalOps + 1,
               sent <- cursor, delivered <- applied
ImplementsChannel == Channel!Spec

===============================================================================
