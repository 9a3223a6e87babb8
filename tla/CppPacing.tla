------------------------------ MODULE CppPacing -------------------------------
(***************************************************************************)
(* The timed side of the C++ harness (cpp/main.cpp): run_impl's paced      *)
(* publishing loop, the samples its consumer takes and the percentiles     *)
(* print_result reads from them.  The ring between the two threads is the  *)
(* channel that CppRing implements: what an operation carries through it   *)
(* is its stamp, stamps[k] for the k-th event.                             *)
(*                                                                         *)
(* The clock counts nanoseconds since `epoch' and is read by both threads; *)
(* it stops at MaxClock.  A second has OneSecond of them, a 64-bit word    *)
(* Word values, UINT32_MAX is SampleMax and RING_SIZE is Capacity: all     *)
(* scaled down.                                                            *)
(***************************************************************************)
EXTENDS Integers, Sequences, FiniteSets, SequencesExt

CONSTANTS
    Capacity,   \* RING_SIZE
    TotalOps,   \* run_impl's total_ops
    WarmupOps,  \* run_impl's warmup_ops, total_ops / 5 in latency mode
    Rates,      \* the rates a latency run may be asked for
    OneSecond,  \* 1'000'000'000
    SampleMax,  \* UINT32_MAX
    Word,       \* 2^64
    MaxClock    \* bound: the clock stops here

ASSUME CppPacingAssumption ==
    /\ Capacity \in Nat \ {0}
    /\ TotalOps \in Nat /\ WarmupOps \in 0 .. TotalOps
    /\ Rates \subseteq Nat
    /\ {OneSecond, SampleMax} \subseteq Nat \ {0}
    /\ MaxClock \in Nat /\ Word \in Nat /\ MaxClock < Word

VARIABLES
    clock,      \* nanos_since(epoch)
    latency,    \* the run is one of latency mode
    interval,   \* nanoseconds between two operations, 0 if not paced
    ppc,        \* where run_impl's thread is, print_result included
    nextDue,    \* next_due
    ts,         \* the stamp of the operation about to be published
    sent,       \* events published; while there are operations left, `i'
    stamps,     \* the `ts' field of each event published
    cpc,        \* where the consumer thread is
    delivered,  \* the events the consumer's switch has dispatched
    samples,    \* Report::samples, in the order they are taken
    shown       \* what print_result prints: quantile -> sample

producerVars == <<latency, interval, ppc, nextDue, ts, stamps, shown>>
consumerVars == <<cpc, samples>>
vars == <<clock, producerVars, consumerVars, sent, delivered>>

Channel == INSTANCE EventChannel WITH Events <- TotalOps + 1

-------------------------------------------------------------------------------

(* Integer division: 0 for a rate above a billion. *)
IntervalOf(rate) == IF rate > 0 THEN OneSecond \div rate ELSE 0
Paced == interval > 0

(* Throughput mode and the warmup pass rate 0. *)
Init ==
    /\ clock = 0
    /\ \/ latency = FALSE /\ interval = IntervalOf(0)
       \/ latency = TRUE /\ \E rate \in Rates : interval = IntervalOf(rate)
    /\ ppc = "begin" /\ nextDue = 0 /\ ts = 0 /\ stamps = <<>>
    /\ cpc = "poll" /\ samples = <<>>
    /\ shown = <<>>
    /\ Channel!Init

-------------------------------------------------------------------------------
(* The producer.                                                           *)

(* The schedule starts when the loop is about to, not at epoch. *)
StartSchedule ==
    /\ ppc = "begin"
    /\ nextDue' = clock
    /\ ppc' = "op"
    /\ UNCHANGED <<clock, latency, interval, ts, stamps, shown, consumerVars, sent, delivered>>

(* A faulty schedule: it starts anew from the clock after every stall.     *)
DueFromNow == clock + interval
DueNext == nextDue + interval

NextOp ==
    /\ ppc = "op" /\ sent < TotalOps
    /\ ts' = 0
    /\ IF Paced THEN nextDue' = DueNext /\ ppc' = "spin"
                ELSE UNCHANGED nextDue /\ ppc' = "publish"
    /\ UNCHANGED <<clock, latency, interval, stamps, shown, consumerVars, sent, delivered>>

(* A faulty wait: it ends one tick early. *)
DueOneEarly == clock + 1 >= nextDue
Due == clock >= nextDue

(* A faulty end of the warmup: it takes one operation more. *)
PastWarmupLate == sent > WarmupOps
PastWarmup == sent >= WarmupOps

(* The spin ends; past the warmup the operation is stamped with the time   *)
(* it was scheduled for.                                                   *)
SpinEnds ==
    /\ ppc = "spin"
    /\ Due
    /\ ts' = IF PastWarmup THEN nextDue ELSE 0
    /\ ppc' = "publish"
    /\ UNCHANGED <<clock, latency, interval, nextDue, stamps, shown, consumerVars, sent, delivered>>

(* claim(), which waits for room, the six fields, publish(). *)
PublishOp ==
    /\ ppc = "publish"
    /\ Channel!Send
    /\ stamps' = Append(stamps, ts)
    /\ ppc' = "op"
    /\ UNCHANGED <<clock, latency, interval, nextDue, ts, shown, consumerVars>>

PublishReport ==
    /\ ppc = "op" /\ sent = TotalOps
    /\ Channel!Send
    /\ stamps' = Append(stamps, 0)
    /\ ppc' = "join"
    /\ UNCHANGED <<clock, latency, interval, nextDue, ts, shown, consumerVars>>

Join ==
    /\ ppc = "join" /\ cpc = "exit"
    /\ ppc' = "joined"
    /\ UNCHANGED <<clock, latency, interval, nextDue, ts, stamps, shown, consumerVars, sent, delivered>>

(* The quantiles printed, in units of 1/10000. *)
Quantiles == {5000, 9000, 9900, 9990, 9999}

(* A faulty rank, scaled with the number of samples instead of one less:   *)
(* inside the samples, but for some numbers of them one sample too high.   *)
RankOfAll(q, n) == (q * n) \div 10000

(* static_cast<size_t>(q * (s.size() - 1)) *)
Rank(q, n) == (q * (n - 1)) \div 10000

(* std::sort *)
Sorted(s) ==
    LET places == Bijection(DOMAIN s, DOMAIN s)
        at == CHOOSE at \in places : \A j, k \in DOMAIN s : j < k => s[at[j]] <= s[at[k]]
    IN  [k \in DOMAIN s |-> s[at[k]]]

PrintResult ==
    /\ ppc = "joined"
    /\ latency => samples # <<>>
    /\ shown' = IF latency
                THEN LET s == Sorted(samples)
                     IN  [q \in Quantiles |-> s[Rank(q, Len(s)) + 1]]
                ELSE <<>>
    /\ ppc' = "printed"
    /\ UNCHANGED <<clock, latency, interval, nextDue, ts, stamps, consumerVars, sent, delivered>>

(* s.size() - 1 of an empty vector is the largest size_t: the reads are    *)
(* far outside it and the program ends there.                              *)
ReadNoSamples ==
    /\ ppc = "joined"
    /\ latency /\ samples = <<>>
    /\ ppc' = "crashed"
    /\ UNCHANGED <<clock, latency, interval, nextDue, ts, stamps, shown, consumerVars, sent, delivered>>

Producer ==
    \/ StartSchedule \/ NextOp \/ SpinEnds \/ PublishOp \/ PublishReport
    \/ Join \/ PrintResult \/ ReadNoSamples

-------------------------------------------------------------------------------
(* The consumer.                                                           *)

Current == Len(delivered)

Apply ==
    /\ cpc = "poll" /\ Current < TotalOps
    /\ Channel!Deliver
    /\ cpc' = "sample"
    /\ UNCHANGED <<clock, producerVars, samples>>

(* The subtraction is one of unsigned words. *)
Elapsed(stamp) == (clock - stamp) % Word
Clamped(lat) == Min({Max({lat, 1}), SampleMax})

(* The clock is read after the call into the book. *)
Sample ==
    /\ cpc = "sample"
    /\ samples' = IF stamps[Current] = 0 THEN samples
                  ELSE Append(samples, Clamped(Elapsed(stamps[Current])))
    /\ cpc' = "poll"
    /\ UNCHANGED <<clock, producerVars, sent, delivered>>

(* The sentinel's arm. *)
Report ==
    /\ cpc = "poll" /\ Current = TotalOps
    /\ Channel!Deliver
    /\ cpc' = "exit"
    /\ UNCHANGED <<clock, producerVars, samples>>

Consumer == Apply \/ Sample \/ Report

-------------------------------------------------------------------------------

Tick ==
    /\ clock < MaxClock
    /\ clock' = clock + 1
    /\ UNCHANGED <<producerVars, consumerVars, sent, delivered>>

(* The bound is reached; what has not happened by then is left open.       *)
TimeIsUp == clock = MaxClock /\ UNCHANGED vars

Next == Producer \/ Consumer \/ Tick \/ TimeIsUp

Spec == Init /\ [][Next]_vars

-------------------------------------------------------------------------------
(* Properties *)

(* A stall is charged to every operation that was due during it (README,   *)
(* "Coordinated omission"): from one sample to the next the latency falls  *)
(* by no more than the time between their schedules, whatever held the     *)
(* two threads up and although a sample is cut off at SampleMax.           *)
StallsCharged ==
    \A k \in 1 .. Len(samples) - 1 : samples[k + 1] >= samples[k] - interval

(* No operation reaches the book before it is due: the unsigned difference *)
(* of clock and stamp never wraps, to be shown as the largest latency.     *)
NothingEarly == cpc = "sample" => stamps[Current] <= clock

(* A printed percentile is a sample with the right rank among all samples  *)
(* of the run: at most q of the others are below it, and with it and its   *)
(* equals more than q are accounted for.                                   *)
PercentileRank ==
    LET below(v) == Cardinality({k \in DOMAIN samples : samples[k] < v})
        upTo(v)  == Cardinality({k \in DOMAIN samples : samples[k] <= v})
    IN  \A q \in DOMAIN shown :
          /\ 10000 * below(shown[q]) <= q * (Len(samples) - 1)
          /\ q * (Len(samples) - 1) < 10000 * upTo(shown[q])

(* A paced run measures each operation past the warmup once, none of the   *)
(* warmup and not the sentinel (README, "Coordinated omission"): no        *)
(* scheduled time is 0, the stamp that means "do not measure".  A run that *)
(* is not paced has no samples; in latency mode that is a rate of 0, and   *)
(* one above a billion, whose interval is 0 too.                           *)
SamplesComplete ==
    ppc \in {"joined", "printed", "crashed"} =>
        Len(samples) = IF Paced THEN TotalOps - WarmupOps ELSE 0

===============================================================================
