--------------------------- MODULE JavaHarnessProofs --------------------------
(***************************************************************************)
(* Proofs about JavaHarness for every RingSize, TotalOps, WarmupOps, set   *)
(* of Intervals and bound of the clock: the inductive invariant IInv, that *)
(* run() returns a report which covers the whole run, that a stall is      *)
(* charged to every operation that was due during it, and that every step  *)
(* of the two threads is a step of the abstract EventChannel.              *)
(***************************************************************************)
EXTENDS JavaHarness, TLAPS

-------------------------------------------------------------------------------
(* The inductive invariant.                                                *)

Event == [kind : {"op", "report"}, op : Nat, ts : Nat]
Sample == [op : Nat, value : Int]

Looping == {"generate", "spin", "claim", "fill", "publish"}
Over == {"get", "returned", "thrown"}

Types ==
    /\ slots \in [0 .. RingSize - 1 -> Event]
    /\ cursor \in Nat /\ gating \in Nat /\ at \in Nat /\ upTo \in Nat
    /\ clock \in Nat /\ i \in Nat /\ nextDue \in Nat /\ ts \in Nat
    /\ interval \in Nat
    /\ halted \in BOOLEAN
    /\ hist \in Seq(Sample)
    /\ ppc \in Looping \cup {"shutdown"} \cup Over
    /\ hpc \in {"wait", "handle", "record", "commit", "end"}

Measured(s) == Paced /\ WarmupOps < s /\ s <= TotalOps

(* The time operation s is scheduled for, whatever has happened before it. *)
DueAt(s) == interval * s

Stamp(s) == IF Measured(s) THEN DueAt(s) ELSE 0

(* The slot of event s holds that event: nothing of an earlier lap shows   *)
(* in a field the handler reads.                                           *)
Intact(s) ==
    /\ Slot(s).kind = (IF s = ReportEvent THEN "report" ELSE "op")
    /\ s # ReportEvent => Slot(s).op = s
    /\ Slot(s).ts = Stamp(s)

(* Where run() is: it has published an event for each turn of its loop and *)
(* the sentinel after the last one, keeps to the schedule, and goes on     *)
(* from shutdown() only when nothing published is left.                    *)
Publishing ==
    /\ ppc \in Looping => cursor = i /\ i <= TotalOps
    /\ ppc \notin Looping => cursor = ReportEvent
    /\ ppc \in {"spin", "claim"} => i < TotalOps
    /\ ppc = "spin" => Paced
    /\ Paced /\ ppc = "generate" => nextDue = DueAt(i)
    /\ Paced /\ ppc \in {"spin", "claim", "fill", "publish"} /\ i < TotalOps =>
         nextDue = DueAt(i + 1)
    /\ ppc \in {"claim", "fill", "publish"} /\ i < TotalOps => ts = Stamp(i + 1)
    /\ ppc \in {"fill", "publish"} => HasRoom
    /\ ppc = "publish" => Intact(cursor + 1)
    /\ halted <=> ppc \in Over
    /\ halted => gating = cursor

(* Where the consumer thread is: inside its batch, which is published and  *)
(* whose slots are not free yet; it ends when there is nothing left.       *)
Batches ==
    /\ gating <= cursor /\ cursor - gating <= RingSize
    /\ hpc \in {"handle", "record", "commit"} => gating < at /\ at <= upTo /\ upTo <= cursor
    /\ hpc = "record" => at <= TotalOps
    /\ hpc = "commit" => at = upTo
    /\ hpc = "end" => halted

Slots == \A s \in gating + 1 .. cursor : Intact(s)

(* Events dispatched, and those onEvent is through with. *)
Through ==
    IF hpc \in {"wait", "end"} THEN gating
    ELSE IF hpc = "commit" THEN at ELSE at - 1
Done == IF hpc = "record" THEN at ELSE Through

(* How many samples the first n events of a run leave. *)
SamplesOf(n) ==
    IF Paced /\ WarmupOps < n THEN (IF n <= TotalOps THEN n ELSE TotalOps) - WarmupOps
    ELSE 0

(* What the consumer has collected is what the run publishes, in order.    *)
Collected ==
    /\ applied = [k \in 1 .. Done |-> k]
    /\ Len(hist) = SamplesOf(Through)
    /\ \A k \in 1 .. Len(hist) : hist[k].op = WarmupOps + k

(* The sample operation s would leave now.  The last sample taken is at    *)
(* most what it would be if it were taken now.                             *)
LatencyOf(s) == IF clock - DueAt(s) >= 1 THEN clock - DueAt(s) ELSE 1
Charged == hist # <<>> => hist[Len(hist)].value <= LatencyOf(WarmupOps + Len(hist))

WholeReport == [ops |-> [k \in 1 .. TotalOps |-> k], samples |-> hist]

(* The report is there from the dispatch of the sentinel on, and nothing   *)
(* is sampled after the histogram was copied.                              *)
Reported ==
    /\ ppc # "thrown"
    /\ reportRef = IF Done = ReportEvent THEN WholeReport ELSE NoReport
    /\ ppc = "returned" => result = WholeReport

IInv ==
    /\ Types
    /\ Publishing
    /\ Batches
    /\ Slots
    /\ Collected
    /\ Charged
    /\ StallsCharged
    /\ Reported

-------------------------------------------------------------------------------
(* Remainders: events less than a ring apart have different slots.         *)

LEMMA Remainder ==
    ASSUME NEW N \in Nat \ {0}, NEW a \in Nat
    PROVE  a % N \in 0 .. N - 1 /\ \E q \in Nat : a = N * q + (a % N)
<1>1. a % N \in 0 .. N - 1
  BY Z3
<1>2. a \div N \in Nat /\ a = N * (a \div N) + (a % N)
  BY Z3
<1>3. QED
  BY <1>1, <1>2

LEMMA NoMultipleBetween ==
    ASSUME NEW N \in Nat \ {0}, NEW q \in Int, 0 < N * q, N * q < N
    PROVE  FALSE
  BY Z3

LEMMA RemaindersDiffer ==
    ASSUME NEW N \in Nat \ {0}, NEW a \in Nat, NEW b \in Nat, a < b, b - a < N
    PROVE  a % N # b % N
<1> SUFFICES ASSUME a % N = b % N PROVE FALSE
  OBVIOUS
<1>1. PICK p \in Nat : a = N * p + (a % N)
  BY Remainder
<1>2. PICK q \in Nat : b = N * q + (b % N)
  BY Remainder
<1>3. a % N \in Int /\ N * p \in Int /\ N * q \in Int
  BY Remainder
<1>4. b - a = N * q - N * p
  BY <1>1, <1>2, <1>3
<1>5. N * q - N * p = N * (q - p)
  BY Z3
<1>6. QED
  BY <1>4, <1>5, NoMultipleBetween

LEMMA SlotIndex ==
    /\ \A s \in Nat : IndexOf(s) \in 0 .. RingSize - 1
    /\ \A s, t \in Nat : s < t /\ t - s < RingSize => IndexOf(s) # IndexOf(t)
  BY JavaHarnessAssumption, Remainder, RemaindersDiffer DEF IndexOf

(* What onEvent records is the larger of 1 and the time since the stamp. *)
LEMMA LargerOf == \A x \in Int : Max({1, x}) = IF x >= 1 THEN x ELSE 1
<1> TAKE x \in Int
<1>1. \E m \in {1, x} : \A y \in {1, x} : m >= y
  <2>1. CASE x <= 1
    BY <2>1
  <2>2. CASE ~(x <= 1)
    BY <2>2
  <2>3. QED
    BY <2>1, <2>2
<1>2. Max({1, x}) \in {1, x} /\ \A y \in {1, x} : Max({1, x}) >= y
  BY <1>1 DEF Max
<1>3. QED
  BY <1>2

(* Appending its next element to an interval. *)
LEMMA AppendNext ==
    ASSUME NEW n \in Nat
    PROVE  Append([k \in 1 .. n |-> k], n + 1) = [k \in 1 .. n + 1 |-> k]
  OBVIOUS

(* The numbers of a state are natural numbers. *)
LEMMA Numbers ==
    ASSUME Types
    PROVE  /\ RingSize \in Nat \ {0} /\ TotalOps \in Nat
           /\ WarmupOps \in Nat /\ WarmupOps <= TotalOps
           /\ ReportEvent \in Nat /\ ReportEvent = TotalOps + 1
           /\ interval \in Nat
           /\ cursor \in Nat /\ gating \in Nat /\ at \in Nat /\ upTo \in Nat
           /\ clock \in Nat /\ i \in Nat /\ ts \in Nat
  BY JavaHarnessAssumption DEF Types, ReportEvent

(* The schedule: an interval from one operation to the next, and only      *)
(* measured operations have a stamp that is not 0.                         *)
LEMMA Schedule ==
    ASSUME Types, NEW s \in Nat
    PROVE  /\ DueAt(s) \in Nat /\ DueAt(s + 1) = DueAt(s) + interval
           /\ Stamp(s) \in Nat
           /\ (Stamp(s) # 0 <=> Measured(s))
<1>1. /\ interval * s \in Nat /\ interval * (s + 1) = interval * s + interval
      /\ (interval > 0 /\ s > 0 => interval * s > 0)
  <2>1. interval \in Nat
    BY Numbers
  <2>2. \A m, n \in Nat : /\ m * n \in Nat /\ m * (n + 1) = m * n + m
                          /\ (m > 0 /\ n > 0 => m * n > 0)
    BY Z3
  <2>3. QED
    BY <2>1, <2>2
<1>2. QED
  BY <1>1, Numbers DEF DueAt, Stamp, Measured, Paced

(* How many samples one more event leaves. *)
LEMMA OneMore ==
    ASSUME Types, NEW n \in Nat
    PROVE  /\ SamplesOf(n) \in Nat
           /\ SamplesOf(n + 1) = IF Measured(n + 1) THEN SamplesOf(n) + 1 ELSE SamplesOf(n)
           /\ Measured(n + 1) => SamplesOf(n) + 1 = n + 1 - WarmupOps
  BY Numbers DEF SamplesOf, Measured

LEMMA InitIInv == Init => IInv
<1> SUFFICES ASSUME Init PROVE IInv
  OBVIOUS
<1> USE JavaHarnessAssumption DEF Init, RingInit
<1>1. Types
  <2>1. slots \in [0 .. RingSize - 1 -> Event]
    BY DEF Event, Zeroed
  <2>2. hist \in Seq(Sample)
    OBVIOUS
  <2>3. interval \in Nat
    OBVIOUS
  <2>4. /\ cursor = 0 /\ gating = 0 /\ at = 0 /\ upTo = 0
        /\ clock = 0 /\ i = 0 /\ nextDue = 0 /\ ts = 0
    OBVIOUS
  <2>5. halted \in BOOLEAN /\ ppc = "generate" /\ hpc = "wait"
    OBVIOUS
  <2>6. QED
    BY ONLY <2>1, <2>2, <2>3, <2>4, <2>5 DEF Types, Looping
<1>2. Publishing
  <2>1. DueAt(0) = 0
    BY DEF DueAt
  <2>2. QED
    BY <2>1 DEF Publishing, Looping, Over
<1>3. Batches
  BY DEF Batches
<1>4. Slots
  BY DEF Slots
<1>5. Done = 0 /\ Through = 0
  BY DEF Done, Through
<1>6. Collected
  <2>1. SamplesOf(0) = 0
    BY DEF SamplesOf
  <2>2. QED
    BY <1>5, <2>1 DEF Collected
<1>7. Charged /\ StallsCharged
  BY DEF Charged, StallsCharged
<1>8. Reported
  BY <1>5 DEF Reported, ReportEvent
<1>9. QED
  BY <1>1, <1>2, <1>3, <1>4, <1>6, <1>7, <1>8 DEF IInv

-------------------------------------------------------------------------------
(* The consumer's part of the invariant does not change while its ring,    *)
(* its batch and the pacing stay.                                          *)

LEMMA ConsumerUntouched ==
    ASSUME IInv, UNCHANGED <<gating, hpc, at, interval, applied, hist>>
    PROVE  Collected' /\ StallsCharged' /\ Done' = Done /\ WholeReport' = WholeReport
<1>1. Done' = Done /\ Through' = Through
  BY DEF Done, Through
<1>2. SamplesOf(Through)' = SamplesOf(Through)
  BY <1>1 DEF SamplesOf, Paced
<1>3. QED
  BY <1>1, <1>2 DEF IInv, Collected, StallsCharged, WholeReport

LEMMA ChargedUntouched ==
    ASSUME IInv, UNCHANGED <<clock, interval, hist>>
    PROVE  Charged'
  BY DEF IInv, Charged, LatencyOf, DueAt

LEMMA IntactUntouched ==
    ASSUME NEW s \in Nat, Slot(s)' = Slot(s), UNCHANGED interval, Intact(s)
    PROVE  Intact(s)'
  BY DEF Intact, Stamp, Measured, Paced, DueAt, ReportEvent

LEMMA SlotsUntouched ==
    ASSUME IInv, UNCHANGED <<slots, gating, cursor, interval>>
    PROVE  Slots'
  BY DEF IInv, Slots, Intact, Slot, Stamp, Measured, Paced, DueAt

(* A step of run() that leaves the ring alone. *)
LEMMA RunGoesOn ==
    ASSUME IInv, Types', Publishing',
           UNCHANGED <<ringVars, threadVars, clock, interval, handlerVars>>,
           ppc' \notin {"returned", "thrown"},
           halted => halted'
    PROVE  IInv'
<1>1. UNCHANGED <<slots, cursor, gating, hpc, at, upTo, applied, hist, reportRef>>
  BY DEF ringVars, threadVars, handlerVars
<1>2. Batches'
  BY <1>1 DEF IInv, Batches
<1>3. Slots'
  BY <1>1, SlotsUntouched
<1>4. Collected' /\ StallsCharged' /\ Done' = Done /\ WholeReport' = WholeReport
  BY <1>1, ConsumerUntouched
<1>5. Charged'
  BY <1>1, ChargedUntouched
<1>6. Reported'
  BY <1>1, <1>4 DEF IInv, Reported
<1>7. QED
  BY <1>2, <1>3, <1>4, <1>5, <1>6 DEF IInv

LEMMA GenerateStep == ASSUME IInv, Generate PROVE IInv'
<1> USE Numbers DEF Generate, IInv
<1>1. UNCHANGED <<ringVars, threadVars, clock, interval, handlerVars, halted, i>>
  OBVIOUS
<1>2. UNCHANGED <<slots, cursor, gating, hpc, at, upTo, hist>>
  BY <1>1 DEF ringVars, threadVars, handlerVars
<1>3. Types'
  <2>1. nextDue' \in Nat /\ ts' = 0 /\ ppc' \in {"spin", "claim"}
    BY DEF Types, Paced, DueNext
  <2>2. QED
    BY <1>1, <1>2, <2>1 DEF Types, Looping
<1>4. Publishing'
  <2>1. ppc = "generate" /\ cursor = i /\ i < TotalOps /\ ~halted
    BY DEF Publishing, Looping, Over
  <2>2. CASE Paced
    <3>1. nextDue' = DueAt(i + 1) /\ ppc' = "spin"
      BY <2>1, <2>2, Schedule DEF Publishing, DueNext
    <3>2. QED
      BY <1>1, <1>2, <2>1, <2>2, <3>1 DEF Publishing, Looping, Over, Paced, DueAt
  <2>3. CASE ~Paced
    <3>1. ts' = 0 /\ ppc' = "claim" /\ Stamp(i + 1)' = 0
      BY <1>1, <2>3 DEF Stamp, Measured, Paced
    <3>2. QED
      BY <1>1, <1>2, <2>1, <2>3, <3>1 DEF Publishing, Looping, Over, Paced
  <2>4. QED
    BY <2>2, <2>3
<1>5. ppc' \notin {"returned", "thrown"}
  OBVIOUS
<1>6. QED
  BY <1>1, <1>3, <1>4, <1>5, RunGoesOn

LEMMA SpinEndsStep == ASSUME IInv, SpinEnds PROVE IInv'
<1> USE Numbers DEF SpinEnds, IInv
<1>1. UNCHANGED <<ringVars, threadVars, clock, interval, handlerVars, halted, i, nextDue>>
  OBVIOUS
<1>2. UNCHANGED <<slots, cursor, gating, hpc, at, upTo, hist>>
  BY <1>1 DEF ringVars, threadVars, handlerVars
<1>3. Types'
  BY <1>1, <1>2 DEF Types, Looping
<1>4. Publishing'
  <2>1. /\ ppc = "spin" /\ ppc' = "claim" /\ cursor = i /\ i < TotalOps /\ ~halted /\ Paced
        /\ nextDue = DueAt(i + 1)
    BY DEF Publishing, Looping, Over
  <2>2. ts' = Stamp(i + 1)
    BY <2>1 DEF Stamp, Measured
  <2>3. Stamp(i + 1)' = Stamp(i + 1)
    BY <1>1 DEF Stamp, Measured, Paced, DueAt
  <2>4. QED
    BY <1>1, <1>2, <2>1, <2>2, <2>3 DEF Publishing, Looping, Over, Paced, DueAt
<1>5. ppc' \notin {"returned", "thrown"}
  OBVIOUS
<1>6. QED
  BY <1>1, <1>3, <1>4, <1>5, RunGoesOn

LEMMA ClaimStep == ASSUME IInv, Claim PROVE IInv'
<1> USE Numbers DEF Claim, IInv
<1>1. UNCHANGED <<ringVars, threadVars, clock, interval, handlerVars, halted, i, nextDue, ts>>
  OBVIOUS
<1>2. UNCHANGED <<slots, cursor, gating, hpc, at, upTo, hist>>
  BY <1>1 DEF ringVars, threadVars, handlerVars
<1>3. Types'
  BY <1>1, <1>2 DEF Types, Looping
<1>4. Publishing'
  <2>1. /\ ppc' = "fill" /\ cursor = i /\ i <= TotalOps /\ ~halted /\ HasRoom
        /\ i < TotalOps => ts = Stamp(i + 1) /\ (Paced => nextDue = DueAt(i + 1))
    BY DEF Publishing, Looping, Over
  <2>2. HasRoom' /\ Stamp(i + 1)' = Stamp(i + 1) /\ DueAt(i + 1)' = DueAt(i + 1) /\ Paced' = Paced
    BY <1>1, <1>2, <2>1 DEF HasRoom, Stamp, Measured, Paced, DueAt
  <2>3. QED
    BY <1>1, <1>2, <2>1, <2>2 DEF Publishing, Looping, Over
<1>5. ppc' \notin {"returned", "thrown"}
  OBVIOUS
<1>6. QED
  BY <1>1, <1>3, <1>4, <1>5, RunGoesOn

LEMMA ShutdownStep == ASSUME IInv, Shutdown PROVE IInv'
<1> USE Numbers DEF Shutdown, IInv
<1>1. UNCHANGED <<ringVars, threadVars, clock, interval, handlerVars, i, nextDue, ts>>
  OBVIOUS
<1>2. UNCHANGED <<slots, cursor, gating, hpc, at, upTo, hist>>
  BY <1>1 DEF ringVars, threadVars, handlerVars
<1>3. Types'
  BY <1>1, <1>2 DEF Types, Over
<1>4. Publishing'
  <2>1. cursor = ReportEvent /\ gating = cursor /\ ppc' = "get" /\ halted'
    BY DEF Publishing, Looping, BacklogDone
  <2>2. QED
    BY <1>1, <1>2, <2>1 DEF Publishing, Looping, Over
<1>5. ppc' \notin {"returned", "thrown"} /\ halted'
  OBVIOUS
<1>6. QED
  BY <1>1, <1>3, <1>4, <1>5, RunGoesOn

(* Everything published is behind the consumer: the report is there. *)
LEMMA GetReportStep == ASSUME IInv, GetReport PROVE IInv'
<1> USE Numbers DEF GetReport, IInv
<1>1. UNCHANGED <<ringVars, threadVars, clock, interval, handlerVars, i, nextDue, ts, halted>>
  OBVIOUS
<1>2. UNCHANGED <<slots, cursor, gating, hpc, at, upTo, applied, hist, reportRef>>
  BY <1>1 DEF ringVars, threadVars, handlerVars
<1>3. reportRef = WholeReport
  <2>1. gating = cursor /\ cursor = ReportEvent
    BY DEF Publishing, Looping, Over
  <2>2. hpc \in {"wait", "end"}
    BY <2>1 DEF Batches, Types
  <2>3. Done = ReportEvent
    BY <2>1, <2>2 DEF Done, Through
  <2>4. QED
    BY <2>3 DEF Reported
<1>4. reportRef # NoReport
  <2>1. DOMAIN WholeReport = {"ops", "samples"} /\ DOMAIN NoReport = {"null"}
    BY DEF WholeReport, NoReport
  <2>2. QED
    BY <1>3, <2>1
<1>5. Types'
  BY <1>1, <1>2, <1>4 DEF Types, Over
<1>6. Publishing'
  <2>1. ppc = "get" /\ ppc' = "returned"
    BY <1>4
  <2>2. QED
    BY <1>1, <1>2, <2>1 DEF Publishing, Looping, Over
<1>7. Batches'
  BY <1>1, <1>2 DEF Batches
<1>8. Slots'
  BY <1>1, <1>2, SlotsUntouched
<1>9. Collected' /\ StallsCharged' /\ Done' = Done /\ WholeReport' = WholeReport
  BY <1>1, <1>2, ConsumerUntouched
<1>10. Charged'
  BY <1>1, <1>2, ChargedUntouched
<1>11. Reported'
  BY <1>2, <1>3, <1>4, <1>9 DEF Reported
<1>12. QED
  BY <1>5, <1>6, <1>7, <1>8, <1>9, <1>10, <1>11

(* The slot the producer fills next is not one of an event still there.    *)
LEMMA NextSlotIsFree ==
    ASSUME IInv, HasRoom
    PROVE  /\ cursor + 1 \in Nat /\ IndexOf(cursor + 1) \in 0 .. RingSize - 1
           /\ \A s \in gating + 1 .. cursor : IndexOf(s) # IndexOf(cursor + 1)
<1>1. RingSize \in Nat /\ cursor \in Nat /\ gating \in Nat /\ cursor + 1 - gating <= RingSize
  BY Numbers DEF IInv, HasRoom
<1>2. \A s \in gating + 1 .. cursor : s \in Nat /\ s < cursor + 1 /\ (cursor + 1) - s < RingSize
  BY <1>1
<1>3. QED
  BY <1>1, <1>2, SlotIndex

(* Filling the claimed slot disturbs no event that is still to be handled. *)
LEMMA FillStep == ASSUME IInv, Fill PROVE IInv'
<1> USE Numbers DEF Fill, IInv
<1>1. UNCHANGED <<cursor, gating, hpc, at, upTo, clock, interval, i, nextDue, ts, halted, applied,
                  hist, reportRef>>
  BY DEF threadVars, handlerVars
<1>2. HasRoom /\ cursor = i /\ i <= TotalOps /\ ~halted
  BY DEF Publishing, Looping, Over
<1>3. /\ cursor + 1 \in Nat
      /\ slots' \in [0 .. RingSize - 1 -> Event]
      /\ slots'[IndexOf(cursor + 1)] \in Event
      /\ i < TotalOps =>
           slots'[IndexOf(cursor + 1)] = [kind |-> "op", op |-> i + 1, ts |-> ts]
      /\ i = TotalOps =>
           slots'[IndexOf(cursor + 1)].kind = "report" /\ slots'[IndexOf(cursor + 1)].ts = 0
  <2> DEFINE old == slots[IndexOf(cursor + 1)]
             new == IF i < TotalOps THEN [kind |-> "op", op |-> i + 1, ts |-> ts]
                    ELSE [old EXCEPT !.kind = "report", !.ts = 0]
  <2>1. IndexOf(cursor + 1) \in 0 .. RingSize - 1 /\ old \in Event
    BY <1>2, NextSlotIsFree DEF Types
  <2>2. new \in Event /\ (i = TotalOps => new.kind = "report" /\ new.ts = 0)
    <3>1. /\ [old EXCEPT !.kind = "report", !.ts = 0] \in Event
          /\ [old EXCEPT !.kind = "report", !.ts = 0].kind = "report"
          /\ [old EXCEPT !.kind = "report", !.ts = 0].ts = 0
      <4> HIDE DEF old
      <4>1. QED
        BY <2>1 DEF Event
    <3>2. i \in Nat /\ ts \in Nat => [kind |-> "op", op |-> i + 1, ts |-> ts] \in Event
      BY DEF Event
    <3>3. QED
      BY <3>1, <3>2
  <2>3. slots' = [slots EXCEPT ![IndexOf(cursor + 1)] = new]
    OBVIOUS
  <2> HIDE DEF new, old
  <2>4. slots' \in [0 .. RingSize - 1 -> Event] /\ slots'[IndexOf(cursor + 1)] = new
    BY <2>1, <2>2, <2>3 DEF Types
  <2>5. i < TotalOps => new = [kind |-> "op", op |-> i + 1, ts |-> ts]
    BY DEF new
  <2>6. QED
    BY <1>2, <2>2, <2>4, <2>5, NextSlotIsFree
<1>4. \A s \in gating + 1 .. cursor : s \in Nat /\ slots'[IndexOf(s)] = slots[IndexOf(s)]
  <2>1. \A s \in gating + 1 .. cursor :
           s \in Nat /\ IndexOf(s) \in 0 .. RingSize - 1 /\ IndexOf(s) # IndexOf(cursor + 1)
    BY <1>2, NextSlotIsFree, SlotIndex
  <2>2. QED
    BY <2>1 DEF Types
<1>5. Types'
  <2>1. Types /\ ppc' = "publish"
    OBVIOUS
  <2>2. QED
    BY ONLY <1>1, <1>3, <2>1 DEF Types, Looping
<1>6. Publishing'
  <2>1. ASSUME NEW s, s = cursor + 1 PROVE Intact(s)'
    <3>1. Slot(s)' = slots'[IndexOf(s)] /\ ReportEvent' = ReportEvent
      BY DEF Slot, IndexOf, ReportEvent
    <3>2. Stamp(s)' = Stamp(s)
      BY <1>1 DEF Stamp, Measured, Paced, DueAt
    <3>3. CASE i < TotalOps
      <4>1. s # ReportEvent /\ s = i + 1 /\ ts = Stamp(i + 1)
        BY <1>2, <2>1, <3>3 DEF Publishing
      <4>2. Slot(s)' = [kind |-> "op", op |-> s, ts |-> Stamp(s)]
        BY ONLY <1>3, <2>1, <3>1, <3>3, <4>1
      <4>3. QED
        BY ONLY <3>1, <3>2, <4>1, <4>2 DEF Intact
    <3>4. CASE i = TotalOps
      <4>1. s = ReportEvent /\ Stamp(s) = 0
        BY <1>2, <2>1, <3>4 DEF Stamp, Measured
      <4>2. QED
        BY <1>3, <2>1, <3>1, <3>2, <3>4, <4>1 DEF Intact
    <3>5. QED
      BY <1>2, <3>3, <3>4
  <2>2. Intact(cursor + 1)'
    BY <1>1, <2>1
  <2>3. /\ ppc = "fill" /\ ppc' = "publish"
        /\ i < TotalOps => ts = Stamp(i + 1) /\ (Paced => nextDue = DueAt(i + 1))
    BY DEF Publishing
  <2>4. HasRoom' /\ Stamp(i + 1)' = Stamp(i + 1) /\ DueAt(i + 1)' = DueAt(i + 1) /\ Paced' = Paced
    BY <1>1, <1>2 DEF HasRoom, Stamp, Measured, Paced, DueAt
  <2>5. QED
    BY <1>1, <1>2, <2>2, <2>3, <2>4 DEF Publishing, Looping, Over
<1>7. Batches'
  BY <1>1 DEF Batches
<1>8. Slots'
  <2>1. ASSUME NEW s \in gating + 1 .. cursor PROVE Intact(s)'
    <3>1. s \in Nat /\ Slot(s)' = Slot(s) /\ Intact(s)
      BY <1>4 DEF Slot, IndexOf, Slots
    <3>2. QED
      BY <1>1, <3>1, IntactUntouched
  <2>2. QED
    BY <1>1, <2>1 DEF Slots
<1>9. Collected' /\ StallsCharged' /\ Done' = Done /\ WholeReport' = WholeReport
  BY <1>1, ConsumerUntouched
<1>10. Charged'
  BY <1>1, ChargedUntouched
<1>11. Reported'
  BY <1>1, <1>9 DEF Reported
<1>12. QED
  BY <1>5, <1>6, <1>7, <1>8, <1>9, <1>10, <1>11

LEMMA PublishStep == ASSUME IInv, Publish PROVE IInv'
<1> USE Numbers DEF Publish, IInv
<1>1. UNCHANGED <<slots, gating, hpc, at, upTo, clock, interval, nextDue, ts, halted, applied,
                  hist, reportRef>>
  BY DEF threadVars, handlerVars
<1>2. /\ ppc = "publish" /\ cursor' = cursor + 1 /\ HasRoom
      /\ cursor = i /\ i <= TotalOps /\ ~halted
      /\ Intact(cursor + 1)
      /\ i < TotalOps /\ Paced => nextDue = DueAt(i + 1)
  BY DEF Publishing, Looping, Over
<1>3. \/ i < TotalOps /\ i' = i + 1 /\ ppc' = "generate"
      \/ i = TotalOps /\ i' = i /\ ppc' = "shutdown"
  BY <1>2
<1>4. Types'
  <2>1. cursor' \in Nat /\ i' \in Nat /\ ppc' \in Looping \cup {"shutdown"}
    BY <1>2, <1>3 DEF Looping
  <2>2. Types
    OBVIOUS
  <2>3. QED
    BY ONLY <1>1, <2>1, <2>2 DEF Types
<1>5. Publishing'
  <2>1. Paced' = Paced /\ ReportEvent' = ReportEvent
    BY <1>1 DEF Paced, ReportEvent
  <2>2. CASE i < TotalOps
    <3>1. i' = i + 1 /\ ppc' = "generate" /\ (Paced => nextDue = DueAt(i)')
      BY <1>1, <1>2, <1>3, <2>2 DEF DueAt
    <3>2. QED
      BY <1>1, <1>2, <2>1, <2>2, <3>1 DEF Publishing, Looping, Over
  <2>3. CASE i = TotalOps
    <3>1. i' = i /\ ppc' = "shutdown"
      BY <1>3, <2>3
    <3>2. QED
      BY <1>1, <1>2, <2>1, <2>3, <3>1 DEF Publishing, Looping, Over, ReportEvent
  <2>4. QED
    BY <1>2, <2>2, <2>3
<1>6. Batches'
  <2>1. cursor + 1 - gating <= RingSize
    BY <1>2 DEF HasRoom
  <2>2. QED
    BY <1>1, <1>2, <2>1 DEF Batches
<1>7. Slots'
  <2>1. \A s \in gating + 1 .. cursor + 1 : s \in Nat /\ Intact(s)
    BY <1>2 DEF Slots
  <2>2. \A s \in gating + 1 .. cursor + 1 : Slot(s)' = Slot(s)
    BY <1>1 DEF Slot, IndexOf
  <2>3. \A s \in gating + 1 .. cursor + 1 : Intact(s)'
    BY <1>1, <2>1, <2>2, IntactUntouched
  <2>4. QED
    BY <1>1, <1>2, <2>3 DEF Slots
<1>8. Collected' /\ StallsCharged' /\ Done' = Done /\ WholeReport' = WholeReport
  BY <1>1, ConsumerUntouched
<1>9. Charged'
  BY <1>1, ChargedUntouched
<1>10. Reported'
  BY <1>1, <1>3, <1>8 DEF Reported
<1>11. QED
  BY <1>4, <1>5, <1>6, <1>7, <1>8, <1>9, <1>10

-------------------------------------------------------------------------------
(* A step of the consumer thread: run() is still where it was, and not yet *)
(* past shutdown().                                                        *)
LEMMA RunUntouched ==
    ASSUME IInv, UNCHANGED <<producerVars, slots, cursor>>, gating <= gating', gating' \in Nat,
           ~halted
    PROVE  Publishing' /\ ppc \notin Over
<1>1. UNCHANGED <<slots, cursor, ppc, interval, i, nextDue, ts, halted>>
  BY DEF producerVars
<1>2. HasRoom => HasRoom'
  BY <1>1, Numbers DEF IInv, HasRoom
<1>3. Intact(cursor + 1) => Intact(cursor + 1)'
  BY <1>1 DEF Intact, Slot, IndexOf, Stamp, Measured, Paced, DueAt, ReportEvent
<1>4. QED
  BY <1>1, <1>2, <1>3 DEF IInv, Publishing, Stamp, Measured, Paced, DueAt, ReportEvent

(* While the thread is in a batch, run() is not past shutdown(). *)
LEMMA InBatch ==
    ASSUME IInv, hpc \in {"handle", "record", "commit"} \/ gating < cursor
    PROVE  ~halted
  BY Numbers DEF IInv, Batches, Publishing

(* When the handler has returned from an event the consumer is through     *)
(* with it: it is at the next one of the batch, or the batch is done.      *)
LEMMA HandlerReturned ==
    ASSUME IInv, hpc \in {"handle", "record"}, HandlerReturns,
           UNCHANGED <<gating, cursor, upTo, halted>>
    PROVE  /\ Batches' /\ Through' = at /\ Done' = at
           /\ at' \in Nat /\ hpc' \in {"handle", "commit"}
<1>1. /\ gating < at /\ at <= upTo /\ upTo <= cursor
      /\ gating <= cursor /\ cursor - gating <= RingSize
  BY DEF IInv, Batches
<1>2. at \in Nat /\ upTo \in Nat /\ gating \in Nat /\ cursor \in Nat /\ RingSize \in Nat
  BY Numbers DEF IInv
<1>3. CASE at = upTo
  <2>1. hpc' = "commit" /\ at' = at
    BY <1>3 DEF HandlerReturns
  <2>2. QED
    BY ONLY <1>1, <1>2, <1>3, <2>1, IInv, UNCHANGED <<gating, cursor, upTo, halted>>
       DEF Batches, Through, Done
<1>4. CASE at # upTo
  <2>1. hpc' = "handle" /\ at' = at + 1
    BY <1>4 DEF HandlerReturns
  <2>2. QED
    BY ONLY <1>1, <1>2, <1>4, <2>1, IInv, UNCHANGED <<gating, cursor, upTo, halted>>
       DEF Batches, Through, Done
<1>5. QED
  BY <1>3, <1>4

(* The event the handler is called with is published and its slot intact.  *)
LEMMA EventAt ==
    ASSUME IInv, hpc \in {"handle", "record"}
    PROVE  /\ at \in 1 .. ReportEvent
           /\ Intact(at)
<1>1. at \in gating + 1 .. cursor
  BY Numbers DEF IInv, Batches
<1>2. cursor <= ReportEvent
  BY Numbers DEF IInv, Publishing
<1>3. QED
  BY <1>1, <1>2, Numbers DEF IInv, Slots

LEMMA NewBatchStep ==
    ASSUME IInv, NewBatch, UNCHANGED <<producerVars, handlerVars>>
    PROVE  IInv'
<1> USE Numbers DEF NewBatch, IInv
<1>1. UNCHANGED <<slots, cursor, gating, clock, ppc, interval, i, nextDue, ts, halted, result,
                  applied, hist, reportRef>>
  BY DEF ringVars, producerVars, handlerVars
<1>2. Types'
  BY <1>1 DEF Types
<1>3. Publishing' /\ ppc \notin Over
  BY <1>1, InBatch, RunUntouched
<1>4. Batches'
  BY <1>1 DEF Batches
<1>5. Slots'
  BY <1>1, SlotsUntouched
<1>6. Through' = Through /\ Done' = Done
  BY <1>1 DEF Through, Done
<1>7. SamplesOf(Through)' = SamplesOf(Through)
  BY <1>1, <1>6 DEF SamplesOf, Paced
<1>8. Collected' /\ StallsCharged'
  BY <1>1, <1>6, <1>7 DEF Collected, StallsCharged
<1>9. Charged'
  BY <1>1, ChargedUntouched
<1>10. Reported'
  BY <1>1, <1>6 DEF Reported, WholeReport
<1>11. QED
  BY <1>2, <1>3, <1>4, <1>5, <1>8, <1>9, <1>10

LEMMA CommitBatchStep ==
    ASSUME IInv, CommitBatch, UNCHANGED <<producerVars, handlerVars>>
    PROVE  IInv'
<1> USE Numbers DEF CommitBatch, IInv
<1>1. UNCHANGED <<slots, cursor, at, upTo, clock, ppc, interval, i, nextDue, ts, halted, result,
                  applied, hist, reportRef>>
  BY DEF producerVars, handlerVars
<1>2. gating' = at /\ gating < at /\ at <= cursor
  BY DEF Batches
<1>3. Types'
  BY <1>1, <1>2 DEF Types
<1>4. Publishing' /\ ppc \notin Over
  <2>1. gating <= gating' /\ gating' \in Nat
    BY <1>2
  <2>2. QED
    BY <1>1, <2>1, InBatch, RunUntouched
<1>5. Batches'
  BY <1>1, <1>2 DEF Batches
<1>6. Slots'
  BY <1>1, <1>2 DEF Slots, Intact, Slot, Stamp, Measured, Paced, DueAt
<1>7. Through' = Through /\ Done' = Done
  BY <1>1, <1>2 DEF Through, Done
<1>8. SamplesOf(Through)' = SamplesOf(Through)
  BY <1>1, <1>7 DEF SamplesOf, Paced
<1>9. Collected' /\ StallsCharged'
  BY <1>1, <1>7, <1>8 DEF Collected, StallsCharged
<1>10. Charged'
  BY <1>1, ChargedUntouched
<1>11. Reported'
  BY <1>1, <1>7 DEF Reported, WholeReport
<1>12. QED
  BY <1>3, <1>4, <1>5, <1>6, <1>9, <1>10, <1>11

LEMMA ThreadEndsStep ==
    ASSUME IInv, ThreadEnds(halted), UNCHANGED <<producerVars, handlerVars>>
    PROVE  IInv'
<1> USE Numbers DEF ThreadEnds, IInv
<1>1. UNCHANGED <<slots, cursor, gating, at, upTo, clock, ppc, interval, i, nextDue, ts, halted,
                  result, applied, hist, reportRef>>
  BY DEF ringVars, producerVars, handlerVars
<1>2. Types'
  BY <1>1 DEF Types
<1>3. Publishing'
  BY <1>1 DEF Publishing, Looping, Over, ReportEvent
<1>4. Batches'
  BY <1>1 DEF Batches
<1>5. Slots'
  BY <1>1, SlotsUntouched
<1>6. Through' = Through /\ Done' = Done
  BY <1>1 DEF Through, Done
<1>7. SamplesOf(Through)' = SamplesOf(Through)
  BY <1>1, <1>6 DEF SamplesOf, Paced
<1>8. Collected' /\ StallsCharged'
  BY <1>1, <1>6, <1>7 DEF Collected, StallsCharged
<1>9. Charged'
  BY <1>1, ChargedUntouched
<1>10. Reported'
  BY <1>1, <1>6 DEF Reported, WholeReport
<1>11. QED
  BY <1>2, <1>3, <1>4, <1>5, <1>8, <1>9, <1>10

LEMMA ApplyStep == ASSUME IInv, Apply PROVE IInv'
<1> USE Numbers DEF Apply, IInv
<1>1. UNCHANGED <<slots, cursor, gating, at, upTo, clock, ppc, interval, i, nextDue, ts, halted,
                  result, hist, reportRef>>
  BY DEF ringVars, producerVars
<1>2. at \in 1 .. TotalOps /\ Slot(at).op = at
  BY EventAt DEF Intact
<1>3. Types'
  BY <1>1 DEF Types
<1>4. Publishing' /\ ppc \notin Over
  BY <1>1, InBatch, RunUntouched
<1>5. Batches'
  BY <1>1, <1>2 DEF Batches
<1>6. Slots'
  BY <1>1, SlotsUntouched
<1>7. Through' = Through /\ Done = at - 1 /\ Done' = at
  BY <1>1 DEF Through, Done
<1>8. Collected'
  <2>1. at - 1 \in Nat /\ (at - 1) + 1 = at
    BY <1>2
  <2>2. applied = [k \in 1 .. at - 1 |-> k]
    BY <1>7 DEF Collected
  <2>3. applied' = [k \in 1 .. at |-> k]
    BY <1>2, <2>1, <2>2, AppendNext
  <2>4. SamplesOf(Through)' = SamplesOf(Through)
    BY <1>1, <1>7 DEF SamplesOf, Paced
  <2>5. QED
    BY <1>1, <1>7, <2>3, <2>4 DEF Collected
<1>9. Charged' /\ StallsCharged'
  BY <1>1, ChargedUntouched DEF StallsCharged
<1>10. Reported'
  <2>1. Done # ReportEvent /\ Done' # ReportEvent' /\ ReportEvent' = ReportEvent
    BY <1>2, <1>7 DEF ReportEvent
  <2>2. QED
    BY <1>1, <1>4, <2>1 DEF Reported, Over
<1>11. QED
  BY <1>3, <1>4, <1>5, <1>6, <1>8, <1>9, <1>10

(* Later or not, the schedule moves on by an interval and no more. *)
LEMMA LatencySteps ==
    ASSUME Types, NEW s \in Nat
    PROVE  /\ LatencyOf(s) \in Int
           /\ LatencyOf(s + 1) >= LatencyOf(s) - interval
  BY Schedule, Numbers DEF LatencyOf

LEMMA RecordStep == ASSUME IInv, Record PROVE IInv'
<1> USE Numbers DEF Record, IInv
<1>1. UNCHANGED <<slots, cursor, gating, upTo, clock, ppc, interval, i, nextDue, ts, halted,
                  result, applied, reportRef>>
  BY DEF ringVars, producerVars
<1>2. /\ at \in 1 .. TotalOps /\ at - 1 \in Nat /\ (at - 1) + 1 = at
      /\ Slot(at).ts = Stamp(at) /\ Stamp(at) \in Nat
      /\ (Stamp(at) # 0 <=> Measured(at))
  <2>1. at \in 1 .. TotalOps /\ Intact(at)
    BY EventAt DEF Batches
  <2>2. QED
    BY <2>1, Schedule DEF Intact
<1>3. Batches' /\ Through' = at /\ Done' = at /\ at' \in Nat /\ hpc' \in {"handle", "commit"}
  BY <1>1, HandlerReturned
<1>4. Through = at - 1 /\ Done = at
  BY DEF Through, Done
<1>5. SamplesOf(Through)' = SamplesOf(at)
  BY <1>1, <1>3 DEF SamplesOf, Paced
<1>6. /\ hist \in Seq(Sample) /\ Len(hist) \in Nat /\ Len(hist) = SamplesOf(at - 1)
      /\ \A k \in 1 .. Len(hist) : hist[k].op = WarmupOps + k
  BY <1>4 DEF Types, Collected
<1>7. /\ hist' \in Seq(Sample)
      /\ Len(hist') = SamplesOf(at)
      /\ \A k \in 1 .. Len(hist') : hist'[k].op = WarmupOps + k
      /\ Charged' /\ StallsCharged'
  <2>1. CASE Measured(at)
    <3> DEFINE e == [op |-> at, value |-> LatencyOf(at)]
    <3>1. e \in Sample /\ hist' = Append(hist, e)
      <4>1. clock - DueAt(at) \in Int /\ LatencyOf(at) \in Int
        <5>1. at \in Nat /\ clock \in Nat /\ Types
          OBVIOUS
        <5>2. DueAt(at) \in Nat
          BY ONLY <5>1, Schedule
        <5>3. QED
          BY ONLY <5>1, <5>2 DEF LatencyOf
      <4>2. Max({1, clock - Slot(at).ts}) = LatencyOf(at)
        BY <1>2, <2>1, <4>1, LargerOf DEF Stamp, LatencyOf
      <4>3. e \in Sample
        BY <1>2, <4>1 DEF Sample
      <4>4. QED
        BY <1>2, <2>1, <4>2, <4>3
    <3>2. /\ SamplesOf(at) = Len(hist) + 1 /\ Len(hist) + 1 = at - WarmupOps
      <4>1. \A n \in Nat : Measured(n + 1) =>
               SamplesOf(n + 1) = SamplesOf(n) + 1 /\ SamplesOf(n) + 1 = n + 1 - WarmupOps
        BY OneMore
      <4>2. QED
        BY <1>2, <1>6, <2>1, <4>1
    <3>3. /\ hist' \in Seq(Sample) /\ Len(hist') = Len(hist) + 1
          /\ hist'[Len(hist) + 1] = e
          /\ \A k \in 1 .. Len(hist) : hist'[k] = hist[k]
      <4> HIDE DEF e
      <4>1. QED
        BY ONLY <1>6, <3>1
    <3>4. e.op = WarmupOps + (Len(hist) + 1) /\ e.value = LatencyOf(at)
      BY <1>2, <3>2
    <3> HIDE DEF e
    <3>5. \A k \in 1 .. Len(hist') : hist'[k].op = WarmupOps + k
      BY ONLY <1>6, <3>3, <3>4
    <3>6. Charged'
      <4>1. hist'[Len(hist')].value = LatencyOf(at) /\ WarmupOps + Len(hist') = at
        <5>1. at \in Int /\ WarmupOps \in Int
          OBVIOUS
        <5>2. QED
          BY ONLY <1>6, <3>2, <3>3, <3>4, <5>1
      <4>2. LatencyOf(at) <= LatencyOf(at)
        BY <1>2, LatencySteps
      <4>3. hist'[Len(hist')].value <= LatencyOf(WarmupOps + Len(hist'))
        BY <4>1, <4>2
      <4>4. QED
        BY <1>1, <4>3 DEF Charged, LatencyOf, DueAt
    <3>7. StallsCharged'
      <4> SUFFICES ASSUME NEW k \in 1 .. Len(hist') - 1
                   PROVE  hist'[k + 1].value >= hist'[k].value - interval
        BY <1>1 DEF StallsCharged
      <4>1. k \in 1 .. Len(hist) /\ hist'[k] = hist[k]
        BY <1>6, <3>3
      <4>2. CASE k \in 1 .. Len(hist) - 1
        <5>1. k + 1 \in 1 .. Len(hist)
          BY <1>6, <4>2
        <5>2. hist'[k + 1] = hist[k + 1]
          BY <3>3, <5>1
        <5>3. QED
          BY <4>1, <4>2, <5>2 DEF StallsCharged
      <4>3. CASE k = Len(hist)
        <5>1. hist # <<>> /\ WarmupOps + Len(hist) = at - 1
          <6>1. at \in Int /\ WarmupOps \in Int /\ Len(hist) \in Nat
            BY <1>6
          <6>2. QED
            BY ONLY <1>6, <3>2, <4>1, <4>3, <6>1
        <5>2. hist[k].value <= LatencyOf(at - 1)
          BY <4>3, <5>1 DEF Charged
        <5>3. hist'[k + 1].value = LatencyOf(at)
          BY <3>3, <3>4, <4>3
        <5>4. /\ LatencyOf(at) >= LatencyOf(at - 1) - interval
              /\ LatencyOf(at) \in Int /\ LatencyOf(at - 1) \in Int
          BY <1>2, LatencySteps
        <5>5. hist[k].value \in Int
          <6>1. hist[k] \in Sample
            BY ONLY <1>6, <4>1
          <6>2. QED
            BY ONLY <6>1 DEF Sample
        <5>6. interval \in Int
          OBVIOUS
        <5>7. QED
          BY ONLY <4>1, <5>2, <5>3, <5>4, <5>5, <5>6
      <4>4. QED
        BY ONLY <1>6, <4>1, <4>2, <4>3
    <3>8. QED
      BY <3>2, <3>3, <3>5, <3>6, <3>7
  <2>2. CASE ~Measured(at)
    <3>1. hist' = hist
      BY <1>2, <2>2
    <3>2. SamplesOf(at) = SamplesOf(at - 1)
      <4>1. \A n \in Nat : ~Measured(n + 1) => SamplesOf(n + 1) = SamplesOf(n)
        BY OneMore
      <4>2. QED
        BY <1>2, <2>2, <4>1
    <3>3. Charged' /\ StallsCharged'
      BY <1>1, <3>1, ChargedUntouched DEF StallsCharged
    <3>4. QED
      BY <1>6, <3>1, <3>2, <3>3
  <2>3. QED
    BY <2>1, <2>2
<1>8. Types'
  <2>1. Types
    OBVIOUS
  <2>2. QED
    BY ONLY <1>1, <1>3, <1>7, <2>1 DEF Types
<1>9. Publishing' /\ ppc \notin Over
  BY <1>1, InBatch, RunUntouched
<1>10. Slots'
  BY <1>1, SlotsUntouched
<1>11. Collected'
  <2>1. applied = [k \in 1 .. at |-> k]
    BY <1>4 DEF Collected
  <2>2. QED
    BY <1>1, <1>3, <1>5, <1>7, <2>1 DEF Collected
<1>12. Reported'
  <2>1. Done # ReportEvent /\ Done' # ReportEvent' /\ ReportEvent' = ReportEvent
    BY <1>2, <1>3, <1>4 DEF ReportEvent
  <2>2. QED
    BY <1>1, <1>9, <2>1 DEF Reported, Over
<1>13. QED
  BY <1>3, <1>7, <1>8, <1>9, <1>10, <1>11, <1>12

LEMMA SetReportStep == ASSUME IInv, SetReport PROVE IInv'
<1> USE Numbers DEF SetReport, IInv
<1>1. UNCHANGED <<slots, cursor, gating, upTo, clock, ppc, interval, i, nextDue, ts, halted,
                  result, hist>>
  BY DEF ringVars, producerVars
<1>2. at = ReportEvent
  BY EventAt DEF Intact
<1>3. Batches' /\ Through' = at /\ Done' = at /\ at' \in Nat /\ hpc' \in {"handle", "commit"}
  BY <1>1, HandlerReturned
<1>4. Through = TotalOps /\ Done = TotalOps
  BY <1>2 DEF Through, Done
<1>5. Types'
  <2>1. Types
    OBVIOUS
  <2>2. QED
    BY ONLY <1>1, <1>3, <2>1 DEF Types
<1>6. Publishing' /\ ppc \notin Over
  BY <1>1, InBatch, RunUntouched
<1>7. Slots'
  BY <1>1, SlotsUntouched
<1>8. applied = [k \in 1 .. TotalOps |-> k]
  BY <1>4 DEF Collected
<1>9. Collected'
  <2>1. applied' = [k \in 1 .. TotalOps + 1 |-> k]
    BY <1>8, AppendNext
  <2>2. SamplesOf(Through)' = SamplesOf(TotalOps)
    <3>1. SamplesOf(Through)' = SamplesOf(TotalOps + 1)
      BY <1>1, <1>2, <1>3 DEF SamplesOf, Paced
    <3>2. SamplesOf(TotalOps + 1) = SamplesOf(TotalOps)
      BY DEF SamplesOf
    <3>3. QED
      BY <3>1, <3>2
  <2>3. QED
    BY <1>1, <1>2, <1>3, <1>4, <2>1, <2>2 DEF Collected
<1>10. Charged' /\ StallsCharged'
  BY <1>1, ChargedUntouched DEF StallsCharged
<1>11. Reported'
  <2>1. reportRef' = WholeReport'
    BY <1>1, <1>8 DEF WholeReport
  <2>2. Done' = ReportEvent'
    BY <1>2, <1>3 DEF ReportEvent
  <2>3. QED
    BY <1>1, <1>6, <2>1, <2>2 DEF Reported, Over
<1>12. QED
  BY <1>3, <1>5, <1>6, <1>7, <1>9, <1>10, <1>11

(* A later clock only makes a latency larger. *)
LEMMA TickStep ==
    ASSUME IInv, Tick, UNCHANGED <<producerVars, handlerVars>>
    PROVE  IInv'
<1> USE Numbers DEF Tick, IInv
<1>1. UNCHANGED <<slots, cursor, gating, hpc, at, upTo, ppc, interval, i, nextDue, ts, halted,
                  result, applied, hist, reportRef>>
  BY DEF ringVars, threadVars, producerVars, handlerVars
<1>2. Types'
  BY <1>1 DEF Types
<1>3. Publishing'
  BY <1>1
     DEF Publishing, HasRoom, Intact, Slot, IndexOf, Stamp, Measured, Paced, DueAt, ReportEvent
<1>4. Batches'
  BY <1>1 DEF Batches
<1>5. Slots'
  BY <1>1, SlotsUntouched
<1>6. Collected' /\ StallsCharged' /\ Done' = Done /\ WholeReport' = WholeReport
  BY <1>1, ConsumerUntouched
<1>7. Charged'
  <2> DEFINE last == WarmupOps + Len(hist)
  <2> SUFFICES ASSUME hist # <<>> PROVE hist[Len(hist)].value <= LatencyOf(last)'
    BY <1>1 DEF Charged
  <2>1. hist \in Seq(Sample) /\ Len(hist) \in Nat /\ Len(hist) \in 1 .. Len(hist)
    BY DEF Types
  <2>2. hist[Len(hist)].value \in Int /\ hist[Len(hist)].value <= LatencyOf(last)
    <3>1. hist[Len(hist)] \in Sample
      BY ONLY <2>1
    <3>2. QED
      BY <3>1 DEF Sample, Charged
  <2>3. last \in Nat /\ DueAt(last) \in Nat
    <3>1. last \in Nat /\ Types
      BY <2>1
    <3>2. QED
      BY ONLY <3>1, Schedule
  <2>4. DueAt(last)' = DueAt(last)
    BY <1>1 DEF DueAt
  <2>5. LatencyOf(last)' >= LatencyOf(last) /\ LatencyOf(last) \in Int /\ LatencyOf(last)' \in Int
    <3> HIDE DEF last
    <3>1. clock \in Int /\ clock' = clock + 1
      OBVIOUS
    <3>2. QED
      BY ONLY <2>3, <2>4, <3>1 DEF LatencyOf
  <2>6. QED
    BY ONLY <2>2, <2>5
<1>8. Reported'
  BY <1>1, <1>6 DEF Reported
<1>9. QED
  BY <1>2, <1>3, <1>4, <1>5, <1>6, <1>7, <1>8

LEMMA StutterStep == ASSUME IInv, UNCHANGED vars PROVE IInv'
<1> USE DEF IInv
<1>1. UNCHANGED <<slots, cursor, gating, hpc, at, upTo, clock, ppc, interval, i, nextDue, ts,
                  halted, result, applied, hist, reportRef>>
  BY DEF vars, ringVars, threadVars, producerVars, handlerVars
<1>2. Types' /\ Batches'
  BY <1>1 DEF Types, Batches
<1>3. Publishing'
  BY <1>1
     DEF Publishing, HasRoom, Intact, Slot, IndexOf, Stamp, Measured, Paced, DueAt, ReportEvent
<1>4. Slots' /\ Charged'
  BY <1>1, SlotsUntouched, ChargedUntouched
<1>5. Collected' /\ StallsCharged' /\ Done' = Done /\ WholeReport' = WholeReport
  BY <1>1, ConsumerUntouched
<1>6. Reported'
  BY <1>1, <1>5 DEF Reported
<1>7. QED
  BY <1>2, <1>3, <1>4, <1>5, <1>6

LEMMA NextStep == IInv /\ [Next]_vars => IInv'
<1> SUFFICES ASSUME IInv, [Next]_vars PROVE IInv'
  OBVIOUS
<1>1. CASE Producer
  BY <1>1, GenerateStep, SpinEndsStep, ClaimStep, FillStep, PublishStep, ShutdownStep,
     GetReportStep DEF Producer
<1>2. CASE Consumer
  BY <1>2, ApplyStep, RecordStep, SetReportStep, NewBatchStep, CommitBatchStep, ThreadEndsStep
     DEF Consumer, Library
<1>3. CASE Tick /\ UNCHANGED <<producerVars, handlerVars>>
  BY <1>3, TickStep
<1>4. CASE TimeIsUp \/ UNCHANGED vars
  BY <1>4, StutterStep DEF TimeIsUp
<1>5. QED
  BY <1>1, <1>2, <1>3, <1>4 DEF Next

LEMMA Invariance == Spec => []IInv
  BY InitIInv, NextStep, PTL DEF Spec, SafeSpec

-------------------------------------------------------------------------------
(* What the inductive invariant implies. *)

(* shutdown() waits for everything published, the sentinel included: the   *)
(* AtomicReference is set when run() reads it, with a report of every      *)
(* operation and every sample, and run() never throws.                     *)
THEOREM ReportCompleteHolds == Spec => []ReportComplete
<1>1. ASSUME IInv PROVE ReportComplete
  <2>1. ppc # "thrown"
    BY <1>1 DEF IInv, Reported
  <2>2. ASSUME ppc = "returned"
        PROVE  /\ result.ops = [k \in 1 .. TotalOps |-> k]
               /\ [k \in DOMAIN result.samples |-> result.samples[k].op]
                    = [k \in 1 .. (IF Paced THEN TotalOps - WarmupOps ELSE 0) |-> WarmupOps + k]
    <3>1. result.ops = [k \in 1 .. TotalOps |-> k] /\ result.samples = hist
      BY <1>1, <2>2 DEF IInv, Reported, WholeReport
    <3>2. gating = cursor /\ cursor = ReportEvent
      BY <1>1, <2>2 DEF IInv, Publishing, Looping, Over
    <3>3. Through = ReportEvent
      <4>1. hpc \in {"wait", "end"}
        BY <1>1, <3>2, Numbers DEF IInv, Batches, Types
      <4>2. QED
        BY <3>2, <4>1 DEF Through
    <3>4. Len(hist) = IF Paced THEN TotalOps - WarmupOps ELSE 0
      BY <1>1, <3>3, Numbers DEF IInv, Collected, SamplesOf
    <3>5. DOMAIN hist = 1 .. (IF Paced THEN TotalOps - WarmupOps ELSE 0)
      BY <1>1, <3>4 DEF IInv, Types
    <3>6. \A k \in DOMAIN hist : hist[k].op = WarmupOps + k
      BY <1>1, <3>4, <3>5 DEF IInv, Collected
    <3>7. QED
      BY <3>1, <3>5, <3>6
  <2>3. QED
    BY <2>1, <2>2 DEF ReportComplete
<1>2. QED
  BY <1>1, Invariance, PTL

(* The schedule of the Java run does not slip: from one sample to the next *)
(* the latency falls by no more than the interval, whatever stalls the two *)
(* threads and however long they wait for each other.                      *)
THEOREM StallsChargedHolds == Spec => []StallsCharged
<1>1. IInv => StallsCharged
  BY DEF IInv
<1>2. QED
  BY <1>1, Invariance, PTL

-------------------------------------------------------------------------------
(* The harness refines the channel: publish() is Send, the dispatch of an  *)
(* event in onEvent is Deliver, all else stutters.                         *)

Channel == INSTANCE EventChannel WITH
               Capacity <- RingSize, Events <- TotalOps + 1,
               sent <- cursor, delivered <- applied

LEMMA DeliveredCount == IInv => Len(applied) = Done /\ gating <= Done /\ Done \in Nat
<1> SUFFICES ASSUME IInv PROVE Len(applied) = Done /\ gating <= Done /\ Done \in Nat
  OBVIOUS
<1>1. Done \in Nat /\ gating <= Done
  BY Numbers DEF IInv, Types, Batches, Done, Through
<1>2. QED
  BY <1>1 DEF IInv, Collected

LEMMA PublishIsSend ==
    ASSUME IInv, Publish
    PROVE  Channel!Send
<1>1. HasRoom /\ cursor' = cursor + 1 /\ UNCHANGED applied
  BY DEF IInv, Publishing, Publish, handlerVars
<1>2. cursor < TotalOps + 1
  BY Numbers DEF IInv, Publishing, Publish, Looping
<1>3. cursor - Len(applied) < RingSize
  <2>1. cursor + 1 - gating <= RingSize /\ gating <= Len(applied) /\ Len(applied) \in Nat
    BY <1>1, DeliveredCount DEF HasRoom
  <2>2. cursor \in Nat /\ gating \in Nat /\ RingSize \in Nat
    BY Numbers DEF IInv
  <2>3. QED
    BY ONLY <2>1, <2>2
<1>4. QED
  BY <1>1, <1>2, <1>3 DEF Channel!Send

LEMMA DispatchIsDeliver ==
    ASSUME IInv, Apply \/ SetReport
    PROVE  Channel!Deliver
<1>1. hpc = "handle" /\ UNCHANGED cursor
  BY DEF Apply, SetReport, ringVars
<1>2. Len(applied) = at - 1 /\ at <= cursor /\ at \in Nat /\ cursor \in Nat
  BY <1>1, DeliveredCount, Numbers DEF IInv, Batches, Done, Through
<1>3. applied' = Append(applied, at)
  BY <1>1, EventAt DEF Intact, Apply, SetReport
<1>4. QED
  BY <1>1, <1>2, <1>3 DEF Channel!Deliver

LEMMA OtherStepsStutter ==
    ASSUME [Next]_vars, ~Publish, ~Apply, ~SetReport
    PROVE  UNCHANGED <<cursor, applied>>
  BY DEF Next, Producer, Consumer, Library, TimeIsUp, Tick, vars, ringVars, producerVars,
         handlerVars, Generate, SpinEnds, Claim, Fill, Shutdown, GetReport, Record, NewBatch,
         CommitBatch, ThreadEnds

(* Ring, batches and handler behave as a bounded channel that loses,       *)
(* duplicates and reorders nothing, whatever the pacing (its safety part;  *)
(* that the run ends, all delivered, is left to the model checker).        *)
THEOREM RefinesChannel == Spec => Channel!SafeSpec
<1>1. Init => Channel!Init
  BY DEF Init, RingInit, Channel!Init
<1>2. IInv /\ [Next]_vars => [Channel!Next]_(Channel!channelVars)
  BY PublishIsSend, DispatchIsDeliver, OtherStepsStutter DEF Channel!Next, Channel!channelVars
<1>3. QED
  BY <1>1, <1>2, Invariance, PTL DEF Spec, SafeSpec, Channel!SafeSpec

===============================================================================
