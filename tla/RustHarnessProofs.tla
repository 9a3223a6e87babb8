-------------------------- MODULE RustHarnessProofs ---------------------------
(***************************************************************************)
(* Proofs about RustHarness for every RingSize, TotalOps, WarmupOps and    *)
(* set of Intervals: the inductive invariant IInv, that run() returns a    *)
(* report which covers the whole run, and that every step of the two       *)
(* threads is a step of the abstract EventChannel.  At the end,            *)
(* PinAffinity for every set of cores: the process refuses to run only     *)
(* when it has to, and measures on the cores asked for.                    *)
(***************************************************************************)
EXTENDS RustHarness, PinAffinity, TLAPS

-------------------------------------------------------------------------------
(* The inductive invariant.                                                *)

Event == [kind : {"op", "report"}, op : Nat, ts : Nat]
Sample == [op : Nat, value : Int]

Types ==
    /\ slots \in [0 .. RingSize - 1 -> Event]
    /\ cursor \in Nat /\ gating \in Nat /\ at \in Nat /\ upTo \in Nat
    /\ clock \in Nat /\ i \in Nat /\ nextDue \in Nat \ {0} /\ ts \in Nat
    /\ interval \in Nat \cup {Unpaced}
    /\ dropped \in BOOLEAN
    /\ hist \in Seq(Sample)
    /\ ppc \in {"generate", "spin", "publish", "drop", "join", "take", "returned", "panicked"}
    /\ hpc \in {"wait", "handle", "record", "commit", "end"}

Measured(s) == Paced /\ WarmupOps < s /\ s <= TotalOps

(* Where run() is: it has published an event for each turn of its loop and *)
(* the sentinel after the last one, and goes on from the join only when    *)
(* the consumer thread has ended.                                          *)
Publishing ==
    /\ ppc \in {"generate", "spin", "publish"} => cursor = i /\ i <= TotalOps
    /\ ppc \notin {"generate", "spin", "publish"} => cursor = ReportEvent
    /\ ppc \in {"spin", "publish"} => i < TotalOps
    /\ ppc = "spin" => Paced
    /\ ppc = "publish" => (ts # 0 <=> Measured(i + 1))
    /\ dropped <=> ppc \in {"join", "take", "returned", "panicked"}
    /\ ppc \in {"take", "returned", "panicked"} => hpc = "end"

(* Where the consumer thread is: inside its batch, which is published and  *)
(* whose slots are not free yet; it ends when there is nothing left.       *)
Batches ==
    /\ gating <= cursor /\ cursor - gating <= RingSize
    /\ hpc \in {"handle", "record", "commit"} => gating < at /\ at <= upTo /\ upTo <= cursor
    /\ hpc = "record" => at <= TotalOps
    /\ hpc = "commit" => at = upTo
    /\ hpc = "end" => gating = cursor /\ dropped

(* The slot of event s holds that event: nothing of an earlier lap shows   *)
(* in a field the handler reads.                                           *)
Intact(s) ==
    /\ Slot(s).kind = (IF s = ReportEvent THEN "report" ELSE "op")
    /\ s # ReportEvent => Slot(s).op = s
    /\ Slot(s).ts # 0 <=> Measured(s)

Slots == \A s \in gating + 1 .. cursor : Intact(s)

(* Events dispatched, and those on_event is through with. *)
Through ==
    IF hpc \in {"wait", "end"} THEN gating
    ELSE IF hpc = "commit" THEN at ELSE at - 1
Done == IF hpc = "record" THEN at ELSE Through

(* How many samples the first n events of a run leave. *)
SamplesOf(n) ==
    IF Paced /\ WarmupOps < n THEN (IF n <= TotalOps THEN n ELSE TotalOps) - WarmupOps
    ELSE 0

(* What the consumer has collected is what the run publishes, in order.    *)
Collected ==
    /\ applied = [k \in 1 .. Done |-> k]
    /\ Len(hist) = SamplesOf(Through)
    /\ \A k \in 1 .. Len(hist) : hist[k].op = WarmupOps + k

WholeReport == [ops |-> [k \in 1 .. TotalOps |-> k], samples |-> hist]

(* The report exists from the dispatch of the sentinel until it is taken,  *)
(* and nothing is sampled after it was cloned.                             *)
Reported ==
    /\ ppc # "panicked"
    /\ ppc # "returned" => report = IF Done = ReportEvent THEN WholeReport ELSE None
    /\ ppc = "returned" => rep = WholeReport

IInv ==
    /\ Types
    /\ Publishing
    /\ Batches
    /\ Slots
    /\ Collected
    /\ Reported

-------------------------------------------------------------------------------
(* Remainders: events less than a ring apart have different slots.         *)

LEMMA Remainder ==
    ASSUME NEW N \in Nat \ {0}, NEW a \in Nat
    PROVE  a % N \in 0 .. N - 1 /\ \E q \in Nat : a = N * q + (a % N)
<1>1. a % N \in 0 .. N - 1
  BY Z3
<1>2. a \div N \in Nat /\ a = N * (a \div N) + (a % N)
  BY Z3
<1>3. QED
  BY <1>1, <1>2

LEMMA NoMultipleBetween ==
    ASSUME NEW N \in Nat \ {0}, NEW q \in Int, 0 < N * q, N * q < N
    PROVE  FALSE
  BY Z3

LEMMA RemaindersDiffer ==
    ASSUME NEW N \in Nat \ {0}, NEW a \in Nat, NEW b \in Nat, a < b, b - a < N
    PROVE  a % N # b % N
<1> SUFFICES ASSUME a % N = b % N PROVE FALSE
  OBVIOUS
<1>1. PICK p \in Nat : a = N * p + (a % N)
  BY Remainder
<1>2. PICK q \in Nat : b = N * q + (b % N)
  BY Remainder
<1>3. a % N \in Int /\ N * p \in Int /\ N * q \in Int
  BY Remainder
<1>4. b - a = N * q - N * p
  BY <1>1, <1>2, <1>3
<1>5. N * q - N * p = N * (q - p)
  BY Z3
<1>6. QED
  BY <1>4, <1>5, NoMultipleBetween

LEMMA SlotIndex ==
    /\ \A s \in Nat : IndexOf(s) \in 0 .. RingSize - 1
    /\ \A s, t \in Nat : s < t /\ t - s < RingSize => IndexOf(s) # IndexOf(t)
  BY RustHarnessAssumption, Remainder, RemaindersDiffer DEF IndexOf

(* The latency recorded is a number, at least one. *)
LEMMA LargerOf == \A x \in Int : Max({1, x}) \in Int /\ Max({1, x}) >= 1
<1> TAKE x \in Int
<1>1. \E m \in {1, x} : \A y \in {1, x} : m >= y
  <2>1. CASE x <= 1
    BY <2>1
  <2>2. CASE ~(x <= 1)
    BY <2>2
  <2>3. QED
    BY <2>1, <2>2
<1>2. Max({1, x}) \in {1, x} /\ \A y \in {1, x} : Max({1, x}) >= y
  BY <1>1 DEF Max
<1>3. QED
  BY <1>2

(* Appending its next element to an interval. *)
LEMMA AppendNext ==
    ASSUME NEW n \in Nat
    PROVE  Append([k \in 1 .. n |-> k], n + 1) = [k \in 1 .. n + 1 |-> k]
  OBVIOUS

(* The numbers of a state are natural numbers. *)
LEMMA Numbers ==
    ASSUME Types
    PROVE  /\ RingSize \in Nat \ {0} /\ TotalOps \in Nat
           /\ WarmupOps \in Nat /\ WarmupOps <= TotalOps
           /\ ReportEvent \in Nat /\ ReportEvent = TotalOps + 1
           /\ Unpaced \notin Nat
           /\ cursor \in Nat /\ gating \in Nat /\ at \in Nat /\ upTo \in Nat
           /\ clock \in Nat /\ i \in Nat /\ ts \in Nat
  BY RustHarnessAssumption DEF Types, ReportEvent

(* How many samples one more event leaves. *)
LEMMA OneMore ==
    ASSUME Types, NEW n \in Nat
    PROVE  /\ SamplesOf(n) \in Nat
           /\ SamplesOf(n + 1) = IF Measured(n + 1) THEN SamplesOf(n) + 1 ELSE SamplesOf(n)
           /\ Measured(n + 1) => SamplesOf(n) + 1 = n + 1 - WarmupOps
  BY Numbers DEF SamplesOf, Measured

LEMMA InitIInv == Init => IInv
<1> SUFFICES ASSUME Init PROVE IInv
  OBVIOUS
<1> USE RustHarnessAssumption DEF Init, RingInit, Started
<1>1. Types
  <2>1. slots \in [0 .. RingSize - 1 -> Event]
    BY DEF Event, Zeroed
  <2>2. hist \in Seq(Sample)
    OBVIOUS
  <2>3. interval \in Nat \cup {Unpaced}
    OBVIOUS
  <2>4. cursor = 0 /\ gating = 0 /\ at = 0 /\ upTo = 0 /\ clock = 1 /\ i = 0 /\ nextDue = 1 /\ ts = 0
    OBVIOUS
  <2>5. dropped \in BOOLEAN /\ ppc = "generate" /\ hpc = "wait"
    OBVIOUS
  <2>6. QED
    BY ONLY <2>1, <2>2, <2>3, <2>4, <2>5 DEF Types
<1>2. Publishing
  BY DEF Publishing
<1>3. Batches
  BY DEF Batches
<1>4. Slots
  BY DEF Slots
<1>5. Done = 0 /\ Through = 0
  BY DEF Done, Through
<1>6. Collected
  <2>1. SamplesOf(0) = 0
    BY DEF SamplesOf
  <2>2. QED
    BY <1>5, <2>1 DEF Collected
<1>7. Reported
  BY <1>5 DEF Reported, ReportEvent
<1>8. QED
  BY <1>1, <1>2, <1>3, <1>4, <1>6, <1>7 DEF IInv

-------------------------------------------------------------------------------
(* The consumer's part of the invariant does not change while its ring,    *)
(* its batch and the pacing stay.                                          *)

LEMMA ConsumerUntouched ==
    ASSUME IInv, UNCHANGED <<gating, hpc, at, interval, applied, hist>>
    PROVE  Collected' /\ Done' = Done /\ WholeReport' = WholeReport
<1>1. Done' = Done /\ Through' = Through
  BY DEF Done, Through
<1>2. SamplesOf(Through)' = SamplesOf(Through)
  BY <1>1 DEF SamplesOf, Paced
<1>3. QED
  BY <1>1, <1>2 DEF IInv, Collected, WholeReport

LEMMA SlotsUntouched ==
    ASSUME IInv, UNCHANGED <<slots, gating, cursor, interval>>
    PROVE  Slots'
  BY DEF IInv, Slots, Intact, Slot, Measured, Paced

(* A step of run() that neither publishes nor ends the run. *)
LEMMA RunGoesOn ==
    ASSUME IInv, Types', Publishing',
           UNCHANGED <<ringVars, threadVars, interval, applied, hist, report>>,
           ppc # "returned", ppc' \notin {"returned", "panicked"},
           dropped => dropped'
    PROVE  IInv'
<1>1. UNCHANGED <<slots, cursor, gating, hpc, at, upTo, interval, applied, hist, report>>
  BY DEF ringVars, threadVars
<1>2. Batches'
  BY <1>1 DEF IInv, Batches
<1>3. Slots'
  BY <1>1, SlotsUntouched
<1>4. Collected' /\ Done' = Done /\ WholeReport' = WholeReport
  BY <1>1, ConsumerUntouched
<1>5. Reported'
  BY <1>1, <1>4 DEF IInv, Reported
<1>6. QED
  BY <1>2, <1>3, <1>4, <1>5 DEF IInv

LEMMA GenerateStep == ASSUME IInv, Generate PROVE IInv'
<1> USE Numbers DEF Generate, IInv
<1>1. UNCHANGED <<ringVars, threadVars, interval, dropped, applied, hist, report, i, clock>>
  BY DEF handlerVars
<1>2. UNCHANGED <<slots, cursor, gating, hpc, at, upTo>>
  BY <1>1 DEF ringVars, threadVars
<1>3. Types'
  <2>1. nextDue' \in Nat \ {0} /\ ts' \in Nat /\ ppc' \in {"spin", "publish"}
    BY DEF Types, Paced
  <2>2. QED
    BY <1>1, <1>2, <2>1 DEF Types
<1>4. Publishing'
  BY <1>1, <1>2 DEF Publishing, Measured, Paced
<1>5. QED
  BY <1>1, <1>3, <1>4, RunGoesOn

LEMMA SpinEndsStep == ASSUME IInv, SpinEnds PROVE IInv'
<1> USE Numbers DEF SpinEnds, IInv
<1>1. UNCHANGED <<ringVars, threadVars, interval, dropped, applied, hist, report, i, clock, nextDue>>
  BY DEF handlerVars
<1>2. UNCHANGED <<slots, cursor, gating, hpc, at, upTo>>
  BY <1>1 DEF ringVars, threadVars
<1>3. Types'
  BY <1>1, <1>2 DEF Types
<1>4. Publishing'
  <2>1. ts' # 0 <=> Measured(i + 1)
    BY DEF Types, Publishing, Measured
  <2>2. QED
    BY <1>1, <1>2, <2>1 DEF Publishing, Measured, Paced
<1>5. QED
  BY <1>1, <1>3, <1>4, RunGoesOn

LEMMA DropProducerStep == ASSUME IInv, DropProducer PROVE IInv'
<1> USE Numbers DEF DropProducer, IInv
<1>1. UNCHANGED <<ringVars, threadVars, interval, ts, applied, hist, report, i, clock, nextDue>>
  BY DEF handlerVars
<1>2. UNCHANGED <<slots, cursor, gating, hpc, at, upTo>>
  BY <1>1 DEF ringVars, threadVars
<1>3. Types'
  BY <1>1, <1>2 DEF Types
<1>4. Publishing'
  BY <1>1, <1>2 DEF Publishing
<1>5. QED
  BY <1>1, <1>3, <1>4, RunGoesOn

LEMMA DropJoinsStep == ASSUME IInv, DropJoins PROVE IInv'
<1> USE Numbers DEF DropJoins, IInv
<1>1. UNCHANGED <<ringVars, threadVars, interval, ts, dropped, applied, hist, report, i, clock,
                  nextDue>>
  BY DEF handlerVars
<1>2. UNCHANGED <<slots, cursor, gating, hpc, at, upTo>>
  BY <1>1 DEF ringVars, threadVars
<1>3. Types'
  BY <1>1, <1>2 DEF Types
<1>4. Publishing'
  BY <1>1, <1>2 DEF Publishing, ThreadEnded
<1>5. QED
  BY <1>1, <1>3, <1>4, RunGoesOn

(* The consumer thread has ended: the report is there. *)
LEMMA TakeReportStep == ASSUME IInv, TakeReport PROVE IInv'
<1> USE Numbers DEF TakeReport, IInv
<1>1. UNCHANGED <<ringVars, threadVars, interval, ts, dropped, applied, hist, i, clock, nextDue>>
  BY DEF handlerVars
<1>2. UNCHANGED <<slots, cursor, gating, hpc, at, upTo>>
  BY <1>1 DEF ringVars, threadVars
<1>3. report = WholeReport
  <2>1. hpc = "end" /\ cursor = ReportEvent
    BY DEF Publishing
  <2>2. Done = ReportEvent
    BY <2>1 DEF Done, Through, Batches
  <2>3. QED
    BY <2>2 DEF Reported
<1>4. report # None
  <2>1. DOMAIN WholeReport = {"ops", "samples"} /\ DOMAIN None = {"some"}
    BY DEF WholeReport, None
  <2>2. QED
    BY <1>3, <2>1
<1>5. Types'
  BY <1>1, <1>2, <1>4 DEF Types
<1>6. Publishing'
  BY <1>1, <1>2, <1>4 DEF Publishing
<1>7. Batches'
  BY <1>1, <1>2 DEF Batches
<1>8. Slots'
  BY <1>1, <1>2, SlotsUntouched
<1>9. Collected' /\ WholeReport' = WholeReport
  BY <1>1, <1>2, ConsumerUntouched
<1>10. Reported'
  BY <1>3, <1>4, <1>9 DEF Reported
<1>11. QED
  BY <1>5, <1>6, <1>7, <1>8, <1>9, <1>10

(* The slot the producer fills next is not one of an event still there.    *)
LEMMA NextSlotIsFree ==
    ASSUME IInv, HasRoom
    PROVE  /\ cursor + 1 \in Nat /\ IndexOf(cursor + 1) \in 0 .. RingSize - 1
           /\ \A s \in gating + 1 .. cursor :
                IndexOf(s) \in 0 .. RingSize - 1 /\ IndexOf(s) # IndexOf(cursor + 1)
<1>1. RingSize \in Nat /\ cursor \in Nat /\ gating \in Nat /\ cursor + 1 - gating <= RingSize
  BY Numbers DEF IInv, HasRoom
<1>2. \A s \in gating + 1 .. cursor : s \in Nat /\ s < cursor + 1 /\ (cursor + 1) - s < RingSize
  BY <1>1
<1>3. QED
  BY <1>1, <1>2, SlotIndex

LEMMA OneMoreInTheRing ==
    ASSUME IInv, HasRoom, cursor' = cursor + 1, UNCHANGED <<gating, threadVars, dropped>>,
           ~dropped
    PROVE  /\ Batches'
           /\ \A s \in (gating + 1 .. cursor)' : s \in gating + 1 .. cursor \/ s = cursor + 1
<1>1. UNCHANGED <<gating, hpc, at, upTo, dropped>>
  BY DEF threadVars
<1>2. /\ cursor \in Nat /\ gating \in Nat /\ at \in Nat /\ upTo \in Nat /\ RingSize \in Nat
      /\ cursor + 1 - gating <= RingSize
  BY Numbers DEF IInv, HasRoom
<1>3. QED
  BY <1>1, <1>2 DEF IInv, Batches

LEMMA PublishOpStep == ASSUME IInv, PublishOp PROVE IInv'
<1> USE Numbers DEF PublishOp, IInv
<1>1. UNCHANGED <<gating, hpc, at, upTo, clock, interval, nextDue, ts, dropped, rep, applied,
                  hist, report>>
  BY DEF threadVars, handlerVars
<1>2. cursor = i /\ i < TotalOps /\ (ts # 0 <=> Measured(i + 1))
  BY DEF Publishing
<1>3. slots' \in [0 .. RingSize - 1 -> Event]
  BY NextSlotIsFree, <1>2 DEF Types, Event, OpEvent
<1>4. slots'[IndexOf(cursor + 1)] = OpEvent
  BY NextSlotIsFree DEF Types
<1>5. \A s \in gating + 1 .. cursor : slots'[IndexOf(s)] = slots[IndexOf(s)]
  <2>1. slots \in [0 .. RingSize - 1 -> Event] /\ HasRoom
    BY DEF Types
  <2>2. slots' = [slots EXCEPT ![IndexOf(cursor + 1)] = OpEvent]
    OBVIOUS
  <2>3. QED
    BY ONLY IInv, NextSlotIsFree, <2>1, <2>2
<1>6. Types'
  BY <1>1, <1>3 DEF Types
<1>7. Publishing'
  BY <1>1, <1>2 DEF Publishing, ReportEvent
<1>8. Batches'
  <2>1. ~dropped /\ HasRoom /\ cursor' = cursor + 1 /\ UNCHANGED <<gating, threadVars, dropped>>
    BY DEF Publishing
  <2>2. QED
    BY <2>1, OneMoreInTheRing
<1>9. Slots'
  <2>1. ASSUME NEW s, s = cursor + 1 PROVE Intact(s)'
    <3>1. Slot(s)' = OpEvent
      BY <1>4, <2>1 DEF Slot, IndexOf
    <3>2. Measured(s)' <=> Measured(i + 1)
      BY <1>1, <1>2, <2>1 DEF Measured, Paced
    <3>3. ReportEvent' = ReportEvent /\ s # ReportEvent /\ s = i + 1
      BY <1>2, <2>1 DEF ReportEvent
    <3>4. QED
      BY <1>2, <3>1, <3>2, <3>3 DEF Intact, OpEvent
  <2>2. \A s \in gating + 1 .. cursor : Intact(s)'
    BY <1>1, <1>5 DEF Slots, Intact, Slot, IndexOf, Measured, Paced, ReportEvent
  <2>3. QED
    <3>1. ~dropped /\ HasRoom /\ cursor' = cursor + 1 /\ UNCHANGED <<gating, threadVars, dropped>>
      BY DEF Publishing
    <3>2. QED
      BY <2>1, <2>2, <3>1, OneMoreInTheRing DEF Slots
<1>10. Collected' /\ Done' = Done /\ WholeReport' = WholeReport
  BY <1>1, ConsumerUntouched
<1>11. Reported'
  BY <1>1, <1>10 DEF Reported
<1>12. QED
  BY <1>6, <1>7, <1>8, <1>9, <1>10, <1>11

LEMMA PublishReportStep == ASSUME IInv, PublishReport PROVE IInv'
<1> USE Numbers DEF PublishReport, IInv
<1>1. UNCHANGED <<gating, hpc, at, upTo, clock, interval, i, nextDue, ts, dropped, rep, applied,
                  hist, report>>
  BY DEF threadVars, handlerVars
<1>2. cursor = TotalOps /\ i = TotalOps
  BY DEF Publishing
<1>3. /\ slots' \in [0 .. RingSize - 1 -> Event]
      /\ slots'[IndexOf(cursor + 1)].kind = "report"
      /\ slots'[IndexOf(cursor + 1)].ts = 0
  BY NextSlotIsFree DEF Types, Event
<1>4. \A s \in gating + 1 .. cursor : slots'[IndexOf(s)] = slots[IndexOf(s)]
  <2>1. slots \in [0 .. RingSize - 1 -> Event] /\ HasRoom
    BY DEF Types
  <2>2. slots' = [slots EXCEPT ![IndexOf(cursor + 1)] =
                    [slots[IndexOf(cursor + 1)] EXCEPT !.kind = "report", !.ts = 0]]
    BY <2>1, NextSlotIsFree
  <2>3. QED
    BY ONLY IInv, NextSlotIsFree, <2>1, <2>2
<1>5. Types'
  <2>1. Types /\ cursor' \in Nat /\ ppc' = "drop"
    OBVIOUS
  <2>2. QED
    BY ONLY <1>1, <1>3, <2>1 DEF Types
<1>6. Publishing'
  BY <1>1, <1>2 DEF Publishing, ReportEvent
<1>7. Batches'
  <2>1. ~dropped /\ HasRoom /\ cursor' = cursor + 1 /\ UNCHANGED <<gating, threadVars, dropped>>
    BY DEF Publishing
  <2>2. QED
    BY <2>1, OneMoreInTheRing
<1>8. Slots'
  <2>1. ASSUME NEW s, s = cursor + 1 PROVE Intact(s)'
    <3>1. Slot(s)'.kind = "report" /\ Slot(s)'.ts = 0
      BY <1>3, <2>1 DEF Slot, IndexOf
    <3>2. ~Measured(s)'
      BY <1>2, <2>1 DEF Measured
    <3>3. ReportEvent' = ReportEvent /\ s = ReportEvent
      BY <1>2, <2>1 DEF ReportEvent
    <3>4. QED
      BY <3>1, <3>2, <3>3 DEF Intact
  <2>2. \A s \in gating + 1 .. cursor : Intact(s)'
    BY <1>1, <1>4 DEF Slots, Intact, Slot, IndexOf, Measured, Paced, ReportEvent
  <2>3. QED
    <3>1. ~dropped /\ HasRoom /\ cursor' = cursor + 1 /\ UNCHANGED <<gating, threadVars, dropped>>
      BY DEF Publishing
    <3>2. QED
      BY <2>1, <2>2, <3>1, OneMoreInTheRing DEF Slots
<1>9. Collected' /\ Done' = Done /\ WholeReport' = WholeReport
  BY <1>1, ConsumerUntouched
<1>10. Reported'
  BY <1>1, <1>9 DEF Reported
<1>11. QED
  BY <1>5, <1>6, <1>7, <1>8, <1>9, <1>10

-------------------------------------------------------------------------------
(* A step of the consumer thread: run() is still where it was, and not yet *)
(* past the join.                                                          *)
LEMMA RunUntouched ==
    ASSUME IInv, UNCHANGED <<producerVars, cursor>>, hpc # "end"
    PROVE  Publishing' /\ ppc \notin {"take", "returned", "panicked"}
  BY DEF IInv, Publishing, producerVars, Measured, Paced

(* When the handler has returned from an event the consumer is through     *)
(* with it: it is at the next one of the batch, or the batch is done.      *)
LEMMA HandlerReturned ==
    ASSUME IInv, hpc \in {"handle", "record"}, HandlerReturns,
           UNCHANGED <<gating, cursor, upTo, dropped>>
    PROVE  /\ Batches' /\ Through' = at /\ Done' = at
           /\ at' \in Nat /\ hpc' \in {"handle", "commit"}
<1>1. /\ gating < at /\ at <= upTo /\ upTo <= cursor
      /\ gating <= cursor /\ cursor - gating <= RingSize
  BY DEF IInv, Batches
<1>2. at \in Nat /\ upTo \in Nat /\ gating \in Nat /\ cursor \in Nat /\ RingSize \in Nat
  BY Numbers DEF IInv
<1>3. CASE at = upTo
  <2>1. hpc' = "commit" /\ at' = at
    BY <1>3 DEF HandlerReturns
  <2>2. QED
    BY ONLY <1>1, <1>2, <1>3, <2>1, IInv, UNCHANGED <<gating, cursor, upTo, dropped>>
       DEF Batches, Through, Done
<1>4. CASE at # upTo
  <2>1. hpc' = "handle" /\ at' = at + 1
    BY <1>4 DEF HandlerReturns
  <2>2. QED
    BY ONLY <1>1, <1>2, <1>4, <2>1, IInv, UNCHANGED <<gating, cursor, upTo, dropped>>
       DEF Batches, Through, Done
<1>5. QED
  BY <1>3, <1>4

(* The event the handler is called with is published and its slot intact.  *)
LEMMA EventAt ==
    ASSUME IInv, hpc \in {"handle", "record"}
    PROVE  /\ at \in 1 .. ReportEvent
           /\ Intact(at)
<1>1. at \in gating + 1 .. cursor
  BY Numbers DEF IInv, Batches
<1>2. cursor <= ReportEvent
  BY Numbers DEF IInv, Publishing
<1>3. QED
  BY <1>1, <1>2, Numbers DEF IInv, Slots

LEMMA NewBatchStep ==
    ASSUME IInv, NewBatch, UNCHANGED <<producerVars, handlerVars, report>>
    PROVE  IInv'
<1> USE Numbers DEF NewBatch, IInv
<1>1. UNCHANGED <<slots, cursor, gating, clock, ppc, interval, i, nextDue, ts, dropped, rep,
                  applied, hist, report>>
  BY DEF ringVars, producerVars, handlerVars
<1>2. Types'
  BY <1>1 DEF Types
<1>3. Publishing' /\ ppc \notin {"take", "returned", "panicked"}
  BY <1>1, RunUntouched
<1>4. Batches'
  BY <1>1 DEF Batches
<1>5. Slots'
  BY <1>1, SlotsUntouched
<1>6. Through' = Through /\ Done' = Done
  BY <1>1 DEF Through, Done
<1>7. SamplesOf(Through)' = SamplesOf(Through)
  BY <1>1, <1>6 DEF SamplesOf, Paced
<1>8. Collected'
  BY <1>1, <1>6, <1>7 DEF Collected
<1>9. Reported'
  BY <1>1, <1>3, <1>6 DEF Reported, WholeReport
<1>10. QED
  BY <1>2, <1>3, <1>4, <1>5, <1>8, <1>9

LEMMA CommitBatchStep ==
    ASSUME IInv, CommitBatch, UNCHANGED <<producerVars, handlerVars, report>>
    PROVE  IInv'
<1> USE Numbers DEF CommitBatch, IInv
<1>1. UNCHANGED <<slots, cursor, at, upTo, clock, ppc, interval, i, nextDue, ts, dropped, rep,
                  applied, hist, report>>
  BY DEF producerVars, handlerVars
<1>2. gating' = at /\ gating < at /\ at <= cursor
  BY DEF Batches
<1>3. Types'
  BY <1>1, <1>2 DEF Types
<1>4. Publishing' /\ ppc \notin {"take", "returned", "panicked"}
  BY <1>1, RunUntouched
<1>5. Batches'
  BY <1>1, <1>2 DEF Batches
<1>6. Slots'
  BY <1>1, <1>2 DEF Slots, Intact, Slot, Measured, Paced
<1>7. Through' = Through /\ Done' = Done
  BY <1>1, <1>2 DEF Through, Done
<1>8. SamplesOf(Through)' = SamplesOf(Through)
  BY <1>1, <1>7 DEF SamplesOf, Paced
<1>9. Collected'
  BY <1>1, <1>7, <1>8 DEF Collected
<1>10. Reported'
  BY <1>1, <1>4, <1>7 DEF Reported, WholeReport
<1>11. QED
  BY <1>3, <1>4, <1>5, <1>6, <1>9, <1>10

LEMMA ThreadEndsStep ==
    ASSUME IInv, ThreadEnds(dropped), UNCHANGED <<producerVars, handlerVars, report>>
    PROVE  IInv'
<1> USE Numbers DEF ThreadEnds, IInv
<1>1. UNCHANGED <<slots, cursor, gating, at, upTo, clock, ppc, interval, i, nextDue, ts, dropped,
                  rep, applied, hist, report>>
  BY DEF ringVars, producerVars, handlerVars
<1>2. Types'
  BY <1>1 DEF Types
<1>3. Publishing' /\ ppc \notin {"take", "returned", "panicked"}
  BY <1>1, RunUntouched
<1>4. Batches'
  BY <1>1 DEF Batches
<1>5. Slots'
  BY <1>1, SlotsUntouched
<1>6. Through' = Through /\ Done' = Done
  BY <1>1 DEF Through, Done
<1>7. SamplesOf(Through)' = SamplesOf(Through)
  BY <1>1, <1>6 DEF SamplesOf, Paced
<1>8. Collected'
  BY <1>1, <1>6, <1>7 DEF Collected
<1>9. Reported'
  BY <1>1, <1>3, <1>6 DEF Reported, WholeReport
<1>10. QED
  BY <1>2, <1>3, <1>4, <1>5, <1>8, <1>9

LEMMA ApplyStep == ASSUME IInv, Apply PROVE IInv'
<1> USE Numbers DEF Apply, IInv
<1>1. UNCHANGED <<slots, cursor, gating, at, upTo, clock, ppc, interval, i, nextDue, ts, dropped,
                  rep, hist, report>>
  BY DEF ringVars, producerVars
<1>2. at \in 1 .. TotalOps /\ Slot(at).op = at
  BY EventAt DEF Intact
<1>3. Types'
  BY <1>1 DEF Types
<1>4. Publishing' /\ ppc \notin {"take", "returned", "panicked"}
  BY <1>1, RunUntouched DEF producerVars
<1>5. Batches'
  BY <1>1, <1>2 DEF Batches
<1>6. Slots'
  BY <1>1, SlotsUntouched
<1>7. Through' = Through /\ Done = at - 1 /\ Done' = at
  BY <1>1 DEF Through, Done
<1>8. Collected'
  <2>1. at - 1 \in Nat /\ (at - 1) + 1 = at
    BY <1>2
  <2>2. applied = [k \in 1 .. at - 1 |-> k]
    BY <1>7 DEF Collected
  <2>3. applied' = [k \in 1 .. at |-> k]
    BY <1>2, <2>1, <2>2, AppendNext
  <2>4. SamplesOf(Through)' = SamplesOf(Through)
    BY <1>1, <1>7 DEF SamplesOf, Paced
  <2>5. QED
    BY <1>1, <1>7, <2>3, <2>4 DEF Collected
<1>9. Reported'
  <2>1. Done # ReportEvent /\ Done' # ReportEvent' /\ ReportEvent' = ReportEvent
    BY <1>2, <1>7 DEF ReportEvent
  <2>2. QED
    BY <1>1, <1>4, <2>1 DEF Reported
<1>10. QED
  BY <1>3, <1>4, <1>5, <1>6, <1>8, <1>9

LEMMA RecordStep == ASSUME IInv, Record PROVE IInv'
<1> USE Numbers DEF Record, IInv
<1>1. UNCHANGED <<slots, cursor, gating, upTo, clock, ppc, interval, i, nextDue, ts, dropped,
                  rep, applied, report>>
  BY DEF ringVars, producerVars
<1>2. /\ at \in 1 .. TotalOps /\ Slot(at) \in Event
      /\ Slot(at).ts # 0 <=> Measured(at)
  <2>1. at \in Nat /\ IndexOf(at) \in 0 .. RingSize - 1
    BY SlotIndex
  <2>2. QED
    BY <2>1, EventAt DEF Intact, Batches, Types, Slot
<1>3. Batches' /\ Through' = at /\ Done' = at /\ at' \in Nat /\ hpc' \in {"handle", "commit"}
  BY <1>1, HandlerReturned
<1>4. Through = at - 1 /\ Done = at
  BY DEF Through, Done
<1>5. at - 1 \in Nat /\ (at - 1) + 1 = at
  BY <1>2
<1>6. SamplesOf(Through)' = SamplesOf(at)
  BY <1>1, <1>3 DEF SamplesOf, Paced
<1>7. /\ hist' \in Seq(Sample)
      /\ Len(hist') = SamplesOf(at)
      /\ \A k \in 1 .. Len(hist') : hist'[k].op = WarmupOps + k
  <2>1. /\ hist \in Seq(Sample) /\ Len(hist) = SamplesOf(at - 1)
        /\ \A k \in 1 .. Len(hist) : hist[k].op = WarmupOps + k
    BY <1>4 DEF Types, Collected
  <2>2. CASE Measured(at)
    <3>1. PICK e \in Sample : e.op = at /\ hist' = Append(hist, e)
      <4>1. clock - Slot(at).ts \in Int
        BY <1>2 DEF Event
      <4>2. [op |-> at, value |-> Max({1, clock - Slot(at).ts})] \in Sample
        BY <4>1, LargerOf DEF Sample
      <4>3. QED
        BY <1>2, <2>2, <4>2
    <3>2. /\ SamplesOf(at - 1) \in Nat
          /\ SamplesOf(at) = SamplesOf(at - 1) + 1 /\ SamplesOf(at - 1) + 1 = at - WarmupOps
      <4>1. \A n \in Nat : Measured(n + 1) =>
               /\ SamplesOf(n) \in Nat
               /\ SamplesOf(n + 1) = SamplesOf(n) + 1 /\ SamplesOf(n) + 1 = n + 1 - WarmupOps
        BY OneMore
      <4>2. QED
        BY <1>5, <2>2, <4>1
    <3>3. /\ hist' \in Seq(Sample) /\ Len(hist') = Len(hist) + 1
          /\ hist'[Len(hist) + 1] = e
          /\ \A k \in 1 .. Len(hist) : hist'[k] = hist[k]
      BY <2>1, <3>1
    <3>4. e.op = WarmupOps + (Len(hist) + 1)
      BY <1>2, <2>1, <3>1, <3>2
    <3>5. \A k \in 1 .. Len(hist') : hist'[k].op = WarmupOps + k
      <4>1. Len(hist) \in Nat
        BY <2>1, <3>2
      <4>2. QED
        BY ONLY <2>1, <3>3, <3>4, <4>1
    <3>6. QED
      BY <2>1, <3>2, <3>3, <3>5
  <2>3. CASE ~Measured(at)
    <3>1. hist' = hist
      BY <1>2, <2>3
    <3>2. SamplesOf(at) = SamplesOf(at - 1)
      <4>1. \A n \in Nat : ~Measured(n + 1) => SamplesOf(n + 1) = SamplesOf(n)
        BY OneMore
      <4>2. QED
        BY <1>5, <2>3, <4>1
    <3>3. QED
      BY <2>1, <3>1, <3>2
  <2>4. QED
    BY <2>2, <2>3
<1>8. Types'
  <2>1. Types
    OBVIOUS
  <2>2. QED
    BY ONLY <1>1, <1>3, <1>7, <2>1 DEF Types
<1>9. Publishing' /\ ppc \notin {"take", "returned", "panicked"}
  BY <1>1, RunUntouched DEF producerVars
<1>10. Slots'
  BY <1>1, SlotsUntouched
<1>11. Collected'
  <2>1. applied = [k \in 1 .. at |-> k]
    BY <1>4 DEF Collected
  <2>2. QED
    BY <1>1, <1>3, <1>6, <1>7, <2>1 DEF Collected
<1>12. Reported'
  <2>1. Done # ReportEvent /\ Done' # ReportEvent' /\ ReportEvent' = ReportEvent
    BY <1>2, <1>3, <1>4 DEF ReportEvent
  <2>2. QED
    BY <1>1, <1>9, <2>1 DEF Reported
<1>13. QED
  BY <1>3, <1>8, <1>9, <1>10, <1>11, <1>12

LEMMA SetReportStep == ASSUME IInv, SetReport PROVE IInv'
<1> USE Numbers DEF SetReport, IInv
<1>1. UNCHANGED <<slots, cursor, gating, upTo, clock, ppc, interval, i, nextDue, ts, dropped,
                  rep, hist>>
  BY DEF ringVars, producerVars
<1>2. at = ReportEvent
  BY EventAt DEF Intact
<1>3. Batches' /\ Through' = at /\ Done' = at /\ at' \in Nat /\ hpc' \in {"handle", "commit"}
  BY <1>1, HandlerReturned
<1>4. Through = TotalOps /\ Done = TotalOps
  BY <1>2 DEF Through, Done
<1>5. Types'
  <2>1. Types
    OBVIOUS
  <2>2. QED
    BY ONLY <1>1, <1>3, <2>1 DEF Types
<1>6. Publishing' /\ ppc \notin {"take", "returned", "panicked"}
  BY <1>1, RunUntouched DEF producerVars
<1>7. Slots'
  BY <1>1, SlotsUntouched
<1>8. applied = [k \in 1 .. TotalOps |-> k]
  BY <1>4 DEF Collected
<1>9. Collected'
  <2>1. applied' = [k \in 1 .. TotalOps + 1 |-> k]
    BY <1>8, AppendNext
  <2>2. SamplesOf(Through)' = SamplesOf(TotalOps)
    <3>1. SamplesOf(Through)' = SamplesOf(TotalOps + 1)
      BY <1>1, <1>2, <1>3 DEF SamplesOf, Paced
    <3>2. SamplesOf(TotalOps + 1) = SamplesOf(TotalOps)
      BY DEF SamplesOf
    <3>3. QED
      BY <3>1, <3>2
  <2>3. QED
    BY <1>1, <1>2, <1>3, <1>4, <2>1, <2>2 DEF Collected
<1>10. Reported'
  <2>1. report' = WholeReport'
    BY <1>1, <1>8 DEF WholeReport
  <2>2. Done' = ReportEvent'
    BY <1>2, <1>3 DEF ReportEvent
  <2>3. QED
    BY <1>1, <1>6, <2>1, <2>2 DEF Reported
<1>11. QED
  BY <1>3, <1>5, <1>6, <1>7, <1>9, <1>10

LEMMA TimePassesStep == ASSUME IInv, TimePasses PROVE IInv'
<1> USE Numbers DEF TimePasses, Tick, IInv
<1>1. UNCHANGED <<slots, cursor, gating, hpc, at, upTo, ppc, interval, i, nextDue, ts, dropped,
                  rep, applied, hist, report>>
  BY DEF ringVars, threadVars, producerVars, handlerVars
<1>2. Types'
  BY <1>1 DEF Types
<1>3. Publishing'
  BY <1>1 DEF Publishing, Measured, Paced
<1>4. Batches'
  BY <1>1 DEF Batches
<1>5. Slots'
  BY <1>1, SlotsUntouched
<1>6. Collected' /\ Done' = Done /\ WholeReport' = WholeReport
  BY <1>1, ConsumerUntouched
<1>7. Reported'
  BY <1>1, <1>6 DEF Reported
<1>8. QED
  BY <1>2, <1>3, <1>4, <1>5, <1>6, <1>7

LEMMA StutterStep == ASSUME IInv, UNCHANGED vars PROVE IInv'
<1> USE DEF IInv
<1>1. UNCHANGED <<slots, cursor, gating, hpc, at, upTo, clock, ppc, interval, i, nextDue, ts,
                  dropped, rep, applied, hist, report>>
  BY DEF vars, ringVars, threadVars, producerVars, handlerVars
<1>2. Types' /\ Publishing' /\ Batches'
  BY <1>1 DEF Types, Publishing, Measured, Paced, Batches
<1>3. Slots'
  BY <1>1, SlotsUntouched
<1>4. Collected' /\ Done' = Done /\ WholeReport' = WholeReport
  BY <1>1, ConsumerUntouched
<1>5. Reported'
  BY <1>1, <1>4 DEF Reported
<1>6. QED
  BY <1>2, <1>3, <1>4, <1>5

LEMMA NextStep == IInv /\ [Next]_vars => IInv'
<1> SUFFICES ASSUME IInv, [Next]_vars PROVE IInv'
  OBVIOUS
<1>1. CASE Producer
  BY <1>1, GenerateStep, SpinEndsStep, PublishOpStep, PublishReportStep, DropProducerStep,
     DropJoinsStep, TakeReportStep DEF Producer
<1>2. CASE Consumer
  BY <1>2, ApplyStep, RecordStep, SetReportStep, NewBatchStep, CommitBatchStep, ThreadEndsStep
     DEF Consumer, Library
<1>3. CASE TimePasses
  BY <1>3, TimePassesStep
<1>4. CASE TimeIsUp \/ UNCHANGED vars
  BY <1>4, StutterStep DEF TimeIsUp
<1>5. QED
  BY <1>1, <1>2, <1>3, <1>4 DEF Next

LEMMA Invariance == Spec => []IInv
  BY InitIInv, NextStep, PTL DEF Spec, SafeSpec

-------------------------------------------------------------------------------
(* What the inductive invariant implies. *)

(* Dropping the producer is what makes expect() safe: the thread joined    *)
(* has handled everything published, the sentinel included, so the Option  *)
(* is full, and the report in it covers every operation and every sample.  *)
THEOREM ReportCompleteHolds == Spec => []ReportComplete
<1>1. ASSUME IInv PROVE ReportComplete
  <2>1. ppc # "panicked"
    BY <1>1 DEF IInv, Reported
  <2>2. ASSUME ppc = "returned"
        PROVE  /\ rep.ops = [k \in 1 .. TotalOps |-> k]
               /\ [k \in DOMAIN rep.samples |-> rep.samples[k].op]
                    = [k \in 1 .. (IF Paced THEN TotalOps - WarmupOps ELSE 0) |-> WarmupOps + k]
    <3>1. rep.ops = [k \in 1 .. TotalOps |-> k] /\ rep.samples = hist
      BY <1>1, <2>2 DEF IInv, Reported, WholeReport
    <3>2. hpc = "end" /\ cursor = ReportEvent
      BY <1>1, <2>2 DEF IInv, Publishing
    <3>3. Through = ReportEvent
      BY <1>1, <3>2 DEF IInv, Batches, Through
    <3>4. Len(hist) = IF Paced THEN TotalOps - WarmupOps ELSE 0
      BY <1>1, <3>3, Numbers DEF IInv, Collected, SamplesOf
    <3>5. DOMAIN hist = 1 .. (IF Paced THEN TotalOps - WarmupOps ELSE 0)
      BY <1>1, <3>4 DEF IInv, Types
    <3>6. \A k \in DOMAIN hist : hist[k].op = WarmupOps + k
      BY <1>1, <3>4, <3>5 DEF IInv, Collected
    <3>7. QED
      BY <3>1, <3>5, <3>6
  <2>3. QED
    BY <2>1, <2>2 DEF ReportComplete
<1>2. QED
  BY <1>1, Invariance, PTL

-------------------------------------------------------------------------------
(* The harness refines the channel: publish() is Send, the dispatch of an  *)
(* event in on_event is Deliver, all else stutters.                        *)

LEMMA DeliveredCount == IInv => Len(applied) = Done /\ gating <= Done /\ Done \in Nat
<1> SUFFICES ASSUME IInv PROVE Len(applied) = Done /\ gating <= Done /\ Done \in Nat
  OBVIOUS
<1>1. Done \in Nat /\ gating <= Done
  BY Numbers DEF IInv, Types, Batches, Done, Through
<1>2. QED
  BY <1>1 DEF IInv, Collected

LEMMA PublishIsSend ==
    ASSUME IInv, PublishOp \/ PublishReport
    PROVE  Channel!Send
<1>1. HasRoom /\ cursor' = cursor + 1 /\ UNCHANGED applied
  BY DEF PublishOp, PublishReport, handlerVars
<1>2. cursor < TotalOps + 1
  BY Numbers DEF IInv, Publishing, PublishOp, PublishReport
<1>3. cursor - Len(applied) < RingSize
  <2>1. /\ cursor \in Nat /\ gating \in Nat /\ RingSize \in Nat
        /\ Len(applied) \in Nat /\ gating <= Len(applied)
    BY DeliveredCount, Numbers DEF IInv, Types
  <2>2. cursor + 1 - gating <= RingSize
    BY <1>1, Numbers DEF IInv, Types, HasRoom
  <2>3. QED
    BY ONLY <2>1, <2>2
<1>4. QED
  BY <1>1, <1>2, <1>3 DEF Channel!Send

LEMMA DispatchIsDeliver ==
    ASSUME IInv, Apply \/ SetReport
    PROVE  Channel!Deliver
<1>1. hpc = "handle" /\ UNCHANGED cursor
  BY DEF Apply, SetReport, ringVars
<1>2. Len(applied) = at - 1 /\ at <= cursor /\ at \in Nat /\ cursor \in Nat
  BY <1>1, DeliveredCount, Numbers DEF IInv, Batches, Done, Through
<1>3. applied' = Append(applied, at)
  BY <1>1, EventAt DEF Intact, Apply, SetReport
<1>4. QED
  BY <1>1, <1>2, <1>3 DEF Channel!Deliver

LEMMA OtherStepsStutter ==
    ASSUME [Next]_vars, ~PublishOp, ~PublishReport, ~Apply, ~SetReport
    PROVE  UNCHANGED <<cursor, applied>>
  BY DEF Next, Producer, Consumer, Library, TimePasses, TimeIsUp, Tick, vars, ringVars,
         producerVars, handlerVars, Generate, SpinEnds, DropProducer, DropJoins, TakeReport,
         Record, NewBatch, CommitBatch, ThreadEnds

(* Ring, batches and handler behave as a bounded channel that loses,       *)
(* duplicates and reorders nothing, whatever the pacing (its safety part;  *)
(* that everything is delivered in the end is left to the model checker).  *)
THEOREM RefinesChannel == Spec => Channel!SafeSpec
<1>1. Init => Channel!Init
  BY DEF Init, RingInit, Channel!Init
<1>2. IInv /\ [Next]_vars => [Channel!Next]_(Channel!channelVars)
  BY PublishIsSend, DispatchIsDeliver, OtherStepsStutter DEF Channel!Next, Channel!channelVars
<1>3. QED
  BY <1>1, <1>2, Invariance, PTL DEF Spec, SafeSpec, Channel!SafeSpec

-------------------------------------------------------------------------------
(* The threads' cores: PinAffinity, about the program around run(), with   *)
(* constants and variables of its own.                                     *)

(* The runs still to do in a process that does one measured run. *)
Remaining == {<<"warmup", m>> : m \in {"throughput", "latency"}}
                 \cup {<<m>> : m \in {"throughput", "latency"}} \cup {<<>>}

PinTypes ==
    /\ todo \in Remaining
    /\ pc \in {"main", "build", "refused", "pin", "publish"}
    /\ runner \in {"main", "warmup"}
    /\ DOMAIN mask = {"main", "warmup", "consumer"}

(* A thread that starts a run is still on all cores: the warmup leaves the *)
(* main thread alone, and the one measured run is the first to pin it.     *)
StartsUnpinned ==
    /\ pc = "main" /\ todo # <<>> => mask.main = Cores
    /\ pc # "main" => todo # <<>>
    /\ pc # "main" /\ Head(todo) = "warmup" => runner = "warmup" /\ mask.main = Cores
    /\ pc \in {"build", "pin"} => mask[runner] = Cores
    /\ pc = "pin" => mask.consumer = Pin(pinCons, Cores)

PinInv == PinTypes /\ StartsUnpinned /\ RefusedForCause /\ PinnedAsAsked

LEMMA RemainingRuns ==
    ASSUME todo \in Remaining, todo # <<>>
    PROVE  /\ Tail(todo) \in Remaining
           /\ Head(todo) = "warmup" \/ Tail(todo) = <<>>
<1>1. CASE \E m \in {"throughput", "latency"} : todo = <<"warmup", m>>
  <2>1. PICK m \in {"throughput", "latency"} : todo = <<"warmup", m>>
    BY <1>1
  <2>2. Head(todo) = "warmup" /\ Tail(todo) = <<m>>
    BY <2>1
  <2>3. QED
    BY <2>2 DEF Remaining
<1>2. CASE \E m \in {"throughput", "latency"} : todo = <<m>>
  <2>1. Tail(todo) = <<>>
    BY <1>2
  <2>2. QED
    BY <2>1 DEF Remaining
<1>3. QED
  BY <1>1, <1>2 DEF Remaining

(* The two ways a list of runs with one measured run is put together.      *)
LEMMA OneMeasuredRun ==
    ASSUME NEW a, NEW b
    PROVE  /\ <<a>> \o <<b>> \o <<>> = <<a, b>>
           /\ <<a>> \o <<>> \o <<b>> = <<a, b>>
<1> DEFINE s == <<a>> \o <<b>>
           t == <<a, b>>
<1>1. \A r \in Seq({a, b}) : r \o <<>> = r
  OBVIOUS
<1>2. <<a>> \in Seq({a, b}) /\ s \in Seq({a, b}) /\ t \in Seq({a, b})
  OBVIOUS
<1>3. Len(s) = 2 /\ s[1] = a /\ s[2] = b
  OBVIOUS
<1>4. Len(t) = 2 /\ t[1] = a /\ t[2] = b
  OBVIOUS
<1> HIDE DEF s, t
<1>5. s = t
  BY <1>2, <1>3, <1>4
<1>6. QED
  BY <1>1, <1>2, <1>5 DEF s, t

LEMMA PinInitHolds ==
    ASSUME "all" \notin Modes
    PROVE  PinInit => PinInv
<1> SUFFICES ASSUME PinInit PROVE PinInv
  OBVIOUS
<1>1. PICK mode \in Modes : todo = Runs(mode)
  BY DEF PinInit
<1>2. mode \in {"throughput", "latency"}
  BY PinAssumption
<1>3. todo \in Remaining
  <2>1. CASE mode = "throughput"
    <3>1. todo = <<"warmup">> \o <<"throughput">> \o <<>>
      BY <1>1, <2>1 DEF Runs
    <3>2. todo = <<"warmup", "throughput">>
      BY <3>1, OneMeasuredRun
    <3>3. QED
      BY <3>2 DEF Remaining
  <2>2. CASE mode = "latency"
    <3>1. todo = <<"warmup">> \o <<>> \o <<"latency">>
      BY <1>1, <2>2 DEF Runs
    <3>2. todo = <<"warmup", "latency">>
      BY <3>1, OneMeasuredRun
    <3>3. QED
      BY <3>2 DEF Remaining
  <2>3. QED
    BY <1>2, <2>1, <2>2
<1>4. QED
  BY <1>3 DEF PinInit, PinInv, PinTypes, StartsUnpinned, RefusedForCause, PinnedAsAsked

LEMMA StartStep ==
    ASSUME PinInv, StartWarmup \/ StartMeasured
    PROVE  PinInv'
<1>1. /\ pc = "main" /\ todo # <<>> /\ pc' = "build"
      /\ UNCHANGED <<pinProd, pinCons, todo>>
      /\ mask.main = Cores
  BY DEF StartWarmup, StartMeasured, PinInv, StartsUnpinned
<1>2. /\ runner' \in {"main", "warmup"} /\ (Head(todo) = "warmup" => runner' = "warmup")
      /\ DOMAIN mask' = {"main", "warmup", "consumer"}
      /\ mask'.main = Cores /\ mask'[runner'] = Cores
  <2>1. CASE StartWarmup
    BY <1>1, <2>1 DEF StartWarmup, WarmupThread, PinInv, PinTypes
  <2>2. CASE StartMeasured
    BY <1>1, <2>2 DEF StartMeasured, PinInv, PinTypes
  <2>3. QED
    BY <2>1, <2>2
<1>3. QED
  BY <1>1, <1>2
     DEF PinInv, PinTypes, StartsUnpinned, RefusedForCause, PinnedAsAsked

LEMMA RefuseStep ==
    ASSUME PinInv, RefuseCore
    PROVE  PinInv'
<1>1. /\ pc = "build" /\ pc' = "refused" /\ pinCons \notin mask[runner]
      /\ UNCHANGED <<pinProd, pinCons, todo, runner, mask>>
  BY DEF RefuseCore
<1>2. mask[runner] = Cores
  BY <1>1 DEF PinInv, StartsUnpinned
<1>3. QED
  BY <1>1, <1>2
     DEF PinInv, PinTypes, StartsUnpinned, RefusedForCause, PinnedAsAsked

LEMMA BuildStep ==
    ASSUME PinInv, BuildConsumer
    PROVE  PinInv'
<1>1. /\ pc = "build" /\ pc' = "pin" /\ mask[runner] = Cores
      /\ mask' = [mask EXCEPT !.consumer = Pin(pinCons, mask[runner])]
      /\ UNCHANGED <<pinProd, pinCons, todo, runner>>
  BY DEF BuildConsumer, ConsumerMask, PinInv, StartsUnpinned
<1>2. /\ DOMAIN mask' = {"main", "warmup", "consumer"}
      /\ mask'.main = mask.main /\ mask'[runner] = Cores
      /\ mask'.consumer = Pin(pinCons, Cores)
  BY <1>1 DEF PinInv, PinTypes
<1>3. Pin(pinCons, Cores)' = Pin(pinCons, Cores)
  BY <1>1 DEF Pin
<1>4. QED
  BY <1>1, <1>2, <1>3
     DEF PinInv, PinTypes, StartsUnpinned, RefusedForCause, PinnedAsAsked

LEMMA PinStep ==
    ASSUME PinInv, PinProducer
    PROVE  PinInv'
<1>1. /\ pc = "pin" /\ pc' = "publish" /\ mask[runner] = Cores
      /\ mask.consumer = Pin(pinCons, Cores)
      /\ mask' = [mask EXCEPT ![runner] = Pin(pinProd, mask[runner])]
      /\ UNCHANGED <<pinProd, pinCons, todo, runner>>
  BY DEF PinProducer, PinInv, StartsUnpinned
<1>2. /\ DOMAIN mask' = {"main", "warmup", "consumer"}
      /\ mask'.consumer = Pin(pinCons, Cores)
      /\ mask'[runner] = Pin(pinProd, Cores)
      /\ runner = "warmup" => mask'.main = mask.main
  BY <1>1 DEF PinInv, PinTypes
<1>3. /\ Pin(pinCons, Cores)' = Pin(pinCons, Cores)
      /\ Pin(pinProd, Cores)' = Pin(pinProd, Cores)
  BY <1>1 DEF Pin
<1>4. QED
  BY <1>1, <1>2, <1>3
     DEF PinInv, PinTypes, StartsUnpinned, RefusedForCause, PinnedAsAsked

LEMMA FinishStep ==
    ASSUME PinInv, FinishRun
    PROVE  PinInv'
<1>1. /\ pc = "publish" /\ pc' = "main" /\ todo' = Tail(todo) /\ runner' = "main"
      /\ UNCHANGED mask
  BY DEF FinishRun
<1>2. todo' \in Remaining /\ (todo' # <<>> => mask.main = Cores)
  BY <1>1, RemainingRuns DEF PinInv, PinTypes, StartsUnpinned
<1>3. QED
  BY <1>1, <1>2
     DEF PinInv, PinTypes, StartsUnpinned, RefusedForCause, PinnedAsAsked

LEMMA PinInvariance ==
    ASSUME "all" \notin Modes
    PROVE  PinSpec => []PinInv
<1>1. PinInv /\ UNCHANGED pinVars => PinInv'
  BY DEF pinVars, Pin, PinInv, PinTypes, StartsUnpinned, RefusedForCause,
         PinnedAsAsked
<1>2. PinInv /\ [PinNext]_pinVars => PinInv'
  BY <1>1, StartStep, RefuseStep, BuildStep, PinStep, FinishStep DEF PinNext, Ended
<1>3. QED
  BY <1>2, PinInitHolds, PTL DEF PinSpec

(* With one measured run in the process a run is refused its core only if  *)
(* the machine does not have it.  Mode "all" is left out: there the second *)
(* measured run starts on a main thread the first has pinned.              *)
THEOREM PinRefusedForCause ==
    ASSUME "all" \notin Modes
    PROVE  PinSpec => []RefusedForCause
<1>1. PinInv => RefusedForCause
  BY DEF PinInv
<1>2. QED
  BY <1>1, PinInvariance, PTL

(* With one measured run in the process each thread publishes or consumes  *)
(* on the core it was asked for, on any machine, and a consumer nobody     *)
(* pinned has all cores to itself.                                         *)
THEOREM PinPinnedAsAsked ==
    ASSUME "all" \notin Modes
    PROVE  PinSpec => []PinnedAsAsked
<1>1. PinInv => PinnedAsAsked
  BY DEF PinInv
<1>2. QED
  BY <1>1, PinInvariance, PTL

===============================================================================
