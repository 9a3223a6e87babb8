---------------------------- MODULE CppPacingProofs ----------------------------
(***************************************************************************)
(* Proofs about CppPacing for every interval, run length, clamp and bound  *)
(* of the clock: no operation is processed before it is due, a stall is    *)
(* charged to every operation that was due during it, and exactly the      *)
(* operations past the warmup are measured.  At the end, CppRun for every  *)
(* sequence of runs of a process: where its threads are pinned, and which  *)
(* allocations its report counts.                                          *)
(***************************************************************************)
EXTENDS CppPacing, CppRun, FiniteSetTheorems, TLAPS

-------------------------------------------------------------------------------
(* The inductive invariant.                                                *)

Types ==
    /\ clock \in Nat /\ clock < Word
    /\ interval \in Nat /\ nextDue \in Nat /\ ts \in Nat /\ sent \in Nat
    /\ stamps \in Seq(Nat) /\ Len(stamps) = sent
    /\ samples \in Seq(Nat) /\ delivered \in Seq(Nat) /\ Len(delivered) <= sent
    /\ cpc \in {"poll", "sample", "exit"}

(* Nothing is stamped with a time to come. *)
Past == ts <= clock /\ \A k \in 1 .. sent : stamps[k] <= clock

Measured(k) == Paced /\ WarmupOps < k /\ k <= TotalOps

(* The measured operations, and no others, carry stamps, an interval apart *)
(* whatever has held the producer up.                                      *)
Stamped ==
    /\ \A k \in 1 .. sent : IF Measured(k) THEN stamps[k] > 0 ELSE stamps[k] = 0
    /\ \A k \in 1 .. sent : Measured(k) /\ Measured(k - 1) => stamps[k] = stamps[k - 1] + interval

(* What the producer's locals have to do with the last stamp. *)
Scheduled ==
    /\ ppc = "begin" => sent = 0
    /\ ppc = "op" => sent <= TotalOps
    /\ ppc = "op" /\ sent > 0 /\ Measured(sent) => stamps[sent] = nextDue
    /\ ppc \in {"spin", "publish"} => sent < TotalOps
    /\ ppc = "spin" => Paced /\ nextDue > 0
    /\ ppc = "publish" => IF Measured(sent + 1) THEN ts = nextDue /\ nextDue > 0 ELSE ts = 0
    /\ ppc \in {"spin", "publish"} /\ sent > 0 /\ Measured(sent) =>
         stamps[sent] + interval = nextDue

(* The last event the consumer is done with, as long as it runs. *)
Handled == IF cpc = "sample" THEN Len(delivered) - 1 ELSE Len(delivered)

Cut(x) == IF x < 1 THEN 1 ELSE IF x > SampleMax THEN SampleMax ELSE x

(* The last sample is at most what it would be if it were taken now.       *)
Charged ==
    /\ cpc = "sample" => Len(delivered) > 0
    /\ cpc \in {"poll", "sample"} => Len(delivered) <= TotalOps
    /\ cpc \in {"poll", "sample"} /\ samples # <<>> =>
         /\ Handled > 0 /\ Measured(Handled)
         /\ samples[Len(samples)] <= Cut(clock - stamps[Handled])

IInv == Types /\ Past /\ Stamped /\ Scheduled /\ Charged /\ StallsCharged

-------------------------------------------------------------------------------

LEMMA Constants ==
    /\ TotalOps \in Nat /\ WarmupOps \in Nat /\ WarmupOps <= TotalOps
    /\ Word \in Nat /\ MaxClock \in Nat /\ MaxClock < Word
    /\ SampleMax \in Nat /\ SampleMax >= 1 /\ OneSecond \in Nat /\ Rates \subseteq Nat
  BY CppPacingAssumption DEF CppPacingAssumption

LEMMA AppendFacts ==
    ASSUME NEW s \in Seq(Nat), NEW e \in Nat
    PROVE  /\ Append(s, e) \in Seq(Nat)
           /\ Len(s) \in Nat /\ Len(Append(s, e)) = Len(s) + 1
           /\ Append(s, e)[Len(s) + 1] = e
           /\ \A k \in 1 .. Len(s) : Append(s, e)[k] = s[k]
  OBVIOUS

LEMMA SmallRemainder == \A x \in Nat : x < Word => x % Word = x
  BY Constants

LEMMA ClampedIsCut ==
    ASSUME NEW x \in Nat
    PROVE  Clamped(x) = Cut(x)
<1>1. Max({x, 1}) = IF x >= 1 THEN x ELSE 1
  BY DEF Max
<1>2. ASSUME NEW y \in Nat PROVE Min({y, SampleMax}) = IF y <= SampleMax THEN y ELSE SampleMax
  BY Constants DEF Min
<1>3. QED
  BY <1>1, <1>2, Constants DEF Clamped, Cut

(* Before and after a time that passes or an interval that is skipped.     *)
LEMMA CutSteps ==
    ASSUME NEW x \in Int, NEW d \in Nat
    PROVE  Cut(x) \in Nat /\ Cut(x) <= Cut(x + d) /\ Cut(x - d) >= Cut(x) - d
  BY Constants DEF Cut

LEMMA InitHolds == Init => IInv
<1> SUFFICES ASSUME Init PROVE IInv
  OBVIOUS
<1>1. interval \in Nat
  <2>1. ASSUME NEW rate \in Nat PROVE IntervalOf(rate) \in Nat
    BY <2>1, Constants DEF IntervalOf
  <2>2. QED
    BY <2>1, Constants DEF Init
<1>2. sent = 0 /\ delivered = <<>> /\ samples = <<>> /\ stamps = <<>> /\ ppc = "begin" /\ cpc = "poll"
  BY DEF Init, Channel!Init
<1>3. Types
  BY <1>1, <1>2, Constants DEF Types, Init
<1>4. Past /\ Stamped /\ Scheduled /\ Charged /\ StallsCharged
  BY <1>2, Constants DEF Past, Stamped, Scheduled, Charged, StallsCharged, Init, Handled
<1>5. QED
  BY <1>3, <1>4 DEF IInv

(* A step of the producer that publishes nothing. *)
LEMMA ScheduleStep ==
    ASSUME IInv, StartSchedule \/ NextOp \/ SpinEnds
    PROVE  IInv'
<1> USE Constants
<1>1. /\ UNCHANGED <<clock, interval, stamps, samples, delivered, sent, cpc>>
      /\ nextDue' \in Nat /\ ts' \in Nat /\ ts' <= clock
  BY DEF IInv, Types, Past, StartSchedule, NextOp, DueNext, SpinEnds, Due, consumerVars
<1>2. Types' /\ Past' /\ Stamped' /\ Charged' /\ StallsCharged'
  BY <1>1 DEF IInv, Types, Past, Stamped, Measured, Paced, Charged, StallsCharged, Handled
<1>3. Scheduled'
  <2>1. CASE StartSchedule
    BY <1>1, <2>1 DEF IInv, Types, Scheduled, Measured, Paced, StartSchedule
  <2>2. CASE NextOp /\ Paced
    <3>1. /\ ppc = "op" /\ ppc' = "spin" /\ sent < TotalOps
          /\ nextDue' = nextDue + interval /\ nextDue' > 0 /\ interval > 0
      BY <2>2 DEF NextOp, DueNext, Paced, IInv, Types
    <3>2. sent > 0 /\ Measured(sent) => stamps[sent] = nextDue
      BY <3>1 DEF IInv, Scheduled
    <3>3. QED
      BY <1>1, <3>1, <3>2 DEF Scheduled, Measured, Paced
  <2>3. CASE NextOp /\ ~Paced
    <3>1. ppc = "op" /\ ppc' = "publish" /\ sent < TotalOps /\ ts' = 0
      BY <2>3 DEF NextOp
    <3>2. QED
      BY <1>1, <2>3, <3>1 DEF Scheduled, Measured, Paced
  <2>4. CASE SpinEnds
    <3>1. /\ ppc = "spin" /\ ppc' = "publish" /\ sent < TotalOps /\ nextDue' = nextDue
          /\ Paced /\ nextDue > 0
          /\ sent > 0 /\ Measured(sent) => stamps[sent] + interval = nextDue
      BY <2>4 DEF SpinEnds, IInv, Scheduled
    <3>2. ts' = IF Measured(sent + 1) THEN nextDue ELSE 0
      BY <2>4, <3>1 DEF SpinEnds, PastWarmup, Measured, IInv, Types
    <3>3. QED
      BY <1>1, <3>1, <3>2 DEF Scheduled, Measured, Paced
  <2>5. QED
    BY <2>1, <2>2, <2>3, <2>4
<1>4. QED
  BY <1>2, <1>3 DEF IInv

LEMMA PublishStep ==
    ASSUME IInv, PublishOp \/ PublishReport
    PROVE  IInv'
<1> USE Constants
<1> DEFINE stamp == IF ppc = "publish" THEN ts ELSE 0
<1>1. /\ sent' = sent + 1 /\ stamps' = Append(stamps, stamp)
      /\ \/ ppc = "publish" /\ ppc' = "op"
         \/ ppc = "op" /\ sent = TotalOps /\ ppc' = "join"
      /\ UNCHANGED <<clock, interval, nextDue, ts, samples, delivered, cpc>>
  <2>1. CASE PublishOp
    BY <2>1 DEF PublishOp, Channel!Send, consumerVars
  <2>2. CASE PublishReport
    BY <2>2 DEF PublishReport, Channel!Send, consumerVars
  <2>3. QED
    BY <2>1, <2>2
<1>2. /\ stamp \in Nat /\ stamp <= clock /\ sent \in Nat
      /\ stamps' \in Seq(Nat) /\ Len(stamps') = sent' /\ stamps'[sent'] = stamp
      /\ \A k \in 1 .. sent : stamps'[k] = stamps[k]
  <2>1. stamp \in Nat /\ stamp <= clock /\ sent = Len(stamps)
    BY DEF IInv, Types, Past
  <2>2. QED
    BY <1>1, <2>1, AppendFacts DEF IInv, Types
<1> HIDE DEF stamp
<1>3. \A k \in 1 .. sent' : k \in 1 .. sent \/ k = sent'
  BY <1>1, <1>2
<1>4. Types' /\ Past' /\ StallsCharged'
  BY <1>1, <1>2, <1>3 DEF IInv, Types, Past, StallsCharged
<1>5. /\ IF Measured(sent') THEN stamp > 0 /\ stamp = nextDue ELSE stamp = 0
      /\ sent > 0 /\ Measured(sent) /\ Measured(sent') => stamp = stamps[sent] + interval
  <2>1. CASE ppc = "publish"
    <3>1. stamp = ts
      BY <2>1 DEF stamp
    <3>2. QED
      BY <1>1, <1>2, <2>1, <3>1 DEF IInv, Scheduled
  <2>2. CASE ppc = "op"
    <3>1. stamp = 0 /\ ~Measured(sent')
      BY <1>1, <1>2, <2>2 DEF stamp, Measured
    <3>2. QED
      BY <3>1
  <2>3. QED
    BY <1>1, <2>1, <2>2
<1>6. Stamped'
  <2>1. ASSUME NEW k \in 1 .. sent' PROVE Measured(k)' = Measured(k) /\ Measured(k - 1)' = Measured(k - 1)
    BY <1>1 DEF Measured, Paced
  <2>2. ASSUME NEW k \in 1 .. sent' PROVE IF Measured(k) THEN stamps'[k] > 0 ELSE stamps'[k] = 0
    <3>1. CASE k \in 1 .. sent
      BY <1>2, <3>1 DEF IInv, Stamped
    <3>2. CASE k = sent'
      BY <1>2, <1>5, <3>2 DEF Measured, IInv, Types
    <3>3. QED
      BY <1>3, <3>1, <3>2
  <2>3. ASSUME NEW k \in 1 .. sent', Measured(k), Measured(k - 1)
        PROVE  stamps'[k] = stamps'[k - 1] + interval
    <3>1. k - 1 \in 1 .. sent
      BY <1>1, <1>2, <2>3 DEF Measured
    <3>2. stamps'[k - 1] = stamps[k - 1]
      BY <1>2, <3>1
    <3>3. CASE k \in 1 .. sent
      BY <1>2, <2>3, <3>2, <3>3 DEF IInv, Stamped
    <3>4. CASE k = sent'
      <4>1. k - 1 = sent /\ sent > 0
        BY <1>1, <1>2, <3>1, <3>4
      <4>2. QED
        BY <1>2, <1>5, <2>3, <3>2, <3>4, <4>1
    <3>5. QED
      BY <1>3, <3>3, <3>4
  <2>4. QED
    BY <1>1, <2>1, <2>2, <2>3 DEF Stamped
<1>7. Scheduled'
  <2>1. Measured(sent)' = Measured(sent')
    BY <1>1 DEF Measured, Paced
  <2>2. CASE ppc = "publish" /\ ppc' = "op"
    BY <1>1, <1>2, <1>5, <2>1, <2>2 DEF IInv, Scheduled
  <2>3. CASE ppc' = "join"
    BY <2>3 DEF Scheduled
  <2>4. QED
    BY <1>1, <2>2, <2>3
<1>8. Charged'
  <2>1. samples # <<>> /\ cpc # "exit" => Handled \in 1 .. sent
    BY DEF IInv, Types, Charged, Handled
  <2>2. QED
    BY <1>1, <1>2, <2>1 DEF IInv, Types, Charged, Handled, Measured, Paced
<1>9. QED
  BY <1>4, <1>6, <1>7, <1>8 DEF IInv

LEMMA EndStep ==
    ASSUME IInv, Join \/ PrintResult \/ ReadNoSamples
    PROVE  IInv'
<1>1. /\ UNCHANGED <<clock, interval, nextDue, ts, stamps, samples, delivered, sent, cpc>>
      /\ ppc' \in {"joined", "printed", "crashed"}
  BY DEF Join, PrintResult, ReadNoSamples, consumerVars
<1>2. Types' /\ Past' /\ Stamped' /\ Charged' /\ StallsCharged'
  BY <1>1 DEF IInv, Types, Past, Stamped, Measured, Paced, Charged, StallsCharged, Handled
<1>3. Scheduled'
  BY <1>1 DEF Scheduled
<1>4. QED
  BY <1>2, <1>3 DEF IInv

LEMMA DeliverStep ==
    ASSUME IInv, Apply \/ Report
    PROVE  IInv'
<1> USE Constants
<1>1. /\ Len(delivered) < sent /\ delivered' = Append(delivered, Len(delivered) + 1)
      /\ cpc = "poll"
      /\ \/ Len(delivered) < TotalOps /\ cpc' = "sample"
         \/ Len(delivered) = TotalOps /\ cpc' = "exit"
      /\ UNCHANGED <<clock, interval, nextDue, ts, stamps, samples, sent, ppc>>
  <2>1. CASE Apply
    BY <2>1 DEF Apply, Channel!Deliver, Current, producerVars
  <2>2. CASE Report
    BY <2>2 DEF Report, Channel!Deliver, Current, producerVars
  <2>3. QED
    BY <2>1, <2>2
<1>2. Len(delivered) \in Nat /\ delivered' \in Seq(Nat) /\ Len(delivered') = Len(delivered) + 1
  BY <1>1, AppendFacts DEF IInv, Types
<1>3. Types'
  BY <1>1, <1>2 DEF IInv, Types
<1>4. Past' /\ Stamped' /\ Scheduled' /\ StallsCharged'
  BY <1>1 DEF IInv, Past, Stamped, Scheduled, StallsCharged, Measured, Paced
<1>5. Charged'
  <2>1. cpc' = "sample" => Handled' = Handled
    BY <1>1, <1>2 DEF Handled
  <2>2. QED
    BY <1>1, <1>2, <2>1 DEF IInv, Charged, Measured, Paced
<1>6. QED
  BY <1>3, <1>4, <1>5 DEF IInv

LEMMA SampleStep ==
    ASSUME IInv, Sample
    PROVE  IInv'
<1> USE Constants
<1> DEFINE n == Len(delivered)
<1>1. /\ cpc = "sample" /\ cpc' = "poll"
      /\ UNCHANGED <<clock, interval, nextDue, ts, stamps, delivered, sent, ppc>>
  BY DEF Sample, producerVars
<1>2. n \in 1 .. sent /\ n \in 1 .. TotalOps /\ Handled = n - 1 /\ Handled' = n
  BY <1>1 DEF IInv, Types, Charged, Handled
<1>3. stamps[n] \in Nat /\ stamps[n] <= clock
  BY <1>2 DEF IInv, Types, Past
<1>4. CASE stamps[n] = 0
  <2>1. samples' = samples
    BY <1>4 DEF Sample, Current
  <2>2. samples = <<>>
    <3>1. ~Measured(n)
      BY <1>2, <1>4 DEF IInv, Stamped
    <3>2. Measured(n - 1) => Measured(n)
      BY <1>2 DEF Measured
    <3>3. QED
      BY <1>1, <1>2, <3>1, <3>2 DEF IInv, Charged
  <2>3. QED
    BY <1>1, <1>2, <2>1, <2>2 DEF IInv, Types, Past, Stamped, Scheduled, StallsCharged, Charged, Measured, Paced
<1>5. CASE stamps[n] # 0
  <2>1. Measured(n)
    BY <1>2, <1>5 DEF IInv, Stamped
  <2>2. samples' = Append(samples, Cut(clock - stamps[n]))
    <3>1. Elapsed(stamps[n]) = clock - stamps[n] /\ clock - stamps[n] \in Nat
      <4>1. clock - stamps[n] \in Nat /\ clock - stamps[n] < Word
        BY <1>3 DEF IInv, Types
      <4>2. QED
        BY <4>1, SmallRemainder DEF Elapsed
    <3>2. samples' = Append(samples, Clamped(Elapsed(stamps[n])))
      BY <1>5 DEF Sample, Current
    <3>3. QED
      BY <3>1, <3>2, ClampedIsCut
  <2>3. /\ samples' \in Seq(Nat) /\ Len(samples) \in Nat /\ Len(samples') = Len(samples) + 1
        /\ samples'[Len(samples')] = Cut(clock - stamps[n])
        /\ \A k \in 1 .. Len(samples) : samples'[k] = samples[k]
    <3>1. clock - stamps[n] \in Int
      BY <1>3 DEF IInv, Types
    <3>2. Cut(clock - stamps[n]) \in Nat
      BY <3>1, CutSteps
    <3>3. QED
      BY <2>2, <3>2, AppendFacts DEF IInv, Types
  <2>4. Types' /\ Past' /\ Stamped' /\ Scheduled'
    BY <1>1, <2>3 DEF IInv, Types, Past, Stamped, Scheduled, Measured, Paced
  <2>5. Charged'
    BY <1>1, <1>2, <1>3, <2>1, <2>3 DEF IInv, Types, Charged, Measured, Paced, Handled
  <2>6. samples # <<>> => samples'[Len(samples) + 1] >= samples[Len(samples)] - interval
    <3> SUFFICES ASSUME samples # <<>>
                 PROVE  Cut(clock - stamps[n]) >= samples[Len(samples)] - interval
      BY <2>3
    <3>1. Measured(n - 1) /\ n - 1 \in 1 .. sent /\ samples[Len(samples)] <= Cut(clock - stamps[n - 1])
      <4>1. Handled > 0 /\ Measured(Handled) /\ samples[Len(samples)] <= Cut(clock - stamps[Handled])
        BY <1>1 DEF IInv, Charged
      <4>2. n - 1 \in 1 .. sent
        <5>1. n - 1 > 0 /\ n \in Nat /\ sent \in Nat /\ n <= sent
          BY <1>2, <4>1 DEF IInv, Types
        <5>2. QED
          BY <5>1
      <4>3. Measured(n - 1)
        BY <1>2, <4>1
      <4>4. samples[Len(samples)] <= Cut(clock - stamps[n - 1])
        BY <1>2, <4>1
      <4>5. QED
        BY <4>2, <4>3, <4>4
    <3>2. stamps[n] = stamps[n - 1] + interval
      BY <1>2, <2>1, <3>1 DEF IInv, Stamped
    <3>3. stamps[n - 1] \in Nat /\ clock \in Nat /\ interval \in Nat
      <4>1. stamps \in Seq(Nat) /\ Len(stamps) = sent /\ clock \in Nat /\ interval \in Nat
        BY DEF IInv, Types
      <4>2. QED
        BY <3>1, <4>1
    <3>4. /\ clock - stamps[n - 1] \in Int
          /\ clock - stamps[n] = (clock - stamps[n - 1]) - interval
      BY <3>2, <3>3
    <3>5. /\ Cut(clock - stamps[n - 1]) \in Nat /\ Cut(clock - stamps[n]) \in Nat
          /\ Cut(clock - stamps[n]) >= Cut(clock - stamps[n - 1]) - interval
      <4>1. clock - stamps[n] \in Int
        BY <1>3, <3>3
      <4>2. QED
        BY <3>3, <3>4, <4>1, CutSteps
    <3>6. samples[Len(samples)] \in Nat
      BY DEF IInv, Types
    <3>7. QED
      BY <3>1, <3>3, <3>5, <3>6
  <2>7. StallsCharged'
    <3> SUFFICES ASSUME NEW k \in 1 .. Len(samples') - 1
                 PROVE  samples'[k + 1] >= samples'[k] - interval
      BY <1>1 DEF StallsCharged
    <3>1. k \in 1 .. Len(samples) /\ samples'[k] = samples[k]
      BY <2>3
    <3>2. CASE k \in 1 .. Len(samples) - 1
      <4>1. k + 1 \in 1 .. Len(samples)
        BY <2>3, <3>2
      <4>2. samples'[k + 1] = samples[k + 1]
        BY <2>3, <4>1
      <4>3. samples[k + 1] >= samples[k] - interval
        BY <3>2 DEF IInv, StallsCharged
      <4>4. QED
        BY <3>1, <4>2, <4>3
    <3>3. CASE k = Len(samples)
      <4>1. samples # <<>>
        BY <3>1, <3>3
      <4>2. QED
        BY <2>6, <3>1, <3>3, <4>1
    <3>4. QED
      BY <2>3, <3>1, <3>2, <3>3
  <2>8. QED
    BY <2>4, <2>5, <2>7 DEF IInv
<1>6. QED
  BY <1>4, <1>5

LEMMA TickStep ==
    ASSUME IInv, Tick
    PROVE  IInv'
<1> USE Constants
<1>1. /\ clock' = clock + 1 /\ clock < MaxClock
      /\ UNCHANGED <<interval, nextDue, ts, stamps, samples, delivered, sent, cpc, ppc>>
  BY DEF Tick, producerVars, consumerVars
<1>2. Types' /\ Past' /\ Stamped' /\ Scheduled' /\ StallsCharged'
  BY <1>1 DEF IInv, Types, Past, Stamped, Scheduled, StallsCharged, Measured, Paced
<1>3. Charged'
  <2>1. Handled' = Handled /\ Measured(Handled)' = Measured(Handled)
    BY <1>1 DEF Handled, Measured, Paced
  <2>2. ASSUME cpc \in {"poll", "sample"}, samples # <<>>
        PROVE  /\ stamps[Handled] \in Nat /\ clock \in Nat
               /\ samples[Len(samples)] <= Cut((clock + 1) - stamps[Handled])
    <3>1. Handled \in 1 .. sent /\ samples[Len(samples)] <= Cut(clock - stamps[Handled])
      BY <2>2 DEF IInv, Types, Charged, Handled
    <3>2. stamps[Handled] \in Nat /\ clock \in Nat /\ samples[Len(samples)] \in Nat
      BY <2>2, <3>1 DEF IInv, Types
    <3> DEFINE x == clock - stamps[Handled]
    <3>3. x \in Int /\ x + 1 \in Int /\ (clock + 1) - stamps[Handled] = x + 1
      BY <3>2
    <3>4. Cut(x) \in Nat /\ Cut(x) <= Cut(x + 1) /\ Cut(x + 1) \in Nat
      <4> HIDE DEF x
      <4>1. QED
        BY <3>3, CutSteps
    <3>5. samples[Len(samples)] <= Cut(x)
      BY <3>1
    <3>6. Cut((clock + 1) - stamps[Handled]) = Cut(x + 1)
      <4> HIDE DEF x
      <4>1. QED
        BY ONLY <3>3
    <3>7. QED
      <4> HIDE DEF x
      <4>1. QED
        BY ONLY <3>2, <3>4, <3>5, <3>6
  <2>3. /\ cpc = "sample" => Len(delivered) > 0
        /\ cpc \in {"poll", "sample"} => Len(delivered) <= TotalOps
        /\ cpc \in {"poll", "sample"} /\ samples # <<>> => Handled > 0 /\ Measured(Handled)
    BY DEF IInv, Charged
  <2>4. /\ (cpc = "sample" => Len(delivered) > 0)'
        /\ (cpc \in {"poll", "sample"} => Len(delivered) <= TotalOps)'
        /\ (cpc \in {"poll", "sample"} /\ samples # <<>> => Handled > 0 /\ Measured(Handled))'
    BY <1>1, <2>1, <2>3
  <2>5. ASSUME (cpc \in {"poll", "sample"} /\ samples # <<>>)'
        PROVE  (samples[Len(samples)] <= Cut(clock - stamps[Handled]))'
    <3>1. cpc \in {"poll", "sample"} /\ samples # <<>>
      BY <1>1, <2>5
    <3>2. stamps[Handled]' = stamps[Handled] /\ clock' = clock + 1
      BY <1>1, <2>1
    <3>3. Cut(clock - stamps[Handled])' = Cut(clock' - stamps[Handled]')
      BY DEF Cut
    <3>4. QED
      BY <1>1, <2>2, <3>1, <3>2, <3>3
  <2>6. QED
    BY <2>4, <2>5 DEF Charged
<1>4. QED
  BY <1>2, <1>3 DEF IInv

LEMMA Inductive == IInv /\ [Next]_vars => IInv'
<1> SUFFICES ASSUME IInv, [Next]_vars PROVE IInv'
  OBVIOUS
<1>1. CASE UNCHANGED vars
  BY <1>1 DEF vars, producerVars, consumerVars, IInv, Types, Past, Stamped, Scheduled,
              StallsCharged, Charged, Handled, Measured, Paced
<1>2. CASE Producer
  BY <1>2, ScheduleStep, PublishStep, EndStep DEF Producer
<1>3. CASE Consumer
  BY <1>3, DeliverStep, SampleStep DEF Consumer
<1>4. CASE Tick
  BY <1>4, TickStep
<1>5. QED
  BY <1>1, <1>2, <1>3, <1>4 DEF Next, TimeIsUp

LEMMA Implied == IInv => NothingEarly
  BY DEF IInv, Types, Past, Charged, NothingEarly, Current

-------------------------------------------------------------------------------
(* How many samples there are.                                             *)

Over == {"joined", "printed", "crashed"}

(* The operations the consumer is done with. *)
Done == IF cpc = "poll" THEN Len(delivered) ELSE Len(delivered) - 1

Counted ==
    /\ ppc \in Over => cpc = "exit"
    /\ cpc = "exit" => Len(delivered) = TotalOps + 1
    /\ Len(samples) = IF Paced /\ Done > WarmupOps THEN Done - WarmupOps ELSE 0

LEMMA CountedInit == Init => Counted
  BY Constants DEF Init, Channel!Init, Counted, Over, Done

(* The steps that leave the consumer alone. *)
LEMMA CountedProducer ==
    ASSUME Counted, Producer \/ Tick \/ UNCHANGED vars
    PROVE  Counted'
<1>1. UNCHANGED <<cpc, samples, delivered, interval>>
  BY DEF Producer, StartSchedule, NextOp, SpinEnds, PublishOp, PublishReport, Join, PrintResult,
         ReadNoSamples, Tick, vars, producerVars, consumerVars, Channel!Send
<1>2. ppc' \in Over => ppc \in Over \/ cpc = "exit"
  BY DEF Over, Producer, StartSchedule, NextOp, SpinEnds, PublishOp, PublishReport, Join,
         PrintResult, ReadNoSamples, Tick, vars, producerVars, consumerVars
<1>3. Done' = Done /\ Paced' = Paced
  BY <1>1 DEF Done, Paced
<1>4. QED
  BY <1>1, <1>2, <1>3 DEF Counted

LEMMA CountedDeliver ==
    ASSUME IInv, Counted, Apply \/ Report
    PROVE  Counted'
<1>1. /\ delivered' = Append(delivered, Len(delivered) + 1) /\ cpc = "poll"
      /\ \/ cpc' = "sample"
         \/ Len(delivered) = TotalOps /\ cpc' = "exit"
      /\ UNCHANGED <<interval, samples, ppc>>
  <2>1. CASE Apply
    BY <2>1 DEF Apply, Channel!Deliver, producerVars
  <2>2. CASE Report
    BY <2>2 DEF Report, Channel!Deliver, Current, producerVars
  <2>3. QED
    BY <2>1, <2>2
<1>2. Len(delivered) \in Nat /\ Len(delivered') = Len(delivered) + 1
  BY <1>1, AppendFacts DEF IInv, Types
<1>3. Done' = Done /\ Paced' = Paced
  BY <1>1, <1>2 DEF Done, Paced
<1>4. QED
  BY <1>1, <1>2, <1>3 DEF Counted

LEMMA CountedSample ==
    ASSUME IInv, Counted, Sample
    PROVE  Counted'
<1> USE Constants
<1> DEFINE n == Len(delivered)
<1>1. /\ cpc = "sample" /\ cpc' = "poll"
      /\ UNCHANGED <<interval, delivered, ppc>>
      /\ samples' = IF stamps[n] = 0 THEN samples
                    ELSE Append(samples, Clamped(Elapsed(stamps[n])))
  BY DEF Sample, Current, producerVars
<1>2. n \in 1 .. sent /\ n \in 1 .. TotalOps /\ Done = n - 1 /\ Done' = n /\ Paced' = Paced
  BY <1>1 DEF IInv, Types, Charged, Done, Paced
<1>3. stamps[n] # 0 <=> Paced /\ n > WarmupOps
  BY <1>2 DEF IInv, Stamped, Measured
<1>4. samples \in Seq(Nat) /\ Len(samples) \in Nat
  BY DEF IInv, Types
<1>5. CASE stamps[n] = 0
  BY <1>1, <1>2, <1>3, <1>5 DEF Counted, Over
<1>6. CASE stamps[n] # 0
  <2>1. Len(samples') = Len(samples) + 1
    BY <1>1, <1>4, <1>6
  <2>2. Len(samples) = n - 1 - WarmupOps
    BY <1>2, <1>3, <1>6 DEF Counted
  <2>3. Len(samples') = Done' - WarmupOps /\ Paced' /\ Done' > WarmupOps
    BY <1>2, <1>3, <1>6, <2>1, <2>2
  <2>4. QED
    BY <1>1, <2>3 DEF Counted, Over
<1>7. QED
  BY <1>5, <1>6

LEMMA CountedInductive == IInv /\ Counted /\ [Next]_vars => Counted'
<1> SUFFICES ASSUME IInv, Counted, [Next]_vars PROVE Counted'
  OBVIOUS
<1>1. CASE Producer \/ Tick \/ UNCHANGED vars
  BY <1>1, CountedProducer
<1>2. CASE Consumer
  BY <1>2, CountedDeliver, CountedSample DEF Consumer
<1>3. QED
  BY <1>1, <1>2 DEF Next, TimeIsUp

-------------------------------------------------------------------------------

(* The consumer never takes a sample before the operation was due: the     *)
(* unsigned difference in run_impl's consumer does not wrap.               *)
THEOREM NothingEarlyHolds == Spec => []NothingEarly
<1>1. QED
  BY InitHolds, Inductive, Implied, PTL DEF Spec

(* Coordinated omission is avoided: whatever stalls the threads, and       *)
(* although samples are cut off, from one sample to the next the latency   *)
(* falls by no more than the interval.                                     *)
THEOREM StallsChargedHolds == Spec => []StallsCharged
<1>1. IInv => StallsCharged
  BY DEF IInv
<1>2. QED
  BY InitHolds, Inductive, <1>1, PTL DEF Spec

(* Every operation past the warmup of a paced run is measured, and no      *)
(* other: one sample each.                                                 *)
THEOREM SamplesCompleteHolds == Spec => []SamplesComplete
<1>1. Counted => SamplesComplete
  BY Constants DEF Counted, SamplesComplete, Done, Over
<1>2. QED
  BY InitHolds, Inductive, CountedInit, CountedInductive, <1>1, PTL DEF Spec

-------------------------------------------------------------------------------
(* The percentiles.  That samples can be sorted at all: the place of one   *)
(* is the number of those that come before it, itself included.            *)

LEMMA Sortable ==
    ASSUME NEW n \in Nat, NEW s \in [1 .. n -> Int]
    PROVE  \E at \in Bijection(1 .. n, 1 .. n) :
               \A j, k \in 1 .. n : j < k => s[at[j]] <= s[at[k]]
<1> DEFINE D == 1 .. n
           Before(j, k) == s[j] < s[k] \/ (s[j] = s[k] /\ j <= k)
           UpTo(k) == {j \in D : Before(j, k)}
           place == [k \in D |-> Cardinality(UpTo(k))]
<1>1. IsFiniteSet(D) /\ Cardinality(D) = n
  BY FS_Interval
<1>2. ASSUME NEW k \in D
      PROVE  IsFiniteSet(UpTo(k)) /\ place[k] \in D /\ place[k] = Cardinality(UpTo(k))
  <2>1. UpTo(k) \in SUBSET D /\ k \in UpTo(k)
    OBVIOUS
  <2>2. /\ IsFiniteSet(UpTo(k)) /\ Cardinality(UpTo(k)) <= n
        /\ Cardinality(UpTo(k)) \in Nat /\ Cardinality(UpTo(k)) # 0
    <3> HIDE DEF D, UpTo
    <3>1. QED
      BY <1>1, <2>1, FS_Subset, FS_CardinalityType, FS_EmptySet
  <2>3. QED
    BY <2>2
<1>3. ASSUME NEW j \in D, NEW k \in D, Before(j, k), j # k
      PROVE  place[j] < place[k]
  <2>1. s[j] \in Int /\ s[k] \in Int /\ j \in Int /\ k \in Int
    OBVIOUS
  <2>2. UpTo(j) \subseteq UpTo(k)
    <3> SUFFICES ASSUME NEW i \in D, Before(i, j) PROVE Before(i, k)
      OBVIOUS
    <3>1. s[i] \in Int /\ i \in Int
      OBVIOUS
    <3>2. QED
      BY <1>3, <2>1, <3>1
  <2>3. k \in UpTo(k) /\ k \notin UpTo(j)
    BY <1>3, <2>1
  <2>4. Cardinality(UpTo(j)) <= Cardinality(UpTo(k)) /\ Cardinality(UpTo(j)) # Cardinality(UpTo(k))
    <3> HIDE DEF UpTo
    <3>1. QED
      BY <1>2, <2>2, <2>3, FS_Subset
  <2>5. place[j] = Cardinality(UpTo(j)) /\ place[k] = Cardinality(UpTo(k))
    BY <1>2
  <2>6. Cardinality(UpTo(j)) \in Nat /\ Cardinality(UpTo(k)) \in Nat
    <3> HIDE DEF UpTo
    <3>1. QED
      BY <1>2, FS_CardinalityType
  <2> HIDE DEF place, UpTo
  <2>7. QED
    BY ONLY <2>4, <2>5, <2>6
<1>4. \A j, k \in D : Before(j, k) \/ Before(k, j)
  <2> SUFFICES ASSUME NEW j \in D, NEW k \in D PROVE Before(j, k) \/ Before(k, j)
    OBVIOUS
  <2>1. s[j] \in Int /\ s[k] \in Int /\ j \in Int /\ k \in Int
    OBVIOUS
  <2>2. QED
    BY <2>1
<1>5. place \in Injection(D, D)
  <2>1. \A j, k \in D : place[j] = place[k] => j = k
    <3> SUFFICES ASSUME NEW j \in D, NEW k \in D, place[j] = place[k], j # k PROVE FALSE
      OBVIOUS
    <3>1. place[j] < place[k] \/ place[k] < place[j]
      <4> HIDE DEF place, Before
      <4>1. QED
        BY <1>3, <1>4
    <3>2. place[j] \in D /\ place[k] \in D
      <4> HIDE DEF place, UpTo, D
      <4>1. QED
        BY <1>2
    <3>3. QED
      BY <3>1, <3>2
  <2>2. place \in [D -> D]
    <3>1. \A k \in D : place[k] \in D
      BY <1>2
    <3>2. place = [k \in D |-> place[k]]
      OBVIOUS
    <3> HIDE DEF place, D
    <3>3. QED
      BY <3>1, <3>2
  <2> HIDE DEF place, D
  <2>3. QED
    BY <2>1, <2>2 DEF Injection, IsInjective
<1>6. place \in Surjection(D, D)
  <2> HIDE DEF place, D
  <2>1. QED
    BY <1>1, <1>5, FS_Injection
<1> DEFINE at == [i \in D |-> CHOOSE k \in D : place[k] = i]
<1>7. \A i \in D : at[i] \in D /\ place[at[i]] = i
  <2> HIDE DEF place
  <2>1. \A i \in D : \E k \in D : place[k] = i
    BY <1>6 DEF Surjection
  <2>2. QED
    BY <2>1
<1>8. at \in Bijection(D, D)
  <2>1. at \in [D -> D]
    BY <1>7
  <2>2. \A i, j \in D : at[i] = at[j] => i = j
    <3> HIDE DEF at, place, D
    <3>1. QED
      BY <1>7
  <2>3. at \in Injection(D, D)
    <3> HIDE DEF at, D
    <3>1. QED
      BY <2>1, <2>2 DEF Injection, IsInjective
  <2>4. at \in Surjection(D, D)
    <3> HIDE DEF at, D
    <3>1. QED
      BY <1>1, <2>3, FS_Injection
  <2>5. QED
    BY <2>3, <2>4 DEF Bijection
<1>9. ASSUME NEW j \in D, NEW k \in D, j < k PROVE s[at[j]] <= s[at[k]]
  <2>1. /\ at[j] \in D /\ at[k] \in D /\ at[j] # at[k]
        /\ place[at[j]] = j /\ place[at[k]] = k
    <3>1. j \in Int /\ k \in Int /\ j # k
      BY <1>9
    <3> HIDE DEF at, place, D
    <3>2. QED
      BY <1>7, <1>9, <3>1
  <2>2. SUFFICES ASSUME ~(s[at[j]] <= s[at[k]]) PROVE FALSE
    OBVIOUS
  <2>3. s[at[j]] \in Int /\ s[at[k]] \in Int
    BY <2>1
  <2>4. Before(at[k], at[j])
    BY <2>2, <2>3
  <2>5. place[at[k]] < place[at[j]]
    <3> HIDE DEF at, place, Before
    <3>1. QED
      BY <1>3, <2>1, <2>4
  <2>6. k < j
    BY <2>1, <2>5
  <2>7. QED
    BY <1>9, <2>6
<1>10. QED
  BY <1>8, <1>9

LEMMA SortedIs ==
    ASSUME NEW s \in Seq(Nat)
    PROVE  \E at \in Bijection(1 .. Len(s), 1 .. Len(s)) :
               /\ Sorted(s) = [k \in 1 .. Len(s) |-> s[at[k]]]
               /\ \A j, k \in 1 .. Len(s) : j < k => s[at[j]] <= s[at[k]]
<1> DEFINE places == Bijection(1 .. Len(s), 1 .. Len(s))
           Sorts(at) == \A j, k \in 1 .. Len(s) : j < k => s[at[j]] <= s[at[k]]
           at0 == CHOOSE at \in places : Sorts(at)
<1>1. Len(s) \in Nat /\ s \in [1 .. Len(s) -> Int] /\ DOMAIN s = 1 .. Len(s)
  OBVIOUS
<1>2. \E at \in places : Sorts(at)
  BY <1>1, Sortable
<1>3. at0 \in places /\ Sorts(at0)
  <2> HIDE DEF places, Sorts
  <2>1. QED
    BY <1>2
<1>4. Sorted(s) = [k \in 1 .. Len(s) |-> s[at0[k]]]
  BY <1>1 DEF Sorted
<1>5. QED
  <2> HIDE DEF at0
  <2>1. QED
    BY <1>3, <1>4

(* The sample at index r of the sorted ones: at most r are below it, and   *)
(* r + 1 are not above it.                                                 *)
LEMMA RankCounts ==
    ASSUME NEW s \in Seq(Nat), NEW r \in Nat, r < Len(s), NEW v, v = Sorted(s)[r + 1]
    PROVE  /\ Cardinality({k \in DOMAIN s : s[k] < v}) \in 0 .. r
           /\ Cardinality({k \in DOMAIN s : s[k] <= v}) \in Nat
           /\ Cardinality({k \in DOMAIN s : s[k] <= v}) >= r + 1
<1> DEFINE D == 1 .. Len(s)
           Below == {k \in D : s[k] < v}
           Within == {k \in D : s[k] <= v}
<1>1. PICK at \in Bijection(D, D) :
         /\ Sorted(s) = [k \in D |-> s[at[k]]]
         /\ \A j, k \in D : j < k => s[at[j]] <= s[at[k]]
  BY SortedIs
<1>2. /\ at \in [D -> D]
      /\ \A i, j \in D : at[i] = at[j] => i = j
      /\ \A k \in D : \E i \in D : at[i] = k
  <2> HIDE DEF D
  <2>1. QED
    BY <1>1 DEF Bijection, Injection, Surjection, IsInjective
<1>3. DOMAIN s = D /\ r + 1 \in D /\ v = s[at[r + 1]] /\ v \in Nat /\ \A k \in D : s[k] \in Nat
  <2>1. DOMAIN s = D /\ r + 1 \in D /\ \A k \in D : s[k] \in Nat
    OBVIOUS
  <2> HIDE DEF D
  <2>2. v = s[at[r + 1]] /\ at[r + 1] \in D
    BY <1>1, <1>2, <2>1
  <2>3. QED
    BY <2>1, <2>2
<1>4. IsFiniteSet(D) /\ IsFiniteSet(Below) /\ IsFiniteSet(Within)
  <2>1. IsFiniteSet(D)
    BY FS_Interval
  <2>2. QED
    BY <2>1, FS_Subset
<1>5. Cardinality(Below) \in Nat /\ Cardinality(Within) \in Nat
  BY <1>4, FS_CardinalityType
<1>6. Cardinality(Below) <= r
  <2> DEFINE to == [k \in Below |-> CHOOSE i \in D : at[i] = k]
  <2>1. ASSUME NEW k \in Below PROVE to[k] \in 1 .. r /\ at[to[k]] = k
    <3>1. to[k] \in D /\ at[to[k]] = k
      BY <1>2
    <3>2. CASE to[k] >= r + 1
      <4> DEFINE i == to[k]
      <4> HIDE DEF to
      <4>1. s[at[r + 1]] <= s[at[i]]
        <5>1. i \in Int /\ r + 1 \in Int /\ (r + 1 < i \/ i = r + 1)
          BY <3>1, <3>2
        <5>2. at[i] \in D /\ s[at[i]] \in Nat
          BY <1>2, <1>3, <3>1
        <5>3. i \in D
          BY <3>1
        <5> HIDE DEF D, i
        <5>4. s[at[r + 1]] <= s[at[r + 1]]
          BY <1>3
        <5>5. QED
          BY <1>1, <1>3, <5>1, <5>3, <5>4
      <4>2. s[k] < v /\ s[at[i]] = s[k] /\ s[k] \in Nat
        BY <1>3, <3>1
      <4>3. QED
        BY <1>3, <4>1, <4>2
    <3> HIDE DEF to
    <3>3. QED
      BY <3>1, <3>2
  <2>2. to \in Injection(Below, 1 .. r)
    <3>1. to \in [Below -> 1 .. r]
      BY <2>1
    <3>2. \A j, k \in Below : to[j] = to[k] => j = k
      <4> HIDE DEF to
      <4>1. QED
        BY <2>1
    <3> HIDE DEF to, Below
    <3>3. to \in {M \in [Below -> 1 .. r] : \A j, k \in Below : M[j] = M[k] => j = k}
      BY ONLY <3>1, <3>2
    <3>4. QED
      BY <3>3 DEF Injection, IsInjective
  <2>3. IsFiniteSet(1 .. r) /\ Cardinality(1 .. r) = r
    BY FS_Interval
  <2> HIDE DEF Below, to
  <2>4. Cardinality(Below) <= Cardinality(1 .. r)
    BY <2>2, <2>3, FS_Injection
  <2>5. QED
    BY <2>3, <2>4
<1>7. r + 1 <= Cardinality(Within)
  <2> DEFINE from == [i \in 1 .. r + 1 |-> at[i]]
  <2>1. ASSUME NEW i \in 1 .. r + 1 PROVE from[i] \in Within
    <3>1. i \in D /\ at[i] \in D /\ (i < r + 1 \/ i = r + 1)
      <4>1. i \in D /\ (i < r + 1 \/ i = r + 1)
        BY <1>3
      <4> HIDE DEF D
      <4>2. QED
        BY <1>2, <4>1
    <3>2. s[at[i]] <= s[at[r + 1]]
      BY <1>1, <1>3, <3>1
    <3>3. QED
      BY <1>3, <3>1, <3>2
  <2>2. from \in Injection(1 .. r + 1, Within)
    <3>1. \A i, j \in 1 .. r + 1 : from[i] = from[j] => i = j
      <4>1. \A i \in 1 .. r + 1 : i \in D /\ from[i] = at[i]
        OBVIOUS
      <4> HIDE DEF D, from
      <4>2. QED
        BY <1>2, <4>1
    <3>2. from = [i \in 1 .. r + 1 |-> from[i]]
      OBVIOUS
    <3> HIDE DEF from, Within
    <3>3. from \in [1 .. r + 1 -> Within]
      BY <2>1, <3>2
    <3>4. QED
      BY <3>1, <3>3 DEF Injection, IsInjective
  <2>3. IsFiniteSet(1 .. r + 1) /\ Cardinality(1 .. r + 1) = r + 1
    BY FS_Interval
  <2> HIDE DEF Within, from
  <2>4. Cardinality(1 .. r + 1) <= Cardinality(Within)
    BY <1>4, <2>2, FS_Injection
  <2>5. QED
    BY <2>3, <2>4
<1>8. /\ Below = {k \in DOMAIN s : s[k] < v}
      /\ Within = {k \in DOMAIN s : s[k] <= v}
  BY <1>3
<1> HIDE DEF Below, Within
<1>9. Cardinality(Below) \in 0 .. r
  BY <1>5, <1>6
<1>10. Cardinality(Within) >= r + 1
  BY <1>5, <1>7
<1>11. QED
  BY <1>5, <1>8, <1>9, <1>10

LEMMA RankIs ==
    ASSUME NEW q \in Quantiles, NEW n \in Nat \ {0}
    PROVE  /\ Rank(q, n) \in Nat /\ Rank(q, n) < n
           /\ 10000 * Rank(q, n) <= q * (n - 1)
           /\ q * (n - 1) < 10000 * (Rank(q, n) + 1)
           /\ q * (n - 1) \in Nat
<1>1. ASSUME NEW m \in Nat
      PROVE  /\ m \div 10000 \in Nat
             /\ 10000 * (m \div 10000) <= m /\ m < 10000 * (m \div 10000) + 10000
  OBVIOUS
<1>2. q * (n - 1) \in Nat /\ q * (n - 1) <= 9999 * (n - 1)
  BY DEF Quantiles
<1>3. QED
  BY <1>1, <1>2 DEF Rank

NrBelow(s, v) == Cardinality({k \in DOMAIN s : s[k] < v})
NrUpTo(s, v)  == Cardinality({k \in DOMAIN s : s[k] <= v})

RanksIn(s, printed) ==
    \A q \in DOMAIN printed :
        /\ 10000 * NrBelow(s, printed[q]) <= q * (Len(s) - 1)
        /\ q * (Len(s) - 1) < 10000 * NrUpTo(s, printed[q])

LEMMA PercentileRankIs == PercentileRank <=> RanksIn(samples, shown)
  BY DEF PercentileRank, RanksIn, NrBelow, NrUpTo

LEMMA PercentileRankPrimed == PercentileRank' <=> RanksIn(samples', shown')
  BY DEF PercentileRank, RanksIn, NrBelow, NrUpTo

Ranked == PercentileRank /\ (shown # <<>> => ppc = "printed")

LEMMA RankedPrint ==
    ASSUME IInv, PrintResult
    PROVE  Ranked'
<1>1. samples' = samples /\ samples \in Seq(Nat) /\ ppc' = "printed"
  BY DEF PrintResult, consumerVars, IInv, Types
<1>2. CASE ~latency
  BY <1>1, <1>2 DEF PrintResult, Ranked, PercentileRank
<1>3. CASE latency
  <2> DEFINE n == Len(samples)
             v(q) == Sorted(samples)[Rank(q, n) + 1]
  <2>1. samples # <<>> /\ n \in Nat \ {0} /\ shown' = [q \in Quantiles |-> v(q)]
    <3>1. samples # <<>> /\ shown' = [q \in Quantiles |-> v(q)]
      <4>1. Len(Sorted(samples)) = n
        <5>1. Len(samples) \in Nat /\ DOMAIN samples = 1 .. Len(samples)
          BY <1>1
        <5>2. PICK at \in Bijection(1 .. n, 1 .. n) :
                 Sorted(samples) = [k \in 1 .. n |-> samples[at[k]]]
          BY <1>1, SortedIs
        <5>3. at \in [1 .. n -> 1 .. n]
          BY <5>2 DEF Bijection, Injection
        <5>4. \A k \in 1 .. n : samples[at[k]] \in Nat
          BY <1>1, <5>3
        <5>5. [k \in 1 .. n |-> samples[at[k]]] \in Seq(Nat)
          BY <5>1, <5>4
        <5>6. QED
          BY <5>1, <5>2, <5>5
      <4>2. samples # <<>>
        BY <1>3 DEF PrintResult
      <4>3. shown' = [q \in Quantiles |-> Sorted(samples)[Rank(q, Len(Sorted(samples))) + 1]]
        BY <1>3 DEF PrintResult
      <4>4. QED
        BY <4>1, <4>2, <4>3
    <3>2. QED
      BY <1>1, <3>1
  <2>2. ASSUME NEW q \in Quantiles
        PROVE  10000 * NrBelow(samples, v(q)) <= q * (n - 1) /\ q * (n - 1) < 10000 * NrUpTo(samples, v(q))
    <3>1. /\ NrBelow(samples, v(q)) \in 0 .. Rank(q, n) /\ NrUpTo(samples, v(q)) \in Nat
          /\ NrUpTo(samples, v(q)) >= Rank(q, n) + 1 /\ Rank(q, n) \in Nat
      <4>1. Rank(q, n) \in Nat /\ Rank(q, n) < n
        BY <2>1, RankIs
      <4>2. ASSUME NEW r \in Nat, r < n, NEW x, x = Sorted(samples)[r + 1]
            PROVE  NrBelow(samples, x) \in 0 .. r /\ NrUpTo(samples, x) \in Nat /\ NrUpTo(samples, x) >= r + 1
        BY <1>1, <4>2, RankCounts DEF NrBelow, NrUpTo
      <4> HIDE DEF n
      <4>3. QED
        BY <4>1, <4>2
    <3>2. /\ 10000 * Rank(q, n) <= q * (n - 1)
          /\ q * (n - 1) < 10000 * (Rank(q, n) + 1)
          /\ q * (n - 1) \in Nat
      BY <2>1, RankIs
    <3> HIDE DEF v, n
    <3>3. QED
      BY ONLY <3>1, <3>2
  <2>3. PercentileRank'
    <3>1. DOMAIN shown' = Quantiles /\ \A q \in Quantiles : shown'[q] = v(q)
      BY <2>1
    <3>2. ASSUME NEW q \in Quantiles
          PROVE  /\ 10000 * NrBelow(samples, shown'[q]) <= q * (n - 1)
                 /\ q * (n - 1) < 10000 * NrUpTo(samples, shown'[q])
      <4> HIDE DEF v
      <4>1. QED
        BY <2>2, <3>1
    <3> HIDE DEF v
    <3>3. QED
      BY <1>1, <3>1, <3>2, PercentileRankPrimed DEF RanksIn
  <2>4. QED
    BY <1>1, <2>3 DEF Ranked
<1>4. QED
  BY <1>2, <1>3

(* The other steps: a sample is taken before anything is printed.          *)
LEMMA RankedKept ==
    ASSUME Counted, Ranked, [Next]_vars, ~PrintResult
    PROVE  Ranked'
<1>1. shown' = shown /\ (ppc = "printed" => ppc' = "printed")
  BY DEF Next, Producer, StartSchedule, NextOp, SpinEnds, PublishOp, PublishReport, Join,
         ReadNoSamples, Consumer, Apply, Sample, Report, Tick, TimeIsUp, vars, producerVars
<1>2. CASE shown = <<>>
  BY <1>1, <1>2 DEF Ranked, PercentileRank
<1>3. CASE shown # <<>>
  <2>1. cpc = "exit" /\ ppc = "printed"
    BY <1>3 DEF Ranked, Counted, Over
  <2>2. samples' = samples
    BY <2>1 DEF Next, Producer, StartSchedule, NextOp, SpinEnds, PublishOp, PublishReport, Join,
           ReadNoSamples, Consumer, Apply, Sample, Report, Tick, TimeIsUp, vars, consumerVars
  <2>3. PercentileRank'
    BY <1>1, <2>2, PercentileRankIs, PercentileRankPrimed DEF Ranked
  <2>4. QED
    BY <1>1, <2>1, <2>3 DEF Ranked
<1>4. QED
  BY <1>2, <1>3

(* Whatever the number of samples: each quantile printed is a sample for   *)
(* which the share of samples below it is at most the quantile, and with   *)
(* its equals more than it: no rank is off by one, and no sample is taken  *)
(* once they have been sorted.                                             *)
THEOREM PercentileRankHolds == Spec => []PercentileRank
<1>1. Init => Ranked
  BY DEF Init, Ranked, PercentileRank
<1>2. IInv /\ Counted /\ Ranked /\ [Next]_vars => Ranked'
  BY RankedPrint, RankedKept
<1>3. Ranked => PercentileRank
  BY DEF Ranked
<1>4. QED
  BY <1>1, <1>2, <1>3, InitHolds, Inductive, CountedInit, CountedInductive, PTL DEF Spec

-------------------------------------------------------------------------------
(* The runs around the pipelines: CppRun.  Its variables are its own, and  *)
(* each theorem is about one of the two specifications.                    *)

RunTypes ==
    /\ published \in Nat /\ applied \in Nat
    /\ g_allocs \in Int /\ allocs0 \in Int /\ counted \in Int
    /\ byBook \in [construct : Nat, calls : Nat]
    /\ mask \in [{"main", "consumer"} -> {Cores} \cup {{c} : c \in Cores}]
    /\ mpc \in {"main", "spawn", "count", "start", "publish"}
    /\ tpc \in {"none", "pin", "construct", "drain", "exit"}

(* A run has a consumer from its creation to its join. *)
RunControl ==
    /\ mpc \in {"main", "spawn"} <=> tpc = "none"
    /\ mpc \in {"spawn", "count", "start"} => published = 0
    /\ published = 0 => applied = 0 /\ byBook.calls = 0
    /\ tpc = "exit" => applied = RunOps
    /\ mpc = "spawn" \/ tpc \in {"pin", "construct"} => byBook.construct = 0

(* The main thread is on all cores until its first run, and where it was   *)
(* asked to be ever after; a consumer starts out there.                    *)
OnCores ==
    /\ mask.main = IF mpc = "main" /\ mask.main = Cores THEN Cores ELSE Pinned(pinProd, Cores)
    /\ tpc = "pin" => mask.consumer = Pinned(pinProd, Cores)

(* The count starts between what was there before the consumer and what    *)
(* its book's constructor has added.                                       *)
CountBase ==
    mpc \in {"start", "publish"} =>
        /\ g_allocs - (byBook.construct + byBook.calls) <= allocs0
        /\ allocs0 <= g_allocs - byBook.calls

RunInv ==
    /\ RunTypes /\ RunControl /\ OnCores /\ CountBase
    /\ PinnedAsAsked /\ AllocsCovered

LEMMA PinnedTwice ==
    ASSUME NEW c, NEW m
    PROVE  /\ Pinned(c, Pinned(c, m)) = Pinned(c, m)
           /\ Pinned(c, m) \in {m} \cup {{d} : d \in Cores}
  BY DEF Pinned

LEMMA RunInitHolds == RunInit => RunInv
  BY CppRunAssumption DEF RunInit, NothingYet, RunInv, RunTypes, RunControl, OnCores,
         CountBase, PinnedAsAsked, AllocsCovered

LEMMA RunSetUp == ASSUME RunInv, SetUp PROVE RunInv'
<1>1. /\ mpc = "main" /\ mpc' = "spawn" /\ tpc = "none"
      /\ UNCHANGED <<pinProd, pinCons, tpc, allocs0, counted>>
      /\ published' = 0 /\ applied' = 0 /\ byBook' = [construct |-> 0, calls |-> 0]
      /\ mask' = [mask EXCEPT !.main = Pinned(pinProd, mask.main)]
  BY DEF RunInv, RunControl, SetUp, SetUpMask, NothingYet, settings
<1>2. g_allocs' \in Int
  BY DEF SetUp
<1>3. /\ mask.main \in {Cores, Pinned(pinProd, Cores)}
      /\ Pinned(pinProd, mask.main) = Pinned(pinProd, Cores)
  BY PinnedTwice DEF RunInv, OnCores
<1>4. mask'.main = Pinned(pinProd, Cores)
  BY <1>1, <1>3 DEF RunInv, RunTypes
<1>5. mask' \in [{"main", "consumer"} -> {Cores} \cup {{c} : c \in Cores}]
  BY <1>1, <1>3, PinnedTwice DEF RunInv, RunTypes
<1>6. RunTypes'
  BY <1>1, <1>2, <1>5 DEF RunInv, RunTypes
<1>7. Pinned(pinProd, Cores)' = Pinned(pinProd, Cores)
  BY <1>1 DEF Pinned
<1>8. RunControl' /\ CountBase' /\ PinnedAsAsked' /\ AllocsCovered'
  BY <1>1 DEF RunControl, CountBase, PinnedAsAsked, AllocsCovered
<1>9. OnCores'
  BY <1>1, <1>4, <1>7 DEF OnCores
<1>10. QED
  BY <1>6, <1>8, <1>9 DEF RunInv

LEMMA RunSpawn == ASSUME RunInv, Spawn PROVE RunInv'
<1>1. /\ mpc = "spawn" /\ mpc' = "count" /\ tpc' = "pin"
      /\ UNCHANGED <<pinProd, pinCons, allocs0, counted, published, applied, byBook>>
      /\ mask' = [mask EXCEPT !.consumer = mask.main] /\ g_allocs' = g_allocs + 1
  BY DEF Spawn, settings
<1>2. mask.main = Pinned(pinProd, Cores)
  BY <1>1 DEF RunInv, OnCores
<1>3. mask'.main = mask.main /\ mask'.consumer = mask.main
  BY <1>1 DEF RunInv, RunTypes
<1>4. mask' \in [{"main", "consumer"} -> {Cores} \cup {{c} : c \in Cores}]
  BY <1>1 DEF RunInv, RunTypes
<1>5. RunTypes'
  BY <1>1, <1>4 DEF RunInv, RunTypes
<1>6. Pinned(pinProd, Cores)' = Pinned(pinProd, Cores)
  BY <1>1 DEF Pinned
<1>7. RunControl' /\ CountBase' /\ PinnedAsAsked' /\ AllocsCovered'
  BY <1>1 DEF RunInv, RunControl, CountBase, PinnedAsAsked, AllocsCovered
<1>8. OnCores'
  BY <1>1, <1>2, <1>3, <1>6 DEF OnCores
<1>9. QED
  BY <1>5, <1>7, <1>8 DEF RunInv

(* Steps of the main thread that leave both masks alone. *)
LEMMA RunMain ==
    ASSUME RunInv,
           CountFrom \/ StartClock \/ Publish \/ JoinConsumer
    PROVE  RunInv'
<1>1. UNCHANGED <<pinProd, pinCons, mask, applied, g_allocs, byBook>>
  BY DEF CountFrom, StartClock, Publish, JoinConsumer, settings, mainVars
<1>2. Pinned(pinProd, Cores)' = Pinned(pinProd, Cores)
  BY <1>1 DEF Pinned
<1>3. /\ Pinned(pinCons, Pinned(pinProd, Cores))'
           = Pinned(pinCons, Pinned(pinProd, Cores))
      /\ RunOps \in Nat
  BY <1>1, CppRunAssumption DEF Pinned
<1>4. byBook.construct \in Nat /\ byBook.calls \in Nat
  BY DEF RunInv, RunTypes
<1>5. CASE CountFrom
  <2>1. /\ mpc = "count" /\ mpc' = "start" /\ UNCHANGED <<tpc, published, counted>>
        /\ allocs0' \in g_allocs - (byBook.construct + byBook.calls) .. g_allocs
    BY <1>5 DEF CountFrom, MayRead
  <2>2. byBook.calls = 0
    BY <2>1 DEF RunInv, RunControl
  <2>3. RunTypes' /\ CountBase'
    BY <1>1, <1>4, <2>1, <2>2 DEF RunInv, RunTypes, CountBase
  <2>4. RunControl' /\ OnCores' /\ PinnedAsAsked' /\ AllocsCovered'
    BY <1>1, <1>2, <1>3, <2>1
       DEF RunInv, RunControl, OnCores, PinnedAsAsked, AllocsCovered
  <2>5. QED
    BY <2>3, <2>4 DEF RunInv
<1>6. CASE StartClock
  <2>1. mpc = "start" /\ mpc' = "publish" /\ UNCHANGED <<tpc, published, counted, allocs0>>
    BY <1>6 DEF StartClock
  <2>2. RunTypes' /\ CountBase' /\ RunControl' /\ OnCores' /\ AllocsCovered'
    BY <1>1, <1>2, <2>1
       DEF RunInv, RunTypes, CountBase, RunControl, OnCores, AllocsCovered
  <2>3. mask.main = Pinned(pinProd, Cores)
    BY <2>1 DEF RunInv, OnCores
  <2>4. PinnedAsAsked'
    BY <1>1, <1>2, <1>3, <2>1, <2>3 DEF RunInv, PinnedAsAsked
  <2>5. QED
    BY <2>2, <2>4 DEF RunInv
<1>7. CASE Publish
  <2>1. mpc = "publish" /\ published' = published + 1 /\ UNCHANGED <<mpc, tpc, counted, allocs0>>
    BY <1>7 DEF Publish, mainVars
  <2>2. RunTypes' /\ CountBase' /\ RunControl'
    BY <1>1, <2>1 DEF RunInv, RunTypes, CountBase, RunControl
  <2>3. OnCores' /\ PinnedAsAsked' /\ AllocsCovered'
    BY <1>1, <1>2, <1>3, <2>1 DEF RunInv, OnCores, PinnedAsAsked, AllocsCovered
  <2>4. QED
    BY <2>2, <2>3 DEF RunInv
<1>8. CASE JoinConsumer
  <2>1. /\ mpc = "publish" /\ mpc' = "main" /\ tpc = "exit" /\ tpc' = "none"
        /\ UNCHANGED <<published, allocs0>> /\ counted' = g_allocs - allocs0 /\ published > RunOps
    BY <1>8 DEF JoinConsumer, ConsumerDone
  <2>2. applied = RunOps /\ mask.main = Pinned(pinProd, Cores)
    BY <2>1 DEF RunInv, RunControl, OnCores
  <2>3. RunTypes' /\ CountBase'
    BY <1>1, <2>1 DEF RunInv, RunTypes, CountBase
  <2>4. RunControl'
    BY <1>1, <1>3, <2>1, <2>2 DEF RunInv, RunTypes, RunControl
  <2>5. OnCores' /\ PinnedAsAsked'
    BY <1>1, <1>2, <2>1, <2>2 DEF OnCores, PinnedAsAsked
  <2>6. AllocsCovered'
    <3>1. counted' \in byBook.calls .. byBook.calls + byBook.construct
      BY <1>4, <2>1 DEF RunInv, RunTypes, CountBase
    <3>2. QED
      BY <1>1, <2>2, <3>1 DEF AllocsCovered
  <2>7. QED
    BY <2>3, <2>4, <2>5, <2>6 DEF RunInv
<1>9. QED
  BY <1>5, <1>6, <1>7, <1>8

LEMMA RunConsumer ==
    ASSUME RunInv, ConsumerThread
    PROVE  RunInv'
<1>1. UNCHANGED <<pinProd, pinCons, mpc, published, allocs0, counted>> /\ tpc # "none"
  BY DEF ConsumerThread, PinConsumer, ConstructBook, ApplyOp, Exit, settings,
         mainVars
<1>2. Pinned(pinProd, Cores)' = Pinned(pinProd, Cores)
  BY <1>1 DEF Pinned
<1>3. /\ Pinned(pinCons, Pinned(pinProd, Cores))'
           = Pinned(pinCons, Pinned(pinProd, Cores))
      /\ RunOps \in Nat /\ GrowthMax \in Nat
  BY <1>1, CppRunAssumption DEF Pinned
<1>4. mpc \in {"count", "start", "publish"}
  BY <1>1 DEF RunInv, RunTypes, RunControl
<1>5. mask.main = Pinned(pinProd, Cores)
  BY <1>4 DEF RunInv, OnCores
<1>6. AllocsCovered'
  BY <1>1, <1>4 DEF AllocsCovered
<1>7. CASE PinConsumer
  <2>1. /\ tpc = "pin" /\ tpc' = "construct" /\ UNCHANGED <<applied, g_allocs, byBook>>
        /\ mask' = [mask EXCEPT !.consumer = Pinned(pinCons, mask.consumer)]
    BY <1>7 DEF PinConsumer
  <2>2. mask.consumer = Pinned(pinProd, Cores)
    BY <2>1 DEF RunInv, OnCores
  <2>3. /\ mask'.main = mask.main
        /\ mask'.consumer = Pinned(pinCons, Pinned(pinProd, Cores))
    BY <2>1, <2>2 DEF RunInv, RunTypes
  <2>4. mask' \in [{"main", "consumer"} -> {Cores} \cup {{c} : c \in Cores}]
    <3>1. /\ mask.consumer \in {Cores} \cup {{c} : c \in Cores}
          /\ Pinned(pinCons, mask.consumer) \in {Cores} \cup {{c} : c \in Cores}
      BY PinnedTwice DEF RunInv, RunTypes
    <3>2. QED
      BY <2>1, <3>1 DEF RunInv, RunTypes
  <2>5. RunTypes' /\ RunControl' /\ CountBase'
    BY <1>1, <1>4, <2>1, <2>4 DEF RunInv, RunTypes, RunControl, CountBase
  <2>6. OnCores' /\ PinnedAsAsked'
    BY <1>1, <1>2, <1>3, <1>5, <2>1, <2>3 DEF OnCores, PinnedAsAsked
  <2>7. QED
    BY <1>6, <2>5, <2>6 DEF RunInv
<1>8. CASE ConstructBook
  <2>1. PICK n \in Nat : /\ g_allocs' = g_allocs + n
                         /\ byBook' = [byBook EXCEPT !.construct = n]
    BY <1>8 DEF ConstructBook, ConstructAllocs
  <2>2. tpc = "construct" /\ tpc' = "drain" /\ UNCHANGED <<applied, mask>>
    BY <1>8 DEF ConstructBook
  <2>3. /\ byBook.construct = 0 /\ byBook.calls \in Nat
        /\ byBook'.construct = n /\ byBook'.calls = byBook.calls
        /\ byBook' \in [construct : Nat, calls : Nat]
    BY <2>1, <2>2 DEF RunInv, RunTypes, RunControl
  <2>4. RunTypes' /\ RunControl'
    BY <1>1, <1>4, <2>1, <2>2, <2>3 DEF RunInv, RunTypes, RunControl
  <2>5. CountBase'
    <3>1. g_allocs \in Int /\ allocs0 \in Int
      BY DEF RunInv, RunTypes
    <3>2. QED
      BY <1>1, <2>1, <2>3, <3>1 DEF RunInv, CountBase
  <2>6. OnCores' /\ PinnedAsAsked'
    BY <1>1, <1>2, <1>3, <1>5, <2>2 DEF RunInv, OnCores, PinnedAsAsked
  <2>7. QED
    BY <1>6, <2>4, <2>5, <2>6 DEF RunInv
<1>9. CASE ApplyOp
  <2>1. PICK n \in Nat : /\ g_allocs' = g_allocs + n
                         /\ byBook' = [byBook EXCEPT !.calls = byBook.calls + n]
    BY <1>3, <1>9 DEF ApplyOp
  <2>2. /\ tpc = "drain" /\ applied < published /\ applied' = applied + 1 /\ UNCHANGED <<tpc, mask>>
    BY <1>9 DEF ApplyOp
  <2>3. /\ byBook.construct \in Nat /\ byBook.calls \in Nat
        /\ byBook'.construct = byBook.construct /\ byBook'.calls = byBook.calls + n
        /\ byBook' \in [construct : Nat, calls : Nat]
    BY <2>1 DEF RunInv, RunTypes
  <2>4. RunTypes' /\ RunControl'
    BY <1>1, <1>4, <2>1, <2>2, <2>3 DEF RunInv, RunTypes, RunControl
  <2>5. CountBase'
    <3>1. g_allocs \in Int /\ allocs0 \in Int
      BY DEF RunInv, RunTypes
    <3>2. QED
      BY <1>1, <2>1, <2>3, <3>1 DEF RunInv, CountBase
  <2>6. OnCores' /\ PinnedAsAsked'
    BY <1>1, <1>2, <1>3, <1>5, <2>2 DEF RunInv, OnCores, PinnedAsAsked
  <2>7. QED
    BY <1>6, <2>4, <2>5, <2>6 DEF RunInv
<1>10. CASE Exit
  <2>1. /\ tpc = "drain" /\ applied = RunOps /\ tpc' = "exit"
        /\ UNCHANGED <<mask, applied, g_allocs, byBook>>
    BY <1>10 DEF Exit
  <2>2. RunTypes' /\ RunControl' /\ CountBase'
    BY <1>1, <1>4, <2>1 DEF RunInv, RunTypes, RunControl, CountBase
  <2>3. OnCores' /\ PinnedAsAsked'
    BY <1>1, <1>2, <1>3, <1>5, <2>1 DEF RunInv, OnCores, PinnedAsAsked
  <2>4. QED
    BY <1>6, <2>2, <2>3 DEF RunInv
<1>11. QED
  BY <1>7, <1>8, <1>9, <1>10 DEF ConsumerThread

LEMMA RunInvariance == RunSpec => []RunInv
<1>1. RunInv /\ UNCHANGED runVars => RunInv'
  BY DEF runVars, settings, mainVars, Pinned, RunInv, RunTypes, RunControl, OnCores,
         CountBase, PinnedAsAsked, AllocsCovered
<1>2. RunInv /\ [RunNext]_runVars => RunInv'
  BY <1>1, RunSetUp, RunSpawn, RunMain, RunConsumer DEF RunNext, Main, Ended
<1>3. QED
  BY <1>2, RunInitHolds, PTL DEF RunSpec

(* In every run of every mode both threads are where the variables asked   *)
(* them to be, although a consumer is created with its producer's mask and *)
(* the main thread keeps the one of earlier runs.                          *)
THEOREM RunPinnedAsAsked == RunSpec => []PinnedAsAsked
<1>1. RunInv => PinnedAsAsked
  BY DEF RunInv
<1>2. QED
  BY <1>1, RunInvariance, PTL

(* The allocations printed are those of the calls into the book and at     *)
(* most its constructor's, whatever the relaxed load has read, however     *)
(* many runs there were and however much the book grows.                   *)
THEOREM RunAllocsCovered == RunSpec => []AllocsCovered
<1>1. RunInv => AllocsCovered
  BY DEF RunInv
<1>2. QED
  BY <1>1, RunInvariance, PTL

===============================================================================
