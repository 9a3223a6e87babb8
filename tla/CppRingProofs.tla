----------------------------- MODULE CppRingProofs ----------------------------
(***************************************************************************)
(* Proofs about CppRing for every RingSize, TotalOps and WarmupOps, paced  *)
(* or not: the inductive invariant IInv, the safety invariants it implies, *)
(* and that every step of the two threads is a step of the abstract        *)
(* EventChannel.                                                           *)
(***************************************************************************)
EXTENDS CppRing, TLAPS

-------------------------------------------------------------------------------
(* The inductive invariant.  SlotsIntact is not inductive: that the slot   *)
(* the producer is about to write is not one the consumer may still read   *)
(* rests on the claim made some steps earlier (Claimed) and on where each  *)
(* point of the consumer's loop leaves seq relative to cons (Drained).     *)

Claiming == {"claim", "kind", "op", "ts", "publish"}

(* From the claim to the publish the claimed slot is within a ring of the  *)
(* cached cursor; the sentinel is the last event claimed.                  *)
Claimed ==
    /\ ppc \in {"kind", "op", "ts", "publish"} => prod + 1 - consSeen <= RingSize
    /\ ppc \in Claiming => prod <= TotalOps
    /\ ppc = "op" => prod + 1 <= TotalOps
    /\ ppc \in {"join", "joined"} => prod = ReportEvent
    /\ ppc = "joined" => cpc = "exit"

(* A store of either cursor releases exactly the events it counts, so each *)
(* thread sees what its last load counted.                                 *)
Views ==
    /\ \A v \in DOMAIN prodView : prodView[v] = v
    /\ \A v \in DOMAIN consView : consView[v] = v
    /\ wrote = IF ppc = "publish" THEN prod + 1 ELSE prod
    /\ pSees = consSeen
    /\ cSees = avail

(* Published events whose slot is not handed back are intact, and so is    *)
(* what is written already of the event being filled.                      *)
Slots ==
    /\ \A s \in cons + 1 .. prod : Intact(s)
    /\ ppc \in {"op", "ts", "publish"} => buf[Idx(prod + 1)].kind = prod + 1
    /\ ppc \in {"ts", "publish"} /\ prod + 1 <= TotalOps => buf[Idx(prod + 1)].op = prod + 1
    /\ ppc = "publish" => buf[Idx(prod + 1)].ts = Stamp(prod + 1)

(* Where the consumer is in its batch. *)
Drained ==
    /\ cpc = "poll" => seq = cons /\ avail = cons
    /\ cpc \in {"apply", "sample", "exit"} => cons < seq
    /\ IF cpc = "exit" THEN seq = ReportEvent ELSE seq <= TotalOps

(* Events the consumer has put into the book, and sampled. *)
Done == IF cpc = "apply" THEN seq - 1 ELSE seq
Sampled ==
    LET ops == IF cpc \in {"apply", "sample", "exit"} THEN seq - 1 ELSE seq
    IN  IF paced /\ ops > WarmupOps THEN ops - WarmupOps ELSE 0

(* What the consumer has collected is what the run publishes, in order.    *)
Collected ==
    /\ applied = [i \in 1 .. Done |-> i]
    /\ samples = [i \in 1 .. Sampled |-> WarmupOps + i]
    /\ cpc = "exit" => rep = [i \in 1 .. TotalOps |-> i]

IInv ==
    /\ TypeOK
    /\ GatingBound
    /\ Claimed
    /\ Views
    /\ Slots
    /\ Drained
    /\ Collected

-------------------------------------------------------------------------------
(* Remainders: events less than a ring apart have different slots.         *)

LEMMA Remainder ==
    ASSUME NEW N \in Nat \ {0}, NEW a \in Nat
    PROVE  a % N \in 0 .. N - 1 /\ \E q \in Nat : a = N * q + (a % N)
<1>1. a % N \in 0 .. N - 1
  BY Z3
<1>2. a \div N \in Nat /\ a = N * (a \div N) + (a % N)
  BY Z3
<1>3. QED
  BY <1>1, <1>2

LEMMA NoMultipleBetween ==
    ASSUME NEW N \in Nat \ {0}, NEW q \in Int, 0 < N * q, N * q < N
    PROVE  FALSE
  BY Z3

LEMMA RemaindersDiffer ==
    ASSUME NEW N \in Nat \ {0}, NEW a \in Nat, NEW b \in Nat, a < b, b - a < N
    PROVE  a % N # b % N
<1> SUFFICES ASSUME a % N = b % N PROVE FALSE
  OBVIOUS
<1>1. PICK p \in Nat : a = N * p + (a % N)
  BY Remainder
<1>2. PICK q \in Nat : b = N * q + (b % N)
  BY Remainder
<1>3. a % N \in Int /\ N * p \in Int /\ N * q \in Int
  BY Remainder
<1>4. b - a = N * q - N * p
  BY <1>1, <1>2, <1>3
<1>5. N * q - N * p = N * (q - p)
  BY Z3
<1>6. QED
  BY <1>4, <1>5, NoMultipleBetween

LEMMA SlotIndex ==
    /\ \A s \in Nat : Idx(s) \in 0 .. RingSize - 1
    /\ \A s, t \in Nat : s < t /\ t - s < RingSize => Idx(s) # Idx(t)
  BY CppRingAssumption, Remainder, RemaindersDiffer DEF Idx

(* Writing into the claimed slot leaves every event not handed back alone. *)
LEMMA ClaimedSlotIsFree ==
    ASSUME IInv, ppc \in {"kind", "op", "ts"}
    PROVE  \A s \in cons + 1 .. prod : Idx(s) # Idx(prod + 1)
<1>1. RingSize \in Nat /\ prod \in Nat /\ cons \in Nat /\ consSeen \in Nat
  BY CppRingAssumption DEF IInv, TypeOK, Events, ReportEvent
<1>2. consSeen <= cons /\ prod + 1 - consSeen <= RingSize
  BY DEF IInv, GatingBound, Claimed
<1>3. \A s \in cons + 1 .. prod : s \in Nat /\ s < prod + 1 /\ (prod + 1) - s < RingSize
  BY <1>1, <1>2
<1>4. QED
  BY <1>1, <1>3, SlotIndex

-------------------------------------------------------------------------------

LEMMA InitIInv == Init => IInv
<1> SUFFICES ASSUME Init PROVE IInv
  OBVIOUS
<1> USE CppRingAssumption DEF Init
<1>1. TypeOK
  BY DEF TypeOK, Fields, Events, ReportEvent
<1>2. GatingBound
  BY DEF GatingBound
<1>3. Claimed
  BY DEF Claimed, Claiming, ReportEvent
<1>4. Views
  BY DEF Views
<1>5. Slots
  BY DEF Slots
<1>6. Drained
  BY DEF Drained
<1>7. Collected
  BY DEF Collected, Done, Sampled
<1>8. QED
  BY <1>1, <1>2, <1>3, <1>4, <1>5, <1>6, <1>7 DEF IInv

(* The numbers of a state are natural numbers. *)
LEMMA Numbers ==
    ASSUME TypeOK
    PROVE  /\ RingSize \in Nat \ {0} /\ TotalOps \in Nat /\ WarmupOps \in Nat
           /\ ReportEvent \in Nat
           /\ prod \in Nat /\ cons \in Nat /\ consSeen \in Nat
           /\ wrote \in Nat /\ pSees \in Nat
           /\ seq \in Nat /\ avail \in Nat /\ cSees \in Nat
  BY CppRingAssumption DEF TypeOK, Events, ReportEvent

(* Appending its next element to an interval. *)
LEMMA AppendNext ==
    ASSUME NEW c \in Nat, NEW n \in Nat
    PROVE  /\ Append([i \in 1 .. n |-> i], n + 1) = [i \in 1 .. n + 1 |-> i]
           /\ Append([i \in 1 .. n |-> c + i], c + (n + 1)) = [i \in 1 .. n + 1 |-> c + i]
  OBVIOUS

LEMMA ClaimCachedStep == ASSUME IInv, ClaimCached PROVE IInv'
<1> USE Numbers DEF ClaimCached, consumerVars, IInv
<1>1. TypeOK'
  BY DEF TypeOK
<1>2. GatingBound'
  BY DEF GatingBound
<1>3. Claimed'
  BY DEF Claimed, Claiming, LooksFull
<1>4. Views'
  BY DEF Views
<1>5. Slots'
  BY DEF Slots, Intact, Stamp
<1>6. Drained'
  BY DEF Drained
<1>7. Collected'
  BY DEF Collected, Done, Sampled
<1>8. QED
  BY <1>1, <1>2, <1>3, <1>4, <1>5, <1>6, <1>7

LEMMA ClaimReloadStep == ASSUME IInv, ClaimReload PROVE IInv'
<1> USE Numbers DEF ClaimReload, consumerVars, IInv
<1>1. PICK v \in DOMAIN consView :
          /\ v >= consSeen
          /\ consSeen' = v
          /\ pSees' = AcquireLoad(pSees, consView[v])
          /\ ppc' = IF LooksFull(prod + 1, v) THEN "claim" ELSE "kind"
  OBVIOUS
<1>2. v \in Nat /\ v <= cons /\ v \in Events /\ consView[v] = v
  BY <1>1 DEF TypeOK, Views, Events
<1>3. pSees' = v
  BY <1>1, <1>2 DEF AcquireLoad, Views
<1>4. TypeOK'
  BY <1>1, <1>2, <1>3 DEF TypeOK
<1>5. GatingBound'
  BY <1>1, <1>2 DEF GatingBound
<1>6. Claimed'
  BY <1>1, <1>2 DEF Claimed, Claiming, LooksFull
<1>7. Views'
  BY <1>1, <1>3 DEF Views
<1>8. Slots'
  BY <1>1 DEF Slots, Intact, Stamp
<1>9. Drained'
  BY DEF Drained
<1>10. Collected'
  BY DEF Collected, Done, Sampled
<1>11. QED
  BY <1>4, <1>5, <1>6, <1>7, <1>8, <1>9, <1>10

LEMMA WriteKindStep == ASSUME IInv, WriteKind PROVE IInv'
<1> USE Numbers DEF WriteKind, consumerVars, IInv
<1>1. prod + 1 \in 0 .. ReportEvent /\ Idx(prod + 1) \in 0 .. RingSize - 1
  BY SlotIndex DEF Claimed, Claiming, ReportEvent
<1>2. buf' \in [0 .. RingSize - 1 -> Fields]
  BY <1>1 DEF TypeOK, Fields
<1>3. buf'[Idx(prod + 1)].kind = prod + 1
  BY <1>1 DEF TypeOK, Fields
<1>4. \A s \in cons + 1 .. prod : buf'[Idx(s)] = buf[Idx(s)]
  BY ClaimedSlotIsFree, SlotIndex DEF TypeOK
<1>5. TypeOK'
  BY <1>2 DEF TypeOK
<1>6. GatingBound'
  BY DEF GatingBound
<1>7. Claimed'
  BY DEF Claimed, Claiming, ReportEvent
<1>8. Views'
  BY DEF Views
<1>9. Slots'
  <2>1. \A s \in cons + 1 .. prod : Intact(s)'
    BY <1>4 DEF Slots, Intact, Idx, Stamp
  <2>2. ppc' = "ts" => ~(prod + 1 <= TotalOps)
    BY DEF ReportEvent
  <2>3. QED
    BY <1>3, <2>1, <2>2 DEF Slots, Idx
<1>10. Drained'
  BY DEF Drained
<1>11. Collected'
  BY DEF Collected, Done, Sampled
<1>12. QED
  BY <1>5, <1>6, <1>7, <1>8, <1>9, <1>10, <1>11

LEMMA WriteOpStep == ASSUME IInv, WriteOp PROVE IInv'
<1> USE Numbers DEF WriteOp, consumerVars, IInv
<1>1. prod + 1 \in 0 .. TotalOps /\ Idx(prod + 1) \in 0 .. RingSize - 1
  BY SlotIndex DEF Claimed
<1>2. buf' \in [0 .. RingSize - 1 -> Fields]
  BY <1>1 DEF TypeOK, Fields
<1>3. /\ buf'[Idx(prod + 1)].op = prod + 1
      /\ buf'[Idx(prod + 1)].kind = buf[Idx(prod + 1)].kind
  BY <1>1 DEF TypeOK, Fields
<1>4. \A s \in cons + 1 .. prod : buf'[Idx(s)] = buf[Idx(s)]
  BY ClaimedSlotIsFree, SlotIndex DEF TypeOK
<1>5. TypeOK'
  BY <1>2 DEF TypeOK
<1>6. GatingBound'
  BY DEF GatingBound
<1>7. Claimed'
  BY DEF Claimed, Claiming
<1>8. Views'
  BY DEF Views
<1>9. Slots'
  BY <1>3, <1>4 DEF Slots, Intact, Idx, Stamp
<1>10. Drained'
  BY DEF Drained
<1>11. Collected'
  BY DEF Collected, Done, Sampled
<1>12. QED
  BY <1>5, <1>6, <1>7, <1>8, <1>9, <1>10, <1>11

LEMMA WriteTsStep == ASSUME IInv, WriteTs PROVE IInv'
<1> USE Numbers DEF WriteTs, consumerVars, IInv
<1>1. /\ prod + 1 \in Events /\ Stamp(prod + 1) \in 0 .. TotalOps
      /\ Idx(prod + 1) \in 0 .. RingSize - 1
  BY SlotIndex DEF Claimed, Claiming, Events, ReportEvent, Stamp
<1>2. buf' \in [0 .. RingSize - 1 -> Fields]
  BY <1>1 DEF TypeOK, Fields
<1>3. /\ buf'[Idx(prod + 1)].ts = Stamp(prod + 1)
      /\ buf'[Idx(prod + 1)].op = buf[Idx(prod + 1)].op
      /\ buf'[Idx(prod + 1)].kind = buf[Idx(prod + 1)].kind
  BY <1>1 DEF TypeOK, Fields
<1>4. \A s \in cons + 1 .. prod : buf'[Idx(s)] = buf[Idx(s)]
  BY ClaimedSlotIsFree, SlotIndex DEF TypeOK
<1>5. TypeOK'
  BY <1>1, <1>2 DEF TypeOK
<1>6. GatingBound'
  BY DEF GatingBound
<1>7. Claimed'
  BY DEF Claimed, Claiming
<1>8. Views'
  BY DEF Views
<1>9. Slots'
  BY <1>3, <1>4 DEF Slots, Intact, Idx, Stamp
<1>10. Drained'
  BY DEF Drained
<1>11. Collected'
  BY DEF Collected, Done, Sampled
<1>12. QED
  BY <1>5, <1>6, <1>7, <1>8, <1>9, <1>10, <1>11

LEMMA UpToNext ==
    ASSUME NEW n \in Nat
    PROVE  \A v \in 0 .. n + 1 : v \in 0 .. n \/ v = n + 1
  OBVIOUS

LEMMA PublishStep == ASSUME IInv, Publish PROVE IInv'
<1> USE Numbers DEF Publish, consumerVars, IInv
<1>1. prod + 1 \in Events /\ wrote = prod + 1
  BY DEF Claimed, Claiming, Views, Events, ReportEvent
<1>2. /\ DOMAIN prodView' = 0 .. prod'
      /\ prodView'[prod + 1] = prod + 1
      /\ \A v \in 0 .. prod : prodView'[v] = prodView[v]
  <2>1. prod \in Nat /\ prod' = prod + 1 /\ DOMAIN prodView = 0 .. prod
    BY DEF TypeOK
  <2>2. prodView' = [v \in 0 .. prod' |-> IF v = prod + 1 THEN prod + 1 ELSE prodView[v]]
    BY <1>1, <2>1 DEF Extend, ReleaseStore
  <2>3. QED
    BY ONLY <2>1, <2>2
<1>3. \A v \in 0 .. prod' : v \in 0 .. prod \/ v = prod + 1
  <2>1. prod \in Nat /\ prod' = prod + 1
    OBVIOUS
  <2>2. QED
    BY ONLY <2>1, UpToNext
<1>4. TypeOK'
  BY <1>1, <1>2, <1>3 DEF TypeOK, AfterPublish
<1>5. GatingBound'
  BY DEF GatingBound, Claimed
<1>6. Claimed'
  BY DEF Claimed, Claiming, ReportEvent, AfterPublish
<1>7. Views'
  BY <1>1, <1>2, <1>3 DEF Views, TypeOK, AfterPublish
<1>8. Slots'
  BY DEF Slots, Intact, Idx, Stamp, AfterPublish
<1>9. Drained'
  BY DEF Drained, AfterPublish
<1>10. Collected'
  BY DEF Collected, Done, Sampled, AfterPublish
<1>11. QED
  BY <1>4, <1>5, <1>6, <1>7, <1>8, <1>9, <1>10

LEMMA JoinStep == ASSUME IInv, Join PROVE IInv'
<1> USE Numbers DEF Join, ConsumerDone, consumerVars, IInv
<1>1. TypeOK'
  BY DEF TypeOK
<1>2. GatingBound'
  BY DEF GatingBound
<1>3. Claimed'
  BY DEF Claimed, Claiming
<1>4. Views'
  BY DEF Views
<1>5. Slots'
  BY DEF Slots, Intact, Stamp
<1>6. Drained'
  BY DEF Drained
<1>7. Collected'
  BY DEF Collected, Done, Sampled
<1>8. QED
  BY <1>1, <1>2, <1>3, <1>4, <1>5, <1>6, <1>7

LEMMA PollStep == ASSUME IInv, Poll PROVE IInv'
<1> USE Numbers DEF Poll, producerVars, IInv
<1>1. PICK v \in DOMAIN prodView :
          /\ v >= avail
          /\ avail' = v
          /\ cSees' = AcquireLoad(cSees, prodView[v])
          /\ cpc' = IF v = seq THEN "poll" ELSE "drain"
  OBVIOUS
<1>2. v \in Nat /\ v <= prod /\ v \in Events /\ prodView[v] = v
  BY <1>1 DEF TypeOK, Views, Events
<1>3. cSees' = v
  BY <1>1, <1>2 DEF AcquireLoad, Views
<1>4. TypeOK'
  BY <1>1, <1>2, <1>3 DEF TypeOK
<1>5. GatingBound'
  BY <1>1, <1>2 DEF GatingBound
<1>6. Claimed'
  BY <1>1 DEF Claimed, Claiming
<1>7. Views'
  BY <1>1, <1>3 DEF Views
<1>8. Slots'
  BY DEF Slots, Intact, Stamp
<1>9. Drained'
  BY <1>1 DEF Drained
<1>10. Collected'
  BY <1>1 DEF Collected, Done, Sampled
<1>11. QED
  BY <1>4, <1>5, <1>6, <1>7, <1>8, <1>9, <1>10

(* The next event of the batch is published and its slot is intact.        *)
LEMMA NextEvent ==
    ASSUME IInv, cpc = "drain", seq < avail
    PROVE  /\ seq + 1 \in Events
           /\ buf[Idx(seq + 1)].kind = seq + 1
           /\ buf[Idx(seq + 1)].kind # ReportEvent => seq + 1 <= TotalOps
<1>1. seq + 1 \in cons + 1 .. prod /\ seq + 1 \in Nat
  BY Numbers DEF IInv, GatingBound
<1>2. seq + 1 \in Events
  <2>1. prod \in Events /\ cons \in Nat /\ ReportEvent \in Nat
    BY Numbers DEF IInv, TypeOK
  <2>2. QED
    BY <1>1, <2>1 DEF Events
<1>3. buf[Idx(seq + 1)].kind = seq + 1
  BY <1>1 DEF IInv, Slots, Intact
<1>4. QED
  BY <1>2, <1>3, Numbers DEF IInv, Events, ReportEvent

LEMMA DispatchOpStep == ASSUME IInv, DispatchOp PROVE IInv'
<1> USE Numbers DEF DispatchOp, producerVars, IInv
<1>1. seq + 1 \in Events /\ seq + 1 <= TotalOps
  BY NextEvent
<1>2. TypeOK'
  BY <1>1 DEF TypeOK
<1>3. GatingBound'
  BY DEF GatingBound
<1>4. Claimed'
  BY DEF Claimed
<1>5. Views'
  BY DEF Views
<1>6. Slots'
  BY DEF Slots, Intact, Stamp
<1>7. Drained'
  BY <1>1 DEF Drained, GatingBound
<1>8. Collected'
  <2>1. Done' = Done /\ Sampled' = Sampled
    BY DEF Done, Sampled
  <2>2. QED
    BY <2>1 DEF Collected
<1>9. QED
  BY <1>2, <1>3, <1>4, <1>5, <1>6, <1>7, <1>8

LEMMA DispatchReportStep == ASSUME IInv, DispatchReport PROVE IInv'
<1> USE Numbers DEF DispatchReport, producerVars, IInv
<1>1. seq + 1 \in Events /\ seq + 1 = ReportEvent /\ buf[Idx(seq + 1)].kind = seq + 1
  BY NextEvent
<1>2. TypeOK'
  <2>1. applied' \in Seq(Events) /\ rep' \in Seq(Events)
    BY <1>1 DEF TypeOK
  <2>2. QED
    BY <1>1, <2>1 DEF TypeOK
<1>3. GatingBound'
  BY DEF GatingBound
<1>4. Claimed'
  BY DEF Claimed
<1>5. Views'
  BY DEF Views
<1>6. Slots'
  BY DEF Slots, Intact, Stamp
<1>7. Drained'
  BY <1>1 DEF Drained, GatingBound
<1>8. Collected'
  <2>1. seq = TotalOps /\ seq' = seq + 1
    BY <1>1 DEF ReportEvent
  <2>2. applied = [i \in 1 .. seq |-> i]
    BY DEF Collected, Done
  <2>3. applied' = [i \in 1 .. Done' |-> i]
    BY <1>1, <2>1, <2>2, AppendNext DEF Done
  <2>4. Sampled' = Sampled
    <3>1. paced' = paced /\ cpc = "drain" /\ cpc' = "exit" /\ seq' - 1 = seq
      BY <2>1
    <3>2. QED
      BY ONLY <3>1 DEF Sampled
  <2>5. QED
    BY <2>1, <2>2, <2>3, <2>4 DEF Collected
<1>9. QED
  BY <1>2, <1>3, <1>4, <1>5, <1>6, <1>7, <1>8

(* The event whose reference the consumer holds is intact. *)
LEMMA HeldEvent ==
    ASSUME IInv, cpc \in {"apply", "sample"}
    PROVE  /\ seq \in 1 .. TotalOps
           /\ buf[Idx(seq)].op = seq
           /\ buf[Idx(seq)].ts = Stamp(seq)
<1>1. seq \in cons + 1 .. prod /\ seq <= TotalOps
  BY Numbers DEF IInv, GatingBound, Drained
<1>2. QED
  BY <1>1, Numbers DEF IInv, Slots, Intact

LEMMA ApplyOpStep == ASSUME IInv, ApplyOp PROVE IInv'
<1> USE Numbers DEF ApplyOp, producerVars, IInv
<1>1. seq \in 1 .. TotalOps /\ buf[Idx(seq)].op = seq
  BY HeldEvent
<1>2. TypeOK'
  <2>1. seq \in Events
    BY DEF TypeOK
  <2>2. applied' \in Seq(Events)
    BY <1>1, <2>1 DEF TypeOK
  <2>3. QED
    BY <2>2 DEF TypeOK
<1>3. GatingBound'
  BY DEF GatingBound
<1>4. Claimed'
  BY DEF Claimed
<1>5. Views'
  BY DEF Views
<1>6. Slots'
  BY DEF Slots, Intact, Stamp
<1>7. Drained'
  BY DEF Drained
<1>8. Collected'
  <2>1. applied = [i \in 1 .. seq - 1 |-> i]
    BY DEF Collected, Done
  <2>2. seq - 1 \in Nat /\ (seq - 1) + 1 = seq
    BY <1>1
  <2>3. applied' = [i \in 1 .. seq |-> i]
    BY <1>1, <2>1, <2>2, AppendNext
  <2>4. QED
    BY <2>3 DEF Collected, Done, Sampled
<1>9. QED
  BY <1>2, <1>3, <1>4, <1>5, <1>6, <1>7, <1>8

LEMMA SampleStep == ASSUME IInv, Sample PROVE IInv'
<1> USE Numbers DEF Sample, producerVars, IInv
<1>1. seq \in 1 .. TotalOps /\ buf[Idx(seq)].ts = Stamp(seq)
  BY HeldEvent
<1>2. samples' = IF paced /\ WarmupOps < seq THEN Append(samples, seq) ELSE samples
  BY <1>1 DEF Stamp
<1>3. TypeOK'
  <2>1. samples' \in Seq(Events)
    BY <1>2 DEF TypeOK
  <2>2. QED
    BY <2>1 DEF TypeOK
<1>4. GatingBound'
  BY DEF GatingBound
<1>5. Claimed'
  BY DEF Claimed
<1>6. Views'
  BY DEF Views
<1>7. Slots'
  BY DEF Slots, Intact, Stamp
<1>8. Drained'
  BY DEF Drained
<1>9. samples' = [i \in 1 .. Sampled' |-> WarmupOps + i]
  <2>1. CASE paced /\ WarmupOps < seq
    <3>1. Sampled = (seq - 1) - WarmupOps /\ Sampled' = Sampled + 1 /\ Sampled \in Nat
      <4>1. /\ cpc = "sample" /\ cpc' = "drain" /\ seq' = seq /\ paced' = paced
            /\ seq \in Nat /\ WarmupOps \in Nat
        BY <1>1
      <4>2. QED
        BY ONLY <2>1, <4>1 DEF Sampled
    <3>2. seq = WarmupOps + (Sampled + 1)
      <4>1. seq \in Nat /\ WarmupOps \in Nat /\ Sampled = (seq - 1) - WarmupOps
        BY <3>1
      <4>2. QED
        BY ONLY <4>1
    <3>3. samples' = Append([i \in 1 .. Sampled |-> WarmupOps + i], WarmupOps + (Sampled + 1))
      BY <1>2, <2>1, <3>2 DEF Collected
    <3>4. QED
      BY <3>1, <3>3, AppendNext
  <2>2. CASE ~(paced /\ WarmupOps < seq)
    <3>1. Sampled = 0 /\ Sampled' = 0
      BY <1>1, <2>2 DEF Sampled
    <3>2. QED
      BY <1>2, <2>2, <3>1 DEF Collected
  <2>3. QED
    BY <2>1, <2>2
<1>10. Collected'
  BY <1>9 DEF Collected, Done
<1>11. QED
  BY <1>3, <1>4, <1>5, <1>6, <1>7, <1>8, <1>10

LEMMA StoreConsStep == ASSUME IInv, StoreCons PROVE IInv'
<1> USE Numbers DEF StoreCons, producerVars, IInv
<1>1. seq = avail /\ seq \in Events /\ cons <= seq
  BY DEF GatingBound, TypeOK
<1>2. /\ DOMAIN consView' = DOMAIN consView \cup {seq}
      /\ consView'[seq] = seq
      /\ \A v \in DOMAIN consView \ {seq} : consView'[v] = consView[v]
  BY DEF Extend, ReleaseStore
<1>3. TypeOK'
  <2>1. DOMAIN consView' \subseteq 0 .. cons' /\ cons' \in DOMAIN consView'
    BY <1>1, <1>2 DEF TypeOK
  <2>2. \A v \in DOMAIN consView' : consView'[v] \in Events
    BY <1>1, <1>2 DEF TypeOK
  <2>3. QED
    BY <1>1, <1>2, <2>1, <2>2 DEF TypeOK
<1>4. GatingBound'
  BY <1>1 DEF GatingBound
<1>5. Claimed'
  BY DEF Claimed
<1>6. Views'
  BY <1>2 DEF Views
<1>7. Slots'
  BY <1>1 DEF Slots, Intact, Stamp
<1>8. Drained'
  BY <1>1 DEF Drained
<1>9. Collected'
  BY DEF Collected, Done, Sampled
<1>10. QED
  BY <1>3, <1>4, <1>5, <1>6, <1>7, <1>8, <1>9

LEMMA StutterStep == ASSUME IInv, UNCHANGED vars PROVE IInv'
  BY DEF vars, producerVars, consumerVars, IInv, TypeOK, GatingBound, Claimed,
         Claiming, Views, Slots, Intact, Stamp, Drained, Collected, Done, Sampled

LEMMA NextStep == IInv /\ [Next]_vars => IInv'
<1> SUFFICES ASSUME IInv, [Next]_vars PROVE IInv'
  OBVIOUS
<1>1. CASE Producer
  BY <1>1, ClaimCachedStep, ClaimReloadStep, WriteKindStep, WriteOpStep, WriteTsStep,
     PublishStep, JoinStep DEF Producer
<1>2. CASE Consumer
  BY <1>2, PollStep, DispatchOpStep, DispatchReportStep, ApplyOpStep, SampleStep,
     StoreConsStep DEF Consumer
<1>3. CASE Ended \/ UNCHANGED vars
  BY <1>3, StutterStep DEF Ended
<1>4. QED
  BY <1>1, <1>2, <1>3 DEF Next

LEMMA Invariance == Spec => []IInv
  BY InitIInv, NextStep, PTL DEF Spec, SafeSpec

-------------------------------------------------------------------------------
(* What the inductive invariant implies. *)

(* Every variable keeps its type, whatever the size of the ring and the    *)
(* length of the run.                                                      *)
THEOREM TypeCorrect == Spec => []TypeOK
  BY Invariance, PTL DEF IInv

(* The cached gating sequence of claim() is a lower bound on the           *)
(* consumer's progress, and the producer is never more than a ring ahead.  *)
THEOREM GatingBoundHolds == Spec => []GatingBound
  BY Invariance, PTL DEF IInv

(* claim() never hands out a slot whose event the consumer may still read: *)
(* what the drain loop and the sample read is what was published.          *)
THEOREM SlotsIntactHolds == Spec => []SlotsIntact
<1>1. IInv => SlotsIntact
  <2> SUFFICES ASSUME IInv, NEW s \in Pending PROVE Intact(s)
    BY DEF SlotsIntact
  <2>1. s \in cons + 1 .. prod
    BY Numbers DEF Pending, IInv, GatingBound, Drained
  <2>2. QED
    BY <2>1 DEF IInv, Slots
<1>2. QED
  BY <1>1, Invariance, PTL

(* The acquire loads and release stores of ring.hpp and main.cpp order all *)
(* accesses to a slot: there is no data race on the events.                *)
THEOREM RaceFreeHolds == Spec => []RaceFree
<1>1. IInv => RaceFree
  BY Numbers DEF IInv, RaceFree, GatingBound, Claimed, Views, Drained
<1>2. QED
  BY <1>1, Invariance, PTL

(* After the join the report covers every operation of the run exactly     *)
(* once and in order, and the samples every one past the warmup - of an    *)
(* unpaced run none.                                                       *)
THEOREM JoinedReportHolds == Spec => []JoinedReport
<1>1. IInv => JoinedReport
  <2> SUFFICES ASSUME IInv, ppc = "joined" PROVE JoinedReport
    BY DEF JoinedReport
  <2>1. cpc = "exit" /\ seq = TotalOps + 1
    BY DEF IInv, Claimed, Drained, ReportEvent
  <2>2. Sampled = Measured
    BY <2>1, Numbers, CppRingAssumption DEF Sampled, Measured, IInv
  <2>3. QED
    BY <2>1, <2>2 DEF IInv, Collected, JoinedReport
<1>2. QED
  BY <1>1, Invariance, PTL

-------------------------------------------------------------------------------
(* The ring refines the channel: publish() is Send, the dispatch of the    *)
(* sentinel and the call into the book are Deliver, all else stutters.     *)

LEMMA DeliveredCount == IInv => Len(applied) = Done /\ cons <= Done
  BY Numbers DEF IInv, Collected, Done, GatingBound, Drained

LEMMA PublishIsSend == ASSUME IInv, Publish PROVE Channel!Send
<1>1. prod < TotalOps + 1 /\ UNCHANGED applied /\ prod' = prod + 1
  BY Numbers DEF IInv, Claimed, Claiming, Publish, AfterPublish, consumerVars
<1>2. prod - Len(applied) < RingSize
  <2>1. prod + 1 - consSeen <= RingSize /\ consSeen <= cons
    BY DEF IInv, Claimed, GatingBound, Publish, AfterPublish
  <2>2. Len(applied) \in Nat /\ cons <= Len(applied)
    BY DeliveredCount DEF IInv, TypeOK
  <2>3. QED
    BY <2>1, <2>2, Numbers DEF IInv
<1>3. QED
  BY <1>1, <1>2 DEF Channel!Send

LEMMA DispatchReportIsDeliver == ASSUME IInv, DispatchReport PROVE Channel!Deliver
<1>1. Len(applied) = seq /\ seq < prod
  BY DeliveredCount, Numbers DEF IInv, Done, GatingBound, DispatchReport
<1>2. applied' = Append(applied, seq + 1) /\ UNCHANGED prod
  BY NextEvent DEF DispatchReport, producerVars
<1>3. QED
  BY <1>1, <1>2 DEF Channel!Deliver

LEMMA ApplyOpIsDeliver == ASSUME IInv, ApplyOp PROVE Channel!Deliver
<1>1. Len(applied) = seq - 1 /\ seq <= prod
  BY DeliveredCount, Numbers DEF IInv, Done, GatingBound, ApplyOp
<1>2. applied' = Append(applied, seq) /\ UNCHANGED prod
  BY HeldEvent DEF ApplyOp, producerVars
<1>3. QED
  BY <1>1, <1>2, Numbers DEF Channel!Deliver, IInv

LEMMA OtherStepsStutter ==
    ASSUME [Next]_vars, ~Publish, ~DispatchReport, ~ApplyOp
    PROVE  UNCHANGED <<prod, applied>>
  BY DEF Next, Producer, Consumer, Ended, vars, producerVars, consumerVars,
         ClaimCached, ClaimReload, WriteKind, WriteOp, WriteTs, Join,
         Poll, DispatchOp, Sample, StoreCons

(* The two threads and their ring behave as a bounded channel that loses,  *)
(* duplicates and reorders nothing (its safety part; that everything is    *)
(* delivered in the end is left to the model checker).                     *)
THEOREM RefinesChannel == Spec => Channel!SafeSpec
<1>1. Init => Channel!Init
  BY DEF Init, Channel!Init
<1>2. IInv /\ [Next]_vars => [Channel!Next]_(Channel!channelVars)
  BY PublishIsSend, DispatchReportIsDeliver, ApplyOpIsDeliver, OtherStepsStutter
     DEF Channel!Next, Channel!channelVars
<1>3. QED
  BY <1>1, <1>2, Invariance, PTL DEF Spec, SafeSpec, Channel!SafeSpec

===============================================================================
