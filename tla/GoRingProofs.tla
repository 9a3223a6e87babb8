----------------------------- MODULE GoRingProofs -----------------------------
(***************************************************************************)
(* Proofs about GoRing for every RingSize, TotalOps and WarmupOps, paced   *)
(* or not: the inductive invariant IInv, that no two accesses to a slot    *)
(* race, that run() returns the complete report, and that every step of    *)
(* the two goroutines is a step of the abstract EventChannel.              *)
(***************************************************************************)
EXTENDS GoRing, TLAPS

-------------------------------------------------------------------------------
(* The inductive invariant.                                                *)

Fields == [kind : Nat, op : Nat, ts : Nat]

Types ==
    /\ buf \in [0 .. RingSize - 1 -> Fields]
    /\ paced \in BOOLEAN
    /\ prod \in Nat /\ cons \in Nat /\ seq \in Nat
    /\ pSees \in Nat /\ cSees \in Nat
    /\ ppc \in {"claim", "kind", "op", "ts", "publish", "receive", "returned"}
    /\ cpc \in {"poll", "dispatch", "apply", "sample", "store", "exit"}

(* Every store of a cursor hands over exactly what it counts.  What the    *)
(* producer saw at its last claim is a lower bound on the cursor since;    *)
(* the consumer saw the event it is at.                                    *)
Cursors ==
    /\ filled = prod /\ handed = cons
    /\ cons <= seq /\ seq <= prod
    /\ pSees <= cons
    /\ seq <= cSees

(* From the claim to the publish the claimed slot is within a ring of what *)
(* the claim saw; the sentinel is the last event.                          *)
Claimed ==
    /\ ppc \in {"kind", "op", "ts", "publish"} => prod + 1 - pSees <= RingSize
    /\ ppc \in {"claim", "kind", "op", "ts", "publish"} => prod <= TotalOps
    /\ ppc = "op" => prod + 1 <= TotalOps
    /\ ppc \in {"receive", "returned"} => prod = ReportEvent

(* The slot of event s holds that event and nothing of another one.        *)
Intact(s) ==
    /\ buf[Idx(s)].kind = s
    /\ s <= TotalOps => buf[Idx(s)].op = s
    /\ buf[Idx(s)].ts = Stamp(s)

(* Published events whose slot is not handed back are intact, and so is    *)
(* what is written already of the event being filled.                      *)
Slots ==
    /\ \A s \in cons + 1 .. prod : Intact(s)
    /\ ppc \in {"op", "ts", "publish"} => buf[Idx(prod + 1)].kind = prod + 1
    /\ ppc \in {"ts", "publish"} /\ prod + 1 <= TotalOps => buf[Idx(prod + 1)].op = prod + 1
    /\ ppc = "publish" => buf[Idx(prod + 1)].ts = Stamp(prod + 1)

(* Where the consumer is: it hands the slot of every operation back before *)
(* it polls for the next one, and leaves at the sentinel and not before.   *)
Consumed ==
    /\ seq = IF cpc = "poll" THEN cons ELSE cons + 1
    /\ cpc \notin {"dispatch", "exit"} => seq <= TotalOps
    /\ cpc = "exit" => seq = ReportEvent

(* Events the consumer has put into the book, and sampled. *)
Done == IF cpc \in {"dispatch", "apply"} THEN seq - 1 ELSE seq
Sampled ==
    LET ops == IF cpc \in {"poll", "store"} THEN seq ELSE seq - 1
    IN  IF paced /\ ops > WarmupOps THEN ops - WarmupOps ELSE 0

(* What the consumer has collected is what the run publishes, in order.    *)
Collected ==
    /\ applied = [i \in 1 .. Done |-> i]
    /\ hist = [i \in 1 .. Sampled |-> WarmupOps + i]

CompleteReport ==
    [ops |-> [i \in 1 .. TotalOps |-> i],
     samples |-> [i \in 1 .. Measured |-> WarmupOps + i]]

(* One message goes over the channel, from the consumer that has applied   *)
(* everything to run(), which has it when it returns.                      *)
Reported ==
    /\ ppc = "returned" => cpc = "exit" /\ rep = CompleteReport
    /\ done = IF cpc = "exit" /\ ppc # "returned" THEN <<CompleteReport>> ELSE <<>>

IInv ==
    /\ Types
    /\ Cursors
    /\ Claimed
    /\ Slots
    /\ Consumed
    /\ Collected
    /\ Reported

-------------------------------------------------------------------------------
(* Remainders: events less than a ring apart have different slots.         *)

LEMMA Remainder ==
    ASSUME NEW N \in Nat \ {0}, NEW a \in Nat
    PROVE  a % N \in 0 .. N - 1 /\ \E q \in Nat : a = N * q + (a % N)
<1>1. a % N \in 0 .. N - 1
  BY Z3
<1>2. a \div N \in Nat /\ a = N * (a \div N) + (a % N)
  BY Z3
<1>3. QED
  BY <1>1, <1>2

LEMMA NoMultipleBetween ==
    ASSUME NEW N \in Nat \ {0}, NEW q \in Int, 0 < N * q, N * q < N
    PROVE  FALSE
  BY Z3

LEMMA RemaindersDiffer ==
    ASSUME NEW N \in Nat \ {0}, NEW a \in Nat, NEW b \in Nat, a < b, b - a < N
    PROVE  a % N # b % N
<1> SUFFICES ASSUME a % N = b % N PROVE FALSE
  OBVIOUS
<1>1. PICK p \in Nat : a = N * p + (a % N)
  BY Remainder
<1>2. PICK q \in Nat : b = N * q + (b % N)
  BY Remainder
<1>3. a % N \in Int /\ N * p \in Int /\ N * q \in Int
  BY Remainder
<1>4. b - a = N * q - N * p
  BY <1>1, <1>2, <1>3
<1>5. N * q - N * p = N * (q - p)
  BY Z3
<1>6. QED
  BY <1>4, <1>5, NoMultipleBetween

LEMMA SlotIndex ==
    /\ \A s \in Nat : Idx(s) \in 0 .. RingSize - 1
    /\ \A s, t \in Nat : s < t /\ t - s < RingSize => Idx(s) # Idx(t)
  BY GoRingAssumption, Remainder, RemaindersDiffer DEF Idx

(* Writing into the claimed slot leaves every event not handed back alone. *)
LEMMA ClaimedSlotIsFree ==
    ASSUME IInv, ppc \in {"kind", "op", "ts"}
    PROVE  \A s \in cons + 1 .. prod : Idx(s) # Idx(prod + 1)
<1>1. RingSize \in Nat /\ prod \in Nat /\ cons \in Nat /\ pSees \in Nat
  BY GoRingAssumption DEF IInv, Types
<1>2. pSees <= cons /\ prod + 1 - pSees <= RingSize
  BY DEF IInv, Cursors, Claimed
<1>3. \A s \in cons + 1 .. prod : s \in Nat /\ s < prod + 1 /\ (prod + 1) - s < RingSize
  BY <1>1, <1>2
<1>4. QED
  BY <1>1, <1>3, SlotIndex

(* Appending its next element to an interval. *)
LEMMA AppendNext ==
    ASSUME NEW c \in Nat, NEW n \in Nat
    PROVE  /\ Append([i \in 1 .. n |-> i], n + 1) = [i \in 1 .. n + 1 |-> i]
           /\ Append([i \in 1 .. n |-> c + i], c + (n + 1)) = [i \in 1 .. n + 1 |-> c + i]
  OBVIOUS

(* The numbers of a state are natural numbers. *)
LEMMA Numbers ==
    ASSUME Types
    PROVE  /\ RingSize \in Nat \ {0} /\ TotalOps \in Nat /\ WarmupOps \in 0 .. TotalOps
           /\ WarmupOps \in Nat /\ ReportEvent \in Nat /\ ReportEvent = TotalOps + 1
           /\ prod \in Nat /\ cons \in Nat /\ seq \in Nat
           /\ pSees \in Nat /\ cSees \in Nat
  BY GoRingAssumption DEF Types, ReportEvent

-------------------------------------------------------------------------------

LEMMA InitIInv == Init => IInv
<1> SUFFICES ASSUME Init PROVE IInv
  OBVIOUS
<1> USE GoRingAssumption DEF Init
<1>1. Types
  BY DEF Types, Fields
<1>2. Cursors
  BY DEF Cursors
<1>3. Claimed
  BY DEF Claimed
<1>4. Slots
  BY DEF Slots
<1>5. Consumed
  BY DEF Consumed
<1>6. Collected
  BY DEF Collected, Done, Sampled
<1>7. Reported
  BY DEF Reported, CompleteReport, Measured
<1>8. QED
  BY <1>1, <1>2, <1>3, <1>4, <1>5, <1>6, <1>7 DEF IInv

LEMMA ClaimStep == ASSUME IInv, Claim PROVE IInv'
<1> USE Numbers DEF Claim, consumerVars, IInv
<1>1. Types'
  BY DEF Types, Cursors
<1>2. Cursors'
  BY DEF Cursors
<1>3. Claimed'
  BY DEF Claimed, Cursors, HasRoom
<1>4. Slots'
  BY DEF Slots, Intact, Stamp
<1>5. Consumed'
  BY DEF Consumed
<1>6. Collected'
  BY DEF Collected, Done, Sampled
<1>7. Reported'
  BY DEF Reported, CompleteReport, Measured
<1>8. QED
  BY <1>1, <1>2, <1>3, <1>4, <1>5, <1>6, <1>7

LEMMA WriteKindStep == ASSUME IInv, WriteKind PROVE IInv'
<1> USE Numbers DEF WriteKind, consumerVars, IInv
<1>1. prod + 1 \in Nat /\ Idx(prod + 1) \in 0 .. RingSize - 1
  BY SlotIndex
<1>2. buf' \in [0 .. RingSize - 1 -> Fields]
  BY <1>1 DEF Types, Fields
<1>3. buf'[Idx(prod + 1)].kind = prod + 1
  BY <1>1 DEF Types, Fields
<1>4. \A s \in cons + 1 .. prod : buf'[Idx(s)] = buf[Idx(s)]
  BY ClaimedSlotIsFree, SlotIndex DEF Types
<1>5. Types'
  BY <1>2 DEF Types
<1>6. Cursors'
  BY DEF Cursors
<1>7. Claimed'
  BY DEF Claimed
<1>8. Slots'
  <2>1. \A s \in cons + 1 .. prod : Intact(s)'
    BY <1>4 DEF Slots, Intact, Idx, Stamp
  <2>2. ppc' = "ts" => ~(prod + 1 <= TotalOps)
    OBVIOUS
  <2>3. QED
    BY <1>3, <2>1, <2>2 DEF Slots, Idx
<1>9. Consumed'
  BY DEF Consumed
<1>10. Collected'
  BY DEF Collected, Done, Sampled
<1>11. Reported'
  BY DEF Reported, CompleteReport, Measured
<1>12. QED
  BY <1>5, <1>6, <1>7, <1>8, <1>9, <1>10, <1>11

LEMMA WriteOpStep == ASSUME IInv, WriteOp PROVE IInv'
<1> USE Numbers DEF WriteOp, consumerVars, IInv
<1>1. prod + 1 \in Nat /\ Idx(prod + 1) \in 0 .. RingSize - 1
  BY SlotIndex
<1>2. buf' \in [0 .. RingSize - 1 -> Fields]
  BY <1>1 DEF Types, Fields
<1>3. /\ buf'[Idx(prod + 1)].op = prod + 1
      /\ buf'[Idx(prod + 1)].kind = buf[Idx(prod + 1)].kind
  BY <1>1 DEF Types, Fields
<1>4. \A s \in cons + 1 .. prod : buf'[Idx(s)] = buf[Idx(s)]
  BY ClaimedSlotIsFree, SlotIndex DEF Types
<1>5. Types'
  BY <1>2 DEF Types
<1>6. Cursors'
  BY DEF Cursors
<1>7. Claimed'
  BY DEF Claimed
<1>8. Slots'
  BY <1>3, <1>4 DEF Slots, Intact, Idx, Stamp
<1>9. Consumed'
  BY DEF Consumed
<1>10. Collected'
  BY DEF Collected, Done, Sampled
<1>11. Reported'
  BY DEF Reported, CompleteReport, Measured
<1>12. QED
  BY <1>5, <1>6, <1>7, <1>8, <1>9, <1>10, <1>11

LEMMA WriteTsStep == ASSUME IInv, WriteTs PROVE IInv'
<1> USE Numbers DEF WriteTs, consumerVars, IInv
<1>1. prod + 1 \in Nat /\ Stamp(prod + 1) \in Nat /\ Idx(prod + 1) \in 0 .. RingSize - 1
  BY SlotIndex DEF Stamp
<1>2. buf' \in [0 .. RingSize - 1 -> Fields]
  BY <1>1 DEF Types, Fields
<1>3. /\ buf'[Idx(prod + 1)].ts = Stamp(prod + 1)
      /\ buf'[Idx(prod + 1)].op = buf[Idx(prod + 1)].op
      /\ buf'[Idx(prod + 1)].kind = buf[Idx(prod + 1)].kind
  BY <1>1 DEF Types, Fields
<1>4. \A s \in cons + 1 .. prod : buf'[Idx(s)] = buf[Idx(s)]
  BY ClaimedSlotIsFree, SlotIndex DEF Types
<1>5. Types'
  BY <1>2 DEF Types
<1>6. Cursors'
  BY DEF Cursors
<1>7. Claimed'
  BY DEF Claimed
<1>8. Slots'
  BY <1>3, <1>4 DEF Slots, Intact, Idx, Stamp
<1>9. Consumed'
  BY DEF Consumed
<1>10. Collected'
  BY DEF Collected, Done, Sampled
<1>11. Reported'
  BY DEF Reported, CompleteReport, Measured
<1>12. QED
  BY <1>5, <1>6, <1>7, <1>8, <1>9, <1>10, <1>11

LEMMA PublishStep == ASSUME IInv, Publish PROVE IInv'
<1> USE Numbers DEF Publish, consumerVars, IInv
<1>1. Types'
  BY DEF Types
<1>2. Cursors'
  BY DEF Cursors
<1>3. Claimed'
  BY DEF Claimed
<1>4. Slots'
  BY DEF Slots, Intact, Stamp
<1>5. Consumed'
  BY DEF Consumed
<1>6. Collected'
  BY DEF Collected, Done, Sampled
<1>7. Reported'
  BY DEF Reported, CompleteReport, Measured
<1>8. QED
  BY <1>1, <1>2, <1>3, <1>4, <1>5, <1>6, <1>7

LEMMA ReceiveStep == ASSUME IInv, Receive PROVE IInv'
<1> USE Numbers DEF Receive, consumerVars, IInv
<1>1. Types'
  BY DEF Types
<1>2. Cursors'
  BY DEF Cursors
<1>3. Claimed'
  BY DEF Claimed
<1>4. Slots'
  BY DEF Slots, Intact, Stamp
<1>5. Consumed'
  BY DEF Consumed
<1>6. Collected'
  BY DEF Collected, Done, Sampled
<1>7. Reported'
  BY DEF Reported, CompleteReport, Measured
<1>8. QED
  BY <1>1, <1>2, <1>3, <1>4, <1>5, <1>6, <1>7

LEMMA PollStep == ASSUME IInv, Poll PROVE IInv'
<1> USE Numbers DEF Poll, producerVars, IInv
<1>1. Types'
  BY DEF Types, Cursors
<1>2. Cursors'
  BY DEF Cursors
<1>3. Claimed'
  BY DEF Claimed
<1>4. Slots'
  BY DEF Slots, Intact, Stamp
<1>5. Consumed'
  BY DEF Consumed, Cursors, Claimed, Types
<1>6. Collected'
  <2>1. Done' = Done /\ Sampled' = Sampled
    BY DEF Done, Sampled
  <2>2. QED
    BY <2>1 DEF Collected
<1>7. Reported'
  BY DEF Reported, CompleteReport, Measured
<1>8. QED
  BY <1>1, <1>2, <1>3, <1>4, <1>5, <1>6, <1>7

(* The event the consumer is at is published and its slot is intact.       *)
LEMMA EventAt ==
    ASSUME IInv, cpc \in {"dispatch", "apply", "sample"}
    PROVE  /\ seq \in 1 .. ReportEvent
           /\ Intact(seq)
<1>1. seq \in cons + 1 .. prod
  BY Numbers DEF IInv, Consumed, Cursors
<1>2. prod <= ReportEvent
  BY Numbers DEF IInv, Types, Claimed
<1>3. QED
  BY <1>1, <1>2, Numbers DEF IInv, Slots

LEMMA DispatchOpStep == ASSUME IInv, DispatchOp PROVE IInv'
<1> USE Numbers DEF DispatchOp, producerVars, IInv
<1>1. seq \in 1 .. ReportEvent /\ seq # ReportEvent
  BY EventAt DEF Intact
<1>2. Types'
  BY DEF Types
<1>3. Cursors'
  BY DEF Cursors
<1>4. Claimed'
  BY DEF Claimed
<1>5. Slots'
  BY DEF Slots, Intact, Stamp
<1>6. Consumed'
  BY <1>1 DEF Consumed
<1>7. Collected'
  <2>1. Done' = Done /\ Sampled' = Sampled
    BY DEF Done, Sampled
  <2>2. QED
    BY <2>1 DEF Collected
<1>8. Reported'
  BY DEF Reported, CompleteReport, Measured
<1>9. QED
  BY <1>2, <1>3, <1>4, <1>5, <1>6, <1>7, <1>8

LEMMA DispatchReportStep == ASSUME IInv, DispatchReport PROVE IInv'
<1> USE Numbers DEF DispatchReport, producerVars, IInv
<1>1. seq = ReportEvent /\ buf[Idx(seq)].kind = seq
  BY EventAt DEF Intact
<1>2. /\ applied = [i \in 1 .. TotalOps |-> i]
      /\ hist = [i \in 1 .. Measured |-> WarmupOps + i]
  BY <1>1 DEF Collected, Done, Sampled, Measured
<1>3. Types'
  BY DEF Types
<1>4. Cursors'
  BY DEF Cursors
<1>5. Claimed'
  BY DEF Claimed
<1>6. Slots'
  BY DEF Slots, Intact, Stamp
<1>7. Consumed'
  BY <1>1 DEF Consumed
<1>8. Collected'
  <2>1. applied' = [i \in 1 .. TotalOps + 1 |-> i]
    BY <1>1, <1>2, AppendNext
  <2>2. Done' = TotalOps + 1 /\ Sampled' = Measured
    <3>1. /\ cpc' = "exit" /\ seq' = TotalOps + 1 /\ paced' = paced
          /\ TotalOps \in Nat /\ WarmupOps \in 0 .. TotalOps
      BY <1>1
    <3>2. QED
      BY ONLY <3>1 DEF Done, Sampled, Measured
  <2>3. QED
    BY <1>2, <2>1, <2>2 DEF Collected
<1>9. Reported'
  <2>1. Statistics = CompleteReport
    BY <1>2 DEF Statistics, CompleteReport
  <2>2. done = <<>> /\ ppc # "returned"
    BY DEF Reported, CompleteReport, Measured
  <2>3. done' = <<CompleteReport>>
    BY <2>1, <2>2
  <2>4. CompleteReport' = CompleteReport
    BY DEF CompleteReport, Measured
  <2>5. QED
    BY <2>2, <2>3, <2>4 DEF Reported
<1>10. QED
  BY <1>3, <1>4, <1>5, <1>6, <1>7, <1>8, <1>9

LEMMA ApplyOpStep == ASSUME IInv, ApplyOp PROVE IInv'
<1> USE Numbers DEF ApplyOp, producerVars, IInv
<1>1. seq \in 1 .. TotalOps /\ buf[Idx(seq)].op = seq
  BY EventAt DEF Intact, Consumed
<1>2. Types'
  BY DEF Types
<1>3. Cursors'
  BY DEF Cursors
<1>4. Claimed'
  BY DEF Claimed
<1>5. Slots'
  BY DEF Slots, Intact, Stamp
<1>6. Consumed'
  BY DEF Consumed
<1>7. Collected'
  <2>1. applied = [i \in 1 .. seq - 1 |-> i]
    BY DEF Collected, Done
  <2>2. seq - 1 \in Nat /\ (seq - 1) + 1 = seq
    BY <1>1
  <2>3. applied' = [i \in 1 .. seq |-> i]
    BY <1>1, <2>1, <2>2, AppendNext
  <2>4. QED
    BY <2>3 DEF Collected, Done, Sampled
<1>8. Reported'
  BY DEF Reported, CompleteReport, Measured
<1>9. QED
  BY <1>2, <1>3, <1>4, <1>5, <1>6, <1>7, <1>8

LEMMA SampleStep == ASSUME IInv, Sample PROVE IInv'
<1> USE Numbers DEF Sample, producerVars, IInv
<1>1. seq \in 1 .. TotalOps /\ buf[Idx(seq)].ts = Stamp(seq)
  BY EventAt DEF Intact, Consumed
<1>2. hist' = IF paced /\ WarmupOps < seq THEN Append(hist, seq) ELSE hist
  BY <1>1 DEF Stamp
<1>3. hist' = [i \in 1 .. Sampled' |-> WarmupOps + i]
  <2>1. CASE paced /\ WarmupOps < seq
    <3>1. Sampled = (seq - 1) - WarmupOps /\ Sampled' = Sampled + 1 /\ Sampled \in Nat
      <4>1. /\ cpc = "sample" /\ cpc' = "store" /\ seq' = seq
            /\ seq \in Nat /\ WarmupOps \in Nat /\ paced' = paced
        BY <1>1
      <4>2. QED
        BY ONLY <2>1, <4>1 DEF Sampled
    <3>2. seq = WarmupOps + (Sampled + 1)
      <4>1. seq \in Nat /\ WarmupOps \in Nat /\ Sampled = (seq - 1) - WarmupOps
        BY <3>1
      <4>2. QED
        BY ONLY <4>1
    <3>3. hist' = Append([i \in 1 .. Sampled |-> WarmupOps + i], WarmupOps + (Sampled + 1))
      BY <1>2, <2>1, <3>2 DEF Collected
    <3>4. QED
      BY <3>1, <3>3, AppendNext
  <2>2. CASE ~(paced /\ WarmupOps < seq)
    <3>1. Sampled = 0 /\ Sampled' = 0
      BY <1>1, <2>2 DEF Sampled
    <3>2. QED
      BY <1>2, <2>2, <3>1 DEF Collected
  <2>3. QED
    BY <2>1, <2>2
<1>4. Types'
  BY DEF Types
<1>5. Cursors'
  BY DEF Cursors
<1>6. Claimed'
  BY DEF Claimed
<1>7. Slots'
  BY DEF Slots, Intact, Stamp
<1>8. Consumed'
  BY DEF Consumed
<1>9. Collected'
  BY <1>3 DEF Collected, Done
<1>10. Reported'
  BY DEF Reported, CompleteReport, Measured
<1>11. QED
  BY <1>4, <1>5, <1>6, <1>7, <1>8, <1>9, <1>10

LEMMA StoreConsStep == ASSUME IInv, StoreCons PROVE IInv'
<1> USE Numbers DEF StoreCons, producerVars, IInv
<1>1. cons' = cons + 1
  BY DEF Consumed
<1>2. Types'
  BY DEF Types
<1>3. Cursors'
  BY DEF Cursors
<1>4. Claimed'
  BY DEF Claimed
<1>5. Slots'
  BY <1>1 DEF Slots, Intact, Stamp
<1>6. Consumed'
  BY DEF Consumed
<1>7. Collected'
  BY DEF Collected, Done, Sampled
<1>8. Reported'
  BY DEF Reported, CompleteReport, Measured
<1>9. QED
  BY <1>2, <1>3, <1>4, <1>5, <1>6, <1>7, <1>8

LEMMA StutterStep == ASSUME IInv, UNCHANGED vars PROVE IInv'
  BY DEF vars, producerVars, consumerVars, IInv, Types, Cursors, Claimed,
         Slots, Intact, Stamp, Consumed, Collected, Done, Sampled,
         Reported, CompleteReport, Measured

LEMMA NextStep == IInv /\ [Next]_vars => IInv'
<1> SUFFICES ASSUME IInv, [Next]_vars PROVE IInv'
  OBVIOUS
<1>1. CASE Producer
  BY <1>1, ClaimStep, WriteKindStep, WriteOpStep, WriteTsStep, PublishStep, ReceiveStep
     DEF Producer
<1>2. CASE Consumer
  BY <1>2, PollStep, DispatchOpStep, DispatchReportStep, ApplyOpStep, SampleStep,
     StoreConsStep DEF Consumer
<1>3. CASE Ended \/ UNCHANGED vars
  BY <1>3, StutterStep DEF Ended
<1>4. QED
  BY <1>1, <1>2, <1>3 DEF Next

LEMMA Invariance == Spec => []IInv
  BY InitIInv, NextStep, PTL DEF Spec, SafeSpec

-------------------------------------------------------------------------------
(* What the inductive invariant implies. *)

(* The atomic loads and stores of the two cursors order all accesses to a  *)
(* slot, although claim() keeps no copy of what it loaded and the consumer *)
(* hands each slot back on its own: there is no data race on the events.   *)
THEOREM RaceFreeHolds == Spec => []RaceFree
<1>1. IInv => RaceFree
  BY Numbers DEF IInv, RaceFree, Cursors, Claimed
<1>2. QED
  BY <1>1, Invariance, PTL

(* run() returns as soon as it has received from done, with the consumer   *)
(* possibly still on its way out: what it received covers every operation  *)
(* once and in order, and every sample past the warmup, none if unpaced.   *)
THEOREM ReturnedReportHolds == Spec => []ReturnedReport
<1>1. IInv => ReturnedReport
  BY DEF IInv, Reported, CompleteReport, ReturnedReport
<1>2. QED
  BY <1>1, Invariance, PTL

-------------------------------------------------------------------------------
(* The ring refines the channel: the store of the producer cursor is Send, *)
(* the dispatch of the sentinel and the call into the book are Deliver,    *)
(* all else stutters.                                                      *)

LEMMA DeliveredCount == IInv => Len(applied) = Done /\ cons <= Done
  BY Numbers DEF IInv, Collected, Done, Cursors, Consumed

LEMMA PublishIsSend == ASSUME IInv, Publish PROVE Channel!Send
<1>1. prod < TotalOps + 1 /\ UNCHANGED applied /\ prod' = prod + 1
  BY Numbers DEF IInv, Claimed, Publish, consumerVars
<1>2. prod - Len(applied) < RingSize
  <2>1. prod + 1 - pSees <= RingSize /\ pSees <= cons
    BY DEF IInv, Claimed, Cursors, Publish
  <2>2. Len(applied) \in Nat /\ cons <= Len(applied)
    BY DeliveredCount, Numbers DEF IInv, Done, Consumed
  <2>3. QED
    BY <2>1, <2>2, Numbers DEF IInv
<1>3. QED
  BY <1>1, <1>2 DEF Channel!Send

LEMMA DispatchReportIsDeliver == ASSUME IInv, DispatchReport PROVE Channel!Deliver
<1>1. Len(applied) = seq - 1 /\ seq <= prod /\ seq \in Nat
  BY DeliveredCount, Numbers DEF IInv, Done, Cursors, DispatchReport
<1>2. applied' = Append(applied, seq) /\ UNCHANGED prod
  BY EventAt DEF DispatchReport, producerVars, Intact
<1>3. QED
  BY <1>1, <1>2, Numbers DEF Channel!Deliver, IInv

LEMMA ApplyOpIsDeliver == ASSUME IInv, ApplyOp PROVE Channel!Deliver
<1>1. Len(applied) = seq - 1 /\ seq <= prod /\ seq \in Nat
  BY DeliveredCount, Numbers DEF IInv, Done, Cursors, ApplyOp
<1>2. applied' = Append(applied, seq) /\ UNCHANGED prod
  <2>1. seq <= TotalOps
    BY DEF IInv, Consumed, ApplyOp
  <2>2. QED
    BY <2>1, EventAt DEF ApplyOp, producerVars, Intact
<1>3. QED
  BY <1>1, <1>2, Numbers DEF Channel!Deliver, IInv

LEMMA OtherStepsStutter ==
    ASSUME [Next]_vars, ~Publish, ~DispatchReport, ~ApplyOp
    PROVE  UNCHANGED <<prod, applied>>
  BY DEF Next, Producer, Consumer, Ended, vars, producerVars, consumerVars,
         Claim, WriteKind, WriteOp, WriteTs, Receive,
         Poll, DispatchOp, Sample, StoreCons

(* The two goroutines and their ring behave as a bounded channel that      *)
(* loses, duplicates and reorders nothing (its safety part; that           *)
(* everything is delivered in the end is left to the model checker).       *)
THEOREM RefinesChannel == Spec => Channel!SafeSpec
<1>1. Init => Channel!Init
  BY DEF Init, Channel!Init
<1>2. IInv /\ [Next]_vars => [Channel!Next]_(Channel!channelVars)
  BY PublishIsSend, DispatchReportIsDeliver, ApplyOpIsDeliver, OtherStepsStutter
     DEF Channel!Next, Channel!channelVars
<1>3. QED
  BY <1>1, <1>2, Invariance, PTL DEF Spec, SafeSpec, Channel!SafeSpec

===============================================================================
