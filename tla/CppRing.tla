------------------------------- MODULE CppRing --------------------------------
(***************************************************************************)
(* The hand-rolled single-producer / single-consumer ring of the C++       *)
(* engine (cpp/ring.hpp) together with the two threads run_impl starts on  *)
(* it (cpp/main.cpp): the producer that claims a slot, fills it field by   *)
(* field and publishes it, and the consumer that drains whole batches and  *)
(* releases their slots with one store.                                    *)
(*                                                                         *)
(* The two cursors are C++ atomics under release/acquire, not              *)
(* sequentially consistent variables, and are modelled as such.  A load    *)
(* may return any value stored at or after the one the thread last saw;    *)
(* a release store carries the storing thread's view, and an acquire load  *)
(* of it joins that view into the loading thread's.  With two threads a    *)
(* view is one number: how many events' slot accesses by the OTHER thread  *)
(* happen before this thread's next step.  The event slots are plain       *)
(* memory, so an access the views do not order is a data race.             *)
(*                                                                         *)
(* An event is its sequence number (1, 2, ...), and each field of a slot   *)
(* holds the number of the event it was written for: what the fields mean  *)
(* is the matching core's business.  The last event is the KIND_REPORT     *)
(* sentinel, for which only `kind' and `ts' are written.  The 64-bit       *)
(* cursors are unbounded here: they count events and a run of 2^64 events  *)
(* is out of reach.  RING_SIZE is a power of two in the code, which is     *)
(* what makes `seq & mask' the remainder Idx computes.                     *)
(***************************************************************************)
EXTENDS Integers, Sequences

CONSTANTS
    RingSize,   \* RING_SIZE
    TotalOps,   \* run_impl's total_ops
    WarmupOps   \* run_impl's warmup_ops: these first operations carry no stamp

ASSUME CppRingAssumption ==
    /\ RingSize \in Nat \ {0}
    /\ TotalOps \in Nat
    /\ WarmupOps \in 0 .. TotalOps

VARIABLES
    paced,      \* interval > 0: operations have a due time and are stamped
    buf,        \* the slots; a field holds the number of the event it is for
    prod,       \* latest value stored in the producer cursor
    prodView,   \* prodView[v]: the producer's view released with prod = v
    cons,       \* latest value stored in the consumer cursor
    consView,   \* consView[v]: the consumer's view released with cons = v
    consSeen,   \* cons_seen, the producer's private copy of cons
    ppc,        \* where the producer thread is
    wrote,      \* events the producer has completely written
    pSees,      \* events whose reads happen before the producer's next step
    cpc,        \* where the consumer thread is
    seq,        \* the consumer's local seq
    avail,      \* the consumer's local avail
    cSees,      \* events whose writes happen before the consumer's next step
    applied,    \* what the consumer's switch dispatched, in order
    rep,        \* Report: the operations the captured statistics cover
    samples     \* Report::samples, as the stamps they were taken from

producerVars == <<paced, prod, prodView, consSeen, ppc, wrote, pSees>>
consumerVars == <<cons, consView, cpc, seq, avail, cSees, applied, rep, samples>>
vars == <<buf, producerVars, consumerVars>>

-------------------------------------------------------------------------------

(* The sequence number of the sentinel that closes the run. *)
ReportEvent == TotalOps + 1

(* Slot of a sequence number. *)
Idx(s) == s % RingSize

(* Field `ts' of event s: its due time in a paced run, and zero - "do not  *)
(* measure" - in the warmup, in an unpaced run and in the sentinel.        *)
Stamp(s) == IF paced /\ WarmupOps < s /\ s <= TotalOps THEN s ELSE 0

(* The claim test, against the cached cursor and again against a fresh     *)
(* one; and the same test one slot too generous.                           *)
LooksFullOffByOne(next, seen) == next - seen > RingSize + 1
LooksFull(next, seen) == next - seen > RingSize

(* A release store attaches the storing thread's view to the stored value; *)
(* a relaxed one would attach nothing.                                     *)
RelaxedStore(view) == 0
ReleaseStore(view) == view

(* An acquire load joins the view attached to the value it returned.       *)
AcquireLoad(mine, theirs) == IF theirs > mine THEN theirs ELSE mine

Extend(f, v, x) == [u \in DOMAIN f \cup {v} |-> IF u = v THEN x ELSE f[u]]

Init ==
    /\ paced \in BOOLEAN
    /\ buf = [i \in 0 .. RingSize - 1 |-> [kind |-> 0, op |-> 0, ts |-> 0]]
    /\ prod = 0 /\ prodView = [v \in {0} |-> 0]
    /\ cons = 0 /\ consView = [v \in {0} |-> 0]
    /\ consSeen = 0
    /\ ppc = "claim" /\ wrote = 0 /\ pSees = 0
    /\ cpc = "poll" /\ seq = 0 /\ avail = 0 /\ cSees = 0
    /\ applied = <<>> /\ rep = <<>> /\ samples = <<>>

-------------------------------------------------------------------------------
(* The producer thread: claim, fill in place, publish, join.               *)

(* claim() when the cached cursor shows room: the shared line is not read. *)
ClaimCached ==
    /\ ppc = "claim"
    /\ ~LooksFull(prod + 1, consSeen)
    /\ ppc' = "kind"
    /\ UNCHANGED <<paced, buf, prod, prodView, consSeen, wrote, pSees, consumerVars>>

(* One iteration of claim()'s spin loop: reload the shared cursor, keep    *)
(* what was read in cons_seen, leave the loop if that shows room.          *)
ClaimReload ==
    /\ ppc = "claim"
    /\ LooksFull(prod + 1, consSeen)
    /\ \E v \in {u \in DOMAIN consView : u >= consSeen} :
         /\ consSeen' = v
         /\ pSees' = AcquireLoad(pSees, consView[v])
         /\ ppc' = IF LooksFull(prod + 1, v) THEN "claim" ELSE "kind"
    /\ UNCHANGED <<paced, buf, prod, prodView, wrote, consumerVars>>

WriteKind ==
    /\ ppc = "kind"
    /\ buf' = [buf EXCEPT ![Idx(prod + 1)].kind = prod + 1]
    /\ ppc' = IF prod + 1 = ReportEvent THEN "ts" ELSE "op"
    /\ UNCHANGED <<paced, prod, prodView, consSeen, wrote, pSees, consumerVars>>

(* side, price, qty and id; the sentinel leaves the slot's old ones.       *)
WriteOp ==
    /\ ppc = "op"
    /\ buf' = [buf EXCEPT ![Idx(prod + 1)].op = prod + 1]
    /\ ppc' = "ts"
    /\ UNCHANGED <<paced, prod, prodView, consSeen, wrote, pSees, consumerVars>>

WriteTs ==
    /\ ppc = "ts"
    /\ buf' = [buf EXCEPT ![Idx(prod + 1)].ts = Stamp(prod + 1)]
    /\ wrote' = prod + 1
    /\ ppc' = "publish"
    /\ UNCHANGED <<paced, prod, prodView, consSeen, pSees, consumerVars>>

(* A faulty producer: it does not stop after the sentinel. *)
ClaimAgain(s) == "claim"
AfterPublish(s) == IF s = ReportEvent THEN "join" ELSE "claim"

Publish ==
    /\ ppc = "publish"
    /\ prod' = prod + 1
    /\ prodView' = Extend(prodView, prod + 1, ReleaseStore(wrote))
    /\ ppc' = AfterPublish(prod + 1)
    /\ UNCHANGED <<paced, buf, consSeen, wrote, pSees, consumerVars>>

(* A faulty run_impl: it reads the report without joining the consumer.    *)
NotAwaited == TRUE
ConsumerDone == cpc = "exit"

(* consumer.join() returns; run_impl goes on to read rep. *)
Join ==
    /\ ppc = "join"
    /\ ConsumerDone
    /\ ppc' = "joined"
    /\ UNCHANGED <<paced, buf, prod, prodView, consSeen, wrote, pSees, consumerVars>>

Producer ==
    \/ ClaimCached \/ ClaimReload
    \/ WriteKind \/ WriteOp \/ WriteTs \/ Publish
    \/ Join

-------------------------------------------------------------------------------
(* The consumer thread: poll, drain the batch, release it.                 *)

(* One load of the busy-spin on the producer cursor: any value at or past  *)
(* the one this thread read last may be returned.                          *)
Poll ==
    /\ cpc = "poll"
    /\ \E v \in {u \in DOMAIN prodView : u >= avail} :
         /\ avail' = v
         /\ cSees' = AcquireLoad(cSees, prodView[v])
         /\ cpc' = IF v = seq THEN "poll" ELSE "drain"
    /\ UNCHANGED <<buf, producerVars, cons, consView, seq, applied, rep, samples>>

(* The next event of the batch is an operation: the switch takes the       *)
(* KIND_LIMIT or KIND_CANCEL arm.                                          *)
DispatchOp ==
    /\ cpc = "drain"
    /\ seq < avail
    /\ buf[Idx(seq + 1)].kind # ReportEvent
    /\ seq' = seq + 1
    /\ cpc' = "apply"
    /\ UNCHANGED <<buf, producerVars, cons, consView, avail, cSees, applied, rep, samples>>

(* The next event is the sentinel: capture the statistics and leave the    *)
(* thread, without storing the consumer cursor.                            *)
DispatchReport ==
    /\ cpc = "drain"
    /\ seq < avail
    /\ buf[Idx(seq + 1)].kind = ReportEvent
    /\ seq' = seq + 1
    /\ rep' = applied
    /\ applied' = Append(applied, buf[Idx(seq + 1)].kind)
    /\ cpc' = "exit"
    /\ UNCHANGED <<buf, producerVars, cons, consView, avail, cSees, samples>>

(* book.limit or book.cancel on the fields of the slot.                    *)
ApplyOp ==
    /\ cpc = "apply"
    /\ applied' = Append(applied, buf[Idx(seq)].op)
    /\ cpc' = "sample"
    /\ UNCHANGED <<buf, producerVars, cons, consView, seq, avail, cSees, rep, samples>>

(* After the operation the slot is read once more, for its stamp.          *)
Sample ==
    /\ cpc = "sample"
    /\ LET ts == buf[Idx(seq)].ts
       IN  samples' = IF ts # 0 THEN Append(samples, ts) ELSE samples
    /\ cpc' = "drain"
    /\ UNCHANGED <<buf, producerVars, cons, consView, seq, avail, cSees, applied, rep>>

(* The batch is drained: one release store hands all its slots back.       *)
StoreCons ==
    /\ cpc = "drain"
    /\ ~(seq < avail)
    /\ cons' = seq
    /\ consView' = Extend(consView, seq, ReleaseStore(seq))
    /\ cpc' = "poll"
    /\ UNCHANGED <<buf, producerVars, seq, avail, cSees, applied, rep, samples>>

Consumer ==
    \/ Poll
    \/ DispatchOp \/ DispatchReport
    \/ ApplyOp \/ Sample
    \/ StoreCons

(* Both threads are over. *)
Ended == ppc = "joined" /\ UNCHANGED vars

Next == Producer \/ Consumer \/ Ended

(* Each thread runs on, and a store becomes visible to the other thread's  *)
(* spin loop after finitely many loads, as the C++ standard asks of        *)
(* atomics: a load that returns an old value changes nothing.              *)
Fairness == WF_vars(Producer) /\ WF_vars(Consumer)

SafeSpec == Init /\ [][Next]_vars

Spec == SafeSpec /\ Fairness

-------------------------------------------------------------------------------
(* Properties *)

Fields == [kind : 0 .. ReportEvent, op : 0 .. TotalOps, ts : 0 .. TotalOps]
Events == 0 .. ReportEvent

(* Every variable has its type: cursors and views count events of the run, *)
(* the slots hold fields of events, the threads are at a point of their    *)
(* loops.                                                                  *)
TypeOK ==
    /\ paced \in BOOLEAN
    /\ buf \in [0 .. RingSize - 1 -> Fields]
    /\ prod \in Events /\ cons \in Events
    /\ DOMAIN prodView = 0 .. prod /\ \A v \in 0 .. prod : prodView[v] \in Events
    /\ DOMAIN consView \subseteq 0 .. cons /\ cons \in DOMAIN consView
    /\ \A v \in DOMAIN consView : consView[v] \in Events
    /\ consSeen \in DOMAIN consView
    /\ ppc \in {"claim", "kind", "op", "ts", "publish", "join", "joined"}
    /\ cpc \in {"poll", "drain", "apply", "sample", "exit"}
    /\ wrote \in Events /\ pSees \in Events
    /\ seq \in Events /\ avail \in Events /\ cSees \in Events
    /\ applied \in Seq(Events) /\ rep \in Seq(Events) /\ samples \in Seq(Events)

(* Events published whose slot the consumer has still to read: those it    *)
(* has not dispatched, and the one whose Event& it holds until it has      *)
(* taken the sample.                                                       *)
Pending == (IF cpc \in {"apply", "sample"} THEN seq ELSE seq + 1) .. prod

(* The slot of event s holds that event and nothing of another one.        *)
Intact(s) ==
    /\ buf[Idx(s)].kind = s
    /\ s <= TotalOps => buf[Idx(s)].op = s
    /\ buf[Idx(s)].ts = Stamp(s)

(* The producer never laps the ring: while the consumer may still read an  *)
(* event - from the batch it is draining, or through the reference it      *)
(* holds across the call into the book - its slot holds that event and     *)
(* nothing of a later or an earlier one.                                   *)
SlotsIntact == \A s \in Pending : Intact(s)

(* The acquire/release pairs order every access to a slot: the producer    *)
(* writes a slot only when the consumer's reads of its previous event      *)
(* happen before, the consumer reads one only when the producer's writes   *)
(* happen before.  Without this the plain slot accesses are data races.    *)
RaceFree ==
    /\ ppc \in {"kind", "op", "ts"} => prod + 1 - RingSize <= pSees
    /\ cpc \in {"apply", "sample"} => seq <= cSees
    /\ (cpc = "drain" /\ seq < avail) => seq + 1 <= cSees

(* The cached gating sequence is a lower bound on the consumer's progress  *)
(* however stale it is, and the producer stays within a ring of it.        *)
GatingBound ==
    /\ consSeen <= cons /\ cons <= seq /\ seq <= avail /\ avail <= prod
    /\ prod - consSeen <= RingSize

(* How many operations of the run are measured. *)
Measured == IF paced THEN TotalOps - WarmupOps ELSE 0

(* What run_impl reads after the join covers the whole run: the statistics *)
(* were captured after every operation, applied once and in order, and     *)
(* there is one sample for each operation after the warmup, or none at all *)
(* when the run was not paced.                                             *)
JoinedReport ==
    ppc = "joined" =>
        /\ rep = [i \in 1 .. TotalOps |-> i]
        /\ samples = [i \in 1 .. Measured |-> WarmupOps + i]

(* The ring with its two threads is a bounded, lossless, in-order channel  *)
(* of RingSize events that delivers everything.                            *)
Channel == INSTANCE EventChannel WITH
               Capacity <- RingSize, Events <- TotalOps + 1,
               sent <- prod, delivered <- applied
ImplementsChannel == Channel!Spec

(* The run comes to its end: backpressure always lets go of the producer   *)
(* and the sentinel always reaches the consumer.                           *)
RunEnds == <>(ppc = "joined")

===============================================================================
