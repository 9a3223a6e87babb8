------------------------------- MODULE LibRing --------------------------------
(***************************************************************************)
(* The single-producer ring of the Disruptor libraries that the Java and   *)
(* the Rust harness use (com.lmax.disruptor, the disruptor crate).  Their  *)
(* code is not in the repository: this module holds what the two harnesses *)
(* rely on.  The producer gets the next slot when it is free; publishing   *)
(* makes the slot visible, its contents included; the library's consumer   *)
(* thread calls the handler for every published event in order, a batch at *)
(* a time, and frees the slots of a batch when the batch is done.          *)
(*                                                                         *)
(* The clock that both harnesses read is here too: it is bounded by        *)
(* MaxClock, late enough for every operation to fall due and be late.      *)
(***************************************************************************)
EXTENDS Integers, Sequences

CONSTANTS
    RingSize,   \* RING_SIZE
    TotalOps,   \* how many operations a run publishes
    WarmupOps,  \* how many of them are not measured
    Intervals,  \* the pacing intervals to try
    MaxClock    \* bound: the clock stops here

VARIABLES
    slots,      \* the preallocated events
    cursor,     \* the last event published
    gating,     \* the last event whose slot is free again
    hpc,        \* where the consumer thread is
    at,         \* the event it handles
    upTo,       \* the last event of its batch
    clock       \* nanoseconds, as both threads read them

ringVars == <<slots, cursor, gating>>
threadVars == <<hpc, at, upTo>>

ReportEvent == TotalOps + 1
IndexOf(s) == s % RingSize
Slot(s) == slots[IndexOf(s)]

(* A zeroed event; kind 0 is KIND_LIMIT. *)
Zeroed == [kind |-> "op", op |-> 0, ts |-> 0]

RingInit ==
    /\ slots = [i \in 0 .. RingSize - 1 |-> Zeroed]
    /\ cursor = 0 /\ gating = 0
    /\ hpc = "wait" /\ at = 0 /\ upTo = 0

(* next() and publish() hold the producer up while this is false. *)
HasRoom == cursor + 1 - gating <= RingSize

(* The consumer thread finds all that is published by now. *)
NewBatch ==
    /\ hpc = "wait"
    /\ gating < cursor
    /\ at' = gating + 1 /\ upTo' = cursor
    /\ hpc' = "handle"
    /\ UNCHANGED <<ringVars, clock>>

(* The handler has returned from event `at'. *)
HandlerReturns ==
    IF at = upTo THEN hpc' = "commit" /\ UNCHANGED at
                 ELSE hpc' = "handle" /\ at' = at + 1

(* The batch is done: its slots may be claimed again. *)
CommitBatch ==
    /\ hpc = "commit"
    /\ gating' = upTo
    /\ hpc' = "wait"
    /\ UNCHANGED <<slots, cursor, at, upTo, clock>>

(* Told to stop, the consumer thread ends once nothing is left. *)
ThreadEnds(stopped) ==
    /\ hpc = "wait"
    /\ gating = cursor
    /\ stopped
    /\ hpc' = "end"
    /\ UNCHANGED <<ringVars, at, upTo, clock>>

Tick ==
    /\ clock < MaxClock
    /\ clock' = clock + 1
    /\ UNCHANGED <<ringVars, threadVars>>

===============================================================================
