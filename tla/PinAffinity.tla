------------------------------ MODULE PinAffinity ------------------------------
(***************************************************************************)
(* Thread pinning in the Rust program (rust/src/main.rs and the start of   *)
(* run() in rust/src/harness.rs).  A mode is a list of pipeline runs, each *)
(* with a consumer thread of its own; the first, the warmup, has a thread  *)
(* of its own for its producer too.  On Linux a thread starts with the     *)
(* affinity mask of the thread that creates it, and the disruptor crate    *)
(* refuses, by panicking, to pin its thread to a core that is not in the   *)
(* mask it is called with.                                                 *)
(***************************************************************************)
EXTENDS Naturals, Sequences

CONSTANTS
    Cores,      \* the cores of the machine; the process starts on all of them
    Named,      \* the cores the two variables may name, existing or not
    NoPin,      \* the variable is not set, or not a number
    Modes       \* the command lines considered

ASSUME PinAssumption ==
    /\ NoPin \notin Cores \cup Named
    /\ Modes \subseteq {"throughput", "latency", "all"}

VARIABLES
    pinProd,    \* PIN_PROD
    pinCons,    \* PIN_CONS
    todo,       \* the runs still to do
    pc,         \* main between runs, or where run() is
    runner,     \* the thread that executes run()
    mask        \* affinity masks of the three threads

pinVars == <<pinProd, pinCons, todo, pc, runner, mask>>

Runs(mode) ==
    <<"warmup">> \o (IF mode \in {"throughput", "all"} THEN <<"throughput">> ELSE <<>>)
                 \o (IF mode \in {"latency", "all"} THEN <<"latency">> ELSE <<>>)

(* The mask m after a request for a core: one that is not there is ignored. *)
Pin(core, m) == IF core \in Cores THEN {core} ELSE m

PinInit ==
    /\ pinProd \in Named \cup {NoPin}
    /\ pinCons \in Named \cup {NoPin}
    /\ \E mode \in Modes : todo = Runs(mode)
    /\ pc = "main" /\ runner = "main"
    /\ mask = [main |-> Cores, warmup |-> Cores, consumer |-> Cores]

(* A faulty start: the warmup is a call like the measured runs. *)
WarmupOnMain == "main"
WarmupThread == "warmup"

(* The warmup runs in a throwaway thread. *)
StartWarmup ==
    /\ pc = "main" /\ todo # <<>>
    /\ Head(todo) = "warmup"
    /\ runner' = WarmupThread
    /\ mask' = [mask EXCEPT !.warmup = mask.main]
    /\ pc' = "build"
    /\ UNCHANGED <<pinProd, pinCons, todo>>

(* The measured runs are calls on the main thread. *)
StartMeasured ==
    /\ pc = "main" /\ todo # <<>>
    /\ Head(todo) # "warmup"
    /\ runner' = "main"
    /\ pc' = "build"
    /\ UNCHANGED <<pinProd, pinCons, todo, mask>>

(* pin_at_core refuses a core outside the caller's mask: the run panics.   *)
RefuseCore ==
    /\ pc = "build"
    /\ pinCons # NoPin /\ pinCons \notin mask[runner]
    /\ pc' = "refused"
    /\ UNCHANGED <<pinProd, pinCons, todo, runner, mask>>

(* A faulty build: the consumer is never pinned. *)
Inherited == mask[runner]
ConsumerMask == Pin(pinCons, mask[runner])

(* build() creates the consumer thread: it inherits the caller's mask and  *)
(* pins itself if it was asked to.                                         *)
BuildConsumer ==
    /\ pc = "build"
    /\ pinCons = NoPin \/ pinCons \in mask[runner]
    /\ mask' = [mask EXCEPT !.consumer = ConsumerMask]
    /\ pc' = "pin"
    /\ UNCHANGED <<pinProd, pinCons, todo, runner>>

(* Only then is the calling thread, the producer, pinned: its own mask is  *)
(* no obstacle, and the result of the request is not looked at.            *)
PinProducer ==
    /\ pc = "pin"
    /\ mask' = [mask EXCEPT ![runner] = Pin(pinProd, @)]
    /\ pc' = "publish"
    /\ UNCHANGED <<pinProd, pinCons, todo, runner>>

(* drop(producer) joins the consumer; the run is over. *)
FinishRun ==
    /\ pc = "publish"
    /\ todo' = Tail(todo)
    /\ pc' = "main" /\ runner' = "main"
    /\ UNCHANGED <<pinProd, pinCons, mask>>

(* The program is over, normally or by a panic. *)
Ended == (pc = "refused" \/ (pc = "main" /\ todo = <<>>)) /\ UNCHANGED pinVars

PinNext ==
    \/ StartWarmup \/ StartMeasured
    \/ RefuseCore \/ BuildConsumer \/ PinProducer \/ FinishRun
    \/ Ended

PinSpec == PinInit /\ [][PinNext]_pinVars

-------------------------------------------------------------------------------
(* Properties *)

(* A run is refused its core only if PIN_CONS names one the machine does   *)
(* not have: the README runs `all' with both variables set, and main.rs    *)
(* keeps the warmup off the main thread so that no mask gets in the way.   *)
RefusedForCause == pc = "refused" => pinCons \notin Cores

(* While operations are published each thread is where it was asked to be, *)
(* and a consumer nobody pinned is not confined to the producer's core.    *)
PinnedAsAsked ==
    pc = "publish" =>
        /\ mask[runner] = Pin(pinProd, Cores)
        /\ mask.consumer = Pin(pinCons, Cores)

===============================================================================
