-------------------------------- MODULE CppRun --------------------------------
(***************************************************************************)
(* The life of the C++ program around its pipelines (cpp/main.cpp): main's *)
(* sequence of runs and, in each run, what run_impl sets up on the main    *)
(* thread and in the consumer thread it creates: pinning, the construction *)
(* of the book, and the allocation counter and start time the results are  *)
(* computed from.                                                          *)
(*                                                                         *)
(* Publishing and matching are reduced to the number of operations sent    *)
(* and applied; CppRing, CppPacing and the books have them in detail.      *)
(* pthread_setaffinity_np may leave a thread's mask for any core of the    *)
(* machine; its error for another core is not looked at.  A thread starts  *)
(* with the mask of the thread that creates it.                            *)
(***************************************************************************)
EXTENDS Integers, Sequences

CONSTANTS
    Cores,      \* the cores of the machine; the process starts on all of them
    Named,      \* the cores the two variables may name, existing or not
    NoPin,      \* the variable is not set (env_core returns -1)
    Modes,      \* the command lines considered
    RunOps,     \* operations of every run
    GrowthMax   \* bound: the allocations of one call into the book

ASSUME CppRunAssumption ==
    /\ NoPin \notin Cores \cup Named
    /\ RunOps \in Nat /\ GrowthMax \in Nat

VARIABLES
    pinProd,    \* PIN_PROD
    pinCons,    \* PIN_CONS
    engine,     \* ENGINE
    todo,       \* the runs still to do
    mpc,        \* where the main thread is
    tpc,        \* where the consumer of the current run is
    mask,       \* affinity masks of the main thread and of the consumer
    published,  \* operations published, the sentinel included
    applied,    \* operations the book has been called for
    g_allocs,   \* heap allocations so far
    allocs0,    \* what the producer read of it before its loop
    counted,    \* RunResult::allocs
    byBook      \* allocations of this run's consumer: by the book's
                \* constructor and by its calls

settings == <<pinProd, pinCons, engine>>
mainVars == <<todo, mpc, allocs0, counted>>
runVars == <<settings, mainVars, tpc, mask, published, applied, g_allocs, byBook>>

Runs(mode) ==
    <<"warmup">> \o (IF mode \in {"throughput", "all"} THEN <<"throughput">> ELSE <<>>)
                 \o (IF mode \in {"latency", "all"} THEN <<"latency">> ELSE <<>>)

(* A mask after a request for a core. *)
Pinned(core, m) == IF core \in Cores THEN {core} ELSE m

(* The tuned book allocates its two ladders and its array of orders, the   *)
(* idiomatic one starts empty.                                             *)
ConstructAllocs == IF engine = "tuned" THEN 3 ELSE 0

NothingYet == [construct |-> 0, calls |-> 0]

RunInit ==
    /\ pinProd \in Named \cup {NoPin}
    /\ pinCons \in Named \cup {NoPin}
    /\ engine \in {"idiomatic", "tuned"}
    /\ \E mode \in Modes : todo = Runs(mode)
    /\ mpc = "main" /\ tpc = "none"
    /\ mask = [main |-> Cores, consumer |-> Cores]
    /\ published = 0 /\ applied = 0
    /\ g_allocs = 0 /\ allocs0 = 0 /\ counted = 0 /\ byBook = NothingYet

-------------------------------------------------------------------------------
(* The main thread.                                                        *)

(* A faulty set-up: the core meant for the consumer. *)
SetUpConsumersCore == Pinned(pinCons, mask.main)

(* The calling thread is pinned at once. *)
SetUpMask == Pinned(pinProd, mask.main)

(* run_impl up to the thread: the ring, if paced the sample vector, and    *)
(* the calling thread's pin.  The counter starts anew in the model: no     *)
(* difference ever spans two runs.                                         *)
SetUp ==
    /\ mpc = "main" /\ todo # <<>>
    /\ mask' = [mask EXCEPT !.main = SetUpMask]
    /\ g_allocs' \in IF Head(todo) = "latency" THEN 1 .. 2 ELSE {1}
    /\ published' = 0 /\ applied' = 0 /\ byBook' = NothingYet
    /\ mpc' = "spawn"
    /\ UNCHANGED <<settings, todo, allocs0, counted, tpc>>

(* std::thread allocates its state and starts with the creator's mask.     *)
Spawn ==
    /\ mpc = "spawn"
    /\ mask' = [mask EXCEPT !.consumer = mask.main]
    /\ g_allocs' = g_allocs + 1
    /\ tpc' = "pin"
    /\ mpc' = "count"
    /\ UNCHANGED <<settings, todo, allocs0, counted, published, applied, byBook>>

(* A relaxed load: any value since this thread's own last increment.       *)
MayRead == g_allocs - (byBook.construct + byBook.calls) .. g_allocs

CountFrom ==
    /\ mpc = "count"
    /\ \E v \in MayRead : allocs0' = v
    /\ mpc' = "start"
    /\ UNCHANGED <<settings, todo, counted, tpc, mask, published, applied, g_allocs, byBook>>

(* t0: from here on the run is timed. *)
StartClock ==
    /\ mpc = "start"
    /\ mpc' = "publish"
    /\ UNCHANGED <<settings, todo, allocs0, counted>>
    /\ UNCHANGED <<tpc, mask, published, applied, g_allocs, byBook>>

(* An operation of the loop or, after it, the sentinel. *)
Publish ==
    /\ mpc = "publish" /\ published <= RunOps
    /\ published' = published + 1
    /\ UNCHANGED <<settings, mainVars, tpc, mask, applied, g_allocs, byBook>>

(* A faulty end of the run: the result is taken with the sentinel sent.    *)
Joinable == TRUE

(* consumer.join() returns when the thread has. *)
ConsumerDone == tpc = "exit"

(* consumer.join(), which orders all the consumer's increments before the  *)
(* load that follows; the result is printed and main goes on.              *)
JoinConsumer ==
    /\ mpc = "publish" /\ published > RunOps
    /\ ConsumerDone
    /\ counted' = g_allocs - allocs0
    /\ todo' = Tail(todo)
    /\ mpc' = "main" /\ tpc' = "none"
    /\ UNCHANGED <<settings, allocs0, mask, published, applied, g_allocs, byBook>>

Main == SetUp \/ Spawn \/ CountFrom \/ StartClock \/ Publish \/ JoinConsumer

-------------------------------------------------------------------------------
(* The consumer thread.                                                    *)

PinConsumer ==
    /\ tpc = "pin"
    /\ mask' = [mask EXCEPT !.consumer = Pinned(pinCons, @)]
    /\ tpc' = "construct"
    /\ UNCHANGED <<settings, mainVars, published, applied, g_allocs, byBook>>

(* BookT book(total_ops): in this thread, with no word to the producer.    *)
ConstructBook ==
    /\ tpc = "construct"
    /\ g_allocs' = g_allocs + ConstructAllocs
    /\ byBook' = [byBook EXCEPT !.construct = ConstructAllocs]
    /\ tpc' = "drain"
    /\ UNCHANGED <<settings, mainVars, mask, published, applied>>

(* A call into the book, whose containers may have to grow. *)
ApplyOp ==
    /\ tpc = "drain"
    /\ applied < published /\ applied < RunOps
    /\ \E n \in 0 .. GrowthMax :
         /\ g_allocs' = g_allocs + n
         /\ byBook' = [byBook EXCEPT !.calls = @ + n]
    /\ applied' = applied + 1
    /\ UNCHANGED <<settings, mainVars, tpc, mask, published>>

(* The sentinel's arm. *)
Exit ==
    /\ tpc = "drain"
    /\ applied = RunOps /\ published > RunOps
    /\ tpc' = "exit"
    /\ UNCHANGED <<settings, mainVars, mask, published, applied, g_allocs, byBook>>

ConsumerThread == PinConsumer \/ ConstructBook \/ ApplyOp \/ Exit

(* main returns. *)
Ended == mpc = "main" /\ todo = <<>> /\ UNCHANGED runVars

RunNext == Main \/ ConsumerThread \/ Ended

RunSpec == RunInit /\ [][RunNext]_runVars

-------------------------------------------------------------------------------
(* Properties *)

(* In every run of every mode, and whatever earlier runs have pinned: the  *)
(* producer publishes on the core it was asked for; a consumer that was    *)
(* asked for a core that exists works on that core although it started on  *)
(* the producer's; without such a core it stays where the producer is.     *)
PinnedAsAsked ==
    /\ mpc = "publish" => mask.main = Pinned(pinProd, Cores)
    /\ tpc \in {"construct", "drain", "exit"} =>
         mask.consumer = Pinned(pinCons, Pinned(pinProd, Cores))

(* "heap allocations during run" has every allocation made by the calls    *)
(* into the book, one call for each operation, and of the set-up nothing   *)
(* but what the book's constructor may add: how much of that, the race     *)
(* between CountFrom and ConstructBook decides.                            *)
AllocsCovered ==
    mpc = "main" /\ published > 0 =>
        /\ applied = RunOps
        /\ counted \in byBook.calls .. byBook.calls + byBook.construct

===============================================================================
