# lmax-bench, specified

The repository is one program written four times (C++, Go, Java, Rust): a
limit-order-book matching engine on the LMAX pattern. A gateway thread generates
a deterministic stream of orders and cancels, publishes it into a ring of
preallocated events, and one consumer thread owns the order book and applies the
events one after the other. The stream ends with a sentinel event for which the
consumer captures statistics and a checksum of the book; all implementations must
print the same ones.

This directory holds TLA+ models of its parts, the TLC runs that check them and
TLAPS proofs of what matters most. Source paths below are relative to `src/`.

## 1. Inventory

| part | code | state | operations |
|---|---|---|---|
| C++ ring and harness | `cpp/ring.hpp`, `cpp/main.cpp` | slots, `prod`, `cons`, cached `cons_seen`, the consumer's `seq` and `avail`, `Report` | `claim`, in-place fill, `publish`, batch drain, `cons.store`, sentinel, `join` |
| Go ring and harness | `go/ring.go`, `go/harness.go` | slots, `prod`, `cons`, `seq`, channel `done` | the same, one `cons.Store` per event, report over the channel |
| Java / Rust transport | `java/.../Harness.java`, `CoreHandler.java`, `rust/src/harness.rs` | in the Disruptor libraries; report cell | publish through the library, `onEvent`, `shutdown` / drop |
| idiomatic books | `cpp/book.hpp`, `go/book.go`, `java/.../Book.java`, `rust/src/book.rs` | per side price -> FIFO of ids, id -> (price, qty), `fills`, `volume` | `limit`, `cancel`, statistics, `checksum` |
| tuned books | `cpp/tuned.hpp`, `go/tuned.go`, `java/.../TunedBook.java`, `rust/src/tuned.rs` | price ladder of levels with heads, best pointers, id-indexed arrays (Rust: a map), live counter | the same |
| generator | `cpp/workload.hpp` and its ports | SplitMix64 state, `mid`, `last_id` | `next_op` |
| run sequence and pinning | `*/main.*`, `rust/src/harness.rs`, `cpp/main.cpp:68-97` | affinity masks of the threads | warmup, throughput, latency, pin |
| pacing and samples | the producer loops, `main.cpp:120-124` | `next_due`, clock, samples | wait until due, stamp, sample |
| reporting | `print_result` and its counterparts | - | sort the samples, percentiles, printing |
| allocation counters | `main.cpp:34-45`, `alloc.rs` | a relaxed counter | count, difference over a run |

How they interact: the harness's two threads share the ring and nothing else until
the report is handed over (join in C++, channel in Go, cell plus shutdown in Java
and Rust). The generator feeds the producer; its bounds on prices and ids are
what the tuned book's unchecked array accesses rest on. The book is called only by
the consumer thread.

Hard behaviours, and what makes each part correct:

* *Ring.* Two threads, two cursors, plain memory between them. A claim must not
  hand out a slot whose event is still to be read, although it looks at a cached
  cursor; the fields must be ordered by the cursors' release/acquire pairs; the
  consumer still reads its slot after the call into the book; the sentinel leaves
  the thread without releasing the batch. Correct means: a bounded channel that
  loses, duplicates and reorders nothing, and a run that ends.
* *Books.* Lazy cancellation leaves dead ids in queues, so two containers disagree
  on purpose; a call is a nest of loops over structures it modifies. Correct
  means: price-time priority trade by trade, every call returns, and a checksum
  that visits the live orders in one canonical order.
* *Tuned book.* What containers keep for free is kept by hand: best pointers with
  "no level" values, head indexes, a live counter, liveness as `qty != 0`.
* *Generator.* Clamped random walk, saturated cancel ids: every price must lie on
  the ladder, every id in the order array.
  Java has to compute the stream of the others without unsigned words.
* *Pacing.* Two threads and a clock. A stall of either, of any length, must show in the
  samples of all operations due during it; no difference of unsigned times may wrap; the
  printed percentile must be the sample of its rank, however many samples there are, and there may
  be none.
* *Pinning and set-up.* Affinity is inherited at thread creation: order matters, across runs.
  The consumer thread builds its book while the producer starts the clock and reads the
  allocation counter.

## 2. Plan

Modules, in order of importance (done: 1 to 11; each `...Proofs` holds the theorems about the module it is named for):

1. `EventChannel`: the abstract transport. `CppRing`: C++ ring with its threads.
2. `CppRingProofs`: inductive invariant, safety theorems, refinement.
3. `Clob`: the abstract book. `Book`, `BookProofs`: the idiomatic C++ book.
4. `TunedBook`, `TunedBookProofs`: the tuned book, of C++ and, with another no-ask value, of Go and Java.
5. `GoRing`, `GoRingProofs`: Go ring and goroutines.
6. `Workload`: the generator's bounds, proved in `TunedBookProofs`, whose book rests on them. `Generator`: its
   arithmetic in unsigned and in signed words, a refinement of `Workload`.
7. `PinAffinity`: pinning in the Rust program, proved in `RustHarnessProofs`.
8. `GoBook`, `GoBookProofs`: the Go book, whose structures differ from those of C++.
9. `LibRing`, `JavaHarness`, `JavaHarnessProofs`, `RustHarness`, `RustHarnessProofs`: Java and Rust harnesses on an external ring,
   with pacing, samples and the end of a run.
10. `CppPacing`, `CppPacingProofs`: the C++ loop, its samples and percentiles against a clock, on `EventChannel`.
11. `CppRun`: what happens around the pipelines in C++: pinning, construction, allocation count; proved in
    `CppPacingProofs`.
12. Possible: the Rust tuned book's id map; a 64-bit overflow argument for the cursors.

The composition of ring, pacing and book is by refinement, not by a product: `CppRing` implements
`EventChannel`, `CppPacing` runs on `EventChannel`, and the consumer feeds `Book` or `TunedBook`,
which implement `Clob`, one call after the other. All books implement the same `Clob` on the
same operations and fold their live orders in the same canonical order, so that fills, volume,
resting orders and checksum agree between books and languages; `Generator` shows that the
operations are the same.

Proofs, in order (all done): the C++ ring, the generator's bounds, the C++ schedule and samples, the Go ring,
the C++ books with their refinement of `Clob`, the Rust harness, the Go book; the Java harness, with the
ideas of the C++ schedule on top of those of the Rust harness; `CppRun` and `PinAffinity`; and the properties that
speak of folds and sorts: the conservation of quantity, the checksums of the three books, the percentiles.

## 3. Modules and the code

**EventChannel** has two actions, `Send` and `Deliver`, over the number of events
sent and the sequence delivered.

**CppRing.** An event is its sequence number; a slot is three fields (`kind`, `op` for
side/price/qty/id, `ts`), each holding the number of the event it was written for, so
a torn or overwritten slot shows. The producer's program counter `ppc` walks
`claim -> kind -> op -> ts -> publish`, the sentinel skips `op`; the consumer's `cpc` walks
`poll -> drain -> apply -> sample -> drain`, back to `poll` through the single
`cons.store` of a batch, and to `exit` on the sentinel. Memory model: `prodView` and
`consView` keep, for every value a cursor has had, the view of the thread that stored
it; a load may return any value not older than the one last seen (`Poll`,
`ClaimReload`) and joins the attached view. `pSees` and `cSees` are those views: the
events whose reads (writes) by the other thread happen before. The cursors' 64-bit
width is not modelled (they count events). `paced`, chosen in the initial state, is the
test `interval > 0` of the producer's loop: an unpaced run stamps nothing and has no samples.

**GoRing.** The same two threads on sequentially consistent atomics: loads return the
last value, `filled` and `handed` are what the last stores release; `paced` is as in `CppRing`.
One cursor store per event; the report is a message on a channel of capacity one and the receiver does not
wait for the goroutine.

**Clob.** `Submit`, `Trade` (with the best-priced, oldest order of the other side),
`Rest`, `Finish`, `Cancel`. Since ids are numbered in arrival order, "oldest" is the least
id: priority is stated without any queue.

**Book** and **TunedBook.** `limit()` is split at its loop heads: `CallLimit`, `PickLevel` (one
iteration of the outer loop), `SkipCancelled` / `Fill` (one of the inner), `LeaveLevel`,
`Rest`, `Return`. `cancel()` is one step. `Checksum` is the sequence of (id, price, qty)
that `checksum()` folds; the mixing function is left out. In `TunedBook` the scan for
the next occupied level is part of `LeaveLevel`, as in the code. `booked` in `Book` is a
history variable.

The tuned books of Go and Java (`go/tuned.go`, `TunedBook.java`) have exactly the steps of the C++ one;
they differ in what `best_ask` holds without asks: `INT64_MAX` or the length of the ladder. `noAsk`, chosen
once in `Init`, is either. Java's and Rust's idiomatic books have the steps of `Book` on their own
ordered and hash maps; Rust's tuned book has a map of ids where `TunedBook` has an array.

**Workload.** `next_op` with every remainder and bit field of the random number replaced by an
arbitrary value of its range. **Generator** EXTENDS it with what it leaves out: the state of SplitMix64, the
draw, and the remainders and shifts `next_op` takes from it (`OpOf`), beside the same computed in Java:
signed words (`Signed`), `>>>` (`ShiftUnsigned`), `Long.remainderUnsigned`, wrapping sums and products. The word
is scaled from 64 to `Bits` bits and the shifts with it; the multipliers keep their low bits.
Go and Rust compute like C++. One step is one call in each language.

**CppPacing.** `run_impl`'s loop against a clock that both threads read (`Tick`): `StartSchedule`, then per
operation `NextOp` (the next scheduled time), `SpinEnds` (the wait, the stamp), `PublishOp`; `PublishReport`,
`Join`, and `PrintResult` with the percentiles or `ReadNoSamples` if there is no sample to take them from. The
consumer's `Apply` is the call into the book, `Sample` the clock read after it, the unsigned difference (`Elapsed`, modulo
`Word`) and the clamp. The ring is `EventChannel`, with the stamps beside it.
Go's loop (`go/harness.go:83-114`) has the same steps.

**CppRun.** `SetUp` (ring, sample vector, the producer's pin), `Spawn` (the consumer starts with the creator's
mask), `CountFrom`, `StartClock`, `Publish`, `JoinConsumer` on the main thread; `PinConsumer`, `ConstructBook`, `ApplyOp`, `Exit` in
the consumer. `g_allocs` is an atomic counter; the relaxed load in `CountFrom` may miss increments of
the other thread (`MayRead`), the one after `join` misses none. `byBook` is a history variable.

**PinAffinity.** Masks of the main thread, the warmup thread and the current consumer;
`StartWarmup` / `StartMeasured`, `BuildConsumer` or `RefuseCore`, `PinProducer`, `FinishRun`.
The refusal is the disruptor crate's (not in the repository), as `rust/src/main.rs:34-37`
describes it.

**GoBook** has the steps of `Book` on other structures: a tree of prices and a map of levels per
side, levels with a head index, orders copied out of their map and written back.

**LibRing** is the ring of the Disruptor libraries, whose code is not in the repository, as
the two harnesses rely on it: a free slot for the producer, publication, batches for
the handler, slots freed behind a batch; also a clock both threads read. **JavaHarness** and
**RustHarness** EXTEND it. Their producers generate, compute the scheduled time, wait for it, stamp,
publish, then publish the sentinel and end the run: in Java `Shutdown` waits until all events
are behind the consumer and only then stops it, in Rust the producer is dropped, which
joins the thread. Their handlers are `Apply` (the call into the book), `Record` (the clock is read after
it) and `SetReport`. A sample is kept with the number of its operation.

Operators named for a fault (`LooksFullOffByOne`, `EnqueueInFront`, `Newest`, ...) are mutated
forms of the definition that follows them; no specification uses them. Each shows that
a property is able to fail.

## 4. Runs

| run | bounds | what it shows |
|---|---|---|
| `cpp_ring` | 4 slots, 9 operations and the sentinel, 2 warmup, paced and unpaced | no lapped slot, no race, stale cached cursor harmless, report complete, refines the channel, run ends |
| `go_ring` | the same | no race, the report received is whole, refines the channel, which delivers everything |
| `book` | 2 prices, quantities 1 and 2, 5 calls | priority (refinement of `Clob`, liveness included), queues and id map consistent, never crossed, quantity conserved, canonical checksum |
| `tuned_book` | ladder of 3, all three prices, quantities 1 and 2, 4 calls; no-ask value at the end of the ladder or beyond | the same abstract book; best pointers, heads and live counter exact |
| `go_book` | as `book` | the same abstract book; tree and level map in step, no exhausted level kept |
| `java_harness` | 2 slots, 5 operations and the sentinel, 1 warmup, due every tick, every second one or unpaced; the clock stops at 12 | report complete behind `shutdown()`, stalls charged to the operations due in them, run ends |
| `rust_harness` | the same with all due at once, every second tick or unpaced; the clock stops at 13 | report complete behind the joining drop; nothing lost at a full ring (refines the channel) |
| `workload` | module `Generator`: 12-bit word, all 4096 seeds, walk over 3 prices, 4 calls | Java's stream is the C++ stream; the operations are among those `Workload` allows; prices on the ladder, ids in the array, and the ladder has not one level to spare |
| `cpp_pacing` | channel of 2, 5 operations, 1 warmup, due every tick, second or fourth tick, at rates 0 and above a billion too; samples cut at 7, clock stops at 22 | stalls charged also across the clamp, no sample wraps, percentiles are samples of their rank, exactly the operations past the warmup are measured |
| `cpp_run` | 3 cores, one named core that does not exist, all modes, 3 operations, up to 2 allocations per call | each thread is pinned as asked in every run; the allocation count |
| `pin_single` | 3 cores, one named core that does not exist | each Rust thread is pinned as asked |
| `pin_all` | the same, mode `all` | a run is refused a core that exists (violation, see below) |

Why the bounds are enough: with 4 slots and 10 events every slot is used twice and some
three times, the ring fills, the cached cursor is stale by up to a full ring, and batches
of every size up to four occur. Five calls in the book allow two orders in a
queue, a cancel inside it, a level beyond it and an order that sweeps both. Four calls on three prices allow a
gap between levels, an emptied level that is used again, and both ends of the ladder.

The generator's word has room for every field `next_op` takes, half of its values are
negative in Java, and every draw is reached since every seed is. In `cpp_pacing` a stall can be longer than
the largest sample, and 4 samples are enough for the five percentiles to fall on different
ones and for a rank scaled with the number of samples, instead of one less, to pick the wrong
one. Two allocations per call,
three by the tuned constructor and none by the other make every mixture of the counter's parts
distinguishable.

The clock of the harnesses runs past the last scheduled time, so that the run can be late by
any amount up to the whole schedule, and a ring of two makes the producer stall. Once the
clock has stopped both threads still run; that they come to their end is `RunEnds`, not the deadlock check.

Deadlock is checked except in `book`, `tuned_book` and `go_book`, where the stream of operations
really stops after the last one; the other models end in an explicit last step.

Fairness. Each thread of a ring is weakly fair: it runs on its own core or is scheduled
by the operating system. A busy-spin load that returns an old value changes nothing, so
weak fairness also says that a store is visible after finitely many loads, which
the C++ standard asks of implementations and Go's atomics give. In the books
the matching thread is weakly fair while a call is in progress; nobody has to make a call.

## 5. Proofs

Eight modules hold proofs. Each states one inductive invariant (`IInv`; `RunInv`, `PinInv` and `GenInv` for the models
proved beside another one) as a conjunction of named parts, shows with lemmas for the actions that each
keeps it, and derives the theorems from it. They hold for all constants that satisfy the assumption the modelled module
names, and assume nothing else, with three exceptions that their statements show: the two pinning theorems of Rust ask for
`"all" \notin Modes`, since in that mode the program does violate them (section 6), and `GeneratedCallsFit` asks that the
book's prices and quantities include those the generator draws. Each invariant was checked by TLC before it
was proved, except that quantifiers over all numbers ranged over those of the instance.

| module | theorems | for all |
|---|---|---|
| `CppRingProofs` | `TypeCorrect`, `SlotsIntactHolds`, `RaceFreeHolds`, `GatingBoundHolds`, `JoinedReportHolds`, `RefinesChannel` | ring sizes, run lengths, warmups, paced or not |
| `GoRingProofs` | `RaceFreeHolds`, `ReturnedReportHolds`, `RefinesChannel` | the same |
| `RustHarnessProofs` | `ReportCompleteHolds`, `RefinesChannel` | ring sizes, run lengths, warmups, sets of intervals |
| | `PinRefusedForCause`, `PinPinnedAsAsked` (of `PinAffinity`) | machines, settings of the variables |
| `JavaHarnessProofs` | `ReportCompleteHolds`, `StallsChargedHolds`, `RefinesChannel` | ring sizes, run lengths, warmups, sets of intervals, bounds of the clock |
| `CppPacingProofs` | `NothingEarlyHolds`, `StallsChargedHolds`, `SamplesCompleteHolds`, `PercentileRankHolds` | the same, rates, clamps and words larger than the clock's bound |
| | `RunPinnedAsAsked`, `RunAllocsCovered` (of `CppRun`) | machines, settings, run lengths, growth of the book |
| `BookProofs` | `QueueDisciplineHolds`, `NotCrossedHolds`, `ConservationHolds`, `ChecksumCanonicalHolds`, `RefinesClob` | sets of prices and quantities, numbers of calls |
| `TunedBookProofs` | `QueueDisciplineHolds`, `BestExactHolds`, `LiveExactHolds`, `ChecksumCanonicalHolds`, `RefinesClob` | the same, ladders |
| | `GeneratedOnLadder`, `GeneratedInOrderArray`, `GeneratedCallsFit` (of `Workload`) | ranges of the walk, offsets, ladders |
| `GoBookProofs` | `TreeMatchesMapHolds`, `ChecksumCanonicalHolds`, `RefinesClob` | sets of prices and quantities, numbers of calls |

**Rings.** `SlotsIntact` is not inductive: a write into a slot is safe because of a test made steps
earlier against a cursor that may be stale. In `CppRingProofs` `IInv` adds `Claimed` (from claim to publish
the slot is within a ring of `consSeen`), `Views` (a stored cursor value releases exactly the events it
counts), `Slots` (events from `cons + 1` to `prod` are intact, and the written part of the next), `Drained` (where
the consumer is relative to `cons` at each point of its loop) and `Collected` (what has been applied and
sampled). That two events less than a ring apart have different slots is `RemaindersDiffer`.
`GoRingProofs` has the same parts, simpler where Go's atomics are: one store releases one event. What is new there
is `Reported`: the receiver does not wait for the goroutine, so the message has to be whole when it is
sent, and nothing may be collected after.

In `RustHarnessProofs` the ring is the library's and frees a batch at a time: `Batches` places the event being
handled between the freed slots and the published ones, `Slots` says what the slots in between hold (the
sentinel too, whose slot keeps `op` from an earlier lap), and `Publishing` relates each point of `run()` to the number of
events published. `Reported` follows the report from the dispatch of the sentinel through the join to
the caller: it is there from then on and nobody but the caller takes it.

`JavaHarnessProofs` has the same parts. What differs is the end: `Publishing` says that `run()` goes on from `shutdown()`
only with nothing published left unhandled, so the report is set when it is read, and no exception is thrown.
`Publishing` also keeps the schedule (`DueAt(s)` is `interval * s`, whatever the producer was held up by), from which
`Charged` follows as in C++.

`RefinesChannel` in all four says that every step is a step of `EventChannel` or a stutter:
all of them are one bounded channel.

**Schedule and samples.** The invariant of `CppPacingProofs` ties the samples to the schedule: `Past` (no stamp is in
the future), `Stamped` (exactly the measured operations carry stamps, an interval apart whatever held the producer
up), `Scheduled` (what the producer's locals have to do with the last stamp at each point of the loop), `Charged` (the last sample is
at most what it would be if it were taken now). The last one carries `StallsCharged`: when the
next sample is taken, its operation was due one interval later, so it is at least the last one less
the interval, clamp included (`CutSteps`). `Counted` relates the number of samples to the consumer's progress.

`PercentileRank` compares a printed value with shares of the samples. `Sorted` applies a permutation of positions that puts the
samples in order. That there is one has to be proved: the place of a sample is the number of samples before it, by value
and then by position, which is a bijection. With it (`SortedIs`) the samples below a value are an interval of places, so
its share is a cardinality (`RankCounts`) that `Rank` can be compared with (`RankIs`). No induction over the samples is needed.

**Set-up.** `RunInv` (`CppRun`) says where both threads are in a run (`RunControl`), that the main thread is on all
cores until its first run and where it was asked to be after it (`OnCores`), and that the count starts between what
the run allocated before its consumer and what the book's constructor has added (`CountBase`), whatever a relaxed load
returned. `PinInv` (`PinAffinity`) needs `StartsUnpinned`: a thread that starts a run is still on all
cores. That is what mode `all` breaks.

**Books.** None of the properties is inductive. They speak of live orders, but a queue also holds the
ids of cancelled ones, and an id that were in two queues while dead would be no violation until it came back. So
the invariants are about all ids that wait: `LevelsOK` (each level is in order of arrival; the set
of levels is finite), `Known` (every id that waits was submitted before the order in hand), `Unique` (no id,
live or dead, waits twice), `Placed` (a live order waits in the level of its price), and `Types` (an order in the map has
a quantity left). `Working` says what the outer loop has established for the inner one and the inner loop must
not spoil: its level exists, is the best of its side and crosses the incoming price. `NotCrossed` adds
`Uncrossed`, whose proof when an order rests needs that the outer loop ended because the best level did not
cross, hence none does (`NoneCrosses`).

That there is a best level at all is a fact about finite sets of integers, proved from the
well-foundedness of inclusion (`FiniteHasLeast`, `FiniteHasGreatest`). In the tuned book the best pointer is a variable: `BestExact` only
holds outside the inner loop, and `Working` says what replaces it inside: every level better than the pointer is
empty, from which the scan in `LeaveLevel` finds the next occupied one or none. `LiveExact` is inductive with
`Types` and the rules for the cardinality of a set that loses or gains one element. In the Go book,
`NotExhausted` says that the only level that may be exhausted is the one the inner loop works on, so
`DeletePrice` on leaving it restores what `TreeMatchesMap` asks for between loops.

`RefinesClob` is proved three times with the same refinement mapping: the side of a live order is the side it waits
on (`SideIs`), which no step changes (`SidesStay`). `Trade` is the step with content: the order at the head
of the best level has priority over every order that matches (`Trades`), since the other
levels are no better and the ids behind it in its level are larger. Before `Rest` no order matches; moves between
levels and dropped dead ids are stutters. So the three books produce the trades of one
abstract book, for every stream of operations.

**Folds.** A sum or a traversal over data of any size cannot be proved by induction on the operator, but the community
modules define both by a recursive function on the subsets of a set. `FoldExists` shows that there is such a function, by
descending to smaller sets (`SubsetInduction`, from the well-foundedness of inclusion), and `FoldsAgree` that there is
only one. For `Conservation` the rest are the rules for a sum that loses, gains or changes one summand; `Conserved`, the property
with the names of its parts, is inductive with `IInv`. For `ChecksumCanonical`, `LiveInIs` says that a level contributes its
live ids in order, `SideFolded` that a side's levels come one after the other by price; that the result has every resting
order once and in order follows from `QueueDiscipline`'s parts (no id waits twice, each level increases).

**Generator.** `WorkloadAssumption` (500, 1500, 1000, 10, 20, 100, 5000 and a ladder of 4096 satisfy it) gives
`OnLadder` and `InOrderArray`: `WalkRange` keeps the walk between its limits, and ids count limit orders.
`GeneratedCallsFit` closes the gap to the book: what the generator makes are calls `TunedBook` is proved for.

Only model-checked:

* liveness: `RunEnds`, and the fairness part of the refinements (the theorems prove their safety part);
* `SameStream` and `ImplementsWorkload`: `Generator` uses bitwise operators, which the provers do not have.

## 6. Findings

**`pin_all`.** `PIN_PROD=8 PIN_CONS=10 ./clob-bench all` (`README.md:677`) cannot work in Rust. The throughput
run pins the main thread (`rust/src/harness.rs:134`); the latency run, on the same thread, then asks the crate
for `PIN_CONS` with a mask that only holds `PIN_PROD`, and the crate panics. The
warmup was moved to a thread of its own for this reason (`rust/src/main.rs:34-38`); the two
measured runs were not. `pin_single` shows that one measured run per process is fine. The C++
program has no such trouble (`cpp_run`): its consumer pins itself whatever mask it inherits.

A proof attempt corrected two models. `RustHarness` and `JavaHarness` had the empty report, `None` and `null`, equal
to the genuine report of a run without operations, so that such a run panicked (threw) in the model and not in the
program. No instance had `TotalOps = 0`; in the proof of `ReportComplete` the case did not go
through. Both are values of their own now.

Two things the models show on the way, which no run is made to violate:

`latency <ops> <rate>` with a rate above 10^9 computes the interval 0 (`cpp/main.cpp:131`), which
means "not paced": nothing is stamped or sampled (`SamplesComplete` says so), although the program prints "latency mode
(... ops/s paced)", and `print_result` indexes an empty vector (`cpp/main.cpp:192`, `198`; action `ReadNoSamples`). Go
and Java also leave such a run unpaced; Rust paces it with interval 0.

The comment at `cpp/tuned.hpp:50-51` says that zeroing the order array up front keeps
first-touch faults out of the measured region. The book is constructed in the consumer thread
(`cpp/main.cpp:97`) and the producer starts the clock (`:135`) without waiting for it, so the construction may lie inside:
in `CppRun`, `Publish` can come before `ConstructBook`.

## 7. Not modelled

The checksum's mixing function (the checksum is modelled as the sequence it folds); the containers of the
Java and Rust idiomatic books and the id map of Rust's tuned book, whose steps are those of the
modelled books; the clock of the Go harness, whose loop is the C++ one; the inside of the Disruptor and histogram libraries (in particular their
60 s limit on a latency); the Java and Rust allocation and GC statistics; argument parsing, formatting and the
run script (no behaviour to check). A rate of 0 on the Rust command line divides by
zero and stops the program: nothing to explore. Java's `nanoTime` is taken to
have its origin in the past: with an origin in the future a scheduled time could be 0, the
value that means "do not measure".
