# textile_inference_gpu: specifications and proofs

TLA+ modules, TLC models and TLAPS proofs for the inference pipeline of
`textile_inference_gpu`: a C++20 process that takes image strips from a camera
process through shared memory, cuts them into patches, runs an ONNX model on
the GPU and publishes anomaly maps.  Line numbers refer to `src/`.

## 1. The system

```
 producer process                       one process: threads and bounded queues
 +-------------+  sfc::Frame   +--------+  qRaw  +------+ qPrep +-------+ qInf  +------+
 | camera      | ------------> | ingest | -----> | prep | ----> | infer | ----> | post | -> IResultSink
 +-------------+  canRead,     +--------+        +------+       +-------+       +------+
                  event           ^  rawPool <-----'  ^             slotPool       |
                                  +-- raw frames      +-------- pipeline slots <---+
 main thread: builds everything, spawns the stages, keyboard loop s / x / q, Drain, report
 every thread: Log::Info/Warning/Error -> queue -> one low-priority consumer thread
```

| component | state | operations | what makes it correct |
|---|---|---|---|
| `RingBuffer` (RingBuffer.h, .tpp) | `slots_`, head, tail, count, stopped, a mutex, two condition variables | push, pop, try_push, try_pop, push_swap, try_push_swap, stop | FIFO, no record duplicated or lost, no lost wake-up, stop releases every sleeper |
| stages (Stages.cpp) | local frame and slot, the contents of slots | PrepStage, InferStage, PostStage loops | every buffer goes back exactly once on every exit path; a batch's scores are its own |
| the preprocessing (Stages.cpp) | the pinned input of a slot | Downscale2x, PackNchw, row by row | the model sees the right pixel, plane and patch, to the last byte |
| `StageWorkers` | three vectors of threads | Drain, Abort, JoinAll | Drain loses nothing; no join hangs |
| `Run` (textile_inference_gpu.cpp) | all objects, `quit` | start-up, spawn, keyboard loop, shutdown, report | what is acquired is released, once and in order; threads end before what they use; report figures are final |
| `MmfFrameSource`, `sfc::Frame` | canRead, payload, event, `stopped_`, counters | ReadFrame, Start, Stop | a frame is read once, whole, in the session it was written in |
| `IngestController` | `thread_`, `alive_`, `listenStart_`, `listenedSec_` | Start, Stop, Alive, ListenedSec | no false alarm, a dead thread is reaped, times add up |
| `AsyncLogger`, `LogRecord` | queue, running, dropped, `g_instance` | Log calls, Start, Stop, destructor | callers never wait; accepted lines are printed in order; losses are counted |
| `RawFrameStore`, `SlotStore` | pinned blocks, headers over the strip, pools | constructor with rollback, destructor | no leak, no use after release |
| `OrtSessionConfig` | session, stream, device buffers, events | constructor, Warmup, RunBatch, Cleanup | host buffers are quiescent when RunBatch returns or throws; outputs belong to the slot's batch |
| `PerformanceMetrics`, `RollingAverage` | windows, completedBatches | add..., printRollingAverage, logFinalReport | one line per window, over full windows; consistent totals |
| `AppConfig`, `PipelineConfig`, `IniConfig`, `PatchLayout`, `ContractMetadata` | configuration | loading and validation | what is accepted fits together and keeps the pipeline moving |
| SimpleIni | the entries of the INI file | LoadData, FindEntry, AddEntry, GetValue, GetLongValue | the last assignment of a key in its section wins |
| `RealTimeConfig`, `ConsoleKeys`, `ResultSink` | - | OS calls, a sink that logs | - |

The components meet in the ring buffers (all data between threads goes through
one), in the shared frame (`canRead` and the event), in two atomic flags
(`MmfFrameSource::stopped_`, `IngestController::alive_`), in the metrics (a lock
per field and an atomic counter) and in the joins.

What is hard here: condition variables notified outside the lock; five queues
forming two cycles of buffers (frames and slots) with ownership by convention
only; a shutdown whose order matters; a batch that fails on the GPU while copies
are in flight; a thread that cannot be created or dies on its own; a constructor
that throws half-way; a flag and an auto-reset event shared with another
process; sizes stated three times (INI, compiled contract, model); several
listening sessions in one run; SIMD and fixed-point code with borders and tails.
`PROJECT.json` lists the hazards one by one, at the line where each bites.

## 2. The modules

| module | models | notes |
|---|---|---|
| `BoundedChannel` | what a ring buffer promises | a closable FIFO; one call, one step |
| `RingBuffer` | RingBuffer.h, RingBuffer.tpp | one step per critical section or notification |
| `FrameLedger` | what the pipeline promises for a frame | unread, accepted, then published, failed or (abort only) lost |
| `Pipeline` | Stages.cpp, StageWorkers, Run, queue traffic of ReadFrame and IngestController | one step per queue operation; a ring buffer is a `BoundedChannel` |
| `BatchCall` | what RunBatch promises | an atomic call per slot |
| `OrtBatch` | Warmup and RunBatch of OrtSession.cpp | a stream of operations, any call may fail, the device may die |
| `FixedPoint`, `PrepKernel` | Downscale2x, PackNchw and their helpers | pure operators, with reference filters over the rationals |
| `PrepFrame` | the loop of PrepStage over the patches | rows and planes in a recycled buffer |
| `PatchLayout` | PatchLayout.cpp | pure operators |
| `IniFile` | the part of SimpleIni in use | lines to entries, values to numbers |
| `AppConfig` | AppConfig.cpp, PipelineConfig.cpp | entries to a configuration, or a throw |
| `Startup` | Run as constructors and destructors; the constructors of the stores, OrtSession, MmfFrameSource; ContractMetadata | one step per resource or check, any of which may throw |
| `MmfIngest` | sfc::Frame, MmfFrameSource, Start/Stop | one step per interlocked or event operation; a copy takes two; the contents of the buffer are the numbers of frames |
| `IngestController` | IngestController and the loop around it | thread life, `alive_`, the clock |
| `RollingMetrics` | PerformanceMetrics, RollingAverage | one step per lock or atomic operation |
| `Session` | a run from the first key to the report | composes `IngestController` and `RollingMetrics` |
| `AsyncLogger` | AsyncLogger | one call, one step on its queue |
| `...Proofs` | theorems | section 5 |
| `MC...` | constants and inputs for TLC | |

**How they compose.**  `RingBuffer` is shown to implement `BoundedChannel`, and
the channels of `Pipeline` and the queue of `AsyncLogger` are used as such: a
blocking call is an action enabled when it can return.  `OrtBatch` is shown to
implement `BatchCall`, which is what `InferRun` of `Pipeline` takes RunBatch
for.  `Pipeline` in turn implements `FrameLedger`.  `PrepFrame` justifies that
`PrepFill` of `Pipeline` copies a frame into a slot in one step.  `Pipeline`
abstracts the shared memory to "a frame is offered or not", which is the view
`MmfIngest` takes apart; `MmfIngest` abstracts the raw pool to "a buffer is free
or not", which `Pipeline` settles, and relies on the push to `qRaw` succeeding,
which is `ReaderPushFits`.  `Startup` shows that what gets as far as the
keyboard loop satisfies the assumptions of `Pipeline` (`CrossConstraints`) and
`PrepFrame`.  `Session` puts the controller, the telemetry and the report
together.

**State and actions.**  `Pipeline` keeps `q` (the five queues), `stopped`, a
program counter per stage thread, the two local variables `frame` and `slot`,
the contents of frames and slots as the number of the batch they belong to, the
ingest thread, the counters and the position of the main thread in `Run`.  A
stage's loop body is one action per queue operation (`PrepPopRaw`,
`PrepPopSlot`, `PrepFill`, `PrepReturnRaw`, `PrepPush`; `InferPop`, `InferRun`,
`InferPush`; `PostPop`, `PostPublish`, `PostRelease`), and both outcomes of an
operation are disjuncts of its action.  `InferRun` either fills the slot or
throws.  `Spawn` may fail at any thread, which leads to `Abort`.  The keys are
`KeyS`, `KeyX`, `KeyQ`; the liveness check of the loop is `ReapIngest`.
`DrainStop`/`DrainJoin` go through the table `DrainStage`, `AbortStop`/`AbortJoin`
through the sequence `AbortOrder`.

`OrtBatch` keeps the pinned host buffers of every slot and the device buffers,
patch by patch, as the number of the batch their contents come from; `stream` is
what the device has still to do, `todo` what the host has still to enqueue.
`Startup` keeps the set of resources held; its construction is a sequence of
steps computed from the configuration, its destruction the reverse of the order
of declaration, and `Rollback` what a constructor's own handler releases.
`RollingMetrics` keeps `stage` (where a batch is), the windows of `RollingField`
with write index and count, the counter and, per batch, the number `fetch_add`
returned and the averages read so far: printing a line is five steps, each with
a lock of its own.

Definitions named `Bug...` are plausible mistakes in the definition that follows
them; nothing uses them in the specification, they serve to confirm that a
property can fail.

## 3. The runs

| run | bounds | question |
|---|---|---|
| `RingBuffer` | 3 threads, 2 places, fair | records conserved, no lost wake-up, refinement of `BoundedChannel`; stop lets everybody out; nobody sleeps on a true condition |
| `PipelineOne` | 1+1+1 threads, 2 frames, 5 slots, 6 batches | ownership, sizing rules, exact and ordered results, shutdown |
| `PipelineMany` | 2+1+2 threads, 3 frames, 7 slots, 2 batches, fair | inductive invariant, slot ownership, refinement of `FrameLedger`, Drain and Abort end, every frame settles |
| `Mmf` | 3 frames, 2 sessions, fair | one read per claim; a finished frame is delivered whole and in the session it was written in; Stop and frames never need the timeout |
| `MmfEarlyFlag` | as above | *violation*: what is delivered is one whole frame, written after Start() |
| `Session` | 4 batches, 2 post threads, window of 2, 1 clock tick, fair | no false alarm, dead threads are reaped, one line per window over full windows, the report is final |
| `ControllerReport` | 4 clock ticks | *violation*: the report covers all sessions |
| `Logger` | 3 threads, 2 calls each, queue of 2 | print order, accounting, callers never wait, destructor ends |
| `OrtBatch` | 2 slots of 2 patches, 1 warm-up run, 3 batches, both binding modes, fair | no copy outlives its call; refinement of `BatchCall` |
| `Startup` | base file and 3 extra lines, 2 numbers of processors, a model for each reason to refuse one and for each way to fit | the last assignment wins, what runs fits, everything is released, nothing dangles but a stream under its own session |
| `BrokenHeader` | as above, 2 extra lines | *violation*: an invalid line is skipped |
| `PrepFrame` | widths around the SIMD block, three scalings, several images | the slot's input equals the reference filters |

**Why the bounds suffice.**  The ring: one thread more than there are places, so
that a signal can find two sleepers, one or none, two threads can wait for a
third, and a barging thread can steal the item a sleeper was woken for; head and
tail wrap several times because items are never exhausted.  The pipeline: the
sizes are the smallest `ValidateCrossConstraints` accepts, where the sizing
rules are tight, and `PipelineOne` offers one batch more than there are slots so
that slots are recycled and the pool can run dry if a rule is broken;
`PipelineMany` has two threads competing for the raw frames, the slots and the
results.  The shared frame: two sessions with a frame left over between them,
and a third frame to confuse the other two.  The telemetry: two windows, and as
many post threads as batches in one, so that a thread can fall behind by a
window.  The clock: two sessions of different lengths in `ControllerReport`; in
`Session` one tick is enough to tell a session that lasted from one that did
not.  The logger: a queue smaller than the messages of the threads.  `OrtBatch`:
more batches than slots, so buffers are recycled on both sides; the warm-up is
one run because runs are alike.  An INI file has up to three lines more than the
base, which is what a section header, a repeated key and an unclosed bracket
need together.  The theorems of section 5 remove the bounds for all safety
properties.

Bounds the program does not have: `MaxSeq` (batches in `Pipeline`), `MaxBatch`
(in `OrtBatch`), `NumBatches` (in `RollingMetrics`), `MaxFrames`, `MaxSessions`,
`MaxTime`, `MaxCalls`, `MaxLines`, and `MaxDigits` (digits of a number in the
INI file).  The records of `RingBuffer` are finitely many because they are
swapped, never created.

`CHECK_DEADLOCK FALSE` appears where the program really may stop: at the
keyboard with the bound on sessions used up (`Mmf`), when all batches are
through (`OrtBatch`), at the end of the program (`Startup`), and when the slot
is full (`PrepFrame`).

**Fairness.**  The program's threads are scheduled by Windows; each takes a step
eventually if it can: weak fairness per thread.  Nothing else is assumed: no
frame ever has to come (`IngestSees` is not fair), no key has to be pressed, no
call has to fail, no wait has to time out, no wake-up is spurious.  In
`RingBuffer` threads that hold the mutex or owe a notification go on; in
`MmfIngest` the producer finishes the frame it has begun; in `AsyncLogger` each
liveness property names the threads it needs: a log call returns even if the
consumer never runs again.  In `Session` the main thread goes on inside Start
and Stop and looks at `Alive()` again after every Poll, and the ingest thread
leaves when it was asked to.  In `OrtBatch` the infer thread goes on and the
device works off what it has accepted, as long as it lives.

## 4. What the checks found

Three runs violate what the repository says of itself:

* `MmfEarlyFlag`: under the protocol as documented (SharedFrameContract.h:52-55) the
  producer owns the buffer while `canRead` is TRUE and the pixels are not there
  yet; the reader does not wait for the event when it sees the flag
  (MmfFrameSource.cpp:91), and Start() lowers the flag but leaves the pixels
  (MmfFrameSource.cpp:154-156).  Between the claim and the copy the reader
  delivers what was there before: in the counterexample, the memory as it was
  mapped; after an earlier session, a frame of that session, against
  MmfFrameSource.h:65-67; with the copy half done, a strip of two frames, against
  SharedFrameContract.h:47-48.  The counterexample needs no timeout and no stop.
  What does hold, of frames the producer had finished when the reader saw the
  flag, is `FinishedFrameIsDelivered` (run `Mmf`).
* `ControllerReport`: `listenedSec_` is documented as a sum and assigned
  (IngestController.cpp:36), so the report's throughput is wrong after a second
  session.
* `BrokenHeader`: a section header without its bracket is not skipped, as the
  comment at SimpleIni.h:1689 has it, but opens a section of another name: the
  section pointer has moved (SimpleIni.h:1684) before the bracket is looked for,
  and the keys below the line are lost to the program.  `LastAssignmentWins` (run
  `Startup`) says nothing of keys on which the two readings differ.

Smaller disagreements met while modelling; the modules follow the code in each:

* RingBuffer.h:104 says stop() "rejects future pops"; pop and try_pop go on
  delivering until the ring is empty, and Drain depends on it.
* PipelineSlot.h:64 and Stages.h:92 call post-processing the sole release point
  of a slot; three other places release one (Stages.cpp:430, 453, 467).
* The INI file warns that a leading zero means octal; values are read in base 10.
* A malformed legacy key (`PrepRealtime=yes`) falls back to the default without
  a word, against the comment at AppConfig.cpp:97.
* OrtSession.h speaks of a model with a static batch of one for `LoopBatch1`;
  Run refuses it.
* OrtSession.h:34 says the destructor "safely" cleans up streams; Cleanup destroys
  the stream (OrtSession.cpp:202) before the session and the binding that were
  given it.  `NoDangling` names this as its one exception.  Whether ONNX Runtime
  still uses the stream on its way down is outside the model.
* RealTimeConfig.h:13 says scheduling state is restored; the opt-out from power
  throttling is not.
* The final report's "mean of last min(window, completed)" is not exact for the
  prep stage if batches failed, which is why `ReportIsFinal` speaks of inference
  and post-processing only; and the three averages in "GPUwall = H2D+Run+D2H"
  are read one after the other.

## 5. What is proved

Every invariant and every safety property of the passing runs is a theorem for
all values of the constants, save that `OneThreadKeepsOrder` speaks
of one thread per stage, as the property does.  `PROJECT.json` lists the
theorems with the properties they state; this is the argument of each module.

**Pipeline** (`PipelineProofs`), for every finite set of prep, infer and post
threads, none of them empty, and every size `ValidateCrossConstraints` accepts
(`ThreadAssumption`, `SizeAssumption`, `CrossConstraints`).  None of the safety
properties is inductive: a full pool, a refused `try_push` and an empty pool are
facts about all threads and queues at once.  `IndInv` counts instead.  The frames
in `rawPool` and `qRaw`, with the prep threads and the ingest thread that hold
one, are at most `NumFrames`, and exactly that many until `rawPool` is stopped;
the same for slots; and nothing is stopped while the console listens
(`OpenWhileListening`).  Every action of a stage thread is one of five movements
(`TakeSlot`, `PassSlot`, `ReturnSlot`, `TakeFrame`, `ReturnFrame`) or moves
nothing (`Stay`), and there is one lemma for each.  `Invariance` is the result;
from it:

* `TypeCorrect`: no channel exceeds its capacity, and a thread holds a buffer
  exactly where the code has one.
* `ReaderNeverRefused`: `try_push` to `qRaw` in `ReadFrame` never fails.
* `DropsOnlyUnderBacklog`: the reader drops only while a frame waits for prep.
* `ReturnsNeverOverflow`: a pool has room for whatever somebody still holds.
* `FrameHasOneOwner`, `SlotHasOneOwner`: by name, a buffer is in one queue or
  with one thread, and lost to none before its pool is stopped.  What a push or
  a pop does to the places of one buffer is counted (`OccursPush`, `OccursPop`);
  a step keeps the number of places or, on a stopped pool, takes one away
  (`FrameStep`, `SlotStep`).
* `StoresOutliveThreads`: with `PhaseInv`, which says which stages have been
  joined at each point of `Drain` and `Abort`.
* `SlotNeverAwaited`: `slotPool.pop` in a prep thread neither waits nor fails, so
  the exit at Stages.cpp:406-409 is never taken.  While the pool is open,
  `MinimumSlots` pays for it; once `Abort` has stopped it, `ReserveInv` does: by
  then `qPrep` is stopped too, so a prep thread asks for one slot more at most,
  and that many are left.  It depends on the order of the stops in `Abort`.

The second half of the module follows the batches.  A buffer carries a batch: a
frame until prep has copied it (`RawCarriers`), a slot until it has been
published or given up (`SlotCarriers`); both rest on the ownership by name.  On
these carriers a step is one of six `BatchMoves`.  `LedgerInv` says that no two
carriers have the same batch (`CarriersDistinct`), that what is in flight,
published and failed is disjoint and was read (`NumbersInv`), and that nothing
read is missing unless `Abort` runs (`NoneLost`).

* `SinkIsExact`: with `ScoresFresh` (from the end of `RunBatch` to the sink the
  scores of a slot are those of its input).  `PublishCount` (the counter and the
  sink agree, but for threads between the two) is part of the invariant and not
  of the property; `Session` takes the counter up.
* `DrainDelivers`: with `DrainInv`, which says when a thread may have ended and
  what had been stopped and emptied before, and `PoolsFull`.
* `PipelineImplementsLedger`: every step is a step of `FrameLedger` or a stutter.
* `OneThreadKeepsOrder`: `LineInv` puts the batches in one line through threads
  and queues, the oldest nearest to the sink; a step moves one batch to the next
  place and nobody overtakes.

**Startup** (`StartupProofs`), for every file, model, number of processors and
every number of sessions, threads, frames and slots.  `FilesAssumption` only says
that files consist of lines, so that no section name contains a line break.

* `RunGood`: the objects of `Run` have a rank, the order of their declaration.
  A resource refers to resources of lower rank, or to its own object's in the
  cases that `Own` lists, or to the stream of its session; the construction goes
  up the ranks, and within OrtSession and RawFrameStore in an order in which
  nothing refers to what comes later.  The two exceptions, `Warmup` and the
  threads, go on with objects that are complete (`Late`), and nothing but what
  is acquired still later refers to what they acquire.  Loops of any length are
  joined block by block (`FlattenBlocks`).  "Refers" is the relation `Refers` of
  `Startup`: memory, tensors, bindings, sessions, streams, queues, pools,
  windows and the sink, with the references the threads are given.
* `UnwindsFrom`: wherever the construction stops, the handler of the unfinished
  object (if it is in a constructor) and the destructors of the finished objects
  name everything held, and what refers before what is referred to, save that a
  stream goes before the session it was given to (`Needs`).  This is where the
  handlers matter: `RollbackIs` needs that MmfFrameSource cannot throw after
  it has its event.
* `StartupInvHolds`: the inductive invariant.  While `Run` builds or runs, `held`
  is part of what the steps made so far have asked for and `built` is what they
  have completed; on the way back `Unwinds(cleanup, held)`.  From it
  `EverythingReleased`, `NothingDangles` (a property of steps) and `RunningFits`,
  which also uses what the checks of `AppConfig` establish (`AcceptedIs`),
  `ChecksPassed` (Run's own check was a step that succeeded) and `LayoutTiles`
  (an accepted geometry covers the strip without gaps).
* `EntriesAreTheFiles`: after k lines the parser knows the current section, or
  that it is none, and for every key the last value given by those k lines
  (`Learnt`); `LoadDataIs` unfolds the fold over the file.  The statement is
  about keys given none below a broken header (`Disputed`).

**Preprocessing** (`PrepProofs`), for every set of geometries, scalings and
images that `FrameAssumption` allows: patches of three channels, of even height
and width where they are halved, and pixels that are bytes.

* `PackRowIsExact`: blocks of shuffles and the scalar tail together take a row of
  any width apart.
* `PassIsTriangle`: at an inner output the weights are [1, 3, 3, 1] / 8, at the
  first and last they are [3, 3, 1] / 7, and for a row of two [1, 1] / 2
  (`CoeffsAre`); rounding the weights to 14 bits and pushing the error into the
  largest never changes the rounded result (`ShortCutIsExact`,
  `BorderIsExact`).
* `InputIsExact`: places of different patches, planes and rows do not overlap, so
  filling one patch keeps the others.

**Ring buffer** (`RingBufferProofs`), for every capacity and every finite set of
threads.  `RingConsistent`: on the data every step is a push, a pop or nothing,
and `RingInv` (window, counter, records) is preserved by each.  `NoWakeupLost`:
the invariant `SignalsSuffice` counts: as long as a consumer sleeps, the items
are at most as many as the signals still owed and the consumers awake, and the
mirror image for producers; a step moves one thread, or two when a signal wakes
one.  `ImplementsChannel`: every step maps to a step of `BoundedChannel` or to a
stutter.

**RunBatch** (`OrtBatchProofs`), for any batch size, number of slots and warm-up
runs.  `Quiescent`: everything on the stream, or still to be enqueued, belongs to
the call in progress, and there is nothing of either between calls; the handler's
wait is what makes it so.  `CallIsAtomic`: `RunBatch` implements `BatchCall`,
fairness aside (`SafeSpec`).  `CallInv` says of what the device and the host have
still to do, taken together (`Rest`), that it is in the right order and that each
result that is not in its place has an operation there which will bring it.

**Shared frame** (`MmfIngestProofs`).  `FinishedIsDelivered` and `SettledOnce`, for
any number of frames and sessions.  One invariant ties the reader's place, the
flag and the number of the claim; another (`DataInv`) says what the halves of the
buffer and of the copy hold at each place of the producer and the reader: the
frame of the last claim, once the producer has finished it, and as long as the
reader has the buffer.

**Logger** (`AsyncLoggerProofs`).  `PrintedInOrder` and `CallsAccounted`, for
any queue and threads: accepted = printed followed by what the consumer holds
and what is queued; calls = accepted + dropped + those in progress, by counting.

**Console and telemetry** (`SessionProofs`), for any number of batches and post
threads and any window.  `HealthyThreadIsAlive`: `alive_` is set before the
thread exists and cleared only by it.  `OneLine`: the numbers `fetch_add` has
handed out differ, a thread keeps its own until it has printed or passed over it,
and every multiple of the window is either held or printed.  `LinesCoverWindow`:
each field has one sample of every batch beyond its stage (`SampleInv`), its ring
holds the last of them (`RingInv`), and what a thread has read for its line so far
covers the window it will claim (`ShownInv`).  `ReportFinal`: the report is made
when nobody is left to add a sample (`ReportInv`).

**What the prover cannot do.**  Liveness under fairness and ENABLED are left to
TLC: `StopUnblocks`, `NoStuckSleeper`, `QuitReturns`, `AbortEnds`,
`EveryFrameSettles`, `StopIsPrompt`, `ReadyFrameIsTaken`, `DeadThreadIsReaped`,
`CallReturns`, `DestructorReturns` and the fairness of `CallSpec`.  The library's
induction rule takes a predicate, which no installed prover can instantiate.
`SetInduction` takes a set instead and follows from well-foundedness; with it the
folds and joins of sequences (`LoadData`, `FlattenSeq`, the sums of
`PrepKernel`) are proved correct for every length.  No module that a proof uses
declares a RECURSIVE operator.

## 6. What is not modelled

* An exception in `PrepStage` or `PostStage` has no handler and ends the process.
* An exception in the keyboard loop while the ingest thread runs.
* The arithmetic of `PostStage` (min-max scaling, resize, blur, masks): calls
  into OpenCV on floats, with no state beyond the slot.
* The provider options of ONNX Runtime, TensorRT and CUDA, and what the
  libraries do with them; the values of the model's metadata, which only reach
  float arithmetic.
* What SimpleIni offers beyond loading and reading: saving, deleting, multi-line
  values, repeated keys, encodings.
* The layout of log lines, of the report and of `Describe`; `flushIntervalMs`
  and `notifyThreshold` of the logger, which the code never reads.
* The effect of thread priorities, the console mode and the mapping calls:
  operating-system calls without a state of the program's own.
* The multiply-add that turns a byte into a float: `PrepFrame` follows bytes and
  places, so `InputExact` is exact to the byte.
* Which synchronisations can fail, in `OrtBatch`: only those of a dead device do.
  Handler and call path are the same for any other failure.
* The bound min(batch, patches) of the patch loop (Stages.cpp:412) in `PrepFrame`,
  which has the two equal; that they are is `RunsOnlyIfEverythingFits`.
* A failure of the log call that follows the last acquisition in a constructor.
* The mutex of the logger's queue: a call on it is one step (`RingBuffer` takes it
  apart), so `CallReturns` supposes that the mutex is obtained.
* The order in which the averages of a printed line are read: C++ leaves the
  order of arguments open, `RollingMetrics` reads them from left to right.
* `RollingMetrics` has one prep and one infer thread, so batches enter `qInf` in
  order; `OrtBatch` has one infer thread because sessions share nothing.

## 7. Plan

Done: all modules of section 2 and the theorems of section 5.  What would come
next, in this order:

1. Several prep and infer threads in `RollingMetrics`, so that `LinesCoverWindow`
   speaks of batches that overtake each other before they reach post.
2. The safety part of `StopIsPrompt` and of `DestructorReturns` as invariants
   (what has been signalled, and to whom, at each point of a shutdown).
3. One theorem that `Startup` establishes the assumptions of `Pipeline`, by an
   instance of `Pipeline` with the numbers of the configuration.
