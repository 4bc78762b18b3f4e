# A verification project for iobench

iobench measures how fast an image can be written to disk by many threads, with
buffered or direct, synchronous or asynchronous (io_uring) writes. The image is
a TIFF file of strips; with `-k` the file is cut into 32 KB chunks that do not
coincide with the strips, so that neighbouring strips share buffers. This
directory holds TLA+ models of that program, the TLC configurations that check
them on small instances, and TLAPS proofs for every instance.

Paths below are relative to the repository's root.

## 1. The system

| component | source | state | operations |
|---|---|---|---|
| Strip and chunk layout | `src/io/ImageStripper.h` | strips; for every strip its `StripChunk`s (a part of an `IOChunk`); for every `IOChunk` offset, length, share count, acquire count, buffer | constructor (`generateChunks` strip by strip), `getStripChunkArray`, `acquire`, `alloc` |
| Image encoder | `src/io/ImageFormat.cpp`, `src/io/TIFFFormat.cpp` | `encodeState_`, `numPixelWrites_`, `maxPixelWrites_`, one `Serializer` per worker, the TIFF handle | `init`, `encodeInit`, `encodePixels` (buffers / strip chunks), `encodeFinish`, `close`, `closeThreadSerializers` |
| Serializer and synchronous file I/O | `src/io/Serializer.cpp`, `src/io/FileIOUnix.cpp` | `fd_`, `ownsFileDescriptor_`, `off_`, `numSimulatedWrites_`, `maxSimulatedWrites_`, mode | `open`, `attach`, `write` (vectored or flat), `seek`, `reopenAsBuffered`, `close` |
| io_uring queue | `src/io/FileIOUring.cpp` | a ring, its submissions and completions | `attach`, `write` (`enqueue`), `retrieveCompletion`, `close` |
| Buffers and pools | `src/io/BufferPool.h`, `IFileIO.h`, `RefCounted.h` | a pool per worker, reference counts, the length of a buffer | `get`, `put`, `ref`, `unref`, `alloc` |
| Benchmark driver | `src/iobench.cpp` | options, the concurrency level, the tasks of one image | `main`, `run` |
| Executor | `src/include/taskflow/core` (vendored) | a shared queue of tasks, workers, the event count they sleep on, counters of thieves and active workers, a topology with a promise | constructor, `run`, `wait`, destructor; the workers' loop |
| libtiff, TCLAP | `thirdparty` | vendored | used as libraries |

How they interact: `run()` creates a `TIFFFormat` and a Taskflow executor with a
task for every strip. A task fills the strip's part of the buffers and calls
`encodePixels`, which passes the chunks it was the last to acquire to the
serializer of the executing worker. All these serializers share the main
serializer's file descriptor. The task whose writes bring `numPixelWrites_` to
`maxPixelWrites_` runs `encodeFinish` itself, in the middle of the other tasks:
it lets libtiff write the directory through the main serializer and closes the
rings of *all* workers. libtiff calls back into the main serializer
(`tiffWrite`, `tiffSeek`, `tiffClose`).

### What is hard, and what makes each part correct

* **Layout.** The seams between strips and chunks are recomputed for every strip
  from two neighbours, with special cases for the first strip (8 header bytes),
  the final one, strips smaller than a chunk and aligned seams. Correct: the
  parts tile the file, lengths and share counts are those of the data, one
  vectored write of a strip's chunks at the first one's offset puts each of them
  where it belongs.
* **Sharing.** Two or more threads fill one buffer. Correct: exactly one of them
  writes it, after the last has filled its part.
* **Finishing.** Correct: exactly one worker finishes the file, after all data
  has reached it, and somebody always does.
* **Asynchrony.** Rings have no lock; the finishing worker drains other threads'
  rings. Correct: no owner is in its ring at that time, nothing is under way
  when the descriptor is closed.
* **Failure.** Short and failed writes, failed completions. Correct: what is
  reported as written is written, once.
* **Simulated writes.** libtiff is made to "write" the strips a second time with
  writes that only move an offset; their number decides where the directory goes.
* **Buffers.** A recycled buffer keeps its length, header and bytes, and in
  chunked mode it stays with its old chunk when a pool hands it to a new one.
  Correct: nobody fills a buffer that waits for another chunk's write or that
  the kernel still reads, what is stale never reaches the file, every buffer is
  freed exactly once.
* **Start-up.** The result of `encodeInit` is ignored, the concurrency may be 0
  and the level is a byte. Correct: a run that goes wrong does not look like one
  that went well, and the loop ends.
* **Tasks.** Workers steal from a queue that is being refilled, and go to sleep
  while it is. Correct: every task runs once, no wake-up is lost, and nothing of
  a run is in use once `wait()` has returned and its caller deletes it.

## 2. Modules

| module | what it is |
|---|---|
| `StripGeometry` | the arithmetic of `ImageStripper` and `ChunkInfo`, as operators |
| `ChunkPlan` | the construction of the stripper as a state machine: a step is `generateChunks` of one strip, which creates, shares, extends and trims `IOChunk`s |
| `EncodedFile` | the abstract specification of the encoder: strips are handed over, complete chunks are written once, the directory comes last |
| `ParallelEncode` | the workers, their rings, the kernel and the main thread encoding one image; refines `EncodedFile` |
| `BufferLife` | `ParallelEncode` with the buffers laid over it: allocation, pools, reference counts, the loop over short writes, and the bytes that reach the file |
| `TiffFinish` | `encodeFinish` call by call: reopening, libtiff's simulated header and strips, the end of the simulation, link, arrays and directory, and the size limit of a classic TIFF; extends `StripGeometry` |
| `BenchDriver` | `main` and `run`: options, levels, the five runs of a level, and what fails at start-up |
| `TaskPool` | the abstract specification of the executor: every task is begun by one worker, and the main thread returns when all are over |
| `TaskQueue`, `Notifier` | the executor's shared queue (`tsq.hpp`) and the event count its workers sleep on (`notifier.hpp`) |
| `Executor` | composes the two with the workers' loop, the topology and the main thread; refines `TaskPool` |
| `MCChunkPlan`, `MCTiffFinish`, `MCParallelEncode`, `MCBufferLife`, `MCBenchDriver`, `MCExecutor` | the instances TLC checks |
| `ParallelEncodeProofs` | theorems about `ParallelEncode`: for every value of `MaxPixelWrites`, when the writes are counted right, and when, in addition, the disk never fails; the refinement of `EncodedFile` |
| `BufferProofs` | `BufferLife` takes only steps of `ParallelEncode`, and what it inherits; recycled buffers are not shared, the reference counts are exact, and nothing leaks |
| `BufferFileProofs` | the bytes that reach the file are the right ones |
| `BenchDriverProofs` | theorems about `BenchDriver` for every machine |
| `ExecutorProofs` | theorems about `Executor`: its tasks, the refinement of `TaskPool`, its counters, who sleeps and who is awake |
| `StripGeometryProofs` | lemmas on the arithmetic of `StripGeometry`: division, and where the strips lie |
| `ChunkPlanProofs` | theorems about `ChunkPlan` for images of any size, and that the layout is what `ParallelEncode` assumes |
| `TiffFinishProofs` | theorems about `TiffFinish` for images of any size |

The models meet in three places. `MCParallelEncode` takes strips, chunks and
their sharing from the arithmetic of the layout (`CellsOf`). That the construction
gives each strip these chunks with these share counts is proved of `ChunkPlan`
(`ChunksFollowCells`, `SharesCounted`), and that they are as `ParallelEncode`
assumes is `CellsSuitEncoder`; that they are as the theorem about the bytes of the
file assumes is `CellsMakeFile`. Every step of
`BufferLife` is one of `ParallelEncode` or leaves its variables alone
(`BuffersRefine`). And `ParallelEncode` uses the executor as `TaskPool` says:
`TakeStrip` is a `Begin`, `EndTask` an `End`, and the guard of `MainDrain` that
of `Return`; `Executor` is shown to implement just that.

### How `ParallelEncode` corresponds to the code

A step lies between two operations on shared state. For worker `w`, `pc[w]` is
its place in the task of `run()` (`src/iobench.cpp:69-131`):

| `pc` | code | actions |
|---|---|---|
| `idle` | the executor | `TakeStrip` |
| `fill` | the loop over `StripChunkArray` buffers | `FillStrip` |
| `acquire` | the loop with `acquire()` in `encodePixels(threadId, StripChunkArray*)` | `Acquire` (once per chunk), then `NothingToWrite` or `BeginWrite` |
| `write` | `Serializer::write` | `WriteSync`, `WriteShort`, `WriteFails`, or `Submit` to the ring |
| `reap` | the `while` in `FileIOUring::enqueue` | `Reap`, `EndReap`, `RingGone` |
| `count` | `++numPixelWrites_` per buffer and the test behind the loop | `Count`, `EndCount` |
| `finish` | `encodeFinish` up to `close()` | `BeginFinish` |
| `drain` | `closeThreadSerializers`, `TIFFClose` | `CloseRings`, `Seal` |

`main` is the main thread in `~ImageFormat`. `inflight` and `cq` are a ring: the
requests the kernel has, and the completions the program has not marked as
seen. The kernel (`KernelWrites`, `KernelWritesShort`, `KernelFails`) completes
requests in any order; io_uring itself is not part of the repository and is
modelled from the way it is used (`external` in the map). `aborted` is a failed
`assert` — `CMakeLists.txt` selects no build type, so assertions are compiled
in — or the use of a ring another thread has released.

Buffers are abstracted to which strips have filled their parts (`filled`) and
the file to the set of chunks whose data is in it (`onDisk`).

### How `TiffFinish` corresponds to the code

`ParallelEncode` has one step for all that `encodeFinish` does before
`close()`; `TiffFinish` is that part in detail, with sizes and offsets. It
starts when the last chunk or strip has been handed to the disk. What is
synchronous has been written then, what is asynchronous arrives during any of the
steps. Each piece of the pixels ends up in one of four sets, or is outstanding:

| set | what became of the piece | code |
|---|---|---|
| `landed` | all of it is in the file (`Land`) | |
| `short` | its write was cut short and taken for complete (`LandShort`, and `Init` for synchronous writes) | `retrieveCompletion` looks at the sign of `cqe->res` only; the loop of `FileIOUnix::write` adds up repeated parts |
| `refused` | its request failed; it had been counted when it was submitted (`Refuse`) | `retrieveCompletion` |
| `dropped` | it was under way when the ring was given up behind a failed one, and still may arrive (`ReapRings`) | `FileIOUring::close` leaves its loop |

A synchronous write that is *known* to have failed is asserted and never gets
here (`BenchDriver` has that). `stage` is the next call of libtiff:

| `stage` | code | actions |
|---|---|---|
| `reopen` | `reopenAsBuffered`, `enableSimulateWrite` | `Reopen`, `ReopenFails` |
| `open` | `TIFFClientOpen`: the header, in simulation | `ClientOpen` |
| `strips` | the loop over `TIFFWriteEncodedStrip` | `WriteStrip`, `WriteStripFails`, `EndStrips` |
| `drain` | `closeThreadSerializers` | `CloseRings` |
| `link`, `arrays`, `directory` | `TIFFFlush` in `TIFFClose` | `LinkDirectory`, `WriteArrays`, `WriteDirectory`, `FlushFails` |
| `close` | `tiffClose`, the end of `encodeFinish` | `CloseFile` |
| `returned` | `~ImageFormat` | `Delete` |
| `aborted` | `assert(!fret)` on `fsync`, in each of the three calls of `FileIOUnix::close` | `FsyncFails` |

`Simulate` and `SeekAndWrite` are `FileIOUnix::write`, `Seek` its `seek`. `mode`
says whether the pixels were written directly, asynchronously and in chunks, and
whether the disk may refuse. Strips without chunks are written from recycled
buffers that keep the length they were made with (`bufLen`), so a strip can
spill into the next one; what the extra bytes overwrite is not modelled, only
how far they reach. A short write leaves some of the first bytes of its piece
(`ShortWrites`); in a vector of several chunks those behind the cut get none.

What this lets one promise on a failing disk is less than on a good one.
`DirectoryBehindData` protects the pieces that landed and those that still will
with success (`Sound`). A dropped piece is not among them: the directory
goes to the end of a file that the piece has not reached, and the piece may
arrive on top of it. `Readable` says nothing of a file with a piece that was
refused or cut short, which looks like any other to the program; with none, all
pixels *are* in the file, and that is a consequence of how the rings are closed,
not an assumption of the property.

### How `BufferLife` corresponds to the code

Every action is named after the step of `ParallelEncode` it extends, and
conjoins to it what happens to the buffers; `GetBuffer` and `PwritevAgain` lie
between two of those steps.

| action | code |
|---|---|
| `BufferInit` | `IOChunk`'s constructor: shared chunks have their buffers from the start |
| `GetBuffer` | `getPoolBuffer`, `getStripChunkArray` with `IOChunk::alloc`; `BufferPool::get` |
| `FillStripBuffers` | the task's loop over its buffers |
| `AcquireBuffer` | the `ref()` in `encodePixels(threadId, StripChunkArray*)` |
| `PwritevAgain`, `PwritevLast`, `PwritevFails` | the loop of `FileIOUnix::write`, and `reclaim` behind it |
| `SubmitBuffers`, `KernelReads`, `ReapBuffers` | `enqueue`; the kernel reading the buffers as it answers; the reclaim callback |
| `CloseRingsBuffers` | `FileIOUring::close`: `unref` of what has completed |
| `MainCloseBuffers` | `~ImageFormat`: the pools, then the chunks |

`buf` is every `IOBuf` ever made, `held[c]` the buffer of a chunk (without `-k`,
of a strip), `pool[w]` a pool. `run()` fills a buffer with a pattern that depends
only on the position, so a byte of data is modelled by the position it is meant
for: `file[p]` is `p` when the right byte has arrived, and anything else is a
byte of another place, a stale one or a hole. The kernel may stop at any byte of
a request (`Partial`), as `pwritev` may. `BufferPool::get` takes the first
fitting buffer in the order of addresses; the model takes any.

### How `BenchDriver` corresponds to the code

A state is a point of `main` or `run`. `options` is what `main` makes of the
command line, `hardware` what `hardware_concurrency()` returns; `level` is the
`uint8_t` of the loop. `EncodeInit`, `OpenFails` and `RingFails` are the outcomes
of `encodeInit`. Of the image count only its `Traits`: what in it makes the
outcome of a run different. `ChunkPlan` shows which images are unbuildable or
miscounted, `TiffFinish` which are too large; here they are data.

| trait | consequence |
|---|---|
| `empty` | no strip, no task, nothing is written |
| `wide` | a task without a store overflows its stack (`uint8_t b[len]`) |
| `unbuildable` | `init` of a run with chunks ends at an assertion (`CreateFormat`) |
| `miscounted` | with chunks, `encodeFinish` closes the file one write early (`WriteToClosed`), or its turn never comes (`LoseDirectory`) |
| `huge` | the directory does not fit, and nobody learns of it (`LoseDirectory`) |

The tasks of a run are one step, with every outcome that `ParallelEncode`,
`BufferLife` and `TiffFinish` have for them: `TasksCrash` (no serializers, or a
wide strip), `WriteNothing`, `WriteAll`, `LoseDirectory`, `WriteToClosed`, and
`DiskRefuses`, which either ends the process at one of the assertions (on the
result of `encodePixels`, on `fsync`) or is not noticed and leaves an
`incomplete` file, perhaps an open one, whose `fsync` the destructor may then fail
(`DeleteAborts`). `refused` remembers such a refusal for the rest of the run.

### How `Executor` corresponds to the code

A step lies between two operations on shared state; `pc` names the place.

| actions | code |
|---|---|
| `BecomeThief`, `Explore`, `Steal`, `TakeTask`, `NothingToTake`, `GiveUp`, `Found` | `_wait_for_task`, `_explore_task`, `TaskQueue::steal` |
| `Prepare` to `WakeUp` | the rest of `_wait_for_task`: announce, look again, cancel or commit |
| `Exploit`, `CheckThieves`, `Invoke`, `TearDownInvoke`, `SetPromise`, `TearDownTopology`, `BecomeInactive` | `_exploit_task`, `_invoke`, `_tear_down_invoke`, `_tear_down_topology` |
| `Spawned` to `Join` | the constructor, `run`, `_schedule`, `notify_n`, `wait`, `~Executor` |
| `Wake` | `_unpark`, one sleeper at a time |

iobench submits one graph of tasks without dependencies, so the workers' own
queues stay empty and are left out. Three abstractions: the notifier's epoch is
a sequence of announced threads, whose head is the thread whose turn it is;
memory is sequentially consistent; local variables are reset when their function
ends. A failed look at a queue changes nothing, so the bounded number of tries
before a thief announces itself is any number.

## 3. Runs

| run | instance | question |
|---|---|---|
| `chunk_plan` | `WRTSIZE`=16, header 2, strips of 4 rows; 360 images, 1 to 18 rows of 1 to 20 bytes: strips from far below a chunk to above it | is the layout right for every combination of seams? |
| `chunk_plan_asserts` | the same | *violation*: does an image trip an assertion of the construction? |
| `tiff_finish` | chunks of 16 bytes, header 2, strips of 4 rows, directory 6, a TIFF limit of 64; images of 1 to 9 rows of 1, 3, 5 or 9 bytes, all modes, short writes of 0 or 3 bytes | does libtiff put the directory behind the pixels, with the right offsets, and is it linked? |
| `encode_async` | 2 workers of which both, one or none has a ring, 3 strips of 18 bytes in chunks of 8: both ends shared, chunks of their own in the middle | does the encoder implement `EncodedFile`, is everything on disk and nothing under way when the file is closed, and does it end? |
| `encode_adverse` | `BufferLife`: direct writes of chunks, rings or none, failing and short writes, `maxPixelWrites_` one too small | what remains true of writes, buffers and bytes on a failing disk and when rings are closed under their owners? |
| `buffer_strips` | `BufferLife` without chunks: strips of unequal length, the same disk | does anything stale in a recycled buffer reach the file, and is every buffer freed? |
| `short_write` | `BufferLife`, synchronous writes | *violation*: finding 4 |
| `bench_driver` | machines of 0, 1, 2, 7, 253, 254, 255 and 300 threads, all options, all combinations of traits of the image, a disk that may refuse | which runs are made, why does the program crash, what does a normal exit mean, and does it end? |
| `bench_cycle` | the same | *violation*: finding 5 |
| `executor` | 2 workers, 0 to 3 tasks, a first array of one slot | is every task run once, is no wake-up lost, does the executor end and leave nothing behind? |
| `encode_miscounted` | that image, a perfect disk | *violation*: finding 2 |
| `encode_unwaited` | failing completions | *violation*: finding 3 |

**Bounds.** The program's constants are 32768, 8 and 32. The layout arithmetic
depends only on how strip ends fall relative to multiples of `WRTSIZE` and on
`NominalStripHeight` dividing `WRTSIZE` and exceeding the header
(`GeometryAssumption`), which the small values preserve. The images of
`chunk_plan` include strips inside one chunk with no, one or both neighbours in
it, strips over two and over many chunks, aligned seams, a final strip of one
row, and a single strip. In
`tiff_finish` the images have one to three strips, and their files end on both
sides of the limit, so that the checks of the strips, of the directory and of
its arrays each fail for some image; any of their pieces may be refused, dropped,
or cut short before its first byte or behind its third (`ShortWrites`), which is
past the header of the first one. In the `encode_*` runs two workers suffice
for the races: every one is between two threads at a chunk, a counter or a ring.
The workers without a ring write synchronously, so `encode_async` contains the
synchronous encoder too. A ring of any depth is allowed (`cq` is as long as the
number of chunks). In the `BufferLife` runs a chunk has two bytes (one to
three in `buffer_strips`) and a short write is of one (`ShortWrites`): it ends
inside a chunk, and repeated it adds up to less than, exactly or more than the
vector. `Positions` reaches as far as the longest buffer written at the last
offset. These runs declare the workers symmetric; they have no temporal property,
for which that would be unsound. In `bench_driver` the machines lie on both
sides of the last level a byte can hold. In `executor` three tasks make the
array grow twice, once while thieves hold an index into it, and there are more
and fewer tasks than workers, so both branches of `notify_n` are taken.

**Fairness.** Weak fairness of every worker's steps, of the kernel's answers per
ring, of the closing loop and of the main thread: the executor's threads and the
main thread are never blocked by anything but what their guards say, the program
has no locks outside of Taskflow, and `io_uring_wait_cqe` returns because the
kernel answers every request. Nothing is assumed of which strip a worker gets or
which request the kernel completes first. `Executor` has weak fairness for each worker
and for the main thread, since the operating system runs every thread that is not
blocked; nothing is assumed of who wins a compare-and-exchange. A worker may look
at an empty queue for ever only if it never announces itself, and the code bounds
its tries. `BenchDriver` has weak fairness of its one thread; that the tasks of a
run end is what `Completes` says.

**Deadlock.** Checked everywhere: `Stopped` is the only step of a program that
has ended or aborted (`BufferStopped` and `Ended` in the other modules), so a
state in which everyone waits would be reported.

## 4. Proofs

### The encoder

These are about `ParallelEncode` under `EncodeAssumption`: finitely many
strips and chunks, each strip with a chunk and each chunk with a strip; no bound
on workers, any sharing, rings or none.

| theorem | statement | `MaxPixelWrites` | disk |
|---|---|---|---|
| `TypeCorrect` | `Spec => []TypeOK` | any | any |
| `WrittenOnce` | `Spec => []WriteOnce` | any | any |
| `NeverTorn` | `Spec => []NoTornChunk` | any | any |
| `FinishedOnce` | `Spec => []FinishOnce` | any | any |
| `WrittenAsOne` | `Spec => []OneVector`, assuming `Runs` | any | any |
| `RingsOwned` | `Spec => []RingOwnership` | the number of chunks | any |
| `NeverAborts` | `Spec => []EncodePixelsSucceeds` | the number of chunks | never fails |
| `NothingUnderWay` | `Spec => []CloseWaits` | the number of chunks | never fails |
| `DirectoryLast` | `Spec => []DirectoryAfterData` | the number of chunks | never fails |
| `Final` | `Spec => SealedIsFinal` | the number of chunks | never fails |
| `Implementation` | `Spec => ImplementsFile` | the number of chunks | never fails |

`Runs` says of the division into chunks that a chunk between two chunks of a
strip is that strip's alone. It is a fact about the layout: `CellsSuitEncoder`
proves it for every image, and TLC evaluates it for the image of every run
(`PlanAssumption`).

The last column but one is no weakness of the proofs: `encode_miscounted` shows
the program fail with a smaller number, `encode_unwaited` that `CloseWaits` needs
the perfect disk.

None but `TypeOK` is inductive. The argument goes in layers, each proved
inductive with the help of those below it:

1. `TypeInv`: types, and a worker has a strip iff it is not idle.
2. `Ownership`: a strip is with at most one worker, and is pending before; what
   is still `todo` lies in the worker's strip; a strip behind `fill` is filled.
3. `AcquireCounted`: `acquireCount[c]` is the number of sharers that have passed
   the chunk (`Passed(c)`), a finite set inside `Sharers(c)`. `PassedAcquire`
   shows that an acquire adds exactly one strip to it.
4. `Gathered`: who has a chunk in its batch came when the count met the share
   count, so `Passed(c) = Sharers(c)`; batches are disjoint; a chunk was handed
   out at most once, and is not again, for then nobody is left to acquire it.
5. `Counting`: the values the increments returned are different, and below the
   counter; a worker that finishes got `MaxPixelWrites`.
6. `OrderInv`: the counter is the number of chunks that are written, or
   submitted, and in nobody's batch (`Settled`); past its wait the main thread
   is alone.
7. `FlowInv`: nobody finds its ring or the file closed
   (`Alive`); the requests of the open rings are disjoint and none of their
   chunks is on disk (`Requests`); no completion is a failure (`Completions`); a
   chunk handed to a write is under way or on disk, and rings are closed before
   the file (`Arrived`).

`WriteOnce` follows from 4, `NoTornChunk` from 4 and 2 (a strip that has passed
the chunk has filled its part), `FinishOnce` from 5. With `MaxPixelWrites` the
number of chunks, `FinishLast` concludes from 6 that who finishes has every
chunk settled, so no batch is left that anybody could be writing: `RingOwnership`.
Nor is there a late write, which would find the file closed (`NoLateWrite`), so
7 is inductive: `PerfectKinds` leaves the steps that cannot fail. From 6 and 7
follow that all data is there when the rings are closed (`DataComplete`), and the
step simulation: a `WriteSync` or a completed request is a `WriteChunks`, `Seal`
a `Seal`, `FillStrip` a `HandOver`. That `sealed` leaves nothing to fill needs
that each strip has a chunk: it is written, so the strip has been filled.
Which images have that number is the subject of `ChunksCounted`.

`OneVector` has an invariant of its own, `OwnInBatch`: until its write, a worker's
batch lies within its strip and has every chunk of the strip that it has come to
and that no other strip shares.

### The buffers

`BuffersRefine` shows that whatever the pools, the counts and the repeated
`pwritev` do, a step of `BufferLife` is a step of `ParallelEncode` or a stutter
(all but its fairness, which `BufferSpec` does not claim). So the invariants of
the layers 1 to 5 hold there, and `BufferedWrites` states what follows from them.

`NoSharedBuffer` (`NoAliasing`) assumes nothing of the number of threads, the
layout or the lengths of the buffers. Its inductive invariant, `AliasInv`, adds
two parts to the layers 1 to 4:

1. `Tracked`: the requests of an open ring, answered or not, have no chunk in
   common, nor with another ring or with what a closed ring has lost
   (`dropped`); what is under way was handed to a write. It speaks of open
   rings only, since the requests of a closed one are both lost and still with
   the kernel.
2. `PoolInv`: `buf` stays a sequence, so that a new buffer is really new; pools
   are disjoint; and `NoAliasing` with `Claimed` for busy.

Chunks only ever stop being claimed (`ClaimsShrink`): one is so until it is
handed to a write, and then until its answer is seen. Then only three kinds of
steps matter. `GetPool` takes a buffer from the worker's own pool, and so from
no other one and from no claimed chunk. `ReclaimPool` puts buffers into a pool of
which no claimed chunk is left: after a synchronous write by layer 4, after a
reaped request by `Tracked`. All the others put nothing into a pool and give no
chunk a buffer (`PoolQuiet`).

`ReferencesCounted` (`RefsExact`) adds three parts to it (`RefInv`):

1. `Lost`: of a closed ring nothing is under way that is not in `dropped`, so
   that the late answers of the kernel give no reference back.
2. `MainLast`, of `ParallelEncodeProofs`: the chunks give their references up
   (`~ImageFormat`) when no worker can take a buffer any more.
3. `RefsInv`: the count of a buffer is its `Tally`, which counts pools and writes
   as 0 or 1. By `PoolInv` this is what `RefsExact` says (`TallyHolders`), and
   each step moves the tally by at most one: the sum of the effects of a
   step on pools, owners and writes is what it does to the count (`GetRefs`,
   `ReclaimRefs`, `UnrefRefs`, `AcquireRefs`, `CloseRefs`, `QuietRefs`). Only the
   owners are really counted: with `-k` there may be many.

The lemmas on `Passing`, the chunks that are passed to a write and not given
back, connect it to the steps: it grows when a chunk is acquired, shrinks when a
synchronous write ends or an answer is seen, and a submission moves chunks
within it.

`NothingLeaks` (`NoLeak`) needs to know that nothing is left at the end
(`LeakInv`): every chunk whose strips have all passed it is in a batch or
written (`NotForgotten`), so when the main thread goes on all are written
(`AllIssued`); without `-k` a chunk has a buffer only while it waits
(`Temporary`); and a deleted encoder has neither rings nor pools (`Emptied`).
What is under way then is under way in a closed ring, and `Lost` says where.

`BytesRight` (`FileBytes`) assumes `FileLayout`, which says how chunks lie in a
file: they follow each other to the end of the data, all but the last have the
length they are allocated with if the disk is written with `O_DIRECT`, and every byte
of a chunk lies in a strip that shares it; without `-k` each strip is a chunk.
`CellsMakeFile` proves this of every image, and TLC evaluates it for the images of
the runs (`LayoutAssumption`). Nothing is assumed of threads, pools, rings, the disk
or the lengths that a `pwritev` returns. `FileInv`, the inductive invariant, adds to
`AliasInv` and `OwnInBatch`:

1. `ByteInv`: every buffer, in a pool or not, has the shape it was allocated with
   (`Shaped`), and one that belongs to a chunk waiting for its write is set up for it
   (`Prepared`): its offset, its length or at least as much, the header in front of
   strip 0, and in it every byte of every strip that has been filled. A recycled
   strip buffer may well be longer than its strip.
2. `HasBuffer`: a chunk has its buffer from the time one of its strips is filled.
   With layer 4 this makes the chunks of a batch `Ready`.
3. `RunInv`: what a request carries is one vector (`Contiguous`), by `OneVector`.
4. `LoopInv`: what the earlier calls of a `pwritev` loop have reached is in the
   file. A short write counts the chunks that the furthest call has covered.

A vector of ready buffers holds the bytes of the file from the offset of its first
buffer on (`VectorByteIs`), so a write that ends anywhere is right as far as it gets
(`FirstWritten`), and a chunk within its length is complete (`ChunkWithin`). This
rests on what the sums of lengths come to (`BeforeIs`): adding an element to a set adds
its summand (`SumAdd`). The sum is defined by a fold over a set in an order that
`CHOOSE` makes; that it does not depend on the order is shown without induction, by
counting `Bricks` and taking a smallest set for which the fold and the count differ
(`SumIs`). That a write never takes an unready chunk is `WritingReady` and
`InflightReady`: no one else has its buffer (`NoAliasing`), and it stays prepared as
long as the kernel may read it: a worker sets up only a buffer that no waiting chunk
has (`GetBytes`), filling a strip puts the right bytes into its own (`FillBytes`), and
the other steps leave them alone (`QuietBytes`).

### The driver

`BenchDriver`, for every set of machines and of concurrencies.
`AllLevelsRun` (`EndsAfterAll`) rests on `Progress`: what has been tested is what
lies before the present level and test (`Before`), the level is even and at most
two beyond the machine, and it is 0 only after 254 of 254. `CrashesOnlyThen`
(`CrashesExplained`) and `NormalExits` (`NormalExitIsSuccess`) rest on `RunInv`:
`RunState` relates the descriptors and the serializers to the place in the run,
`FileState` says when the last run has left a complete file, `Crash` which crashes
are possible in which kind of run, and `Halts` how far a full run comes that
cannot get past its first or its fourth test; with `Progress` this is the set of
runs it has made by then. Both properties speak of the runs that the disk did not
refuse anything: the converse, that a refusal goes unnoticed, is what the code does
and is no property. (`BenchTypeCorrect` is the type layer.)

### The executor

For any finite set of workers, any number of tasks and any first capacity
(`ExecutorAssumption`, `QueueAssumption`). `IInv`, the inductive invariant of
`ExecutorProofs`, has four layers:

1. `Shape`: the types.
2. `QueueInv`: index `i` of the queue holds task `i + 1`, in whatever array
   (`PushKeeps`: a push that replaces the array keeps every live item where
   thieves look for it, by arithmetic modulo the two sizes); an item a thief has
   read is the one at the top if the top is still the index it has read. So a
   compare-and-exchange that succeeds takes the right item although the array may
   have been replaced since.
3. `HandInv`: tasks in hand differ from worker to worker, lie below the top, and
   have not run before `invoke` and once after; a task below the top has run or
   is in a hand.
4. `JoinInv`: `joinCounter` is the number of tasks that are not torn down
   (`Open`), whose value 1 therefore only the last one reads; so one worker sets
   the promise, when no task is left.

`NothingUsed` (`NothingUsedAfterWait`) follows from 3 and 4. `ExecutorIsPool`
(`ImplementsPool`) maps a successful `TakeTask` to `Begin`, `TearDownInvoke` to
`End`, `Wait` to `Return` and everything else to a stutter. To keep the
case analysis small, `StepKinds` first sorts the steps by what they do to these
variables: most only move a worker among places where it has no task.
`ExecutorTypeCorrect` adds `RunInv` (one topology between `run` and its end) and
`CountInv` (`numThieves` and `numActives` are the numbers of workers at certain
places), so the counters never leave `0 .. Cardinality(Workers)`.

The notifier needs three more parts:

1. `SleepInv`: the announced threads, the stack of sleepers and the lists of
   threads that are being woken hold workers, none of them twice; a thread is
   announced only between `prepare_wait` and its decision; and a worker is parked
   without a signal exactly when it is on the stack or on one list, of one
   waker.
2. `JoinedInv`: the main thread has exited only when every worker has.
   `QuietWhenDestroyed` (`QuietAtEnd`) follows: at their exits workers are
   neither asleep nor announced, and by `CountInv` they are counted nowhere.
3. `AwakeInv`: once the main thread has notified for its first task, and while
   the queue holds one, it is about to wake somebody, or some worker is awake
   (`Awake`). `Busy`, when this holds, includes the later notifications, where
   `NoLostWakeUp` begins only with the wait. The first notification makes somebody
   awake: it releases an announced worker, or picks a sleeper, or there is
   neither, and then nobody is asleep. A worker that is awake stays so while
   there is a task (`AwakeSelf`): it looks at the queue once more after it has
   announced itself. What other threads do can only wake it.

### The layout

`ChunkPlan`, for images of any size and every choice of the constants
(`GeometryAssumption`). The file is divided into cells of `WRTSIZE` bytes; strip
`s`, the header included in strip 0, reaches from `Begin` to `End`, through the
cells `FirstCell` to `LastCell`. The argument has four stages:

1. Seams. A strip that is not the final one holds a multiple of
   `NominalStripHeight` bytes. That number divides `WRTSIZE` and exceeds the header,
   so the end of such a strip is never aligned (`SeamsUnaligned`): two
   neighbours always meet inside a cell (`CellsOfStrip`), and it is the only one
   they have in common, since the ends grow (`EndsGrow`).
2. `ChunkInfo` (`ChunkInfoIs`) and `numChunks()` (`NumChunksIs`) in terms of cells.
3. `generateChunks` of one strip, given the chunks of the strips before it
   (`PlanIs`): the parts are those of the strip's cells (`PartsAt`), chunk `c` is
   cell `c - 1`, with the length `LenAfter` and one sharer more at each seam. There
   is a case for each way the code goes: a strip inside one cell
   (`SingleFirst`, `SingleNext`) or over several (`ManySeam`, `ManyInner`,
   `ManyLast`). If the strip ends on a boundary, and is not the only one in the
   only cell, an assertion fails (`PlanFails`, `ManyEmpty`). That the parts add
   up to the strip's length (`PlanValid`) is about a recursive function, and
   needs no induction: of two functions with the same equations the smallest
   place at which they differ does not exist (`TotalIs`).
4. `PlanInv`, the inductive invariant: the parts of the strips built so far are
   those of stage 3, the chunks are the cells up to the last one
   (`ChunksBuilt`), their share count is the number of parts in them (`PartIds`),
   and one more for the strip to come in the last of them; and the construction
   has aborted only where stage 3 says so.

The properties are read off `PlanInv`: the share count promised to a next
strip is redeemed when it comes, so at the end it is exact (`SharesCounted`); the
length of a chunk is that of its furthest part because every chunk but the last
is filled to its end by some strip (`SomeFillsCell`).

`CellsSuitEncoder` has nothing to do with the construction: it says that the cells
of an image meet `EncodeAssumption` and `Runs`, on which the theorems about
`ParallelEncode` rest, and that their number is `numUniqueChunks()` unless the
header needs one more. So those theorems apply to the chunks of every image.
`CellsMakeFile` does the same for `FileLayout`: cells of `WRTSIZE` bytes, the last
cut at the end of the data, each byte of which is written by the first strip that ends
behind it (`SomeWritesByte`); and without `-k` the strips as they are.

### The directory

`TiffFinish`, for images of any size, every way of writing, and pieces that arrive
in any order. `FinishInv` has four parts, inductive together:

1. `InputsOK`: the image, the mode and the lengths of the recycled buffers.
2. `SimInv`: the position of the simulated file and the number of its writes, by
   stage; among the strips, the position is the offset of the next strip
   and the number of writes the number of strips done, so that the
   simulation ends with the last one.
3. `PlaceInv`: what has landed lies within the size of the file; behind the
   draining of the rings whatever is still outstanding was dropped, and nothing is
   dropped unless a request was refused; so once the directory has its place it is
   behind every sound piece.
   While no piece was refused or cut short (`Clean`), the size is exactly the end of
   what has landed (`EndOfAll`).
4. `DirectoryInv`: as long as the file is `Clean`, the directory's place
   (`DirectoryPlace`) is the even end of the last piece; which parts of the
   directory lie where, by stage; whether it fits (`Fits`) below the limit of a
   classic TIFF; and that on a disk that refuses nothing it is missing only if it
   does not.

`StripsFound` and `SimulationEnds` are in `SimInv`; `PixelsUntouched` combines 3
and 4, `FileReadable` and `LostOnlyAtLimit` are read off 4. The lemmas below are
about arithmetic: `StripsFollow` (a strip begins where the one before it ends, and
none ends behind the image), `LargestIs` (what `EndOfAll`, a `CHOOSE` of a largest
element, is: a set of naturals with a bound has one by well-foundedness), and
`ExceedsIs` (the check of libtiff, which computes modulo 2^32, fails exactly at the
limit). `CleanBefore` says that a file that is clean after a step was clean before
it, `AllLanded` that in a clean file behind the rings nothing is missing, and
`ShortEnds` that a write cut short does not reach beyond its piece.

### Only model-checked

Liveness (`Completes`, `AllJoined`, `Terminates`), out of the proof system's
reach. Every invariant and every action property of a passing run, and both
refinements, are proved. What each theorem assumes of the constants is evaluated by
TLC in the runs.

## 5. Findings

1. `chunk_plan_asserts`: when header and pixels end exactly on a chunk boundary
   the final strip gets an empty last range (`ImageStripper.h:130-133`), and
   the assertions of the construction fail. By `ConstructionSucceeds` it is the
   only case, for images of any size; by `PlanFails` it always fails then, unless
   the whole file is one full chunk of one strip.
2. `encode_miscounted`: `numUniqueChunks()` forgets the header, so
   `maxPixelWrites_` can be one too small and the file is finished one write
   early. `ChunksCounted` proves that this happens only when the header needs a
   chunk more.
3. `encode_unwaited`: after a failed completion `FileIOUring::close` does not
   wait for the requests behind it. `encodeFinish` goes on, so that the directory may
   come to lie in front of or under pixels that arrive later (the `dropped` pieces
   of `TiffFinish`), and the run ends like one that succeeded (`DiskRefuses` of
   `BenchDriver`).
4. `short_write`: `FileIOUnix::write` repeats a short `pwritev` with the same
   vector at the same offset and adds the results up. When they add up to the
   length of the vector, a write whose end never reached the file is reported as
   complete. `FileBytes` shows that it writes no wrong byte, `FinishOnce` that
   the count of writes survives.
5. `bench_cycle`: the loop over the levels has a `uint8_t` for its variable. On a
   machine of 254 threads or more the level after 254 is 0, for which the
   executor's constructor throws. With 256 or more, the levels from 256 on are
   never run. `CrashesExplained` shows in which other ways a run can crash, and that
   the loop itself has no other.

## 6. Not modelled

* Time, output and the contents of pixels: not properties of interest. The
  32-bit product `width * numComps`: a wrapped product is only another width.
* The capacity of a ring's two queues, and what the kernel does when they
  overflow: that behaviour is liburing's and the kernel's, not in this source.
* Of Taskflow: dependencies, subflows, conditions, semaphores, pipelines, async
  tasks, observers, repeated and cancelled runs, `executor-module-opt.hpp`;
  iobench uses none of them. Memory orders weaker than sequential consistency,
  which the fences in `tsq.hpp` and `notifier.hpp` are there to exclude and which
  an interleaving model cannot express.
* Of libtiff: everything but the calls for a file that is written once
  (`TiffFinish`). Its readers, codecs and image conversions make up most of the
  source tree by size, and iobench never reaches them: no definition of these
  models could be translated from them.
* TCLAP and the timer: a parser and a stopwatch.
