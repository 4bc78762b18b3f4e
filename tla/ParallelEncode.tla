--------------------------- MODULE ParallelEncode ---------------------------
(***************************************************************************)
(* Encoding an image in parallel (src/src/iobench.cpp, io/ImageFormat.cpp, *)
(* io/FileIOUnix.cpp, io/FileIOUring.cpp, io/TIFFFormat.cpp).              *)
(*                                                                         *)
(* Every strip is a task of a thread pool.  A worker fills its strip's     *)
(* parts of the chunk buffers, then acquires each chunk: the last of the   *)
(* strips that share a chunk to do so gets to write it.  What a worker     *)
(* acquired it writes with one vectored write, either synchronously        *)
(* (pwritev) or through an io_uring of its own, and counts.  The worker    *)
(* whose count reaches maxPixelWrites_ finishes the file: it waits for the *)
(* rings of all the workers, writes the TIFF directory and closes the file.*)
(* The main thread waits for all tasks and then deletes the TIFFFormat.    *)
(*                                                                         *)
(* A step is what lies between two operations on shared state: the atomic  *)
(* counters acquireCount_ and numPixelWrites_, the file and the rings.     *)
(* Without chunks (-k not given) a strip is a chunk of its own: Chunks is  *)
(* Strips then.  The contents of the buffers are abstracted to which       *)
(* strips have filled their parts.                                         *)
(***************************************************************************)
EXTENDS Naturals, Sequences, FiniteSets

CONSTANTS
  Workers,         \* threads of the executor (concurrency_)
  Strips,          \* strips of the image
  Chunks,          \* chunks of the file, numbered in file order
  ChunksOf,        \* the chunks each strip has a part of
  MaxPixelWrites,  \* maxPixelWrites_
  Async,           \* whether the workers' rings are active
  IOErrors,        \* whether a write to the file may fail or fall short
  NoStrip          \* the strip of a worker that has none

ASSUME EncodeAssumption ==
  /\ IsFiniteSet(Strips) /\ NoStrip \notin Strips
  /\ Chunks \subseteq Nat /\ IsFiniteSet(Chunks)
  /\ ChunksOf \in [Strips -> SUBSET Chunks]
  /\ \A c \in Chunks : \E s \in Strips : c \in ChunksOf[s]
  /\ \A s \in Strips : ChunksOf[s] # {}
  /\ MaxPixelWrites \in Nat \ {0}
  /\ Async \in BOOLEAN /\ IOErrors \in BOOLEAN

Sharers(c) == { s \in Strips : c \in ChunksOf[s] }

(* Mutant: the neighbour on the right is not counted. *)
ShareCountOfFirst(c) == 1

(* Mutant: every chunk counts as shared by two strips. *)
ShareCountTwo(c) == 2

(* Mutant: a strip is counted twice. *)
ShareCountOneMore(c) == Cardinality(Sharers(c)) + 1

(* shareCount_: see ChunkPlan!ShareCountExact. *)
ShareCount(c) == Cardinality(Sharers(c))

VARIABLES
  pending,         \* strips whose task no worker has started
  strip, pc,       \* per worker: its strip, and where it is in the task
  todo,            \* per worker: chunks of its strip still to be acquired
  batch,           \* per worker: chunks acquired and not yet counted
  writes,          \* per worker: the local variable of encodePixels
  acquireCount,    \* acquireCount_ of every chunk
  filled,          \* strips whose parts of the chunk buffers are filled
  issued,          \* per chunk: how often it was handed to a write
  numPixelWrites,
  ringsOpen,       \* workers whose ring is active
  inflight,        \* per ring: the chunks of every request under way
  cq,              \* per ring: completions not yet seen, TRUE for a success
  onDisk,          \* chunks whose data is in the file
  fdOpen,          \* the file descriptor the workers share is open
  sealed,          \* the directory is written (IMAGE_FORMAT_ENCODED_PIXELS)
  main,            \* the main thread: "wait", "drain" or "closed"
  aborted          \* an assertion failed, or a thread used a dead ring

workerVars == <<strip, todo, batch, writes>>
bufferVars == <<pending, acquireCount, filled>>
ringVars   == <<ringsOpen, inflight, cq>>
fileVars   == <<onDisk, fdOpen, sealed>>

vars == <<pc, workerVars, bufferVars, issued, numPixelWrites, ringVars,
          fileVars, main, aborted>>

Init ==
  /\ pending = Strips
  /\ strip = [w \in Workers |-> NoStrip]
  /\ pc = [w \in Workers |-> "idle"]
  /\ todo = [w \in Workers |-> {}]
  /\ batch = [w \in Workers |-> {}]
  /\ writes = [w \in Workers |-> 0]
  /\ acquireCount = [c \in Chunks |-> 0]
  /\ filled = {}
  /\ issued = [c \in Chunks |-> 0]
  /\ numPixelWrites = 0
  /\ ringsOpen \in IF Async THEN SUBSET Workers ELSE {{}}
  /\ inflight = [w \in Workers |-> {}]
  /\ cq = [w \in Workers |-> <<>>]
  /\ onDisk = {} /\ fdOpen = TRUE /\ sealed = FALSE
  /\ main = "wait" /\ aborted = FALSE

Goto(w, place) == pc' = [pc EXCEPT ![w] = place]

IsLeast(c, S) == c \in S /\ \A d \in S : c <= d

(* Mutant: the worker goes on without a strip. *)
EndTaskAndFill(w) ==
  /\ Goto(w, "fill")
  /\ strip' = [strip EXCEPT ![w] = NoStrip]

(* The task of worker w is over. *)
EndTask(w) ==
  /\ Goto(w, "idle")
  /\ strip' = [strip EXCEPT ![w] = NoStrip]

-----------------------------------------------------------------------------
(* The task of a strip *)

(* The executor gives a strip to an idle worker; the tasks are unordered.  *)
(* getStripChunkArray allocates the buffers the strip does not share.      *)
TakeStrip(w, s) ==
  /\ pc[w] = "idle" /\ s \in pending
  /\ pending' = pending \ {s}
  /\ strip' = [strip EXCEPT ![w] = s]
  /\ todo' = [todo EXCEPT ![w] = ChunksOf[s]]
  /\ Goto(w, "fill")
  /\ UNCHANGED <<batch, writes, acquireCount, filled, issued, numPixelWrites,
                 ringVars, fileVars, main, aborted>>

FillStrip(w) ==
  /\ pc[w] = "fill"
  /\ filled' = filled \cup {strip[w]}
  /\ Goto(w, "acquire")
  /\ UNCHANGED <<workerVars, pending, acquireCount, issued, numPixelWrites,
                 ringVars, fileVars, main, aborted>>

(* Mutant: acquire() is true one increment early, and from then on. *)
AcquireEarly(w) ==
  /\ pc[w] = "acquire"
  /\ \E c \in todo[w] :
       /\ IsLeast(c, todo[w])
       /\ todo' = [todo EXCEPT ![w] = @ \ {c}]
       /\ acquireCount' = [acquireCount EXCEPT ![c] = @ + 1]
       /\ batch' = IF acquireCount[c] + 2 >= ShareCount(c)
                   THEN [batch EXCEPT ![w] = @ \cup {c}] ELSE batch
  /\ UNCHANGED <<pc, strip, writes, pending, filled, issued, numPixelWrites,
                 ringVars, fileVars, main, aborted>>

(* encodePixels of a StripChunkArray: one round of the loop over the       *)
(* chunks.  acquire() is true for the caller whose increment brings the    *)
(* count to the share count.                                               *)
Acquire(w) ==
  /\ pc[w] = "acquire"
  /\ \E c \in todo[w] :
       /\ IsLeast(c, todo[w])
       /\ todo' = [todo EXCEPT ![w] = @ \ {c}]
       /\ acquireCount' = [acquireCount EXCEPT ![c] = @ + 1]
       /\ batch' = IF acquireCount[c] + 1 = ShareCount(c)
                   THEN [batch EXCEPT ![w] = @ \cup {c}] ELSE batch
  /\ UNCHANGED <<pc, strip, writes, pending, filled, issued, numPixelWrites,
                 ringVars, fileVars, main, aborted>>

(* The strip has nothing to write: another strip will write its chunks. *)
NothingToWrite(w) ==
  /\ pc[w] = "acquire" /\ todo[w] = {} /\ batch[w] = {}
  /\ EndTask(w)
  /\ UNCHANGED <<todo, batch, writes, bufferVars, issued, numPixelWrites,
                 ringVars, fileVars, main, aborted>>

BeginWrite(w) ==
  /\ pc[w] = "acquire" /\ todo[w] = {} /\ batch[w] # {}
  /\ writes' = [writes EXCEPT ![w] = 0]
  /\ Goto(w, "write")
  /\ UNCHANGED <<strip, todo, batch, bufferVars, issued, numPixelWrites,
                 ringVars, fileVars, main, aborted>>

Issue(w) ==
  issued' = [c \in Chunks |-> IF c \in batch[w] THEN issued[c] + 1
                                                ELSE issued[c]]

(* FileIOUnix::write without an active ring.  A ring that has been closed  *)
(* is not active: a late write comes here, too.                            *)
WriteSync(w) ==
  /\ pc[w] = "write" /\ w \notin ringsOpen /\ fdOpen
  /\ Issue(w)
  /\ onDisk' = onDisk \cup batch[w]
  /\ Goto(w, "count")
  /\ UNCHANGED <<workerVars, bufferVars, numPixelWrites, ringVars, fdOpen,
                 sealed, main, aborted>>

(* pwritev writes less than asked, and is repeated with the same buffers at *)
(* the same offset: the counts can add up to the size of the batch although *)
(* its chunks from c on are not all in the file.                           *)
WriteShort(w) ==
  /\ pc[w] = "write" /\ w \notin ringsOpen /\ fdOpen /\ IOErrors
  /\ Issue(w)
  /\ \E c \in batch[w] : onDisk' = onDisk \cup { d \in batch[w] : d < c }
  /\ Goto(w, "count")
  /\ UNCHANGED <<workerVars, bufferVars, numPixelWrites, ringVars, fdOpen,
                 sealed, main, aborted>>

(* pwritev fails, or the file is closed already: encodePixels is false and *)
(* the caller's assertion fails.                                           *)
WriteFails(w) ==
  /\ pc[w] = "write" /\ w \notin ringsOpen
  /\ IOErrors \/ ~fdOpen
  /\ Issue(w)
  /\ aborted' = TRUE
  /\ UNCHANGED <<pc, workerVars, bufferVars, numPixelWrites, ringVars,
                 fileVars, main>>

(* FileIOUring::enqueue: submit one request, *)
Submit(w) ==
  /\ pc[w] = "write" /\ w \in ringsOpen
  /\ Issue(w)
  /\ inflight' = [inflight EXCEPT ![w] = @ \cup {batch[w]}]
  /\ Goto(w, "reap")
  /\ UNCHANGED <<workerVars, bufferVars, numPixelWrites, ringsOpen, cq,
                 fileVars, main, aborted>>

(* and return the buffers of the completions that are there already.       *)
Reap(w) ==
  /\ pc[w] = "reap" /\ w \in ringsOpen
  /\ cq[w] # <<>> /\ Head(cq[w])
  /\ cq' = [cq EXCEPT ![w] = Tail(@)]
  /\ UNCHANGED <<pc, workerVars, bufferVars, issued, numPixelWrites,
                 ringsOpen, inflight, fileVars, main, aborted>>

(* A failed completion ends the loop, is not marked as seen, and so stays  *)
(* at the head of the queue.                                               *)
EndReap(w) ==
  /\ pc[w] = "reap" /\ w \in ringsOpen
  /\ cq[w] # <<>> => ~Head(cq[w])
  /\ Goto(w, "count")
  /\ UNCHANGED <<workerVars, bufferVars, issued, numPixelWrites, ringVars,
                 fileVars, main, aborted>>

(* Another thread has closed and cleared the ring meanwhile.               *)
RingGone(w) ==
  /\ pc[w] = "reap" /\ w \notin ringsOpen
  /\ aborted' = TRUE
  /\ UNCHANGED <<pc, workerVars, bufferVars, issued, numPixelWrites, ringVars,
                 fileVars, main>>

(* encodePixels of the buffers: one atomic increment for every buffer,     *)
Count(w) ==
  /\ pc[w] = "count"
  /\ \E c \in batch[w] :
       /\ IsLeast(c, batch[w])
       /\ batch' = [batch EXCEPT ![w] = @ \ {c}]
  /\ numPixelWrites' = numPixelWrites + 1
  /\ writes' = [writes EXCEPT ![w] = numPixelWrites + 1]
  /\ UNCHANGED <<pc, strip, todo, bufferVars, issued, ringVars, fileVars,
                 main, aborted>>

(* Mutant: the worker finishes the file one write early. *)
EndCountEarly(w) ==
  /\ pc[w] = "count" /\ batch[w] = {}
  /\ IF writes[w] + 1 = MaxPixelWrites
     THEN Goto(w, "finish") /\ UNCHANGED strip
     ELSE EndTask(w)
  /\ UNCHANGED <<todo, batch, writes, bufferVars, issued, numPixelWrites,
                 ringVars, fileVars, main, aborted>>

(* Mutant: every count from the last one on finishes the file. *)
EndCountAtLeast(w) ==
  /\ pc[w] = "count" /\ batch[w] = {}
  /\ IF writes[w] >= MaxPixelWrites
     THEN Goto(w, "finish") /\ UNCHANGED strip
     ELSE EndTask(w)
  /\ UNCHANGED <<todo, batch, writes, bufferVars, issued, numPixelWrites,
                 ringVars, fileVars, main, aborted>>

(* and a look at the value the last of them returned.                      *)
EndCount(w) ==
  /\ pc[w] = "count" /\ batch[w] = {}
  /\ IF writes[w] = MaxPixelWrites
     THEN Goto(w, "finish") /\ UNCHANGED strip
     ELSE EndTask(w)
  /\ UNCHANGED <<todo, batch, writes, bufferVars, issued, numPixelWrites,
                 ringVars, fileVars, main, aborted>>

-----------------------------------------------------------------------------
(* TIFFFormat::encodeFinish and close *)

(* Up to close(): the file is reopened, the header encoded, and the strips *)
(* are written in simulation, which leaves the file's data alone.          *)
BeginFinish(w) ==
  /\ pc[w] = "finish"
  /\ IF sealed THEN EndTask(w) ELSE Goto(w, "drain") /\ UNCHANGED strip
  /\ UNCHANGED <<todo, batch, writes, bufferVars, issued, numPixelWrites,
                 ringVars, fileVars, main, aborted>>

(* Some thread is in closeThreadSerializers. *)
Closing == main = "drain" \/ \E w \in Workers : pc[w] = "drain"

(* FileIOUring::close of ring v: wait for one completion after the other,  *)
WaitCompletion(v) ==
  /\ cq[v] # <<>> /\ Head(cq[v])
  /\ cq' = [cq EXCEPT ![v] = Tail(@)]
  /\ UNCHANGED <<ringsOpen, inflight>>

(* Mutant: the ring is released with requests under way. *)
ExitRingAtOnce(v) ==
  /\ ringsOpen' = ringsOpen \ {v}
  /\ cq' = [cq EXCEPT ![v] = <<>>]
  /\ UNCHANGED inflight

(* and release the ring when there are no more, or at the first failure:   *)
(* what was still under way is nobody's concern then.                      *)
ExitRing(v) ==
  /\ IF cq[v] = <<>> THEN inflight[v] = {} ELSE ~Head(cq[v])
  /\ ringsOpen' = ringsOpen \ {v}
  /\ cq' = [cq EXCEPT ![v] = <<>>]
  /\ UNCHANGED inflight

CloseRings ==
  /\ Closing
  /\ \E v \in ringsOpen : WaitCompletion(v) \/ ExitRing(v)
  /\ UNCHANGED <<pc, workerVars, bufferVars, issued, numPixelWrites,
                 fileVars, main, aborted>>

(* TIFFClose writes the directory at the end of the file and closes it.    *)
Seal(w) ==
  /\ pc[w] = "drain" /\ ringsOpen = {}
  /\ sealed' = TRUE /\ fdOpen' = FALSE
  /\ EndTask(w)
  /\ UNCHANGED <<todo, batch, writes, bufferVars, issued, numPixelWrites,
                 ringVars, onDisk, main, aborted>>

(* The main thread: all tasks are done, ~ImageFormat closes what is open.  *)
MainDrain ==
  /\ main = "wait" /\ pending = {} /\ \A w \in Workers : pc[w] = "idle"
  /\ main' = "drain"
  /\ UNCHANGED <<pc, workerVars, bufferVars, issued, numPixelWrites, ringVars,
                 fileVars, aborted>>

MainClose ==
  /\ main = "drain" /\ ringsOpen = {}
  /\ main' = "closed" /\ fdOpen' = FALSE
  /\ UNCHANGED <<pc, workerVars, bufferVars, issued, numPixelWrites, ringVars,
                 onDisk, sealed, aborted>>

-----------------------------------------------------------------------------
(* The kernel performs the requests of a ring in any order.  It goes on    *)
(* with, or gives up, those of a ring that has been released.              *)
Answer(v, r, success) ==
  /\ inflight' = [inflight EXCEPT ![v] = @ \ {r}]
  /\ cq' = IF v \in ringsOpen THEN [cq EXCEPT ![v] = Append(@, success)] ELSE cq

KernelWrites(v) ==
  /\ \E r \in inflight[v] : Answer(v, r, TRUE) /\ onDisk' = onDisk \cup r
  /\ UNCHANGED <<pc, workerVars, bufferVars, issued, numPixelWrites,
                 ringsOpen, fdOpen, sealed, main, aborted>>

(* A short write is no failure to retrieveCompletion: its result is >= 0.  *)
KernelWritesShort(v) ==
  /\ IOErrors
  /\ \E r \in inflight[v] : \E c \in r :
       /\ Answer(v, r, TRUE)
       /\ onDisk' = onDisk \cup { d \in r : d < c }
  /\ UNCHANGED <<pc, workerVars, bufferVars, issued, numPixelWrites,
                 ringsOpen, fdOpen, sealed, main, aborted>>

KernelFails(v) ==
  /\ IOErrors \/ v \notin ringsOpen
  /\ \E r \in inflight[v] : Answer(v, r, FALSE)
  /\ UNCHANGED <<pc, workerVars, bufferVars, issued, numPixelWrites,
                 ringsOpen, fileVars, main, aborted>>

-----------------------------------------------------------------------------
(* One step of the task of worker w. *)
Work(w) ==
  \/ \E s \in Strips : TakeStrip(w, s)
  \/ FillStrip(w)
  \/ Acquire(w) \/ NothingToWrite(w) \/ BeginWrite(w)
  \/ WriteSync(w) \/ WriteShort(w) \/ WriteFails(w)
  \/ Submit(w) \/ Reap(w) \/ EndReap(w) \/ RingGone(w)
  \/ Count(w) \/ EndCount(w)
  \/ BeginFinish(w) \/ Seal(w)

Kernel(v) == KernelWrites(v) \/ KernelWritesShort(v) \/ KernelFails(v)

Main == MainDrain \/ MainClose

(* The program has ended. *)
Stopped == (aborted \/ main = "closed") /\ UNCHANGED vars

Next ==
  \/ /\ ~aborted
     /\ \/ \E w \in Workers : Work(w) \/ Kernel(w)
        \/ CloseRings
        \/ Main
  \/ Stopped

(* The threads of the executor and the main thread keep running, and the   *)
(* kernel answers every request.                                           *)
Fairness ==
  /\ \A w \in Workers : WF_vars(~aborted /\ Work(w))
  /\ \A w \in Workers : WF_vars(~aborted /\ Kernel(w))
  /\ WF_vars(~aborted /\ CloseRings)
  /\ WF_vars(~aborted /\ Main)

Spec == Init /\ [][Next]_vars /\ Fairness

-----------------------------------------------------------------------------
(* Properties *)

TypeOK ==
  /\ pending \subseteq Strips /\ filled \subseteq Strips
  /\ strip \in [Workers -> Strips \cup {NoStrip}]
  /\ pc \in [Workers -> {"idle", "fill", "acquire", "write", "reap", "count",
                         "finish", "drain"}]
  /\ todo \in [Workers -> SUBSET Chunks]
  /\ batch \in [Workers -> SUBSET Chunks]
  /\ writes \in [Workers -> Nat]
  /\ acquireCount \in [Chunks -> Nat]
  /\ issued \in [Chunks -> Nat]
  /\ numPixelWrites \in Nat
  /\ ringsOpen \subseteq Workers
  /\ inflight \in [Workers -> SUBSET SUBSET Chunks]
  /\ cq \in [Workers -> Seq(BOOLEAN)]
  /\ onDisk \subseteq Chunks /\ fdOpen \in BOOLEAN /\ sealed \in BOOLEAN
  /\ main \in {"wait", "drain", "closed"} /\ aborted \in BOOLEAN

(* No chunk is ever handed to a write twice, however the threads that      *)
(* share it interleave their acquire() calls.                              *)
WriteOnce == \A c \in Chunks : issued[c] <= 1

(* A chunk is handed to a write only when every strip that shares it has   *)
(* filled its part of the buffer: nobody still writes to a buffer that is  *)
(* on its way to the disk (the reference counting by acquire()).           *)
NoTornChunk == \A c \in Chunks : issued[c] > 0 => Sharers(c) \subseteq filled

(* A strip covers a run of chunks, and those between its first and its     *)
(* last belong to it alone (so the plan of the code: see ChunkPlan).       *)
Runs ==
  \A s \in Strips : \A c, d \in ChunksOf[s], e \in Chunks :
    c < e /\ e < d => e \in ChunksOf[s] /\ Sharers(e) = {s}

(* What a worker writes in one call is a run of chunks without a gap: the  *)
(* call passes the offset of the first buffer only, so a chunk missing in  *)
(* the middle would put the ones behind it at the wrong place.  Whether    *)
(* the first and the last chunk of its strip are among them depends on     *)
(* which of the threads sharing them came last.                            *)
OneVector ==
  \A w \in Workers : pc[w] = "write" =>
    \A c, d \in batch[w] : \A e \in Chunks : c < e /\ e < d => e \in batch[w]

(* At most one worker finishes the file, and nobody starts to finish a     *)
(* file that is finished: encodeFinish is entered once per image.          *)
FinishOnce ==
  /\ \A v, w \in Workers : {pc[v], pc[w]} \subseteq {"finish", "drain"} => v = w
  /\ sealed => \A w \in Workers : pc[w] \notin {"finish", "drain"}

(* While a thread closes the rings of all the workers none of their owners *)
(* is in a write: the rings have no lock, and an owner that submits to, or *)
(* reaps from, its ring at that moment would race with the closing thread. *)
RingOwnership == Closing => \A w \in Workers : pc[w] \notin {"write", "reap"}

(* The directory is written after all data: when the file is sealed every  *)
(* chunk is in it.                                                         *)
DirectoryAfterData == sealed => onDisk = Chunks

(* "wait for asynch writes to complete" (TIFFFormat::close): the file is   *)
(* not closed while a request to write to it is still under way.           *)
CloseWaits == sealed \/ main = "closed" => \A v \in Workers : inflight[v] = {}

(* Every encodePixels succeeds, or the program is dead ("bool ret = ...    *)
(* encodePixels(...); assert(ret);"): with a disk that never fails, no     *)
(* write comes after the file has been closed.                             *)
EncodePixelsSucceeds == ~aborted

(* A step that hands the last chunks to the disk or counts them never      *)
(* comes after the directory: the file is final once it is sealed.         *)
SealedIsFinal == [][sealed => UNCHANGED <<onDisk, issued, filled>>]_vars

(* Every image is finished: the executor's tasks all end, one of them      *)
(* writes the directory, and the main thread gets to close the encoder.    *)
Completes == <>(main = "closed" /\ sealed)

(* The encoder implements the abstract file. *)
File == INSTANCE EncodedFile

ImplementsFile == File!Spec

=============================================================================
