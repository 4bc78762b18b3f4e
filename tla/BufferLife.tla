----------------------------- MODULE BufferLife -----------------------------
(***************************************************************************)
(* The buffers of the parallel encoder (io/IFileIO.h, io/BufferPool.h,     *)
(* io/RefCounted.h, and what ImageStripper.h, ImageFormat.cpp, FileIOUnix  *)
(* .cpp and FileIOUring.cpp do with them), laid over ParallelEncode: every *)
(* step that touches a buffer is a step of ParallelEncode conjoined with   *)
(* what becomes of the buffers and of the bytes of the file; the others    *)
(* are steps between two of ParallelEncode's.                              *)
(*                                                                         *)
(* A buffer is reference counted and recycled through the pool of the      *)
(* worker that wrote it.  With chunks (-k), a buffer belongs to its        *)
(* IOChunk until the encoder is deleted, and returns to a pool after its   *)
(* write all the same: the next chunk that takes it from there shares it   *)
(* with the chunks before.  Without chunks, a buffer has one owner at a    *)
(* time and keeps the length, the header and the bytes of its last strip.  *)
(*                                                                         *)
(* A byte of data is the position in the file it is meant for: run() fills *)
(* the buffers with a pattern that only depends on the position.           *)
(***************************************************************************)
EXTENDS ParallelEncode, SequencesExt

CONSTANTS
  Chunked, Direct,     \* -k, and O_DIRECT (which implies -k)
  HeaderLength,
  Offset, Length,      \* per chunk: offset_ and len_
  AllocLength,         \* per chunk: the length its buffer is asked for with
  StripBytes,          \* per strip: its positions in the file
  FileSize,            \* positions from here on belong to no strip
  Positions,           \* positions the model keeps track of
  ShortWrites,         \* what a pwritev may return that falls short
  Hole, Stale          \* a byte never written, and one that means nothing

ASSUME BufferAssumption ==
  /\ Chunked \in BOOLEAN /\ Direct \in BOOLEAN /\ (Direct => Chunked)
  /\ {Offset, Length, AllocLength} \subseteq [Chunks -> Nat]
  /\ \A c \in Chunks : 0 < Length[c] /\ Length[c] <= AllocLength[c]
  /\ StripBytes \in [Strips -> SUBSET Nat]
  /\ {HeaderLength, FileSize} \subseteq Nat /\ ShortWrites \subseteq Nat \ {0}
  /\ 0 .. FileSize - 1 \subseteq Positions /\ Positions \subseteq Nat
  /\ {Hole, Stale} \cap Nat = {} /\ Hole # Stale

NoBuf == 0

VARIABLES
  buf,             \* every IOBuf so far; refCount is 0 once it is freed
  held,            \* per chunk: IOChunk's buf_; the strip's buffer without -k
  pool,            \* per worker: the buffers in the pool of its serializer
  answered,        \* per ring: the requests whose completions are in cq
  dropped,         \* chunks of requests that a closed ring never returned
  bytesWritten,    \* per worker: local to FileIOUnix::write
  reached,         \* per worker: how far its pwritev calls got
  file             \* the bytes of the file

loopVars == <<bytesWritten, reached>>

bvars == <<vars, buf, held, pool, answered, dropped, loopVars, file>>

(* IOBuf::IOBuf and alloc *)
NewBuf(len) == [refCount |-> 1, allocLen |-> len, len |-> len, offset |-> 0,
                skip |-> 0, data |-> [k \in 0 .. len - 1 |-> Stale]]

Held(C) == { held[c] : c \in C } \ {NoBuf}

(* IOChunk::IOChunk with a pool: a chunk shared by strips has its buffer   *)
(* from the start, taken from the pool of the main serializer, which is    *)
(* empty.                                                                  *)
SharedChunks == IF Chunked THEN { c \in Chunks : ShareCount(c) > 1 } ELSE {}

Rank(c, C) == Cardinality({ d \in C : d <= c })

ChunkBuf(c) == [NewBuf(AllocLength[c]) EXCEPT !.len = Length[c],
                                              !.offset = Offset[c]]

BufferInit ==
  /\ Init
  /\ held = [c \in Chunks |-> IF c \in SharedChunks
                              THEN Rank(c, SharedChunks) ELSE NoBuf]
  /\ buf = [b \in 1 .. Cardinality(SharedChunks) |->
              ChunkBuf(CHOOSE c \in SharedChunks : Rank(c, SharedChunks) = b)]
  /\ pool = [w \in Workers |-> {}]
  /\ answered = [w \in Workers |-> <<>>]
  /\ dropped = {}
  /\ bytesWritten = [w \in Workers |-> 0]
  /\ reached = [w \in Workers |-> 0]
  /\ file = [p \in Positions |-> Hole]

-----------------------------------------------------------------------------
(* Getting and filling buffers *)

(* BufferPool::get: the first buffer in the order of the addresses that is *)
(* long enough, any such buffer for the model, and otherwise a new one.    *)
FromPool(w, len) ==
  LET fitting == { b \in pool[w] : buf[b].allocLen >= len }
  IN  IF fitting = {} THEN {Len(buf) + 1} ELSE fitting

WithHeader(data) ==
  [k \in DOMAIN data |-> IF k < HeaderLength THEN k ELSE data[k]]

(* Mutant: skip_ is not reset. *)
AsStripBufferStaleSkip(b, s) ==
  [b EXCEPT !.offset = Offset[s],
            !.skip = IF Offset[s] = 0 THEN HeaderLength ELSE @,
            !.data = IF Offset[s] = 0 THEN WithHeader(@) ELSE @]

(* ImageFormat::getPoolBuffer.  len_ keeps the value it had in the pool.   *)
AsStripBuffer(b, s) ==
  [b EXCEPT !.offset = Offset[s],
            !.skip = IF Offset[s] = 0 THEN HeaderLength ELSE 0,
            !.data = IF Offset[s] = 0 THEN WithHeader(@) ELSE @]

(* Mutant: the buffer keeps the offset of its last chunk. *)
AsChunkBufferStaleOffset(b, c) == [b EXCEPT !.len = Length[c]]

(* IOChunk::alloc *)
AsChunkBuffer(b, c) == [b EXCEPT !.len = Length[c], !.offset = Offset[c]]

Wanting(w) == { c \in ChunksOf[strip[w]] : held[c] = NoBuf }

(* One buffer of getPoolBuffer or getStripChunkArray, before the strip is  *)
(* filled.                                                                 *)
GetBuffer(w) ==
  /\ pc[w] = "fill"
  /\ \E c \in Wanting(w) : \E b \in FromPool(w, AllocLength[c]) :
       LET got  == IF b \in DOMAIN buf THEN buf
                                       ELSE Append(buf, NewBuf(AllocLength[c]))
           next == IF Chunked THEN AsChunkBuffer(got[b], c)
                              ELSE AsStripBuffer(got[b], c)
       IN  /\ IsLeast(c, Wanting(w))
           /\ buf' = [got EXCEPT ![b] = next]
           /\ held' = [held EXCEPT ![c] = b]
           /\ pool' = [pool EXCEPT ![w] = @ \ {b}]
  /\ UNCHANGED <<vars, answered, dropped, loopVars, file>>

(* Byte k of the buffer of chunk c after run() has filled strip s.  With   *)
(* chunks these are the header and the pieces of the strip, and without    *)
(* all that is behind skip_, which may be more than the strip.             *)
FilledByte(s, c, k) ==
  LET b == buf[held[c]]
  IN  IF Chunked
      THEN IF Offset[c] + k \in StripBytes[s] THEN Offset[c] + k ELSE b.data[k]
      ELSE IF b.skip <= k /\ k < b.len THEN b.offset + k ELSE b.data[k]

FillStripBuffers(w) ==
  /\ FillStrip(w)
  /\ Wanting(w) = {}
  /\ buf' = [b \in DOMAIN buf |->
               IF b \notin Held(ChunksOf[strip[w]]) THEN buf[b]
               ELSE LET c == CHOOSE d \in ChunksOf[strip[w]] : held[d] = b
                    IN  [buf[b] EXCEPT !.data = [k \in DOMAIN @ |->
                                                  FilledByte(strip[w], c, k)]]]
  /\ UNCHANGED <<held, pool, answered, dropped, loopVars, file>>

(* RefCounted::ref and RefReaper::unref, for the buffers of some chunks.   *)
Ref(C) == [b \in DOMAIN buf |-> [buf[b] EXCEPT !.refCount =
             @ + Cardinality({ c \in C : held[c] = b })]]

Unref(C) == [b \in DOMAIN buf |-> [buf[b] EXCEPT !.refCount =
               @ - Cardinality({ c \in C : held[c] = b })]]

(* Mutant: no reference for the write. *)
AcquireUncounted(w) ==
  /\ Acquire(w)
  /\ UNCHANGED <<buf, held, pool, answered, dropped, loopVars, file>>

(* encodePixels of a StripChunkArray takes a reference for the write. *)
AcquireBuffer(w) ==
  /\ Acquire(w)
  /\ buf' = IF Chunked THEN Ref(batch'[w] \ batch[w]) ELSE buf
  /\ UNCHANGED <<held, pool, answered, dropped, loopVars, file>>

-----------------------------------------------------------------------------
(* Writing *)

(* IOScheduleData: one vector of all buffers, for the offset of the first. *)
(* With O_DIRECT all that is allocated is written.                         *)
IovLen(c) == IF Direct THEN buf[held[c]].allocLen ELSE buf[held[c]].len

(* totalBytes_ is the sum of the lengths, bytesToWrite that of the vector. *)
TotalBytes(C) == SumFunction([c \in C |-> buf[held[c]].len])

BytesToWrite(C) == SumFunction([c \in C |-> IovLen(c)])

(* Where the buffer of c begins in the vector of C, which is in the order  *)
(* of the file.                                                            *)
Before(c, C) == BytesToWrite({ d \in C : d < c })

VectorByte(k, C) ==
  LET c == CHOOSE d \in C : Before(d, C) <= k /\ k < Before(d, C) + IovLen(d)
  IN  buf[held[c]].data[k - Before(c, C)]

WriteFirst(n, C) ==
  LET from == buf[held[Min(C)]].offset
  IN  file' = [p \in Positions |->
                 IF from <= p /\ p < from + n THEN VectorByte(p - from, C)
                                              ELSE file[p]]

(* The chunks among C that the first n bytes of their vector hold. *)
WithinFirst(n, C) ==
  { c \in C : Before(c, C) + buf[held[c]].len <= n }

(* The reclaim callback: buffers go to the pool of worker w. *)
Returned(C) == IF Chunked THEN held
               ELSE [c \in Chunks |-> IF c \in C THEN NoBuf ELSE held[c]]

Reclaim(w, C) ==
  /\ pool' = [pool EXCEPT ![w] = @ \cup Held(C)]
  /\ held' = Returned(C)

(* A pwritev that leaves the loop of FileIOUnix::write going: the next one *)
(* writes the same vector at the same offset.                              *)
PwritevAgain(w) ==
  /\ pc[w] = "write" /\ w \notin ringsOpen /\ fdOpen /\ IOErrors
  /\ \E n \in ShortWrites :
       /\ bytesWritten[w] + n < TotalBytes(batch[w])
       /\ bytesWritten' = [bytesWritten EXCEPT ![w] = @ + n]
       /\ reached' = [reached EXCEPT ![w] = Max({@, n})]
       /\ WriteFirst(n, batch[w])
  /\ UNCHANGED <<vars, buf, held, pool, answered, dropped>>

LeaveLoop(w) ==
  /\ bytesWritten' = [bytesWritten EXCEPT ![w] = 0]
  /\ reached' = [reached EXCEPT ![w] = 0]
  /\ Reclaim(w, batch[w])
  /\ UNCHANGED <<buf, answered, dropped>>

(* The pwritev that ends it.  encodePixels compares the sum of the counts  *)
(* with the length of the vector.                                          *)
PwritevLast(w) ==
  /\ pc[w] = "write" /\ w \notin ringsOpen /\ fdOpen
  /\ LET all == BytesToWrite(batch[w])
     IN  \E n \in {all} \cup { m \in ShortWrites : IOErrors /\ m < all } :
           LET sum     == bytesWritten[w] + n
               written == WithinFirst(Max({n, reached[w]}), batch[w])
           IN  /\ sum >= TotalBytes(batch[w])
               /\ WriteFirst(n, batch[w])
               /\ \/ sum = all /\ written = batch[w] /\ WriteSync(w)
                  \/ /\ sum = all /\ written # batch[w]
                     /\ WriteShort(w) /\ onDisk' = onDisk \cup written
                  \/ sum # all /\ WriteFails(w)
  /\ LeaveLoop(w)

PwritevFails(w) ==
  /\ WriteFails(w)
  /\ LeaveLoop(w)
  /\ UNCHANGED file

(* Mutant: the buffers are returned as soon as the request is submitted. *)
SubmitAndReturn(w) ==
  /\ Submit(w)
  /\ pool' = [pool EXCEPT ![w] = @ \cup Held(batch[w])]
  /\ UNCHANGED <<buf, held, answered, dropped, loopVars, file>>

SubmitBuffers(w) ==
  /\ Submit(w)
  /\ UNCHANGED <<buf, held, pool, answered, dropped, loopVars, file>>

(* FileIOUring::enqueue returns the buffers of the completions it finds. *)
ReapBuffers(w) ==
  /\ Reap(w)
  /\ Reclaim(w, Head(answered[w]))
  /\ answered' = [answered EXCEPT ![w] = Tail(@)]
  /\ UNCHANGED <<buf, dropped, loopVars, file>>

(* The bytes that a short write may have left of the chunk it stopped in.  *)
Partial(v, r) ==
  {0} \cup { n \in ShortWrites :
              /\ KernelWritesShort(v)
              /\ \E c \in r : /\ r \cap onDisk' = { d \in r : d < c }
                             /\ n < IovLen(c) }

(* The kernel reads the buffers of the request it has answered by now.     *)
Answered(v) ==
  \E r \in inflight[v] \ inflight'[v] :
    /\ answered' = IF v \in ringsOpen
                   THEN [answered EXCEPT ![v] = Append(@, r)] ELSE answered
    /\ \E n \in Partial(v, r) :
         WriteFirst(BytesToWrite(r \cap onDisk') + n, r)

KernelReads(v) ==
  /\ Kernel(v)
  /\ Answered(v)
  /\ UNCHANGED <<buf, held, pool, dropped, loopVars>>

-----------------------------------------------------------------------------
(* Closing *)

(* Mutant: close() forgets the buffers of the requests it waited for. *)
CloseRingsForgets ==
  /\ CloseRings
  /\ answered' = [v \in Workers |-> IF cq'[v] = cq[v] THEN answered[v]
                    ELSE IF v \in ringsOpen' THEN Tail(answered[v]) ELSE <<>>]
  /\ UNCHANGED <<buf, held, pool, dropped, loopVars, file>>

(* FileIOUring::close gives the reference of a completed request up, and   *)
(* never sees the requests behind a failure again.                         *)
CloseRingsBuffers ==
  /\ CloseRings
  /\ \E v \in ringsOpen :
       IF v \in ringsOpen'
       THEN /\ cq'[v] # cq[v]
            /\ buf' = Unref(Head(answered[v]))
            /\ held' = Returned(Head(answered[v]))
            /\ answered' = [answered EXCEPT ![v] = Tail(@)]
            /\ UNCHANGED dropped
       ELSE /\ dropped' = dropped \cup (UNION inflight[v])
                                  \cup (UNION ToSet(answered[v]))
            /\ answered' = [answered EXCEPT ![v] = <<>>]
            /\ UNCHANGED <<buf, held>>
  /\ UNCHANGED <<pool, loopVars, file>>

(* ~ImageFormat: the serializers of the workers with their pools, and then *)
(* the strips with their chunks.                                           *)
MainCloseBuffers ==
  /\ MainClose
  /\ buf' = [b \in DOMAIN buf |-> [buf[b] EXCEPT !.refCount =
               @ - Cardinality({ w \in Workers : b \in pool[w] })
                 - Cardinality({ c \in Chunks : Chunked /\ held[c] = b })]]
  /\ pool' = [w \in Workers |-> {}]
  /\ UNCHANGED <<held, answered, dropped, loopVars, file>>

-----------------------------------------------------------------------------
(* The steps of the encoder that leave the buffers alone. *)
OtherWork(w) ==
  /\ \/ \E s \in Strips : TakeStrip(w, s)
     \/ NothingToWrite(w) \/ BeginWrite(w)
     \/ EndReap(w) \/ RingGone(w)
     \/ Count(w) \/ EndCount(w)
     \/ BeginFinish(w) \/ Seal(w)
  /\ UNCHANGED <<buf, held, pool, answered, dropped, loopVars, file>>

BufferStep(w) ==
  \/ GetBuffer(w) \/ FillStripBuffers(w) \/ AcquireBuffer(w)
  \/ PwritevAgain(w) \/ PwritevLast(w) \/ PwritevFails(w)
  \/ SubmitBuffers(w) \/ ReapBuffers(w)
  \/ KernelReads(w)
  \/ OtherWork(w)

MainDrainBuffers ==
  MainDrain /\ UNCHANGED <<buf, held, pool, answered, dropped, loopVars, file>>

BufferStopped == Stopped /\ UNCHANGED bvars

BufferNext ==
  \/ /\ ~aborted
     /\ \/ \E w \in Workers : BufferStep(w)
        \/ CloseRingsBuffers
        \/ MainDrainBuffers \/ MainCloseBuffers
  \/ BufferStopped

BufferSpec == BufferInit /\ [][BufferNext]_bvars

-----------------------------------------------------------------------------
(* Properties *)

Bufs == DOMAIN buf

(* Chunks passed to a write, whose buffers nobody has got back. *)
UnderWay ==
  dropped \cup UNION { (UNION inflight[v]) \cup (UNION ToSet(answered[v]))
                       : v \in Workers }

HandedOver == { c \in UNION { batch[w] : w \in Workers } : issued[c] = 0 }

(* A chunk without -k is a task's, a request's or nobody's; passed are the *)
(* chunks a write was given a reference for.                               *)
Holders(b, passed) ==
  Cardinality({ w \in Workers : b \in pool[w] })
  + Cardinality({ c \in Chunks : held[c] = b /\ (Chunked => main # "closed") })
  + Cardinality({ c \in passed : Chunked /\ held[c] = b })

(* The reference count of a buffer is the number of its holders: chunks,   *)
(* pools, and writes it was passed to.  So none is freed under a holder,   *)
(* and in particular never while the kernel may still read it, and none is *)
(* freed twice, though chunks and pools hold buffers together and a closed *)
(* ring loses track of some.                                               *)
RefsExact ==
  LET passed == UnderWay \cup HandedOver
  IN  \A b \in Bufs : buf[b].refCount = Holders(b, passed)

(* The buffer of a busy chunk, one that waits for its data or its write,   *)
(* is in no pool, where a worker could take it for another chunk, and      *)
(* serves no other busy chunk, though it may still belong to chunks that   *)
(* were written from it.                                                   *)
NoAliasing ==
  LET underWay == UnderWay
      busy == { c \in Chunks : /\ held[c] # NoBuf
                               /\ issued[c] = 0 \/ c \in underWay }
  IN  \A c \in busy :
        /\ \A w \in Workers : held[c] \notin pool[w]
        /\ \A d \in busy : d # c => held[d] # held[c]

(* The chunks of a file, as the layout makes them: they follow each other  *)
(* and end with the data, O_DIRECT writes none but the last with more than *)
(* its length, all are allocated alike, and the strips that share a chunk  *)
(* fill all of it.  Without -k a chunk is a strip.                         *)
FileLayout ==
  /\ Runs
  /\ \A c \in Chunks : 0 .. c \subseteq Chunks
  /\ \A c \in Chunks :
       /\ Offset[c] + Length[c] <= FileSize
       /\ IF c + 1 \in Chunks
          THEN /\ Offset[c + 1] = Offset[c] + Length[c]
               /\ Direct => Length[c] = AllocLength[c]
          ELSE Offset[c] + Length[c] = FileSize
  /\ IF Chunked
     THEN /\ \A c, d \in Chunks : AllocLength[c] = AllocLength[d]
          /\ \A c \in Chunks : \A p \in Offset[c] .. Offset[c] + Length[c] - 1 :
               \E s \in Sharers(c) : p \in StripBytes[s]
     ELSE \A s \in Strips : ChunksOf[s] = {s}

(* Whatever was recycled and however it was cut short, a write puts into   *)
(* the strips' part of the file only the bytes that belong there: stale    *)
(* lengths, headers and contents never show.  And a chunk that counts as   *)
(* written is there byte for byte.                                         *)
FileBytes ==
  /\ \A p \in 0 .. FileSize - 1 : file[p] \in {Hole, p}
  /\ \A c \in onDisk : \A p \in Offset[c] .. Offset[c] + Length[c] - 1 :
       file[p] = p

(* When the encoder is deleted all buffers are freed, but for those of the *)
(* requests that a ring was closed over.                                   *)
NoLeak ==
  main = "closed" => \A b \in Bufs :
    buf[b].refCount = 0 \/ \E c \in dropped : held[c] = b

(* What write() reports as written is in the file ("attempted to write     *)
(* %ld, actually wrote %ld" is for the rest).                              *)
ReportedIsWritten ==
  \A w \in Workers : pc[w] = "count" => batch[w] \subseteq onDisk

=============================================================================
