----------------------------- MODULE ChunkPlan -----------------------------
(***************************************************************************)
(* The construction of an ImageStripper with a buffer pool: the strips of  *)
(* the image are built from left to right, and Strip::generateChunks cuts  *)
(* each of them into StripChunks.  A StripChunk is the part of the strip   *)
(* in one IOChunk; an IOChunk that straddles a strip boundary is shared    *)
(* with the neighbour on the right, which extends its length and its       *)
(* share count.  The share count decides later which thread writes the     *)
(* chunk (see ParallelEncode).                                             *)
(*                                                                         *)
(* The build has its assertions enabled (CMakeLists.txt selects no build   *)
(* type): one that fails aborts the program.                               *)
(***************************************************************************)
EXTENDS StripGeometry, Sequences, FiniteSets, SequencesExt

CONSTANT Images    \* the images to build, records of height and rowBytes

ASSUME ImagesAssumption ==
  Images \subseteq [height : Nat \ {0}, rowBytes : Nat \ {0}]

VARIABLES
  img,           \* the image being divided
  ioChunks,      \* the IOChunks created so far, in order of creation
  stripChunks,   \* for every strip built so far, its StripChunks in order
  aborted        \* an assertion of generateChunks has failed

vars == <<img, ioChunks, stripChunks, aborted>>

-----------------------------------------------------------------------------
(* IOChunk and StripChunk *)

(* A new IOChunk; one made with a pool is shared with the next strip. *)
IOChunk(offset, len, shared) ==
  [ offset |-> offset, len |-> len, shareCount |-> IF shared THEN 2 ELSE 1 ]

(* Mutant: a strip in the middle of a chunk does not count itself. *)
ShareNot(io) == io

Share(io) == [io EXCEPT !.shareCount = @ + 1]

(* Mutant: an IOChunk is never extended. *)
ExtendNot(io, writeableOffset, writeableLen) == io

(* What the StripChunk constructor does to its IOChunk.  The test compares *)
(* the end of the IOChunk in the file with an offset within the buffer:    *)
(* the two agree for the chunk at the start of the file only.              *)
Extend(io, writeableOffset, writeableLen) ==
  IF io.shareCount > 1 /\ io.offset + io.len = writeableOffset
  THEN [io EXCEPT !.len = @ + writeableLen]
  ELSE io

StripChunkAsserts(io, writeableOffset, writeableLen) ==
  /\ writeableOffset \in 0 .. io.len - 1
  /\ writeableLen \in 0 .. io.len

StripChunk(io, writeableOffset, writeableLen) ==
  [ ioChunk |-> io, offset |-> writeableOffset, len |-> writeableLen ]

(* finalChunk() of the strip on the left: its IOChunk. *)
LeftFinal == Last(Last(stripChunks)).ioChunk

(* Mutant: the final chunk keeps the length it was made with. *)
TrimNot(ci, io) == io

(* The final strip cuts the length of a chunk it shares to the data's end. *)
Trim(ci, io) ==
  IF ci.isFinal THEN [io EXCEPT !.len = DimLen(ci.last)] ELSE io

-----------------------------------------------------------------------------
(* A strip that lies within one chunk. *)
SingleChunk(ci) ==
  LET firstSeam == HasFirstSeam(ci)
      lastSeam  == HasLastSeam(ci)
      id        == IF firstSeam THEN LeftFinal ELSE Len(ioChunks) + 1
      io        == CASE firstSeam /\ lastSeam  -> Share(ioChunks[id])
                     [] firstSeam /\ ~lastSeam -> ioChunks[id]
                     [] OTHER -> IOChunk(0, ci.first.x1, lastSeam)
      offset    == IF ci.isFirst THEN HeaderSize ELSE ci.first.x0 - ci.last.x0
      len       == IF ci.isFirst THEN ci.first.x1 - HeaderSize
                                 ELSE DimLen(ci.first)
      grown     == Extend(io, offset, len)
      final     == Trim(ci, grown)
  IN  [ ios    |-> IF firstSeam THEN [ioChunks EXCEPT ![id] = final]
                                ELSE Append(ioChunks, final),
        pieces |-> << StripChunk(id, offset, len) >>,
        ok     |-> /\ ci.isFirst \/ ci.last.x0 <= ci.first.x0
                   /\ StripChunkAsserts(grown, offset, len)
                   /\ grown.len <= WRTSIZE /\ final.len <= WRTSIZE ]

(* Mutant: the test for the strip's last chunk is missing. *)
ChunkOffsetOfSeam(ci, n, i) ==
  IF i > 0 /\ HasLastSeam(ci) THEN ci.last.x0
  ELSE ci.first.x1 - WRTSIZE + i * WRTSIZE

(* Where chunk i of n begins, unless it is the left neighbour's last one.  *)
ChunkOffset(ci, n, i) ==
  IF i = n - 1 /\ HasLastSeam(ci) THEN ci.last.x0
  ELSE ci.first.x1 - WRTSIZE + i * WRTSIZE

(* Chunk i of a strip of n > 1: the left neighbour's last one, the last    *)
(* chunk of the image, or one that the right neighbour shares.             *)
IsSeam(ci, i) == i = 0 /\ HasFirstSeam(ci)

IsLastOfAll(ci, n, i) == ci.isFinal /\ i = n - 1

IsShared(ci, n, i) == i = n - 1 /\ HasLastSeam(ci)

ChunkLen(ci, n, i) ==
  IF IsLastOfAll(ci, n, i) THEN DimLen(ci.last) ELSE WRTSIZE

ChunkIO(ci, n, i) ==
  IF IsSeam(ci, i) THEN ioChunks[LeftFinal]
  ELSE IOChunk(ChunkOffset(ci, n, i), ChunkLen(ci, n, i), IsShared(ci, n, i))

WriteableOffset(ci, n, i) ==
  CASE IsSeam(ci, i)          -> ci.first.x0 - ioChunks[LeftFinal].offset
    [] ci.isFirst /\ i = 0    -> HeaderSize
    [] OTHER                  -> 0

WriteableLen(ci, n, i) ==
  CASE IsSeam(ci, i)          -> DimLen(ci.first)
    [] IsShared(ci, n, i)     -> DimLen(ci.last)
    [] ci.isFirst /\ i = 0    -> ChunkLen(ci, n, i) - HeaderSize
    [] OTHER                  -> ChunkLen(ci, n, i)

Grown(ci, n, i) ==
  Extend(ChunkIO(ci, n, i), WriteableOffset(ci, n, i), WriteableLen(ci, n, i))

ManyAssert(ci, n, i) ==
  LET io   == ChunkIO(ci, n, i)
      wOff == WriteableOffset(ci, n, i)
      wLen == WriteableLen(ci, n, i)
  IN  /\ IsAligned(io.offset)
      /\ IsLastOfAll(ci, n, i) \/ IsAligned(ChunkLen(ci, n, i))
      /\ StripChunkAsserts(Grown(ci, n, i), wOff, wLen)
      /\ Grown(ci, n, i).len <= WRTSIZE
      /\ IsSeam(ci, i) => /\ wLen \in 1 .. WRTSIZE - 1
                          /\ wOff \in 1 .. WRTSIZE - 1
                          /\ io.shareCount > 1
      /\ IsShared(ci, n, i) => wLen \in 1 .. WRTSIZE - 1

(* The loop of a strip of n > 1 chunks. *)
ManyChunks(ci, n) ==
  LET seam == IF HasFirstSeam(ci) THEN 1 ELSE 0
  IN  [ ios    |-> (IF HasFirstSeam(ci)
                    THEN [ioChunks EXCEPT ![LeftFinal] = Grown(ci, n, 0)]
                    ELSE ioChunks)
                   \o [k \in 1 .. n - seam |-> Grown(ci, n, k - 1 + seam)],
        pieces |-> [k \in 1 .. n |->
                      StripChunk(IF IsSeam(ci, k - 1) THEN LeftFinal
                                 ELSE Len(ioChunks) + k - seam,
                                 WriteableOffset(ci, n, k - 1),
                                 WriteableLen(ci, n, k - 1))],
        ok     |-> \A i \in 0 .. n - 1 : ManyAssert(ci, n, i) ]

(* writeableTotal: the loop over the chunks adds their lengths up. *)
WriteableTotal(p) ==
  LET total[k \in 0 .. Len(p)] ==
        IF k = 0 THEN 0 ELSE total[k - 1] + p[k].len
  IN  total[Len(p)]

(* The validation at the end of generateChunks.                            *)
Validates(ci, plan, logicalLen) ==
  LET p     == plan.pieces
      begin == plan.ios[p[1].ioChunk].offset + p[1].offset
      end   == plan.ios[Last(p).ioChunk].offset + Last(p).len
                 + (IF Len(p) = 1 THEN p[1].offset ELSE 0)
  IN  /\ ci.isFirst => plan.ios[p[1].ioChunk].offset = 0
      /\ WriteableTotal(p) = logicalLen
      /\ end = ci.last.x1
      /\ begin = ci.first.x0 + (IF ci.isFirst THEN HeaderSize ELSE 0)
      /\ end - begin = logicalLen

-----------------------------------------------------------------------------
Built == Len(stripChunks)

Complete == Built = NumStrips(img)

Init ==
  /\ img \in Images
  /\ ioChunks = <<>> /\ stripChunks = <<>>
  /\ aborted = FALSE

(* One round of the loop of the constructor: generateChunks of the next    *)
(* strip.                                                                  *)
GenerateChunks ==
  /\ ~aborted /\ ~Complete
  /\ LET ci   == ChunkInfo(img, Built)
         n    == NumChunks(ci)
         plan == IF n = 1 THEN SingleChunk(ci) ELSE ManyChunks(ci, n)
     IN  IF /\ ChunkInfoAsserts(ci)
            /\ plan.ok
            /\ Validates(ci, plan, LogicalLen(img, Built))
         THEN /\ ioChunks' = plan.ios
              /\ stripChunks' = Append(stripChunks, plan.pieces)
              /\ UNCHANGED <<img, aborted>>
         ELSE /\ aborted' = TRUE
              /\ UNCHANGED <<img, ioChunks, stripChunks>>

(* The constructor has returned, or the program is dead. *)
Stopped == (aborted \/ Complete) /\ UNCHANGED vars

Next == GenerateChunks \/ Stopped

Spec == Init /\ [][Next]_vars

-----------------------------------------------------------------------------
(* Properties *)

TypeOK ==
  /\ img \in Images
  /\ aborted \in BOOLEAN
  /\ \A k \in DOMAIN ioChunks :
       ioChunks[k] \in [offset : Nat, len : 0 .. WRTSIZE, shareCount : Nat \ {0}]
  /\ \A s \in DOMAIN stripChunks : \A k \in DOMAIN stripChunks[s] :
       stripChunks[s][k] \in [ioChunk : DOMAIN ioChunks,
                             offset : 0 .. WRTSIZE - 1, len : 1 .. WRTSIZE]

(* The StripChunks built so far: strip s, chunk k.                          *)
Parts == UNION { {s} \X DOMAIN stripChunks[s] : s \in DOMAIN stripChunks }

Part(i) == stripChunks[i[1]][i[2]]

PartsOf(c) == { i \in Parts : Part(i).ioChunk = c }

PartBegin(p) == ioChunks[p.ioChunk].offset + p.offset

PartEnd(p) == PartBegin(p) + p.len

DataEnd(image) == HeaderSize + image.height * image.rowBytes

(* The pixel data ends on a chunk boundary. *)
EndsAligned(image) == IsAligned(DataEnd(image))

(* No assertion fails on an image whose data does not end on a chunk       *)
(* boundary: the seams, the lengths and the sharing computed strip by      *)
(* strip never contradict each other (the asserts of ChunkInfo,            *)
(* StripChunk and generateChunks).                                         *)
NoAbort == EndsAligned(img) \/ ~aborted

(* The writeable parts, taken strip after strip, tile the file from the    *)
(* end of the header to the end of the data: no two strips ever fill the   *)
(* same byte and no byte of the image is left out (the writeableOffset_    *)
(* and writeableLen_ of generateChunks).                                   *)
PartsTile ==
  /\ \A s \in DOMAIN stripChunks :
       LET p == stripChunks[s]
       IN  /\ PartBegin(p[1]) = IF s = 1 THEN HeaderSize
                                ELSE PartEnd(Last(stripChunks[s - 1]))
           /\ \A k \in 2 .. Len(p) : PartBegin(p[k]) = PartEnd(p[k - 1])
  /\ Complete => PartEnd(Last(Last(stripChunks))) = DataEnd(img)

(* Once the image is built, every chunk counts exactly the strips that     *)
(* have a part of it.  One too many and no thread would ever see itself as *)
(* the last one and write the chunk; one too few and it would be written   *)
(* with a part missing (shareCount_ against IOChunk::acquire).             *)
ShareCountExact ==
  Complete => \A c \in DOMAIN ioChunks :
    ioChunks[c].shareCount = Cardinality(PartsOf(c))

(* The bytes a finished chunk writes, [offset, offset + len), end where    *)
(* the last of its parts ends: a chunk neither writes bytes nobody filled  *)
(* nor drops bytes somebody did (updateLen by the StripChunk constructor   *)
(* and for the final strip).  An image whose data ends on a chunk boundary *)
(* is left out: see AssertsHold.                                           *)
LengthExact ==
  Complete /\ ~EndsAligned(img) => \A c \in DOMAIN ioChunks :
    /\ \A i \in PartsOf(c) : Part(i).offset + Part(i).len <= ioChunks[c].len
    /\ \E i \in PartsOf(c) : Part(i).offset + Part(i).len = ioChunks[c].len

(* The chunks of a strip follow each other without a gap, so that one      *)
(* vectored write at the offset of the first puts each of them at its own  *)
(* offset (encodePixels passes buffers[0]->offset_ only).                  *)
StripIsOneVector ==
  Complete => \A s \in DOMAIN stripChunks :
    \A k \in 1 .. Len(stripChunks[s]) - 1 :
      LET c == ioChunks[stripChunks[s][k].ioChunk]
          d == ioChunks[stripChunks[s][k + 1].ioChunk]
      IN  c.offset + c.len = d.offset

(* The header does not push the data into one more chunk than the image    *)
(* alone would fill.                                                       *)
HeaderFits(image) ==
  CeilDiv(DataEnd(image), WRTSIZE) = CeilDiv(DataEnd(image) - HeaderSize, WRTSIZE)

(* For such an image numUniqueChunks(), which ignores the header, is the   *)
(* number of chunks really made (maxPixelWrites_).                         *)
UniqueChunksCounted ==
  Complete /\ HeaderFits(img) => Len(ioChunks) = NumUniqueChunks(img)

(* The chunks of a strip are the cells of the file that it overlaps, in     *)
(* order, and a cell is the same chunk for every strip: what ParallelEncode *)
(* takes a strip's chunks to be.                                           *)
ChunksAreCells ==
  /\ \A s \in DOMAIN stripChunks :
       CellsOf(img, s - 1) = { ioChunks[stripChunks[s][k].ioChunk].offset \div WRTSIZE :
                                 k \in DOMAIN stripChunks[s] }
  /\ \A i \in Parts :
       ioChunks[Part(i).ioChunk].offset = WRTSIZE * (Part(i).ioChunk - 1)

(* What the assertions of generateChunks and getStripChunkArray say of     *)
(* every image: none of them ever fails.                                   *)
AssertsHold == ~aborted

=============================================================================
