----------------------------- MODULE TiffFinish -----------------------------
(***************************************************************************)
(* TIFFFormat::encodeFinish (src/src/io/TIFFFormat.cpp): how the header    *)
(* and the directory of the TIFF file come about once all pixels have been *)
(* handed to the disk.                                                     *)
(*                                                                         *)
(* The pixels are written by the program itself, at offsets of its own.    *)
(* libtiff has to believe that it wrote them: its header and its strips    *)
(* are "written" by FileIOUnix::write in simulation, which only moves an   *)
(* offset; after as many simulated writes as there are strips the          *)
(* simulation ends by itself, and what libtiff writes when it is closed -  *)
(* the link in the header, the arrays of the strips, the directory - goes  *)
(* to the file.                                                            *)
(*                                                                         *)
(* With io_uring, requests of the pixels are under way until the rings     *)
(* have been closed - or longer: the ring is given up at the first request *)
(* that failed, and those still under way arrive later or never.  A write  *)
(* that was cut short is taken for complete, with io_uring because nobody  *)
(* looks at its length, without because the repeated write makes up the    *)
(* count (see ShortWritesResumed of BufferLife).                           *)
(*                                                                         *)
(* A step is one call of libtiff together with its seek and its write of   *)
(* the file through the Serializer, or the arrival of one piece of data.   *)
(* Only sizes and offsets are modelled.                                    *)
(***************************************************************************)
EXTENDS StripGeometry, Sequences, FiniteSets

CONSTANTS
  Images,      \* records of height and rowBytes
  TiffLimit,   \* file size a classic TIFF can address (2^32)
  DirSize,     \* bytes of the directory
  ShortWrites  \* bytes of a piece that are written when its write is cut short

DataEnd(image) == HeaderSize + image.height * image.rowBytes

(* Images that ImageStripper can divide, and whose chunks it counts right  *)
(* (see ChunkPlan), and an even header.                                    *)
ASSUME FinishAssumption ==
  /\ Images \subseteq [height : Nat \ {0}, rowBytes : Nat \ {0}]
  /\ \A image \in Images :
       /\ ~IsAligned(DataEnd(image))
       /\ CeilDiv(DataEnd(image), WRTSIZE) = NumUniqueChunks(image)
  /\ TiffLimit \in Nat \ {0} /\ DirSize \in Nat \ {0}
  /\ HeaderSize % 2 = 0
  /\ ShortWrites \subseteq Nat

(* Direct writes are always in chunks (iobench.cpp:143, 197).              *)
Modes ==
  { m \in [direct : BOOLEAN, asynch : BOOLEAN, chunked : BOOLEAN,
           faulty : BOOLEAN] : m.direct => m.chunked }

VARIABLES
  img,
  mode,          \* how pixels are written; faulty: the file may refuse
  bufLen,        \* per strip: the length of the buffer it is written from
  stage,         \* where encodeFinish, and libtiff under it, is
  landed,        \* the pieces of pixel data that are in the file
  short,         \* those that are taken for written, and were cut short
  refused,       \* those whose request failed
  dropped,       \* those under way when the rings were given up
  size,          \* size of the file
  fd,            \* "direct", "buffered" or "closed"
  simulateWrite, off, numSimulatedWrites,
  stripOffset,   \* td_stripoffset_p: where libtiff put its strips
  diroff,        \* tif_diroff, 0 before the directory has a place
  link,          \* tiff_diroff of the header in the file
  extents,       \* what libtiff has written to the file
  flushed,       \* TIFFFlush was successful so far
  encoded        \* IMAGE_FORMAT_ENCODED_PIXELS

simVars  == <<simulateWrite, off, numSimulatedWrites>>
pieceVars == <<landed, short, refused, dropped>>
fileVars == <<pieceVars, size, fd, link, extents>>
tiffVars == <<stripOffset, diroff, flushed, encoded>>
inputVars == <<img, mode, bufLen>>
vars == <<inputVars, stage, fileVars, simVars, tiffVars>>

-----------------------------------------------------------------------------
(* The pixel data: chunks, or strips when the file is not chunked. *)
Pieces ==
  IF mode.chunked THEN 0 .. CeilDiv(DataEnd(img), WRTSIZE) - 1
                  ELSE 0 .. NumStrips(img) - 1

LesserOf(a, b) == IF a < b THEN a ELSE b
GreaterOf(a, b) == IF a < b THEN b ELSE a

LargestOf(S) == CHOOSE x \in S : \A y \in S : y <= x

(* Bytes of strip s in the file, the header included in strip 0. *)
StripLen(s) == LogicalLen(img, s) + (IF s = 0 THEN HeaderSize ELSE 0)

StripBegin(s) == StripOffset(s = 0, LogicalOffset(img, s))

PieceBegin(p) == IF mode.chunked THEN p * WRTSIZE ELSE StripBegin(p)

(* A direct write is as long as the buffer was allocated. *)
PieceEnd(p) ==
  IF ~mode.chunked THEN StripBegin(p) + bufLen[p]
  ELSE IF mode.direct THEN (p + 1) * WRTSIZE
  ELSE LesserOf((p + 1) * WRTSIZE, DataEnd(img))

EndOfAll(pieces) == LargestOf({0} \cup { PieceEnd(p) : p \in pieces })

(* A write that is cut short leaves n bytes of the piece in the file, none *)
(* of a chunk behind the cut.                                              *)
Cuts(p) == { n \in ShortWrites : PieceBegin(p) + n < PieceEnd(p) }

ShortEnd(p, n) == IF n = 0 THEN 0 ELSE PieceBegin(p) + n

(* Requests of io_uring that the kernel has not answered. *)
Outstanding == Pieces \ (landed \cup short \cup refused)

(* getPoolBuffer: a buffer for strip s is new and has its length, or is a  *)
(* recycled one that is large enough and keeps the length it was made with *)
(* for a strip whose write has been completed.                             *)
BufferLens(s, done) ==
  {StripLen(s)} \cup { StripLen(r) : r \in { r \in done : StripLen(r) >= StripLen(s) } }

(* encodeFinish runs when all pieces have been written or, with io_uring,  *)
(* submitted.  A write without io_uring that is known to have failed       *)
(* aborts the program before (see BenchDriver).                            *)
Init ==
  /\ img \in Images /\ mode \in Modes
  /\ stage = "reopen"
  /\ landed \in SUBSET Pieces
  /\ short \in IF mode.faulty THEN SUBSET (Pieces \ landed) ELSE {{}}
  /\ refused \in IF mode.faulty THEN SUBSET (Pieces \ (landed \cup short)) ELSE {{}}
  /\ ~mode.asynch => landed \cup short = Pieces
  /\ dropped = {}
  /\ IF mode.chunked THEN bufLen = <<>>
     ELSE /\ bufLen \in [Pieces -> { StripLen(s) : s \in Pieces }]
          /\ \A s \in Pieces : bufLen[s] \in BufferLens(s, landed \cup short)
  /\ \E cut \in [short -> ShortWrites] :
       /\ \A p \in short : cut[p] \in Cuts(p)
       /\ size = LargestOf({EndOfAll(landed)} \cup { ShortEnd(p, cut[p]) : p \in short })
  /\ fd = IF mode.direct THEN "direct" ELSE "buffered"
  /\ simulateWrite = FALSE /\ off = 0 /\ numSimulatedWrites = 0
  /\ stripOffset = <<>> /\ diroff = 0 /\ link = 0 /\ extents = {}
  /\ flushed = TRUE /\ encoded = FALSE

(* The first piece holds the header, which the program made itself and     *)
(* whose link is 0.                                                        *)
Land(p) ==
  /\ p \in Outstanding
  /\ landed' = landed \cup {p}
  /\ size' = GreaterOf(size, PieceEnd(p))
  /\ link' = IF p = 0 THEN 0 ELSE link
  /\ UNCHANGED <<inputVars, stage, short, refused, dropped, fd, extents,
                 simVars, tiffVars>>

(* A completion with fewer bytes than were asked for counts as success.    *)
(* (A link of which some bytes are overwritten is no link any more.)       *)
LandShort(p) ==
  /\ mode.faulty /\ p \in Outstanding
  /\ short' = short \cup {p}
  /\ \E n \in Cuts(p) :
       /\ size' = GreaterOf(size, ShortEnd(p, n))
       /\ link' = IF p = 0 /\ n > HeaderSize \div 2 THEN 0 ELSE link
  /\ UNCHANGED <<inputVars, stage, landed, refused, dropped, fd, extents,
                 simVars, tiffVars>>

(* A request fails: nobody is told but the one who closes the ring. *)
Refuse(p) ==
  /\ mode.faulty /\ p \in Outstanding
  /\ refused' = refused \cup {p}
  /\ UNCHANGED <<inputVars, stage, landed, short, dropped, size, fd, link,
                 extents, simVars, tiffVars>>

-----------------------------------------------------------------------------
(* FileIOUnix *)

(* seek(offset, SEEK_SET) and seek(0, SEEK_END): the resulting offset. *)
Seek(offset) == IF simulateWrite THEN off ELSE offset

maxSimulatedWrites == NumStrips(img)

(* Mutant: the header is counted as a simulated write, too. *)
SimulateCountAll(n) ==
  /\ simulateWrite
  /\ numSimulatedWrites' = numSimulatedWrites + 1
  /\ simulateWrite' = (numSimulatedWrites' # maxSimulatedWrites)
  /\ off' = off + n
  /\ UNCHANGED fileVars

(* Mutant: the header does not move the offset. *)
SimulateNoHeader(n) ==
  /\ simulateWrite
  /\ numSimulatedWrites' = numSimulatedWrites + (IF stage # "open" THEN 1 ELSE 0)
  /\ simulateWrite' = (numSimulatedWrites' # maxSimulatedWrites)
  /\ off' = IF stage # "open" THEN off + n ELSE off
  /\ UNCHANGED fileVars

(* Mutant: the simulation ends one write late. *)
SimulateOneMore(n) ==
  /\ simulateWrite
  /\ numSimulatedWrites' = numSimulatedWrites + (IF off # 0 THEN 1 ELSE 0)
  /\ simulateWrite' = (numSimulatedWrites' # maxSimulatedWrites + 1)
  /\ off' = off + n
  /\ UNCHANGED fileVars

(* write() in simulation; a write at offset 0 is that of the header. *)
Simulate(n) ==
  /\ simulateWrite
  /\ numSimulatedWrites' = numSimulatedWrites + (IF off # 0 THEN 1 ELSE 0)
  /\ simulateWrite' = ~(off # 0 /\ numSimulatedWrites' = maxSimulatedWrites)
  /\ off' = off + n
  /\ UNCHANGED fileVars

(* A direct descriptor refuses what is not aligned. *)
CanWrite == simulateWrite \/ fd = "buffered"

(* seek() to a place and write() n bytes of a part of the TIFF file there. *)
SeekAndWrite(place, n, part) ==
  \/ Simulate(n)
  \/ /\ ~simulateWrite /\ fd = "buffered"
     /\ extents' = extents \cup {[at |-> place, len |-> n, part |-> part]}
     /\ size' = GreaterOf(size, place + n)
     /\ link' = IF part = "link" THEN diroff' % TiffLimit ELSE link
     /\ UNCHANGED <<pieceVars, fd, simVars>>

(* Sums of offsets and lengths have the width of a classic TIFF. *)
Exceeds(offset, n) == (offset + n) % TiffLimit < GreaterOf(offset, n)

-----------------------------------------------------------------------------
(* encodeFinish *)

(* Mutant: a direct file is not reopened. *)
ReopenNot ==
  /\ stage = "reopen"
  /\ simulateWrite' = TRUE
  /\ stage' = "open"
  /\ UNCHANGED <<inputVars, fileVars, off, numSimulatedWrites, tiffVars>>

(* reopenAsBuffered and enableSimulateWrite.  Where reopenAsBuffered seeks *)
(* to does not matter: libtiff seeks before it writes.                     *)
Reopen ==
  /\ stage = "reopen"
  /\ fd' = "buffered"
  /\ simulateWrite' = TRUE
  /\ stage' = "open"
  /\ UNCHANGED <<inputVars, pieceVars, size, link, extents, off,
                 numSimulatedWrites, tiffVars>>

(* The file cannot be opened again: encodeFinish returns false. *)
ReopenFails ==
  /\ stage = "reopen" /\ mode.direct /\ mode.faulty
  /\ fd' = "closed"
  /\ stage' = "returned"
  /\ UNCHANGED <<inputVars, pieceVars, size, link, extents, simVars, tiffVars>>

(* TIFFClientOpen writes its header. *)
ClientOpen ==
  /\ stage = "open"
  /\ SeekAndWrite(Seek(0), HeaderSize, "header")
  /\ stage' = "strips"
  /\ UNCHANGED <<inputVars, tiffVars>>

NextStrip == Len(stripOffset)

(* TIFFWriteEncodedStrip of the next strip, without data: TIFFAppendToStrip *)
(* puts it at the end of the file.                                         *)
WriteStrip ==
  /\ stage = "strips" /\ NextStrip < NumStrips(img)
  /\ ~Exceeds(Seek(size), LogicalLen(img, NextStrip))
  /\ Simulate(LogicalLen(img, NextStrip))
  /\ stripOffset' = Append(stripOffset, Seek(size))
  /\ UNCHANGED <<inputVars, stage, diroff, flushed, encoded>>

(* The strip ends behind what a TIFF can address, or is written for real,  *)
(* which fails with no data: encodeFinish returns false, libtiff is never  *)
(* closed.                                                                 *)
WriteStripFails ==
  /\ stage = "strips" /\ NextStrip < NumStrips(img)
  /\ \/ Exceeds(Seek(size), LogicalLen(img, NextStrip))
     \/ ~simulateWrite
  /\ stage' = "returned"
  /\ UNCHANGED <<inputVars, fileVars, simVars, tiffVars>>

EndStrips ==
  /\ stage = "strips" /\ NextStrip = NumStrips(img)
  /\ stage' = "drain"
  /\ UNCHANGED <<inputVars, fileVars, simVars, tiffVars>>

(* Mutant: close() does not wait for the rings. *)
CloseRingsAtOnce ==
  /\ stage = "drain"
  /\ stage' = "link"
  /\ UNCHANGED <<inputVars, fileVars, simVars, tiffVars>>

(* FileIOUring::close: waits for what was submitted, but leaves its loop   *)
(* at the first request that failed, whatever is still under way; then the *)
(* ring is gone.  Which of the workers' rings a piece is in is left open.  *)
ReapRings ==
  /\ Outstanding = {} \/ refused # {}
  /\ dropped' = dropped \cup Outstanding

(* close(): closeThreadSerializers (see ParallelEncode), then TIFFClose. *)
CloseRings ==
  /\ stage = "drain" /\ ReapRings
  /\ stage' = "link"
  /\ UNCHANGED <<inputVars, landed, short, refused, size, fd, link, extents,
                 simVars, tiffVars>>

-----------------------------------------------------------------------------
(* TIFFClose: TIFFFlush writes the directory, whatever comes of it the     *)
(* file is closed.                                                         *)

(* TIFFLinkDirectory: the directory goes to the end of the file, on an     *)
(* even offset, and the header gets its offset.                            *)
LinkDirectory ==
  /\ stage = "link" /\ CanWrite
  /\ diroff' = ((Seek(size) + 1) \div 2) * 2
  /\ SeekAndWrite(HeaderSize \div 2, HeaderSize \div 2, "link")
  /\ IF Exceeds(diroff', DirSize)
     THEN stage' = "close" /\ flushed' = FALSE
     ELSE stage' = "arrays" /\ UNCHANGED flushed
  /\ UNCHANGED <<inputVars, stripOffset, encoded>>

(* The offsets and lengths of the strips; those of one strip are in the    *)
(* directory itself.                                                       *)
ArraysAt == diroff + DirSize + (DirSize % 2)
ArraysLen == IF NumStrips(img) = 1 THEN 0 ELSE 2 * NumStrips(img)

WriteArrays ==
  /\ stage = "arrays" /\ CanWrite
  /\ IF Exceeds(ArraysAt, ArraysLen)
     THEN /\ stage' = "close" /\ flushed' = FALSE
          /\ UNCHANGED <<fileVars, simVars>>
     ELSE /\ stage' = "directory" /\ UNCHANGED flushed
          /\ IF ArraysLen = 0 THEN UNCHANGED <<fileVars, simVars>>
             ELSE SeekAndWrite(ArraysAt, ArraysLen, "arrays")
  /\ UNCHANGED <<inputVars, stripOffset, diroff, encoded>>

WriteDirectory ==
  /\ stage = "directory" /\ CanWrite
  /\ SeekAndWrite(diroff, DirSize, "directory")
  /\ stage' = "close"
  /\ UNCHANGED <<inputVars, tiffVars>>

(* One of these writes fails. *)
FlushFails ==
  /\ stage \in {"link", "arrays", "directory"}
  /\ mode.faulty \/ ~CanWrite
  /\ flushed' = FALSE
  /\ stage' = "close"
  /\ UNCHANGED <<inputVars, fileVars, simVars, stripOffset, diroff, encoded>>

(* Serializer::close, and encodeFinish returns true: that TIFFFlush failed *)
(* is known to libtiff only.                                               *)
CloseFile ==
  /\ stage = "close"
  /\ fd' = "closed"
  /\ encoded' = TRUE
  /\ stage' = "returned"
  /\ UNCHANGED <<inputVars, pieceVars, size, link, extents, simVars, stripOffset,
                 diroff, flushed>>

(* FileIOUnix::close: fsync fails, and its assertion ends the program.     *)
(* close is called by reopenAsBuffered, by TIFFClose and, for a file that  *)
(* is still open, by the destructor.                                       *)
FsyncFails ==
  /\ mode.faulty
  /\ \/ stage = "reopen" /\ mode.direct
     \/ stage = "close"
     \/ stage = "returned" /\ fd # "closed"
  /\ stage' = "aborted"
  /\ UNCHANGED <<inputVars, fileVars, simVars, tiffVars>>

(* The main thread deletes the TIFFFormat, which closes the rings if that  *)
(* has not been done, and the file.                                        *)
Delete ==
  /\ stage = "returned" /\ ReapRings
  /\ fd' = "closed"
  /\ stage' = "deleted"
  /\ UNCHANGED <<inputVars, landed, short, refused, size, link, extents,
                 simVars, tiffVars>>

-----------------------------------------------------------------------------
EncodeFinish ==
  \/ Reopen \/ ReopenFails \/ ClientOpen
  \/ WriteStrip \/ WriteStripFails \/ EndStrips
  \/ CloseRings \/ LinkDirectory \/ WriteArrays \/ WriteDirectory
  \/ FlushFails \/ CloseFile

Ended == stage \in {"deleted", "aborted"} /\ UNCHANGED vars

Next ==
  \/ \E p \in Pieces : Land(p) \/ LandShort(p) \/ Refuse(p)
  \/ EncodeFinish
  \/ FsyncFails
  \/ Delete
  \/ Ended

Spec == Init /\ [][Next]_vars

-----------------------------------------------------------------------------
(* Properties *)

TypeOK ==
  /\ img \in Images /\ mode \in Modes
  /\ stage \in {"reopen", "open", "strips", "drain", "link", "arrays",
                "directory", "close", "returned", "deleted", "aborted"}
  /\ DOMAIN bufLen = IF mode.chunked THEN {} ELSE Pieces
  /\ landed \cup short \cup refused \cup dropped \subseteq Pieces
  /\ size \in Nat
  /\ extents \subseteq [at : Nat, len : Nat \ {0},
                        part : {"header", "link", "arrays", "directory"}]
  /\ fd \in {"direct", "buffered", "closed"}
  /\ simulateWrite \in BOOLEAN /\ off \in Nat
  /\ numSimulatedWrites \in 0 .. maxSimulatedWrites
  /\ stripOffset \in Seq(Nat) /\ Len(stripOffset) <= NumStrips(img)
  /\ diroff \in Nat /\ link \in 0 .. TiffLimit - 1
  /\ flushed \in BOOLEAN /\ encoded \in BOOLEAN

(* The directory sends a reader to where the pixels are: the offset that   *)
(* libtiff believes it wrote a strip to is the one at which the program    *)
(* did write it, though the two are computed independently.                *)
StripOffsetsMatch ==
  \A k \in DOMAIN stripOffset :
    stripOffset[k] = HeaderSize + LogicalOffset(img, k - 1)

(* The simulation ends exactly between the last strip and the directory:   *)
(* no strip is ever written for real, and no part of the directory in      *)
(* simulation ("offset 0 write is for file header").                       *)
SwitchInTime ==
  /\ stage = "strips" => (simulateWrite <=> NextStrip < NumStrips(img))
  /\ stage \in {"drain", "link", "arrays", "directory"} => ~simulateWrite

(* Pixels whose write was, or will be, answered with success: not those of *)
(* a request that was cut short or failed, and not those that were given   *)
(* up with a ring.                                                         *)
Sound == Pieces \ (short \cup refused \cup dropped)

(* What libtiff writes never touches such pixels: only the link in the     *)
(* header lies in front of their end.  The pixels of a ring that was given *)
(* up have no such promise: the directory goes to the end of a file that   *)
(* they have not reached, and they may arrive on top of it.                *)
DirectoryBehindData ==
  \A e \in extents : e.part # "link" => \A p \in Sound : PieceEnd(p) <= e.at

(* Whenever libtiff could write its directory, and no write of pixels      *)
(* failed or was cut short, the file is a TIFF in the end: all pixels are  *)
(* in it, the directory knows all strips, and the link in the header was   *)
(* not overwritten by the program's own header.                            *)
Readable ==
  stage = "deleted" /\ encoded /\ flushed /\ short \cup refused = {} =>
    /\ landed = Pieces
    /\ Len(stripOffset) = NumStrips(img)
    /\ link = diroff
    /\ [at |-> diroff, len |-> DirSize, part |-> "directory"] \in extents
    /\ \A d, e \in extents : d # e => d.at + d.len <= e.at \/ e.at + e.len <= d.at

(* A file the disk did not refuse lacks its directory only if it, arrays   *)
(* included, does not fit into a classic TIFF.                             *)
LostAtLimitOnly ==
  stage = "deleted" /\ ~mode.faulty =>
    (encoded /\ flushed <=>
       LET end == ((EndOfAll(Pieces) + 1) \div 2) * 2 + DirSize + (DirSize % 2)
       IN  end + ArraysLen < TiffLimit)

=============================================================================
