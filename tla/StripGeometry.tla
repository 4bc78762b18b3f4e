--------------------------- MODULE StripGeometry ---------------------------
(***************************************************************************)
(* Where the strips of an image and the chunks of a strip lie in the       *)
(* file: the arithmetic of ImageStripper's constructor and of ChunkInfo    *)
(* (src/src/io/ImageStripper.h).                                           *)
(*                                                                         *)
(* An image is a record of its height in rows and of the bytes of one      *)
(* packed row; strips are numbered from 0.  Offsets are bytes of the file. *)
(***************************************************************************)
EXTENDS Integers

CONSTANTS
  WRTSIZE,             \* bytes of a full chunk (IFileIO.h: 32 K)
  HeaderSize,          \* bytes of the TIFF header in front of strip 0 (8)
  NominalStripHeight   \* rows of every strip but the last (iobench.cpp: 32)

(***************************************************************************)
(* What the program's own constants satisfy.  The second and third         *)
(* conjuncts are what keeps the boundary between two strips off every      *)
(* chunk boundary: a strip holds a multiple of NominalStripHeight bytes,   *)
(* which divides WRTSIZE, and the header is shorter than that.             *)
(***************************************************************************)
ASSUME GeometryAssumption ==
  /\ WRTSIZE \in Nat /\ HeaderSize \in Nat /\ NominalStripHeight \in Nat
  /\ 0 < HeaderSize /\ HeaderSize < NominalStripHeight
  /\ WRTSIZE > 0 /\ WRTSIZE % NominalStripHeight = 0

IsAligned(offset) == offset % WRTSIZE = 0

CeilDiv(a, b) == (a + b - 1) \div b

-----------------------------------------------------------------------------
(* ImageStripper *)

NumStrips(img) == CeilDiv(img.height, NominalStripHeight)

(* Mutant: the last strip of an image of full strips is empty. *)
StripHeightOfRest(img, s) ==
  IF s < NumStrips(img) - 1 THEN NominalStripHeight
                            ELSE img.height % NominalStripHeight

StripHeight(img, s) ==
  IF s < NumStrips(img) - 1 \/ img.height % NominalStripHeight = 0
  THEN NominalStripHeight
  ELSE img.height % NominalStripHeight

LogicalOffset(img, s) == s * NominalStripHeight * img.rowBytes

LogicalLen(img, s) == StripHeight(img, s) * img.rowBytes

(* Mutant: the last chunk, when it is not full, is not counted. *)
NumFullChunks(img) == (img.rowBytes * img.height) \div WRTSIZE

(* The number of chunk writes after which the image counts as encoded.     *)
NumUniqueChunks(img) == CeilDiv(img.rowBytes * img.height, WRTSIZE)

-----------------------------------------------------------------------------
(* ChunkInfo: the file range of one strip, the header included in strip 0. *)

(* Mutant: the header moves strip 0 only. *)
StripOffsetNoHeader(isFirst, logicalOffset) ==
  IF isFirst THEN 0 ELSE logicalOffset

StripOffset(isFirst, logicalOffset) ==
  IF isFirst THEN 0 ELSE HeaderSize + logicalOffset

StripEnd(isFirst, logicalOffset, logicalLen) ==
  StripOffset(isFirst, logicalOffset) + logicalLen
    + (IF isFirst THEN HeaderSize ELSE 0)

LastBegin(isFirst, logicalOffset, logicalLen) ==
  (StripEnd(isFirst, logicalOffset, logicalLen) \div WRTSIZE) * WRTSIZE

(* first is the part of the strip in the chunk it starts in, last the part *)
(* in the chunk it ends in; they overlap when that is the same chunk.      *)
ChunkInfo(img, s) ==
  LET isFirst  == s = 0
      end      == StripEnd(isFirst, LogicalOffset(img, s), LogicalLen(img, s))
      leftLast == IF isFirst THEN 0
                  ELSE LastBegin(FALSE, LogicalOffset(img, s - 1),
                                        LogicalLen(img, s - 1))
      firstEnd == leftLast + WRTSIZE
  IN  [ isFirst |-> isFirst,
        isFinal |-> s = NumStrips(img) - 1,
        first   |-> [ x0 |-> StripOffset(isFirst, LogicalOffset(img, s)),
                      x1 |-> IF firstEnd < end THEN firstEnd ELSE end ],
        last    |-> [ x0 |-> LastBegin(isFirst, LogicalOffset(img, s),
                                                LogicalLen(img, s)),
                      x1 |-> end ] ]

DimLen(dim) == dim.x1 - dim.x0

HasFirstSeam(ci) == ~ci.isFirst /\ ~IsAligned(ci.first.x0)

HasLastSeam(ci) == ~ci.isFinal /\ ~IsAligned(ci.last.x1)

(* The part of the strip in chunks it shares with no neighbour. *)
NonSeam(ci) ==
  [ x0 |-> IF HasFirstSeam(ci) THEN ci.first.x1 ELSE ci.first.x0,
    x1 |-> IF HasLastSeam(ci)  THEN ci.last.x0  ELSE ci.last.x1 ]

NumChunks(ci) ==
  IF ci.first.x1 = ci.last.x1 THEN 1
  ELSE CeilDiv(DimLen(NonSeam(ci)), WRTSIZE)
         + (IF HasFirstSeam(ci) THEN 1 ELSE 0)
         + (IF HasLastSeam(ci)  THEN 1 ELSE 0)

(* The cells of WRTSIZE bytes of the file that strip s overlaps. *)
CellsOf(img, s) ==
  LET ci    == ChunkInfo(img, s)
      cell0 == ci.first.x0 \div WRTSIZE
  IN  cell0 .. cell0 + NumChunks(ci) - 1

(* The assertions of the constructor and of numChunks(). *)
ChunkInfoAsserts(ci) ==
  LET overlap == ci.first.x1 = ci.last.x1
  IN  /\ IsAligned(ci.last.x0)
      /\ overlap \/ (ci.last.x0 - ci.first.x1) % WRTSIZE = 0
      /\ overlap \/ ci.first.x1 <= ci.last.x0
      /\ DimLen(ci.first) >= 0 /\ DimLen(ci.last) >= 0
      /\ overlap \/ /\ DimLen(NonSeam(ci)) >= 0
                    /\ IsAligned(NonSeam(ci).x0)
                    /\ ci.isFinal \/ IsAligned(NonSeam(ci).x1)
                    /\ NumChunks(ci) > 1

=============================================================================
