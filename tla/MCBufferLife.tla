---------------------------- MODULE MCBufferLife ----------------------------
(***************************************************************************)
(* BufferLife for the strips and chunks of the image of MCParallelEncode.  *)
(***************************************************************************)
EXTENDS BufferLife, MCParallelEncode

Bytes == HeaderSize + Height * RowBytes

Info(s) == ChunkInfo(Image, s)

BytesOfStrip ==
  [s \in StripNumbers |-> Info(s).first.x0 .. Info(s).last.x1 - 1] @@ <<>>

OffsetOf ==
  [c \in Cells |-> IF CHUNKED THEN c * WRTSIZE ELSE Info(c).first.x0] @@ <<>>

LengthOf ==
  [c \in Cells |-> IF CHUNKED THEN Min({WRTSIZE, Bytes - OffsetOf[c]})
                              ELSE Info(c).last.x1 - OffsetOf[c]] @@ <<>>

AllocLengthOf ==
  [c \in Cells |-> IF CHUNKED THEN WRTSIZE ELSE LengthOf[c]] @@ <<>>

(* A strip written from the longest buffer of another one, or the last     *)
(* chunk with all it has allocated, reaches past the end of the strips.    *)
BytesAndMore ==
  0 .. Max({ OffsetOf[c] : c \in Cells })
         + Max({ AllocLengthOf[c] : c \in Cells }) - 1

MCFileSize == Bytes
MCStripBytes == BytesOfStrip
MCOffset == OffsetOf
MCLength == LengthOf
MCAllocLength == AllocLengthOf
MCPositions == BytesAndMore

ASSUME LayoutAssumption == FileLayout

=============================================================================
