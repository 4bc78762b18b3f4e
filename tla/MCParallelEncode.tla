-------------------------- MODULE MCParallelEncode --------------------------
(***************************************************************************)
(* ParallelEncode for the strips and chunks of one image, as ImageStripper *)
(* divides it.  With CHUNKED = FALSE every strip is a chunk of its own.    *)
(*                                                                         *)
(* TLC evaluates a definition without parameters once, except for those it *)
(* puts in the place of a constant: hence two names for each.              *)
(***************************************************************************)
EXTENDS ParallelEncode, StripGeometry, TLC

CONSTANTS Height, RowBytes, CHUNKED

Image == [height |-> Height, rowBytes |-> RowBytes]

StripNumbers == 0 .. NumStrips(Image) - 1

CellsOfStrip ==
  [s \in StripNumbers |-> IF CHUNKED THEN CellsOf(Image, s) ELSE {s}] @@ <<>>

Cells == UNION { CellsOfStrip[s] : s \in StripNumbers }

(* ImageFormat::init *)
PixelWrites == IF CHUNKED THEN NumUniqueChunks(Image) ELSE NumStrips(Image)

MCStrips == StripNumbers
MCChunksOf == CellsOfStrip
MCChunks == Cells
MCMaxPixelWrites == PixelWrites

ASSUME PlanAssumption == Runs

(* The workers are interchangeable (for the runs without liveness). *)
Symmetry == Permutations(Workers)

=============================================================================
