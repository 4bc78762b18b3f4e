---------------------------- MODULE MCChunkPlan ----------------------------
(* Every image of up to MaxHeight rows of up to MaxRowBytes bytes.         *)
EXTENDS ChunkPlan

CONSTANTS MaxHeight, MaxRowBytes

MCImages == [height : 1 .. MaxHeight, rowBytes : 1 .. MaxRowBytes]

=============================================================================
