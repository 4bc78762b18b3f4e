---------------------------- MODULE MCTiffFinish ----------------------------
(***************************************************************************)
(* TiffFinish for small images that are divided and counted correctly, on  *)
(* both sides of the size a TIFF can address.                              *)
(***************************************************************************)
EXTENDS TiffFinish

MCImages ==
  { image \in [height : 1 .. 9, rowBytes : {1, 3, 5, 9}] :
      /\ ~IsAligned(DataEnd(image))
      /\ CeilDiv(DataEnd(image), WRTSIZE) = NumUniqueChunks(image) }

=============================================================================
