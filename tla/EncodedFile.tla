---------------------------- MODULE EncodedFile ----------------------------
(***************************************************************************)
(* What encoding an image promises, whatever the number of threads and the *)
(* kind of writes: strips are handed over in any order, a chunk is written *)
(* once and only when every strip with a part of it has been handed over,  *)
(* and the TIFF directory is added to a file that holds every chunk.       *)
(* ParallelEncode implements it.                                           *)
(***************************************************************************)
EXTENDS FiniteSets

CONSTANTS
  Strips,    \* the strips of the image
  Chunks,    \* the chunks of the file
  ChunksOf   \* the chunks each strip has a part of

VARIABLES
  filled,    \* the strips whose pixels have been handed over
  onDisk,    \* the chunks that have been written
  sealed     \* the directory has been added and the file closed

vars == <<filled, onDisk, sealed>>

Sharers(c) == { s \in Strips : c \in ChunksOf[s] }

Init == filled = {} /\ onDisk = {} /\ sealed = FALSE

HandOver(s) ==
  /\ s \notin filled
  /\ filled' = filled \cup {s}
  /\ UNCHANGED <<onDisk, sealed>>

(* One vectored write. *)
WriteChunks(C) ==
  /\ C \cap onDisk = {}
  /\ \A c \in C : Sharers(c) \subseteq filled
  /\ onDisk' = onDisk \cup C
  /\ UNCHANGED <<filled, sealed>>

Seal ==
  /\ ~sealed /\ onDisk = Chunks
  /\ sealed' = TRUE
  /\ UNCHANGED <<filled, onDisk>>

Next ==
  \/ \E s \in Strips : HandOver(s)
  \/ \E C \in SUBSET Chunks : WriteChunks(C)
  \/ Seal

Spec == Init /\ [][Next]_vars

=============================================================================
