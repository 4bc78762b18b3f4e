SPECIFICATION Spec
CONSTANTS
  Workers = {w1, w2}
  NoStrip = NoStrip
  Async = TRUE
  IOErrors = FALSE
  WRTSIZE = 8
  HeaderSize = 1
  NominalStripHeight = 2
  Height = 6
  RowBytes = 9
  CHUNKED = TRUE
  Strips <- MCStrips
  Chunks <- MCChunks
  ChunksOf <- MCChunksOf
  MaxPixelWrites <- MCMaxPixelWrites
INVARIANTS
  TypeOK
  OneVector
  RingOwnership
  EncodePixelsSucceeds
  DirectoryAfterData
  CloseWaits
PROPERTIES
  SealedIsFinal
  Completes
  ImplementsFile
