SPECIFICATION BufferSpec
CONSTANTS
  Workers = {w1, w2}
  NoStrip = NoStrip
  Async = TRUE
  IOErrors = TRUE
  WRTSIZE = 8
  HeaderSize = 1
  NominalStripHeight = 2
  Height = 5
  RowBytes = 1
  CHUNKED = FALSE
  Strips <- MCStrips
  Chunks <- MCChunks
  ChunksOf <- MCChunksOf
  MaxPixelWrites <- MCMaxPixelWrites
  Chunked <- CHUNKED
  Direct = FALSE
  HeaderLength <- HeaderSize
  Offset <- MCOffset
  Length <- MCLength
  AllocLength <- MCAllocLength
  StripBytes <- MCStripBytes
  FileSize <- MCFileSize
  Positions <- MCPositions
  ShortWrites = {1}
  Hole = Hole
  Stale = Stale
SYMMETRY Symmetry
INVARIANTS
  FileBytes
  NoLeak
