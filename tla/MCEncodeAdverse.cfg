SPECIFICATION BufferSpec
CONSTANTS
  Workers = {w1, w2}
  NoStrip = NoStrip
  Async = TRUE
  IOErrors = TRUE
  WRTSIZE = 2
  HeaderSize = 1
  NominalStripHeight = 2
  Height = 6
  RowBytes = 1
  CHUNKED = TRUE
  Strips <- MCStrips
  Chunks <- MCChunks
  ChunksOf <- MCChunksOf
  MaxPixelWrites <- MCMaxPixelWrites
  Chunked <- CHUNKED
  Direct = TRUE
  HeaderLength <- HeaderSize
  Offset <- MCOffset
  Length <- MCLength
  AllocLength <- MCAllocLength
  StripBytes <- MCStripBytes
  FileSize <- MCFileSize
  Positions <- MCPositions
  ShortWrites = {1}
  Hole = Hole
  Stale = Stale
SYMMETRY Symmetry
INVARIANTS
  WriteOnce
  NoTornChunk
  FinishOnce
  RefsExact
  NoAliasing
  FileBytes
