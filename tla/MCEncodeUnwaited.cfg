SPECIFICATION Spec
CONSTANTS
  Workers = {w1, w2}
  NoStrip = NoStrip
  Async = TRUE
  IOErrors = TRUE
  WRTSIZE = 8
  HeaderSize = 1
  NominalStripHeight = 2
  Height = 9
  RowBytes = 2
  CHUNKED = TRUE
  Strips <- MCStrips
  Chunks <- MCChunks
  ChunksOf <- MCChunksOf
  MaxPixelWrites <- MCMaxPixelWrites
INVARIANT CloseWaits
