SPECIFICATION Spec
CONSTANTS
  Workers = {w1, w2}
  NoStrip = NoStrip
  Async = FALSE
  IOErrors = FALSE
  WRTSIZE = 8
  HeaderSize = 1
  NominalStripHeight = 2
  Height = 6
  RowBytes = 4
  CHUNKED = TRUE
  Strips <- MCStrips
  Chunks <- MCChunks
  ChunksOf <- MCChunksOf
  MaxPixelWrites <- MCMaxPixelWrites
INVARIANT EncodePixelsSucceeds
