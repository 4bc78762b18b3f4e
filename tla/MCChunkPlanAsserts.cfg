SPECIFICATION Spec
CONSTANTS
  WRTSIZE = 16
  HeaderSize = 2
  NominalStripHeight = 4
  MaxHeight = 18
  MaxRowBytes = 20
  Images <- MCImages
INVARIANT AssertsHold
