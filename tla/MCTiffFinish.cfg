SPECIFICATION Spec
CONSTANTS
  WRTSIZE = 16
  HeaderSize = 2
  NominalStripHeight = 4
  TiffLimit = 64
  DirSize = 6
  ShortWrites = {0, 3}
  Images <- MCImages
INVARIANTS
  TypeOK
  StripOffsetsMatch
  SwitchInTime
  DirectoryBehindData
  Readable
  LostAtLimitOnly
