CONSTANTS
  Radix = 16
  EXE_SIGNATURE <- MCSignature
  Files <- OtherOnly
  Stored <- MCStored
  Keys <- MCKeys
  ImemWords = 2
  SectorBytes = 16
  FlashBytes = 32
  RxDepth = 1
  MaxKeys = 4
  MaxUploads = 1
  MaxResets = 0
  MaxLost = 0
SPECIFICATION Spec
CHECK_DEADLOCK FALSE
INVARIANT SavedIsBootable
