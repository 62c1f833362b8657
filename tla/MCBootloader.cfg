CONSTANTS
  Radix = 16
  EXE_SIGNATURE <- MCSignature
  Files <- MCFiles
  Stored <- MCStored
  Keys <- MCKeys
  ImemWords = 2
  SectorBytes = 24
  FlashBytes = 24
  RxDepth = 1
  MaxKeys = 4
  MaxUploads = 1
  MaxResets = 1
  MaxLost = 1
SPECIFICATION Spec
CHECK_DEADLOCK FALSE
INVARIANTS TypeOK BootsWholeImage SavedIsBootable FlashReady StalledQuietly
PROPERTIES BootsUnattended
