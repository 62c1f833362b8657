CONSTANTS
  Adr <- MCAdr
  RegionOf <- MCRegionOf
  Window = 3
  SlowMax = 2
  ExtTimeout = 3
  NoReq = NoReq
SPECIFICATION FairSpec
INVARIANTS TypeOK Watched OneTransfer
PROPERTIES ImplementsPorts ErrorRecorded Terminated
