CONSTANTS
  NumWords = 4
  Depth = 2
  Configs <- Misaligned
  OnBus <- Misaligned
  FaultWords = {1, 2}
  PmpWords = {}
  Handler = 6
  NoWord = NoWord
  RegionOf <- MCRegionOf
  Window = 2
  SlowMax = 1
  ExtTimeout = 1
  DataRequests <- MCData
  FIFO_DEPTH = 4
  Data = {d1, d2, d3}
SPECIFICATION MCFairSpec
PROPERTY FetchTerminated
