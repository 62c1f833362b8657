CONSTANTS
  NumWords = 4
  Depth = 2
  Configs <- Programs
  OnBus <- Proper
  FaultWords = {1, 2, 3}
  PmpWords = {2}
  Handler = 6
  NoWord = NoWord
  RegionOf <- MCRegionOf
  Window = 2
  SlowMax = 1
  ExtTimeout = 1
  DataRequests <- MCData
  FIFO_DEPTH = 4
  Data = {d1, d2, d3}
SPECIFICATION MCFairSpec
INVARIANTS TypeOK OneFetch InStep RestartKept FaultReal FifoTypeOK StatusConsistent
PROPERTIES ImplementsOrder Supplied ImplementsFrontEnd FetchTerminated ImplementsQueue
