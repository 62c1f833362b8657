CONSTANTS
  NumRegs <- MCNumRegs
  Instrs <- AllInstrs
  Shown <- ShownInstrs
  InitRegs <- MCInitRegs
  VLs = {1, 2, 3, 4, 5}
  FaultWords = {128}
  NoInstr = NoInstr
  MaxIssue = 2
SPECIFICATION FairSpec
INVARIANTS TypeOK Released OneOutstanding FaultPrecise
PROPERTIES BusStable ImplementsIsa Completes FaultTaken
