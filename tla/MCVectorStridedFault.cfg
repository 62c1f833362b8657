CONSTANTS
  NumRegs <- MCNumRegs
  Instrs <- StridedFaults
  Shown <- ShownInstrs
  InitRegs <- MCInitRegs
  VLs = {1, 2, 3, 4, 5}
  FaultWords = {128}
  NoInstr = NoInstr
  MaxIssue = 2
SPECIFICATION FairSpec
PROPERTY LoadAnswered
