CONSTANTS
  Adr = {0, 1, 2, 3, 4, 5, 6}
  Succ <- MCSucc
  Targets = {0}
  Programs <- MCPrograms
  Irqs = {"firq0", "mti"}
  Firqs = {"firq0"}
  mti = "mti"
  Masks <- MCMasks
  Rank <- MCRank
  Kept <- MCKept
  BootAddr = 0
  mtvec = 2
  DebugAddr = 4
  ExceptionAddr = 5
  Trigger = {1}
SPECIFICATION FairSpec
INVARIANT TypeOK
PROPERTIES ImplementsTrapOrder InterruptsServed
