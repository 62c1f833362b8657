CONSTANTS
  Calls <- MCCalls
  Memory <- MCMemory
SPECIFICATION Spec
CHECK_DEADLOCK FALSE
INVARIANTS TypeOK SameAsScalar LengthConfigured ClobbersDeclared
PROPERTY ImplementsTileLoop
