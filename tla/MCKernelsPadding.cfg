CONSTANTS
  Calls <- PaddedConv
  Memory <- MCMemory
SPECIFICATION Spec
CHECK_DEADLOCK FALSE
INVARIANT PaddingIsZero
