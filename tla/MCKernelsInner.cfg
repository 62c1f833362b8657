CONSTANTS
  Calls <- InnerCalls
  Memory <- MCMemory
SPECIFICATION Spec
CHECK_DEADLOCK FALSE
INVARIANT InnerProductStored
