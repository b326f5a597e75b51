CONSTANTS
  Goroutine = {"tx", "blk", "any", "shell"}
  Shell = {"shell"}
  Scripts <- Busy
SPECIFICATION Spec
INVARIANTS
  TypeOK
  StuckOnlyByNesting
PROPERTIES
  ImplementsRWLock
  FreezeOnlyByNesting
CHECK_DEADLOCK FALSE
