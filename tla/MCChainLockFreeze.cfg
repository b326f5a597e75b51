CONSTANTS
  Goroutine = {"tx", "blk", "shell"}
  Shell = {"shell"}
  Scripts <- Balance
SPECIFICATION Spec
PROPERTIES
  FindUTXOReturns
CHECK_DEADLOCK FALSE
