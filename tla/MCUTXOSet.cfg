CONSTANTS
  MaxBlocks = 3
  MaxPending = 2
  Ann = Ann
  Bob = Bob
  Address = {Ann, Bob}
  Subsidy = 2
  MaxTx = 6
  MaxWaiting = 2
  Shell = Shell
  Command1 = Command1
  Command2 = Command2
  Process = {Shell, Command1, Command2}
  MaxKeys = 3
SPECIFICATION USpec
INVARIANTS
  TypeOK
  ScanIsUnspent
  BooksRightWhenClean
  LTypeOK
  
  
  
  NeverFromHalfAFile
  AnnouncedKept
PROPERTY DamageIsKept
CHECK_DEADLOCK FALSE
