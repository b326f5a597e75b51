CONSTANTS
  Inputs <- SmallLists
  MaxDamage = 2
  ByteBase = 3
  TextBase = 2
  MaxNumber = 80
  MaxBytes = 6
  Request1 = Request1
  Request2 = Request2
  Request = {Request1, Request2}
  MaxBlock = 4
  Parent <- TwoBranches
  MaxServed = 3
SPECIFICATION DSpec
INVARIANTS
  RootIsReference
  VerifyTreeExact
  VerifyContentSound
  RootCommits
  SplitExact
  Base58Exact
  OlderTreeAgrees
  AloneIsComplete
  NeverTooMuch
CHECK_DEADLOCK FALSE
