SPECIFICATION Spec
CONSTANTS
  Words <- MCWords
  OldFlags <- MCOldFlags
INVARIANT
  OverflowAsDocumented
CHECK_DEADLOCK FALSE
