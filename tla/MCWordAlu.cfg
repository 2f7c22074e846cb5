SPECIFICATION Spec
CONSTANTS
  Words <- MCWords
  OldFlags <- MCOldFlags
INVARIANTS
  WordResult
  JumpsCompare
  ChipsAgree
CHECK_DEADLOCK FALSE
