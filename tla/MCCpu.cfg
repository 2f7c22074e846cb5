SPECIFICATION Spec
CONSTANTS
  Fill <- MCFill
  Programs <- MCPrograms
  Pages = {0, 1, 2, 3, 4, 5}
  Junk = 90
  MaxMissing = 3
  MaxInstructions = 2
  MaxInterrupts = 2
INVARIANTS StateKept OnlyHandlersUnpaged
PROPERTIES Implements Completes
CHECK_DEADLOCK FALSE
