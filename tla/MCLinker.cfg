SPECIFICATION Spec
CONSTANTS
  Commands <- MCCommands
  FileSlots = 4
  BssNames = {"bss"}
  NameOrder <- MCNameOrder
INVARIANTS
  KeepsWhatIsNeeded
  GivesUpOnlyWhenUndefined
  Placed
  Relocated
PROPERTIES
  Finishes
CHECK_DEADLOCK FALSE
