SPECIFICATION Spec
CONSTANTS
  Fill <- MCFill
  Sample <- MCSample
  Fields <- MCFields
  FlagBytes <- MCFlagBytes
  Garbage <- AnyEntry
INVARIANTS NoDoubleWrite Sequenced SameMachine
CHECK_DEADLOCK FALSE
