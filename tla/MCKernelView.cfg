SPECIFICATION Spec
CONSTANTS
  P = 2
  PHYS = 5
  IOPAGE = 0
  WIN = 1
  N_PROC = 2
  N_TLB = 3
  TICKS_TO_SWITCH = 2
  TICKW = 3
  NPC = 4
  Bytes = {0, 1, 255}
  UserRegs <- MCUserAll
  Files = {1}
  FileSize <- MCFileSize
PROPERTIES
  ImplementsView
CHECK_DEADLOCK FALSE
