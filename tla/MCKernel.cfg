SPECIFICATION Spec
CONSTANTS
  P = 3
  PHYS = 7
  IOPAGE = 1
  WIN = 2
  N_PROC = 2
  N_TLB = 3
  TICKS_TO_SWITCH = 2
  TICKW = 3
  NPC = 4
  Bytes = {0, 1, 255}
  UserRegs <- MCUserExec
  Files = {1, 2}
  FileSize <- MCFileSize
INVARIANTS
  TypeOK
  MainNeverReturns
  KernelReaches
  UserSpace
  PagesCounted
  KernelIntact
  SchedFinds
PROPERTIES
  ProgramLoaded
CHECK_DEADLOCK FALSE
