SPECIFICATION Spec
CONSTANTS
  Structs <- MCStructs
  Files <- MCFiles
  SearchPaths <- MCPaths
  SysSearchPaths <- MCPaths
  Sources <- MCSources
  Objects <- MCObjects
  Inputs <- MCInputs
  Base = 8224
  Bottom = 7712
  S = 8213
  Back = 16962
  Frame = 21554
  Free = 40960
INVARIANT Means
CHECK_DEADLOCK FALSE
