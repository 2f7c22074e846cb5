SPECIFICATION Spec
CONSTANTS
  BlockSize = 4
  EntrySize = 2
  Word = 16
  DirBlocks = 2
  FsSize = 80
  Directories <- MCDirectories
  FileNames = {"a", "b", "c", "L", "LL"}
  Names = {"a", "b", "c", "L", "z"}
  Long = {"L", "LL"}
  Cut = "L"
  Misread <- MCMisread
  Pieces = {3, 8}
INVARIANTS
  Finds
  Loads
  ReadsDisk
CHECK_DEADLOCK FALSE
