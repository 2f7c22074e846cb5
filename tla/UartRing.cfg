\* A ring of three places, a queue of two, and up to seven keys.
SPECIFICATION FairSpec
CONSTANTS
  RING = 3
  MAX_Q = 2
  MaxKeys = 7
INVARIANTS
  SizeAccounted
  Fifo
  KeysInOrder
PROPERTIES
  Drains
CHECK_DEADLOCK FALSE
