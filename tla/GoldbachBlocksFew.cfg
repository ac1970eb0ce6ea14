SPECIFICATION FairSpec
CONSTANTS
  SizeT = 8
  MaxNumbers = 5
  MaxThreads = 3
INVARIANTS RemainderIsLastThreads
\* the program ends or crashes
CHECK_DEADLOCK FALSE
