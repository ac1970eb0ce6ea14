SPECIFICATION FairSpec
CONSTANTS
  n1 = n1
  n2 = n2
  n3 = n3
  Nodes <- MCNodes
  QueueUsers <- MCUsers
  Data <- MCData
  MaxNumbers = 3
  MaxThreads = 3
  NULL = NULL
  NoData = NoData
  NoUser = NoUser
  NoThread = NoThread
INVARIANTS TypeOK ListIsWellFormed RowsFollowInput NumbersAreInOnePlace
  NoCrashAlone PrintsCompleteRows
PROPERTIES Termination
\* the program ends or crashes
CHECK_DEADLOCK FALSE
