SPECIFICATION FairSpec
CONSTANTS
  n1 = n1
  n2 = n2
  n3 = n3
  Nodes <- MCNodes
  QueueUsers <- MCUsers
  Data <- MCData
  MaxNumbers = 3
  MaxThreads = 3
  NULL = NULL
  NoData = NoData
  NoUser = NoUser
  NoThread = NoThread
INVARIANTS QueueIsNotEmpty
\* the program ends or crashes
CHECK_DEADLOCK FALSE
