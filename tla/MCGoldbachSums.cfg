SPECIFICATION Spec
CONSTANTS
  t1 = t1
  t2 = t2
  Threads <- MCThreads
  Serial = t1
  Inputs <- MCInputs
  MaxSumas = 71
  Powers = {10, 100}
  MinInt <- MCMinInt
INVARIANTS TypeOK TableTellsTheTruth SumsAreThePartitions CrashesOnlyWithoutRoom
\* the threads end
CHECK_DEADLOCK FALSE
