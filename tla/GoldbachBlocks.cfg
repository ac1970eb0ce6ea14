\* Up to five numbers and three threads: divisions with and without a
\* remainder, fewer numbers than threads, none of either.  With 8 values of
\* size_t, 0 - 1 wraps far beyond the rows.
SPECIFICATION FairSpec
CONSTANTS
  SizeT = 8
  MaxNumbers = 5
  MaxThreads = 3
INVARIANTS TypeOK NoCrash RowsAreOwned PrintsCompleteRows
PROPERTIES Termination
\* the program ends or crashes
CHECK_DEADLOCK FALSE
