SPECIFICATION Spec
CONSTANTS
  Cases <- MCTests
  DefaultThreads = 2
  MaxSumas = 71
  Powers = {10, 100}
INVARIANT AllSumsAreCounted
