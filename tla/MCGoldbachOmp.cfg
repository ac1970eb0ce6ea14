SPECIFICATION Spec
CONSTANTS
  Cases <- MCCases
  DefaultThreads = 2
  MaxSumas = 71
  Powers = {10, 100}
INVARIANTS TypeOK SharedByOne FindsFirstBlock
