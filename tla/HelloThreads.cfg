SPECIFICATION Spec
CONSTANT MaxThreads = 4
INVARIANTS TypeOK NoThreadOutlivesMain StatusTellsTheTruth
