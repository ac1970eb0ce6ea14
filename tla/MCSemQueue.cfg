SPECIFICATION FairSpec
CONSTANTS
  p1 = p1
  p2 = p2
  c1 = c1
  c2 = c2
  c3 = c3
  Producers <- MCProducers
  Consumers <- MCConsumers
  NoThread = NoThread
  MaxPushes = 4
  SemMax = 4
INVARIANTS TypeOK SemaphoreAccounting FrontDefined RemovesWhatItRead
PROPERTIES ImplementsFifo EveryItemIsTaken
\* consumers block in pop for ever once the producers are done
CHECK_DEADLOCK FALSE
