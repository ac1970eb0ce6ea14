SPECIFICATION FairSpec
CONSTANTS
  Arguments <- MCArguments
  UInt16 = 4
INVARIANTS TypeOK InOrderExactlyOnce EveryKeyIsRegistered StopIsLast
  NoUseAfterDelete AllDeliveredAtExit
PROPERTIES ImplementsDelivery Termination
\* the program ends
CHECK_DEADLOCK FALSE
