SPECIFICATION Spec
CONSTANTS
  c1 = c1
  c2 = c2
  Clients <- MCClients
  Demands <- MCDemands
  Addresses = 2
  Backlog = 1
INVARIANT CompleteRequestReceived
\* the server waits for clients, and may stop
CHECK_DEADLOCK FALSE
