\* Two threads of one process make socket calls against two ports.
CONSTANTS
  t1 = t1
  t2 = t2
  NoThread = NoThread
  Threads <- MCThreads
  Ports <- MCPorts
  MaxFds = 3
  MaxStreams = 3
  MaxHandles = 4
  MaxConns = 2
  HasDriver = TRUE
SPECIFICATION FairSpec
PROPERTY AcceptServed
CHECK_DEADLOCK FALSE
