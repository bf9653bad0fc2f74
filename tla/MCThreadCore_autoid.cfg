\* debug_threading registering its thread with id 0 ("assign automatically").
CONSTANTS
  c1 = c1
  c2 = c2
  NoCpu = NoCpu
  CPUs <- MCCPUs1
  MaxThreads = 2
  MaxTid = 2
  DebugTid <- MCDebugTid
  DebugPid <- MCDebugPid
  RegisterIds <- MCAutoId
  DebugCalls = 1
SPECIFICATION FairSpec
PROPERTY RegisterReturns
\* The CPU spinning in register stops the system: that is the finding.
CHECK_DEADLOCK FALSE
