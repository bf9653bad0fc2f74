\* One CPU: a fork runs to its end before any other task is polled.
CONSTANTS
  c1 = c1
  c2 = c2
  NoCpu = NoCpu
  CPUs <- MCCPUs1
  MaxThreads = 4
  MaxTid = 3
  DebugTid <- MCDebugTid
  DebugPid <- MCDebugPid
  RegisterIds <- MCDebugId
  DebugCalls = 1
SPECIFICATION Spec
SYMMETRY CpuSymmetry
INVARIANT IdsUnique
\* Every thread may exit: the executors then idle on an empty queue.
CHECK_DEADLOCK FALSE
