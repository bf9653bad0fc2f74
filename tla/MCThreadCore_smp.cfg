\* Two CPUs, four Thread objects: the debug thread and up to three forks.
CONSTANTS
  c1 = c1
  c2 = c2
  NoCpu = NoCpu
  CPUs <- MCCPUs2
  MaxThreads = 4
  MaxTid = 3
  DebugTid <- MCDebugTid
  DebugPid <- MCDebugPid
  RegisterIds <- MCDebugId
  DebugCalls = 1
SPECIFICATION Spec
SYMMETRY CpuSymmetry
INVARIANTS TypeOK ContextExclusive ChildLinked
\* Every thread may exit: the executors then idle on an empty queue.
CHECK_DEADLOCK FALSE
