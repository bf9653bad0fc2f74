-------------------------- MODULE ThreadCoreProofs --------------------------
(***************************************************************************)
(* Proofs about ThreadCore for every value of its constants.               *)
(***************************************************************************)
EXTENDS ThreadCore, TLAPS

(* The program counters at which a CPU polls a thread's future.          *)
TaskPcs == {"take", "dispatch", "signal", "restore", "fork_lock",
            "fork_find", "fork_proc", "fork_reg", "fork_link", "fork_ret"}

(* The locals of a CPU are typed by where it is: the thread it runs, the  *)
(* id fork found, and the thread being created.                           *)
LocalTyped(c) ==
  /\ pc[c] \in TaskPcs => run[c] \in Handles
  /\ pc[c] \in {"fork_find", "fork_proc", "fork_reg", "fork_link", "fork_ret"}
       => cand[c] \in 1 .. MaxTid
  /\ pc[c] \in {"fork_reg", "fork_link", "fork_ret", "reg_lock",
                "reg_find", "reg_insert", "raw_spawn"}
       => child[c] \in Handles

LocalsTyped == \A c \in CPUs : LocalTyped(c)

TypeInv == TypeOK /\ LocalsTyped

LEMMA InitTypeInv == Init => TypeInv
  <1> SUFFICES ASSUME Init PROVE TypeInv
    OBVIOUS
  <1>1. TypeOK
    BY BoundsAssumption, DebugIdsAssumption, DebugCallsAssumption
    DEF Init, TypeOK, Tids, Pids, Handles, NoHandle, CpuPcs, TaskStates
  <1>2. LocalsTyped
    BY DEF Init, LocalsTyped, LocalTyped, TaskPcs
  <1>3. QED
    BY <1>1, <1>2 DEF TypeInv

(* Every step keeps the types, the locals included: one step per action, *)
(* each resting on the few membership facts the action needs.             *)
LEMMA NextTypeInv == TypeInv /\ [Next]_vars => TypeInv'
  <1> SUFFICES ASSUME TypeOK, LocalsTyped, [Next]_vars PROVE TypeInv'
    BY DEF TypeInv
  <1> USE CPUsAssumption, BoundsAssumption, IdSpaceAssumption,
          DebugIdsAssumption, RegisterIdsAssumption, DebugCallsAssumption
  <1>1. ASSUME NEW c \in CPUs, Poll(c) PROVE TypeInv'
    <2>1. Head(queue) \in Handles /\ Tail(queue) \in Seq(Handles)
      BY <1>1 DEF Poll, TypeOK
    <2>5. Head(queue) \in 0 .. MaxThreads
      BY <2>1 DEF Handles
    <2>2. TypeOK'
      BY <2>1, <2>5, <1>1 DEF Poll, Goto, TypeOK, procVars, CpuPcs, TaskStates
    <2>3. ASSUME NEW d \in CPUs PROVE LocalTyped(d)'
      BY <2>1, <1>1 DEF Poll, Goto, TypeOK, LocalsTyped, LocalTyped, TaskPcs, taskVars, procVars
    <2>4. QED
      BY <2>2, <2>3 DEF TypeInv, LocalsTyped
  <1>2. ASSUME NEW c \in CPUs, Take(c) PROVE TypeInv'
    <2>1. run[c] \in Handles
      BY <1>2 DEF Take, Goto, TypeOK, LocalsTyped, LocalTyped, TaskPcs, Handles, Tids, Pids
    <2>2. TypeOK'
      BY <2>1, <1>2 DEF Take, Goto, TypeOK, taskVars, procVars, CpuPcs, TaskStates
    <2>3. ASSUME NEW d \in CPUs PROVE LocalTyped(d)'
      BY <2>1, <1>2 DEF Take, Goto, TypeOK, LocalsTyped, LocalTyped, TaskPcs, taskVars, procVars
    <2>4. QED
      BY <2>2, <2>3 DEF TypeInv, LocalsTyped
  <1>3. ASSUME NEW c \in CPUs, Dispatch(c) PROVE TypeInv'
    <2>1. run[c] \in Handles
      BY <1>3 DEF Dispatch, TypeOK, LocalsTyped, LocalTyped, TaskPcs
    <2>2. /\ task' \in [Handles -> TaskStates]
          /\ shouldYield' \in [Handles -> BOOLEAN]
      <3>1. CASE task' = [task EXCEPT ![run[c]] = "defunct"] /\ shouldYield' = shouldYield
        BY <3>1, <2>1 DEF TypeOK, TaskStates
      <3>2. CASE task' = task /\ \E y \in BOOLEAN : shouldYield' = [shouldYield EXCEPT ![run[c]] = y]
        BY <3>2, <2>1 DEF TypeOK
      <3>3. CASE task' = task /\ shouldYield' = shouldYield
        BY <3>3 DEF TypeOK
      <3>4. QED
        BY <3>1, <3>2, <3>3, <1>3 DEF Dispatch
    <2>6. run' \in [CPUs -> 0 .. MaxThreads]
      <3>1. CASE run' = [run EXCEPT ![c] = NoHandle]
        BY <3>1 DEF TypeOK, NoHandle
      <3>2. CASE run' = run
        BY <3>2 DEF TypeOK
      <3>3. QED
        BY <3>1, <3>2, <1>3 DEF Dispatch
    <2>7. pc' \in [CPUs -> CpuPcs]
      <3>1. \E p \in CpuPcs : pc' = [pc EXCEPT ![c] = p]
        BY <1>3 DEF Dispatch, CpuPcs
      <3>2. QED
        BY <3>1 DEF TypeOK
    <2>3. TypeOK'
      BY <2>2, <2>6, <2>7, <1>3 DEF Dispatch, TypeOK, procVars
    <2>4. ASSUME NEW d \in CPUs PROVE LocalTyped(d)'
      BY <2>1, <1>3 DEF Dispatch, TypeOK, LocalsTyped, LocalTyped, TaskPcs, procVars
    <2>5. QED
      BY <2>3, <2>4 DEF TypeInv, LocalsTyped
  <1>4. ASSUME NEW c \in CPUs, ForkLock(c) PROVE TypeInv'
    <2>1. run[c] \in Handles /\ 1 \in 1 .. MaxTid /\ 1 \in Tids
      BY <1>4 DEF ForkLock, Goto, TypeOK, LocalsTyped, LocalTyped, TaskPcs, Handles, Tids, Pids
    <2>2. TypeOK'
      BY <2>1, <1>4 DEF ForkLock, Goto, TypeOK, taskVars, procVars, CpuPcs, TaskStates
    <2>3. ASSUME NEW d \in CPUs PROVE LocalTyped(d)'
      BY <2>1, <1>4 DEF ForkLock, Goto, TypeOK, LocalsTyped, LocalTyped, TaskPcs, taskVars, procVars
    <2>4. QED
      BY <2>2, <2>3 DEF TypeInv, LocalsTyped
  <1>5. ASSUME NEW c \in CPUs, ForkFind(c) PROVE TypeInv'
    <2>1. cand[c] \in 1 .. MaxTid
      BY <1>5 DEF TypeOK, LocalsTyped, LocalTyped, TaskPcs, ForkFind
    <2>2. cand[c] < MaxTid => cand[c] + 1 \in 1 .. MaxTid
      BY <2>1
    <2>3. cand' \in [CPUs -> {0} \cup Tids]
      BY <2>2, <1>5 DEF ForkFind, TypeOK, Tids
    <2>4. TypeOK'
      BY <2>3, <1>5 DEF ForkFind, TypeOK, taskVars, procVars, CpuPcs
    <2>5. ASSUME NEW d \in CPUs PROVE LocalTyped(d)'
      BY <2>1, <2>2, <1>5 DEF ForkFind, TypeOK, LocalsTyped, LocalTyped, TaskPcs, taskVars, procVars
    <2>6. QED
      BY <2>4, <2>5 DEF TypeInv, LocalsTyped
  <1>6. ASSUME NEW c \in CPUs, ForkProc(c) PROVE TypeInv'
    <2>1. nthreads + 1 \in Handles /\ nthreads + 1 \in 0 .. MaxThreads
      BY <1>6 DEF ForkProc, Goto, TypeOK, LocalsTyped, LocalTyped, TaskPcs, Handles, Tids, Pids
    <2>2. cand[c] \in 1 .. MaxTid /\ cand[c] \in Pids
      BY <1>6 DEF ForkProc, Goto, TypeOK, LocalsTyped, LocalTyped, TaskPcs, Handles, Tids, Pids
    <2>3. run[c] \in 0 .. MaxThreads
      BY <1>6 DEF ForkProc, Goto, TypeOK, LocalsTyped, LocalTyped, TaskPcs, Handles, Tids, Pids
    <2>4. TypeOK'
      BY <2>1, <2>2, <2>3, <1>6 DEF ForkProc, Goto, TypeOK, taskVars, procVars, CpuPcs, TaskStates
    <2>5. ASSUME NEW d \in CPUs PROVE LocalTyped(d)'
      BY <2>1, <2>2, <2>3, <1>6 DEF ForkProc, Goto, TypeOK, LocalsTyped, LocalTyped, TaskPcs, taskVars, procVars
    <2>6. QED
      BY <2>4, <2>5 DEF TypeInv, LocalsTyped
  <1>7. ASSUME NEW c \in CPUs, ForkRegister(c) PROVE TypeInv'
    <2>1. child[c] \in Handles /\ cand[c] \in Tids
      BY <1>7 DEF ForkRegister, Goto, TypeOK, LocalsTyped, LocalTyped, TaskPcs, Handles, Tids, Pids
    <2>2. TypeOK'
      BY <2>1, <1>7 DEF ForkRegister, Goto, TypeOK, taskVars, procVars, CpuPcs, TaskStates
    <2>3. ASSUME NEW d \in CPUs PROVE LocalTyped(d)'
      BY <2>1, <1>7 DEF ForkRegister, Goto, TypeOK, LocalsTyped, LocalTyped, TaskPcs, taskVars, procVars
    <2>4. QED
      BY <2>2, <2>3 DEF TypeInv, LocalsTyped
  <1>8. ASSUME NEW c \in CPUs, ForkLink(c) PROVE TypeInv'
    <2>1. child[c] \in Handles /\ cand[c] \in Tids
      BY <1>8 DEF ForkLink, Goto, TypeOK, LocalsTyped, LocalTyped, TaskPcs, Handles, Tids, Pids
    <2>2. TypeOK'
      BY <2>1, <1>8 DEF ForkLink, Goto, TypeOK, taskVars, procVars, CpuPcs, TaskStates
    <2>3. ASSUME NEW d \in CPUs PROVE LocalTyped(d)'
      BY <2>1, <1>8 DEF ForkLink, Goto, TypeOK, LocalsTyped, LocalTyped, TaskPcs, taskVars, procVars
    <2>4. QED
      BY <2>2, <2>3 DEF TypeInv, LocalsTyped
  <1>9. ASSUME NEW c \in CPUs, ForkReturn(c) PROVE TypeInv'
    <2>1. child[c] \in Handles /\ cand[c] \in Tids /\ run[c] \in Handles
      BY <1>9 DEF TypeOK, LocalsTyped, LocalTyped, TaskPcs, ForkReturn, Goto, Tids
    <2>2. Append(queue, child[c]) \in Seq(Handles)
      BY <2>1 DEF TypeOK
    <2>3. childrenOf' \in [Handles -> SUBSET (Tids \X Handles)]
      BY <2>1, <1>9 DEF ForkReturn, TypeOK
    <2>4. /\ task' \in [Handles -> TaskStates]
          /\ exited' \in [Handles -> BOOLEAN]
          /\ shouldYield' \in [Handles -> BOOLEAN]
          /\ queue' \in Seq(Handles)
      BY <2>2, <1>9 DEF ForkReturn, SpawnTask, TypeOK, TaskStates
    <2>5. /\ procLock' \in [Handles -> CPUs \cup {NoCpu}]
          /\ pc' \in [CPUs -> CpuPcs]
          /\ child' \in [CPUs -> 0 .. MaxThreads]
          /\ cand' \in [CPUs -> {0} \cup Tids]
      <3>1. procLock' \in [Handles -> CPUs \cup {NoCpu}]
        BY <1>9 DEF ForkReturn, TypeOK
      <3>2. pc' \in [CPUs -> CpuPcs]
        BY <1>9 DEF ForkReturn, Goto, TypeOK, CpuPcs
      <3>3. child' \in [CPUs -> 0 .. MaxThreads] /\ cand' \in [CPUs -> {0} \cup Tids]
        BY <1>9 DEF ForkReturn, TypeOK, NoHandle
      <3>4. QED
        BY <3>1, <3>2, <3>3
    <2>6. TypeOK'
      BY <2>3, <2>4, <2>5, <1>9 DEF ForkReturn, TypeOK
    <2>7. ASSUME NEW d \in CPUs PROVE LocalTyped(d)'
      BY <2>1, <1>9 DEF ForkReturn, Goto, TypeOK, LocalsTyped, LocalTyped, TaskPcs
    <2>8. QED
      BY <2>6, <2>7 DEF TypeInv, LocalsTyped
  <1>10. ASSUME NEW c \in CPUs, Signal(c) PROVE TypeInv'
    <2>1. run[c] \in Handles
      BY <1>10 DEF Signal, Goto, TypeOK, LocalsTyped, LocalTyped, TaskPcs, Handles, Tids, Pids
    <2>2. TypeOK'
      BY <2>1, <1>10 DEF Signal, Goto, TypeOK, taskVars, procVars, CpuPcs, TaskStates
    <2>3. ASSUME NEW d \in CPUs PROVE LocalTyped(d)'
      BY <2>1, <1>10 DEF Signal, Goto, TypeOK, LocalsTyped, LocalTyped, TaskPcs, taskVars, procVars
    <2>4. QED
      BY <2>2, <2>3 DEF TypeInv, LocalsTyped
  <1>11. ASSUME NEW c \in CPUs, Restore(c) PROVE TypeInv'
    <2>1. run[c] \in Handles
      BY <1>11 DEF TypeOK, LocalsTyped, LocalTyped, TaskPcs, Restore
    <2>2. Append(queue, run[c]) \in Seq(Handles)
      BY <2>1 DEF TypeOK
    <2>3. /\ hasCtx' \in [Handles -> BOOLEAN]
          /\ task' \in [Handles -> TaskStates]
          /\ queue' \in Seq(Handles)
          /\ pc' \in [CPUs -> CpuPcs]
          /\ run' \in [CPUs -> 0 .. MaxThreads]
      <3>1. CASE /\ task' = [task EXCEPT ![run[c]] = "ended"]
                 /\ pc' = [pc EXCEPT ![c] = "idle"]
                 /\ run' = [run EXCEPT ![c] = NoHandle]
                 /\ queue' = queue
        BY <3>1, <2>1, <1>11 DEF Restore, TypeOK, TaskStates, CpuPcs, NoHandle
      <3>2. CASE /\ task' = [task EXCEPT ![run[c]] = "ready"]
                 /\ queue' = Append(queue, run[c])
                 /\ pc' = [pc EXCEPT ![c] = "idle"]
                 /\ run' = [run EXCEPT ![c] = NoHandle]
        BY <3>2, <2>1, <2>2, <1>11 DEF Restore, TypeOK, TaskStates, CpuPcs, NoHandle
      <3>3. CASE /\ pc' = [pc EXCEPT ![c] = "take"]
                 /\ UNCHANGED <<task, queue, run>>
        BY <3>3, <2>1, <1>11 DEF Restore, TypeOK, CpuPcs
      <3>4. QED
        BY <3>1, <3>2, <3>3, <1>11 DEF Restore
    <2>4. TypeOK'
      BY <2>3, <1>11 DEF Restore, TypeOK, procVars
    <2>5. ASSUME NEW d \in CPUs PROVE LocalTyped(d)'
      BY <2>1, <1>11 DEF Restore, TypeOK, LocalsTyped, LocalTyped, TaskPcs, procVars
    <2>6. QED
      BY <2>4, <2>5 DEF TypeInv, LocalsTyped
  <1>12. ASSUME NEW c \in CPUs, DebugThreading(c) PROVE TypeInv'
    <2>1. nthreads < MaxThreads => nthreads + 1 \in Handles
      BY DEF TypeOK, Handles
    <2>2. DebugPid \in Pids /\ RegisterIds \subseteq {0} \cup Tids
      BY DEF Pids, Tids
    <2>3. debugCalls + 1 \in 0 .. DebugCalls
      BY <1>12 DEF DebugThreading, TypeOK
    <2>4. /\ nthreads' \in 0 .. MaxThreads
          /\ hasCtx' \in [Handles -> BOOLEAN]
          /\ pid' \in [Handles -> {0} \cup Pids]
          /\ pc' \in [CPUs -> CpuPcs]
          /\ cand' \in [CPUs -> {0} \cup Tids]
          /\ child' \in [CPUs -> 0 .. MaxThreads]
      <3>1. CASE UNCHANGED <<nthreads, hasCtx, pid, pc, cand, child>>
        BY <3>1 DEF TypeOK
      <3>2. CASE /\ nthreads < MaxThreads
                 /\ nthreads' = nthreads + 1
                 /\ hasCtx' = [hasCtx EXCEPT ![nthreads + 1] = TRUE]
                 /\ pid' = [pid EXCEPT ![nthreads + 1] = DebugPid]
                 /\ child' = [child EXCEPT ![c] = nthreads + 1]
                 /\ \E id \in RegisterIds : cand' = [cand EXCEPT ![c] = id]
                 /\ pc' = [pc EXCEPT ![c] = "reg_lock"]
        <4>1. nthreads' \in 0 .. MaxThreads
          BY <3>2 DEF TypeOK
        <4>2. hasCtx' \in [Handles -> BOOLEAN]
          BY <3>2, <2>1 DEF TypeOK
        <4>3. pid' \in [Handles -> {0} \cup Pids]
          BY <3>2, <2>1, <2>2 DEF TypeOK
        <4>4. pc' \in [CPUs -> CpuPcs]
          BY <3>2 DEF TypeOK, CpuPcs
        <4>5. cand' \in [CPUs -> {0} \cup Tids]
          BY <3>2, <2>2 DEF TypeOK
        <4>6. child' \in [CPUs -> 0 .. MaxThreads]
          BY <3>2, <2>1 DEF TypeOK, Handles
        <4>7. QED
          BY <4>1, <4>2, <4>3, <4>4, <4>5, <4>6
      <3>3. QED
        BY <3>1, <3>2, <1>12 DEF DebugThreading
    <2>5. TypeOK'
      BY <2>3, <2>4, <1>12 DEF DebugThreading, TypeOK, taskVars
    <2>6. ASSUME NEW d \in CPUs PROVE LocalTyped(d)'
      <3>1. CASE UNCHANGED <<nthreads, hasCtx, pid, pc, cand, child>>
        BY <3>1, <1>12 DEF DebugThreading, LocalsTyped, LocalTyped
      <3>2. CASE /\ nthreads < MaxThreads
                 /\ child' = [child EXCEPT ![c] = nthreads + 1]
                 /\ pc' = [pc EXCEPT ![c] = "reg_lock"]
        BY <3>2, <2>1, <1>12 DEF DebugThreading, TypeOK, LocalsTyped, LocalTyped, TaskPcs
      <3>3. QED
        BY <3>1, <3>2, <1>12 DEF DebugThreading
    <2>7. QED
      BY <2>5, <2>6 DEF TypeInv, LocalsTyped
  <1>13. ASSUME NEW c \in CPUs, RegisterLock(c) PROVE TypeInv'
    <2>1. TypeOK'
      BY <1>13 DEF RegisterLock, TypeOK, taskVars, procVars, CpuPcs, TaskStates
    <2>2. ASSUME NEW d \in CPUs PROVE LocalTyped(d)'
      BY <1>13 DEF RegisterLock, TypeOK, LocalsTyped, LocalTyped, TaskPcs, taskVars, procVars
    <2>3. QED
      BY <2>1, <2>2 DEF TypeInv, LocalsTyped
  <1>14. ASSUME NEW c \in CPUs, RegisterInsert(c) PROVE TypeInv'
    <2>1. child[c] \in Handles /\ child[c] \in 0 .. MaxThreads
      BY <1>14 DEF RegisterInsert, Goto, TypeOK, LocalsTyped, LocalTyped, TaskPcs, Handles, Tids, Pids
    <2>2. TypeOK'
      BY <2>1, <1>14 DEF RegisterInsert, Goto, TypeOK, taskVars, procVars, CpuPcs, TaskStates
    <2>3. ASSUME NEW d \in CPUs PROVE LocalTyped(d)'
      BY <2>1, <1>14 DEF RegisterInsert, Goto, TypeOK, LocalsTyped, LocalTyped, TaskPcs, taskVars, procVars
    <2>4. QED
      BY <2>2, <2>3 DEF TypeInv, LocalsTyped
  <1>15. ASSUME NEW c \in CPUs, DebugSpawn(c) PROVE TypeInv'
    <2>1. child[c] \in Handles /\ child[c] \in 0 .. MaxThreads
      BY <1>15 DEF TypeOK, LocalsTyped, LocalTyped, TaskPcs, DebugSpawn, Goto, Handles
    <2>2. Append(queue, child[c]) \in Seq(Handles)
      BY <2>1 DEF TypeOK
    <2>3. /\ procTable' \in [Pids -> 0 .. MaxThreads]
          /\ task' \in [Handles -> TaskStates]
          /\ exited' \in [Handles -> BOOLEAN]
          /\ shouldYield' \in [Handles -> BOOLEAN]
          /\ queue' \in Seq(Handles)
          /\ pc' \in [CPUs -> CpuPcs]
          /\ child' \in [CPUs -> 0 .. MaxThreads]
          /\ cand' \in [CPUs -> {0} \cup Tids]
      <3>1. procTable' \in [Pids -> 0 .. MaxThreads]
        BY <2>1, <1>15 DEF DebugSpawn, TypeOK
      <3>2. /\ task' \in [Handles -> TaskStates]
            /\ exited' \in [Handles -> BOOLEAN]
            /\ shouldYield' \in [Handles -> BOOLEAN]
            /\ queue' \in Seq(Handles)
        BY <2>2, <1>15 DEF DebugSpawn, SpawnTask, TypeOK, TaskStates
      <3>3. pc' \in [CPUs -> CpuPcs]
        BY <1>15 DEF DebugSpawn, Goto, TypeOK, CpuPcs
      <3>4. child' \in [CPUs -> 0 .. MaxThreads] /\ cand' \in [CPUs -> {0} \cup Tids]
        BY <1>15 DEF DebugSpawn, TypeOK, NoHandle
      <3>5. QED
        BY <3>1, <3>2, <3>3, <3>4
    <2>4. TypeOK'
      BY <2>3, <1>15 DEF DebugSpawn, TypeOK
    <2>5. ASSUME NEW d \in CPUs PROVE LocalTyped(d)'
      BY <1>15 DEF DebugSpawn, Goto, TypeOK, LocalsTyped, LocalTyped, TaskPcs
    <2>6. QED
      BY <2>4, <2>5 DEF TypeInv, LocalsTyped
  <1>16. CASE UNCHANGED vars
    BY <1>16 DEF vars, TypeInv, TypeOK, LocalsTyped, LocalTyped
  <1>17. QED
    BY <1>1, <1>2, <1>3, <1>4, <1>5, <1>6, <1>7, <1>8, <1>9, <1>10, <1>11, <1>12, <1>13, <1>14, <1>15, <1>16 DEF Next

(* The type invariant of the thread core.                                 *)
THEOREM TypeCorrect == Spec => []TypeOK
  <1>1. Spec => []TypeInv
    BY InitTypeInv, NextTypeInv, PTL DEF Spec
  <1>2. QED
    BY <1>1, PTL DEF TypeInv

=============================================================================
