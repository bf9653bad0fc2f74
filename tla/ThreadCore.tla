----------------------------- MODULE ThreadCore -----------------------------
(***************************************************************************)
(* The execution core of kernel/src/process/thread.rs: the global thread   *)
(* table THREAD_TABLE behind its spin RwLock, Thread::register, the id     *)
(* search find_available_tid, Thread::fork, the debug bootstrap            *)
(* Thread::from_raw / debug_threading, and the task that spawn() builds    *)
(* around a thread (take, switch, trap dispatch, signal, restore, yield),  *)
(* run by several CPUs from one FIFO run queue.                            *)
(*                                                                         *)
(* Data is abstracted to what the properties tell apart: a Thread object   *)
(* (an Arc) is a handle in 1..MaxThreads, its saved context only present   *)
(* or absent, and every process is the one created together with its      *)
(* first thread, so a process is named by that thread's handle.           *)
(***************************************************************************)
EXTENDS Naturals, Sequences, FiniteSets

CONSTANTS
  CPUs,         \* the physical CPUs that run the executor
  NoCpu,        \* "no CPU": a lock that nobody holds
  MaxThreads,   \* bound on the Thread objects ever created
  MaxTid,       \* the ids find_available_tid may return are 1..MaxTid
  DebugTid,     \* DEBUG_THREAD_ID
  DebugPid,     \* DEBUG_PROC_ID
  RegisterIds,  \* the ids a direct caller of Thread::register passes
  DebugCalls    \* how often debug_threading is called

ASSUME CPUsAssumption == CPUs # {} /\ NoCpu \notin CPUs
ASSUME BoundsAssumption == MaxThreads \in Nat /\ MaxTid \in Nat \ {0}
ASSUME IdSpaceAssumption == MaxTid + 1 >= MaxThreads
ASSUME DebugIdsAssumption ==
  /\ DebugTid \in Nat \ (0 .. MaxTid)
  /\ DebugPid \in Nat \ (0 .. MaxTid)
ASSUME RegisterIdsAssumption == RegisterIds \subseteq {0, DebugTid}
ASSUME DebugCallsAssumption == DebugCalls \in Nat

Handles == 1 .. MaxThreads
NoHandle == 0
Tids == (1 .. MaxTid) \cup {DebugTid}
Pids == (1 .. MaxTid) \cup {DebugPid}

(* The states of the future spawn() submits for a thread. *)
TaskStates == {"none", "ready", "running", "ended", "defunct"}

(* Program counters of a CPU. *)
CpuPcs == {"idle", "take", "dispatch", "signal", "restore",
           "fork_lock", "fork_find", "fork_proc", "fork_reg", "fork_link",
           "fork_ret", "reg_lock", "reg_find", "reg_insert", "raw_spawn"}

VARIABLES
  threadTable,  \* THREAD_TABLE: id -> handle, NoHandle for no entry
  tableWriter,  \* the CPU holding THREAD_TABLE.write(), or NoCpu
  nthreads,     \* handles 1..nthreads have been created
  tid,          \* Thread.id of each handle
  hasCtx,       \* ThreadInner.thread_context.is_some()
  task,         \* the state of the thread's spawned future
  exited,       \* spawn()'s captured `exited`
  shouldYield,  \* spawn()'s captured `should_yield`
  queue,        \* FIFO_SCHEDULER's run queue of futures
  procTable,    \* the process table filled by process::register
  pid,          \* Process.process_id
  parentProc,   \* Process.parent, as a handle (NoHandle for none)
  threadsOf,    \* Process.threads
  childrenOf,   \* Process.children, as <<id, handle>> pairs
  procLock,     \* the CPU holding the process's Mutex, or NoCpu
  pc,           \* per CPU: where it is in the code
  run,          \* per CPU: the thread whose future it polls (NoHandle: none)
  cand,         \* per CPU: the id under search, or being registered
  child,        \* per CPU: the thread being created
  debugCalls    \* how often debug_threading has run

vars == <<threadTable, tableWriter, nthreads, tid, hasCtx, task, exited,
          shouldYield, queue, procTable, pid, parentProc, threadsOf,
          childrenOf, procLock, pc, run, cand, child, debugCalls>>
procVars == <<procTable, pid, parentProc, threadsOf, childrenOf, procLock>>
taskVars == <<task, exited, shouldYield, queue>>

TypeOK ==
  /\ threadTable \in [Tids -> 0 .. MaxThreads]
  /\ tableWriter \in CPUs \cup {NoCpu}
  /\ nthreads \in 0 .. MaxThreads
  /\ tid \in [Handles -> {0} \cup Tids]
  /\ hasCtx \in [Handles -> BOOLEAN]
  /\ task \in [Handles -> TaskStates]
  /\ exited \in [Handles -> BOOLEAN]
  /\ shouldYield \in [Handles -> BOOLEAN]
  /\ queue \in Seq(Handles)
  /\ procTable \in [Pids -> 0 .. MaxThreads]
  /\ pid \in [Handles -> {0} \cup Pids]
  /\ parentProc \in [Handles -> 0 .. MaxThreads]
  /\ threadsOf \in [Handles -> SUBSET Tids]
  /\ childrenOf \in [Handles -> SUBSET (Tids \X Handles)]
  /\ procLock \in [Handles -> CPUs \cup {NoCpu}]
  /\ pc \in [CPUs -> CpuPcs]
  /\ run \in [CPUs -> 0 .. MaxThreads]
  /\ cand \in [CPUs -> {0} \cup Tids]
  /\ child \in [CPUs -> 0 .. MaxThreads]
  /\ debugCalls \in 0 .. DebugCalls

(* The empty THREAD_TABLE, CURRENT_THREAD_PER_CPU all None, nothing run. *)
Init ==
  /\ threadTable = [t \in Tids |-> NoHandle]
  /\ tableWriter = NoCpu
  /\ nthreads = 0
  /\ tid = [h \in Handles |-> 0]
  /\ hasCtx = [h \in Handles |-> FALSE]
  /\ task = [h \in Handles |-> "none"]
  /\ exited = [h \in Handles |-> FALSE]
  /\ shouldYield = [h \in Handles |-> FALSE]
  /\ queue = <<>>
  /\ procTable = [p \in Pids |-> NoHandle]
  /\ pid = [h \in Handles |-> 0]
  /\ parentProc = [h \in Handles |-> NoHandle]
  /\ threadsOf = [h \in Handles |-> {}]
  /\ childrenOf = [h \in Handles |-> {}]
  /\ procLock = [h \in Handles |-> NoCpu]
  /\ pc = [c \in CPUs |-> "idle"]
  /\ run = [c \in CPUs |-> NoHandle]
  /\ cand = [c \in CPUs |-> 0]
  /\ child = [c \in CPUs |-> NoHandle]
  /\ debugCalls = 0

Goto(c, from, to) ==
  /\ pc[c] = from
  /\ pc' = [pc EXCEPT ![c] = to]

(* spawn(): a fresh future with exited = should_yield = false, queued. *)
SpawnTask(k) ==
  /\ task' = [task EXCEPT ![k] = "ready"]
  /\ exited' = [exited EXCEPT ![k] = FALSE]
  /\ shouldYield' = [shouldYield EXCEPT ![k] = FALSE]
  /\ queue' = Append(queue, k)

(* The CPUs inside fork that have not yet created the child: with         *)
(* nthreads they bound the Thread objects by MaxThreads.                   *)
ForksStarting == {d \in CPUs : pc[d] \in {"fork_lock", "fork_find", "fork_proc"}}

---------------------------------------------------------------------------
(* The executor on CPU c polls the future at the head of the FIFO queue.  *)
Poll(c) ==
  /\ Goto(c, "idle", "take")
  /\ run[c] = NoHandle
  /\ queue # <<>>
  /\ run' = [run EXCEPT ![c] = Head(queue)]
  /\ task' = [task EXCEPT ![Head(queue)] = "running"]
  /\ queue' = Tail(queue)
  /\ UNCHANGED <<threadTable, tableWriter, nthreads, tid, hasCtx, exited,
                 shouldYield, procVars, cand, child, debugCalls>>

(* Thread::take: thread_context.take().unwrap(). The unwrap's panic on a  *)
(* None is not a step: ContextExclusive states that it is never reached.  *)
Take(c) ==
  LET h == run[c] IN
  /\ Goto(c, "take", "dispatch")
  /\ hasCtx[h]
  /\ hasCtx' = [hasCtx EXCEPT ![h] = FALSE]
  /\ UNCHANGED <<threadTable, tableWriter, nthreads, tid, taskVars, procVars,
                 run, cand, child, debugCalls>>

(* ctx.switch() runs the user until it traps; trap_dispatcher_user then   *)
(* either fails (the loop breaks without restoring the context), or        *)
(* handles the trap and may set should_yield, or the trap is a fork.       *)
Dispatch(c) ==
  LET h == run[c] IN
  /\ pc[c] = "dispatch"
  /\ \/ /\ task' = [task EXCEPT ![h] = "defunct"]
        /\ pc' = [pc EXCEPT ![c] = "idle"]
        /\ run' = [run EXCEPT ![c] = NoHandle]
        /\ UNCHANGED shouldYield
     \/ /\ \E y \in BOOLEAN : shouldYield' = [shouldYield EXCEPT ![h] = y]
        /\ pc' = [pc EXCEPT ![c] = "signal"]
        /\ UNCHANGED <<task, run>>
     \/ /\ nthreads + Cardinality(ForksStarting) < MaxThreads
        /\ pc' = [pc EXCEPT ![c] = "fork_lock"]
        /\ UNCHANGED <<task, run, shouldYield>>
  /\ UNCHANGED <<threadTable, tableWriter, nthreads, tid, hasCtx, exited,
                 queue, procVars, cand, child, debugCalls>>

(* Thread::fork, first lines: clone the vm and the context, then          *)
(* self.parent.lock(), held until fork returns.                            *)
ForkLock(c) ==
  LET h == run[c] IN
  /\ Goto(c, "fork_lock", "fork_find")
  /\ procLock[h] = NoCpu
  /\ procLock' = [procLock EXCEPT ![h] = c]
  /\ cand' = [cand EXCEPT ![c] = 1]
  /\ UNCHANGED <<threadTable, tableWriter, nthreads, tid, hasCtx, taskVars,
                 procTable, pid, parentProc, threadsOf, childrenOf, run,
                 child, debugCalls>>

(* A plausible slip in find_available_tid: `.find(|id| ..)` testing the   *)
(* wrong entry, id + 1, so a taken id is returned.                         *)
ForkFindOffByOne(c) ==
  /\ pc[c] = "fork_find"
  /\ tableWriter = NoCpu
  /\ \/ /\ cand[c] < MaxTid => threadTable[cand[c] + 1] = NoHandle
        /\ pc' = [pc EXCEPT ![c] = "fork_proc"]
        /\ UNCHANGED cand
     \/ /\ cand[c] < MaxTid
        /\ threadTable[cand[c] + 1] # NoHandle
        /\ cand' = [cand EXCEPT ![c] = cand[c] + 1]
        /\ UNCHANGED pc
  /\ UNCHANGED <<threadTable, tableWriter, nthreads, tid, hasCtx, taskVars,
                 procVars, run, child, debugCalls>>

(* One probe of find_available_tid: THREAD_TABLE.read().get(id), a read   *)
(* lock of its own for every candidate id. The search never runs off the  *)
(* end (IdSpaceAssumption), as 2^64 ids never run out, so the unwrap's    *)
(* panic on EBUSY is not a step.                                           *)
ForkFind(c) ==
  /\ pc[c] = "fork_find"
  /\ tableWriter = NoCpu
  /\ \/ /\ threadTable[cand[c]] = NoHandle
        /\ pc' = [pc EXCEPT ![c] = "fork_proc"]
        /\ UNCHANGED cand
     \/ /\ threadTable[cand[c]] # NoHandle
        /\ cand[c] < MaxTid
        /\ cand' = [cand EXCEPT ![c] = cand[c] + 1]
        /\ UNCHANGED pc
  /\ UNCHANGED <<threadTable, tableWriter, nthreads, tid, hasCtx, taskVars,
                 procVars, run, child, debugCalls>>

(* A plausible slip in fork: the parent's lock dropped once the process  *)
(* is built, before the child is pushed on its children.                  *)
ForkProcUnlocked(c) ==
  LET k == nthreads + 1 IN
  /\ Goto(c, "fork_proc", "fork_reg")
  /\ nthreads < MaxThreads
  /\ nthreads' = k
  /\ child' = [child EXCEPT ![c] = k]
  /\ pid' = [pid EXCEPT ![k] = cand[c]]
  /\ parentProc' = [parentProc EXCEPT ![k] = run[c]]
  /\ procTable' = [procTable EXCEPT ![cand[c]] = k]
  /\ procLock' = [procLock EXCEPT ![run[c]] = NoCpu]
  /\ UNCHANGED <<threadTable, tableWriter, tid, hasCtx, taskVars, threadsOf,
                 childrenOf, run, cand, debugCalls>>

(* Build the forked Process (pid = the new id, parent = this process) and *)
(* process::register it under that id.                                     *)
ForkProc(c) ==
  LET k == nthreads + 1 IN
  /\ Goto(c, "fork_proc", "fork_reg")
  /\ nthreads < MaxThreads
  /\ nthreads' = k
  /\ child' = [child EXCEPT ![c] = k]
  /\ pid' = [pid EXCEPT ![k] = cand[c]]
  /\ parentProc' = [parentProc EXCEPT ![k] = run[c]]
  /\ procTable' = [procTable EXCEPT ![cand[c]] = k]
  /\ UNCHANGED <<threadTable, tableWriter, tid, hasCtx, taskVars, threadsOf,
                 childrenOf, procLock, run, cand, debugCalls>>

(* The child Thread, with the copied context, .register()ed: the write    *)
(* lock, table.insert(id, ..) (overwriting any entry), the unlock.         *)
ForkRegister(c) ==
  LET k == child[c] IN
  /\ Goto(c, "fork_reg", "fork_link")
  /\ tableWriter = NoCpu
  /\ threadTable' = [threadTable EXCEPT ![cand[c]] = k]
  /\ tid' = [tid EXCEPT ![k] = cand[c]]
  /\ hasCtx' = [hasCtx EXCEPT ![k] = TRUE]
  /\ UNCHANGED <<tableWriter, nthreads, taskVars, procVars, run, cand, child,
                 debugCalls>>

(* thread.parent.lock().threads.push(id): the child process's own lock.   *)
ForkLink(c) ==
  LET k == child[c] IN
  /\ Goto(c, "fork_link", "fork_ret")
  /\ procLock[k] = NoCpu
  /\ threadsOf' = [threadsOf EXCEPT ![k] = @ \cup {cand[c]}]
  /\ UNCHANGED <<threadTable, tableWriter, nthreads, tid, hasCtx, taskVars,
                 procTable, pid, parentProc, childrenOf, procLock, run, cand,
                 child, debugCalls>>

(* lock.children.push((id, ..)), the parent's lock dropped as fork        *)
(* returns, and the fork syscall spawn()s the child.                       *)
ForkReturn(c) ==
  LET h == run[c]
      k == child[c]
  IN
  /\ Goto(c, "fork_ret", "signal")
  /\ childrenOf' = [childrenOf EXCEPT ![h] = @ \cup {<<cand[c], k>>}]
  /\ procLock' = [procLock EXCEPT ![h] = NoCpu]
  /\ SpawnTask(k)
  /\ child' = [child EXCEPT ![c] = NoHandle]
  /\ cand' = [cand EXCEPT ![c] = 0]
  /\ UNCHANGED <<threadTable, tableWriter, nthreads, tid, hasCtx, procTable,
                 pid, parentProc, threadsOf, run, debugCalls>>

(* if !exited { exited = handle_signal(..) }                               *)
Signal(c) ==
  LET h == run[c] IN
  /\ Goto(c, "signal", "restore")
  /\ \/ /\ ~exited[h]
        /\ \E e \in BOOLEAN : exited' = [exited EXCEPT ![h] = e]
     \/ /\ exited[h]
        /\ UNCHANGED exited
  /\ UNCHANGED <<threadTable, tableWriter, nthreads, tid, hasCtx, task,
                 shouldYield, queue, procVars, run, cand, child, debugCalls>>

(* A plausible slip in spawn(): `if exited { break }` before restore.    *)
RestoreAfterExitCheck(c) ==
  LET h == run[c] IN
  /\ pc[c] = "restore"
  /\ \/ /\ exited[h]
        /\ task' = [task EXCEPT ![h] = "ended"]
        /\ pc' = [pc EXCEPT ![c] = "idle"]
        /\ run' = [run EXCEPT ![c] = NoHandle]
        /\ UNCHANGED <<queue, hasCtx>>
     \/ /\ ~exited[h]
        /\ hasCtx' = [hasCtx EXCEPT ![h] = TRUE]
        /\ \/ /\ shouldYield[h]
              /\ task' = [task EXCEPT ![h] = "ready"]
              /\ queue' = Append(queue, h)
              /\ pc' = [pc EXCEPT ![c] = "idle"]
              /\ run' = [run EXCEPT ![c] = NoHandle]
           \/ /\ ~shouldYield[h]
              /\ pc' = [pc EXCEPT ![c] = "take"]
              /\ UNCHANGED <<task, queue, run>>
  /\ UNCHANGED <<threadTable, tableWriter, nthreads, tid, exited, shouldYield,
                 procVars, cand, child, debugCalls>>

(* thread.restore(ctx); then break if exited, Yield if should_yield       *)
(* (the future is queued again at the tail), or loop back to take.         *)
Restore(c) ==
  LET h == run[c] IN
  /\ pc[c] = "restore"
  /\ hasCtx' = [hasCtx EXCEPT ![h] = TRUE]
  /\ \/ /\ exited[h]
        /\ task' = [task EXCEPT ![h] = "ended"]
        /\ pc' = [pc EXCEPT ![c] = "idle"]
        /\ run' = [run EXCEPT ![c] = NoHandle]
        /\ UNCHANGED queue
     \/ /\ ~exited[h] /\ shouldYield[h]
        /\ task' = [task EXCEPT ![h] = "ready"]
        /\ queue' = Append(queue, h)
        /\ pc' = [pc EXCEPT ![c] = "idle"]
        /\ run' = [run EXCEPT ![c] = NoHandle]
     \/ /\ ~exited[h] /\ ~shouldYield[h]
        /\ pc' = [pc EXCEPT ![c] = "take"]
        /\ UNCHANGED <<task, queue, run>>
  /\ UNCHANGED <<threadTable, tableWriter, nthreads, tid, exited, shouldYield,
                 procVars, cand, child, debugCalls>>

---------------------------------------------------------------------------
(* A plausible slip in from_raw: process_id: DEBUG_THREAD_ID.             *)
DebugThreadingSwappedIds(c) ==
  LET k == nthreads + 1 IN
  /\ pc[c] = "idle"
  /\ run[c] = NoHandle
  /\ debugCalls < DebugCalls
  /\ debugCalls' = debugCalls + 1
  /\ \/ UNCHANGED <<nthreads, hasCtx, pid, pc, cand, child>>
     \/ /\ nthreads < MaxThreads
        /\ nthreads' = k
        /\ hasCtx' = [hasCtx EXCEPT ![k] = TRUE]
        /\ pid' = [pid EXCEPT ![k] = DebugTid]
        /\ child' = [child EXCEPT ![c] = k]
        /\ \E id \in RegisterIds : cand' = [cand EXCEPT ![c] = id]
        /\ pc' = [pc EXCEPT ![c] = "reg_lock"]
  /\ UNCHANGED <<threadTable, tableWriter, tid, taskVars, procTable,
                 parentProc, threadsOf, childrenOf, procLock, run>>

(* debug_threading -> Thread::from_raw on an idle CPU: build the vm, load *)
(* /bin/test (which may fail: the error is logged and nothing changes),   *)
(* and create the Thread and its Process with the fixed debug ids.        *)
DebugThreading(c) ==
  LET k == nthreads + 1 IN
  /\ pc[c] = "idle"
  /\ run[c] = NoHandle
  /\ debugCalls < DebugCalls
  /\ debugCalls' = debugCalls + 1
  /\ \/ UNCHANGED <<nthreads, hasCtx, pid, pc, cand, child>>
     \/ /\ nthreads < MaxThreads
        /\ nthreads' = k
        /\ hasCtx' = [hasCtx EXCEPT ![k] = TRUE]
        /\ pid' = [pid EXCEPT ![k] = DebugPid]
        /\ child' = [child EXCEPT ![c] = k]
        /\ \E id \in RegisterIds : cand' = [cand EXCEPT ![c] = id]
        /\ pc' = [pc EXCEPT ![c] = "reg_lock"]
  /\ UNCHANGED <<threadTable, tableWriter, tid, taskVars, procTable,
                 parentProc, threadsOf, childrenOf, procLock, run>>

(* Thread::register: THREAD_TABLE.write(); with id 0 it then calls        *)
(* find_available_tid, whose THREAD_TABLE.read() spins for as long as a   *)
(* writer holds the lock: this CPU itself. No step leaves "reg_find".     *)
RegisterLock(c) ==
  /\ pc[c] = "reg_lock"
  /\ tableWriter = NoCpu
  /\ tableWriter' = c
  /\ pc' = [pc EXCEPT ![c] = IF cand[c] = 0 THEN "reg_find" ELSE "reg_insert"]
  /\ UNCHANGED <<threadTable, nthreads, tid, hasCtx, taskVars, procVars, run,
                 cand, child, debugCalls>>

(* self.id = id; table.insert(id, ..), overwriting; the guard dropped.    *)
RegisterInsert(c) ==
  LET k == child[c] IN
  /\ Goto(c, "reg_insert", "raw_spawn")
  /\ threadTable' = [threadTable EXCEPT ![cand[c]] = k]
  /\ tid' = [tid EXCEPT ![k] = cand[c]]
  /\ tableWriter' = NoCpu
  /\ UNCHANGED <<nthreads, hasCtx, taskVars, procVars, run, cand, child,
                 debugCalls>>

(* from_raw's register(&parent, DEBUG_PROC_ID), then spawn(thread).       *)
DebugSpawn(c) ==
  LET k == child[c] IN
  /\ Goto(c, "raw_spawn", "idle")
  /\ procTable' = [procTable EXCEPT ![DebugPid] = k]
  /\ SpawnTask(k)
  /\ child' = [child EXCEPT ![c] = NoHandle]
  /\ cand' = [cand EXCEPT ![c] = 0]
  /\ UNCHANGED <<threadTable, tableWriter, nthreads, tid, hasCtx, pid,
                 parentProc, threadsOf, childrenOf, procLock, run, debugCalls>>

---------------------------------------------------------------------------
Next ==
  \E c \in CPUs :
    \/ Poll(c) \/ Take(c) \/ Dispatch(c) \/ Signal(c) \/ Restore(c)
    \/ ForkLock(c) \/ ForkFind(c) \/ ForkProc(c) \/ ForkRegister(c)
    \/ ForkLink(c) \/ ForkReturn(c)
    \/ DebugThreading(c) \/ RegisterLock(c) \/ RegisterInsert(c)
    \/ DebugSpawn(c)

(* Each CPU's executor keeps running the code it is in. *)
Fairness ==
  \A c \in CPUs :
    WF_vars(\/ Poll(c) \/ Take(c) \/ Dispatch(c) \/ Signal(c) \/ Restore(c)
            \/ ForkLock(c) \/ ForkFind(c) \/ ForkProc(c) \/ ForkRegister(c)
            \/ ForkLink(c) \/ ForkReturn(c)
            \/ RegisterLock(c) \/ RegisterInsert(c) \/ DebugSpawn(c))

Spec == Init /\ [][Next]_vars
FairSpec == Spec /\ Fairness

---------------------------------------------------------------------------
(* The threads spawn() has given a future.                                 *)
Spawned == {h \in 1 .. nthreads : task[h] # "none"}

(* CPU c holds h's context: between take and restore of h's future.       *)
Holding(c, h) ==
  /\ run[c] = h
  /\ pc[c] \in {"dispatch", "signal", "restore", "fork_lock", "fork_find",
                "fork_proc", "fork_reg", "fork_link", "fork_ret"}

(* Context ownership (the take/restore protocol of spawn()'s loop): a     *)
(* spawned thread's saved context is absent exactly while one CPU holds   *)
(* it between take and restore, or after an unhandled trap ended the loop *)
(* without restore; no two CPUs poll the same thread's future; and every  *)
(* take finds a context (the unwrap in Thread::take never panics).         *)
ContextExclusive ==
  /\ \A h \in Spawned :
       ~hasCtx[h] <=> (task[h] = "defunct" \/ \E c \in CPUs : Holding(c, h))
  /\ \A c, d \in CPUs : c # d /\ run[c] # NoHandle => run[c] # run[d]
  /\ \A c \in CPUs : pc[c] = "take" => hasCtx[run[c]]

(* The process tree fork builds: whenever a forked process's parent is    *)
(* unlocked, the parent's children list names the child with its id.     *)
ChildLinked ==
  \A k \in 1 .. nthreads :
    /\ parentProc[k] # NoHandle
    /\ procLock[parentProc[k]] = NoCpu
    => <<pid[k], k>> \in childrenOf[parentProc[k]]

(* No two live threads share an id (spec 4.4): every thread that          *)
(* register gave an id is still THREAD_TABLE's entry for that id.         *)
IdsUnique ==
  \A h \in 1 .. nthreads : tid[h] # 0 => threadTable[tid[h]] = h

(* Thread::register returns: a CPU that has entered register with id 0    *)
(* goes on to insert the thread.                                          *)
RegisterReturns ==
  \A c \in CPUs : pc[c] = "reg_find" ~> pc[c] = "reg_insert"
=============================================================================
