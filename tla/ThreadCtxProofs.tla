-------------------------- MODULE ThreadCtxProofs ---------------------------
(***************************************************************************)
(* Proof that spawn()'s take/restore protocol keeps every thread context   *)
(* owned by at most one CPU (ContextExclusive), for every number of CPUs,  *)
(* threads and ids.                                                        *)
(***************************************************************************)
EXTENDS ThreadCoreProofs

(* Where a CPU holds the context it took, and where it has a child thread *)
(* under construction (with its context once the thread is registered).   *)
HoldPcs == TaskPcs \ {"take"}
ChildPcs == {"fork_reg", "fork_link", "fork_ret",
             "reg_lock", "reg_find", "reg_insert", "raw_spawn"}
CtxChildPcs == ChildPcs \ {"fork_reg"}

Queued(h) == \E i \in 1 .. Len(queue) : queue[i] = h

(* ContextExclusive is not inductive: a Poll must find a context in the   *)
(* thread at the head of the queue, and a spawn must queue a thread that  *)
(* is in no queue and on no CPU. The strengthening ties each task state   *)
(* to where the thread's future is and whether its context is stored.     *)

(* Handles not yet created have no future and no context.                 *)
FreshHandles == \A h \in Handles : h > nthreads => task[h] = "none" /\ ~hasCtx[h]
(* A CPU polls a future exactly at the counters of spawn()'s loop; that   *)
(* future is running, on that CPU only, and a running one is on a CPU.    *)
RunAtTask == \A c \in CPUs : run[c] # NoHandle <=> pc[c] \in TaskPcs
RunRunning == \A c \in CPUs : pc[c] \in TaskPcs => task[run[c]] = "running"
RunDistinct == \A c, d \in CPUs : c # d /\ run[c] # NoHandle => run[c] # run[d]
RunningRun == \A h \in Handles : task[h] = "running" => \E c \in CPUs : run[c] = h
(* The run queue holds the ready futures, each once.                      *)
QueueReady == \A i \in 1 .. Len(queue) : task[queue[i]] = "ready"
QueueDistinct == \A i, j \in 1 .. Len(queue) : i # j => queue[i] # queue[j]
ReadyQueued == \A h \in Handles : task[h] = "ready" => Queued(h)
(* Where the context is: stored unless taken by the CPU that polls the    *)
(* thread, or lost with an unhandled trap.                                 *)
CtxStored == \A h \in Handles : task[h] \in {"ready", "ended"} => hasCtx[h]
DefunctNoCtx == \A h \in Handles : task[h] = "defunct" => ~hasCtx[h]
TakeHasCtx == \A c \in CPUs : pc[c] = "take" => hasCtx[run[c]]
HeldNoCtx == \A c \in CPUs : pc[c] \in HoldPcs => ~hasCtx[run[c]]
(* A thread under construction is created, not yet spawned, one CPU's,    *)
(* and has its context once registered.                                    *)
ChildAtPc == \A c \in CPUs : child[c] # NoHandle <=> pc[c] \in ChildPcs
ChildFresh == \A c \in CPUs : pc[c] \in ChildPcs => task[child[c]] = "none" /\ child[c] <= nthreads
ChildDistinct == \A c, d \in CPUs : c # d /\ child[c] # NoHandle => child[c] # child[d]
ChildCtx == \A c \in CPUs : pc[c] \in CtxChildPcs => hasCtx[child[c]]

CtxInv ==
  /\ FreshHandles
  /\ RunAtTask /\ RunRunning /\ RunDistinct /\ RunningRun
  /\ QueueReady /\ QueueDistinct /\ ReadyQueued
  /\ CtxStored /\ DefunctNoCtx /\ TakeHasCtx /\ HeldNoCtx
  /\ ChildAtPc /\ ChildFresh /\ ChildDistinct /\ ChildCtx

(* A step that moves a CPU between program counters of one kind (both    *)
(* polling or not, both at take or not, both with a child, both with a    *)
(* registered child) and leaves the threads, the queue and the CPUs'      *)
(* threads alone keeps CtxInv.                                             *)
SameClass(c) ==
  /\ pc'[c] \in TaskPcs <=> pc[c] \in TaskPcs
  /\ pc'[c] = "take" <=> pc[c] = "take"
  /\ pc'[c] \in ChildPcs <=> pc[c] \in ChildPcs
  /\ pc'[c] \in CtxChildPcs <=> pc[c] \in CtxChildPcs

(* Such a step keeps CtxInv: its conjuncts read the counters only through *)
(* these four kinds.                                                       *)
LEMMA ClassKept ==
  ASSUME CtxInv,
         UNCHANGED <<nthreads, hasCtx, task, queue, run, child>>,
         \A c \in CPUs : SameClass(c)
  PROVE  CtxInv'
<1>1. \A c \in CPUs : pc'[c] \in HoldPcs <=> pc[c] \in HoldPcs
  BY DEF SameClass, HoldPcs
<1>2. QED
  BY <1>1 DEF CtxInv, SameClass, Queued, FreshHandles, RunAtTask, RunRunning,
               RunDistinct, RunningRun, QueueReady, QueueDistinct, ReadyQueued,
               CtxStored, DefunctNoCtx, TakeHasCtx, HeldNoCtx, ChildAtPc,
               ChildFresh, ChildDistinct, ChildCtx

(* A CPU that moves by Goto between two counters of one kind.             *)
LEMMA GotoClass ==
  ASSUME TypeOK, NEW c \in CPUs, NEW from, NEW to, Goto(c, from, to),
         from \in TaskPcs <=> to \in TaskPcs,
         from = "take" <=> to = "take",
         from \in ChildPcs <=> to \in ChildPcs,
         from \in CtxChildPcs <=> to \in CtxChildPcs
  PROVE  \A d \in CPUs : SameClass(d)
BY DEF Goto, SameClass, TypeOK


(* A CPU whose counter is set to one of the same kind.                    *)
LEMMA SetClass ==
  ASSUME TypeOK, NEW c \in CPUs, NEW to, pc' = [pc EXCEPT ![c] = to],
         pc[c] \in TaskPcs <=> to \in TaskPcs,
         pc[c] = "take" <=> to = "take",
         pc[c] \in ChildPcs <=> to \in ChildPcs,
         pc[c] \in CtxChildPcs <=> to \in CtxChildPcs
  PROVE  \A d \in CPUs : SameClass(d)
BY DEF SameClass, TypeOK

(* The steps that only move a CPU within its kind of counter: the trap    *)
(* handled (or a fork begun), the parent's lock, the id search, linking   *)
(* the child's id, the signal, the table's write lock and the insert.     *)
LEMMA CtxLocalSteps ==
  ASSUME TypeInv, CtxInv, NEW c \in CPUs,
         \/ Dispatch(c) /\ pc'[c] # "idle"
         \/ ForkLock(c) \/ ForkFind(c) \/ ForkLink(c) \/ Signal(c)
         \/ RegisterLock(c) \/ RegisterInsert(c)
  PROVE  CtxInv'
<1> USE DEF TypeInv
<1>1. CASE Dispatch(c) /\ pc'[c] # "idle"
  <2>1. pc' = [pc EXCEPT ![c] = "signal"] \/ pc' = [pc EXCEPT ![c] = "fork_lock"]
    BY <1>1 DEF Dispatch, TypeOK
  <2>2. \A d \in CPUs : SameClass(d)
    BY <1>1, <2>1, SetClass DEF Dispatch, TaskPcs, ChildPcs, CtxChildPcs
  <2>3. UNCHANGED <<nthreads, hasCtx, task, queue, run, child>>
    BY <1>1, <2>1 DEF Dispatch, TypeOK
  <2>4. QED
    BY <2>2, <2>3, ClassKept
<1>2. CASE ForkLock(c)
  <2>1. Goto(c, "fork_lock", "fork_find")
    BY <1>2 DEF ForkLock
  <2>2. QED
    BY <1>2, <2>1, GotoClass, ClassKept DEF ForkLock, TaskPcs, ChildPcs, CtxChildPcs, taskVars
<1>3. CASE ForkFind(c)
  <2>1. pc' = [pc EXCEPT ![c] = "fork_proc"] \/ pc' = pc
    BY <1>3 DEF ForkFind
  <2>2. \A d \in CPUs : SameClass(d)
    <3>1. CASE pc' = pc
      BY <3>1 DEF SameClass
    <3>2. CASE pc' = [pc EXCEPT ![c] = "fork_proc"]
      BY <1>3, <3>2, SetClass DEF ForkFind, TaskPcs, ChildPcs, CtxChildPcs
    <3>3. QED
      BY <2>1, <3>1, <3>2
  <2>3. QED
    BY <1>3, <2>2, ClassKept DEF ForkFind, taskVars
<1>4. CASE ForkLink(c)
  <2>1. Goto(c, "fork_link", "fork_ret")
    BY <1>4 DEF ForkLink
  <2>2. QED
    BY <1>4, <2>1, GotoClass, ClassKept DEF ForkLink, TaskPcs, ChildPcs, CtxChildPcs, taskVars
<1>5. CASE Signal(c)
  <2>1. Goto(c, "signal", "restore")
    BY <1>5 DEF Signal
  <2>2. QED
    BY <1>5, <2>1, GotoClass, ClassKept DEF Signal, TaskPcs, ChildPcs, CtxChildPcs
<1>6. CASE RegisterLock(c)
  <2>1. pc' = [pc EXCEPT ![c] = "reg_find"] \/ pc' = [pc EXCEPT ![c] = "reg_insert"]
    BY <1>6 DEF RegisterLock
  <2>2. \A d \in CPUs : SameClass(d)
    BY <1>6, <2>1, SetClass DEF RegisterLock, TaskPcs, ChildPcs, CtxChildPcs
  <2>3. QED
    BY <1>6, <2>2, ClassKept DEF RegisterLock, taskVars
<1>7. CASE RegisterInsert(c)
  <2>1. Goto(c, "reg_insert", "raw_spawn")
    BY <1>7 DEF RegisterInsert
  <2>2. QED
    BY <1>7, <2>1, GotoClass, ClassKept DEF RegisterInsert, TaskPcs, ChildPcs, CtxChildPcs, taskVars
<1>8. QED
  BY <1>1, <1>2, <1>3, <1>4, <1>5, <1>6, <1>7


(* The thread a CPU polls, and the thread it creates, are handles.       *)
LEMMA LocalHandles ==
  ASSUME TypeInv
  PROVE  \A d \in CPUs : /\ pc[d] \in TaskPcs => run[d] \in Handles
                         /\ pc[d] \in ChildPcs => child[d] \in Handles
BY DEF TypeInv, LocalsTyped, LocalTyped, ChildPcs

(* Take: the context leaves the running thread for the CPU.               *)
LEMMA CtxTake ==
  ASSUME TypeInv, CtxInv, NEW c \in CPUs, Take(c)
  PROVE  CtxInv'
<1> USE DEF TypeInv
<1> DEFINE h == run[c]
<1>1. pc[c] = "take" /\ pc' = [pc EXCEPT ![c] = "dispatch"]
  BY DEF Take, Goto
<1>2. h \in Handles /\ task[h] = "running"
  BY <1>1 DEF LocalsTyped, LocalTyped, TaskPcs, CtxInv, RunRunning
<1>3. hasCtx' = [hasCtx EXCEPT ![h] = FALSE]
  /\ UNCHANGED <<nthreads, task, queue, run, child>>
  BY DEF Take, taskVars
<1>4. \A d \in CPUs : d # c /\ pc[d] \in TaskPcs => run[d] # h
  BY <1>1 DEF CtxInv, RunAtTask, RunDistinct, TaskPcs
<1>5. \A d \in CPUs : pc[d] \in ChildPcs => child[d] # h
  BY <1>2 DEF CtxInv, ChildFresh
<1>6. \A d \in CPUs : d # c => pc'[d] = pc[d]
  BY <1>1, Zenon DEF TypeOK
<1>7. pc'[c] \in HoldPcs /\ pc'[c] \in TaskPcs /\ pc'[c] \notin ChildPcs
  BY <1>1 DEF TypeOK, HoldPcs, TaskPcs, ChildPcs
<1>8. pc[c] \notin ChildPcs
  BY <1>1 DEF ChildPcs
<1>0. \A d \in CPUs : /\ pc[d] \in TaskPcs => run[d] \in Handles
                      /\ pc[d] \in ChildPcs => child[d] \in Handles
  BY LocalHandles
<1>9. FreshHandles'
  BY <1>3 DEF CtxInv, FreshHandles, TypeOK
<1>10. (RunAtTask /\ RunRunning /\ RunDistinct /\ RunningRun)'
  <2>1. pc[c] \in TaskPcs
    BY <1>1 DEF TaskPcs
  <2>2. QED
    BY <1>1, <1>3, <1>6, <1>7, <2>1
    DEF CtxInv, RunAtTask, RunRunning, RunDistinct, RunningRun
<1>11. (QueueReady /\ QueueDistinct /\ ReadyQueued)'
  BY <1>3 DEF CtxInv, QueueReady, QueueDistinct, ReadyQueued, Queued
<1>12. (CtxStored /\ DefunctNoCtx)'
  BY <1>2, <1>3 DEF CtxInv, CtxStored, DefunctNoCtx, TypeOK
<1>13. TakeHasCtx'
  BY <1>1, <1>3, <1>4, <1>6 DEF CtxInv, TakeHasCtx, TypeOK, TaskPcs
<1>14. HeldNoCtx'
  <2>1. hasCtx'[h] = FALSE
    BY <1>2, <1>3 DEF TypeOK
  <2>2. ASSUME NEW d \in CPUs, d # c, pc[d] \in HoldPcs
        PROVE  ~hasCtx'[run[d]]
    BY <1>0, <1>3, <1>4, <2>2 DEF CtxInv, HeldNoCtx, HoldPcs
  <2>3. QED
    BY <1>3, <1>6, <2>1, <2>2 DEF HeldNoCtx
<1>15. (ChildAtPc /\ ChildFresh /\ ChildDistinct)'
  BY <1>3, <1>6, <1>7, <1>8 DEF CtxInv, ChildAtPc, ChildFresh, ChildDistinct
<1>16. ChildCtx'
  BY <1>0, <1>3, <1>5, <1>6, <1>7, <1>8 DEF CtxInv, ChildCtx, CtxChildPcs, TypeOK
<1>17. QED
  BY <1>9, <1>10, <1>11, <1>12, <1>13, <1>14, <1>15, <1>16 DEF CtxInv


(* Poll: the future at the head of the queue, ready and with its context, *)
(* goes to CPU c and leaves the queue.                                     *)
LEMMA CtxPoll ==
  ASSUME TypeInv, CtxInv, NEW c \in CPUs, Poll(c)
  PROVE  CtxInv'
<1> USE DEF TypeInv
<1> DEFINE h == Head(queue)
<1>0. \A d \in CPUs : /\ pc[d] \in TaskPcs => run[d] \in Handles
                      /\ pc[d] \in ChildPcs => child[d] \in Handles
  BY LocalHandles
<1>1. pc[c] = "idle" /\ pc' = [pc EXCEPT ![c] = "take"] /\ run[c] = NoHandle
  BY DEF Poll, Goto
<1>2. /\ Len(queue) >= 1 /\ h = queue[1] /\ h \in Handles
      /\ task[h] = "ready" /\ hasCtx[h] /\ h <= nthreads
  <2>1. Len(queue) >= 1 /\ h = queue[1] /\ h \in Handles
    BY DEF Poll, TypeOK
  <2>2. task[h] = "ready"
    BY <2>1 DEF CtxInv, QueueReady
  <2>3. QED
    BY <2>1, <2>2 DEF CtxInv, CtxStored, FreshHandles, TypeOK, Handles
<1>3. /\ run' = [run EXCEPT ![c] = h]
      /\ task' = [task EXCEPT ![h] = "running"]
      /\ queue' = Tail(queue)
      /\ UNCHANGED <<nthreads, hasCtx, child>>
  BY DEF Poll
<1>4. child[c] = NoHandle /\ pc[c] \notin TaskPcs /\ pc'[c] \in TaskPcs
      /\ pc'[c] = "take" /\ pc'[c] \notin ChildPcs
  BY <1>1 DEF CtxInv, ChildAtPc, ChildPcs, TaskPcs, TypeOK
<1>5. \A d \in CPUs : pc[d] \in TaskPcs => run[d] # h
  BY <1>2 DEF CtxInv, RunRunning
<1>6. \A d \in CPUs : pc[d] \in ChildPcs => child[d] # h
  BY <1>2 DEF CtxInv, ChildFresh
<1>7. /\ Len(queue') = Len(queue) - 1
      /\ \A i \in 1 .. Len(queue') : queue'[i] = queue[i + 1] /\ queue'[i] # h
  BY <1>2, <1>3 DEF CtxInv, QueueDistinct, TypeOK
<1>8. \A d \in CPUs : d # c => pc'[d] = pc[d] /\ run'[d] = run[d]
  BY <1>1, <1>3 DEF TypeOK
<1>9. h # NoHandle
  BY <1>2 DEF Handles, NoHandle
<1>10. FreshHandles'
  BY <1>2, <1>3 DEF CtxInv, FreshHandles, TypeOK
<1>11. RunAtTask'
  BY <1>3, <1>4, <1>8, <1>9 DEF CtxInv, RunAtTask, TypeOK
<1>12. RunRunning'
  BY <1>0, <1>2, <1>3, <1>4, <1>5, <1>8 DEF CtxInv, RunRunning, TypeOK
<1>13. RunDistinct'
  BY <1>1, <1>3, <1>5, <1>8, <1>9 DEF CtxInv, RunDistinct, RunAtTask, TypeOK
<1>14. RunningRun'
  <2>1. SUFFICES ASSUME NEW x \in Handles, task'[x] = "running"
                 PROVE  \E d \in CPUs : run'[d] = x
    BY DEF RunningRun
  <2>2. CASE x = h
    BY <1>3, <2>2 DEF TypeOK
  <2>3. CASE x # h
    <3>1. PICK d \in CPUs : run[d] = x
      BY <1>3, <2>1, <2>3 DEF CtxInv, RunningRun, TypeOK
    <3>2. d # c
      BY <1>1, <3>1 DEF Handles, NoHandle
    <3>3. QED
      BY <1>8, <3>1, <3>2
  <2>4. QED
    BY <2>2, <2>3
<1>15. QueueReady'
  BY <1>2, <1>3, <1>7 DEF CtxInv, QueueReady, TypeOK
<1>16. QueueDistinct'
  BY <1>7 DEF CtxInv, QueueDistinct
<1>17. ReadyQueued'
  <2>1. SUFFICES ASSUME NEW x \in Handles, task'[x] = "ready"
                 PROVE  \E i \in 1 .. Len(queue') : queue'[i] = x
    BY DEF ReadyQueued, Queued
  <2>2. x # h /\ task[x] = "ready"
    BY <1>3, <2>1 DEF TypeOK
  <2>3. PICK i \in 1 .. Len(queue) : queue[i] = x
    BY <2>2 DEF CtxInv, ReadyQueued, Queued
  <2>4. i # 1
    BY <1>2, <2>2, <2>3
  <2>5. i - 1 \in 1 .. Len(queue') /\ queue'[i - 1] = x
    BY <1>2, <1>7, <2>3, <2>4
  <2>6. QED
    BY <2>5
<1>18. (CtxStored /\ DefunctNoCtx)'
  BY <1>3 DEF CtxInv, CtxStored, DefunctNoCtx, TypeOK
<1>19. TakeHasCtx'
  BY <1>2, <1>3, <1>4, <1>8 DEF CtxInv, TakeHasCtx, TypeOK
<1>20. HeldNoCtx'
  BY <1>3, <1>4, <1>8 DEF CtxInv, HeldNoCtx, HoldPcs
<1>21. (ChildAtPc /\ ChildFresh /\ ChildDistinct)'
  BY <1>0, <1>3, <1>4, <1>6, <1>8 DEF CtxInv, ChildAtPc, ChildFresh, ChildDistinct, TypeOK
<1>22. ChildCtx'
  BY <1>3, <1>4, <1>8 DEF CtxInv, ChildCtx, CtxChildPcs
<1>23. QED
  BY <1>10, <1>11, <1>12, <1>13, <1>14, <1>15, <1>16, <1>17, <1>18, <1>19,
     <1>20, <1>21, <1>22 DEF CtxInv


(* A CPU lets go of the future it polls: after an unhandled trap (the    *)
(* context is lost, s = "defunct"), after an exit (the context restored,   *)
(* s = "ended") or to yield (restored, s = "ready", queued at the tail).   *)
LEMMA CtxRelease ==
  ASSUME TypeInv, CtxInv, NEW c \in CPUs, NEW s \in {"defunct", "ended", "ready"},
         pc[c] \in {"dispatch", "restore"},
         pc' = [pc EXCEPT ![c] = "idle"],
         run' = [run EXCEPT ![c] = NoHandle],
         task' = [task EXCEPT ![run[c]] = s],
         hasCtx' = IF s = "defunct" THEN hasCtx ELSE [hasCtx EXCEPT ![run[c]] = TRUE],
         queue' = IF s = "ready" THEN Append(queue, run[c]) ELSE queue,
         UNCHANGED <<nthreads, child>>
  PROVE  CtxInv'
<1> USE DEF TypeInv
<1> DEFINE h == run[c]
<1>0. \A d \in CPUs : /\ pc[d] \in TaskPcs => run[d] \in Handles
                      /\ pc[d] \in ChildPcs => child[d] \in Handles
  BY LocalHandles
<1>1. /\ pc[c] \in TaskPcs /\ pc[c] \in HoldPcs /\ pc[c] \notin ChildPcs
      /\ pc'[c] \notin TaskPcs /\ pc'[c] \notin ChildPcs
  BY DEF TaskPcs, HoldPcs, ChildPcs, TypeOK
<1>2. /\ h \in Handles /\ h # NoHandle /\ task[h] = "running"
      /\ h <= nthreads /\ ~hasCtx[h] /\ child[c] = NoHandle
  <2>1. h \in Handles /\ h # NoHandle
    BY <1>0, <1>1 DEF Handles, NoHandle
  <2>2. task[h] = "running" /\ ~hasCtx[h] /\ child[c] = NoHandle
    BY <1>1 DEF CtxInv, RunRunning, HeldNoCtx, ChildAtPc
  <2>3. QED
    BY <2>1, <2>2 DEF CtxInv, FreshHandles, TypeOK, Handles
<1>3. /\ \A d \in CPUs : d # c /\ pc[d] \in TaskPcs => run[d] # h
      /\ \A d \in CPUs : pc[d] \in ChildPcs => child[d] # h
      /\ \A i \in 1 .. Len(queue) : queue[i] # h
  BY <1>1, <1>2 DEF CtxInv, RunAtTask, RunDistinct, ChildFresh, QueueReady
<1>4. \A d \in CPUs : d # c => pc'[d] = pc[d] /\ run'[d] = run[d]
  BY DEF TypeOK
<1>5. /\ \A x \in Handles : x # h => task'[x] = task[x] /\ hasCtx'[x] = hasCtx[x]
      /\ task'[h] = s /\ hasCtx'[h] = (s # "defunct")
  BY <1>2 DEF TypeOK
<1>6. /\ Len(queue') = IF s = "ready" THEN Len(queue) + 1 ELSE Len(queue)
      /\ \A i \in 1 .. Len(queue) : queue'[i] = queue[i]
      /\ s = "ready" => queue'[Len(queue) + 1] = h
  BY DEF TypeOK
<1>7. FreshHandles'
  BY <1>2, <1>5 DEF CtxInv, FreshHandles
<1>8. (RunAtTask /\ RunRunning /\ RunDistinct)'
  BY <1>0, <1>1, <1>3, <1>4, <1>5 DEF CtxInv, RunAtTask, RunRunning, RunDistinct, TypeOK
<1>9. RunningRun'
  <2>1. SUFFICES ASSUME NEW x \in Handles, task'[x] = "running"
                 PROVE  \E d \in CPUs : run'[d] = x
    BY DEF RunningRun
  <2>2. x # h /\ task[x] = "running"
    BY <1>5, <2>1
  <2>3. PICK d \in CPUs : run[d] = x
    BY <2>2 DEF CtxInv, RunningRun
  <2>4. d # c
    BY <2>2, <2>3
  <2>5. QED
    BY <1>4, <2>3, <2>4
<1>10. QueueReady'
  BY <1>3, <1>5, <1>6 DEF CtxInv, QueueReady, TypeOK
<1>11. QueueDistinct'
  BY <1>3, <1>6 DEF CtxInv, QueueDistinct
<1>12. ReadyQueued'
  <2>1. SUFFICES ASSUME NEW x \in Handles, task'[x] = "ready"
                 PROVE  \E i \in 1 .. Len(queue') : queue'[i] = x
    BY DEF ReadyQueued, Queued
  <2>2. CASE x = h
    BY <1>5, <1>6, <2>1, <2>2 DEF TypeOK
  <2>3. CASE x # h
    <3>1. PICK i \in 1 .. Len(queue) : queue[i] = x
      BY <1>5, <2>1, <2>3 DEF CtxInv, ReadyQueued, Queued
    <3>2. QED
      BY <1>6, <3>1 DEF TypeOK
  <2>4. QED
    BY <2>2, <2>3
<1>13. (CtxStored /\ DefunctNoCtx)'
  BY <1>2, <1>5 DEF CtxInv, CtxStored, DefunctNoCtx
<1>14. (TakeHasCtx /\ HeldNoCtx)'
  BY <1>0, <1>1, <1>3, <1>4, <1>5 DEF CtxInv, TakeHasCtx, HeldNoCtx, HoldPcs, TaskPcs
<1>15. (ChildAtPc /\ ChildFresh /\ ChildDistinct /\ ChildCtx)'
  BY <1>0, <1>1, <1>2, <1>3, <1>4, <1>5
  DEF CtxInv, ChildAtPc, ChildFresh, ChildDistinct, ChildCtx, CtxChildPcs
<1>16. QED
  BY <1>7, <1>8, <1>9, <1>10, <1>11, <1>12, <1>13, <1>14, <1>15 DEF CtxInv


(* A new Thread object k = nthreads + 1 becomes CPU c's child: in fork    *)
(* (reg = FALSE; the context is copied in at register) or in from_raw     *)
(* (reg = TRUE; the context is built with the thread).                    *)
LEMMA CtxCreate ==
  ASSUME TypeInv, CtxInv, NEW c \in CPUs, NEW reg \in BOOLEAN,
         nthreads < MaxThreads,
         pc[c] = IF reg THEN "idle" ELSE "fork_proc",
         reg => run[c] = NoHandle,
         pc' = [pc EXCEPT ![c] = IF reg THEN "reg_lock" ELSE "fork_reg"],
         nthreads' = nthreads + 1,
         child' = [child EXCEPT ![c] = nthreads + 1],
         hasCtx' = IF reg THEN [hasCtx EXCEPT ![nthreads + 1] = TRUE] ELSE hasCtx,
         UNCHANGED <<task, queue, run>>
  PROVE  CtxInv'
<1> USE DEF TypeInv
<1> DEFINE k == nthreads + 1
<1>0. \A d \in CPUs : /\ pc[d] \in TaskPcs => run[d] \in Handles
                      /\ pc[d] \in ChildPcs => child[d] \in Handles
  BY LocalHandles
<1>1. /\ k \in Handles /\ k # NoHandle /\ task[k] = "none" /\ ~hasCtx[k]
      /\ nthreads' \in Nat
  BY BoundsAssumption DEF CtxInv, FreshHandles, TypeOK, Handles, NoHandle
<1>2. /\ pc[c] \notin ChildPcs /\ child[c] = NoHandle
      /\ pc'[c] \in ChildPcs /\ (pc'[c] \in CtxChildPcs <=> reg)
      /\ (pc'[c] \in TaskPcs <=> pc[c] \in TaskPcs)
      /\ pc'[c] # "take" /\ pc[c] # "take"
      /\ (pc'[c] \in HoldPcs <=> pc[c] \in HoldPcs)
  BY DEF CtxInv, ChildAtPc, ChildPcs, CtxChildPcs, TaskPcs, HoldPcs, TypeOK
<1>3. /\ \A d \in CPUs : pc[d] \in TaskPcs => run[d] # k
      /\ \A d \in CPUs : pc[d] \in ChildPcs => child[d] # k
  <2>1. \A d \in CPUs : pc[d] \in TaskPcs => run[d] # k
    BY <1>1 DEF CtxInv, RunRunning
  <2>2. ASSUME NEW d \in CPUs, pc[d] \in ChildPcs PROVE child[d] # k
    <3>1. child[d] <= nthreads /\ child[d] \in Nat /\ nthreads \in Nat
      BY <1>0, <2>2 DEF CtxInv, ChildFresh, TypeOK, Handles
    <3>2. QED
      BY <3>1
  <2>3. QED
    BY <2>1, <2>2
<1>4. \A d \in CPUs : d # c => pc'[d] = pc[d] /\ child'[d] = child[d]
  BY DEF TypeOK
<1>5. \A x \in Handles : x # k => hasCtx'[x] = hasCtx[x]
  BY DEF TypeOK
<1>6. FreshHandles'
  <2>1. SUFFICES ASSUME NEW x \in Handles, x > nthreads'
                 PROVE  task[x] = "none" /\ ~hasCtx'[x]
    BY DEF FreshHandles
  <2>2. x > nthreads /\ x # k
    BY <2>1 DEF TypeOK, Handles
  <2>3. QED
    BY <1>5, <2>2 DEF CtxInv, FreshHandles
<1>7. (RunAtTask /\ RunRunning /\ RunDistinct /\ RunningRun)'
  BY <1>2, <1>4 DEF CtxInv, RunAtTask, RunRunning, RunDistinct, RunningRun
<1>8. (QueueReady /\ QueueDistinct /\ ReadyQueued)'
  BY DEF CtxInv, QueueReady, QueueDistinct, ReadyQueued, Queued
<1>9. (CtxStored /\ DefunctNoCtx)'
  BY <1>1, <1>5 DEF CtxInv, CtxStored, DefunctNoCtx
<1>10. (TakeHasCtx /\ HeldNoCtx)'
  BY <1>0, <1>1, <1>2, <1>3, <1>4, <1>5
  DEF CtxInv, TakeHasCtx, HeldNoCtx, HoldPcs, TaskPcs
<1>11. (ChildAtPc /\ ChildFresh /\ ChildDistinct)'
  BY <1>1, <1>2, <1>3, <1>4 DEF CtxInv, ChildAtPc, ChildFresh, ChildDistinct, TypeOK
<1>12. ChildCtx'
  BY <1>0, <1>1, <1>2, <1>3, <1>4, <1>5 DEF CtxInv, ChildCtx, CtxChildPcs, TypeOK
<1>13. QED
  BY <1>6, <1>7, <1>8, <1>9, <1>10, <1>11, <1>12 DEF CtxInv


(* fork's register: the child gets its copied context.                    *)
LEMMA CtxForkRegister ==
  ASSUME TypeInv, CtxInv, NEW c \in CPUs, ForkRegister(c)
  PROVE  CtxInv'
<1> USE DEF TypeInv
<1> DEFINE k == child[c]
<1>0. \A d \in CPUs : /\ pc[d] \in TaskPcs => run[d] \in Handles
                      /\ pc[d] \in ChildPcs => child[d] \in Handles
  BY LocalHandles
<1>1. pc[c] = "fork_reg" /\ pc' = [pc EXCEPT ![c] = "fork_link"]
      /\ hasCtx' = [hasCtx EXCEPT ![k] = TRUE]
      /\ UNCHANGED <<nthreads, task, queue, run, child>>
  BY DEF ForkRegister, Goto, taskVars
<1>2. /\ k \in Handles /\ task[k] = "none" /\ k <= nthreads
      /\ \A d \in CPUs : pc[d] \in TaskPcs => run[d] # k
  BY <1>0, <1>1 DEF CtxInv, ChildFresh, RunRunning, ChildPcs
<1>3. \A d \in CPUs : SameClass(d) \/ d = c
  BY <1>1 DEF SameClass, TypeOK
<1>4. /\ pc'[c] \in TaskPcs /\ pc[c] \in TaskPcs /\ pc'[c] \in HoldPcs /\ pc[c] \in HoldPcs
      /\ pc'[c] \in ChildPcs /\ pc[c] \in ChildPcs /\ pc'[c] \in CtxChildPcs
  BY <1>1 DEF TaskPcs, HoldPcs, ChildPcs, CtxChildPcs, TypeOK
<1>5. \A x \in Handles : x # k => hasCtx'[x] = hasCtx[x]
  BY <1>1 DEF TypeOK
<1>6. (FreshHandles /\ CtxStored /\ DefunctNoCtx)'
  BY <1>1, <1>2, <1>5 DEF CtxInv, FreshHandles, CtxStored, DefunctNoCtx, TypeOK, Handles
<1>7. (RunAtTask /\ RunRunning /\ RunDistinct /\ RunningRun)'
  BY <1>1, <1>3, <1>4 DEF CtxInv, RunAtTask, RunRunning, RunDistinct, RunningRun, SameClass
<1>8. (QueueReady /\ QueueDistinct /\ ReadyQueued)'
  BY <1>1 DEF CtxInv, QueueReady, QueueDistinct, ReadyQueued, Queued
<1>9. TakeHasCtx'
  BY <1>0, <1>1, <1>3, <1>4, <1>5 DEF CtxInv, TakeHasCtx, SameClass, TaskPcs
<1>10. HeldNoCtx'
  BY <1>0, <1>1, <1>2, <1>3, <1>4, <1>5 DEF CtxInv, HeldNoCtx, SameClass, HoldPcs
<1>11. (ChildAtPc /\ ChildFresh /\ ChildDistinct)'
  BY <1>1, <1>3, <1>4 DEF CtxInv, ChildAtPc, ChildFresh, ChildDistinct, SameClass
<1>12. ChildCtx'
  BY <1>0, <1>1, <1>3, <1>4, <1>5 DEF CtxInv, ChildCtx, SameClass, TypeOK
<1>13. QED
  BY <1>6, <1>7, <1>8, <1>9, <1>10, <1>11, <1>12 DEF CtxInv

(* spawn() of CPU c's child, by the fork syscall (from fork_ret, going on  *)
(* to the signal check) or by from_raw (from raw_spawn, done): the child   *)
(* is queued ready with the context it was registered with.                *)
LEMMA CtxSpawn ==
  ASSUME TypeInv, CtxInv, NEW c \in CPUs,
         \/ pc[c] = "fork_ret" /\ pc' = [pc EXCEPT ![c] = "signal"]
         \/ pc[c] = "raw_spawn" /\ pc' = [pc EXCEPT ![c] = "idle"],
         SpawnTask(child[c]),
         child' = [child EXCEPT ![c] = NoHandle],
         UNCHANGED <<nthreads, hasCtx, run>>
  PROVE  CtxInv'
<1> USE DEF TypeInv
<1> DEFINE k == child[c]
<1>0. \A d \in CPUs : /\ pc[d] \in TaskPcs => run[d] \in Handles
                      /\ pc[d] \in ChildPcs => child[d] \in Handles
  BY LocalHandles
<1>1. /\ pc[c] \in CtxChildPcs /\ pc'[c] \notin ChildPcs
      /\ (pc'[c] \in TaskPcs <=> pc[c] \in TaskPcs)
      /\ (pc'[c] \in HoldPcs <=> pc[c] \in HoldPcs)
      /\ pc'[c] # "take" /\ pc[c] # "take"
      /\ \A d \in CPUs : d # c => pc'[d] = pc[d] /\ child'[d] = child[d]
  BY DEF CtxChildPcs, ChildPcs, TaskPcs, HoldPcs, TypeOK
<1>2. /\ k \in Handles /\ k # NoHandle /\ task[k] = "none" /\ k <= nthreads /\ hasCtx[k]
      /\ \A d \in CPUs : pc[d] \in TaskPcs => run[d] # k
      /\ \A d \in CPUs : d # c /\ pc[d] \in ChildPcs => child[d] # k
      /\ \A i \in 1 .. Len(queue) : queue[i] # k
  BY <1>0, <1>1 DEF CtxInv, ChildFresh, ChildCtx, ChildAtPc, ChildDistinct,
                    RunRunning, QueueReady, CtxChildPcs, ChildPcs, Handles, NoHandle
<1>3. /\ task' = [task EXCEPT ![k] = "ready"] /\ queue' = Append(queue, k)
      /\ \A x \in Handles : x # k => task'[x] = task[x]
      /\ task'[k] = "ready"
      /\ Len(queue') = Len(queue) + 1 /\ queue'[Len(queue) + 1] = k
      /\ \A i \in 1 .. Len(queue) : queue'[i] = queue[i]
  BY <1>2 DEF SpawnTask, TypeOK
<1>4. FreshHandles'
  BY <1>2, <1>3 DEF CtxInv, FreshHandles, TypeOK, Handles
<1>5. (RunAtTask /\ RunRunning /\ RunDistinct /\ RunningRun)'
  <2>1. (RunAtTask /\ RunDistinct)'
    BY <1>1 DEF CtxInv, RunAtTask, RunDistinct
  <2>2. RunRunning'
    <3>1. SUFFICES ASSUME NEW d \in CPUs, pc'[d] \in TaskPcs
                   PROVE  task'[run[d]] = "running"
      BY DEF RunRunning
    <3>2. pc[d] \in TaskPcs
      BY <1>1, <3>1
    <3>3. run[d] \in Handles /\ run[d] # k /\ task[run[d]] = "running"
      BY <1>0, <1>2, <3>2 DEF CtxInv, RunRunning
    <3>4. QED
      BY <1>3, <3>3
  <2>3. RunningRun'
    BY <1>3 DEF CtxInv, RunningRun
  <2>4. QED
    BY <2>1, <2>2, <2>3
<1>6. QueueReady' /\ QueueDistinct'
  BY <1>2, <1>3 DEF CtxInv, QueueReady, QueueDistinct, TypeOK
<1>7. ReadyQueued'
  <2>1. SUFFICES ASSUME NEW x \in Handles, task'[x] = "ready"
                 PROVE  \E i \in 1 .. Len(queue') : queue'[i] = x
    BY DEF ReadyQueued, Queued
  <2>2. CASE x = k
    BY <1>3, <2>2 DEF TypeOK
  <2>3. CASE x # k
    <3>1. PICK i \in 1 .. Len(queue) : queue[i] = x
      BY <1>3, <2>1, <2>3 DEF CtxInv, ReadyQueued, Queued
    <3>2. QED
      BY <1>3, <3>1 DEF TypeOK
  <2>4. QED
    BY <2>2, <2>3
<1>8. (CtxStored /\ DefunctNoCtx)'
  BY <1>2, <1>3 DEF CtxInv, CtxStored, DefunctNoCtx
<1>9. (TakeHasCtx /\ HeldNoCtx)'
  BY <1>1 DEF CtxInv, TakeHasCtx, HeldNoCtx, HoldPcs
<1>10. (ChildAtPc /\ ChildFresh /\ ChildDistinct /\ ChildCtx)'
  BY <1>0, <1>1, <1>2, <1>3
  DEF CtxInv, ChildAtPc, ChildFresh, ChildDistinct, ChildCtx, CtxChildPcs, TypeOK
<1>11. QED
  BY <1>4, <1>5, <1>6, <1>7, <1>8, <1>9, <1>10 DEF CtxInv


(* restore and loop back to take: the context goes back to the thread,   *)
(* to be taken again by the same CPU.                                      *)
LEMMA CtxRestoreLoop ==
  ASSUME TypeInv, CtxInv, NEW c \in CPUs,
         pc[c] = "restore", pc' = [pc EXCEPT ![c] = "take"],
         hasCtx' = [hasCtx EXCEPT ![run[c]] = TRUE],
         UNCHANGED <<nthreads, task, queue, run, child>>
  PROVE  CtxInv'
<1> USE DEF TypeInv
<1> DEFINE h == run[c]
<1>0. \A d \in CPUs : /\ pc[d] \in TaskPcs => run[d] \in Handles
                      /\ pc[d] \in ChildPcs => child[d] \in Handles
  BY LocalHandles
<1>1. /\ pc[c] \in TaskPcs /\ pc'[c] \in TaskPcs /\ pc'[c] \notin HoldPcs
      /\ pc[c] \notin ChildPcs /\ pc'[c] \notin ChildPcs
      /\ \A d \in CPUs : d # c => pc'[d] = pc[d]
  BY DEF TaskPcs, HoldPcs, ChildPcs, TypeOK
<1>2. /\ h \in Handles /\ task[h] = "running" /\ h <= nthreads
      /\ \A d \in CPUs : d # c /\ pc[d] \in TaskPcs => run[d] # h
      /\ \A d \in CPUs : pc[d] \in ChildPcs => child[d] # h
  <2>1. h \in Handles /\ task[h] = "running"
    BY <1>0, <1>1 DEF CtxInv, RunRunning
  <2>2. QED
    BY <1>1, <2>1 DEF CtxInv, FreshHandles, RunAtTask, RunDistinct, ChildFresh,
                      TypeOK, Handles
<1>3. \A x \in Handles : x # h => hasCtx'[x] = hasCtx[x]
  BY DEF TypeOK
<1>4. (FreshHandles /\ CtxStored /\ DefunctNoCtx)'
  BY <1>2, <1>3 DEF CtxInv, FreshHandles, CtxStored, DefunctNoCtx, TypeOK, Handles
<1>5. (RunAtTask /\ RunRunning /\ RunDistinct /\ RunningRun)'
  BY <1>1 DEF CtxInv, RunAtTask, RunRunning, RunDistinct, RunningRun
<1>6. (QueueReady /\ QueueDistinct /\ ReadyQueued)'
  BY DEF CtxInv, QueueReady, QueueDistinct, ReadyQueued, Queued
<1>7. TakeHasCtx'
  BY <1>0, <1>1, <1>2, <1>3 DEF CtxInv, TakeHasCtx, TaskPcs, TypeOK
<1>8. HeldNoCtx'
  BY <1>0, <1>1, <1>2, <1>3 DEF CtxInv, HeldNoCtx, HoldPcs
<1>9. (ChildAtPc /\ ChildFresh /\ ChildDistinct /\ ChildCtx)'
  BY <1>0, <1>1, <1>2, <1>3
  DEF CtxInv, ChildAtPc, ChildFresh, ChildDistinct, ChildCtx, CtxChildPcs
<1>10. QED
  BY <1>4, <1>5, <1>6, <1>7, <1>8, <1>9 DEF CtxInv

(* The empty thread table with every CPU idle satisfies CtxInv.           *)
LEMMA InitCtx == Init => CtxInv
BY DEF Init, CtxInv, FreshHandles, RunAtTask, RunRunning, RunDistinct,
       RunningRun, QueueReady, QueueDistinct, ReadyQueued, Queued, CtxStored,
       DefunctNoCtx, TakeHasCtx, HeldNoCtx, ChildAtPc, ChildFresh,
       ChildDistinct, ChildCtx, TaskPcs, HoldPcs, ChildPcs, CtxChildPcs, NoHandle


(* Every step keeps CtxInv: one case per action of spawn()'s loop, fork,   *)
(* from_raw and register, each by the lemma for what it does to the       *)
(* thread it touches.                                                      *)
LEMMA NextCtx == TypeInv /\ CtxInv /\ [Next]_vars => CtxInv'
<1> SUFFICES ASSUME TypeInv, CtxInv, [Next]_vars PROVE CtxInv'
  OBVIOUS
<1>1. CASE UNCHANGED vars
  <2>1. \A d \in CPUs : SameClass(d)
    BY <1>1 DEF vars, SameClass
  <2>2. QED
    BY <1>1, <2>1, ClassKept DEF vars
<1>2. ASSUME NEW c \in CPUs, Poll(c) PROVE CtxInv'
  BY <1>2, CtxPoll
<1>3. ASSUME NEW c \in CPUs, Take(c) PROVE CtxInv'
  BY <1>3, CtxTake
<1>4. ASSUME NEW c \in CPUs, Dispatch(c) PROVE CtxInv'
  <2>1. CASE pc'[c] # "idle"
    BY <1>4, <2>1, CtxLocalSteps
  <2>2. CASE pc'[c] = "idle"
    <3>1. /\ task' = [task EXCEPT ![run[c]] = "defunct"]
          /\ pc' = [pc EXCEPT ![c] = "idle"]
          /\ run' = [run EXCEPT ![c] = NoHandle]
      BY <1>4, <2>2 DEF Dispatch, TypeInv, TypeOK
    <3>2. hasCtx' = IF "defunct" = "defunct" THEN hasCtx
                    ELSE [hasCtx EXCEPT ![run[c]] = TRUE]
      BY <1>4 DEF Dispatch
    <3>3. queue' = IF "defunct" = "ready" THEN Append(queue, run[c]) ELSE queue
      BY <1>4 DEF Dispatch
    <3>4. QED
      BY <1>4, <3>1, <3>2, <3>3, CtxRelease DEF Dispatch
  <2>3. QED
    BY <2>1, <2>2
<1>5. ASSUME NEW c \in CPUs, Restore(c) PROVE CtxInv'
  <2>1. pc[c] = "restore" /\ hasCtx' = [hasCtx EXCEPT ![run[c]] = TRUE]
        /\ UNCHANGED <<nthreads, child>>
    BY <1>5 DEF Restore
  <2>2. CASE exited[run[c]]
    <3>1. /\ task' = [task EXCEPT ![run[c]] = "ended"]
          /\ pc' = [pc EXCEPT ![c] = "idle"]
          /\ run' = [run EXCEPT ![c] = NoHandle]
          /\ queue' = IF "ended" = "ready" THEN Append(queue, run[c]) ELSE queue
          /\ hasCtx' = IF "ended" = "defunct" THEN hasCtx
                       ELSE [hasCtx EXCEPT ![run[c]] = TRUE]
      BY <1>5, <2>1, <2>2 DEF Restore
    <3>2. QED
      BY <2>1, <3>1, CtxRelease
  <2>3. CASE ~exited[run[c]] /\ shouldYield[run[c]]
    <3>1. /\ task' = [task EXCEPT ![run[c]] = "ready"]
          /\ pc' = [pc EXCEPT ![c] = "idle"]
          /\ run' = [run EXCEPT ![c] = NoHandle]
          /\ queue' = IF "ready" = "ready" THEN Append(queue, run[c]) ELSE queue
          /\ hasCtx' = IF "ready" = "defunct" THEN hasCtx
                       ELSE [hasCtx EXCEPT ![run[c]] = TRUE]
      BY <1>5, <2>1, <2>3 DEF Restore
    <3>2. QED
      BY <2>1, <3>1, CtxRelease
  <2>4. CASE ~exited[run[c]] /\ ~shouldYield[run[c]]
    <3>1. pc' = [pc EXCEPT ![c] = "take"] /\ UNCHANGED <<task, queue, run>>
      BY <1>5, <2>4 DEF Restore
    <3>2. QED
      BY <2>1, <3>1, CtxRestoreLoop
  <2>5. QED
    BY <2>2, <2>3, <2>4
<1>6. ASSUME NEW c \in CPUs,
             \/ ForkLock(c) \/ ForkFind(c) \/ ForkLink(c) \/ Signal(c)
             \/ RegisterLock(c) \/ RegisterInsert(c)
      PROVE  CtxInv'
  BY <1>6, CtxLocalSteps
<1>7. ASSUME NEW c \in CPUs, ForkProc(c) PROVE CtxInv'
  <2>1. /\ nthreads < MaxThreads
        /\ pc[c] = IF FALSE THEN "idle" ELSE "fork_proc"
        /\ pc' = [pc EXCEPT ![c] = IF FALSE THEN "reg_lock" ELSE "fork_reg"]
        /\ nthreads' = nthreads + 1
        /\ child' = [child EXCEPT ![c] = nthreads + 1]
        /\ hasCtx' = IF FALSE THEN [hasCtx EXCEPT ![nthreads + 1] = TRUE] ELSE hasCtx
        /\ UNCHANGED <<task, queue, run>>
    BY <1>7 DEF ForkProc, Goto, taskVars
  <2>2. QED
    BY <2>1, CtxCreate
<1>8. ASSUME NEW c \in CPUs, ForkRegister(c) PROVE CtxInv'
  BY <1>8, CtxForkRegister
<1>9. ASSUME NEW c \in CPUs, ForkReturn(c) PROVE CtxInv'
  <2>1. /\ pc[c] = "fork_ret" /\ pc' = [pc EXCEPT ![c] = "signal"]
        /\ SpawnTask(child[c]) /\ child' = [child EXCEPT ![c] = NoHandle]
        /\ UNCHANGED <<nthreads, hasCtx, run>>
    BY <1>9 DEF ForkReturn, Goto
  <2>2. QED
    BY <2>1, CtxSpawn
<1>10. ASSUME NEW c \in CPUs, DebugSpawn(c) PROVE CtxInv'
  <2>1. /\ pc[c] = "raw_spawn" /\ pc' = [pc EXCEPT ![c] = "idle"]
        /\ SpawnTask(child[c]) /\ child' = [child EXCEPT ![c] = NoHandle]
        /\ UNCHANGED <<nthreads, hasCtx, run>>
    BY <1>10 DEF DebugSpawn, Goto
  <2>2. QED
    BY <2>1, CtxSpawn
<1>11. ASSUME NEW c \in CPUs, DebugThreading(c) PROVE CtxInv'
  <2>1. CASE UNCHANGED <<nthreads, hasCtx, pid, pc, cand, child>>
    <3>1. \A d \in CPUs : SameClass(d)
      BY <2>1 DEF SameClass
    <3>2. QED
      BY <1>11, <2>1, <3>1, ClassKept DEF DebugThreading, taskVars
  <2>2. CASE ~UNCHANGED <<nthreads, hasCtx, pid, pc, cand, child>>
    <3>1. /\ nthreads < MaxThreads
          /\ pc[c] = IF TRUE THEN "idle" ELSE "fork_proc"
          /\ run[c] = NoHandle
          /\ pc' = [pc EXCEPT ![c] = IF TRUE THEN "reg_lock" ELSE "fork_reg"]
          /\ nthreads' = nthreads + 1
          /\ child' = [child EXCEPT ![c] = nthreads + 1]
          /\ hasCtx' = IF TRUE THEN [hasCtx EXCEPT ![nthreads + 1] = TRUE] ELSE hasCtx
          /\ UNCHANGED <<task, queue, run>>
      BY <1>11, <2>2 DEF DebugThreading, taskVars
    <3>2. QED
      BY <3>1, CtxCreate
  <2>3. QED
    BY <2>1, <2>2
<1>12. QED
  BY <1>1, <1>2, <1>3, <1>4, <1>5, <1>6, <1>7, <1>8, <1>9, <1>10, <1>11 DEF Next


(* CtxInv gives ContextExclusive: a spawned thread without its context is *)
(* defunct or running on a CPU past its take.                              *)
LEMMA CtxExclusive == TypeInv /\ CtxInv => ContextExclusive
<1> SUFFICES ASSUME TypeInv, CtxInv PROVE ContextExclusive
  OBVIOUS
<1> USE DEF TypeInv
<1>1. ASSUME NEW h \in Spawned
      PROVE  ~hasCtx[h] <=> (task[h] = "defunct" \/ \E c \in CPUs : Holding(c, h))
  <2>1. h \in Handles /\ task[h] \in TaskStates \ {"none"}
    <3>1. h \in 1 .. nthreads /\ task[h] # "none"
      BY DEF Spawned
    <3>2. h \in Handles
      BY <3>1, BoundsAssumption DEF TypeOK, Handles
    <3>3. QED
      BY <3>1, <3>2 DEF TypeOK
  <2>2. ASSUME ~hasCtx[h], task[h] # "defunct"
        PROVE  \E c \in CPUs : Holding(c, h)
    <3>1. task[h] = "running"
      BY <2>1, <2>2 DEF CtxInv, CtxStored, TaskStates
    <3>2. PICK c \in CPUs : run[c] = h
      BY <2>1, <3>1 DEF CtxInv, RunningRun
    <3>3. pc[c] \in TaskPcs /\ pc[c] # "take"
      BY <2>1, <2>2, <3>2 DEF CtxInv, RunAtTask, TakeHasCtx, Handles, NoHandle
    <3>4. QED
      BY <3>2, <3>3 DEF Holding, TaskPcs
  <2>3. ASSUME task[h] = "defunct" \/ \E c \in CPUs : Holding(c, h)
        PROVE  ~hasCtx[h]
    <3>1. CASE task[h] = "defunct"
      BY <2>1, <3>1 DEF CtxInv, DefunctNoCtx
    <3>2. ASSUME NEW c \in CPUs, Holding(c, h) PROVE ~hasCtx[h]
      <4>1. run[c] = h /\ pc[c] \in HoldPcs
        BY <3>2 DEF Holding, HoldPcs, TaskPcs
      <4>2. QED
        BY <4>1 DEF CtxInv, HeldNoCtx
    <3>3. QED
      BY <2>3, <3>1, <3>2
  <2>4. QED
    BY <2>2, <2>3
<1>2. QED
  BY <1>1 DEF ContextExclusive, CtxInv, RunDistinct, TakeHasCtx

(* ContextExclusive for every number of CPUs and threads: spawn()'s loop  *)
(* never lets two CPUs hold one thread's context, and Thread::take's       *)
(* unwrap never finds the context missing.                                 *)
THEOREM ContextsExclusive == Spec => []ContextExclusive
<1>1. Init => TypeInv /\ CtxInv
  BY InitTypeInv, InitCtx
<1>2. TypeInv /\ CtxInv /\ [Next]_vars => TypeInv' /\ CtxInv'
  BY NextTypeInv, NextCtx
<1>3. TypeInv /\ CtxInv => ContextExclusive
  BY CtxExclusive
<1>4. QED
  BY <1>1, <1>2, <1>3, PTL DEF Spec

=============================================================================
