------------------------- MODULE ThreadTreeProofs ---------------------------
(***************************************************************************)
(* Proof that Thread::fork builds the process tree it promises            *)
(* (ChildLinked): once the parent's lock is free, a forked process is in  *)
(* its parent's children under its own id, for every number of CPUs,      *)
(* threads and ids.                                                        *)
(***************************************************************************)
EXTENDS ThreadCtxProofs

(* Where fork holds the parent's lock (from self.parent.lock() until it   *)
(* returns), and where it has built the child's process.                  *)
LockPcs == {"fork_find", "fork_proc", "fork_reg", "fork_link", "fork_ret"}
BuildPcs == {"fork_reg", "fork_link", "fork_ret"}

(* k is in its parent's children; k's process is being built by a fork.  *)
Linked(k) == <<pid[k], k>> \in childrenOf[parentProc[k]]
Building(k) == \E c \in CPUs : pc[c] \in BuildPcs /\ child[c] = k

(* ChildLinked is not inductive: between ForkProc and ForkReturn the      *)
(* child has a parent but is in no children list, which is harmless only  *)
(* because the forking CPU holds the parent's lock all that time.         *)

(* Handles not yet created have no parent.                                 *)
ParentFresh == \A x \in Handles : x > nthreads => parentProc[x] = NoHandle
(* A held process lock is held by a CPU inside fork on that process.      *)
LockHeld ==
  \A h \in Handles : procLock[h] # NoCpu =>
    pc[procLock[h]] \in LockPcs /\ run[procLock[h]] = h
(* A CPU inside fork holds its process's lock.                             *)
LockOwned == \A c \in CPUs : pc[c] \in LockPcs => procLock[run[c]] = c
(* The child a fork has built has this process as parent and the id      *)
(* found as process id.                                                    *)
BuildRecorded ==
  \A c \in CPUs : pc[c] \in BuildPcs =>
    parentProc[child[c]] = run[c] /\ pid[child[c]] = cand[c]
(* Every process with a parent is linked, or still being built.           *)
LinkedOrBuilding ==
  \A k \in 1 .. nthreads : parentProc[k] # NoHandle => Linked(k) \/ Building(k)

TreeInv == ParentFresh /\ LockHeld /\ LockOwned /\ BuildRecorded /\ LinkedOrBuilding

(* A step that keeps the created threads, the process fields TreeInv      *)
(* reads, every CPU's side of LockPcs and BuildPcs, and the locals of the *)
(* CPUs inside fork, keeps TreeInv.                                        *)
LEMMA TreeKept ==
  ASSUME TypeOK, TreeInv,
         UNCHANGED <<nthreads, parentProc, pid, childrenOf, procLock>>,
         \A d \in CPUs : /\ pc'[d] \in LockPcs <=> pc[d] \in LockPcs
                         /\ pc'[d] \in BuildPcs <=> pc[d] \in BuildPcs,
         \A d \in CPUs : pc[d] \in LockPcs => run'[d] = run[d],
         \A d \in CPUs : pc[d] \in BuildPcs => cand'[d] = cand[d] /\ child'[d] = child[d]
  PROVE  TreeInv'
<1>1. ParentFresh'
  BY DEF TreeInv, ParentFresh
<1>2. LockHeld'
  BY DEF TreeInv, LockHeld, TypeOK
<1>3. LockOwned'
  BY DEF TreeInv, LockOwned
<1>4. BuildRecorded'
  BY DEF TreeInv, BuildRecorded, LockPcs, BuildPcs
<1>5. LinkedOrBuilding'
  <2>1. \A k : Linked(k) => Linked(k)'
    BY DEF Linked
  <2>2. ASSUME NEW k, Building(k) PROVE Building(k)'
    <3>1. PICK c \in CPUs : pc[c] \in BuildPcs /\ child[c] = k
      BY <2>2 DEF Building
    <3>2. QED
      BY <3>1 DEF Building
  <2>3. QED
    BY <2>1, <2>2 DEF TreeInv, LinkedOrBuilding
<1>6. QED
  BY <1>1, <1>2, <1>3, <1>4, <1>5 DEF TreeInv

(* A CPU whose counter is set to one on the same side of LockPcs and of   *)
(* BuildPcs.                                                               *)
LEMMA SetSide ==
  ASSUME TypeOK, NEW c \in CPUs, NEW to, pc' = [pc EXCEPT ![c] = to],
         pc[c] \in LockPcs <=> to \in LockPcs,
         pc[c] \in BuildPcs <=> to \in BuildPcs
  PROVE  \A d \in CPUs : /\ pc'[d] \in LockPcs <=> pc[d] \in LockPcs
                         /\ pc'[d] \in BuildPcs <=> pc[d] \in BuildPcs
BY DEF TypeOK


(* self.parent.lock(): fork takes its process's lock.                     *)
LEMMA TreeForkLock ==
  ASSUME TypeInv, TreeInv, NEW c \in CPUs, ForkLock(c)
  PROVE  TreeInv'
<1> USE DEF TypeInv
<1> DEFINE h == run[c]
<1>1. /\ pc[c] = "fork_lock" /\ pc' = [pc EXCEPT ![c] = "fork_find"]
      /\ procLock[h] = NoCpu /\ procLock' = [procLock EXCEPT ![h] = c]
      /\ UNCHANGED <<nthreads, parentProc, pid, childrenOf, run, child>>
      /\ \A d \in CPUs : d # c => cand'[d] = cand[d]
  BY DEF ForkLock, Goto, TypeOK
<1>2. h \in Handles
  BY <1>1 DEF LocalsTyped, LocalTyped, TaskPcs
<1>3. /\ pc[c] \notin LockPcs /\ pc'[c] \in LockPcs /\ pc'[c] \notin BuildPcs
      /\ \A d \in CPUs : d # c => pc'[d] = pc[d]
  BY <1>1 DEF LockPcs, BuildPcs, TypeOK
<1>4. \A d \in CPUs : pc[d] \in LockPcs => run[d] # h
  BY <1>1, CPUsAssumption DEF TreeInv, LockOwned
<1>5. ParentFresh'
  BY <1>1 DEF TreeInv, ParentFresh
<1>6. LockHeld'
  <2>1. SUFFICES ASSUME NEW x \in Handles, procLock'[x] # NoCpu
                 PROVE  pc'[procLock'[x]] \in LockPcs /\ run'[procLock'[x]] = x
    BY DEF LockHeld
  <2>2. CASE x = h
    BY <1>1, <1>3, <2>2 DEF TypeOK
  <2>3. CASE x # h
    <3>1. procLock'[x] = procLock[x] /\ procLock[x] \in CPUs
      BY <1>1, <2>1, <2>3 DEF TypeOK
    <3>2. pc[procLock[x]] \in LockPcs /\ run[procLock[x]] = x
      BY <2>1, <3>1 DEF TreeInv, LockHeld
    <3>3. QED
      BY <1>1, <1>3, <3>1, <3>2
  <2>4. QED
    BY <2>2, <2>3
<1>7. LockOwned'
  BY <1>1, <1>2, <1>3, <1>4 DEF TreeInv, LockOwned, TypeOK
<1>8. BuildRecorded'
  BY <1>1, <1>3 DEF TreeInv, BuildRecorded, LockPcs, BuildPcs
<1>9. LinkedOrBuilding'
  <2>1. \A k : Linked(k) => Linked(k)'
    BY <1>1 DEF Linked
  <2>2. ASSUME NEW k, Building(k) PROVE Building(k)'
    <3>1. PICK d \in CPUs : pc[d] \in BuildPcs /\ child[d] = k
      BY <2>2 DEF Building
    <3>2. d # c
      BY <1>3, <3>1 DEF LockPcs, BuildPcs
    <3>3. QED
      BY <1>1, <1>3, <3>1, <3>2 DEF Building
  <2>3. QED
    BY <1>1, <2>1, <2>2 DEF TreeInv, LinkedOrBuilding
<1>10. QED
  BY <1>5, <1>6, <1>7, <1>8, <1>9 DEF TreeInv

(* ForkProc: the child process k = nthreads + 1 is built with this        *)
(* process as parent and the id found as process id.                      *)
LEMMA TreeForkProc ==
  ASSUME TypeInv, CtxInv, TreeInv, NEW c \in CPUs, ForkProc(c)
  PROVE  TreeInv'
<1> USE DEF TypeInv
<1> DEFINE k == nthreads + 1
<1> USE DEF k
<1>0. \A d \in CPUs : pc[d] \in ChildPcs => child[d] \in Handles /\ child[d] <= nthreads
  BY LocalHandles DEF CtxInv, ChildFresh
<1>1. /\ pc[c] = "fork_proc" /\ pc' = [pc EXCEPT ![c] = "fork_reg"]
      /\ nthreads < MaxThreads /\ nthreads' = k
      /\ child' = [child EXCEPT ![c] = k]
      /\ pid' = [pid EXCEPT ![k] = cand[c]]
      /\ parentProc' = [parentProc EXCEPT ![k] = run[c]]
      /\ UNCHANGED <<childrenOf, procLock, run, cand>>
  BY DEF ForkProc, Goto
<1>2. k \in Handles /\ nthreads \in Nat
  BY <1>1, BoundsAssumption DEF TypeOK, Handles
<1>3. /\ pc[c] \in LockPcs /\ pc[c] \notin BuildPcs /\ pc'[c] \in BuildPcs
      /\ \A d \in CPUs : d # c => pc'[d] = pc[d] /\ child'[d] = child[d]
  BY <1>1 DEF LockPcs, BuildPcs, TypeOK
<1>4. \A x \in Handles : x # k => parentProc'[x] = parentProc[x] /\ pid'[x] = pid[x]
  BY <1>1 DEF TypeOK
<1>5. \A d \in CPUs : pc[d] \in BuildPcs => child[d] # k /\ child[d] \in Handles
  BY <1>0, <1>2 DEF BuildPcs, ChildPcs
<1>6. ParentFresh'
  BY <1>1, <1>2, <1>4 DEF TreeInv, ParentFresh, Handles
<1>7. LockHeld' /\ LockOwned'
  BY <1>1, <1>3 DEF TreeInv, LockHeld, LockOwned, LockPcs
<1>8. BuildRecorded'
  BY <1>1, <1>2, <1>3, <1>4, <1>5 DEF TreeInv, BuildRecorded, TypeOK
<1>9. LinkedOrBuilding'
  <2>1. SUFFICES ASSUME NEW x \in 1 .. nthreads', parentProc'[x] # NoHandle
                 PROVE  Linked(x)' \/ Building(x)'
    BY DEF LinkedOrBuilding
  <2>2. CASE x = k
    BY <1>1, <1>3, <2>2 DEF Building, BuildPcs, TypeOK
  <2>3. CASE x # k
    <3>0. x \in 1 .. nthreads + 1 /\ x # nthreads + 1
      BY <1>1, <2>1, <2>3 DEF k
    <3>1. x \in 1 .. nthreads /\ x \in Handles
      <4>1. nthreads \in Nat /\ nthreads < MaxThreads /\ MaxThreads \in Nat
        BY <1>1, <1>2, BoundsAssumption
      <4>2. QED
        BY <3>0, <4>1 DEF Handles
    <3>2. parentProc'[x] = parentProc[x] /\ pid'[x] = pid[x]
      BY <1>4, <2>3, <3>1
    <3>3. Linked(x) \/ Building(x)
      BY <2>1, <3>1, <3>2 DEF TreeInv, LinkedOrBuilding
    <3>4. Linked(x) => Linked(x)'
      BY <1>1, <3>2 DEF Linked
    <3>5. Building(x) => Building(x)'
      <4>1. SUFFICES ASSUME NEW d \in CPUs, pc[d] \in BuildPcs, child[d] = x
                     PROVE  Building(x)'
        BY DEF Building
      <4>2. d # c
        BY <1>3, <4>1
      <4>3. QED
        BY <1>3, <4>1, <4>2 DEF Building
    <3>6. QED
      BY <3>3, <3>4, <3>5
  <2>4. QED
    BY <2>2, <2>3
<1>10. QED
  BY <1>6, <1>7, <1>8, <1>9 DEF TreeInv


(* ForkReturn: lock.children.push((id, ..)) links the child, and the      *)
(* parent's lock is dropped as fork returns.                               *)
LEMMA TreeForkReturn ==
  ASSUME TypeInv, CtxInv, TreeInv, NEW c \in CPUs, ForkReturn(c)
  PROVE  TreeInv'
<1> USE DEF TypeInv
<1> DEFINE h == run[c]
           k == child[c]
<1>0. \A d \in CPUs : pc[d] \in TaskPcs => run[d] \in Handles
  BY LocalHandles
<1>1. /\ pc[c] = "fork_ret" /\ pc' = [pc EXCEPT ![c] = "signal"]
      /\ childrenOf' = [childrenOf EXCEPT ![h] = @ \cup {<<cand[c], k>>}]
      /\ procLock' = [procLock EXCEPT ![h] = NoCpu]
      /\ child' = [child EXCEPT ![c] = NoHandle]
      /\ cand' = [cand EXCEPT ![c] = 0]
      /\ UNCHANGED <<nthreads, parentProc, pid, run>>
  BY DEF ForkReturn, Goto
<1>2. /\ h \in Handles /\ procLock[h] = c
      /\ parentProc[k] = h /\ pid[k] = cand[c]
  BY <1>0, <1>1 DEF TreeInv, LockOwned, BuildRecorded, LockPcs, BuildPcs, TaskPcs
<1>3. /\ pc[c] \in BuildPcs /\ pc'[c] \notin LockPcs /\ pc'[c] \notin BuildPcs
      /\ \A d \in CPUs : d # c => /\ pc'[d] = pc[d] /\ child'[d] = child[d]
                                  /\ cand'[d] = cand[d]
  BY <1>1 DEF LockPcs, BuildPcs, TypeOK
<1>4. \A d \in CPUs : d # c /\ pc[d] \in LockPcs => run[d] # h
  BY <1>2 DEF TreeInv, LockOwned
<1>5. \A x \in Handles : x # h => procLock'[x] = procLock[x] /\ childrenOf'[x] = childrenOf[x]
  BY <1>1 DEF TypeOK
<1>6. ParentFresh'
  BY <1>1 DEF TreeInv, ParentFresh
<1>7. LockHeld'
  <2>1. SUFFICES ASSUME NEW x \in Handles, procLock'[x] # NoCpu
                 PROVE  pc'[procLock'[x]] \in LockPcs /\ run'[procLock'[x]] = x
    BY DEF LockHeld
  <2>2. x # h
    BY <1>1, <1>2, <2>1 DEF TypeOK
  <2>3. procLock'[x] = procLock[x] /\ procLock[x] \in CPUs
    BY <1>5, <2>1, <2>2 DEF TypeOK
  <2>4. pc[procLock[x]] \in LockPcs /\ run[procLock[x]] = x
    BY <2>1, <2>3 DEF TreeInv, LockHeld
  <2>5. procLock[x] # c
    BY <2>2, <2>4
  <2>6. QED
    BY <1>1, <1>3, <2>3, <2>4, <2>5
<1>8. LockOwned'
  <2>1. SUFFICES ASSUME NEW d \in CPUs, pc'[d] \in LockPcs
                 PROVE  procLock'[run'[d]] = d
    BY DEF LockOwned
  <2>2. d # c /\ pc[d] \in LockPcs
    BY <1>3, <2>1
  <2>3. run[d] \in Handles /\ run[d] # h /\ procLock[run[d]] = d
    BY <1>0, <1>4, <2>2 DEF TreeInv, LockOwned, LockPcs, TaskPcs
  <2>4. QED
    BY <1>1, <1>5, <2>3
<1>9. BuildRecorded'
  BY <1>1, <1>3 DEF TreeInv, BuildRecorded
<1>10. LinkedOrBuilding'
  <2>1. SUFFICES ASSUME NEW x \in 1 .. nthreads', parentProc'[x] # NoHandle
                 PROVE  Linked(x)' \/ Building(x)'
    BY DEF LinkedOrBuilding
  <2>2. x \in 1 .. nthreads /\ parentProc[x] # NoHandle
    BY <1>1, <2>1
  <2>3. x \in Handles /\ parentProc[x] \in Handles
    BY <2>2, BoundsAssumption DEF TypeOK, Handles, NoHandle
  <2>4. Linked(x) => Linked(x)'
    BY <1>1, <1>5, <2>3 DEF Linked, TypeOK
  <2>5. ASSUME NEW d \in CPUs, pc[d] \in BuildPcs, child[d] = x
        PROVE  Linked(x)' \/ Building(x)'
    <3>1. CASE d = c
      BY <1>1, <1>2, <2>5, <3>1 DEF Linked, TypeOK
    <3>2. CASE d # c
      BY <1>3, <2>5, <3>2 DEF Building
    <3>3. QED
      BY <3>1, <3>2
  <2>6. QED
    BY <2>2, <2>4, <2>5 DEF TreeInv, LinkedOrBuilding, Building
<1>11. QED
  BY <1>6, <1>7, <1>8, <1>9, <1>10 DEF TreeInv


(* from_raw's Thread: a new handle with no parent, built outside fork.    *)
LEMMA TreeDebugCreate ==
  ASSUME TypeInv, CtxInv, TreeInv, NEW c \in CPUs,
         pc[c] = "idle", pc' = [pc EXCEPT ![c] = "reg_lock"],
         nthreads < MaxThreads, nthreads' = nthreads + 1,
         pid' = [pid EXCEPT ![nthreads + 1] = DebugPid],
         child' = [child EXCEPT ![c] = nthreads + 1],
         cand' \in [CPUs -> {0} \cup Tids], \A d \in CPUs : d # c => cand'[d] = cand[d],
         UNCHANGED <<parentProc, childrenOf, procLock, run>>
  PROVE  TreeInv'
<1> USE DEF TypeInv
<1>1. nthreads \in Nat /\ nthreads + 1 \in Handles
      /\ parentProc[nthreads + 1] = NoHandle
  BY BoundsAssumption DEF TypeOK, Handles, TreeInv, ParentFresh
<1>2. \A d \in CPUs : pc[d] \in BuildPcs => child[d] \in Handles /\ child[d] <= nthreads
  BY LocalHandles DEF CtxInv, ChildFresh, BuildPcs, ChildPcs
<1>3. /\ pc[c] \notin LockPcs /\ pc'[c] \notin LockPcs /\ pc'[c] \notin BuildPcs
      /\ \A d \in CPUs : d # c => pc'[d] = pc[d] /\ child'[d] = child[d]
  BY DEF LockPcs, BuildPcs, TypeOK
<1>4. \A x \in Handles : x # nthreads + 1 => pid'[x] = pid[x]
  BY DEF TypeOK
<1>5. ParentFresh'
  <2>1. SUFFICES ASSUME NEW x \in Handles, x > nthreads + 1
                 PROVE  parentProc[x] = NoHandle
    BY DEF ParentFresh
  <2>2. x > nthreads
    BY <1>1, <2>1 DEF Handles
  <2>3. QED
    BY <2>2 DEF TreeInv, ParentFresh
<1>6. LockHeld'
  <2>1. SUFFICES ASSUME NEW x \in Handles, procLock[x] # NoCpu
                 PROVE  pc'[procLock[x]] \in LockPcs /\ run[procLock[x]] = x
    BY DEF LockHeld
  <2>2. procLock[x] \in CPUs /\ pc[procLock[x]] \in LockPcs /\ run[procLock[x]] = x
    BY <2>1 DEF TreeInv, LockHeld, TypeOK
  <2>3. procLock[x] # c
    BY <1>3, <2>2
  <2>4. QED
    BY <1>3, <2>2, <2>3
<1>7. LockOwned'
  <2>1. SUFFICES ASSUME NEW d \in CPUs, pc'[d] \in LockPcs
                 PROVE  procLock[run[d]] = d
    BY DEF LockOwned
  <2>2. d # c /\ pc[d] \in LockPcs
    BY <1>3, <2>1
  <2>3. QED
    BY <2>2 DEF TreeInv, LockOwned
<1>8. BuildRecorded'
  <2>1. SUFFICES ASSUME NEW d \in CPUs, pc'[d] \in BuildPcs
                 PROVE  parentProc'[child'[d]] = run'[d] /\ pid'[child'[d]] = cand'[d]
    BY DEF BuildRecorded
  <2>2. d # c /\ pc[d] \in BuildPcs
    BY <1>3, <2>1
  <2>3. child[d] \in Handles /\ child[d] # nthreads + 1
    BY <1>1, <1>2, <2>2
  <2>4. QED
    BY <1>3, <1>4, <2>2, <2>3 DEF TreeInv, BuildRecorded
<1>9. LinkedOrBuilding'
  <2>1. SUFFICES ASSUME NEW x \in 1 .. nthreads', parentProc'[x] # NoHandle
                 PROVE  Linked(x)' \/ Building(x)'
    BY DEF LinkedOrBuilding
  <2>2. x \in 1 .. nthreads /\ x \in Handles /\ parentProc[x] # NoHandle
    <3>1. x \in 1 .. nthreads + 1 /\ parentProc[x] # NoHandle
      BY <2>1
    <3>2. x # nthreads + 1
      BY <1>1, <3>1
    <3>3. QED
      BY <1>1, <3>1, <3>2, BoundsAssumption DEF Handles, TypeOK
  <2>3. Linked(x) => Linked(x)'
    BY <1>1, <1>4, <2>2 DEF Linked
  <2>4. Building(x) => Building(x)'
    BY <1>3 DEF Building, LockPcs, BuildPcs
  <2>5. QED
    BY <2>2, <2>3, <2>4 DEF TreeInv, LinkedOrBuilding
<1>10. QED
  BY <1>5, <1>6, <1>7, <1>8, <1>9 DEF TreeInv

(* A step of CPU c that sets its counter to one on the same side and      *)
(* changes the locals of no other CPU, nor its own inside fork.            *)
LEMMA TreeLocal ==
  ASSUME TypeOK, TreeInv, NEW c \in CPUs, NEW to,
         UNCHANGED <<nthreads, parentProc, pid, childrenOf, procLock>>,
         pc' = [pc EXCEPT ![c] = to],
         pc[c] \in LockPcs <=> to \in LockPcs,
         pc[c] \in BuildPcs <=> to \in BuildPcs,
         \A d \in CPUs : d # c => run'[d] = run[d] /\ cand'[d] = cand[d] /\ child'[d] = child[d],
         pc[c] \in LockPcs => run'[c] = run[c],
         pc[c] \in BuildPcs => cand'[c] = cand[c] /\ child'[c] = child[c]
  PROVE  TreeInv'
<1>1. \A d \in CPUs : /\ pc'[d] \in LockPcs <=> pc[d] \in LockPcs
                      /\ pc'[d] \in BuildPcs <=> pc[d] \in BuildPcs
  BY SetSide
<1>2. QED
  BY <1>1, TreeKept


(* Every step keeps TreeInv: fork's lock, its ForkProc and its return by  *)
(* their lemmas, from_raw's new Thread by TreeDebugCreate, and every other *)
(* step because it moves one CPU within its side of LockPcs and BuildPcs.  *)
LEMMA NextTree == TypeInv /\ CtxInv /\ TreeInv /\ [Next]_vars => TreeInv'
<1> SUFFICES ASSUME TypeInv, CtxInv, TreeInv, [Next]_vars PROVE TreeInv'
  OBVIOUS
<1> USE DEF TypeInv
<1>1. CASE UNCHANGED vars
  <2>1. \A d \in CPUs : /\ pc'[d] \in LockPcs <=> pc[d] \in LockPcs
                        /\ pc'[d] \in BuildPcs <=> pc[d] \in BuildPcs
    BY <1>1 DEF vars
  <2>2. QED
    BY <1>1, <2>1, TreeKept DEF vars
<1>2. ASSUME NEW c \in CPUs, Poll(c) PROVE TreeInv'
  <2>1. pc[c] = "idle" /\ pc' = [pc EXCEPT ![c] = "take"]
    BY <1>2 DEF Poll, Goto
  <2>2. QED
    BY <1>2, <2>1, TreeLocal DEF Poll, procVars, LockPcs, BuildPcs, TypeOK
<1>3. ASSUME NEW c \in CPUs, Take(c) PROVE TreeInv'
  <2>1. pc[c] = "take" /\ pc' = [pc EXCEPT ![c] = "dispatch"]
    BY <1>3 DEF Take, Goto
  <2>2. QED
    BY <1>3, <2>1, TreeLocal DEF Take, procVars, LockPcs, BuildPcs
<1>4. ASSUME NEW c \in CPUs, Dispatch(c) PROVE TreeInv'
  <2>1. /\ pc[c] = "dispatch"
        /\ \E to \in {"idle", "signal", "fork_lock"} : pc' = [pc EXCEPT ![c] = to]
        /\ \A d \in CPUs : d # c => run'[d] = run[d]
    BY <1>4 DEF Dispatch, TypeOK
  <2>2. QED
    BY <1>4, <2>1, TreeLocal DEF Dispatch, procVars, LockPcs, BuildPcs
<1>5. ASSUME NEW c \in CPUs, Signal(c) PROVE TreeInv'
  <2>1. pc[c] = "signal" /\ pc' = [pc EXCEPT ![c] = "restore"]
    BY <1>5 DEF Signal, Goto
  <2>2. QED
    BY <1>5, <2>1, TreeLocal DEF Signal, procVars, LockPcs, BuildPcs
<1>6. ASSUME NEW c \in CPUs, Restore(c) PROVE TreeInv'
  <2>1. /\ pc[c] = "restore"
        /\ \E to \in {"idle", "take"} : pc' = [pc EXCEPT ![c] = to]
        /\ \A d \in CPUs : d # c => run'[d] = run[d]
    BY <1>6 DEF Restore, TypeOK
  <2>2. QED
    BY <1>6, <2>1, TreeLocal DEF Restore, procVars, LockPcs, BuildPcs
<1>7. ASSUME NEW c \in CPUs, ForkLock(c) PROVE TreeInv'
  BY <1>7, TreeForkLock
<1>8. ASSUME NEW c \in CPUs, ForkFind(c) PROVE TreeInv'
  <2>1. CASE pc' = pc
    <3>1. \A d \in CPUs : /\ pc'[d] \in LockPcs <=> pc[d] \in LockPcs
                          /\ pc'[d] \in BuildPcs <=> pc[d] \in BuildPcs
      BY <2>1
    <3>2. QED
      BY <1>8, <2>1, <3>1, TreeKept DEF ForkFind, procVars, BuildPcs, TypeOK
  <2>2. CASE pc' = [pc EXCEPT ![c] = "fork_proc"]
    BY <1>8, <2>2, TreeLocal DEF ForkFind, procVars, LockPcs, BuildPcs, TypeOK
  <2>3. QED
    BY <1>8, <2>1, <2>2 DEF ForkFind
<1>9. ASSUME NEW c \in CPUs, ForkProc(c) PROVE TreeInv'
  BY <1>9, TreeForkProc
<1>10. ASSUME NEW c \in CPUs, ForkRegister(c) PROVE TreeInv'
  <2>1. pc[c] = "fork_reg" /\ pc' = [pc EXCEPT ![c] = "fork_link"]
    BY <1>10 DEF ForkRegister, Goto
  <2>2. QED
    BY <1>10, <2>1, TreeLocal DEF ForkRegister, procVars, LockPcs, BuildPcs
<1>11. ASSUME NEW c \in CPUs, ForkLink(c) PROVE TreeInv'
  <2>1. pc[c] = "fork_link" /\ pc' = [pc EXCEPT ![c] = "fork_ret"]
    BY <1>11 DEF ForkLink, Goto
  <2>2. QED
    BY <1>11, <2>1, TreeLocal DEF ForkLink, LockPcs, BuildPcs
<1>12. ASSUME NEW c \in CPUs, ForkReturn(c) PROVE TreeInv'
  BY <1>12, TreeForkReturn
<1>13. ASSUME NEW c \in CPUs, DebugThreading(c) PROVE TreeInv'
  <2>1. CASE UNCHANGED <<nthreads, hasCtx, pid, pc, cand, child>>
    <3>1. \A d \in CPUs : /\ pc'[d] \in LockPcs <=> pc[d] \in LockPcs
                          /\ pc'[d] \in BuildPcs <=> pc[d] \in BuildPcs
      BY <2>1
    <3>2. QED
      BY <1>13, <2>1, <3>1, TreeKept DEF DebugThreading
  <2>2. CASE ~UNCHANGED <<nthreads, hasCtx, pid, pc, cand, child>>
    <3>1. /\ pc[c] = "idle" /\ pc' = [pc EXCEPT ![c] = "reg_lock"]
          /\ nthreads < MaxThreads /\ nthreads' = nthreads + 1
          /\ pid' = [pid EXCEPT ![nthreads + 1] = DebugPid]
          /\ child' = [child EXCEPT ![c] = nthreads + 1]
          /\ \E id \in RegisterIds : cand' = [cand EXCEPT ![c] = id]
          /\ UNCHANGED <<parentProc, childrenOf, procLock, run>>
      BY <1>13, <2>2 DEF DebugThreading
    <3>2. cand' \in [CPUs -> {0} \cup Tids] /\ \A d \in CPUs : d # c => cand'[d] = cand[d]
      BY <3>1, RegisterIdsAssumption DEF TypeOK, Tids
    <3>3. QED
      BY <3>1, <3>2, TreeDebugCreate
  <2>3. QED
    BY <2>1, <2>2
<1>14. ASSUME NEW c \in CPUs, RegisterLock(c) PROVE TreeInv'
  <2>1. /\ pc[c] = "reg_lock"
        /\ \E to \in {"reg_find", "reg_insert"} : pc' = [pc EXCEPT ![c] = to]
    BY <1>14 DEF RegisterLock
  <2>2. QED
    BY <1>14, <2>1, TreeLocal DEF RegisterLock, procVars, LockPcs, BuildPcs
<1>15. ASSUME NEW c \in CPUs, RegisterInsert(c) PROVE TreeInv'
  <2>1. pc[c] = "reg_insert" /\ pc' = [pc EXCEPT ![c] = "raw_spawn"]
    BY <1>15 DEF RegisterInsert, Goto
  <2>2. QED
    BY <1>15, <2>1, TreeLocal DEF RegisterInsert, procVars, LockPcs, BuildPcs
<1>16. ASSUME NEW c \in CPUs, DebugSpawn(c) PROVE TreeInv'
  <2>1. pc[c] = "raw_spawn" /\ pc' = [pc EXCEPT ![c] = "idle"]
    BY <1>16 DEF DebugSpawn, Goto
  <2>2. QED
    BY <1>16, <2>1, TreeLocal DEF DebugSpawn, LockPcs, BuildPcs, TypeOK
<1>17. QED
  BY <1>1, <1>2, <1>3, <1>4, <1>5, <1>6, <1>7, <1>8, <1>9, <1>10, <1>11,
     <1>12, <1>13, <1>14, <1>15, <1>16 DEF Next


(* TreeInv gives ChildLinked: a child still being built has a parent      *)
(* whose lock the building CPU holds.                                      *)
LEMMA TreeLinked == TypeInv /\ TreeInv => ChildLinked
<1> SUFFICES ASSUME TypeInv, TreeInv,
                    NEW k \in 1 .. nthreads, parentProc[k] # NoHandle,
                    procLock[parentProc[k]] = NoCpu
             PROVE  <<pid[k], k>> \in childrenOf[parentProc[k]]
  BY DEF ChildLinked
<1>1. Linked(k) \/ Building(k)
  BY DEF TreeInv, LinkedOrBuilding
<1>2. ~Building(k)
  <2>1. SUFFICES ASSUME NEW c \in CPUs, pc[c] \in BuildPcs, child[c] = k
                 PROVE  FALSE
    BY DEF Building
  <2>2. parentProc[k] = run[c] /\ procLock[run[c]] = c
    BY <2>1 DEF TreeInv, BuildRecorded, LockOwned, LockPcs, BuildPcs
  <2>3. QED
    BY <2>1, <2>2, CPUsAssumption
<1>3. QED
  BY <1>1, <1>2 DEF Linked

(* ChildLinked for every number of CPUs, threads and ids: whenever the    *)
(* parent's Mutex is free, Thread::fork has pushed the child onto the     *)
(* parent's children under the child's process id.                         *)
THEOREM ChildrenLinked == Spec => []ChildLinked
<1>1. Init => TypeInv /\ CtxInv /\ TreeInv
  <2>1. Init => TreeInv
    BY DEF Init, TreeInv, ParentFresh, LockHeld, LockOwned, BuildRecorded,
           LinkedOrBuilding, LockPcs, BuildPcs, NoHandle
  <2>2. QED
    BY <2>1, InitTypeInv, InitCtx
<1>2. TypeInv /\ CtxInv /\ TreeInv /\ [Next]_vars => TypeInv' /\ CtxInv' /\ TreeInv'
  BY NextTypeInv, NextCtx, NextTree
<1>3. TypeInv /\ TreeInv => ChildLinked
  BY TreeLinked
<1>4. QED
  BY <1>1, <1>2, <1>3, PTL DEF Spec

=============================================================================
