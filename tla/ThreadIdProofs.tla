--------------------------- MODULE ThreadIdProofs ---------------------------
(***************************************************************************)
(* Proof that Thread::register and fork never give two live threads one   *)
(* id (IdsUnique) on a single CPU with debug_threading called at most     *)
(* once. Neither hypothesis can go: on two CPUs two forks find the        *)
(* same free id before either inserts (the race run), and a second        *)
(* debug_threading registers a second thread under DEBUG_THREAD_ID,        *)
(* replacing the first.                                                    *)
(***************************************************************************)
EXTENDS ThreadCtxProofs

(* Every CPU is the same CPU: one executor.                               *)
OneCpu == \A c, d \in CPUs : c = d

(* Where fork holds the id find_available_tid returned, and where         *)
(* register holds the id it was given.                                     *)
FindPcs == {"fork_proc", "fork_reg"}
RegPcs == {"reg_lock", "reg_find", "reg_insert"}
IdPcs == FindPcs \cup RegPcs \cup {"raw_spawn"}

(* IdsUnique is not inductive: an insert keeps it only if no live thread  *)
(* holds the inserted id, which is why fork searches for a free id and    *)
(* the debug id is used once. The strengthening records that the id a     *)
(* CPU is about to insert is still free.                                   *)

(* Handles not yet created have no id.                                    *)
TidFresh == \A h \in Handles : h > nthreads => tid[h] = 0
(* The id fork found free is still free when it is inserted.              *)
FoundFree == \A c \in CPUs : pc[c] \in FindPcs => threadTable[cand[c]] = NoHandle
(* register inserts the id from_raw passed, never 0 (that one searches).  *)
RegCand == \A c \in CPUs : /\ pc[c] \in RegPcs => cand[c] \in RegisterIds
                           /\ pc[c] = "reg_insert" => cand[c] = DebugTid
(* from_raw has used up the debug_threading calls once it registers.      *)
DebugDone == \A c \in CPUs : pc[c] \in RegPcs \cup {"raw_spawn"} => debugCalls = DebugCalls
(* DEBUG_THREAD_ID is free until from_raw's register inserts it.           *)
DebugFree ==
  (debugCalls < DebugCalls \/ \E c \in CPUs : pc[c] \in RegPcs)
    => threadTable[DebugTid] = NoHandle

IdInv == IdsUnique /\ TidFresh /\ FoundFree /\ RegCand /\ DebugDone /\ DebugFree

---------------------------------------------------------------------------
(* A step that touches neither the table, the ids, the handles nor the    *)
(* debug counter, and moves no CPU into a place where it holds an id (or  *)
(* changes the id it holds there), keeps IdInv.                            *)
LEMMA IdQuiet ==
  ASSUME IdInv,
         UNCHANGED <<threadTable, tid, nthreads, debugCalls>>,
         \A d \in CPUs : pc'[d] \in IdPcs => pc'[d] = pc[d] /\ cand'[d] = cand[d]
  PROVE  IdInv'
<1>1. (IdsUnique /\ TidFresh)'
  BY DEF IdInv, IdsUnique, TidFresh
<1>2. FoundFree'
  BY DEF IdInv, FoundFree, IdPcs
<1>3. (RegCand /\ DebugDone)'
  BY DEF IdInv, RegCand, DebugDone, IdPcs, RegPcs
<1>4. DebugFree'
  BY DEF IdInv, DebugFree, IdPcs
<1>5. QED
  BY <1>1, <1>2, <1>3, <1>4 DEF IdInv

(* The empty table with every CPU idle satisfies IdInv.                   *)
LEMMA InitId == Init => IdInv
BY DEF Init, IdInv, IdsUnique, TidFresh, FoundFree, RegCand, DebugDone,
       DebugFree, FindPcs, RegPcs, NoHandle, Tids

(* table.insert(id, thread) with the id free, by the only CPU, of a       *)
(* thread created and not yet given another live id: fork's insert and   *)
(* from_raw's. It keeps IdInv when the CPU leaves the places that hold an  *)
(* id, and the debug id is only inserted once the calls are used up.     *)
LEMMA InsertId ==
  ASSUME OneCpu, TypeOK, IdInv, NEW c \in CPUs, NEW id \in Tids, NEW to,
         child[c] \in 1 .. nthreads,
         threadTable[id] = NoHandle,
         threadTable' = [threadTable EXCEPT ![id] = child[c]],
         tid' = [tid EXCEPT ![child[c]] = id],
         pc' = [pc EXCEPT ![c] = to],
         to \notin FindPcs \cup RegPcs,
         to = "raw_spawn" => debugCalls = DebugCalls,
         id = DebugTid => debugCalls = DebugCalls,
         UNCHANGED <<nthreads, debugCalls, cand>>
  PROVE  IdInv'
<1>0. /\ child[c] \in Handles
      /\ nthreads \in 0 .. MaxThreads
      /\ threadTable \in [Tids -> 0 .. MaxThreads]
      /\ tid \in [Handles -> {0} \cup Tids]
  BY DEF TypeOK, Handles
<1>1. \A d \in CPUs : d = c
  BY DEF OneCpu
<1>2. IdsUnique'
  <2>1. SUFFICES ASSUME NEW h \in 1 .. nthreads, tid'[h] # 0
                 PROVE  threadTable'[tid'[h]] = h
    BY DEF IdsUnique
  <2>2. h \in Handles
    BY <1>0, <2>1, BoundsAssumption DEF Handles
  <2>3. CASE h = child[c]
    BY <1>0, <2>3
  <2>4. CASE h # child[c]
    <3>1. tid'[h] = tid[h] /\ tid[h] # 0 /\ tid[h] \in Tids
      BY <1>0, <2>1, <2>2, <2>4
    <3>2. threadTable[tid[h]] = h
      BY <3>1 DEF IdInv, IdsUnique
    <3>3. tid[h] # id
      BY <3>2, <2>1 DEF NoHandle
    <3>4. QED
      BY <1>0, <3>1, <3>2, <3>3
  <2>5. QED
    BY <2>3, <2>4
<1>3. TidFresh'
  BY <1>0 DEF IdInv, TidFresh, Handles
<1>4. (FoundFree /\ RegCand)'
  BY <1>0, <1>1 DEF TypeOK, FoundFree, RegCand, RegPcs, FindPcs
<1>5. DebugDone'
  BY <1>0, <1>1 DEF TypeOK, DebugDone, RegPcs
<1>6. DebugFree'
  <2>1. SUFFICES ASSUME debugCalls < DebugCalls
                 PROVE  threadTable'[DebugTid] = NoHandle
    BY <1>0, <1>1 DEF TypeOK, DebugFree, RegPcs, FindPcs
  <2>2. id # DebugTid /\ DebugTid \in Tids
    BY <2>1, DebugCallsAssumption DEF Tids, TypeOK
  <2>3. threadTable[DebugTid] = NoHandle
    BY <2>1 DEF IdInv, DebugFree
  <2>4. QED
    BY <1>0, <2>2, <2>3
<1>7. QED
  BY <1>2, <1>3, <1>4, <1>5, <1>6 DEF IdInv

(* fork's register inserts the id find_available_tid returned.            *)
LEMMA IdForkRegister ==
  ASSUME OneCpu, TypeInv, CtxInv, IdInv, NEW c \in CPUs, ForkRegister(c)
  PROVE  IdInv'
<1>1. pc[c] = "fork_reg" /\ cand[c] \in 1 .. MaxTid /\ child[c] \in Handles
  BY DEF ForkRegister, Goto, TypeInv, LocalsTyped, LocalTyped
<1>2. child[c] <= nthreads
  BY <1>1 DEF CtxInv, ChildFresh, ChildPcs
<1>3. child[c] \in 1 .. nthreads /\ cand[c] \in Tids
  BY <1>1, <1>2 DEF Handles, Tids, TypeInv, TypeOK
<1>4. threadTable[cand[c]] = NoHandle
  BY <1>1 DEF IdInv, FoundFree, FindPcs
<1>5. cand[c] # DebugTid
  BY <1>1, DebugIdsAssumption
<1>6. QED
  BY <1>3, <1>4, <1>5, InsertId DEF ForkRegister, Goto, TypeInv, FindPcs, RegPcs

(* from_raw's register inserts DEBUG_THREAD_ID.                            *)
LEMMA IdRegisterInsert ==
  ASSUME OneCpu, TypeInv, CtxInv, IdInv, NEW c \in CPUs, RegisterInsert(c)
  PROVE  IdInv'
<1>1. pc[c] = "reg_insert" /\ child[c] \in Handles
  BY DEF RegisterInsert, Goto, TypeInv, LocalsTyped, LocalTyped
<1>2. child[c] <= nthreads
  BY <1>1 DEF CtxInv, ChildFresh, ChildPcs
<1>3. child[c] \in 1 .. nthreads
  BY <1>1, <1>2 DEF Handles, TypeInv, TypeOK
<1>4. cand[c] = DebugTid /\ DebugTid \in Tids
  BY <1>1 DEF IdInv, RegCand, RegPcs, Tids
<1>5. threadTable[DebugTid] = NoHandle /\ debugCalls = DebugCalls
  BY <1>1 DEF IdInv, DebugFree, DebugDone, RegPcs
<1>6. QED
  BY <1>3, <1>4, <1>5, InsertId DEF RegisterInsert, Goto, TypeInv, FindPcs, RegPcs

(* find_available_tid's probe: it either moves on to the next id or       *)
(* returns a free one, which FoundFree then records.                      *)
LEMMA IdForkFind ==
  ASSUME OneCpu, TypeInv, IdInv, NEW c \in CPUs, ForkFind(c)
  PROVE  IdInv'
<1>0. pc[c] = "fork_find" /\ TypeOK
  BY DEF ForkFind, TypeInv
<1>1. \A d \in CPUs : d = c
  BY DEF OneCpu
<1>2. UNCHANGED <<threadTable, tid, nthreads, debugCalls>>
  BY DEF ForkFind
<1>3. CASE threadTable[cand[c]] = NoHandle /\ pc' = [pc EXCEPT ![c] = "fork_proc"]
           /\ UNCHANGED cand
  <2>1. (IdsUnique /\ TidFresh)'
    BY <1>2 DEF IdInv, IdsUnique, TidFresh
  <2>2. FoundFree'
    BY <1>0, <1>1, <1>2, <1>3 DEF TypeOK, FoundFree
  <2>3. (RegCand /\ DebugDone)'
    BY <1>0, <1>1, <1>3 DEF TypeOK, RegCand, DebugDone, RegPcs
  <2>4. DebugFree'
    BY <1>0, <1>1, <1>2, <1>3 DEF TypeOK, IdInv, DebugFree, RegPcs
  <2>5. QED
    BY <2>1, <2>2, <2>3, <2>4 DEF IdInv
<1>4. CASE UNCHANGED pc /\ \A d \in CPUs \ {c} : cand'[d] = cand[d]
  <2>1. \A d \in CPUs : pc'[d] \in IdPcs => pc'[d] = pc[d] /\ cand'[d] = cand[d]
    BY <1>0, <1>4 DEF IdPcs, FindPcs, RegPcs
  <2>2. QED
    BY <1>2, <2>1, IdQuiet
<1>5. QED
  <2>1. \/ threadTable[cand[c]] = NoHandle /\ pc' = [pc EXCEPT ![c] = "fork_proc"]
           /\ UNCHANGED cand
        \/ UNCHANGED pc /\ \A d \in CPUs \ {c} : cand'[d] = cand[d]
    BY <1>0 DEF ForkFind, TypeOK
  <2>2. QED
    BY <1>3, <1>4, <2>1

(* A new handle (fork's Process::new or from_raw's Thread) has no id, so  *)
(* creating it keeps IdsUnique and TidFresh.                              *)
LEMMA NewHandleId ==
  ASSUME TypeOK, IdInv, nthreads < MaxThreads, nthreads' = nthreads + 1,
         UNCHANGED <<threadTable, tid>>
  PROVE  (IdsUnique /\ TidFresh)'
<1>1. nthreads + 1 \in Handles /\ tid[nthreads + 1] = 0
  BY BoundsAssumption DEF TypeOK, Handles, IdInv, TidFresh
<1>2. IdsUnique'
  <2>1. SUFFICES ASSUME NEW h \in 1 .. nthreads + 1, tid[h] # 0
                 PROVE  threadTable[tid[h]] = h
    BY DEF IdsUnique
  <2>2. h \in 1 .. nthreads
    BY <1>1, <2>1 DEF TypeOK
  <2>3. QED
    BY <2>1, <2>2 DEF IdInv, IdsUnique
<1>3. TidFresh'
  BY BoundsAssumption DEF IdInv, TidFresh, TypeOK, Handles
<1>4. QED
  BY <1>2, <1>3

(* fork creates the child handle, which has no id yet.                    *)
LEMMA IdForkProc ==
  ASSUME OneCpu, TypeInv, IdInv, NEW c \in CPUs, ForkProc(c)
  PROVE  IdInv'
<1>0. pc[c] = "fork_proc" /\ TypeOK /\ nthreads < MaxThreads
  BY DEF ForkProc, Goto, TypeInv
<1>1. \A d \in CPUs : d = c
  BY DEF OneCpu
<1>2. /\ UNCHANGED <<threadTable, tid, debugCalls, cand>>
      /\ nthreads' = nthreads + 1
      /\ pc' = [pc EXCEPT ![c] = "fork_reg"]
  BY DEF ForkProc, Goto
<1>5. (IdsUnique /\ TidFresh)'
  BY <1>0, <1>2, NewHandleId DEF TypeInv
<1>6. FoundFree'
  BY <1>0, <1>1, <1>2 DEF TypeOK, IdInv, FoundFree, FindPcs
<1>7. (RegCand /\ DebugDone)'
  BY <1>0, <1>1, <1>2 DEF TypeOK, RegCand, DebugDone, RegPcs
<1>8. DebugFree'
  BY <1>0, <1>1, <1>2 DEF TypeOK, IdInv, DebugFree, RegPcs
<1>9. QED
  BY <1>5, <1>6, <1>7, <1>8 DEF IdInv

(* register takes the write lock and goes on to insert the id it was      *)
(* given, or to search when that id is 0.                                 *)
LEMMA IdRegisterLock ==
  ASSUME OneCpu, TypeInv, IdInv, NEW c \in CPUs, RegisterLock(c)
  PROVE  IdInv'
<1>0. pc[c] = "reg_lock" /\ TypeOK
  BY DEF RegisterLock, TypeInv
<1>1. \A d \in CPUs : d = c
  BY DEF OneCpu
<1>2. /\ UNCHANGED <<threadTable, tid, nthreads, debugCalls, cand>>
      /\ pc' = [pc EXCEPT ![c] = IF cand[c] = 0 THEN "reg_find" ELSE "reg_insert"]
  BY DEF RegisterLock
<1>3. cand[c] \in {0, DebugTid} /\ debugCalls = DebugCalls
  BY <1>0, RegisterIdsAssumption DEF IdInv, RegCand, DebugDone, RegPcs
<1>4. pc'[c] \in RegPcs /\ (pc'[c] = "reg_insert" => cand'[c] = DebugTid)
  BY <1>0, <1>2, <1>3 DEF TypeOK, RegPcs
<1>5. (IdsUnique /\ TidFresh)'
  BY <1>2 DEF IdInv, IdsUnique, TidFresh
<1>6. FoundFree'
  BY <1>1, <1>4 DEF FoundFree, FindPcs, RegPcs
<1>7. RegCand'
  BY <1>0, <1>1, <1>2, <1>4 DEF IdInv, RegCand, RegPcs
<1>8. DebugDone'
  BY <1>1, <1>2, <1>3 DEF DebugDone
<1>9. DebugFree'
  BY <1>0, <1>1, <1>2 DEF IdInv, DebugFree, RegPcs
<1>10. QED
  BY <1>5, <1>6, <1>7, <1>8, <1>9 DEF IdInv

(* debug_threading's from_raw, at most once: whether /bin/test loads or   *)
(* not, the calls are used up, and DEBUG_THREAD_ID is still free.         *)
LEMMA IdDebugThreading ==
  ASSUME OneCpu, DebugCalls <= 1, TypeInv, IdInv, NEW c \in CPUs,
         DebugThreading(c)
  PROVE  IdInv'
<1>0. pc[c] = "idle" /\ TypeOK /\ debugCalls < DebugCalls
  BY DEF DebugThreading, TypeInv
<1>1. \A d \in CPUs : d = c
  BY DEF OneCpu
<1>2. debugCalls' = DebugCalls
  BY <1>0, DebugCallsAssumption DEF DebugThreading, TypeOK
<1>3. threadTable[DebugTid] = NoHandle
  BY <1>0 DEF IdInv, DebugFree
<1>4. UNCHANGED <<threadTable, tid>>
  BY DEF DebugThreading
<1>5. DebugFree'
  BY <1>3, <1>4 DEF DebugFree
<1>6. CASE UNCHANGED <<nthreads, pc, cand>>
  <2>1. (IdsUnique /\ TidFresh)'
    BY <1>4, <1>6 DEF IdInv, IdsUnique, TidFresh
  <2>2. (FoundFree /\ RegCand /\ DebugDone)'
    BY <1>0, <1>1, <1>6 DEF FoundFree, RegCand, DebugDone, FindPcs, RegPcs
  <2>3. QED
    BY <1>5, <2>1, <2>2 DEF IdInv
<1>7. CASE /\ nthreads < MaxThreads
           /\ nthreads' = nthreads + 1
           /\ pc' = [pc EXCEPT ![c] = "reg_lock"]
           /\ \E id \in RegisterIds : cand' = [cand EXCEPT ![c] = id]
  <2>1. (IdsUnique /\ TidFresh)'
    BY <1>0, <1>4, <1>7, NewHandleId
  <2>2. PICK id \in RegisterIds : cand' = [cand EXCEPT ![c] = id]
    BY <1>7
  <2>3. pc'[c] = "reg_lock" /\ cand'[c] = id
    BY <1>0, <1>7, <2>2 DEF TypeOK
  <2>4. (FoundFree /\ RegCand /\ DebugDone)'
    BY <1>1, <1>2, <2>3 DEF FoundFree, RegCand, DebugDone, FindPcs, RegPcs
  <2>5. QED
    BY <1>5, <2>1, <2>4 DEF IdInv
<1>8. QED
  BY <1>6, <1>7 DEF DebugThreading

(* A CPU that moves to a place where it holds no id, touching no other    *)
(* CPU's id, the table, the ids, the handles or the debug counter, keeps   *)
(* IdInv.                                                                  *)
LEMMA QuietMove ==
  ASSUME TypeOK, IdInv, NEW c \in CPUs, NEW to, to \notin IdPcs,
         pc' = [pc EXCEPT ![c] = to],
         \A d \in CPUs \ {c} : cand'[d] = cand[d],
         UNCHANGED <<threadTable, tid, nthreads, debugCalls>>
  PROVE  IdInv'
<1>1. \A d \in CPUs : pc'[d] \in IdPcs => pc'[d] = pc[d] /\ cand'[d] = cand[d]
  BY DEF TypeOK
<1>2. QED
  BY <1>1, IdQuiet

(* Every step keeps IdInv on one CPU: the steps that hold, insert or use  *)
(* up an id by their lemmas, every other by QuietMove.                     *)
LEMMA NextId ==
  ASSUME OneCpu, DebugCalls <= 1
  PROVE  TypeInv /\ CtxInv /\ IdInv /\ [Next]_vars => IdInv'
<1> SUFFICES ASSUME TypeInv, CtxInv, IdInv, [Next]_vars PROVE IdInv'
  OBVIOUS
<1>0. TypeOK
  BY DEF TypeInv
<1>1. CASE UNCHANGED vars
  BY <1>1 DEF vars, IdInv, IdsUnique, TidFresh, FoundFree, RegCand, DebugDone, DebugFree
<1>2. ASSUME NEW c \in CPUs, Poll(c) PROVE IdInv'
  BY <1>0, <1>2, QuietMove DEF Poll, Goto, IdPcs, FindPcs, RegPcs
<1>3. ASSUME NEW c \in CPUs, Take(c) PROVE IdInv'
  BY <1>0, <1>3, QuietMove DEF Take, Goto, IdPcs, FindPcs, RegPcs
<1>4. ASSUME NEW c \in CPUs, Dispatch(c) PROVE IdInv'
  <2>1. UNCHANGED <<threadTable, tid, nthreads, debugCalls, cand>>
    BY <1>4 DEF Dispatch
  <2>2. PICK to \in {"idle", "signal", "fork_lock"} : pc' = [pc EXCEPT ![c] = to]
    BY <1>4 DEF Dispatch
  <2>3. QED
    BY <1>0, <2>1, <2>2, QuietMove DEF IdPcs, FindPcs, RegPcs
<1>5. ASSUME NEW c \in CPUs, Signal(c) PROVE IdInv'
  BY <1>0, <1>5, QuietMove DEF Signal, Goto, IdPcs, FindPcs, RegPcs
<1>6. ASSUME NEW c \in CPUs, Restore(c) PROVE IdInv'
  <2>1. UNCHANGED <<threadTable, tid, nthreads, debugCalls, cand>>
    BY <1>6 DEF Restore
  <2>2. PICK to \in {"idle", "take"} : pc' = [pc EXCEPT ![c] = to]
    BY <1>6 DEF Restore
  <2>3. QED
    BY <1>0, <2>1, <2>2, QuietMove DEF IdPcs, FindPcs, RegPcs
<1>7. ASSUME NEW c \in CPUs, ForkLock(c) PROVE IdInv'
  BY <1>0, <1>7, QuietMove DEF ForkLock, Goto, IdPcs, FindPcs, RegPcs, TypeOK
<1>8. ASSUME NEW c \in CPUs, ForkFind(c) PROVE IdInv'
  BY <1>8, IdForkFind
<1>9. ASSUME NEW c \in CPUs, ForkProc(c) PROVE IdInv'
  BY <1>9, IdForkProc
<1>10. ASSUME NEW c \in CPUs, ForkRegister(c) PROVE IdInv'
  BY <1>10, IdForkRegister
<1>11. ASSUME NEW c \in CPUs, ForkLink(c) PROVE IdInv'
  BY <1>0, <1>11, QuietMove DEF ForkLink, Goto, IdPcs, FindPcs, RegPcs
<1>12. ASSUME NEW c \in CPUs, ForkReturn(c) PROVE IdInv'
  BY <1>0, <1>12, QuietMove DEF ForkReturn, SpawnTask, Goto, IdPcs, FindPcs, RegPcs, TypeOK
<1>13. ASSUME NEW c \in CPUs, DebugThreading(c) PROVE IdInv'
  BY <1>13, IdDebugThreading
<1>14. ASSUME NEW c \in CPUs, RegisterLock(c) PROVE IdInv'
  BY <1>14, IdRegisterLock
<1>15. ASSUME NEW c \in CPUs, RegisterInsert(c) PROVE IdInv'
  BY <1>15, IdRegisterInsert
<1>16. ASSUME NEW c \in CPUs, DebugSpawn(c) PROVE IdInv'
  BY <1>0, <1>16, QuietMove DEF DebugSpawn, SpawnTask, Goto, IdPcs, FindPcs, RegPcs, TypeOK
<1>17. QED
  BY <1>1, <1>2, <1>3, <1>4, <1>5, <1>6, <1>7, <1>8, <1>9, <1>10, <1>11,
     <1>12, <1>13, <1>14, <1>15, <1>16 DEF Next

(* IdsUnique on one CPU with debug_threading called at most once: fork's   *)
(* find_available_tid and from_raw's register never give two live threads *)
(* the same id in THREAD_TABLE, for every number of threads and ids.      *)
THEOREM UniprocessorIdsUnique ==
  ASSUME OneCpu, DebugCalls <= 1
  PROVE  Spec => []IdsUnique
<1>1. Init => TypeInv /\ CtxInv /\ IdInv
  BY InitTypeInv, InitCtx, InitId
<1>2. TypeInv /\ CtxInv /\ IdInv /\ [Next]_vars => (TypeInv /\ CtxInv /\ IdInv)'
  BY NextTypeInv, NextCtx, NextId
<1>3. IdInv => IdsUnique
  BY DEF IdInv
<1>4. QED
  BY <1>1, <1>2, <1>3, PTL DEF Spec

=============================================================================
