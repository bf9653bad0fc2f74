--------------------------- MODULE TcpSocketProofs ---------------------------
(***************************************************************************)
(* Proofs about the socket calls (TcpSocket): for every number of threads, *)
(* descriptors, streams and handles, no two TcpStream objects share a      *)
(* SOCKET_SET handle, a Listening stream's socket listens on its address,  *)
(* and a connection that has reached a socket stays until the network      *)
(* resets it.                                                              *)
(***************************************************************************)
EXTENDS TcpSocket, TLAPS

(* Every TCP descriptor names a created stream, and a thread inside accept *)
(* holds a TCP descriptor: the stream accept works on exists.              *)
FdsNameStreams ==
  /\ \A f \in TcpFds : StreamOf(f) \in Created
  /\ \A t \in Threads : pc[t] # "idle" => acceptFd[t] \in TcpFds

(* The handles of created streams were all handed out by SOCKET_SET.add:  *)
(* a handle above nhandles is fresh.                                       *)
HandlesIssued == \A s \in Created : stHandle[s] \in 1 .. nhandles

IInv ==
  /\ TypeOK
  /\ FdsNameStreams
  /\ HandlesIssued
  /\ HandlesDistinct

(* Created streams are streams of the model, and Created grows by one.    *)
LEMMA CreatedStreams ==
  ASSUME TypeOK
  PROVE  /\ Created \subseteq Streams
         /\ nstreams < MaxStreams => nstreams + 1 \in Streams \ Created
BY BoundsAssumption DEF TypeOK, Created, Streams

LEMMA InitIInv == Init => IInv
<1> SUFFICES ASSUME Init PROVE IInv
  OBVIOUS
<1>1. TypeOK
  BY ThreadsAssumption, BoundsAssumption
     DEF Init, TypeOK, Fds, Streams, Handles, NoAddr, TcpStates, SockStates,
         FileKinds, Panics
<1>2. Created = {}
  BY DEF Init, Created
<1>3. TcpFds = {}
  BY DEF Init, TcpFds
<1>4. QED
  BY <1>1, <1>2, <1>3 DEF Init, IInv, FdsNameStreams, HandlesIssued, HandlesDistinct

(* The calls that change neither the descriptors nor the streams' handles *)
(* nor the counters keep the three conjuncts about handles as they are,   *)
(* provided no thread leaves idle without a TCP descriptor.                *)
KeepsHandles ==
  /\ UNCHANGED <<fdTable, stHandle, nstreams, nhandles>>
  /\ \A t \in Threads : pc'[t] # "idle" => pc[t] # "idle" /\ acceptFd'[t] = acceptFd[t]

LEMMA HandlesKept ==
  ASSUME IInv, KeepsHandles
  PROVE  FdsNameStreams' /\ HandlesIssued' /\ HandlesDistinct'
BY DEF KeepsHandles, IInv, FdsNameStreams, HandlesIssued, HandlesDistinct, TcpFds, StreamOf, Created

(* SOCKET_CONDVAR.notify_all leaves every thread where it was, but for    *)
(* the waiting ones, which go back into accept's loop.                     *)
LEMMA WakeAllTyped ==
  ASSUME TypeOK
  PROVE  /\ WakeAll \in [Threads -> {"idle", "accept_loop", "accept_wait"}]
         /\ \A t \in Threads : WakeAll[t] # "idle" => pc[t] # "idle"
BY DEF WakeAll, TypeOK

LEMMA NextIInv == IInv /\ [Next]_vars => IInv'
<1> SUFFICES ASSUME IInv, [Next]_vars PROVE IInv'
  OBVIOUS
<1> USE DEF IInv
<1>1. ASSUME NEW t \in Threads, SysSocket(t) PROVE IInv'
  <2>1. CASE Halt("unimplemented")
    <3>1. TypeOK'
      BY <2>1 DEF Halt, TypeOK, Panics, streamVars, sockVars
    <3>2. KeepsHandles
      BY <2>1 DEF Halt, KeepsHandles, streamVars, sockVars
    <3>3. QED
      BY <3>1, <3>2, HandlesKept
  <2>2. CASE /\ \E f \in Fds :
                  /\ fdTable[f].kind = "free"
                  /\ fdTable' = [fdTable EXCEPT ![f] = [kind |-> "udp", s |-> 0]]
             /\ UNCHANGED <<streamVars, sockVars, procLock, pc, acceptFd, conns,
                            panicked>>
    <3>1. PICK f \in Fds :
            /\ fdTable[f].kind = "free"
            /\ fdTable' = [fdTable EXCEPT ![f] = [kind |-> "udp", s |-> 0]]
      BY <2>2
    <3>2. TcpFds' = TcpFds
      BY <3>1 DEF TcpFds, TypeOK
    <3>3. TypeOK'
      BY <2>2, <3>1 DEF TypeOK, streamVars, sockVars, FileKinds
    <3>4. QED
      BY <2>2, <3>2, <3>3
         DEF FdsNameStreams, HandlesIssued, HandlesDistinct, StreamOf, TcpFds,
             Created, streamVars, sockVars
  <2>3. CASE /\ nstreams < MaxStreams /\ nhandles < MaxHandles
             /\ \E f \in Fds :
                  /\ fdTable[f].kind = "free"
                  /\ fdTable' = [fdTable EXCEPT ![f] = [kind |-> "tcp", s |-> nstreams + 1]]
             /\ nstreams' = nstreams + 1
             /\ nhandles' = nhandles + 1
             /\ stHandle' = [stHandle EXCEPT ![nstreams + 1] = nhandles + 1]
             /\ UNCHANGED <<stState, stAddr, sockSt, sockPort, procLock, pc,
                            acceptFd, conns, panicked>>
    <3>1. PICK f \in Fds :
            /\ fdTable[f].kind = "free"
            /\ fdTable' = [fdTable EXCEPT ![f] = [kind |-> "tcp", s |-> nstreams + 1]]
      BY <2>3
    <3>0. /\ nstreams \in Nat /\ nstreams < MaxStreams
          /\ nhandles \in Nat /\ nhandles < MaxHandles
          /\ nstreams' = nstreams + 1 /\ nhandles' = nhandles + 1
      BY <2>3 DEF TypeOK
    <3>2. nstreams + 1 \in Streams \ Created /\ Created \subseteq Streams
      BY <3>0, CreatedStreams
    <3>3. nhandles + 1 \in Handles
      <4>1. nhandles \in 0 .. MaxHandles /\ nhandles < MaxHandles
        BY <2>3 DEF TypeOK
      <4>2. QED
        BY <4>1, BoundsAssumption DEF Handles
    <3>4. Created' = Created \cup {nstreams + 1}
      BY <3>0 DEF Created
    <3>5. TypeOK'
      <4>1. fdTable' \in [Fds -> [kind : FileKinds, s : {0} \cup Streams]]
        BY <3>1, <3>2 DEF TypeOK, FileKinds
      <4>2. stHandle' \in [Streams -> {0} \cup Handles]
        BY <2>3, <3>3 DEF TypeOK
      <4>3. nstreams' \in 0 .. MaxStreams /\ nhandles' \in 0 .. MaxHandles
        BY <3>0, BoundsAssumption
      <4>4. QED
        BY <2>3, <4>1, <4>2, <4>3 DEF TypeOK
    <3>6. \A g \in TcpFds' : StreamOf(g)' \in Created'
      BY <3>1, <3>2, <3>4 DEF FdsNameStreams, TcpFds, StreamOf, TypeOK
    <3>7. TcpFds \subseteq TcpFds'
      BY <3>1 DEF TcpFds, TypeOK
    <3>8. FdsNameStreams'
      BY <2>3, <3>6, <3>7 DEF FdsNameStreams
    <3>9. \A s \in Created : stHandle'[s] = stHandle[s]
      BY <2>3, <3>2 DEF TypeOK
    <3>10. HandlesIssued'
      BY <2>3, <3>2, <3>4, <3>9 DEF HandlesIssued, TypeOK
    <3>11. HandlesDistinct'
      BY <2>3, <3>2, <3>4, <3>9 DEF HandlesIssued, HandlesDistinct, TypeOK
    <3>12. QED
      BY <3>5, <3>8, <3>10, <3>11
  <2>4. QED
    BY <1>1, <2>1, <2>2, <2>3 DEF SysSocket
<1>2. ASSUME NEW t \in Threads, SysBind(t) PROVE IInv'
  <2>1. PICK f \in TcpFds, port \in Ports : TcpBind(StreamOf(f), port)
    BY <1>2 DEF SysBind
  <2>2. StreamOf(f) \in Streams
    BY CreatedStreams DEF FdsNameStreams
  <2>3. TypeOK'
    BY <1>2, <2>1, <2>2 DEF SysBind, TcpBind, TypeOK, TcpStates, sockVars
  <2>4. QED
    <3>1. KeepsHandles
      BY <1>2 DEF SysBind, KeepsHandles, sockVars
    <3>2. QED
      BY <2>3, <3>1, HandlesKept
<1>3. ASSUME NEW t \in Threads, SysListen(t) PROVE IInv'
  <2>1. PICK f \in TcpFds : TcpListen(StreamOf(f))
    BY <1>3 DEF SysListen
  <2>2. StreamOf(f) \in Streams
    BY CreatedStreams DEF FdsNameStreams
  <2>3. TypeOK'
    BY <1>3, <2>1, <2>2 DEF SysListen, TcpListen, TypeOK, TcpStates, SockStates
  <2>4. QED
    <3>1. KeepsHandles
      BY <1>3 DEF SysListen, KeepsHandles
    <3>2. QED
      BY <2>3, <3>1, HandlesKept
<1>4. ASSUME NEW t \in Threads, SysConnect(t) PROVE IInv'
  <2>1. PICK f \in TcpFds : TcpConnect(StreamOf(f))
    BY <1>4 DEF SysConnect
  <2>2. TypeOK'
    BY <1>4, <2>1 DEF SysConnect, TcpConnect, TypeOK, TcpStates, SockStates
  <2>3. QED
    <3>1. KeepsHandles
      BY <1>4 DEF SysConnect, KeepsHandles
    <3>2. QED
      BY <2>2, <3>1, HandlesKept
<1>5. ASSUME NEW t \in Threads, SysTcpIo(t) PROVE IInv'
  <2>1. TypeOK'
    BY <1>5 DEF SysTcpIo, Halt, TypeOK, Panics, streamVars, sockVars
  <2>2. QED
    <3>1. KeepsHandles
      BY <1>5 DEF SysTcpIo, Halt, streamVars, sockVars, KeepsHandles
    <3>2. QED
      BY <2>1, <3>1, HandlesKept
<1>6. ASSUME NEW t \in Threads, SysAccept(t) PROVE IInv'
  <2>1. PICK f \in TcpFds : /\ stAddr[StreamOf(f)] # NoAddr
                            /\ acceptFd' = [acceptFd EXCEPT ![t] = f]
    BY <1>6 DEF SysAccept
  <2>2. /\ pc' = [pc EXCEPT ![t] = "accept_loop"]
        /\ procLock' = t
        /\ UNCHANGED <<fdTable, streamVars, sockVars, conns, panicked>>
    BY <1>6 DEF SysAccept
  <2>3. TypeOK'
    <3>1. acceptFd' \in [Threads -> Fds]
      BY <2>1 DEF TypeOK, TcpFds
    <3>2. pc' \in [Threads -> {"idle", "accept_loop", "accept_wait"}]
      BY <2>2 DEF TypeOK
    <3>3. QED
      BY <2>2, <3>1, <3>2 DEF TypeOK, streamVars, sockVars
  <2>4. /\ TcpFds' = TcpFds
        /\ Created' = Created
        /\ \A g \in Fds : StreamOf(g)' = StreamOf(g)
    BY <2>2 DEF TcpFds, Created, StreamOf, streamVars
  <2>5. FdsNameStreams'
    <3>1. \A g \in TcpFds' : StreamOf(g)' \in Created'
      BY <2>4 DEF FdsNameStreams, TcpFds
    <3>2. \A u \in Threads : pc'[u] # "idle" => acceptFd'[u] \in TcpFds'
      BY <2>1, <2>2, <2>4 DEF FdsNameStreams, TypeOK
    <3>3. QED
      BY <3>1, <3>2 DEF FdsNameStreams
  <2>6. HandlesIssued' /\ HandlesDistinct'
    BY <2>2, <2>4 DEF HandlesIssued, HandlesDistinct, streamVars, sockVars
  <2>7. QED
    BY <2>3, <2>5, <2>6
<1>7. ASSUME NEW t \in Threads, AcceptLoop(t) PROVE IInv'
  <2> DEFINE s0 == StreamOf(acceptFd[t])
             h == stHandle[s0]
  <2>1. s0 \in Created
    BY <1>7 DEF AcceptLoop, FdsNameStreams
  <2>2. CASE /\ stState[s0] = "Listening" /\ sockSt[h] = "active"
             /\ nstreams < MaxStreams /\ nhandles < MaxHandles
             /\ nhandles' = nhandles + 1
             /\ sockSt' = [sockSt EXCEPT ![nhandles + 1] = "listen"]
             /\ sockPort' = [sockPort EXCEPT ![nhandles + 1] = stAddr[s0]]
             /\ nstreams' = nstreams + 1
             /\ stHandle' = [stHandle EXCEPT ![s0] = nhandles + 1,
                                             ![nstreams + 1] = h]
             /\ stState' = [stState EXCEPT ![nstreams + 1] = "Dead"]
             /\ stAddr' = [stAddr EXCEPT ![nstreams + 1] = stAddr[s0]]
             /\ panicked' = IF HasDriver THEN "peer_addr" ELSE "driver"
             /\ UNCHANGED pc
    <3>0. /\ nstreams \in Nat /\ nstreams < MaxStreams
          /\ nhandles \in Nat /\ nhandles < MaxHandles
          /\ nstreams' = nstreams + 1 /\ nhandles' = nhandles + 1
      BY <2>2 DEF TypeOK
    <3>1. nstreams + 1 \in Streams \ Created /\ Created \subseteq Streams
      BY <3>0, CreatedStreams
    <3>2. /\ nhandles + 1 \in Handles
          /\ h \in 1 .. nhandles
          /\ h \in Handles
      <4>1. h \in 1 .. nhandles
        BY <2>1 DEF HandlesIssued
      <4>2. QED
        BY <3>0, <4>1, BoundsAssumption DEF Handles
    <3>3. Created' = Created \cup {nstreams + 1}
      BY <3>0 DEF Created
    <3>4. s0 # nstreams + 1
      BY <2>1, <3>1
    <3>5. stHandle' = [stHandle EXCEPT ![s0] = nhandles + 1, ![nstreams + 1] = h]
      BY <2>2
    <3>6. UNCHANGED <<fdTable, procLock, acceptFd, conns, pc>>
      BY <1>7, <2>2 DEF AcceptLoop
    <3>7. TypeOK'
      <4>1. stHandle' \in [Streams -> {0} \cup Handles]
        BY <3>1, <3>2, <3>5 DEF TypeOK
      <4>2. stState' \in [Streams -> TcpStates]
        BY <2>2, <3>1 DEF TypeOK, TcpStates
      <4>3. stAddr' \in [Streams -> {NoAddr} \cup Ports]
        BY <2>1, <2>2, <3>1 DEF TypeOK
      <4>4. sockSt' \in [Handles -> SockStates]
        BY <2>2, <3>2 DEF TypeOK, SockStates
      <4>5. sockPort' \in [Handles -> {NoAddr} \cup Ports]
        BY <2>1, <2>2, <3>1 DEF TypeOK
      <4>6. panicked' \in Panics
        BY <2>2 DEF Panics
      <4>7. nstreams' \in 0 .. MaxStreams /\ nhandles' \in 0 .. MaxHandles
        BY <3>0, BoundsAssumption
      <4>8. QED
        BY <3>6, <4>1, <4>2, <4>3, <4>4, <4>5, <4>6, <4>7 DEF TypeOK
    <3>8. \A s \in Created \ {s0} : stHandle'[s] = stHandle[s]
      BY <3>1, <3>5 DEF TypeOK
    <3>9. stHandle'[s0] = nhandles + 1 /\ stHandle'[nstreams + 1] = h
      BY <2>1, <3>1, <3>4, <3>5 DEF TypeOK
    <3>10. FdsNameStreams'
      BY <3>3, <3>6 DEF FdsNameStreams, TcpFds, StreamOf
    <3>11. HandlesIssued'
      BY <3>0, <3>2, <3>3, <3>8, <3>9 DEF HandlesIssued
    <3>12. HandlesDistinct'
      <4>1. \A s \in Created \ {s0} : stHandle'[s] \in 1 .. nhandles /\ stHandle'[s] # h
        BY <2>1, <3>8 DEF HandlesIssued, HandlesDistinct
      <4>2. h \in 1 .. nhandles /\ h # nhandles + 1
        BY <3>0, <3>2
      <4>3. \A s \in Created \ {s0} : stHandle'[s] # nhandles + 1
        BY <3>0, <4>1
      <4>4. \A s1, s2 \in Created \ {s0} : s1 # s2 => stHandle'[s1] # stHandle'[s2]
        BY <3>8 DEF HandlesDistinct
      <4>5. SUFFICES ASSUME NEW s1 \in Created', NEW s2 \in Created', s1 # s2
                     PROVE  stHandle'[s1] # stHandle'[s2]
        BY DEF HandlesDistinct
      <4>6. \A s \in Created' : \/ s = s0 \/ s = nstreams + 1 \/ s \in Created \ {s0}
        BY <3>3
      <4>7. nstreams + 1 \notin Created \ {s0}
        BY <3>1
      <4>8. CASE s1 = s0
        BY <4>8, <4>5, <4>6, <4>2, <4>3, <3>9, <3>4
      <4>9. CASE s1 = nstreams + 1
        BY <4>9, <4>5, <4>6, <4>1, <4>2, <3>9, <3>4
      <4>10. CASE s1 \in Created \ {s0}
        BY <4>10, <4>5, <4>6, <4>1, <4>3, <4>4, <4>7, <3>9
      <4>11. QED
        BY <4>6, <4>8, <4>9, <4>10
    <3>13. QED
      BY <3>7, <3>10, <3>11, <3>12
  <2>3. CASE /\ ~(stState[s0] = "Listening" /\ sockSt[h] = "active")
             /\ pc' = [pc EXCEPT ![t] = "accept_wait"]
             /\ UNCHANGED <<streamVars, sockVars, panicked>>
    <3>1. UNCHANGED <<fdTable, procLock, acceptFd, conns>>
      BY <1>7 DEF AcceptLoop
    <3>2. TypeOK'
      BY <2>3, <3>1 DEF TypeOK, streamVars, sockVars
    <3>3. KeepsHandles
      BY <1>7, <2>3, <3>1 DEF AcceptLoop, TypeOK, streamVars, sockVars, KeepsHandles
    <3>4. QED
      BY <3>2, <3>3, HandlesKept
  <2>4. QED
    BY <1>7, <2>2, <2>3 DEF AcceptLoop
<1>8. CASE NetConnect
  <2>1. PICK h \in Handles : /\ sockSt[h] = "listen"
                             /\ sockSt' = [sockSt EXCEPT ![h] = "active"]
    BY <1>8 DEF NetConnect
  <2>2. /\ conns < MaxConns /\ conns' = conns + 1
        /\ pc' = WakeAll
        /\ UNCHANGED <<fdTable, streamVars, sockPort, nhandles, procLock,
                       acceptFd, panicked>>
    BY <1>8 DEF NetConnect
  <2>3. TypeOK'
    <3>1. sockSt' \in [Handles -> SockStates]
      BY <2>1 DEF TypeOK, SockStates
    <3>2. conns' \in 0 .. MaxConns
      BY <2>2, BoundsAssumption DEF TypeOK
    <3>3. pc' \in [Threads -> {"idle", "accept_loop", "accept_wait"}]
      BY <2>2, WakeAllTyped
    <3>4. QED
      BY <2>2, <3>1, <3>2, <3>3 DEF TypeOK, streamVars
  <2>4. KeepsHandles
    BY <2>2, WakeAllTyped DEF KeepsHandles, streamVars
  <2>5. QED
    BY <2>3, <2>4, HandlesKept
<1>9. CASE NetReset
  <2>1. PICK h \in Handles, to \in {"closed", "listen"} :
          /\ sockSt[h] = "active"
          /\ sockSt' = [sockSt EXCEPT ![h] = to]
    BY <1>9 DEF NetReset, ResetTo
  <2>2. /\ pc' = WakeAll
        /\ UNCHANGED <<fdTable, streamVars, sockPort, nhandles, procLock,
                       acceptFd, conns, panicked>>
    BY <1>9 DEF NetReset
  <2>3. TypeOK'
    <3>1. sockSt' \in [Handles -> SockStates]
      BY <2>1 DEF TypeOK, SockStates
    <3>2. pc' \in [Threads -> {"idle", "accept_loop", "accept_wait"}]
      BY <2>2, WakeAllTyped
    <3>3. QED
      BY <2>2, <3>1, <3>2 DEF TypeOK, streamVars
  <2>4. KeepsHandles
    BY <2>2, WakeAllTyped DEF KeepsHandles, streamVars
  <2>5. QED
    BY <2>3, <2>4, HandlesKept
<1>10. CASE UNCHANGED vars
  BY <1>10 DEF vars, TypeOK, FdsNameStreams, HandlesIssued, HandlesDistinct,
               TcpFds, StreamOf, Created, streamVars, sockVars
<1>11. QED
  BY <1>1, <1>2, <1>3, <1>4, <1>5, <1>6, <1>7, <1>8, <1>9, <1>10 DEF Next

(* No two TcpStream objects ever share a SOCKET_SET handle: sys_socket    *)
(* adds a fresh socket, and accept gives the listener a fresh one and the  *)
(* returned stream the old one, for every number of threads, descriptors, *)
(* streams and handles.                                                    *)
THEOREM HandlesNeverShared == Spec => []HandlesDistinct
<1>1. IInv => HandlesDistinct
  BY DEF IInv
<1>2. QED
  BY InitIInv, NextIInv, <1>1, PTL DEF Spec

---------------------------------------------------------------------------
(* ListenerOnAddr needs three more facts: a Listening stream has an       *)
(* address (listen requires one and bind, which changes it, resets the    *)
(* state), a stream not yet created is not Listening, and the facts of    *)
(* IInv, which keep the sockets of distinct streams apart.                 *)
ListenAddr ==
  \A s \in Created : stState[s] = "Listening" => stAddr[s] # NoAddr

UncreatedNotListening ==
  \A s \in Streams \ Created : stState[s] # "Listening"

LInv == IInv /\ ListenerOnAddr /\ ListenAddr /\ UncreatedNotListening

LRest == ListenerOnAddr /\ ListenAddr /\ UncreatedNotListening

(* A step that leaves the streams and the socket ports alone keeps LRest. *)
LEMMA ListenKept ==
  ASSUME LRest,
         UNCHANGED <<stState, stAddr, stHandle, nstreams, sockPort>>
  PROVE  LRest'
BY DEF LRest, ListenerOnAddr, ListenAddr, UncreatedNotListening, Created

(* Outside a stream's own socket, a step that changes one socket h keeps *)
(* the sockets of every other created stream: handles are distinct.      *)
LEMMA OtherSockets ==
  ASSUME IInv, NEW s0 \in Created, NEW s \in Created, s # s0
  PROVE  /\ stHandle[s] \in Handles
         /\ stHandle[s] # stHandle[s0]
BY BoundsAssumption DEF IInv, HandlesIssued, HandlesDistinct, TypeOK, Handles

LEMMA NextLInv == LInv /\ [Next]_vars => LInv'
<1> SUFFICES ASSUME LInv, [Next]_vars PROVE LInv'
  OBVIOUS
<1>0. IInv' /\ IInv /\ LRest /\ TypeOK
  BY NextIInv DEF LInv, LRest, IInv
<1> SUFFICES LRest'
  BY <1>0 DEF LInv, LRest
<1>1. ASSUME NEW t \in Threads, SysSocket(t) PROVE LRest'
  <2>1. CASE UNCHANGED <<stState, stAddr, stHandle, nstreams, sockSt, sockPort>>
    BY <2>1, <1>0, ListenKept
  <2>2. CASE /\ nstreams < MaxStreams
             /\ nstreams' = nstreams + 1
             /\ stHandle' = [stHandle EXCEPT ![nstreams + 1] = nhandles + 1]
             /\ UNCHANGED <<stState, stAddr, sockSt, sockPort>>
    <3>1. nstreams + 1 \in Streams \ Created /\ Created \subseteq Streams
      BY <1>0, <2>2, CreatedStreams
    <3>2. Created' = Created \cup {nstreams + 1}
      <4>1. nstreams \in Nat
        BY <1>0 DEF TypeOK
      <4>2. QED
        BY <2>2, <4>1 DEF Created
    <3>3. \A s \in Created : stHandle'[s] = stHandle[s]
      BY <2>2, <3>1, <1>0 DEF TypeOK
    <3>4. stState[nstreams + 1] # "Listening"
      BY <3>1, <1>0 DEF LRest, UncreatedNotListening
    <3>5. ListenerOnAddr' /\ ListenAddr'
      BY <2>2, <3>2, <3>3, <3>4, <1>0 DEF LRest, ListenerOnAddr, ListenAddr
    <3>6. UncreatedNotListening'
      BY <2>2, <3>2, <1>0 DEF LRest, UncreatedNotListening
    <3>7. QED
      BY <3>5, <3>6 DEF LRest
  <2>3. QED
    BY <1>1, <2>1, <2>2 DEF SysSocket, Halt, streamVars, sockVars
<1>2. ASSUME NEW t \in Threads, SysBind(t) PROVE LRest'
  <2>1. PICK f \in TcpFds, port \in Ports : TcpBind(StreamOf(f), port)
    BY <1>2 DEF SysBind
  <2> DEFINE s0 == StreamOf(f)
  <2>2. s0 \in Created /\ Created \subseteq Streams
    BY <1>0, CreatedStreams DEF IInv, FdsNameStreams
  <2>3. /\ stState' = [stState EXCEPT ![s0] = "Uninit"]
        /\ stAddr' = [stAddr EXCEPT ![s0] = port]
        /\ UNCHANGED <<stHandle, nstreams, sockSt, sockPort>>
    BY <1>2, <2>1 DEF SysBind, TcpBind, sockVars
  <2>4. \A s \in Streams : s # s0 => stState'[s] = stState[s] /\ stAddr'[s] = stAddr[s]
    BY <2>3, <1>0 DEF TypeOK
  <2>5. stState'[s0] = "Uninit"
    BY <2>2, <2>3, <1>0 DEF TypeOK
  <2>6. QED
    BY <2>2, <2>4, <2>5, <2>3, <1>0
       DEF LRest, ListenerOnAddr, ListenAddr, UncreatedNotListening, Created
<1>3. ASSUME NEW t \in Threads, SysListen(t) PROVE LRest'
  <2>1. PICK f \in TcpFds : TcpListen(StreamOf(f))
    BY <1>3 DEF SysListen
  <2> DEFINE s0 == StreamOf(f)
             h == stHandle[s0]
  <2>2. s0 \in Created /\ Created \subseteq Streams /\ h \in Handles
    <3>1. s0 \in Created
      BY <1>0 DEF IInv, FdsNameStreams
    <3>2. Created \subseteq Streams
      BY <1>0, CreatedStreams DEF IInv
    <3>3. h \in 1 .. nhandles
      BY <1>0, <3>1 DEF IInv, HandlesIssued
    <3>4. nhandles \in 0 .. MaxHandles
      BY <1>0 DEF TypeOK
    <3>5. h \in Handles
      BY <3>3, <3>4, BoundsAssumption DEF Handles
    <3>6. QED
      BY <3>1, <3>2, <3>5
  <2>3. /\ stAddr[s0] # NoAddr
        /\ sockSt' = [sockSt EXCEPT ![h] = "listen"]
        /\ sockPort' = [sockPort EXCEPT ![h] = stAddr[s0]]
        /\ stState' = [stState EXCEPT ![s0] = "Listening"]
        /\ UNCHANGED <<stAddr, stHandle, nstreams>>
    BY <1>3, <2>1 DEF SysListen, TcpListen
  <2>4. ASSUME NEW s \in Created', stState'[s] = "Listening"
        PROVE  /\ sockPort'[stHandle'[s]] = stAddr'[s]
               /\ stAddr'[s] # NoAddr
    <3>1. CASE s = s0
      BY <2>2, <2>3, <3>1, <1>0 DEF TypeOK
    <3>2. CASE s # s0
      <4>1. s \in Created
        BY <2>3 DEF Created
      <4>2. stHandle[s] \in Handles /\ stHandle[s] # h
        BY <2>2, <3>2, <4>1, <1>0, OtherSockets
      <4>3. stState[s] = "Listening"
        BY <2>2, <2>3, <2>4, <3>2, <4>1, <1>0 DEF TypeOK
      <4>4. QED
        BY <2>3, <4>1, <4>2, <4>3, <1>0
           DEF TypeOK, LRest, ListenerOnAddr, ListenAddr
    <3>7. QED
      BY <3>1, <3>2
  <2>5. UncreatedNotListening'
    BY <2>2, <2>3, <1>0 DEF TypeOK, LRest, UncreatedNotListening, Created
  <2>6. QED
    BY <2>4, <2>5 DEF LRest, ListenerOnAddr, ListenAddr
<1>4. ASSUME NEW t \in Threads, SysConnect(t) PROVE LRest'
  <2>1. PICK f \in TcpFds : TcpConnect(StreamOf(f))
    BY <1>4 DEF SysConnect
  <2> DEFINE s0 == StreamOf(f)
             h == stHandle[s0]
  <2>2. s0 \in Created /\ Created \subseteq Streams /\ h \in Handles
    <3>1. s0 \in Created
      BY <1>0 DEF IInv, FdsNameStreams
    <3>2. Created \subseteq Streams
      BY <1>0, CreatedStreams DEF IInv
    <3>3. h \in 1 .. nhandles
      BY <1>0, <3>1 DEF IInv, HandlesIssued
    <3>4. nhandles \in 0 .. MaxHandles
      BY <1>0 DEF TypeOK
    <3>5. h \in Handles
      BY <3>3, <3>4, BoundsAssumption DEF Handles
    <3>6. QED
      BY <3>1, <3>2, <3>5
  <2>3. /\ sockSt' = [sockSt EXCEPT ![h] = "active"]
        /\ stState' = [stState EXCEPT ![s0] = "Alive"]
        /\ UNCHANGED <<stAddr, stHandle, nstreams, sockPort>>
    BY <1>4, <2>1 DEF SysConnect, TcpConnect
  <2>4. ASSUME NEW s \in Created', stState'[s] = "Listening"
        PROVE  /\ sockPort'[stHandle'[s]] = stAddr'[s]
               /\ stAddr'[s] # NoAddr
    <3>1. s # s0
      BY <2>2, <2>3, <2>4, <1>0 DEF TypeOK
    <3>2. s \in Created
      BY <2>3 DEF Created
    <3>3. stHandle[s] \in Handles /\ stHandle[s] # h
      BY <2>2, <3>1, <3>2, <1>0, OtherSockets
    <3>4. stState[s] = "Listening"
      BY <2>2, <2>3, <2>4, <3>1, <3>2, <1>0 DEF TypeOK
    <3>5. QED
      BY <2>3, <3>2, <3>3, <3>4, <1>0
         DEF TypeOK, LRest, ListenerOnAddr, ListenAddr
  <2>5. UncreatedNotListening'
    BY <2>2, <2>3, <1>0 DEF TypeOK, LRest, UncreatedNotListening, Created
  <2>6. QED
    BY <2>4, <2>5 DEF LRest, ListenerOnAddr, ListenAddr
<1>5. ASSUME NEW t \in Threads, SysTcpIo(t) PROVE LRest'
  BY <1>5, <1>0, ListenKept DEF SysTcpIo, Halt, streamVars, sockVars
<1>6. ASSUME NEW t \in Threads, SysAccept(t) PROVE LRest'
  BY <1>6, <1>0, ListenKept DEF SysAccept, streamVars, sockVars
<1>7. ASSUME NEW t \in Threads, AcceptLoop(t) PROVE LRest'
  <2> DEFINE s0 == StreamOf(acceptFd[t])
             h == stHandle[s0]
             nh == nhandles + 1
  <2>1. s0 \in Created /\ Created \subseteq Streams
    BY <1>7, <1>0, CreatedStreams DEF AcceptLoop, IInv, FdsNameStreams
  <2>2. CASE /\ stState[s0] = "Listening"
             /\ nstreams < MaxStreams /\ nhandles < MaxHandles
             /\ sockSt' = [sockSt EXCEPT ![nh] = "listen"]
             /\ sockPort' = [sockPort EXCEPT ![nh] = stAddr[s0]]
             /\ nstreams' = nstreams + 1
             /\ stHandle' = [stHandle EXCEPT ![s0] = nh, ![nstreams + 1] = h]
             /\ stState' = [stState EXCEPT ![nstreams + 1] = "Dead"]
             /\ stAddr' = [stAddr EXCEPT ![nstreams + 1] = stAddr[s0]]
    <3>0. nstreams \in Nat /\ nhandles \in Nat
      BY <1>0 DEF TypeOK
    <3>1. nstreams + 1 \in Streams \ Created /\ s0 # nstreams + 1
      BY <1>0, <2>1, <2>2, CreatedStreams
    <3>2. nh \in Handles
      BY <2>2, <3>0, <1>0, BoundsAssumption DEF TypeOK, Handles
    <3>3. Created' = Created \cup {nstreams + 1}
      BY <2>2, <3>0 DEF Created
    <3>4. \A s \in Created : s # s0 => /\ stHandle'[s] = stHandle[s]
                                       /\ stState'[s] = stState[s]
                                       /\ stAddr'[s] = stAddr[s]
                                       /\ stHandle[s] \in Handles
                                       /\ stHandle[s] # nh
      <4>1. SUFFICES ASSUME NEW s \in Created, s # s0
                     PROVE  /\ stHandle'[s] = stHandle[s]
                            /\ stState'[s] = stState[s]
                            /\ stAddr'[s] = stAddr[s]
                            /\ stHandle[s] \in Handles
                            /\ stHandle[s] # nh
        OBVIOUS
      <4>2. s \in Streams /\ s # nstreams + 1
        BY <2>1, <3>1, <4>1
      <4>3. stHandle'[s] = stHandle[s] /\ stState'[s] = stState[s] /\ stAddr'[s] = stAddr[s]
        BY <2>2, <4>1, <4>2, <1>0 DEF TypeOK
      <4>4. stHandle[s] \in 1 .. nhandles
        BY <1>0, <4>1 DEF IInv, HandlesIssued
      <4>5. QED
        BY <2>2, <3>0, <4>3, <4>4, <1>0, BoundsAssumption DEF TypeOK, Handles
    <3>5. /\ stHandle'[s0] = nh /\ stState'[s0] = stState[s0]
          /\ stAddr'[s0] = stAddr[s0]
          /\ stState'[nstreams + 1] = "Dead"
      BY <2>1, <2>2, <3>1, <1>0 DEF TypeOK
    <3>6. /\ sockSt'[nh] = "listen" /\ sockPort'[nh] = stAddr[s0]
          /\ \A x \in Handles : x # nh => sockSt'[x] = sockSt[x] /\ sockPort'[x] = sockPort[x]
      BY <2>2, <3>2, <1>0 DEF TypeOK
    <3>7. ASSUME NEW s \in Created', stState'[s] = "Listening"
          PROVE  /\ sockPort'[stHandle'[s]] = stAddr'[s]
                 /\ stAddr'[s] # NoAddr
      <4>1. s \in Created
        BY <3>3, <3>5, <3>7
      <4>2. CASE s = s0
        BY <2>1, <2>2, <3>5, <3>6, <4>2, <1>0 DEF LRest, ListenAddr
      <4>3. CASE s # s0
        <5>1. /\ stHandle'[s] = stHandle[s] /\ stState'[s] = stState[s]
              /\ stAddr'[s] = stAddr[s]
              /\ stHandle[s] \in Handles /\ stHandle[s] # nh
          BY <3>4, <4>1, <4>3
        <5>2. stState[s] = "Listening"
          BY <3>7, <5>1
        <5>3. /\ sockPort[stHandle[s]] = stAddr[s]
              /\ stAddr[s] # NoAddr
          BY <5>2, <4>1, <1>0 DEF LRest, ListenerOnAddr, ListenAddr
        <5>4. sockPort'[stHandle[s]] = sockPort[stHandle[s]]
          BY <3>6, <5>1
        <5>5. QED
          BY <5>1, <5>3, <5>4
      <4>4. QED
        BY <4>2, <4>3
    <3>8. UncreatedNotListening'
      <4>1. \A s \in Streams \ Created' : stState'[s] = stState[s] /\ s \in Streams \ Created
        BY <2>2, <3>3, <1>0 DEF TypeOK
      <4>2. QED
        BY <4>1, <1>0 DEF LRest, UncreatedNotListening
    <3>9. QED
      BY <3>7, <3>8 DEF LRest, ListenerOnAddr, ListenAddr
  <2>3. CASE UNCHANGED <<streamVars, sockVars>>
    BY <2>3, <1>0, ListenKept DEF streamVars, sockVars
  <2>4. QED
    BY <1>7, <2>2, <2>3 DEF AcceptLoop
<1>8. CASE NetConnect
  BY <1>8, <1>0, ListenKept DEF NetConnect, streamVars
<1>9. CASE NetReset
  BY <1>9, <1>0, ListenKept DEF NetReset, streamVars
<1>10. CASE UNCHANGED vars
  BY <1>10, <1>0, ListenKept DEF vars
<1>11. QED
  BY <1>1, <1>2, <1>3, <1>4, <1>5, <1>6, <1>7, <1>8, <1>9, <1>10 DEF Next

(* A stream in state Listening always has a SOCKET_SET socket bound to    *)
(* its own address: bind, listen, connect, accept's swap of sockets and   *)
(* the network keep TcpStream.addr and the smoltcp socket's port in step, *)
(* for every number of threads, descriptors, streams and handles.         *)
THEOREM ListenersOnAddr == Spec => []ListenerOnAddr
<1>1. Init => LInv
  <2> SUFFICES ASSUME Init PROVE LInv
    OBVIOUS
  <2>1. IInv
    BY InitIInv
  <2>2. Created = {} /\ \A s \in Streams : stState[s] = "Uninit"
    BY DEF Init, Created
  <2>3. QED
    BY <2>1, <2>2 DEF LInv, ListenerOnAddr, ListenAddr, UncreatedNotListening
<1>2. LInv => ListenerOnAddr
  BY DEF LInv
<1>3. QED
  BY <1>1, <1>2, NextLInv, PTL DEF Spec

---------------------------------------------------------------------------
(* PendingKept rests on one more fact: a handle SOCKET_SET has not given  *)
(* out yet is closed, so the socket accept adds for the listener is none  *)
(* that holds a connection.                                                *)
FreshClosed == \A h \in Handles : h > nhandles => sockSt[h] = "closed"

(* The socket of a TCP descriptor's stream is one SOCKET_SET gave out.    *)
LEMMA FdHandle ==
  ASSUME IInv, NEW f \in TcpFds
  PROVE  stHandle[StreamOf(f)] \in 1 .. nhandles /\ stHandle[StreamOf(f)] \in Handles
<1>1. stHandle[StreamOf(f)] \in 1 .. nhandles
  BY DEF IInv, FdsNameStreams, HandlesIssued
<1>2. QED
  BY <1>1, BoundsAssumption DEF IInv, TypeOK, Handles

LEMMA NextSock ==
  IInv /\ FreshClosed /\ [Next]_vars => FreshClosed' /\ [ConnKept \/ NetReset]_vars
<1> SUFFICES ASSUME IInv, FreshClosed, [Next]_vars
             PROVE  FreshClosed' /\ [ConnKept \/ NetReset]_vars
  OBVIOUS
<1>0. TypeOK
  BY DEF IInv
(* The steps that leave every socket alone.                               *)
<1>1. CASE UNCHANGED sockSt /\ (nhandles' = nhandles \/ nhandles' = nhandles + 1)
  <2>1. nhandles \in Nat
    BY <1>0 DEF TypeOK
  <2>2. QED
    BY <1>1, <2>1 DEF FreshClosed, ConnKept, Handles
<1>2. ASSUME NEW t \in Threads, SysListen(t) PROVE FreshClosed' /\ ConnKept
  <2>1. PICK f \in TcpFds : TcpListen(StreamOf(f))
    BY <1>2 DEF SysListen
  <2>2. stHandle[StreamOf(f)] \in 1 .. nhandles /\ stHandle[StreamOf(f)] \in Handles
    BY FdHandle
  <2>3. /\ sockSt[stHandle[StreamOf(f)]] \in {"closed", "listen"}
        /\ sockSt' = [sockSt EXCEPT ![stHandle[StreamOf(f)]] = "listen"]
        /\ UNCHANGED nhandles
    BY <1>2, <2>1, Zenon DEF TcpListen, SysListen
  <2>4. QED
    BY <1>0, <2>2, <2>3 DEF FreshClosed, ConnKept, TypeOK, Handles
<1>3. ASSUME NEW t \in Threads, SysConnect(t) PROVE FreshClosed' /\ ConnKept
  <2>1. PICK f \in TcpFds : TcpConnect(StreamOf(f))
    BY <1>3 DEF SysConnect
  <2>2. stHandle[StreamOf(f)] \in 1 .. nhandles /\ stHandle[StreamOf(f)] \in Handles
    BY FdHandle
  <2>3. /\ sockSt[stHandle[StreamOf(f)]] = "closed"
        /\ sockSt' = [sockSt EXCEPT ![stHandle[StreamOf(f)]] = "active"]
        /\ UNCHANGED nhandles
    BY <1>3, <2>1, Zenon DEF TcpConnect, SysConnect
  <2>4. QED
    BY <1>0, <2>2, <2>3 DEF FreshClosed, ConnKept, TypeOK, Handles
<1>4. CASE NetConnect
  <2>1. PICK h \in Handles : sockSt[h] = "listen" /\ sockSt' = [sockSt EXCEPT ![h] = "active"]
    BY <1>4, Zenon DEF NetConnect
  <2>2. UNCHANGED nhandles
    BY <1>4 DEF NetConnect
  <2>3. QED
    BY <1>0, <2>1, <2>2 DEF FreshClosed, ConnKept, TypeOK, Handles
<1>5. CASE NetReset
  <2>1. PICK h \in Handles, to \in {"closed", "listen"} :
          /\ sockSt[h] = "active"
          /\ sockSt' = [sockSt EXCEPT ![h] = to]
    BY <1>5, Zenon DEF NetReset, ResetTo
  <2>2. h <= nhandles
    BY <2>1, <1>0 DEF FreshClosed, TypeOK, Handles
  <2>3. FreshClosed'
    BY <2>1, <2>2, <1>0, <1>5 DEF NetReset, FreshClosed, TypeOK, Handles, sockVars
  <2>4. QED
    BY <2>3, <1>5
(* accept's swap adds a socket at the first fresh handle, which is closed. *)
<1>6. ASSUME NEW t \in Threads, AcceptLoop(t) PROVE FreshClosed' /\ ConnKept
  <2>1. CASE UNCHANGED <<streamVars, sockVars>>
    BY <2>1 DEF sockVars, FreshClosed, ConnKept
  <2>2. CASE /\ nhandles < MaxHandles
             /\ nhandles' = nhandles + 1
             /\ sockSt' = [sockSt EXCEPT ![nhandles + 1] = "listen"]
    <3>1. nhandles \in Nat /\ nhandles + 1 \in Handles
      BY <2>2, <1>0, BoundsAssumption DEF TypeOK, Handles
    <3>2. sockSt[nhandles + 1] = "closed"
      BY <3>1 DEF FreshClosed
    <3>3. QED
      BY <2>2, <3>1, <3>2, <1>0 DEF FreshClosed, ConnKept, TypeOK, Handles
  <2>3. QED
    BY <1>6, <2>1, <2>2 DEF AcceptLoop
<1>7. ASSUME NEW t \in Threads, SysSocket(t) \/ SysBind(t) \/ SysTcpIo(t) \/ SysAccept(t)
      PROVE  UNCHANGED sockSt /\ (nhandles' = nhandles \/ nhandles' = nhandles + 1)
  BY <1>7 DEF SysSocket, SysBind, SysTcpIo, SysAccept, Halt, sockVars
<1>8. CASE UNCHANGED vars
  BY <1>8, <1>1 DEF vars
<1>9. QED
  BY <1>1, <1>2, <1>3, <1>4, <1>5, <1>6, <1>7, <1>8 DEF Next

(* PendingKept for every number of threads, descriptors, streams, handles *)
(* and connections: a connection that has reached a socket stays there    *)
(* (the socket stays active) until the network resets it, whatever         *)
(* listen, connect, bind and accept do.                                    *)
THEOREM ConnectionsKept == Spec => PendingKept
<1>1. Init => IInv /\ FreshClosed
  BY InitIInv DEF Init, FreshClosed
<1>2. IInv /\ FreshClosed /\ [Next]_vars => (IInv /\ FreshClosed)'
  BY NextIInv, NextSock
<1>3. IInv /\ FreshClosed /\ [Next]_vars => [ConnKept \/ NetReset]_vars
  BY NextSock
<1>4. QED
  BY <1>1, <1>2, <1>3, PTL DEF Spec, PendingKept
=============================================================================
