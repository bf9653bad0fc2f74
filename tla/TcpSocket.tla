----------------------------- MODULE TcpSocket -----------------------------
(***************************************************************************)
(* The socket system calls of src/kernel/src/syscall/net.rs acting on the  *)
(* TcpStream objects of src/kernel/src/net/tcp.rs, for the threads of one  *)
(* process.                                                                 *)
(*                                                                         *)
(* Every sys_* call first takes thread.parent.lock() (the process lock)    *)
(* and looks up its file descriptor; every call but accept then runs to    *)
(* its end, so it is one step. sys_accept keeps the process lock while     *)
(* TcpStream::accept loops: it takes SOCKET_SET, and either takes the      *)
(* connection or waits on SOCKET_CONDVAR, which releases SOCKET_SET only.  *)
(*                                                                         *)
(* The smoltcp sockets in SOCKET_SET are abstracted to their state: closed,*)
(* listening on a port, or active (a connection arrived or was started).   *)
(* The network delivers a connection to a listening socket and notifies    *)
(* SOCKET_CONDVAR; it may also close an active one. An error return leaves *)
(* every variable as it was, so it is the stutter step; a todo!(),         *)
(* unimplemented!() or unwrap() of None halts the kernel (panicked).       *)
(***************************************************************************)
EXTENDS Naturals, FiniteSets

CONSTANTS
  Threads,      \* the threads of the process that make socket calls
  NoThread,     \* the process lock is free
  Ports,        \* the non-zero ports user programs bind to
  MaxFds,       \* the size of the process's file table
  MaxStreams,   \* bound on TcpStream objects created (socket and accept)
  MaxHandles,   \* bound on sockets added to SOCKET_SET
  MaxConns,     \* bound on connections the network delivers
  HasDriver     \* NETWORK_DRIVERS is not empty

ASSUME ThreadsAssumption == Threads # {} /\ NoThread \notin Threads
ASSUME PortsAssumption == Ports \subseteq Nat \ {0}
ASSUME BoundsAssumption ==
  /\ MaxFds \in Nat \ {0}
  /\ {MaxStreams, MaxHandles, MaxConns} \subseteq Nat
  /\ HasDriver \in BOOLEAN

Fds == 0 .. MaxFds - 1
Streams == 1 .. MaxStreams
Handles == 1 .. MaxHandles
NoAddr == 0
\* TcpState; Closing(_) is matched by listen but never assigned.
TcpStates == {"Uninit", "Listening", "Alive", "Dead"}
SockStates == {"closed", "listen", "active"}
FileKinds == {"free", "file", "tcp", "udp"}
Panics == {"none", "unimplemented", "todo", "peer_addr", "driver"}

VARIABLES
  fdTable,    \* the process's files: [kind, stream] per descriptor
  stState,    \* TcpStream.state
  stAddr,     \* TcpStream.addr: its port, or NoAddr for None
  stHandle,   \* TcpStream.socket: its SOCKET_SET handle
  nstreams,   \* TcpStream objects created so far
  sockSt,     \* smoltcp socket state per handle
  sockPort,   \* the port a smoltcp socket listens on
  nhandles,   \* handles SOCKET_SET has given out
  procLock,   \* holder of thread.parent.lock()
  pc,         \* per thread: idle, accept_loop or accept_wait
  acceptFd,   \* the descriptor a thread in sys_accept passed
  conns,      \* connections the network has delivered
  panicked    \* why the kernel halted, or "none"

vars == <<fdTable, stState, stAddr, stHandle, nstreams, sockSt, sockPort,
          nhandles, procLock, pc, acceptFd, conns, panicked>>
streamVars == <<stState, stAddr, stHandle, nstreams>>
sockVars == <<sockSt, sockPort, nhandles>>

TypeOK ==
  /\ fdTable \in [Fds -> [kind : FileKinds, s : {0} \cup Streams]]
  /\ stState \in [Streams -> TcpStates]
  /\ stAddr \in [Streams -> {NoAddr} \cup Ports]
  /\ stHandle \in [Streams -> {0} \cup Handles]
  /\ nstreams \in 0 .. MaxStreams
  /\ sockSt \in [Handles -> SockStates]
  /\ sockPort \in [Handles -> {NoAddr} \cup Ports]
  /\ nhandles \in 0 .. MaxHandles
  /\ procLock \in Threads \cup {NoThread}
  /\ pc \in [Threads -> {"idle", "accept_loop", "accept_wait"}]
  /\ acceptFd \in [Threads -> Fds]
  /\ conns \in 0 .. MaxConns
  /\ panicked \in Panics

(* The process starts with descriptor 0 open on a file that is no socket. *)
Init ==
  /\ fdTable = [f \in Fds |-> IF f = 0 THEN [kind |-> "file", s |-> 0]
                                       ELSE [kind |-> "free", s |-> 0]]
  /\ stState = [s \in Streams |-> "Uninit"]
  /\ stAddr = [s \in Streams |-> NoAddr]
  /\ stHandle = [s \in Streams |-> 0]
  /\ nstreams = 0
  /\ sockSt = [h \in Handles |-> "closed"]
  /\ sockPort = [h \in Handles |-> NoAddr]
  /\ nhandles = 0
  /\ procLock = NoThread
  /\ pc = [t \in Threads |-> "idle"]
  /\ acceptFd = [t \in Threads |-> 0]
  /\ conns = 0
  /\ panicked = "none"

---------------------------------------------------------------------------
(* A thread may start a system call when the kernel runs and it holds no  *)
(* call open; thread.parent.lock() spins until the process lock is free.  *)
CanCall(t) ==
  /\ panicked = "none"
  /\ pc[t] = "idle"
  /\ procLock = NoThread

(* proc.get_fd(fd) then `if let FileObject::Socket(socket)`: the stream  *)
(* behind a TCP descriptor.                                               *)
TcpFds == {f \in Fds : fdTable[f].kind = "tcp"}
StreamOf(f) == fdTable[f].s

Halt(why) ==
  /\ panicked' = why
  /\ UNCHANGED <<fdTable, streamVars, sockVars, procLock, pc, acceptFd, conns>>

(* sys_socket with an AF_INET/AF_UNIX domain: SockRaw is unimplemented!(); *)
(* SockStream runs TcpStream::new (a fresh SOCKET_SET socket, state Uninit, *)
(* addr None), SockDgram a UdpStream; proc.add_file puts it at the lowest   *)
(* free descriptor and fails when there is none.                           *)
SysSocket(t) ==
  /\ CanCall(t)
  /\ \E ty \in {"stream", "dgram", "raw"} :
       \/ /\ ty = "raw"
          /\ Halt("unimplemented")
       \/ /\ ty = "dgram"
          /\ \E f \in Fds :
               /\ fdTable[f].kind = "free"
               /\ \A g \in 0 .. f - 1 : fdTable[g].kind # "free"
               /\ fdTable' = [fdTable EXCEPT ![f] = [kind |-> "udp", s |-> 0]]
          /\ UNCHANGED <<streamVars, sockVars, procLock, pc, acceptFd, conns,
                         panicked>>
       \/ /\ ty = "stream"
          /\ nstreams < MaxStreams /\ nhandles < MaxHandles
          /\ \E f \in Fds :
               /\ fdTable[f].kind = "free"
               /\ \A g \in 0 .. f - 1 : fdTable[g].kind # "free"
               /\ fdTable' = [fdTable EXCEPT ![f] = [kind |-> "tcp", s |-> nstreams + 1]]
          /\ nstreams' = nstreams + 1
          /\ nhandles' = nhandles + 1
          /\ stHandle' = [stHandle EXCEPT ![nstreams + 1] = nhandles + 1]
          /\ UNCHANGED <<stState, stAddr, sockSt, sockPort, procLock, pc,
                         acceptFd, conns, panicked>>

(* A plausible slip in TcpStream::bind: the address is replaced but the  *)
(* state is left as it was.                                                *)
TcpBindKeepsState(s, port) ==
  /\ stAddr' = [stAddr EXCEPT ![s] = port]
  /\ UNCHANGED stState

(* TcpStream::bind with a V4 address: port 0 is EINVAL (Ports holds no 0); *)
(* else the address is stored and the state set to Uninit, whatever it    *)
(* was, and the SOCKET_SET socket is left alone.                           *)
TcpBind(s, port) ==
  /\ stAddr' = [stAddr EXCEPT ![s] = port]
  /\ stState' = [stState EXCEPT ![s] = "Uninit"]

(* sys_bind: the descriptor must be a socket and the address AF_INET.     *)
SysBind(t) ==
  /\ CanCall(t)
  /\ \E f \in TcpFds, port \in Ports : TcpBind(StreamOf(f), port)
  /\ UNCHANGED <<fdTable, stHandle, nstreams, sockVars, procLock, pc, acceptFd,
                 conns, panicked>>

(* A plausible slip in TcpStream::listen: the socket is reset first so    *)
(* that smoltcp's listen cannot fail, dropping any connection it held.    *)
TcpListenResets(s) ==
  LET h == stHandle[s] IN
  /\ stState[s] = "Uninit"
  /\ stAddr[s] # NoAddr
  /\ sockSt' = [sockSt EXCEPT ![h] = "listen"]
  /\ sockPort' = [sockPort EXCEPT ![h] = stAddr[s]]
  /\ stState' = [stState EXCEPT ![s] = "Listening"]

(* TcpStream::listen changes nothing when Alive or Listening (Ok) or Dead *)
(* (EINVAL); from Uninit with an address it calls smoltcp listen, which   *)
(* succeeds on a closed socket or on one already listening on that port   *)
(* and fails (EINVAL) on any other open socket.                            *)
TcpListen(s) ==
  LET h == stHandle[s] IN
  /\ stState[s] = "Uninit"
  /\ stAddr[s] # NoAddr
  /\ \/ sockSt[h] = "closed"
     \/ sockSt[h] = "listen" /\ sockPort[h] = stAddr[s]
  /\ sockSt' = [sockSt EXCEPT ![h] = "listen"]
  /\ sockPort' = [sockPort EXCEPT ![h] = stAddr[s]]
  /\ stState' = [stState EXCEPT ![s] = "Listening"]

(* sys_listen on a socket descriptor; the backlog is ignored.            *)
SysListen(t) ==
  /\ CanCall(t)
  /\ \E f \in TcpFds : TcpListen(StreamOf(f))
  /\ UNCHANGED <<fdTable, stAddr, stHandle, nstreams, nhandles, procLock, pc,
                 acceptFd, conns, panicked>>

(* TcpStream::connect takes the first network driver (ENODEV if none) and *)
(* asks it to connect the socket, which smoltcp does only for a closed    *)
(* one; the state becomes Alive without looking at the old one.            *)
TcpConnect(s) ==
  /\ HasDriver
  /\ sockSt[stHandle[s]] = "closed"
  /\ sockSt' = [sockSt EXCEPT ![stHandle[s]] = "active"]
  /\ stState' = [stState EXCEPT ![s] = "Alive"]

(* sys_connect: a socket descriptor and an AF_INET address.              *)
SysConnect(t) ==
  /\ CanCall(t)
  /\ \E f \in TcpFds : TcpConnect(StreamOf(f))
  /\ UNCHANGED <<fdTable, stAddr, stHandle, nstreams, sockPort, nhandles,
                 procLock, pc, acceptFd, conns, panicked>>

(* sys_sendto, sys_recvfrom and sys_setsockopt on a TCP descriptor reach  *)
(* TcpStream::write, read and setsocketopt, which are todo!().            *)
SysTcpIo(t) ==
  /\ CanCall(t)
  /\ TcpFds # {}
  /\ Halt("todo")

(* sys_accept: the process lock is taken and kept; the descriptor must be *)
(* a TcpStream (downcast) with an address, else EINVAL and the lock goes.  *)
SysAccept(t) ==
  /\ CanCall(t)
  /\ \E f \in TcpFds :
       /\ stAddr[StreamOf(f)] # NoAddr
       /\ acceptFd' = [acceptFd EXCEPT ![t] = f]
  /\ procLock' = t
  /\ pc' = [pc EXCEPT ![t] = "accept_loop"]
  /\ UNCHANGED <<fdTable, streamVars, sockVars, conns, panicked>>

(* A plausible slip in TcpStream::accept: the returned stream is built on *)
(* the old handle but the listener keeps it too (no mem::replace).         *)
AcceptLoopNoReplace(t) ==
  LET s == StreamOf(acceptFd[t])
      h == stHandle[s]
  IN
  /\ panicked = "none"
  /\ pc[t] = "accept_loop"
  /\ \/ /\ stState[s] = "Listening" /\ sockSt[h] = "active"
        /\ nstreams < MaxStreams /\ nhandles < MaxHandles
        /\ nhandles' = nhandles + 1
        /\ sockSt' = [sockSt EXCEPT ![nhandles + 1] = "listen"]
        /\ sockPort' = [sockPort EXCEPT ![nhandles + 1] = stAddr[s]]
        /\ nstreams' = nstreams + 1
        /\ stHandle' = [stHandle EXCEPT ![nstreams + 1] = h]
        /\ stState' = [stState EXCEPT ![nstreams + 1] = "Dead"]
        /\ stAddr' = [stAddr EXCEPT ![nstreams + 1] = stAddr[s]]
        /\ panicked' = IF HasDriver THEN "peer_addr" ELSE "driver"
        /\ UNCHANGED pc
     \/ /\ ~(stState[s] = "Listening" /\ sockSt[h] = "active")
        /\ pc' = [pc EXCEPT ![t] = "accept_wait"]
        /\ UNCHANGED <<streamVars, sockVars, panicked>>
  /\ UNCHANGED <<fdTable, procLock, acceptFd, conns>>

(* One turn of accept's loop under SOCKET_SET. When the stream is          *)
(* Listening and its socket active, a new socket listening on the address  *)
(* replaces the stream's handle, the old handle goes to a new TcpStream in *)
(* state Dead, and the driver is polled (unwrap: a driver must exist);     *)
(* sys_accept then calls accepted.peer_addr(), which is todo!(). Otherwise *)
(* the thread waits on SOCKET_CONDVAR, still holding the process lock.     *)
AcceptLoop(t) ==
  LET s == StreamOf(acceptFd[t])
      h == stHandle[s]
  IN
  /\ panicked = "none"
  /\ pc[t] = "accept_loop"
  /\ \/ /\ stState[s] = "Listening" /\ sockSt[h] = "active"
        /\ nstreams < MaxStreams /\ nhandles < MaxHandles
        /\ nhandles' = nhandles + 1
        /\ sockSt' = [sockSt EXCEPT ![nhandles + 1] = "listen"]
        /\ sockPort' = [sockPort EXCEPT ![nhandles + 1] = stAddr[s]]
        /\ nstreams' = nstreams + 1
        /\ stHandle' = [stHandle EXCEPT ![s] = nhandles + 1,
                                        ![nstreams + 1] = h]
        /\ stState' = [stState EXCEPT ![nstreams + 1] = "Dead"]
        /\ stAddr' = [stAddr EXCEPT ![nstreams + 1] = stAddr[s]]
        /\ panicked' = IF HasDriver THEN "peer_addr" ELSE "driver"
        /\ UNCHANGED pc
     \/ /\ ~(stState[s] = "Listening" /\ sockSt[h] = "active")
        /\ pc' = [pc EXCEPT ![t] = "accept_wait"]
        /\ UNCHANGED <<streamVars, sockVars, panicked>>
  /\ UNCHANGED <<fdTable, procLock, acceptFd, conns>>

(* The network stack: a connection reaches a socket listening on a port,  *)
(* or an active connection closes; the driver then notifies               *)
(* SOCKET_CONDVAR, which wakes every waiting accept.                       *)
WakeAll == [t \in Threads |-> IF pc[t] = "accept_wait" THEN "accept_loop" ELSE pc[t]]

NetConnect ==
  /\ panicked = "none"
  /\ conns < MaxConns
  /\ \E h \in Handles :
       /\ sockSt[h] = "listen"
       /\ sockSt' = [sockSt EXCEPT ![h] = "active"]
  /\ conns' = conns + 1
  /\ pc' = WakeAll
  /\ UNCHANGED <<fdTable, streamVars, sockPort, nhandles, procLock, acceptFd,
                 panicked>>

(* A connection is reset or times out before it is taken. smoltcp sends  *)
(* a socket that came from listen and is still in SYN-RECEIVED back to    *)
(* listening; one whose handshake has finished (ESTABLISHED, which an     *)
(* incoming connection reaches before accept runs) closes, as does one    *)
(* started by connect. The port a socket listened on is kept.             *)
ResetTo(h) == IF sockPort[h] = NoAddr THEN {"closed"} ELSE {"closed", "listen"}

NetReset ==
  /\ panicked = "none"
  /\ \E h \in Handles :
       /\ sockSt[h] = "active"
       /\ \E to \in ResetTo(h) : sockSt' = [sockSt EXCEPT ![h] = to]
  /\ pc' = WakeAll
  /\ UNCHANGED <<fdTable, streamVars, sockPort, nhandles, procLock, acceptFd,
                 conns, panicked>>

Next ==
  \/ \E t \in Threads :
       \/ SysSocket(t) \/ SysBind(t) \/ SysListen(t) \/ SysConnect(t)
       \/ SysTcpIo(t) \/ SysAccept(t) \/ AcceptLoop(t)
  \/ NetConnect
  \/ NetReset

Spec == Init /\ [][Next]_vars

(* A thread in accept's loop is scheduled again; the network is not fair. *)
FairSpec == Spec /\ \A t \in Threads : WF_vars(AcceptLoop(t))

---------------------------------------------------------------------------
(* Streams created so far.                                                 *)
Created == 1 .. nstreams

(* A stream in state Listening has a SOCKET_SET socket bound to the       *)
(* stream's own address: bind (which changes the address), listen and     *)
(* accept's swap of sockets must keep TcpStream.addr and the port of the  *)
(* smoltcp socket in step, or accept takes connections meant for another  *)
(* port. (Whether the socket still listens is not claimed: the network    *)
(* may close it, see NetReset.)                                            *)
ListenerOnAddr ==
  \A s \in Created :
    stState[s] = "Listening" => sockPort[stHandle[s]] = stAddr[s]

(* No two TcpStream objects share a SOCKET_SET handle: accept hands the   *)
(* old socket to the returned stream and gives the listener a new one.    *)
HandlesDistinct ==
  \A s1, s2 \in Created : s1 # s2 => stHandle[s1] # stHandle[s2]

(* A connection that has arrived stays until the network resets it: no    *)
(* socket call turns an active smoltcp socket back into a listening or    *)
(* closed one. sys_listen on a stream whose socket holds a connection      *)
(* (connect, then bind) must fail as smoltcp's listen does on an open      *)
(* socket, and accept must give the listener a socket nobody uses.         *)
ConnKept == \A h \in Handles : sockSt[h] = "active" => sockSt'[h] = "active"

PendingKept == [][ConnKept \/ NetReset]_vars

(* A thread blocked in accept whose socket holds a connection that stays *)
(* is served: it leaves the loop (or the kernel stops). TcpStream::accept *)
(* takes a connection only in state Listening, and sys_accept holds the   *)
(* process lock the whole time.                                            *)
PendingAccept(t) ==
  /\ pc[t] # "idle"
  /\ sockSt[stHandle[StreamOf(acceptFd[t])]] = "active"

AcceptServed ==
  \A t \in Threads : <>[]PendingAccept(t) => <>(panicked # "none")

=============================================================================
