# TLA+ models of the NeoOS kernel execution core

These modules model the parts of `src/kernel` that hold state and that run
concurrently or loop over untrusted data:

- the thread core of `process/thread.rs`;
- the stack unwinder of `debug.rs`;
- the socket system calls of `syscall/net.rs` acting on `net/tcp.rs`;
- the key orders and B-tree maps of `fs/apfs/meta.rs`.

TLC checks each model on small instances. TLAPS proves, for every instance:
- type correctness of the thread core, context ownership in `spawn()`'s loop
  and the process tree fork builds;
- on one CPU, unique thread ids;
- the unwinder's depth and read bounds, and that it implements its abstract
  trace;
- that no two socket streams share a socket handle, that listeners stay bound
  to their address, and that an arrived connection is never dropped by a
  socket call;
- that parsing an APFS object-map node keeps one entry per on-disk record.

## The system and how its parts interact

- **Thread core.** `THREAD_TABLE` is a spin `RwLock<BTreeMap<u64, Arc<Thread>>>`.
  `Thread::register` and `find_available_tid` fill it. `Thread::fork` builds a
  child process and thread under the parent process's mutex. `spawn()` wraps a
  thread in a future that loops:
  1. `take` the saved context;
  2. `switch` to user mode;
  3. `trap_dispatcher_user`;
  4. `handle_signal`;
  5. `restore`;
  6. break, `Yield`, or loop.

  The FIFO executor (not under `src/`) polls these futures on every CPU.
  `debug_threading` / `Thread::from_raw` create the first thread, with fixed
  ids.
- **Unwinder.** `Frame::unwind` walks saved frame pointers on fatal paths. It
  reads memory only.
- **Sockets.** Each `sys_*` call takes the process lock (`thread.parent.lock()`)
  and looks up its descriptor. `sys_accept` keeps that lock while
  `TcpStream::accept` waits on `SOCKET_CONDVAR`. The network stack (smoltcp and
  the driver) changes socket states and notifies the condvar.
- **APFS.** `parse_as_object_map` inserts the records of an on-disk node into a
  `BTreeMap<ObjectMapKey, _>`. Inode maps are `BTreeMap<JInodeKey, _>` ordered
  by `JKey::cmp`.

## Modules

| Module | Models | State | Actions |
|---|---|---|---|
| `ThreadCore` | `thread.rs` | `threadTable`, `tableWriter` (the RwLock writer); per thread: `tid`, `hasCtx` (context present), `task`, `exited`, `shouldYield`; the FIFO `queue`; the processes (`pid`, `parentProc`, `threadsOf`, `childrenOf`, `procLock`); per CPU: `pc`, `run`, `cand` (id being probed or registered), `child` | `Poll` (spec-modelled executor), `Take`, `Dispatch`, `Signal`, `Restore`; fork in six steps (`ForkLock`, `ForkFind`, `ForkProc`, `ForkRegister`, `ForkLink`, `ForkReturn`); `DebugThreading`, `RegisterLock`, `RegisterInsert`, `DebugSpawn` |
| `ThreadCoreProofs` | proofs about `ThreadCore` | none | none |
| `ThreadCtxProofs` | the context-ownership proof about `ThreadCore` | none | none |
| `ThreadTreeProofs` | the process-tree proof about `ThreadCore` | none | none |
| `ThreadIdProofs` | the uniprocessor id proofs about `ThreadCore` | none | none |
| `UnwindTrace` | what `unwind(depth)` promises its caller (abstract) | `trace` (entries printed), `returned` | `PrintFrame`, `Return` |
| `UnwindProofs` | proofs about `Unwind` | none | none |
| `TcpSocketProofs` | proofs about `TcpSocket` | none | none |
| `ApfsOmapProofs` | the parse proof about `ApfsOmap` | none | none |
| `Unwind` | `Frame::unwind` | `mem`, `bp`, `ip`, `prevIp`, `curDepth`, `printed`, `reads` | `Start` (first check and `ra()`), `Walk` (one loop turn; `PrintStep` is its print) |
| `TcpSocket` | `net.rs`, `tcp.rs` | the descriptor table; per `TcpStream`: state, address, socket handle; per smoltcp socket: closed / listen / active and its port; the process lock; per thread: `idle` / `accept_loop` / `accept_wait` | `SysSocket`, `SysBind` (`TcpBind`), `SysListen` (`TcpListen`), `SysConnect` (`TcpConnect`), `SysTcpIo` (the `todo!()` calls), `SysAccept`, `AcceptLoop`; the network: `NetConnect`, `NetReset` |
| `ApfsOmap` | `meta.rs` | see below | `ParseInsert`, `InodeInsert`, `Lookup` |

Notes on `ThreadCore`:
- It uses 2 CPUs in the SMP runs.
- A `Thread` (an `Arc`) is a handle number.
- A process is named by the handle of the thread it was created with.
- Fork is split into six steps because the table lock and the process locks are
  released between them: other CPUs can interleave there.
- The model has a step wherever the code takes or drops a lock. Between those
  points the code is one atomic step.
- Panics are not steps: `ContextExclusive` states that `take` never reaches its
  `unwrap` on `None`.

Notes on `Unwind`:
- Memory is words `0..MaxAddr`.
- Every memory content and every starting rbp is an initial state.

Notes on `TcpSocket`:
- The network actions stand for smoltcp and the driver.
- `NetReset` is an RST or a timeout on an active socket, following smoltcp:
  - a socket that came from `listen` and is still in SYN-RECEIVED goes back to
    listening;
  - an ESTABLISHED one closes, and so does one started by `connect`.

  An incoming connection reaches ESTABLISHED before `accept` runs, so a
  listener's socket may close under a Listening stream. Nothing listens on it
  again, and `accept` then waits on `SOCKET_CONDVAR` forever (a `liveness`
  hazard in `PROJECT.json`; no run states it).
- An error return changes nothing, so it is a stutter step.
- A panic sets `panicked`, which stops every action.

Notes on `ApfsOmap`:
- A `BTreeMap` of at most 11 entries is a single leaf. `alloc` searches such a
  leaf linearly with the key's `cmp`: `Search` / `BTreeInsert` / `BTreeGet`.
- `OBJ_TYPE_SHIFT` is scaled to `IdBits`.

`MCThreadCore`, `MCTcpSocket` and `MCUnwind` give the constants their values.
They also define symmetry over the CPUs and threads: no action or property
names a particular CPU or thread.

## Runs

Passing runs:
- `smp`: TypeOK, ContextExclusive, ChildLinked.
  - Instance: 2 CPUs, 4 threads, ids 1..3 plus the debug ids.
  - ContextExclusive: a spawned thread's context is absent exactly while one
    CPU holds it, or after an unhandled trap. No two CPUs poll the same thread.
    `take` never finds it absent.
  - ChildLinked: a forked process is in its parent's children whenever the
    parent is unlocked.
- `up`: IdsUnique.
  - Instance: 1 CPU.
  - Every registered thread is still the table entry for its id.
- `calls`: ListenerOnAddr, HandlesDistinct, PendingKept.
  - Instance: 2 threads, 3 descriptors, 3 streams, 4 socket handles, 2
    connections, ports {1, 2}.
  - A Listening stream's socket is bound to the stream's port. Whether the
    socket still listens is not claimed, since the network may close it.
  - No two streams share a socket handle.
  - PendingKept (an action property): an active socket, one holding an arrived
    connection, stays active unless the network resets it. Connect, bind, then
    listen reaches smoltcp's `listen` on such a socket; only its refusal keeps
    the connection.
- `walk`: DepthBound, ReadsNearStack, TraceRefined.
  - Instance: addresses 0..4, stack 1..3, text 2..4, depth 2, every memory.
  - At most `depth` frames are printed.
  - No read goes more than one word past the stack.
  - `Unwind` implements `UnwindTrace` under the mapping `trace <- printed`,
    `returned <- (pc = "done")`, `Code <- TextLo..TextHi`. Every printed
    entry is a code address different from the one printed before it, fewer
    than `depth` are printed, and nothing is printed after the return.
- `omap`: OmapKeepsVersions.
  - Instance: every sorted node of up to 3 keys over 2 oids × 3 xids.
  - Parsing keeps one entry per record.

Violation runs, each a finding in `PROJECT.json`:
- `race` (IdsUnique, 2 CPUs): concurrent forks get the same id.
- `autoid` (RegisterReturns): `register` with id 0 deadlocks on its own lock.
- `rebind` (AcceptServed): accept on a bound but not Listening socket never
  returns and keeps the process lock.
- `overread` (ReadsChecked): the unwinder reads bp + 1 unchecked.
- `selfref` (Terminates): a self-referential frame makes the unwinder spin.
- `lookup` (OmapLookupLatest): a lookup with a newer xid misses the record.
- `inodes` (InodesKept): distinct inodes compare Equal.

### Why the bounds are enough

Each bound lets the interesting case happen:
- two CPUs both inside fork, with another fork's child registered;
- a thread yielding and being re-polled by the other CPU;
- a listener accepting once, with a second connection arriving;
- a chain of frames both within the stack and leaving it;
- two versions of one object.

`PROJECT.json` has one mutant per property of a passing run. Each mutant is a
plausible slip in the mapped code, and it makes TLC report the property
violated:
- `ForkFindOffByOne`;
- `ForkProcUnlocked`;
- `RestoreAfterExitCheck`;
- `DebugThreadingSwappedIds`;
- `TcpBindKeepsState`;
- `AcceptLoopNoReplace`;
- `WalkDepthOffByOne`;
- `WalkNoStackCheck`;
- `PrintStepNoDedup` (the `prev_ip != ip` test dropped: a repeated address is
  printed, which `UnwindTrace` forbids);
- `OmapKeyCmpIgnoresXid`.

## Fairness

- **ThreadCore.** `FairSpec` gives each CPU weak fairness on its own steps. An
  executor keeps running the future it polls, and spin locks are retried. The
  debug bootstrap is not fair: it is a call that may never happen.
- **TcpSocket.** `FairSpec` gives weak fairness only to `AcceptLoop`, because a
  woken accept is scheduled again. The network gets no fairness: peers need not
  connect.
- **Unwind.** Weak fairness on the whole loop: it is straight-line code on one
  CPU.

## Proofs

`ThreadCoreProofs` proves `THEOREM TypeCorrect == Spec => []TypeOK` for every
value of the constants. It uses only the ASSUMEs of `ThreadCore`:
- `CPUsAssumption`;
- `BoundsAssumption`;
- `DebugIdsAssumption`;
- `RegisterIdsAssumption`;
- `DebugCallsAssumption`.

`TypeOK` is inductive by itself:
- `InitTypeInv` proves that it holds initially;
- `NextTypeInv` has one step per action, with each primed variable typed in a
  leaf of its own, and each disjunct of `Dispatch`, `Restore` and
  `DebugThreading` a case of its own;
- the theorem combines the two by PTL.

`UnwindProofs` proves `DepthBounded` (`Spec => []DepthBound`) and
`ReadsBounded` (`Spec => []ReadsNearStack`) for every stack range, guard range
and depth, from `RangesAssumption`. The proof rests on the following.
- **Why `DepthBound` needs strengthening.** It is not inductive on its own: a
  state with more prints than `cur_depth` could take one more step.
- **The inductive invariant `IInv`.** It adds `Len(printed) = curDepth` and
  `curDepth <= Depth`, together with `TypeOK` and `ReadsNearStack`.
- **How `IInv` is preserved.**
  - Lemma `PrintStepIInv`: under the loop guard `cur_depth != depth`, a print
    keeps both new conjuncts.
  - Lemma `StackWordsInMemory`: `StackHi < MaxAddr` keeps the load at `bp + 1`
    inside memory.

`TcpSocketProofs` proves `HandlesNeverShared` (`Spec => []HandlesDistinct`)
for every number of threads, descriptors, streams, handles and connections,
from `BoundsAssumption`. The proof rests on the following.
- **Why `HandlesDistinct` needs strengthening.** `AcceptLoop` gives the
  listener the fresh handle `nhandles + 1` and the new stream the listener's
  old one. That keeps handles distinct only if every issued handle is at most
  `nhandles`, and only if the listener named by the descriptor is a created
  stream.
- **The inductive invariant `IInv`.** It adds to `TypeOK` and
  `HandlesDistinct`:
  - `HandlesIssued`: every created stream's handle lies in `1..nhandles`;
  - `FdsNameStreams`: every TCP descriptor, and the descriptor of every thread
    inside accept, names a created stream.
- **How `IInv` is preserved.** `NextIInv` has one step per action.
  - Lemma `HandlesKept` covers every action that leaves the descriptor table,
    the streams' handles and the counters alone.
  - The accepting case of `AcceptLoop` is split by which stream each of the two
    compared streams is: the listener, the new stream, or another.

`TcpSocketProofs` also proves `ListenersOnAddr`
(`Spec => []ListenerOnAddr`). Its inductive invariant `LInv` adds to `IInv`:
- `ListenAddr`: a Listening stream has an address;
- `UncreatedNotListening`: a slot not yet created is not Listening.

Without them, `SysListen` on a stream without an address, or `SysSocket`
reusing a slot, would break the invariant. `NextLInv` has one step per action.
Lemma `ListenKept` covers the actions that touch neither the streams nor the
ports of the smoltcp sockets, the network's among them.

`UnwindProofs` proves `UnwindRefinesTrace` (`Spec => TraceRefined`), which is
the refinement that the `walk` run checks:
- `Init` maps to `UnwindTrace!Init`.
- Lemma `StepRefines`: every step maps to a `PrintFrame`, a `Return` or a
  stutter. A `Walk` whose `prev_ip != ip` test passes prints (`PrintIsFrame`).
  The last turn of the loop is a `PrintFrame` that also returns.
- The invariant `LastPrinted` (`prevIp` is the last printed entry) is what lets
  the `prev_ip` test stand for the abstract "different from the last entry".
  `IInv` bounds the count.

`ThreadCtxProofs` proves `ContextsExclusive` (`Spec => []ContextExclusive`)
for every number of CPUs, threads and ids. `ContextExclusive` is not inductive
as it stands:
- a `Poll` must find a context in the thread at the head of the queue;
- a spawn must queue a thread that is in no queue and on no CPU.

The strengthening `CtxInv` ties each future's state to where it is:
- a ready future is in the queue once;
- a running one is on exactly one CPU, at one of the loop's counters;
- ready and ended futures have a stored context, defunct ones do not;
- a CPU past `take` holds the context;
- a thread under construction is owned by one CPU, not yet spawned, and
  registered with its context from `fork_link` on.

`NextCtx` has one case per action, resting on one lemma for each kind of step:
- `CtxLocalSteps`: the steps that stay within their kind of counter;
- `CtxPoll`, `CtxTake`;
- `CtxRelease`: an unhandled trap, an exit or a yield;
- `CtxRestoreLoop`;
- `CtxCreate`: fork and `from_raw`;
- `CtxForkRegister`;
- `CtxSpawn`: `fork` and `from_raw`.

`CtxExclusive` derives the property from `CtxInv`.

`ThreadTreeProofs` proves `ChildrenLinked` (`Spec => []ChildLinked`) from
`TypeInv`, `CtxInv` and a third invariant, `TreeInv`. `ChildLinked` alone is
not inductive: between `ForkProc` and `ForkReturn` the child has a parent but
is in no children list. That is harmless only because the forking CPU holds
the parent's lock all that time. `TreeInv` says so:
- `ParentFresh`: handles not yet created have no parent;
- `LockHeld` and `LockOwned`: a process lock is held exactly by the CPU that
  is inside fork on that process;
- `BuildRecorded`: a built child records that process as parent and the id
  that was found as its pid;
- `LinkedOrBuilding`: every process with a parent is linked, or is still being
  built.

`NextTree` handles the following steps with their own lemmas:
- `ForkLock` (`TreeForkLock`);
- `ForkProc` (`TreeForkProc`);
- `ForkReturn` (`TreeForkReturn`);
- `from_raw`'s new thread (`TreeDebugCreate`).

Every other step moves one CPU within its side of the fork counters, which
`TreeLocal` covers.

`ThreadIdProofs` proves `UniprocessorIdsUnique` (`Spec => []IdsUnique`). It is
proved under two hypotheses on the constants:
- `OneCpu`: every CPU is the same CPU;
- `DebugCalls <= 1`.

Neither can be dropped:
- on two CPUs the `race` run finds two forks with the same id;
- with two `debug_threading` calls, TLC finds `IdsUnique` violated on one CPU
  in a few steps, because `from_raw` always registers `DEBUG_THREAD_ID`.

`debug_threading` has no caller under `src/`, so the bound is a condition on
its callers, not a fact of the code.

`IdsUnique` is not inductive: an insert keeps it only if no live thread holds
the inserted id. The strengthening `IdInv` adds:
- `TidFresh`: handles not yet created have no id;
- `FoundFree`: the id fork found free is still free until fork inserts it.
  This is the conjunct that needs one CPU: nothing runs between the probe and
  the insert;
- `RegCand` and `DebugDone`: `register` inserts `DEBUG_THREAD_ID`, after
  `from_raw` has used up its calls;
- `DebugFree`: `DEBUG_THREAD_ID` is free until then.

`NextId` proves `IdInv` preserved, on top of `TypeInv` and `CtxInv` (for
`ChildFresh`). It has one lemma per step that holds or writes an id:
- `InsertId`, the shared insert step, used by `IdForkRegister` and
  `IdRegisterInsert`;
- `IdForkFind`, `IdForkProc` (with `NewHandleId`), `IdRegisterLock` and
  `IdDebugThreading`.

Every other step is covered by `QuietMove`.

`TcpSocketProofs` also proves `ConnectionsKept` (`Spec => PendingKept`). It
adds one invariant to `IInv`, `FreshClosed`: a handle `SOCKET_SET` has not
issued is closed. `NextSock` goes through the steps:
- `listen` and `connect` change only an issued socket that is closed or
  listening;
- the network connects a listening socket;
- accept's new listener socket is the first fresh handle, which is closed;
- only `NetReset` takes a socket out of `active`.

`ApfsOmapProofs` proves `ParseKeepsVersions` (`Spec => []OmapKeepsVersions`)
for all oid and xid sets and every node the single-leaf model admits. The
argument follows the insert loop:
- `SortedNodeSeq`: the node's keys arrive in on-disk order;
- `AfterIsGreater`: `ObjectMapKey::cmp` calls a later key `Greater` than an
  earlier one. Equal oids with a larger xid are `Greater`, not `Equal`;
- `InsertAfterAll`: the leaf search then finds no stop, and `BTreeInsert`
  appends the new record.

The invariant `OmapInv` says:
- the map is the list of records parsed so far (`OmapPrefix`);
- the next key is after every parsed key (`NodeAhead`);
- parsing stops only after the last key (`ParsedAll`).

`NodeAhead` is the strengthening. It carries transitivity (`KeyBeforeTrans`)
from one insert to the next, so no induction over the node is needed. The
order is not antisymmetric (the `ordering` hazard), so the result depends on
the node being sorted. TLC's `omap` mutant, a compare that ignores the xid,
breaks it.

Left to TLC:
- **Liveness** (`RegisterReturns`, `AcceptServed`, `Terminates`): TLAPS does
  not handle ENABLED and fairness here.
- **What the recursive and higher-order search operators compute:** they are
  checked only for bounded inputs.

## Not modelled

- **Frame capture** (inline assembly) and `devfs/zero.rs` (stateless).
- **`sleep`**: a one-thread countdown loop. Its tick arithmetic rounds every
  duration below 10 s to 0 ticks (a hazard in `PROJECT.json`, read off the
  code).
- **The success path of accept**: it panics in `peer_addr`'s `todo!()`. The
  model records the panic and stops.
- **Not under `src/`:** the trap dispatcher, `handle_signal`, the address-space
  clone and the executor. The first three are nondeterministic choices. The
  executor is modelled from the spec as a FIFO queue.
- **UDP** beyond descriptor allocation.
- **The byte-level APFS decoders** (`interpret_as_*`) and superblock parsing.
  They are layout decoding, better served by fuzzing.
