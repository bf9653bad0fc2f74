------------------------------- MODULE Unwind -------------------------------
(***************************************************************************)
(* Frame::unwind of src/kernel/src/debug.rs: the walk along the chain of   *)
(* saved frame pointers. Memory is word-addressed: the word at bp is the   *)
(* caller's saved rbp, the word at bp + 1 (8(rbp)) its return address.     *)
(* check_within_stack is the range StackLo .. StackHi, the guard range     *)
(* __guard_bottom .. __guard_top is TextLo .. TextHi. Every memory in      *)
(* [Addrs -> Addrs] and every starting rbp is an initial state: the walk   *)
(* runs on a corrupted stack as well as on a sound one. Logging is left    *)
(* out but for the frames it prints.                                       *)
(***************************************************************************)
EXTENDS Naturals, Sequences

CONSTANTS
  MaxAddr,           \* addresses are 0 .. MaxAddr
  StackLo, StackHi,  \* the addresses check_within_stack accepts
  TextLo, TextHi,    \* __guard_bottom and __guard_top
  Depth              \* the depth argument (UNWIND_DEPTH)

ASSUME RangesAssumption ==
  /\ MaxAddr \in Nat
  /\ {StackLo, StackHi, TextLo, TextHi} \subseteq 0 .. MaxAddr
  /\ StackHi < MaxAddr
  /\ Depth \in Nat

Addrs == 0 .. MaxAddr

(* check_within_stack(bp), and the ip range test of the loop condition.   *)
WithinStack(a) == a \in StackLo .. StackHi
InText(a) == a \in TextLo .. TextHi

VARIABLES
  mem,       \* the words of memory (never written)
  bp,        \* the local bp
  ip,        \* the local ip
  prevIp,    \* prev_ip
  curDepth,  \* cur_depth
  printed,   \* the ips of the frames printed so far
  reads,     \* the addresses the walk has dereferenced
  pc         \* start, walk or done

vars == <<mem, bp, ip, prevIp, curDepth, printed, reads, pc>>

TypeOK ==
  /\ mem \in [Addrs -> Addrs]
  /\ bp \in Addrs
  /\ ip \in Addrs
  /\ prevIp \in Addrs
  /\ curDepth \in Nat
  /\ printed \in Seq(Addrs)
  /\ reads \in SUBSET (0 .. MaxAddr + 1)
  /\ pc \in {"start", "walk", "done"}

(* Frame::new: the captured rbp is any address; prev_ip starts at 0.      *)
Init ==
  /\ mem \in [Addrs -> Addrs]
  /\ bp \in Addrs
  /\ ip = 0
  /\ prevIp = 0
  /\ curDepth = 0
  /\ printed = <<>>
  /\ reads = {}
  /\ pc = "start"

(* The first check: an rbp outside the stack ends the walk ("No stack     *)
(* trace available"); otherwise ip = self.ra() reads 8(rbp).              *)
Start ==
  /\ pc = "start"
  /\ \/ /\ ~WithinStack(bp)
        /\ pc' = "done"
        /\ UNCHANGED <<ip, reads>>
     \/ /\ WithinStack(bp)
        /\ ip' = mem[bp + 1]
        /\ reads' = reads \cup {bp + 1}
        /\ pc' = "walk"
  /\ UNCHANGED <<mem, bp, prevIp, curDepth, printed>>

(* A plausible slip in the loop body: the `if prev_ip != ip` test left    *)
(* out, every turn printed and counted.                                    *)
PrintStepNoDedup ==
  /\ printed' = Append(printed, ip)
  /\ prevIp' = ip
  /\ curDepth' = curDepth + 1

(* The print of one turn of the loop: only when ip changed. The log line *)
(* shows ip - 8, the call site; the model records the ip itself.          *)
PrintStep ==
  IF prevIp # ip
  THEN /\ printed' = Append(printed, ip)
       /\ prevIp' = ip
       /\ curDepth' = curDepth + 1
  ELSE UNCHANGED <<printed, prevIp, curDepth>>

(* A plausible slip in the loop condition: cur_depth <= depth.            *)
WalkDepthOffByOne ==
  /\ pc = "walk"
  /\ \/ /\ ~(curDepth <= Depth /\ InText(ip))
        /\ pc' = "done"
        /\ UNCHANGED <<bp, ip, prevIp, curDepth, printed, reads>>
     \/ /\ curDepth <= Depth /\ InText(ip)
        /\ PrintStep
        /\ \/ /\ ~WithinStack(bp)
              /\ pc' = "done"
              /\ UNCHANGED <<bp, ip, reads>>
           \/ /\ WithinStack(bp)
              /\ ip' = mem[bp + 1]
              /\ bp' = mem[bp]
              /\ reads' = reads \cup {bp, bp + 1}
              /\ UNCHANGED pc
  /\ UNCHANGED mem

(* A plausible slip in the loop body: the check_within_stack(bp) break  *)
(* left out, the loop condition trusted to stop the walk.                 *)
WalkNoStackCheck ==
  /\ pc = "walk"
  /\ \/ /\ ~(curDepth # Depth /\ InText(ip))
        /\ pc' = "done"
        /\ UNCHANGED <<bp, ip, prevIp, curDepth, printed, reads>>
     \/ /\ curDepth # Depth /\ InText(ip)
        /\ PrintStep
        /\ ip' = IF bp < MaxAddr THEN mem[bp + 1] ELSE 0
        /\ bp' = mem[bp]
        /\ reads' = reads \cup {bp, bp + 1}
        /\ UNCHANGED pc
  /\ UNCHANGED mem

(* One turn of `while cur_depth != depth && ip in guard range`: print if  *)
(* the ip is new, break if bp left the stack, else load the return        *)
(* address at bp + 1 and the saved rbp at bp.                              *)
Walk ==
  /\ pc = "walk"
  /\ \/ /\ ~(curDepth # Depth /\ InText(ip))
        /\ pc' = "done"
        /\ UNCHANGED <<bp, ip, prevIp, curDepth, printed, reads>>
     \/ /\ curDepth # Depth /\ InText(ip)
        /\ PrintStep
        /\ \/ /\ ~WithinStack(bp)
              /\ pc' = "done"
              /\ UNCHANGED <<bp, ip, reads>>
           \/ /\ WithinStack(bp)
              /\ ip' = mem[bp + 1]
              /\ bp' = mem[bp]
              /\ reads' = reads \cup {bp, bp + 1}
              /\ UNCHANGED pc
  /\ UNCHANGED mem

Next == Start \/ Walk

Spec == Init /\ [][Next]_vars

(* unwind is a plain loop on one CPU: it keeps running.                   *)
FairSpec == Spec /\ WF_vars(Next)

---------------------------------------------------------------------------
(* unwind never prints more than depth frames, whatever the stack holds.  *)
DepthBound == Len(printed) <= Depth

(* No load falls more than a word outside the stack: check_within_stack  *)
(* runs on each bp before the words at bp and bp + 1 are loaded, so only  *)
(* the return-address word of the topmost stack word can lie beyond it.   *)
ReadsNearStack == \A a \in reads : WithinStack(a) \/ WithinStack(a - 1)

(* Every address unwind dereferences has passed the range check first    *)
(* (the spec's edge cases: "every pointer dereference is range-checked").*)
ReadsChecked == \A a \in reads : WithinStack(a)

(* Frame::unwind keeps the contract of unwind(depth) (UnwindTrace): read *)
(* as the trace of printed frames and "returned" once pc is done, every    *)
(* step of the walk prints one code address that differs from the one     *)
(* printed before it, while fewer than depth are printed, or returns, or   *)
(* prints nothing; after the return nothing is printed.                    *)
Trace == INSTANCE UnwindTrace
           WITH trace <- printed, returned <- (pc = "done"), Code <- TextLo .. TextHi

TraceRefined == Trace!Spec

(* unwind returns, even on a base pointer that points back to itself.     *)
Terminates == <>(pc = "done")

=============================================================================
