---------------------------- MODULE UnwindProofs ----------------------------
(***************************************************************************)
(* Proofs about Frame::unwind (Unwind): for every stack range, guard range *)
(* and depth, the walk prints at most depth frames and loads no word more  *)
(* than one past the stack.                                                *)
(***************************************************************************)
EXTENDS Unwind, TLAPS

(* The printed frames are counted by cur_depth, which the loop guard keeps *)
(* at most depth: DepthBound is not inductive alone, since a step from a   *)
(* state with more prints than cur_depth could add one more.               *)
IInv ==
  /\ TypeOK
  /\ curDepth <= Depth
  /\ Len(printed) = curDepth
  /\ ReadsNearStack

(* A word within the stack has its return-address word in memory too.     *)
LEMMA StackWordsInMemory ==
  ASSUME NEW a \in Addrs, WithinStack(a)
  PROVE  a + 1 \in Addrs
BY RangesAssumption DEF WithinStack, Addrs

LEMMA InitIInv == Init => IInv
<1> SUFFICES ASSUME Init PROVE IInv
  OBVIOUS
<1>1. TypeOK
  <2>1. 0 \in Addrs
    BY RangesAssumption DEF Addrs
  <2>2. <<>> \in Seq(Addrs)
    OBVIOUS
  <2>3. QED
    BY <2>1, <2>2 DEF Init, TypeOK
<1>2. curDepth <= Depth /\ Len(printed) = curDepth
  BY RangesAssumption DEF Init
<1>3. ReadsNearStack
  BY DEF Init, ReadsNearStack
<1>4. QED
  BY <1>1, <1>2, <1>3 DEF IInv

(* PrintStep keeps the count of prints equal to cur_depth and, under the  *)
(* loop guard cur_depth # depth, at most depth.                           *)
LEMMA PrintStepIInv ==
  ASSUME IInv, curDepth # Depth, PrintStep
  PROVE  /\ printed' \in Seq(Addrs)
         /\ prevIp' \in Addrs
         /\ curDepth' \in Nat
         /\ curDepth' <= Depth
         /\ Len(printed') = curDepth'
<1>1. CASE prevIp # ip
  <2>1. printed' = Append(printed, ip) /\ prevIp' = ip /\ curDepth' = curDepth + 1
    BY <1>1 DEF PrintStep
  <2>2. /\ ip \in Addrs /\ printed \in Seq(Addrs) /\ curDepth \in Nat
        /\ curDepth <= Depth /\ Len(printed) = curDepth
    BY DEF IInv, TypeOK
  <2>3. Depth \in Nat
    BY RangesAssumption
  <2>4. QED
    BY <2>1, <2>2, <2>3
<1>2. CASE prevIp = ip
  BY <1>2 DEF PrintStep, IInv, TypeOK
<1>3. QED
  BY <1>1, <1>2

LEMMA NextIInv == IInv /\ [Next]_vars => IInv'
<1> SUFFICES ASSUME IInv, [Next]_vars PROVE IInv'
  OBVIOUS
<1>1. CASE Start
  <2>1. CASE ~WithinStack(bp) /\ pc' = "done" /\ UNCHANGED <<ip, reads>>
    BY <1>1, <2>1 DEF Start, IInv, TypeOK, ReadsNearStack
  <2>2. CASE WithinStack(bp) /\ ip' = mem[bp + 1] /\ reads' = reads \cup {bp + 1}
             /\ pc' = "walk"
    <3>1. bp + 1 \in Addrs
      BY <2>2, StackWordsInMemory DEF IInv, TypeOK
    <3>2. bp + 1 \in 0 .. MaxAddr + 1
      BY <3>1, RangesAssumption DEF Addrs
    <3>3. WithinStack((bp + 1) - 1)
      BY <2>2, RangesAssumption DEF IInv, TypeOK, Addrs
    <3>4. TypeOK'
      BY <1>1, <2>2, <3>1, <3>2 DEF Start, IInv, TypeOK
    <3>5. ReadsNearStack'
      BY <1>1, <2>2, <3>3 DEF Start, IInv, ReadsNearStack
    <3>6. QED
      BY <1>1, <3>4, <3>5 DEF Start, IInv
  <2>3. QED
    BY <1>1, <2>1, <2>2 DEF Start
<1>2. CASE Walk
  <2>1. CASE ~(curDepth # Depth /\ InText(ip)) /\ pc' = "done"
             /\ UNCHANGED <<bp, ip, prevIp, curDepth, printed, reads>>
    BY <1>2, <2>1 DEF Walk, IInv, TypeOK, ReadsNearStack
  <2>2. CASE curDepth # Depth /\ InText(ip) /\ PrintStep
             /\ ~WithinStack(bp) /\ pc' = "done" /\ UNCHANGED <<bp, ip, reads>>
    <3>1. /\ printed' \in Seq(Addrs) /\ prevIp' \in Addrs /\ curDepth' \in Nat
          /\ curDepth' <= Depth /\ Len(printed') = curDepth'
      BY <2>2, PrintStepIInv
    <3>2. QED
      BY <1>2, <2>2, <3>1 DEF Walk, IInv, TypeOK, ReadsNearStack
  <2>3. CASE curDepth # Depth /\ InText(ip) /\ PrintStep
             /\ WithinStack(bp) /\ ip' = mem[bp + 1] /\ bp' = mem[bp]
             /\ reads' = reads \cup {bp, bp + 1} /\ UNCHANGED pc
    <3>1. /\ printed' \in Seq(Addrs) /\ prevIp' \in Addrs /\ curDepth' \in Nat
          /\ curDepth' <= Depth /\ Len(printed') = curDepth'
      BY <2>3, PrintStepIInv
    <3>2. bp + 1 \in Addrs
      BY <2>3, StackWordsInMemory DEF IInv, TypeOK
    <3>3. /\ ip' \in Addrs /\ bp' \in Addrs
          /\ reads' \in SUBSET (0 .. MaxAddr + 1)
      <4>1. ip' \in Addrs /\ bp' \in Addrs
        BY <2>3, <3>2 DEF IInv, TypeOK
      <4>2. {bp, bp + 1} \subseteq 0 .. MaxAddr + 1
        BY <3>2, RangesAssumption DEF IInv, TypeOK, Addrs
      <4>3. QED
        BY <2>3, <4>1, <4>2 DEF IInv, TypeOK
    <3>4. WithinStack(bp) /\ WithinStack((bp + 1) - 1)
      <4>1. bp \in Nat
        BY RangesAssumption DEF IInv, TypeOK, Addrs
      <4>2. (bp + 1) - 1 = bp
        BY <4>1
      <4>3. QED
        BY <2>3, <4>2
    <3>5. ReadsNearStack'
      BY <2>3, <3>4 DEF IInv, ReadsNearStack
    <3>6. TypeOK'
      BY <1>2, <2>3, <3>1, <3>3 DEF Walk, IInv, TypeOK
    <3>7. QED
      BY <3>1, <3>5, <3>6 DEF IInv
  <2>4. QED
    BY <1>2, <2>1, <2>2, <2>3 DEF Walk
<1>3. CASE UNCHANGED vars
  BY <1>3 DEF vars, IInv, TypeOK, ReadsNearStack
<1>4. QED
  BY <1>1, <1>2, <1>3 DEF Next

(* Frame::unwind never prints more than depth frames and never loads a    *)
(* word more than one past the stack, for every memory and starting rbp.   *)
THEOREM UnwindSafe == Spec => [](DepthBound /\ ReadsNearStack)
<1>1. IInv => DepthBound /\ ReadsNearStack
  BY DEF IInv, DepthBound
<1>2. QED
  BY InitIInv, NextIInv, <1>1, PTL DEF Spec

(* unwind prints at most depth frames (UNWIND_DEPTH), whatever the stack.  *)
THEOREM DepthBounded == Spec => []DepthBound
BY UnwindSafe, PTL

(* Every word unwind loads lies in the stack or is the return-address word *)
(* just above its top: the check at debug.rs:125 guards both loads.        *)
THEOREM ReadsBounded == Spec => []ReadsNearStack
BY UnwindSafe, PTL

---------------------------------------------------------------------------
(* The refinement of UnwindTrace needs one more fact: prev_ip is the last *)
(* ip printed, so the `prev_ip != ip` test is a test against the trace.    *)
LastPrinted == printed # <<>> => prevIp = printed[Len(printed)]

LEMMA PrintStepLast ==
  ASSUME TypeOK, LastPrinted, PrintStep
  PROVE  LastPrinted'
<1>1. CASE prevIp # ip
  BY <1>1 DEF PrintStep, TypeOK, LastPrinted
<1>2. CASE prevIp = ip
  BY <1>2 DEF PrintStep, LastPrinted
<1>3. QED
  BY <1>1, <1>2

LEMMA NextLast == IInv /\ LastPrinted /\ [Next]_vars => LastPrinted'
<1> SUFFICES ASSUME IInv, LastPrinted, [Next]_vars PROVE LastPrinted'
  OBVIOUS
<1>1. CASE Start
  BY <1>1 DEF Start, LastPrinted
<1>2. CASE Walk
  <2>1. CASE UNCHANGED <<printed, prevIp>>
    BY <2>1 DEF LastPrinted
  <2>2. CASE PrintStep
    BY <2>2, PrintStepLast DEF IInv
  <2>3. QED
    BY <1>2, <2>1, <2>2 DEF Walk
<1>3. CASE UNCHANGED vars
  BY <1>3 DEF vars, LastPrinted
<1>4. QED
  BY <1>1, <1>2, <1>3 DEF Next

(* Under the loop guard, a print is a PrintFrame of the contract.          *)
LEMMA PrintIsFrame ==
  ASSUME IInv, LastPrinted, pc = "walk", curDepth # Depth, InText(ip), PrintStep,
         prevIp # ip
  PROVE  Trace!PrintFrame
<1>1. Len(printed) < Depth
  BY RangesAssumption DEF IInv, TypeOK
<1>2. ip \in TextLo .. TextHi
  BY DEF InText
<1>3. printed # <<>> => ip # printed[Len(printed)]
  BY DEF LastPrinted
<1>4. printed' = Append(printed, ip)
  BY DEF PrintStep
<1>5. ~(pc = "done") /\ (pc' = "done") \in BOOLEAN
  OBVIOUS
<1>6. QED
  BY <1>1, <1>2, <1>3, <1>4, <1>5 DEF Trace!PrintFrame

LEMMA StepRefines ==
  IInv /\ LastPrinted /\ [Next]_vars => [Trace!Next]_Trace!vars
<1> SUFFICES ASSUME IInv, LastPrinted, [Next]_vars
             PROVE  [Trace!Next]_Trace!vars
  OBVIOUS
<1>1. CASE Start
  <2>1. pc = "start" /\ UNCHANGED printed
    BY <1>1 DEF Start
  <2>2. CASE pc' = "done"
    BY <2>1, <2>2 DEF Trace!Next, Trace!Return
  <2>3. CASE pc' # "done"
    BY <2>1, <2>3 DEF Trace!vars
  <2>4. QED
    BY <2>2, <2>3
<1>2. CASE Walk
  <2>1. pc = "walk"
    BY <1>2 DEF Walk
  <2>2. CASE ~(curDepth # Depth /\ InText(ip)) /\ pc' = "done"
             /\ UNCHANGED <<bp, ip, prevIp, curDepth, printed, reads>>
    BY <2>1, <2>2 DEF Trace!Next, Trace!Return
  <2>3. CASE /\ curDepth # Depth /\ InText(ip) /\ PrintStep
             /\ \/ pc' = "done"
                \/ UNCHANGED pc
    <3>1. CASE prevIp # ip
      BY <2>1, <2>3, <3>1, PrintIsFrame DEF Trace!Next
    <3>2. CASE prevIp = ip
      <4>1. UNCHANGED printed
        BY <2>3, <3>2 DEF PrintStep
      <4>2. CASE pc' = "done"
        BY <2>1, <4>1, <4>2 DEF Trace!Next, Trace!Return
      <4>3. CASE UNCHANGED pc
        BY <4>1, <4>3 DEF Trace!vars
      <4>4. QED
        BY <2>3, <4>2, <4>3
    <3>3. QED
      BY <3>1, <3>2
  <2>4. QED
    BY <1>2, <2>2, <2>3 DEF Walk
<1>3. CASE UNCHANGED vars
  BY <1>3 DEF vars, Trace!vars
<1>4. QED
  BY <1>1, <1>2, <1>3 DEF Next

(* Frame::unwind implements the contract of unwind(depth) (UnwindTrace):  *)
(* for every stack, guard range and depth, it prints at most depth code   *)
(* addresses, none equal to the one before, and nothing after it returns. *)
THEOREM UnwindRefinesTrace == Spec => TraceRefined
<1>1. Init => IInv /\ LastPrinted
  BY InitIInv DEF Init, LastPrinted
<1>2. Init => Trace!Init
  BY DEF Init, Trace!Init
<1>3. Spec => [](IInv /\ LastPrinted)
  BY <1>1, NextIInv, NextLast, PTL DEF Spec
<1>4. QED
  BY <1>2, <1>3, StepRefines, PTL DEF Spec, TraceRefined, Trace!Spec

=============================================================================
