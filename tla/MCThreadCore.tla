---------------------------- MODULE MCThreadCore ----------------------------
(* Model-checking instance of ThreadCore: CPUs are model values.          *)
EXTENDS ThreadCore, TLC

CONSTANTS c1, c2

MCCPUs2 == {c1, c2}
MCCPUs1 == {c1}
MCDebugTid == 9
MCDebugPid == 8
MCAutoId == {0}
MCDebugId == {MCDebugTid}

(* CPUs are interchangeable: the code never compares CPU ids. *)
CpuSymmetry == Permutations(CPUs)
=============================================================================
