----------------------------- MODULE UnwindTrace -----------------------------
(***************************************************************************)
(* What Frame::unwind promises its caller (the contract of unwind(depth)): *)
(* it prints a trace of at most Depth entries, each an address of code,    *)
(* none equal to the entry printed just before it, and then returns; once *)
(* it has returned it prints nothing more. Which addresses are printed is  *)
(* left open: that depends on the stack it walks.                          *)
(***************************************************************************)
EXTENDS Naturals, Sequences

CONSTANTS
  Depth,   \* the depth argument
  Code     \* the addresses that count as code (the guard range)

VARIABLES
  trace,     \* the entries printed so far
  returned   \* unwind has returned

vars == <<trace, returned>>

Init ==
  /\ trace = <<>>
  /\ returned = FALSE

(* An entry is printed; it may be the walk's last act.                    *)
PrintFrame ==
  /\ ~returned
  /\ Len(trace) < Depth
  /\ \E a \in Code :
       /\ trace # <<>> => a # trace[Len(trace)]
       /\ trace' = Append(trace, a)
  /\ returned' \in BOOLEAN

(* unwind returns without printing.                                       *)
Return ==
  /\ ~returned
  /\ returned' = TRUE
  /\ UNCHANGED trace

Next == PrintFrame \/ Return

Spec == Init /\ [][Next]_vars

=============================================================================
