---------------------------- MODULE VirtualMemory ----------------------------
(***************************************************************************)
(* What an address space promises the code that maps and unmaps pages,     *)
(* with no page tables: a request changes the translation of its own page  *)
(* only, and a page that is mapped keeps its frame until it is unmapped.   *)
(***************************************************************************)
EXTENDS Integers

CONSTANTS Vaddrs, Paddrs, MaxNum, NONE

VARIABLES
    vm,                 \* the frame of each virtual page, or NONE
    op                  \* the pages that the request has left, or NONE

vars == <<vm, op>>

Init == vm = [v \in Vaddrs |-> NONE] /\ op = NONE

Request ==
    /\ op = NONE
    /\ \E v \in Vaddrs, num \in 1 .. MaxNum :
          \/ op' = [fn |-> "unmap", vaddr |-> v, paddr |-> NONE, num |-> num]
          \/ \E p \in Paddrs : op' = [fn |-> "map", vaddr |-> v, paddr |-> p, num |-> num]
    /\ UNCHANGED vm

\* The first of the pages is dealt with.
Map ==
    /\ op # NONE /\ op.fn = "map"
    /\ vm' = IF vm[op.vaddr] = NONE THEN [vm EXCEPT ![op.vaddr] = op.paddr] ELSE vm
    /\ op' = IF op.num = 1 THEN NONE
             ELSE [op EXCEPT !.vaddr = @ + 1, !.paddr = @ + 1, !.num = @ - 1]

Unmap ==
    /\ op # NONE /\ op.fn = "unmap"
    /\ vm' = [vm EXCEPT ![op.vaddr] = NONE]
    /\ op' = IF op.num = 1 THEN NONE ELSE [op EXCEPT !.vaddr = @ + 1, !.num = @ - 1]

Next == Request \/ Map \/ Unmap

Spec == Init /\ [][Next]_vars
==============================================================================
