--------------------------------- MODULE Smp ---------------------------------
(***************************************************************************)
(* The other processors, src/kernel/cpu/smp.c: smp_init gives each of them *)
(* a stack and an address to go to, which it polls in the bootloader's     *)
(* code.  Interrupts composes this with the boot processor.                *)
(***************************************************************************)
EXTENDS Ioapic, Sequences

CONSTANTS
    Procs,              \* lapic_id's in the order of smp_info
    StackPages,         \* pages of PMM_ZONE_NORMAL, some of which are free
    NoPage

ASSUME SmpAssumption ==
    /\ Procs \in Seq(Lapics) /\ StackPages \subseteq Nat /\ NoPage \notin Nat
    /\ \A j, k \in DOMAIN Procs : Procs[j] = Procs[k] => j = k

APs == { Procs[j] : j \in DOMAIN Procs } \ {BSP}

VARIABLES
    n,                  \* the processors that smp_init has dealt with
    pages,              \* the pages that pmm_alloc can return
    target_stack,       \* by processor: a page, or NoPage
    goto_address,       \* the processors that have been told where to go
    ap                  \* by processor: "parked", or where it is in smp_ap_entry

smpVars == <<n, pages, target_stack, goto_address, ap>>

SmpInit ==
    /\ n = 0 /\ pages \in SUBSET StackPages
    /\ target_stack = [p \in APs |-> NoPage] /\ goto_address = {}
    /\ ap = [p \in APs |-> "parked"]

proc == Procs[n + 1]

smp_skip_bsp ==
    /\ n < Len(Procs) /\ proc = BSP
    /\ n' = n + 1
    /\ UNCHANGED <<pages, target_stack, goto_address, ap>>

\* pmm_alloc returns a page, or panics if there is none.  Its base is what the
\* stack pointer starts at, so what is pushed lies in the page below it.
smp_set_stack ==
    /\ n < Len(Procs) /\ proc # BSP
    /\ \E page \in pages :
          /\ target_stack' = [target_stack EXCEPT ![proc] = page]
          /\ pages' = pages \ {page}
    /\ UNCHANGED <<n, goto_address, ap>>

smp_no_page == n < Len(Procs) /\ proc # BSP /\ pages = {} /\ UNCHANGED smpVars

smp_goto ==
    /\ goto_address' = goto_address \cup {proc}
    /\ n' = n + 1
    /\ UNCHANGED <<pages, target_stack, ap>>

\* A processor sees its goto_address, loads its stack and jumps.
Enter(p) ==
    /\ ap[p] = "parked" /\ p \in goto_address
    /\ ap' = [ap EXCEPT ![p] = "enabling"]
    /\ UNCHANGED <<n, pages, target_stack, goto_address>>

\* The two messages of smp_ap_entry; then it halts for ever.
smp_ap_entry(p) ==
    /\ \/ ap[p] = "enabling" /\ ap' = [ap EXCEPT ![p] = "welcome"]
       \/ ap[p] = "welcome" /\ ap' = [ap EXCEPT ![p] = "hlt"]
    /\ UNCHANGED <<n, pages, target_stack, goto_address>>
==============================================================================
