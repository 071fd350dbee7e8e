----------------------------- MODULE BootMemory ------------------------------
(***************************************************************************)
(* Memory from the bootloader's map to the running kernel: pmm_init, then  *)
(* paging_init (src/kernel/mm/paging.c), then kheap_init and the growth of *)
(* the heap (src/kernel/mm/kheap.c) beside other users of pmm_alloc.       *)
(*                                                                         *)
(* The frames come from Pmm.  The page tables are the tree of Paging: here *)
(* a table is the frame it lives in, found by its level and by the part of *)
(* the address above it, and pt is the translation they give.  Virtual and *)
(* physical pages are numbered; a step maps one page or creates one table. *)
(***************************************************************************)
EXTENDS PmmInit

CONSTANTS
    PML4, NIDX,         \* the top level, and the entries of a table
    VA_HHDM,            \* the page at which physical memory is mapped again
    VA_END,             \* the last byte of the address space
    PMRS,               \* the ranges of the kernel image (sequence), in bytes
    pbase, vbase,       \* the kernel's physical and virtual base, as pages
    KHEAP_INIT_PAGES,
    MaxGrowth,          \* bound: pages that kmalloc asks kheap_expand for
    NONE

LastPage == VA_END \div PAGE_SIZE
Vpages == 0 .. LastPage
Tags == {"kernel_base", "pmrs", "hhdm"}

ASSUME BootMemoryAssumption ==
    /\ PML4 \in Nat /\ NIDX \in Nat \ {0} /\ NIDX ^ (PML4 + 1) > LastPage
    /\ VA_HHDM + (mem_size \div PAGE_SIZE) \in Vpages
    /\ \A k \in DOMAIN PMRS : PMRS[k].base % PAGE_SIZE = 0
    /\ KHEAP_INIT_PAGES \in Nat \ {0}

VARIABLES
    tables,             \* <<level, prefix, frame>> of each page table
    pt,                 \* the page that each virtual page is mapped to, or NONE
    cr3,                \* the new tables are in use
    call, n,            \* the call of __paging_maps, and pages it has mapped
    frame,              \* the frame for the next page of the heap, or NONE
    kheap_top,          \* as a page
    want, grown,        \* num_pages of kheap_init or kheap_expand, and those mapped
    kernel              \* ghost: the frames of tables and heap

map_vars == <<tables, pt, cr3, call, n>>
heap_vars == <<frame, kheap_top, want, grown>>
all_vars == <<boot_vars, map_vars, heap_vars, kernel>>

MemoryInit ==
    /\ BootInit
    /\ tables = {} /\ pt = [v \in Vpages |-> NONE] /\ cr3 = FALSE /\ call = 1 /\ n = 0
    /\ frame = NONE /\ kheap_top = LastPage + 1 /\ want = 0 /\ grown = 0 /\ kernel = {}

\* pmm_alloc(PMM_ZONE_NORMAL, 1); a panic ends the boot.
TakeFrame(next) ==
    /\ pmm_alloc(PMM_ZONE_NORMAL, 1)
    /\ kernel' = kernel \cup (held' \ held)
    /\ pc' = IF panicked' = <<>> THEN next ELSE "panic"
    /\ UNCHANGED <<init_locals, area_vars>>

\* The frame that TakeFrame got, if any.
taken == { f[1] \div PAGE_SIZE : f \in held' \ held }

\* The tables on the way to a page, from the top one down.
prefix(v, level) == v \div NIDX ^ (level + 1)
missing(v) == { level \in 0 .. PML4 : \A t \in tables : <<t[1], t[2]>> # <<level, prefix(v, level)>> }
top(levels) == CHOOSE level \in levels : \A other \in levels : other <= level

\* paging_walk creates the topmost table that is missing on the way to v.
CreateTable(v) ==
    /\ missing(v) # {}
    /\ TakeFrame(pc)
    /\ tables' = tables \cup { <<top(missing(v)), prefix(v, top(missing(v))), f>> : f \in taken }
    /\ UNCHANGED <<pt, cr3, call, n, heap_vars>>

\* The rest of __paging_map: an existing mapping stays.
set_leaf(v, p) == pt' = IF pt[v] = NONE THEN [pt EXCEPT ![v] = p] ELSE pt

-----------------------------------------------------------------------------
\* paging_init panics unless the bootloader passed its tags.
paging_init ==
    /\ pc = "done"
    /\ \E present \in SUBSET Tags :
          IF present = Tags
          THEN /\ TakeFrame("maps")
               /\ tables' = { <<PML4, 0, f>> : f \in taken }
          ELSE /\ panic(<<"paging_init">>) /\ pc' = "panic"
               /\ UNCHANGED <<init_locals, area_vars, tables, kernel>>
    /\ UNCHANGED <<pt, cr3, call, n, heap_vars>>

pmr_maps(pmr) ==
    [vaddr |-> pmr.base \div PAGE_SIZE,
     paddr |-> pbase + ((pmr.base \div PAGE_SIZE) - vbase),
     num |-> pmr.length \div PAGE_SIZE]


\* mem_end is what pmm_init took as mem_size; mem_start is PAGE_SIZE.
num_pages == (mem_size - PAGE_SIZE) \div PAGE_SIZE

mem_start == 1

\* The calls of __paging_maps in paging_init.
calls ==
    [k \in DOMAIN PMRS |-> pmr_maps(PMRS[k])]
    \o << [vaddr |-> mem_start, paddr |-> mem_start, num |-> num_pages],
          [vaddr |-> VA_HHDM + mem_start, paddr |-> mem_start, num |-> num_pages] >>

paging_maps_page ==
    /\ pc = "maps" /\ call <= Len(calls) /\ n < calls[call].num
    /\ LET v == calls[call].vaddr + n IN
          \/ CreateTable(v)
          \/ /\ missing(v) = {}
             /\ set_leaf(v, calls[call].paddr + n)
             /\ n' = n + 1
             /\ UNCHANGED <<boot_vars, tables, cr3, call, heap_vars, kernel>>

paging_maps_return ==
    /\ pc = "maps" /\ call <= Len(calls) /\ n >= calls[call].num
    /\ call' = call + 1 /\ n' = 0
    /\ UNCHANGED <<boot_vars, tables, pt, cr3, heap_vars, kernel>>

load_cr3 ==
    /\ pc = "maps" /\ call > Len(calls)
    /\ cr3' = TRUE /\ pc' = "kheap_init"
    /\ UNCHANGED <<vars, init_locals, area_vars, tables, pt, call, n, heap_vars, kernel>>

-----------------------------------------------------------------------------
\* The end of the kernel image, in bytes.
kheap_max ==
    LET ends == { PMRS[k].base + PMRS[k].length : k \in DOMAIN PMRS }
    IN  CHOOSE e \in ends \cup {0} : \A f \in ends : f <= e

fits(page) == PAGE_SIZE * page >= kheap_max

\* kheap_init checks before it maps.
kheap_init ==
    /\ pc = "kheap_init"
    /\ IF fits(LastPage + 1 - KHEAP_INIT_PAGES)
       THEN pc' = "heap" /\ want' = KHEAP_INIT_PAGES /\ UNCHANGED vars
       ELSE panic(<<"kheap_init">>) /\ pc' = "panic" /\ UNCHANGED want
    /\ UNCHANGED <<init_locals, area_vars, map_vars, frame, kheap_top, grown, kernel>>

\* kmalloc finds no block and calls kheap_expand.
kheap_expand ==
    /\ pc = "up"
    /\ pc' = "heap" /\ want' \in 1 .. MaxGrowth
    /\ UNCHANGED <<vars, init_locals, area_vars, map_vars, frame, kheap_top, grown, kernel>>

\* paging_map(curr_page, pmm_alloc(PMM_ZONE_NORMAL, 1), ...): the frame comes
\* first, then the tables, then the entry.
heap_frame ==
    /\ pc = "heap" /\ grown < want /\ frame = NONE
    /\ TakeFrame("heap")
    /\ frame' = IF taken = {} THEN NONE ELSE CHOOSE f \in taken : TRUE
    /\ UNCHANGED <<map_vars, kheap_top, want, grown>>

heap_map ==
    /\ pc = "heap" /\ grown < want /\ frame # NONE
    /\ LET v == kheap_top - grown - 1 IN
          \/ CreateTable(v)
          \/ /\ missing(v) = {}
             /\ set_leaf(v, frame)
             /\ frame' = NONE /\ grown' = grown + 1
             /\ UNCHANGED <<boot_vars, tables, cr3, call, n, kheap_top, want, kernel>>


\* kheap_expand checks after it has mapped; for kheap_init it is the old check.
heap_done ==
    /\ pc = "heap" /\ grown = want
    /\ kheap_top' = kheap_top - want /\ want' = 0 /\ grown' = 0
    /\ IF fits(kheap_top')
       THEN pc' = "up" /\ UNCHANGED vars
       ELSE panic(<<"kheap_expand">>) /\ pc' = "panic"
    /\ UNCHANGED <<init_locals, area_vars, map_vars, frame, kernel>>

\* Other users take and give back ranges of any size, in any zone.
Client ==
    /\ pc = "up"
    /\ \/ \E zone \in Zones, size \in Sizes : pmm_alloc(zone, size)
       \/ \E f \in held \ kernel : pmm_free(f[1], f[2])
    /\ pc' = IF panicked' = <<>> THEN "up" ELSE "panic"
    /\ UNCHANGED <<init_locals, area_vars, map_vars, heap_vars, kernel>>

halted == pc = "panic" /\ UNCHANGED all_vars

BootStep ==
    \/ Steps /\ UNCHANGED <<map_vars, heap_vars, kernel>>
    \/ paging_init \/ paging_maps_page \/ paging_maps_return \/ load_cr3
    \/ kheap_init \/ heap_frame \/ heap_map \/ heap_done

MemoryNext == BootStep \/ kheap_expand \/ Client \/ halted

\* The boot processor runs alone and waits for nothing.
MemorySpec == MemoryInit /\ [][MemoryNext]_all_vars /\ WF_all_vars(BootStep)

-----------------------------------------------------------------------------
\* pmm_init returns for every memory map of at least 16 MiB and panics for the
\* others; the boot then gets as far as the heap, unless a tag is missing or
\* PMM_ZONE_NORMAL has no page left.
Boots ==
    /\ pc = "start" /\ memmap # NULL /\ (memmap # NULL => get_mem_size(memmap) >= NORMAL_OFFSET)
          ~> pc = "done"
    /\ pc = "done" ~> \/ pc = "up"
                      \/ panicked = <<"paging_init">>
                      \/ pc = "panic" /\ free_pages(PMM_ZONE_NORMAL) = {}
    /\ [](panicked = <<"pmm_init">> =>
            memmap = NULL \/ (memmap # NULL => get_mem_size(memmap) < NORMAL_OFFSET))

physical == 1 .. (mem_size \div PAGE_SIZE) - 1


kernel_image ==
    UNION { LET m == pmr_maps(PMRS[k]) IN m.vaddr .. m.vaddr + m.num - 1 : k \in DOMAIN PMRS }

heap_pages == kheap_top - grown .. LastPage

==============================================================================
