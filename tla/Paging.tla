------------------------------- MODULE Paging --------------------------------
(***************************************************************************)
(* The page tables, src/kernel/mm/paging.c: paging_walk descends from the  *)
(* table in cr3, one table per step, creating the missing ones for a       *)
(* mapping; the TLB keeps translations until invlpg.                       *)
(*                                                                         *)
(* Virtual addresses are page numbers.  An entry is NONE (not present),    *)
(* the frame of the next table, or at level PML1 the physical page that is *)
(* mapped; flag bits other than PAGE_PRESENT are left out.                 *)
(***************************************************************************)
EXTENDS Integers

CONSTANTS
    PML4,               \* the top level: 3 in the code
    NIDX,               \* entries of a table: 512
    Frames,             \* frames for page tables
    cr3,                \* the frame of the top table
    Vaddrs, Paddrs,     \* pages to map, and what they are mapped to
    MaxNum,             \* bound: pages of a range
    Stale,              \* what may be in the memory of a frame from pmm_alloc
    NONE

PML1 == 0
Idx == 0 .. NIDX - 1

ASSUME PagingAssumption ==
    /\ PML4 \in Nat /\ NIDX \in Nat \ {0}
    /\ Vaddrs \subseteq Nat /\ Paddrs \subseteq Nat /\ MaxNum \in Nat
    /\ cr3 \in Frames /\ NONE \notin Frames \cup Paddrs /\ Frames \cap Paddrs = {}
    /\ NONE \in Stale /\ Stale \subseteq Paddrs \cup {NONE}

VARIABLES
    mem,                \* physical memory: each page as a table of entries
    avail,              \* the frames that pmm_alloc can return
    walk,               \* the call of __paging_map or __paging_unmap in progress
    rest,               \* the loop around it: the pages that are left, or NONE
    tlb,                \* cached translations <<vaddr, paddr>>
    panicked

vars == <<mem, avail, walk, rest, tlb, panicked>>

Idle == [fn |-> "idle", vaddr |-> 0, paddr |-> NONE, level |-> 0, table |-> cr3]

paging_vaddr_idx(vaddr, level) == (vaddr \div NIDX ^ level) % NIDX

\* memset(ptable, 0, sizeof(ptable)) clears the 8 bytes of one entry.
paging_create(frame) == [frame EXCEPT ![0] = NONE]

\* paging_init creates the top table.
Init ==
    /\ mem \in [Frames \cup Paddrs -> [Idx -> Stale]]
    /\ mem[cr3][0] = NONE
    /\ avail = Frames \ {cr3}
    /\ walk = Idle
    /\ rest = NONE
    /\ tlb = {}
    /\ panicked = FALSE

\* The entry that paging_walk looks at.
idx == paging_vaddr_idx(walk.vaddr, walk.level)
pentry == mem[walk.table][idx]

\* __paging_map or __paging_unmap begins.
Begin(fn, vaddr, paddr) ==
    walk' = [fn |-> fn, vaddr |-> vaddr, paddr |-> paddr, level |-> PML4, table |-> cr3]

paging_map(vaddr, paddr) ==
    /\ walk = Idle /\ rest = NONE /\ ~ panicked
    /\ Begin("map", vaddr, paddr)
    /\ UNCHANGED <<mem, avail, rest, tlb, panicked>>

paging_unmap(vaddr) ==
    /\ walk = Idle /\ rest = NONE /\ ~ panicked
    /\ Begin("unmap", vaddr, NONE)
    /\ UNCHANGED <<mem, avail, rest, tlb, panicked>>

\* What a loop over num pages has left to do; nothing if num is 0.
range(fn, vaddr, paddr, num) ==
    IF num = 0 THEN NONE ELSE [fn |-> fn, vaddr |-> vaddr, paddr |-> paddr, num |-> num]

paging_maps(vaddr, paddr, num) ==
    /\ walk = Idle /\ rest = NONE /\ ~ panicked
    /\ rest' = range("map", vaddr, paddr, num)
    /\ UNCHANGED <<mem, avail, walk, tlb, panicked>>

paging_unmaps(vaddr, num) ==
    /\ walk = Idle /\ rest = NONE /\ ~ panicked
    /\ rest' = range("unmap", vaddr, NONE, num)
    /\ UNCHANGED <<mem, avail, walk, tlb, panicked>>

\* The address of the page after the current one.
NextPage(addr) == IF addr = NONE THEN NONE ELSE addr + 1

\* An iteration of either loop.
Iterate ==
    /\ walk = Idle /\ rest # NONE /\ ~ panicked
    /\ Begin(rest.fn, rest.vaddr, rest.paddr)
    /\ rest' = range(rest.fn, NextPage(rest.vaddr), NextPage(rest.paddr), rest.num - 1)
    /\ UNCHANGED <<mem, avail, tlb, panicked>>

Walking(fns) == walk.fn \in fns /\ ~ panicked

\* Mutant: the loop does not advance.
WalkDownSticks ==
    /\ Walking({"map", "unmap"}) /\ walk.level # PML1
    /\ pentry # NONE
    /\ UNCHANGED vars

\* The entry is present: go to the next level.
WalkDown ==
    /\ Walking({"map", "unmap"}) /\ walk.level # PML1
    /\ pentry # NONE
    /\ walk' = [walk EXCEPT !.level = @ - 1, !.table = pentry]
    /\ UNCHANGED <<rest, mem, avail, tlb, panicked>>

\* Mutant: the frame of a new table stays available.
WalkCreateAgain ==
    /\ Walking({"map"}) /\ walk.level # PML1
    /\ pentry = NONE
    /\ \E f \in avail :
          /\ mem' = [mem EXCEPT ![f] = paging_create(@), ![walk.table][idx] = f]
          /\ walk' = [walk EXCEPT !.level = @ - 1, !.table = f]
    /\ UNCHANGED <<rest, avail, tlb, panicked>>

\* The entry is not present and create is true.
WalkCreate ==
    /\ Walking({"map"}) /\ walk.level # PML1
    /\ pentry = NONE
    /\ \E f \in avail :
          /\ avail' = avail \ {f}
          /\ mem' = [mem EXCEPT ![f] = paging_create(@), ![walk.table][idx] = f]
          /\ walk' = [walk EXCEPT !.level = @ - 1, !.table = f]
    /\ UNCHANGED <<rest, tlb, panicked>>

\* pmm_alloc panics in paging_create.
WalkNoFrame ==
    /\ Walking({"map"}) /\ walk.level # PML1
    /\ pentry = NONE /\ avail = {}
    /\ panicked' = TRUE
    /\ UNCHANGED <<mem, avail, walk, rest, tlb>>

\* The entry is not present and create is false: paging_walk returns NULL, and
\* __paging_unmap writes through it.  Page 0 is not mapped: a page fault.
WalkMissing ==
    /\ Walking({"unmap"}) /\ walk.level # PML1
    /\ pentry = NONE
    /\ panicked' = TRUE
    /\ UNCHANGED <<mem, avail, walk, rest, tlb>>

\* Mutant: an existing mapping is overwritten.
MapLeafAlways ==
    /\ Walking({"map"}) /\ walk.level = PML1
    /\ mem' = [mem EXCEPT ![walk.table][idx] = walk.paddr]
    /\ walk' = Idle
    /\ UNCHANGED <<rest, avail, tlb, panicked>>

\* An existing mapping aborts __paging_map.
MapLeaf ==
    /\ Walking({"map"}) /\ walk.level = PML1
    /\ mem' = IF pentry # NONE THEN mem ELSE [mem EXCEPT ![walk.table][idx] = walk.paddr]
    /\ walk' = Idle
    /\ UNCHANGED <<rest, avail, tlb, panicked>>


UnmapLeaf ==
    /\ Walking({"unmap"}) /\ walk.level = PML1
    /\ mem' = [mem EXCEPT ![walk.table][idx] = NONE]
    /\ walk' = [walk EXCEPT !.fn = "invlpg"]
    /\ UNCHANGED <<rest, avail, tlb, panicked>>

invlpg ==
    /\ Walking({"invlpg"})
    /\ tlb' = {t \in tlb : t[1] # walk.vaddr}
    /\ walk' = Idle
    /\ UNCHANGED <<rest, mem, avail, panicked>>

\* The frame that the page tables give for vaddr, by the processor's walk.
Translate(vaddr) ==
    LET table[level \in PML1 .. PML4] ==
            IF level = PML4 THEN cr3
            ELSE IF table[level + 1] = NONE THEN NONE
            ELSE mem[table[level + 1]][paging_vaddr_idx(vaddr, level + 1)]
    IN  IF table[PML1] = NONE THEN NONE
        ELSE mem[table[PML1]][paging_vaddr_idx(vaddr, PML1)]

\* The processor loads a translation that it has not cached, at any time.
Access(vaddr) ==
    /\ Translate(vaddr) # NONE
    /\ \A t \in tlb : t[1] # vaddr
    /\ tlb' = tlb \cup {<<vaddr, Translate(vaddr)>>}
    /\ UNCHANGED <<mem, avail, walk, rest, panicked>>

hlt == panicked /\ UNCHANGED vars

Step == Iterate \/ WalkDown \/ WalkCreate \/ WalkNoFrame \/ WalkMissing \/ MapLeaf \/ UnmapLeaf \/ invlpg

Next ==
    \/ \E v \in Vaddrs, p \in Paddrs : paging_map(v, p)
    \/ \E v \in Vaddrs : paging_unmap(v)
    \/ \E v \in Vaddrs, p \in Paddrs, num \in 0 .. MaxNum :
          /\ v .. v + num - 1 \subseteq Vaddrs /\ p .. p + num - 1 \subseteq Paddrs
          /\ paging_maps(v, p, num)
    \/ \E v \in Vaddrs, num \in 0 .. MaxNum :
          v .. v + num - 1 \subseteq Vaddrs /\ paging_unmaps(v, num)
    \/ Step
    \/ \E v \in Vaddrs : Access(v)
    \/ hlt

Spec == Init /\ [][Next]_vars

\* The walk runs on the one processor that is up and is not preempted.
FairSpec == Spec /\ WF_vars(Step)

-----------------------------------------------------------------------------
\* No two entries lead to the same table, and none to the top table or to a
\* frame that pmm_alloc can hand out again.
TablesTree ==
    \A f, g \in Frames, i, j \in Idx :
        mem[f][i] \in Frames =>
            /\ mem[f][i] \notin avail \cup {cr3}
            /\ mem[g][j] = mem[f][i] => f = g /\ i = j


\* The pages that the current request has still to change.
pending ==
    IF walk.fn \in {"map", "unmap"}
    THEN range(walk.fn, walk.vaddr, walk.paddr, IF rest = NONE THEN 1 ELSE rest.num + 1)
    ELSE rest

VM == INSTANCE VirtualMemory WITH vm <- [v \in Vaddrs |-> Translate(v)], op <- pending

\* "maps @param num pages from @param vaddr to @param paddr": every page of the
\* range gets the frame asked for unless it is mapped already, an unmapping
\* removes the mapping of every page of its range, and neither changes the
\* translation of any other page.
ImplementsVirtualMemory == VM!Spec

\* Every request for a page or a range returns or panics.
WalkEnds == (walk # Idle \/ rest # NONE) ~> ((walk = Idle /\ rest = NONE) \/ panicked)
==============================================================================
