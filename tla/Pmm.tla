-------------------------------- MODULE Pmm ---------------------------------
(***************************************************************************)
(* The physical memory manager, src/kernel/mm/pmm.c, after pmm_init: two   *)
(* zones, each with a bitmap, byte counters and the first_free_idx hint    *)
(* from which the next search starts.                                      *)
(*                                                                         *)
(* Addresses and counters are in bytes.  bitmap[z] is the set of the       *)
(* indices of the zone's used pages.  Two ghost variables record what the  *)
(* callers see: the frames they hold and the frames pmm_init freed.        *)
(***************************************************************************)
EXTENDS Bitmap, FiniteSets

CONSTANTS
    PAGE_SIZE,          \* 4 KiB
    NORMAL_OFFSET,      \* 16 MiB, where PMM_ZONE_NORMAL starts
    mem_size,           \* end of physical memory
    Sizes               \* page counts the callers of pmm_alloc ask for

PMM_FREE == FALSE
PMM_ZONE_DMA == 0
PMM_ZONE_NORMAL == 1
PMM_NUM_ZONES == 2
Zones == 0 .. PMM_NUM_ZONES - 1

offset(zone) == IF zone = PMM_ZONE_DMA THEN 0 ELSE NORMAL_OFFSET

zone_end(zone) ==
    IF zone + 1 = PMM_NUM_ZONES THEN mem_size ELSE offset(zone + 1)

mem_total(zone) == zone_end(zone) - offset(zone)

bitmap_size(zone) == mem_total(zone) \div PAGE_SIZE

\* pmm_init panics below 16 MiB; zone offsets "must be 4KiB aligned".
ASSUME PmmAssumption ==
    /\ PAGE_SIZE \in Nat \ {0}
    /\ NORMAL_OFFSET \in Nat
    /\ \E n \in 0 .. NORMAL_OFFSET : NORMAL_OFFSET = PAGE_SIZE * n
    /\ mem_size \in Nat
    /\ mem_size >= NORMAL_OFFSET
    /\ SIZE_MAX \in Nat
    /\ SIZE_MAX > mem_size
    /\ Sizes \subseteq Nat

VARIABLES
    bitmap, mem_free, mem_used, first_free_idx,   \* the fields of mem_zone[]
    panicked,           \* <<>>, or the call that ended in panic()
    held,               \* ghost: <<addr, pages>> of each frame range in use
    usable              \* ghost: the pages of each zone that pmm_init freed

zone_vars == <<bitmap, mem_free, mem_used, first_free_idx>>
vars == <<zone_vars, panicked, held, usable>>

free_pages(zone) == (0 .. bitmap_size(zone) - 1) \ bitmap[zone]

\* What pmm_init leaves behind (module PmmInit): any set of usable pages, and
\* a hint that is not above the lowest of them.
Init ==
    /\ usable \in [Zones -> SUBSET (0 .. mem_size \div PAGE_SIZE)]
    /\ \A z \in Zones : usable[z] \subseteq 0 .. bitmap_size(z) - 1
    /\ bitmap = [z \in Zones |-> (0 .. bitmap_size(z) - 1) \ usable[z]]
    /\ mem_free = [z \in Zones |-> PAGE_SIZE * Cardinality(usable[z])]
    /\ mem_used = [z \in Zones |-> mem_total(z) - mem_free[z]]
    /\ first_free_idx \in [Zones -> (0 .. mem_size \div PAGE_SIZE) \cup {SIZE_MAX}]
    /\ \A z \in Zones : \A i \in usable[z] : first_free_idx[z] <= i
    /\ panicked = <<>>
    /\ held = {}

\* Mutant: the pages are counted, not their bytes.
bytes_as_pages(size) == size

bytes(size) == PAGE_SIZE * size

\* Mutants: a free below the hint leaves the hint alone; the hint always
\* follows the last free.
hint_kept(hint, idx) == hint
hint_last(hint, idx) == idx

lower_hint(hint, idx) == IF idx < hint THEN idx ELSE hint

\* Mutant: the offset of the zone is forgotten.
page_idx_from_0(zone, addr) == addr \div PAGE_SIZE

page_idx(zone, addr) == (addr - offset(zone)) \div PAGE_SIZE

\* Mutant: the search starts one page past the hint.
FoundPastHint(zone, size, idx) ==
    bitmap_find_range(bitmap[zone], bitmap_size(zone), first_free_idx[zone] + 1,
                      PMM_FREE, size, idx)

\* The call of bitmap_find_range in pmm_alloc returns idx.
Found(zone, size, idx) ==
    bitmap_find_range(bitmap[zone], bitmap_size(zone), first_free_idx[zone],
                      PMM_FREE, size, idx)

\* The part of pmm_alloc after the search.
Take(zone, size, idx) ==
    /\ bitmap' = [bitmap EXCEPT ![zone] = bitmap_set_range(@, idx, size)]
    /\ mem_free' = [mem_free EXCEPT ![zone] = @ - bytes(size)]
    /\ mem_used' = [mem_used EXCEPT ![zone] = @ + bytes(size)]
    /\ first_free_idx' = [first_free_idx EXCEPT ![zone] = idx + size]
    /\ held' = held \cup {<<offset(zone) + bytes(idx), size>>}
    /\ UNCHANGED <<panicked, usable>>

panic(call) ==
    /\ panicked' = call
    /\ UNCHANGED <<zone_vars, held, usable>>

pmm_alloc(zone, size) ==
    /\ panicked = <<>>
    /\ \/ \E idx \in 0 .. bitmap_size(zone) - 1 :
             Found(zone, size, idx) /\ Take(zone, size, idx)
       \/ Found(zone, size, SIZE_MAX) /\ panic(<<"pmm_alloc", zone, size>>)

\* The zone search of pmm_free: the zones that contain addr.
zone_of(addr) == {z \in Zones : offset(z) <= addr /\ addr < zone_end(z)}

\* pmm_free does not check that the pages are in use; its callers free the
\* ranges they hold, or pass an address that no zone contains.
pmm_free(addr, size) ==
    /\ panicked = <<>>
    /\ IF zone_of(addr) = {}
       THEN panic(<<"pmm_free", addr>>)
       ELSE \E zone \in zone_of(addr) :
            LET idx == page_idx(zone, addr)
            IN  /\ bitmap' = [bitmap EXCEPT ![zone] = bitmap_clear_range(@, idx, size)]
                /\ mem_free' = [mem_free EXCEPT ![zone] = @ + bytes(size)]
                /\ mem_used' = [mem_used EXCEPT ![zone] = @ - bytes(size)]
                /\ first_free_idx' = [first_free_idx EXCEPT ![zone] = lower_hint(@, idx)]
                /\ held' = held \ {<<addr, size>>}
                /\ UNCHANGED <<panicked, usable>>

\* panic() ends in for (;;) hlt().
hlt == panicked # <<>> /\ UNCHANGED vars

Next ==
    \/ \E zone \in Zones, size \in Sizes : pmm_alloc(zone, size)
    \/ \E f \in held \cup {<<mem_size, 1>>} : pmm_free(f[1], f[2])
    \/ hlt

Spec == Init /\ [][Next]_vars

-----------------------------------------------------------------------------
\* Counters are non-negative byte counts and the bitmap has no bit past its
\* size: no call writes outside the zone's bitmap or wraps a counter.
TypeOK ==
    /\ bitmap \in [Zones -> SUBSET Nat]
    /\ \A z \in Zones : bitmap[z] \subseteq 0 .. bitmap_size(z) - 1
    /\ mem_free \in [Zones -> Nat]
    /\ mem_used \in [Zones -> Nat]
    /\ first_free_idx \in [Zones -> (0 .. mem_size) \cup {SIZE_MAX}]
    /\ held \subseteq Nat \X Sizes
    /\ usable \in [Zones -> SUBSET Nat]

\* The pages of zone z that a range covers, and that callers hold.
range_pages(z, f) ==
    LET first == (f[1] - offset(z)) \div PAGE_SIZE IN first .. first + f[2] - 1

pages_of(ranges, z) ==
    UNION {range_pages(z, f) : f \in {g \in ranges : z \in zone_of(g[1])}}

held_pages(z) == pages_of(held, z)

Disjoint(f, g) == \/ f[1] + PAGE_SIZE * f[2] <= g[1]
                  \/ g[1] + PAGE_SIZE * g[2] <= f[1]

\* Whatever range pmm_alloc returns next, no caller holds a byte of it.
GrantsFresh ==
    \A z \in Zones, n \in Sizes : \A idx \in 0 .. bitmap_size(z) - 1 :
        Found(z, n, idx) =>
            \A f \in held : Disjoint(f, <<offset(z) + PAGE_SIZE * idx, n>>)

\* Each range that pmm_alloc returned starts on a page of one zone and ends in
\* that zone, and no two of them share a page.
HeldRanges ==
    /\ \A f \in held :
          \E z \in Zones : \E i \in 0 .. bitmap_size(z) - 1 :
              /\ f[1] = offset(z) + PAGE_SIZE * i
              /\ f[2] > 0
              /\ i + f[2] <= bitmap_size(z)
    /\ \A f, g \in held : \A z \in zone_of(f[1]) \cap zone_of(g[1]) :
          f # g => range_pages(z, f) \cap range_pages(z, g) = {}

\* pmm_alloc and pmm_free neither lose a page nor invent one: the pages that
\* pmm_init made available are, at all times, either free in the bitmap or
\* held by a caller, never both; reserved memory is never handed out.
PagesConserved ==
    \A z \in Zones : /\ free_pages(z) \cup held_pages(z) = usable[z]
                     /\ free_pages(z) \cap held_pages(z) = {}

\* The zone's byte counters agree with its bitmap.
CountersMatchBitmap ==
    \A z \in Zones : /\ mem_free[z] = PAGE_SIZE * Cardinality(free_pages(z))
                     /\ mem_free[z] + mem_used[z] = mem_total(z)

\* No free page lies below first_free_idx, so a search that starts there
\* misses nothing.  True while all requests are for one page (as all calls in
\* the kernel are): a longer request may skip a hole and moves the hint past it.
HintSound ==
    \A z \in Zones : \A i \in free_pages(z) : first_free_idx[z] <= i

\* "pmm_alloc could not find %lu of free pages": when pmm_alloc panics, the
\* zone has no run of that many free pages.
PanicMeansNoRun ==
    \A z \in Zones, n \in Sizes \ {0} :
        panicked = <<"pmm_alloc", z, n>> =>
            \A i \in 0 .. bitmap_size(z) - 1 :
                ~ RunAt(bitmap[z], bitmap_size(z), PMM_FREE, n, i)

\* The addresses of the free pages of all zones.
free_frames == UNION {{offset(z) + PAGE_SIZE * p : p \in free_pages(z)} : z \in Zones}

out_of_memory == \E z \in Zones, n \in Sizes : panicked = <<"pmm_alloc", z, n>>

FA == INSTANCE FrameAllocator WITH
        Lo <- [z \in Zones |-> offset(z)],
        Hi <- [z \in Zones |-> zone_end(z)],
        avail <- free_frames,
        failed <- out_of_memory

\* pmm.c implements FrameAllocator: with one-page requests, callers cannot
\* tell the bitmap search with its hint from an allocator that looks at every
\* page, and pmm_alloc panics only when the zone has no free page left.
ImplementsFrameAllocator == FA!Spec
=============================================================================
