------------------------------ MODULE PmmInit -------------------------------
(***************************************************************************)
(* pmm_init (src/kernel/mm/pmm.c): from the bootloader's memory map to the *)
(* zones of Pmm.  The loops run one iteration per step; nothing else runs  *)
(* while the boot processor is in pmm_init.                                *)
(***************************************************************************)
EXTENDS Pmm, Sequences

CONSTANTS
    MemMaps,            \* memory maps the bootloader may hand over (sequences)
    NULL,               \* no memory map tag
    BITS,               \* bits of a byte of a bitmap: 8
    ALIGN,              \* alignment of a bitmap: 8
    AREA                \* bytes of alloc_area: 1 MiB

VARIABLES
    memmap,             \* the stivale2 memory map, or NULL
    pc,                 \* "start", "zones", "entries", "mark", "done" or "panic"
    i,                  \* index of the current entry (from 1)
    curr_zone,          \* the zone of either loop
    entry_start,        \* first byte of the entry not dealt with yet
    alloc_ptr,          \* the next free byte of alloc_area, by its offset
    data                \* where in alloc_area the bitmap of each zone begins

init_locals == <<memmap, i, curr_zone, entry_start>>
area_vars == <<alloc_ptr, data>>
boot_vars == <<vars, init_locals, pc, area_vars>>

ALIGN_DOWN(x, align) == (x \div align) * align
ALIGN_UP(x, align) == ALIGN_DOWN(x + align - 1, align)

get_mem_size(m) == m[Len(m)].base + m[Len(m)].length

\* Bootloader guarantee (external): entries are sorted and do not overlap, and
\* a usable entry contains a page boundary (stivale2 aligns them to 4 KiB).
WellFormed(m) ==
    /\ m # <<>>
    /\ \A k \in 2 .. Len(m) : m[k-1].base + m[k-1].length <= m[k].base
    /\ \A k \in 1 .. Len(m) :
          m[k].usable => ALIGN_UP(m[k].base, PAGE_SIZE) <= ALIGN_DOWN(m[k].base + m[k].length, PAGE_SIZE)

\* mem_size is the constant of Pmm except for maps too small to boot with.
ASSUME MemMapsAssumption ==
    \A m \in MemMaps : /\ WellFormed(m)
                       /\ \/ get_mem_size(m) = mem_size
                          \/ get_mem_size(m) < NORMAL_OFFSET

\* Reference definition: the pages of a zone that lie in one usable entry.
UsablePages(m, z) ==
    {p \in 0 .. bitmap_size(z) - 1 :
        \E k \in 1 .. Len(m) :
            /\ m[k].usable
            /\ m[k].base <= offset(z) + PAGE_SIZE * p
            /\ offset(z) + PAGE_SIZE * (p + 1) <= m[k].base + m[k].length}

\* The static initialisers of mem_zone[].
BootInit ==
    /\ memmap \in MemMaps \cup {NULL}
    /\ bitmap = [z \in Zones |-> {}]
    /\ mem_free = [z \in Zones |-> SIZE_MAX]
    /\ mem_used = [z \in Zones |-> SIZE_MAX]
    /\ first_free_idx = [z \in Zones |-> SIZE_MAX]
    /\ panicked = <<>>
    /\ held = {}
    /\ usable = [z \in Zones |-> {}]
    /\ pc = "start"
    /\ i = 1
    /\ curr_zone = PMM_ZONE_DMA
    /\ entry_start = 0
    /\ alloc_ptr = 0
    /\ data = [z \in Zones |-> AREA]

bitmap_size_bytes(size) == (size \div BITS) + (IF size % BITS = 0 THEN 0 ELSE 1)

\* Mutant: the area is given out again.
alloc_again(size, align) ==
    /\ data' = [data EXCEPT ![curr_zone] = ALIGN_UP(alloc_ptr, align)]
    /\ alloc_ptr' = ALIGN_UP(alloc_ptr, align)

\* alloc, with the assignment of its result.
alloc(size, align) ==
    /\ data' = [data EXCEPT ![curr_zone] = ALIGN_UP(alloc_ptr, align)]
    /\ alloc_ptr' = data'[curr_zone] + size

\* The checks before the first loop.
pmm_init ==
    /\ pc = "start"
    /\ IF memmap = NULL \/ get_mem_size(memmap) < NORMAL_OFFSET
       THEN /\ pc' = "panic"
            /\ panicked' = <<"pmm_init">>
            /\ UNCHANGED usable
       ELSE /\ pc' = "zones"
            /\ usable' = [z \in Zones |-> UsablePages(memmap, z)]
            /\ UNCHANGED panicked
    /\ UNCHANGED <<zone_vars, held, init_locals, area_vars>>

\* An iteration of the first loop: a zone is marked used as a whole.
SetUpZone ==
    /\ pc = "zones"
    /\ mem_used' = [mem_used EXCEPT ![curr_zone] = mem_total(curr_zone)]
    /\ mem_free' = [mem_free EXCEPT ![curr_zone] = 0]
    /\ alloc(bitmap_size_bytes(bitmap_size(curr_zone)), ALIGN)
    /\ bitmap' = [bitmap EXCEPT ![curr_zone] = bitmap_set_range(@, 0, bitmap_size(curr_zone))]
    /\ IF curr_zone + 1 < PMM_NUM_ZONES
       THEN curr_zone' = curr_zone + 1 /\ UNCHANGED pc
       ELSE curr_zone' = PMM_ZONE_DMA /\ pc' = "entries"
    /\ UNCHANGED <<first_free_idx, panicked, held, usable, memmap, i, entry_start>>

entry_end == ALIGN_DOWN(memmap[i].base + memmap[i].length, PAGE_SIZE)

SkipEntry ==
    /\ pc = "entries"
    /\ i <= Len(memmap)
    /\ ~ memmap[i].usable
    /\ i' = i + 1
    /\ UNCHANGED <<vars, memmap, pc, curr_zone, entry_start, area_vars>>

\* Lines 154-166: curr_zone moves up to the zone in which the entry starts.
StartEntry ==
    /\ pc = "entries"
    /\ i <= Len(memmap)
    /\ memmap[i].usable
    /\ entry_start' = ALIGN_UP(memmap[i].base, PAGE_SIZE)
    /\ \E z \in Zones :
          /\ curr_zone <= z
          /\ entry_start' <= zone_end(z)
          /\ \A y \in curr_zone .. z - 1 : zone_end(y) < entry_start'
          /\ curr_zone' = z
    /\ pc' = "mark"
    /\ UNCHANGED <<vars, memmap, i, area_vars>>

\* Lines 169-170: the page run of the current zone to clear.
mark_idx == page_idx(curr_zone, entry_start)

least(a, b) == IF a < b THEN a ELSE b

mark_size == (least(entry_end, zone_end(curr_zone)) - entry_start) \div PAGE_SIZE

\* Mutant: a bleeding entry stays in the zone it fills.
same_zone == curr_zone

next_zone == curr_zone + 1

\* Lines 169-187: one iteration of the inner loop.
MarkRun ==
    /\ pc = "mark"
    /\ bitmap' = [bitmap EXCEPT ![curr_zone] = bitmap_clear_range(@, mark_idx, mark_size)]
    /\ mem_used' = [mem_used EXCEPT ![curr_zone] = @ - bytes(mark_size)]
    /\ mem_free' = [mem_free EXCEPT ![curr_zone] = @ + bytes(mark_size)]
    /\ first_free_idx' =
         [first_free_idx EXCEPT ![curr_zone] = lower_hint(@, mark_idx)]
    /\ IF entry_end <= zone_end(curr_zone)
       THEN /\ pc' = "entries"
            /\ i' = i + 1
            /\ UNCHANGED <<curr_zone, entry_start>>
       ELSE /\ entry_start' = least(zone_end(curr_zone), entry_end)
            /\ curr_zone' = next_zone
            /\ UNCHANGED <<pc, i>>
    /\ UNCHANGED <<panicked, held, usable, memmap, area_vars>>

\* pmm_init returns and its locals are gone.
Return ==
    /\ pc = "entries"
    /\ i > Len(memmap)
    /\ pc' = "done"
    /\ memmap' = NULL /\ i' = 1 /\ curr_zone' = PMM_ZONE_DMA /\ entry_start' = 0
    /\ UNCHANGED <<vars, area_vars>>

Steps == pmm_init \/ SetUpZone \/ SkipEntry \/ StartEntry \/ MarkRun \/ Return

-----------------------------------------------------------------------------
\* pmm_init leaves exactly the pages that lie in a usable entry free, with
\* matching counters and a hint not above any of them: the state Pmm starts in.
HandsOver == pc = "done" => Init

\* The byte of alloc_area that holds a bit of a zone's bitmap.
byte_of(z, bit) == data[z] + (bit \div BITS)

\* pmm_set_unused is only asked to clear bits of the zone's own bitmap, whose
\* bytes lie inside alloc_area and hold no bit of another zone's.
MarkInBounds ==
    pc = "mark" =>
        /\ mark_size >= 0
        /\ \A bit \in mark_idx .. mark_idx + mark_size - 1 :
              /\ bit \in 0 .. bitmap_size(curr_zone) - 1
              /\ byte_of(curr_zone, bit) \in 0 .. AREA - 1
              /\ \A z \in Zones \ {curr_zone}, other \in 0 .. mem_size \div PAGE_SIZE :
                    other < bitmap_size(z) => byte_of(z, other) # byte_of(curr_zone, bit)
=============================================================================
