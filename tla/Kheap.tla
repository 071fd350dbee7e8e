-------------------------------- MODULE Kheap --------------------------------
(***************************************************************************)
(* The kernel heap, src/kernel/mm/kheap.c: headers in a doubly linked list *)
(* of all blocks that grows downwards from VA_END, and a circular doubly   *)
(* linked list of the free ones.                                           *)
(*                                                                         *)
(* Addresses and sizes are bytes.  heap.hdr maps the address of each       *)
(* header of the block list to its fields; memory that stops being a       *)
(* header leaves its domain.  kmalloc's tail call `return kmalloc(size)`   *)
(* is a loop: one step per search.                                         *)
(***************************************************************************)
EXTENDS Integers, FiniteSets, Functions

CONSTANTS
    PAGE_SIZE,
    ALIGN,              \* 8
    HDR,                \* sizeof(memblock_t)
    KHEAP_MIN_FREE_SIZE,
    VA_END,             \* the last virtual address, 2^64 - 1
    kheap_max,          \* end of the kernel image: the heap stays above it
    KHEAP_INIT_PAGES,
    FRAMES,             \* page frames of PMM_ZONE_NORMAL
    Requests,           \* sizes passed to kmalloc
    Reallocs            \* sizes passed to krealloc

NULL == 0
SIZE == VA_END + 1
u64(n) == n % SIZE

ASSUME KheapAssumption ==
    /\ {PAGE_SIZE, ALIGN, HDR, KHEAP_MIN_FREE_SIZE, KHEAP_INIT_PAGES, FRAMES} \subseteq Nat \ {0}
    /\ VA_END \in Nat /\ kheap_max \in Nat \ {0}
    /\ PAGE_SIZE % ALIGN = 0 /\ HDR % ALIGN = 0 /\ SIZE % PAGE_SIZE = 0
    /\ HDR < PAGE_SIZE
    /\ PAGE_SIZE * FRAMES < SIZE
    /\ kheap_max <= SIZE - PAGE_SIZE * KHEAP_INIT_PAGES
    /\ Requests \subseteq 0 .. VA_END
    /\ Reallocs \subseteq 0 .. VA_END

VARIABLES
    heap,               \* [hdr, free_head, block_head, kheap_top, err]
    call,               \* the kmalloc in progress
    panicked,           \* "" or the function that called panic()
    owned               \* ghost: the pointers callers hold, with the size asked for

vars == <<heap, call, panicked, owned>>

Idle == [size |-> 0, asked |-> 0, old |-> NULL, expanded |-> FALSE]

\* Mutant: requests are rounded down.
align_down(n) == n - (n % ALIGN)

align_up(n) == LET m == u64(n + ALIGN - 1) IN m - (m % ALIGN)

is_free(h, b) == h.hdr[b].free_next # NULL /\ h.hdr[b].free_prev # NULL
block_start_addr(b) == b + HDR
block_end_addr(h, b) == u64(b + HDR - 1 + h.hdr[b].size)
header_of(ptr) == ptr - HDR

\* A new header at address b; the header at b is memory like any other again.
put(h, b, fields) ==
    [h EXCEPT !.hdr = [x \in DOMAIN h.hdr \cup {b} |-> IF x = b THEN fields ELSE h.hdr[x]]]

forget(h, b) == [h EXCEPT !.hdr = Restrict(@, DOMAIN @ \ {b})]

\* error(): a message and an early return.
error(h) == [h EXCEPT !.err = TRUE]

freelist_insert(h, b) ==
    IF h.free_head = NULL
    THEN [h EXCEPT !.free_head = b, !.hdr[b].free_next = b, !.hdr[b].free_prev = b]
    ELSE LET head == h.free_head
             last == h.hdr[head].free_prev
         IN  [h EXCEPT !.hdr[b].free_next = head, !.hdr[b].free_prev = last,
                       !.hdr[last].free_next = b, !.hdr[head].free_prev = b,
                       !.free_head = b]

\* Mutant: the successor keeps its free_prev.
remove_forward(h, b) ==
    LET n == h.hdr[b].free_next
        p == h.hdr[b].free_prev
    IN  IF n = b /\ p = b
        THEN [h EXCEPT !.hdr[b].free_next = NULL, !.hdr[b].free_prev = NULL,
                       !.free_head = NULL]
        ELSE [h EXCEPT !.hdr[p].free_next = n,
                       !.hdr[b].free_next = NULL, !.hdr[b].free_prev = NULL,
                       !.free_head = IF b = @ THEN n ELSE @]

freelist_remove(h, b) ==
    LET n == h.hdr[b].free_next
        p == h.hdr[b].free_prev
    IN  IF \/ h.free_head = NULL
           \/ ~ is_free(h, b)
           \/ n = b /\ p = b /\ b # h.free_head
        THEN error(h)
        ELSE IF n = b /\ p = b
        THEN [h EXCEPT !.hdr[b].free_next = NULL, !.hdr[b].free_prev = NULL,
                       !.free_head = NULL]
        ELSE [h EXCEPT !.hdr[p].free_next = n, !.hdr[n].free_prev = p,
                       !.hdr[b].free_next = NULL, !.hdr[b].free_prev = NULL,
                       !.free_head = IF b = @ THEN n ELSE @]

\* The common part of merge_right and merge_left: l takes over r.
absorb(h, l, r) ==
    LET n == h.hdr[r].next
        grown == [h EXCEPT !.hdr[l].size = u64(block_end_addr(h, r) - block_start_addr(l) + 1),
                           !.hdr[l].next = n]
        linked == IF n = NULL THEN grown ELSE [grown EXCEPT !.hdr[n].prev = l]
    IN  forget(freelist_remove(linked, r), r)

merge_right(h, b) ==
    LET r == h.hdr[b].next
    IN  IF r # NULL /\ is_free(h, r)
        THEN absorb(h, b, r)
        ELSE [h EXCEPT !.hdr[b].size =
                IF r = NULL THEN u64(VA_END - block_start_addr(b) + 1)
                            ELSE u64(r - block_start_addr(b))]

\* merge_left moves a header that has free memory in front of it to address `to`.
move(h, b, to, size) == put(h, to, [h.hdr[b] EXCEPT !.size = u64(size)])

merge_left(h, b) ==
    LET l == h.hdr[b].prev
    IN  IF ~ is_free(h, b) THEN error(h)
        ELSE IF l # NULL
        THEN IF is_free(h, l)
             THEN absorb(h, l, b)
             ELSE move(h, b, block_end_addr(h, l) + 1,
                       block_end_addr(h, b) - block_end_addr(h, l) - HDR)
        ELSE IF b # h.block_head THEN error(h)
        ELSE move(h, b, h.kheap_top, block_end_addr(h, b) - h.kheap_top - HDR + 1)

\* Mutant: only the left neighbour is merged.
merge_left_only(h, b) == merge_left(h, b)

merge(h, b) == merge_left(merge_right(h, b), b)

\* Mutant: no room is left for the new header.
remainder_no_header(h, b, num_bytes) == u64(h.hdr[b].size - num_bytes)

\* What remains of b when split takes num_bytes and a header from its end.
remainder(h, b, num_bytes) == u64(h.hdr[b].size - num_bytes) - HDR

CanSplit(h, b, num_bytes) ==
    u64(h.hdr[b].size - align_up(num_bytes)) >= HDR + KHEAP_MIN_FREE_SIZE

\* The header that split returns, and the heap it leaves.
split_hdr(h, b, num_bytes) ==
    IF CanSplit(h, b, num_bytes)
    THEN b + HDR + remainder(h, b, align_up(num_bytes))
    ELSE b

split(h, b, num_bytes) ==
    IF ~ CanSplit(h, b, num_bytes) THEN h
    ELSE LET new == split_hdr(h, b, num_bytes)
             n == h.hdr[b].next
             cut == put([h EXCEPT !.hdr[b].size = remainder(h, b, align_up(num_bytes)),
                                  !.hdr[b].next = new],
                        new, [next |-> n, prev |-> b, free_next |-> NULL, free_prev |-> NULL,
                              size |-> align_up(num_bytes)])
             linked == IF n = NULL THEN cut ELSE [cut EXCEPT !.hdr[n].prev = new]
         IN  freelist_insert(linked, new)

\* The heap after the pages down to the new kheap_top have been mapped.
kheap_expand(h, num_pages) ==
    LET top == u64(h.kheap_top - num_pages * PAGE_SIZE)
        old == h.block_head
        new == put([h EXCEPT !.hdr[old].prev = top, !.block_head = top, !.kheap_top = top],
                   top, [next |-> old, prev |-> NULL, free_next |-> NULL, free_prev |-> NULL,
                         size |-> u64(old - block_start_addr(top))])
    IN  IF num_pages = 0 THEN h ELSE merge_right(freelist_insert(new, top), top)

\* The blocks that the search of kmalloc visits, in order.
chain(h) ==
    LET visit[i \in 0 .. Cardinality(DOMAIN h.hdr)] ==
            IF i = 0 THEN h.free_head ELSE h.hdr[visit[i - 1]].free_next
    IN  visit

\* The block where the search stops, NULL if it goes full circle.
first_fit(h, size) ==
    LET fits == IF h.free_head = NULL THEN {}
                ELSE {i \in DOMAIN chain(h) : h.hdr[chain(h)[i]].size >= size}
    IN  IF fits = {} THEN NULL
        ELSE chain(h)[CHOOSE i \in fits : \A j \in fits : i <= j]

\* Mutant: the last, partly used page is not counted.
new_pages_floor(h, size) ==
    LET new_size == IF is_free(h, h.block_head)
                    THEN u64(size - h.hdr[h.block_head].size + HDR)
                    ELSE u64(size + HDR)
    IN  new_size \div PAGE_SIZE

\* The pages kmalloc asks for: block_head is reused when it is free.
new_pages(h, size) ==
    LET new_size == IF is_free(h, h.block_head)
                    THEN u64(size - h.hdr[h.block_head].size + HDR)
                    ELSE u64(size + HDR)
    IN  new_size \div PAGE_SIZE + (IF new_size % PAGE_SIZE # 0 THEN 1 ELSE 0)

\* kfree of a block that is free already only reports it.
free_block(h, b) == IF is_free(h, b) THEN h ELSE merge(freelist_insert(h, b), b)

-----------------------------------------------------------------------------
\* kheap_init: one free block.
Init ==
    LET top == SIZE - PAGE_SIZE * KHEAP_INIT_PAGES
        hdr0 == [next |-> NULL, prev |-> NULL, free_next |-> top, free_prev |-> top,
                 size |-> PAGE_SIZE * KHEAP_INIT_PAGES - HDR]
    IN  /\ heap = [hdr |-> [b \in {top} |-> hdr0], free_head |-> top, block_head |-> top,
                   kheap_top |-> top, err |-> FALSE]
        /\ call = Idle
        /\ panicked = ""
        /\ owned = [p \in {} |-> 0]

\* A caller holds a pointer into a free block: what it writes there may end
\* up in a list pointer, and the model goes no further.
Astray == \E p \in DOMAIN owned : is_free(heap, header_of(p))

Ready == call = Idle /\ panicked = "" /\ ~ Astray

grant(own, ptr, size) == [p \in DOMAIN own \cup {ptr} |-> IF p = ptr THEN size ELSE own[p]]
release(own, ptr) == Restrict(own, DOMAIN own \ {ptr})

kmalloc(size) ==
    /\ Ready
    /\ size # 0
    /\ call' = [size |-> align_up(size), asked |-> size, old |-> NULL, expanded |-> FALSE]
    /\ UNCHANGED <<heap, panicked, owned>>

\* Mutant: krealloc does not free the old area.
kmalloc_found_leaks ==
    /\ call # Idle /\ panicked = ""
    /\ LET b == first_fit(heap, call.size)
           hdr == split_hdr(heap, b, call.size)
       IN  /\ b # NULL
           /\ heap' = freelist_remove(split(heap, b, call.size), hdr)
           /\ owned' = grant(release(owned, call.old), block_start_addr(hdr), call.asked)
    /\ call' = Idle
    /\ UNCHANGED panicked

\* The search succeeds; a kmalloc called by krealloc is followed by the
\* memcpy and by kfree of the old area.
kmalloc_found ==
    /\ call # Idle /\ panicked = ""
    /\ LET b == first_fit(heap, call.size)
           hdr == split_hdr(heap, b, call.size)
           taken == freelist_remove(split(heap, b, call.size), hdr)
           ptr == block_start_addr(hdr)
       IN  /\ b # NULL
           /\ heap' = IF call.old = NULL THEN taken ELSE free_block(taken, header_of(call.old))
           /\ owned' = grant(release(owned, call.old), ptr, call.asked)
    /\ call' = Idle
    /\ UNCHANGED panicked

heap_pages == (SIZE - heap.kheap_top) \div PAGE_SIZE

\* The search fails; kmalloc calls itself after the expansion, and returns NULL
\* from there if the aligned size is 0.
kmalloc_expand ==
    /\ call # Idle /\ panicked = ""
    /\ first_fit(heap, call.size) = NULL
    /\ LET pages == new_pages(heap, call.size)
           top == u64(heap.kheap_top - pages * PAGE_SIZE)
       IN  /\ pages <= FRAMES - heap_pages
           /\ IF top < kheap_max
              THEN panicked' = "kheap_expand" /\ UNCHANGED <<heap, call>>
              ELSE /\ heap' = kheap_expand(heap, pages)
                   /\ call' = IF call.size = 0 THEN Idle ELSE [call EXCEPT !.expanded = TRUE]
                   /\ UNCHANGED panicked
    /\ UNCHANGED owned

\* pmm_alloc panics while kheap_expand maps its pages: the heap never gives a
\* frame back, and others take frames too.
pmm_panic ==
    /\ call # Idle /\ panicked = ""
    /\ first_fit(heap, call.size) = NULL
    /\ panicked' = "pmm_alloc"
    /\ UNCHANGED <<heap, call, owned>>

kfree(ptr) ==
    /\ Ready
    /\ heap' = free_block(heap, header_of(ptr))
    /\ owned' = release(owned, ptr)
    /\ UNCHANGED <<call, panicked>>

krealloc(ptr, size) ==
    /\ Ready
    /\ LET b == header_of(ptr)
           merged == merge_right(heap, b)
           hdr == split_hdr(merged, b, size)
       IN  IF is_free(heap, b) THEN UNCHANGED <<heap, owned, call>>
           ELSE IF merged.hdr[b].size >= size
           THEN /\ heap' = split(merged, b, size)
                /\ owned' = grant(release(owned, ptr), block_start_addr(hdr), size)
                /\ UNCHANGED call
           ELSE /\ heap' = merged
                /\ call' = [size |-> align_up(size), asked |-> size, old |-> ptr,
                            expanded |-> FALSE]
                /\ UNCHANGED owned
    /\ UNCHANGED panicked

\* panic() never returns; the model stops at Astray.
hlt == (panicked # "" \/ Astray) /\ UNCHANGED vars

Next ==
    \/ \E size \in Requests : kmalloc(size)
    \/ kmalloc_found
    \/ kmalloc_expand
    \/ pmm_panic
    \/ \E b \in DOMAIN heap.hdr : kfree(block_start_addr(b))
    \/ \E b \in DOMAIN heap.hdr, size \in Reallocs : krealloc(block_start_addr(b), size)
    \/ hlt

Spec == Init /\ [][Next]_vars

-----------------------------------------------------------------------------
\* "kheap_top MUST be PAGE_SIZE aligned", "block_head always points to memblock_t
\* header closest to kheap_top": the block list runs from kheap_top to VA_END
\* without a gap or an overlap, in both directions, through aligned headers.
BlocksTile ==
    LET hdr == heap.hdr
        after(b) == b + HDR + hdr[b].size
    IN  /\ heap.kheap_top % PAGE_SIZE = 0
        /\ heap.block_head = heap.kheap_top
        /\ \A b \in DOMAIN hdr :
              /\ b % ALIGN = 0 /\ hdr[b].size % ALIGN = 0
              /\ hdr[b].next = IF after(b) = SIZE THEN NULL ELSE after(b)
              /\ hdr[b].prev = NULL => b = heap.block_head
              /\ hdr[b].prev # NULL => after(hdr[b].prev) = b

\* "freelist is a circular doubly linked list", "any block that is_free does not
\* need to do NULL checks": free_next and free_prev are inverse on the free
\* blocks and NULL on the others, and the search of kmalloc sees every free
\* block: all are on the one circle through free_head.  The consistency checks
\* of freelist_remove and merge_left never fire.
FreeListSound ==
    LET hdr == heap.hdr
        free == {b \in DOMAIN hdr : is_free(heap, b)}
    IN  /\ heap.free_head \in IF free = {} THEN {NULL} ELSE free
        /\ \A b \in free : /\ hdr[b].free_next \in free /\ hdr[hdr[b].free_next].free_prev = b
                           /\ hdr[b].free_prev \in free /\ hdr[hdr[b].free_prev].free_next = b
                           /\ \E i \in DOMAIN chain(heap) : chain(heap)[i] = b
        /\ \A b \in DOMAIN hdr \ free : hdr[b].free_next = NULL /\ hdr[b].free_prev = NULL
        /\ ~ heap.err

\* kfree, split and kheap_expand keep the heap coalesced: no two free blocks are
\* neighbours.
Coalesced ==
    \A b \in DOMAIN heap.hdr :
        is_free(heap, b) /\ heap.hdr[b].next # NULL => ~ is_free(heap, heap.hdr[b].next)

\* A pointer that kmalloc or krealloc returned, and that was not freed since, is
\* the start of a block that is in use, is not shorter than was asked for and is
\* aligned; every block in use belongs to some caller.
OwnedInUse ==
    /\ \A p \in DOMAIN owned :
          /\ header_of(p) \in DOMAIN heap.hdr
          /\ ~ is_free(heap, header_of(p))
          /\ heap.hdr[header_of(p)].size >= owned[p]
    /\ \A b \in DOMAIN heap.hdr : ~ is_free(heap, b) => block_start_addr(b) \in DOMAIN owned

\* The same while no caller has strayed into a free block.
OwnedUnlessAstray == ~ Astray => OwnedInUse

\* The expansion that kmalloc computes is enough: its recursive call finds a block.
ExpandOnce == call.expanded => first_fit(heap, call.size) # NULL
==============================================================================
