------------------------------ MODULE PmmProofs ------------------------------
(***************************************************************************)
(* Theorems about Pmm for every page size, memory size, memory map and set *)
(* of request sizes.                                                       *)
(*                                                                         *)
(* The counters and the hint say nothing of who holds which page, and the  *)
(* pages a free releases are known to be used only because they are held:  *)
(* the inductive invariant therefore ties the three views of a page        *)
(* (bitmap, counters, callers) together.                                   *)
(***************************************************************************)
EXTENDS Pmm, FiniteSetTheorems, TLAPS

IInv == TypeOK /\ HeldRanges /\ PagesConserved /\ CountersMatchBitmap

-----------------------------------------------------------------------------
(* Arithmetic of pages and addresses *)

LEMMA PageArithmetic ==
    ASSUME NEW P \in Nat \ {0}, NEW m \in Nat, NEW q \in Nat
    PROVE  /\ (P * q) \div P = q
           /\ m \div P \in Nat
           /\ P * (m \div P) <= m
           /\ m \div P <= m
           /\ q < m \div P => P * q < m
<1>1. (P * q) \div P = q
    OBVIOUS
<1>2. m \div P \in Nat /\ P * (m \div P) <= m /\ m \div P <= m
    OBVIOUS
<1>3. q < m \div P => P * q < m
    OBVIOUS
<1> QED BY <1>1, <1>2, <1>3

LEMMA Distribute ==
    ASSUME NEW P \in Nat, NEW m \in Int, NEW n \in Int
    PROVE  /\ P * (m + n) = P * m + P * n
           /\ P * (m - n) = P * m - P * n
           /\ P * m \in Int
           /\ m <= n => P * m <= P * n
           /\ m >= 0 => P * m >= 0
OBVIOUS

LEMMA ZoneFacts ==
    ASSUME NEW z \in Zones
    PROVE  /\ offset(z) \in Nat
           /\ zone_end(z) \in Nat
           /\ mem_total(z) \in Nat
           /\ bitmap_size(z) \in Nat
           /\ bitmap_size(z) <= mem_size
           /\ PAGE_SIZE * bitmap_size(z) <= mem_total(z)
<1> USE PmmAssumption DEF Zones, PMM_NUM_ZONES, PMM_ZONE_DMA
<1>1. offset(z) \in Nat /\ zone_end(z) \in Nat /\ mem_total(z) \in Nat
      /\ mem_total(z) <= mem_size
    BY DEF offset, zone_end, mem_total
<1>2. QED BY <1>1, PageArithmetic DEF bitmap_size

\* The address of page i of a zone leads pmm_free back to that zone and page.
LEMMA AddressFacts ==
    ASSUME NEW z \in Zones, NEW i \in 0 .. bitmap_size(z) - 1
    PROVE  LET addr == offset(z) + PAGE_SIZE * i
           IN  /\ addr \in Nat
               /\ zone_of(addr) = {z}
               /\ page_idx(z, addr) = i
<1> DEFINE addr == offset(z) + PAGE_SIZE * i
<1>1. i \in Nat /\ i < bitmap_size(z)
    BY ZoneFacts
<1>2. PAGE_SIZE * i \in Nat /\ PAGE_SIZE * i < mem_total(z)
    BY <1>1, ZoneFacts, PageArithmetic, PmmAssumption DEF bitmap_size
<1>3. addr \in Nat
    BY <1>2, ZoneFacts
<1>4. offset(z) <= addr /\ addr < zone_end(z)
    BY <1>2, ZoneFacts DEF mem_total
<1>5. zone_of(addr) = {z}
    BY <1>3, <1>4, PmmAssumption
       DEF zone_of, Zones, offset, zone_end, PMM_NUM_ZONES, PMM_ZONE_DMA
<1>6. page_idx(z, addr) = i
    <2>1. addr - offset(z) = PAGE_SIZE * i
        BY <1>2, ZoneFacts
    <2> QED BY <1>1, <2>1, PageArithmetic, PmmAssumption DEF page_idx
<1> QED BY <1>3, <1>5, <1>6

LEMMA PagesOfMember ==
    ASSUME NEW H, NEW z, NEW p
    PROVE  p \in pages_of(H, z) <=>
             \E f \in H : z \in zone_of(f[1]) /\ p \in range_pages(z, f)
BY DEF pages_of

\* A held range is a run of pages of the one zone that contains its address.
LEMMA RangeFacts ==
    ASSUME NEW z \in Zones, NEW i \in 0 .. bitmap_size(z) - 1, NEW n
    PROVE  LET f == <<offset(z) + PAGE_SIZE * i, n>>
           IN  zone_of(f[1]) = {z} /\ range_pages(z, f) = i .. i + n - 1
BY AddressFacts DEF range_pages, page_idx

-----------------------------------------------------------------------------
(* Counting free pages *)

LEMMA CountPages ==
    ASSUME NEW z \in Zones, NEW S \in SUBSET (0 .. bitmap_size(z) - 1)
    PROVE  /\ IsFiniteSet(S)
           /\ Cardinality(S) \in Nat
           /\ Cardinality(S) <= bitmap_size(z)
<1> DEFINE all == 0 .. bitmap_size(z) - 1
<1>1. bitmap_size(z) \in Nat
    BY ZoneFacts
<1>2. IsFiniteSet(all) /\ Cardinality(all) = bitmap_size(z)
    <2>1. bitmap_size(z) - 1 \in Int
        BY <1>1
    <2>2. /\ IsFiniteSet(all)
          /\ Cardinality(all) = IF 0 > bitmap_size(z) - 1 THEN 0 ELSE bitmap_size(z) - 1 - 0 + 1
        BY <2>1, FS_Interval
    <2> QED BY <1>1, <2>2
<1> HIDE DEF all
<1>3. S \in SUBSET all
    BY DEF all
<1> QED BY <1>2, <1>3, FS_Subset, FS_CardinalityType

LEMMA CountRun ==
    ASSUME NEW S, IsFiniteSet(S), NEW i \in Nat, NEW n \in Nat
    PROVE  /\ i .. i + n - 1 \subseteq S =>
                Cardinality(S \ (i .. i + n - 1)) = Cardinality(S) - n
           /\ S \cap (i .. i + n - 1) = {} =>
                Cardinality(S \cup (i .. i + n - 1)) = Cardinality(S) + n
<1> DEFINE R == i .. i + n - 1
<1>1. IsFiniteSet(R) /\ Cardinality(R) = n
    BY FS_Interval
<1> HIDE DEF R
<1>2. Cardinality(S) \in Nat
    BY FS_CardinalityType
<1>3. ASSUME R \subseteq S PROVE Cardinality(S \ R) = Cardinality(S) - n
    <2>1. S \cap R = R
        BY <1>3
    <2> QED BY <1>1, <2>1, FS_Difference
<1>4. ASSUME S \cap R = {} PROVE Cardinality(S \cup R) = Cardinality(S) + n
    <2>1. Cardinality(S \cup R) = Cardinality(S) + Cardinality(R) - Cardinality(S \cap R)
        BY <1>1, FS_Union
    <2>2. Cardinality(S \cap R) = 0
        BY <1>4, FS_EmptySet
    <2> QED BY <1>1, <1>2, <2>1, <2>2
<1> QED BY <1>3, <1>4 DEF R

\* Counters that match a bitmap are non-negative.
LEMMA CountersAreNat ==
    ASSUME NEW z \in Zones, NEW S \in SUBSET (0 .. bitmap_size(z) - 1),
           NEW free, NEW used \in Int,
           free = PAGE_SIZE * Cardinality(S), free + used = mem_total(z)
    PROVE  free \in Nat /\ used \in Nat
<1> DEFINE c == Cardinality(S)
<1>1. c \in Nat /\ c <= bitmap_size(z)
    BY CountPages
<1>2. bitmap_size(z) \in Nat /\ mem_total(z) \in Nat /\ PAGE_SIZE * bitmap_size(z) <= mem_total(z)
    BY ZoneFacts
<1> HIDE DEF c
<1>3. /\ PAGE_SIZE * c \in Int /\ PAGE_SIZE * bitmap_size(z) \in Int
      /\ PAGE_SIZE * c >= 0 /\ PAGE_SIZE * c <= PAGE_SIZE * bitmap_size(z)
    BY <1>1, <1>2, Distribute, PmmAssumption
<1>4. free = PAGE_SIZE * c
    BY DEF c
<1> QED BY <1>2, <1>3, <1>4

-----------------------------------------------------------------------------
(* pmm_alloc *)

\* What a successful search tells of the pages it found.
LEMMA FoundFacts ==
    ASSUME IInv, NEW z \in Zones, NEW n \in Sizes,
           NEW idx \in 0 .. bitmap_size(z) - 1, Found(z, n, idx)
    PROVE  /\ n > 0
           /\ idx + n <= bitmap_size(z)
           /\ idx .. idx + n - 1 \subseteq free_pages(z)
<1>1. bitmap_size(z) \in Nat /\ bitmap_size(z) <= mem_size
    BY ZoneFacts
<1>2. idx # SIZE_MAX
    BY <1>1, PmmAssumption
<1>3. IsFirstRun(bitmap[z], bitmap_size(z), first_free_idx[z], FALSE, n, idx)
    BY <1>2 DEF Found, bitmap_find_range, PMM_FREE
<1>4. n > 0 /\ idx + n <= bitmap_size(z)
      /\ \A k \in idx .. idx + n - 1 : k \notin bitmap[z]
    BY <1>3 DEF IsFirstRun, RunAt, bitmap_get
<1>5. n \in Nat
    BY PmmAssumption
<1> QED BY <1>1, <1>4, <1>5 DEF free_pages

LEMMA TakeIInv ==
    ASSUME IInv, NEW zone \in Zones, NEW size \in Sizes,
           NEW idx \in 0 .. bitmap_size(zone) - 1,
           Found(zone, size, idx), Take(zone, size, idx)
    PROVE  IInv'
<1> DEFINE R == idx .. idx + size - 1
           new == <<offset(zone) + PAGE_SIZE * idx, size>>
<1>0. /\ size \in Nat /\ size > 0 /\ idx + size <= bitmap_size(zone)
      /\ R \subseteq free_pages(zone)
      /\ bitmap_size(zone) \in Nat /\ idx \in Nat
    BY FoundFacts, ZoneFacts, PmmAssumption
<1>1. held' = held \cup {new}
    BY DEF Take, bytes
<1>2. zone_of(new[1]) = {zone} /\ range_pages(zone, new) = R
    BY RangeFacts
<1>3. \A z \in Zones : free_pages(z)' = IF z = zone THEN free_pages(z) \ R ELSE free_pages(z)
    BY DEF Take, IInv, TypeOK, free_pages, bitmap_set_range
<1>4. \A z \in Zones : held_pages(z)' = IF z = zone THEN held_pages(z) \cup R ELSE held_pages(z)
    <2> SUFFICES ASSUME NEW z \in Zones, NEW p
                 PROVE  p \in pages_of(held', z) <=>
                          p \in IF z = zone THEN pages_of(held, z) \cup R ELSE pages_of(held, z)
        BY DEF held_pages, pages_of, zone_of, range_pages
    <2> HIDE DEF R, new
    <2> QED BY <1>1, <1>2, PagesOfMember
<1>5. PagesConserved'
    <2> SUFFICES ASSUME NEW z \in Zones
                 PROVE  /\ free_pages(z)' \cup held_pages(z)' = usable[z]
                        /\ free_pages(z)' \cap held_pages(z)' = {}
        BY DEF PagesConserved, Take
    <2>1. free_pages(z) \cup held_pages(z) = usable[z] /\ free_pages(z) \cap held_pages(z) = {}
        BY DEF IInv, PagesConserved
    <2> HIDE DEF R
    <2> QED BY <1>0, <1>3, <1>4, <2>1
<1>6. HeldRanges'
    <2>1. \A f \in held' :
            \E z \in Zones : \E i \in 0 .. bitmap_size(z) - 1 :
                /\ f[1] = offset(z) + PAGE_SIZE * i
                /\ f[2] > 0
                /\ i + f[2] <= bitmap_size(z)
        BY <1>0, <1>1 DEF IInv, HeldRanges
    <2>2. ASSUME NEW f \in held, zone \in zone_of(f[1])
          PROVE  range_pages(zone, f) \cap R = {}
        <3>1. range_pages(zone, f) \subseteq held_pages(zone)
            BY <2>2, PagesOfMember DEF held_pages
        <3> QED BY <1>0, <3>1 DEF IInv, PagesConserved
    <2>3. ASSUME NEW f \in held', NEW g \in held', NEW z \in zone_of(f[1]) \cap zone_of(g[1]),
                 f # g
          PROVE  range_pages(z, f) \cap range_pages(z, g) = {}
        <3> HIDE DEF R, new
        <3>1. CASE f \in held /\ g \in held
            BY <2>3, <3>1 DEF IInv, HeldRanges
        <3>2. CASE f = new \/ g = new
            BY <1>1, <1>2, <2>2, <2>3, <3>2
        <3> QED BY <1>1, <3>1, <3>2
    <2> QED BY <2>1, <2>3 DEF HeldRanges, range_pages, zone_of
<1>7. CountersMatchBitmap'
    <2> SUFFICES ASSUME NEW z \in Zones
                 PROVE  /\ mem_free'[z] = PAGE_SIZE * Cardinality(free_pages(z)')
                        /\ mem_free'[z] + mem_used'[z] = mem_total(z)
        BY DEF CountersMatchBitmap
    <2>1. /\ mem_free[z] = PAGE_SIZE * Cardinality(free_pages(z))
          /\ mem_free[z] + mem_used[z] = mem_total(z)
          /\ mem_free[z] \in Nat /\ mem_used[z] \in Nat
        BY DEF IInv, CountersMatchBitmap, TypeOK
    <2>2. CASE z # zone
        BY <1>3, <2>1, <2>2 DEF Take, IInv, TypeOK
    <2>3. CASE z = zone
        <3>1. Cardinality(free_pages(z)') = Cardinality(free_pages(z)) - size
            <4>1. IsFiniteSet(free_pages(zone))
                BY CountPages DEF free_pages
            <4>2. free_pages(zone)' = free_pages(zone) \ R
                BY <1>3
            <4>3. Cardinality(free_pages(zone) \ R) = Cardinality(free_pages(zone)) - size
                BY <1>0, <4>1, CountRun
            <4> QED BY <2>3, <4>2, <4>3
        <3>2. mem_free'[z] = mem_free[z] - PAGE_SIZE * size
              /\ mem_used'[z] = mem_used[z] + PAGE_SIZE * size
            BY <2>3 DEF Take, IInv, TypeOK, bytes
        <3>3. Cardinality(free_pages(z)) \in Nat /\ PAGE_SIZE \in Nat
            BY CountPages, PmmAssumption DEF free_pages
        <3>4. PAGE_SIZE * (Cardinality(free_pages(z)) - size)
                = PAGE_SIZE * Cardinality(free_pages(z)) - PAGE_SIZE * size
              /\ PAGE_SIZE * size \in Int
            BY <1>0, <3>3, Distribute
        <3> QED BY <2>1, <3>1, <3>2, <3>4
    <2> QED BY <2>2, <2>3
<1>8. TypeOK'
    <2>1. /\ bitmap' \in [Zones -> SUBSET Nat]
          /\ \A z \in Zones : bitmap'[z] \subseteq 0 .. bitmap_size(z) - 1
        BY <1>0 DEF Take, IInv, TypeOK, bitmap_set_range
    <2>2. mem_free' \in [Zones -> Nat] /\ mem_used' \in [Zones -> Nat]
        <3>1. /\ mem_free' \in [Zones -> Int] /\ mem_used' \in [Zones -> Int]
            BY <1>0, Distribute, PmmAssumption DEF Take, IInv, TypeOK, bytes
        <3>2. ASSUME NEW z \in Zones PROVE mem_free'[z] \in Nat /\ mem_used'[z] \in Nat
            <4>1. /\ mem_free'[z] = PAGE_SIZE * Cardinality(free_pages(z)')
                  /\ mem_free'[z] + mem_used'[z] = mem_total(z)
                BY <1>7 DEF CountersMatchBitmap
            <4>2. free_pages(z)' \in SUBSET (0 .. bitmap_size(z) - 1)
                BY DEF free_pages
            <4> QED BY <3>1, <4>1, <4>2, CountersAreNat
        <3> QED BY <3>1, <3>2
    <2>3. first_free_idx' \in [Zones -> (0 .. mem_size) \cup {SIZE_MAX}]
        BY <1>0, ZoneFacts, PmmAssumption DEF Take, IInv, TypeOK
    <2>4. held' \subseteq Nat \X Sizes
        BY <1>1, AddressFacts DEF IInv, TypeOK
    <2> QED BY <2>1, <2>2, <2>3, <2>4 DEF TypeOK, Take, IInv
<1> QED BY <1>5, <1>6, <1>7, <1>8 DEF IInv

-----------------------------------------------------------------------------
(* pmm_free *)

\* The zone and page index pmm_free computes for a range its caller holds.
LEMMA HeldFacts ==
    ASSUME IInv, NEW f \in held
    PROVE  \E z \in Zones : \E i \in 0 .. bitmap_size(z) - 1 :
             /\ f = <<offset(z) + PAGE_SIZE * i, f[2]>>
             /\ f[2] \in Nat /\ f[2] > 0 /\ i + f[2] <= bitmap_size(z)
             /\ zone_of(f[1]) = {z}
             /\ page_idx(z, f[1]) = i
             /\ range_pages(z, f) = i .. i + f[2] - 1
<1>1. f \in Nat \X Sizes
    BY DEF IInv, TypeOK
<1>z. PICK z \in Zones : \E i \in 0 .. bitmap_size(z) - 1 :
         f[1] = offset(z) + PAGE_SIZE * i /\ f[2] > 0 /\ i + f[2] <= bitmap_size(z)
    BY DEF IInv, HeldRanges
<1>2. PICK i \in 0 .. bitmap_size(z) - 1 :
         f[1] = offset(z) + PAGE_SIZE * i /\ f[2] > 0 /\ i + f[2] <= bitmap_size(z)
    BY <1>z
<1>3. f = <<offset(z) + PAGE_SIZE * i, f[2]>> /\ f[2] \in Nat
    <2>1. f = <<f[1], f[2]>> /\ f[2] \in Sizes
        BY <1>1
    <2> QED BY <1>2, <2>1, PmmAssumption
<1>4. zone_of(f[1]) = {z} /\ page_idx(z, f[1]) = i
    BY <1>2, AddressFacts
<1>5. range_pages(z, f) = i .. i + f[2] - 1
    BY <1>4 DEF range_pages, page_idx
<1> QED BY <1>2, <1>3, <1>4, <1>5

LEMMA FreeIInv ==
    ASSUME IInv, NEW f \in held, pmm_free(f[1], f[2])
    PROVE  IInv'
<1>z. PICK zone \in Zones : \E idx \in 0 .. bitmap_size(zone) - 1 :
         /\ f = <<offset(zone) + PAGE_SIZE * idx, f[2]>>
         /\ f[2] \in Nat /\ f[2] > 0 /\ idx + f[2] <= bitmap_size(zone)
         /\ zone_of(f[1]) = {zone}
         /\ page_idx(zone, f[1]) = idx
         /\ range_pages(zone, f) = idx .. idx + f[2] - 1
    BY HeldFacts
<1>0. PICK idx \in 0 .. bitmap_size(zone) - 1 :
         /\ f = <<offset(zone) + PAGE_SIZE * idx, f[2]>>
         /\ f[2] \in Nat /\ f[2] > 0 /\ idx + f[2] <= bitmap_size(zone)
         /\ zone_of(f[1]) = {zone}
         /\ page_idx(zone, f[1]) = idx
         /\ range_pages(zone, f) = idx .. idx + f[2] - 1
    BY <1>z
<1> DEFINE size == f[2]
           R == idx .. idx + size - 1
<1>1. /\ bitmap_size(zone) \in Nat /\ bitmap_size(zone) <= mem_size
      /\ idx \in Nat /\ R \subseteq 0 .. bitmap_size(zone) - 1
    BY <1>0, ZoneFacts
<1>2. /\ bitmap' = [bitmap EXCEPT ![zone] = @ \ R]
      /\ mem_free' = [mem_free EXCEPT ![zone] = @ + PAGE_SIZE * size]
      /\ mem_used' = [mem_used EXCEPT ![zone] = @ - PAGE_SIZE * size]
      /\ first_free_idx' = [first_free_idx EXCEPT ![zone] = IF idx < @ THEN idx ELSE @]
      /\ held' = held \ {f}
      /\ UNCHANGED <<panicked, usable>>
    BY <1>0 DEF pmm_free, bytes, lower_hint, bitmap_clear_range
<1>3. R \subseteq held_pages(zone)
    BY <1>0, PagesOfMember DEF held_pages
<1>4. R \cap free_pages(zone) = {}
    BY <1>3 DEF IInv, PagesConserved
<1>5. \A z \in Zones : free_pages(z)' = IF z = zone THEN free_pages(z) \cup R ELSE free_pages(z)
    BY <1>1, <1>2 DEF IInv, TypeOK, free_pages
<1>6. \A z \in Zones : held_pages(z)' = IF z = zone THEN held_pages(z) \ R ELSE held_pages(z)
    <2> SUFFICES ASSUME NEW z \in Zones, NEW p
                 PROVE  p \in pages_of(held', z) <=>
                          p \in IF z = zone THEN pages_of(held, z) \ R ELSE pages_of(held, z)
        BY DEF held_pages, pages_of, zone_of, range_pages
    <2>1. \A g \in held' : z \in zone_of(g[1]) /\ z = zone => range_pages(z, g) \cap R = {}
        BY <1>0, <1>2 DEF IInv, HeldRanges
    <2>2. p \in pages_of(held', z) <=>
            \E g \in held' : z \in zone_of(g[1]) /\ p \in range_pages(z, g)
        BY PagesOfMember
    <2>3. p \in pages_of(held, z) <=>
            \E g \in held : z \in zone_of(g[1]) /\ p \in range_pages(z, g)
        BY PagesOfMember
    <2> HIDE DEF R
    <2>4. range_pages(zone, f) = R
        BY <1>0 DEF R
    <2> QED BY <1>0, <1>2, <2>1, <2>2, <2>3, <2>4
<1>7. PagesConserved'
    <2> SUFFICES ASSUME NEW z \in Zones
                 PROVE  /\ free_pages(z)' \cup held_pages(z)' = usable[z]
                        /\ free_pages(z)' \cap held_pages(z)' = {}
        BY <1>2 DEF PagesConserved
    <2>1. free_pages(z) \cup held_pages(z) = usable[z] /\ free_pages(z) \cap held_pages(z) = {}
        BY DEF IInv, PagesConserved
    <2> HIDE DEF R
    <2> QED BY <1>3, <1>5, <1>6, <2>1
<1>8. HeldRanges'
    BY <1>2 DEF IInv, HeldRanges, range_pages, zone_of
<1>9. CountersMatchBitmap'
    <2> SUFFICES ASSUME NEW z \in Zones
                 PROVE  /\ mem_free'[z] = PAGE_SIZE * Cardinality(free_pages(z)')
                        /\ mem_free'[z] + mem_used'[z] = mem_total(z)
        BY DEF CountersMatchBitmap
    <2>1. /\ mem_free[z] = PAGE_SIZE * Cardinality(free_pages(z))
          /\ mem_free[z] + mem_used[z] = mem_total(z)
          /\ mem_free[z] \in Nat /\ mem_used[z] \in Nat
        BY DEF IInv, CountersMatchBitmap, TypeOK
    <2>2. CASE z # zone
        BY <1>2, <1>5, <2>1, <2>2 DEF IInv, TypeOK
    <2>3. CASE z = zone
        <3>1. Cardinality(free_pages(zone)') = Cardinality(free_pages(zone)) + size
            <4>1. IsFiniteSet(free_pages(zone))
                BY CountPages DEF free_pages
            <4>2. free_pages(zone)' = free_pages(zone) \cup R
                BY <1>5
            <4>3. Cardinality(free_pages(zone) \cup R) = Cardinality(free_pages(zone)) + size
                BY <1>0, <1>1, <1>4, <4>1, CountRun
            <4> QED BY <4>2, <4>3
        <3>2. mem_free'[z] = mem_free[z] + PAGE_SIZE * size
              /\ mem_used'[z] = mem_used[z] - PAGE_SIZE * size
            BY <1>2, <2>3 DEF IInv, TypeOK
        <3>3. Cardinality(free_pages(z)) \in Nat /\ PAGE_SIZE \in Nat
            BY CountPages, PmmAssumption DEF free_pages
        <3>4. PAGE_SIZE * (Cardinality(free_pages(z)) + size)
                = PAGE_SIZE * Cardinality(free_pages(z)) + PAGE_SIZE * size
              /\ PAGE_SIZE * size \in Int
            BY <1>0, <3>3, Distribute
        <3> QED BY <2>1, <2>3, <3>1, <3>2, <3>4
    <2> QED BY <2>2, <2>3
<1>10. TypeOK'
    <2>1. /\ bitmap' \in [Zones -> SUBSET Nat]
          /\ \A z \in Zones : bitmap'[z] \subseteq 0 .. bitmap_size(z) - 1
        BY <1>2 DEF IInv, TypeOK
    <2>2. mem_free' \in [Zones -> Nat] /\ mem_used' \in [Zones -> Nat]
        <3>1. /\ mem_free' \in [Zones -> Int] /\ mem_used' \in [Zones -> Int]
            BY <1>0, <1>2, Distribute, PmmAssumption DEF IInv, TypeOK
        <3>2. ASSUME NEW z \in Zones PROVE mem_free'[z] \in Nat /\ mem_used'[z] \in Nat
            <4>1. /\ mem_free'[z] = PAGE_SIZE * Cardinality(free_pages(z)')
                  /\ mem_free'[z] + mem_used'[z] = mem_total(z)
                BY <1>9 DEF CountersMatchBitmap
            <4>2. free_pages(z)' \in SUBSET (0 .. bitmap_size(z) - 1)
                BY DEF free_pages
            <4> QED BY <3>1, <4>1, <4>2, CountersAreNat
        <3> QED BY <3>1, <3>2
    <2>3. first_free_idx' \in [Zones -> (0 .. mem_size) \cup {SIZE_MAX}]
        BY <1>1, <1>2, PmmAssumption DEF IInv, TypeOK
    <2> QED BY <1>2, <2>1, <2>2, <2>3 DEF TypeOK, IInv
<1> QED BY <1>7, <1>8, <1>9, <1>10 DEF IInv

-----------------------------------------------------------------------------
(* The invariant *)

LEMMA InitIInv == Init => IInv
<1> SUFFICES ASSUME Init PROVE IInv
    OBVIOUS
<1>1. \A z \in Zones : usable[z] \in SUBSET (0 .. bitmap_size(z) - 1)
    BY DEF Init
<1>2. \A z \in Zones : free_pages(z) = usable[z]
    BY <1>1 DEF Init, free_pages
<1>3. \A z \in Zones : held_pages(z) = {}
    BY DEF Init, held_pages, pages_of
<1>4. PagesConserved
    BY <1>2, <1>3 DEF PagesConserved
<1>5. HeldRanges
    BY DEF Init, HeldRanges
<1>6. ASSUME NEW z \in Zones
      PROVE  /\ mem_free[z] = PAGE_SIZE * Cardinality(usable[z])
             /\ mem_used[z] = mem_total(z) - mem_free[z]
             /\ mem_free[z] \in Nat /\ mem_used[z] \in Nat
             /\ mem_free[z] + mem_used[z] = mem_total(z)
    <2>1. /\ mem_free[z] = PAGE_SIZE * Cardinality(usable[z])
          /\ mem_used[z] = mem_total(z) - mem_free[z]
        BY DEF Init
    <2>2. Cardinality(usable[z]) \in Nat
        BY <1>1, CountPages
    <2>3. mem_free[z] \in Int /\ mem_total(z) \in Nat
        BY <2>1, <2>2, Distribute, ZoneFacts, PmmAssumption
    <2>4. mem_used[z] \in Int /\ mem_free[z] + mem_used[z] = mem_total(z)
        BY <2>1, <2>3
    <2>5. mem_free[z] \in Nat /\ mem_used[z] \in Nat
        BY <1>1, <2>1, <2>4, CountersAreNat
    <2> QED BY <2>1, <2>4, <2>5
<1>7. CountersMatchBitmap
    BY <1>2, <1>6 DEF CountersMatchBitmap
<1>8. TypeOK
    <2>1. mem_size \div PAGE_SIZE \in Nat /\ mem_size \div PAGE_SIZE <= mem_size
        BY PageArithmetic, PmmAssumption
    <2>2. first_free_idx \in [Zones -> (0 .. mem_size) \cup {SIZE_MAX}]
        BY <2>1, PmmAssumption DEF Init
    <2>3. mem_free \in [Zones -> Nat] /\ mem_used \in [Zones -> Nat]
        BY <1>6 DEF Init
    <2> QED BY <1>1, <2>2, <2>3 DEF Init, TypeOK
<1> QED BY <1>4, <1>5, <1>7, <1>8 DEF IInv

\* Steps that change nothing IInv speaks of.
LEMMA StutterIInv ==
    IInv /\ UNCHANGED <<zone_vars, held, usable>> => IInv'
BY DEF IInv, TypeOK, HeldRanges, PagesConserved, CountersMatchBitmap,
       free_pages, held_pages, pages_of, range_pages, zone_of, zone_vars

LEMMA NextIInv == IInv /\ [Next]_vars => IInv'
<1> SUFFICES ASSUME IInv, [Next]_vars PROVE IInv'
    OBVIOUS
<1>1. ASSUME NEW zone \in Zones, NEW size \in Sizes, pmm_alloc(zone, size) PROVE IInv'
    <2>1. CASE panic(<<"pmm_alloc", zone, size>>)
        BY <2>1, StutterIInv DEF panic
    <2>2. ASSUME NEW idx \in 0 .. bitmap_size(zone) - 1,
                 Found(zone, size, idx), Take(zone, size, idx)
          PROVE  IInv'
        BY <2>2, TakeIInv
    <2> QED BY <1>1, <2>1, <2>2 DEF pmm_alloc
<1>2. ASSUME NEW f \in held \cup {<<mem_size, 1>>}, pmm_free(f[1], f[2]) PROVE IInv'
    <2>1. CASE f \in held
        BY <1>2, <2>1, FreeIInv
    <2>2. CASE f = <<mem_size, 1>>
        <3>1. zone_of(mem_size) = {}
            BY PmmAssumption DEF zone_of, Zones, offset, zone_end, PMM_NUM_ZONES, PMM_ZONE_DMA
        <3>2. panic(<<"pmm_free", mem_size>>)
            BY <1>2, <2>2, <3>1 DEF pmm_free
        <3> QED BY <3>2, StutterIInv DEF panic
    <2> QED BY <2>1, <2>2
<1>3. CASE UNCHANGED vars
    BY <1>3, StutterIInv DEF vars
<1> QED BY <1>1, <1>2, <1>3 DEF Next, hlt

THEOREM SpecIInv == Spec => []IInv
BY InitIInv, NextIInv, PTL DEF Spec

\* The counters never wrap and no bit past a bitmap's end is ever set, for
\* every memory size, memory map and sequence of calls.
THEOREM PmmTypeOK == Spec => []TypeOK
<1>1. IInv => TypeOK
    BY DEF IInv
<1> QED BY SpecIInv, <1>1, PTL

\* No page is lost, invented or both free and held, however the requests of
\* all sizes and the frees interleave.
THEOREM PmmPagesConserved == Spec => []PagesConserved
<1>1. IInv => PagesConserved
    BY DEF IInv
<1> QED BY SpecIInv, <1>1, PTL

\* mem_free is the number of bytes of the free pages, and mem_free and
\* mem_used add up to mem_total.
THEOREM PmmCounters == Spec => []CountersMatchBitmap
<1>1. IInv => CountersMatchBitmap
    BY DEF IInv
<1> QED BY SpecIInv, <1>1, PTL

\* Two page runs of the zones that share no page share no byte.
LEMMA RunsDisjoint ==
    ASSUME NEW y \in Zones, NEW i \in 0 .. bitmap_size(y) - 1,
           NEW m \in Nat \ {0}, i + m <= bitmap_size(y),
           NEW z \in Zones, NEW j \in 0 .. bitmap_size(z) - 1,
           NEW n \in Nat \ {0}, j + n <= bitmap_size(z),
           y = z => (i .. i + m - 1) \cap (j .. j + n - 1) = {}
    PROVE  Disjoint(<<offset(y) + PAGE_SIZE * i, m>>, <<offset(z) + PAGE_SIZE * j, n>>)
<1> DEFINE P == PAGE_SIZE
<1>1. /\ P \in Nat /\ i \in Nat /\ j \in Nat
      /\ bitmap_size(y) \in Nat /\ bitmap_size(z) \in Nat
      /\ offset(y) \in Nat /\ offset(z) \in Nat
      /\ P * bitmap_size(y) <= zone_end(y) - offset(y)
      /\ P * bitmap_size(z) <= zone_end(z) - offset(z)
      /\ zone_end(y) \in Nat /\ zone_end(z) \in Nat
    BY ZoneFacts, PmmAssumption DEF mem_total
<1>2. /\ P * (i + m) = P * i + P * m /\ P * (j + n) = P * j + P * n
      /\ P * (i + m) <= P * bitmap_size(y) /\ P * (j + n) <= P * bitmap_size(z)
      /\ P * i \in Int /\ P * m \in Int /\ P * j \in Int /\ P * n \in Int
      /\ P * i >= 0 /\ P * j >= 0
      /\ P * bitmap_size(y) \in Int /\ P * bitmap_size(z) \in Int
    BY <1>1, Distribute
<1>3. CASE y = z
    <2>1. i + m <= j \/ j + n <= i
        <3>1. j \in j .. j + n - 1 /\ i \in i .. i + m - 1
            BY <1>1
        <3>2. j \notin i .. i + m - 1 /\ i \notin j .. j + n - 1
            BY <1>3, <3>1
        <3> QED BY <1>1, <3>2
    <2>2. P * (i + m) <= P * j \/ P * (j + n) <= P * i
        BY <1>1, <2>1, Distribute
    <2>3. offset(y) + P * i + P * m <= offset(z) + P * j
          \/ offset(z) + P * j + P * n <= offset(y) + P * i
        BY <1>1, <1>2, <1>3, <2>2
    <2> QED BY <2>3 DEF Disjoint
<1>4. CASE y # z
    <2>1. (zone_end(y) = offset(z)) \/ (zone_end(z) = offset(y))
        BY <1>4 DEF Zones, zone_end, offset, PMM_NUM_ZONES, PMM_ZONE_DMA
    <2>2. /\ offset(y) + P * i + P * m <= zone_end(y)
          /\ offset(z) + P * j + P * n <= zone_end(z)
        BY <1>1, <1>2
    <2>3. offset(y) + P * i + P * m <= offset(z) + P * j
          \/ offset(z) + P * j + P * n <= offset(y) + P * i
        BY <1>1, <1>2, <2>1, <2>2
    <2> QED BY <2>3 DEF Disjoint
<1> QED BY <1>3, <1>4

\* pmm_alloc never returns memory of which a caller holds a byte, for every
\* mix of request sizes.
THEOREM PmmGrantsFresh == Spec => []GrantsFresh
<1>1. IInv => GrantsFresh
    <2> SUFFICES ASSUME IInv, NEW z \in Zones, NEW n \in Sizes,
                        NEW idx \in 0 .. bitmap_size(z) - 1, Found(z, n, idx),
                        NEW f \in held
                 PROVE  Disjoint(f, <<offset(z) + PAGE_SIZE * idx, n>>)
        BY DEF GrantsFresh
    <2>1. /\ n \in Nat \ {0} /\ idx + n <= bitmap_size(z)
          /\ idx .. idx + n - 1 \subseteq free_pages(z)
        BY FoundFacts, PmmAssumption
    <2>2. PICK y \in Zones : \E i \in 0 .. bitmap_size(y) - 1 :
             /\ f = <<offset(y) + PAGE_SIZE * i, f[2]>>
             /\ f[2] \in Nat /\ f[2] > 0 /\ i + f[2] <= bitmap_size(y)
             /\ zone_of(f[1]) = {y}
             /\ range_pages(y, f) = i .. i + f[2] - 1
        BY HeldFacts
    <2>3. PICK i \in 0 .. bitmap_size(y) - 1 :
             /\ f = <<offset(y) + PAGE_SIZE * i, f[2]>>
             /\ f[2] \in Nat /\ f[2] > 0 /\ i + f[2] <= bitmap_size(y)
             /\ zone_of(f[1]) = {y}
             /\ range_pages(y, f) = i .. i + f[2] - 1
        BY <2>2
    <2>4. i .. i + f[2] - 1 \subseteq held_pages(y)
        BY <2>3, PagesOfMember DEF held_pages
    <2>5. y = z => (i .. i + f[2] - 1) \cap (idx .. idx + n - 1) = {}
        BY <2>1, <2>4 DEF IInv, PagesConserved
    <2>6. Disjoint(<<offset(y) + PAGE_SIZE * i, f[2]>>, <<offset(z) + PAGE_SIZE * idx, n>>)
        <3>1. f[2] \in Nat \ {0} /\ i + f[2] <= bitmap_size(y)
            BY <2>3
        <3> QED BY <2>1, <2>5, <3>1, RunsDisjoint
    <2> QED BY <2>3, <2>6
<1> QED BY SpecIInv, <1>1, PTL
=============================================================================
