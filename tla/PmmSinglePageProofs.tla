------------------------ MODULE PmmSinglePageProofs --------------------------
(***************************************************************************)
(* Pmm when every request is for one page, as all requests of the kernel   *)
(* are: the hint never hides a free page, pmm_alloc panics only when the   *)
(* zone is full, and Pmm implements FrameAllocator.                        *)
(***************************************************************************)
EXTENDS PmmProofs

SInv == IInv /\ HintSound /\ PanicMeansNoRun

LEMMA PanicTuples ==
    /\ \A z, n : <<"pmm_alloc", z, n>> # <<>>
    /\ \A z, n, a : <<"pmm_alloc", z, n>> # <<"pmm_free", a>>
    /\ \A a : <<"pmm_free", a>> # <<>>
OBVIOUS

\* With one-page requests the search stops at the lowest free page that is
\* not below the hint.
LEMMA FoundOne ==
    ASSUME SInv, NEW z \in Zones, NEW idx \in 0 .. bitmap_size(z) - 1, Found(z, 1, idx)
    PROVE  idx \in free_pages(z) /\ \A i \in free_pages(z) : idx <= i
<1>1. bitmap_size(z) \in Nat /\ idx # SIZE_MAX
    BY ZoneFacts, PmmAssumption
<1>2. IsFirstRun(bitmap[z], bitmap_size(z), first_free_idx[z], FALSE, 1, idx)
    BY <1>1 DEF Found, bitmap_find_range, PMM_FREE
<1>3. idx \in free_pages(z)
    BY <1>1, <1>2 DEF IsFirstRun, RunAt, bitmap_get, free_pages
<1>4. ASSUME NEW i \in free_pages(z), i < idx PROVE FALSE
    <2>1. first_free_idx[z] <= i /\ i \in Nat /\ first_free_idx[z] \in Nat
        BY PmmAssumption DEF SInv, HintSound, IInv, TypeOK, free_pages
    <2>2. i \in first_free_idx[z] .. idx - 1
        BY <1>1, <1>4, <2>1
    <2>3. RunAt(bitmap[z], bitmap_size(z), FALSE, 1, i)
        BY <1>1, <2>1 DEF RunAt, bitmap_get, free_pages
    <2> QED BY <1>2, <2>2, <2>3 DEF IsFirstRun
<1> QED BY <1>1, <1>3, <1>4 DEF free_pages

\* A search for one page that fails means that the zone is full.
LEMMA NotFoundOne ==
    ASSUME SInv, NEW z \in Zones, Found(z, 1, SIZE_MAX)
    PROVE  free_pages(z) = {}
<1>1. bitmap_size(z) \in Nat /\ bitmap_size(z) <= mem_size /\ SIZE_MAX > mem_size /\ SIZE_MAX \in Nat
      /\ mem_size \in Nat
    BY ZoneFacts, PmmAssumption
<1>2. \A j \in first_free_idx[z] .. bitmap_size(z) - 1 :
        ~ RunAt(bitmap[z], bitmap_size(z), FALSE, 1, j)
    <2>1. ~ (SIZE_MAX < bitmap_size(z))
        BY <1>1
    <2>2. NoRun(bitmap[z], bitmap_size(z), first_free_idx[z], FALSE, 1)
        BY <2>1 DEF Found, bitmap_find_range, PMM_FREE
    <2>3. 1 # 0
        OBVIOUS
    <2> QED BY <2>2, <2>3, Zenon DEF NoRun
<1>3. ASSUME NEW i \in free_pages(z) PROVE FALSE
    <2>1. first_free_idx[z] <= i /\ i \in Nat /\ first_free_idx[z] \in Nat /\ i < bitmap_size(z)
        BY <1>1 DEF SInv, HintSound, IInv, TypeOK, free_pages
    <2>2. RunAt(bitmap[z], bitmap_size(z), FALSE, 1, i)
        BY <1>1, <2>1 DEF RunAt, bitmap_get, free_pages
    <2>3. i \in first_free_idx[z] .. bitmap_size(z) - 1
        BY <1>1, <2>1
    <2> QED BY <1>2, <2>2, <2>3
<1> QED BY <1>3

LEMMA InitSInv == Init => SInv
<1> SUFFICES ASSUME Init PROVE SInv
    OBVIOUS
<1>1. HintSound
    BY DEF Init, HintSound, free_pages
<1>2. PanicMeansNoRun
    BY PanicTuples DEF Init, PanicMeansNoRun
<1> QED BY <1>1, <1>2, InitIInv DEF SInv

\* The effect of a one-page pmm_alloc on the free pages.
LEMMA TakeOne ==
    ASSUME SInv, NEW zone \in Zones, NEW idx \in 0 .. bitmap_size(zone) - 1,
           Found(zone, 1, idx), Take(zone, 1, idx)
    PROVE  \A z \in Zones :
             free_pages(z)' = IF z = zone THEN free_pages(z) \ {idx} ELSE free_pages(z)
<1>1. idx .. idx + 1 - 1 = {idx}
    BY ZoneFacts
<1> QED BY <1>1 DEF Take, SInv, IInv, TypeOK, free_pages, bitmap_set_range

\* The effect of freeing a page that a caller holds.
LEMMA FreeOne ==
    ASSUME SInv, Sizes = {1}, NEW f \in held, pmm_free(f[1], f[2])
    PROVE  \E zone \in Zones : \E idx \in 0 .. bitmap_size(zone) - 1 :
             /\ f = <<offset(zone) + PAGE_SIZE * idx, 1>>
             /\ \A z \in Zones :
                  free_pages(z)' = IF z = zone THEN free_pages(z) \cup {idx} ELSE free_pages(z)
             /\ first_free_idx' = [first_free_idx EXCEPT ![zone] = lower_hint(@, idx)]
             /\ held' = held \ {f}
             /\ UNCHANGED <<panicked, usable>>
<1>1. f[2] = 1
    BY DEF SInv, IInv, TypeOK
<1>2. PICK zone \in Zones : \E idx \in 0 .. bitmap_size(zone) - 1 :
         f = <<offset(zone) + PAGE_SIZE * idx, 1>> /\ zone_of(f[1]) = {zone}
         /\ page_idx(zone, f[1]) = idx
    BY <1>1, HeldFacts DEF SInv
<1>3. PICK idx \in 0 .. bitmap_size(zone) - 1 :
         f = <<offset(zone) + PAGE_SIZE * idx, 1>> /\ zone_of(f[1]) = {zone}
         /\ page_idx(zone, f[1]) = idx
    BY <1>2
<1>4. idx .. idx + 1 - 1 = {idx}
    BY ZoneFacts
<1>5. /\ bitmap' = [bitmap EXCEPT ![zone] = @ \ {idx}]
      /\ first_free_idx' = [first_free_idx EXCEPT ![zone] = lower_hint(@, idx)]
      /\ held' = held \ {f}
      /\ UNCHANGED <<panicked, usable>>
    BY <1>1, <1>3, <1>4 DEF pmm_free, bitmap_clear_range
<1>6. \A z \in Zones :
        free_pages(z)' = IF z = zone THEN free_pages(z) \cup {idx} ELSE free_pages(z)
    BY <1>5 DEF SInv, IInv, TypeOK, free_pages
<1> QED BY <1>3, <1>5, <1>6

LEMMA BadFree ==
    ASSUME pmm_free(mem_size, 1)
    PROVE  panicked = <<>> /\ panicked' = <<"pmm_free", mem_size>>
           /\ UNCHANGED <<zone_vars, held, usable>>
<1>1. zone_of(mem_size) = {}
    BY PmmAssumption DEF zone_of, Zones, offset, zone_end, PMM_NUM_ZONES, PMM_ZONE_DMA
<1> QED BY <1>1 DEF pmm_free, panic

LEMMA NextSInv ==
    ASSUME Sizes = {1}, SInv, [Next]_vars
    PROVE  SInv'
<1> SUFFICES HintSound' /\ PanicMeansNoRun'
    BY NextIInv DEF SInv
<1>1. ASSUME NEW zone \in Zones, NEW idx \in 0 .. bitmap_size(zone) - 1,
             panicked = <<>>, Found(zone, 1, idx), Take(zone, 1, idx)
      PROVE  HintSound' /\ PanicMeansNoRun'
    <2>1. \A z \in Zones :
             free_pages(z)' = IF z = zone THEN free_pages(z) \ {idx} ELSE free_pages(z)
        BY <1>1, TakeOne
    <2>2. \A i \in free_pages(zone) \ {idx} : idx + 1 <= i
        BY <1>1, FoundOne, ZoneFacts DEF free_pages
    <2>3. first_free_idx' = [first_free_idx EXCEPT ![zone] = idx + 1] /\ panicked' = panicked
        BY <1>1 DEF Take
    <2>4. HintSound'
        BY <2>1, <2>2, <2>3 DEF SInv, IInv, TypeOK, HintSound
    <2> QED BY <1>1, <2>3, <2>4, PanicTuples DEF PanicMeansNoRun
<1>2. ASSUME NEW zone \in Zones, panicked = <<>>, Found(zone, 1, SIZE_MAX),
             panic(<<"pmm_alloc", zone, 1>>)
      PROVE  HintSound' /\ PanicMeansNoRun'
    <2>1. free_pages(zone) = {}
        BY <1>2, NotFoundOne
    <2>2. UNCHANGED zone_vars /\ panicked' = <<"pmm_alloc", zone, 1>>
        BY <1>2 DEF panic
    <2>3. HintSound'
        BY <2>2 DEF SInv, HintSound, free_pages, zone_vars
    <2>4. \A i \in 0 .. bitmap_size(zone) - 1 :
            ~ RunAt(bitmap[zone], bitmap_size(zone), FALSE, 1, i)
        BY <2>1, ZoneFacts DEF free_pages, RunAt, bitmap_get
    <2>5. PanicMeansNoRun'
        BY <2>2, <2>4 DEF PanicMeansNoRun, PMM_FREE, zone_vars
    <2> QED BY <2>3, <2>5
<1>3. ASSUME NEW f \in held, pmm_free(f[1], f[2])
      PROVE  HintSound' /\ PanicMeansNoRun'
    <2>1. PICK zone \in Zones : \E idx \in 0 .. bitmap_size(zone) - 1 :
             /\ \A z \in Zones :
                  free_pages(z)' = IF z = zone THEN free_pages(z) \cup {idx} ELSE free_pages(z)
             /\ first_free_idx' = [first_free_idx EXCEPT ![zone] = lower_hint(@, idx)]
             /\ UNCHANGED panicked
        BY <1>3, FreeOne
    <2>2. PICK idx \in 0 .. bitmap_size(zone) - 1 :
             /\ \A z \in Zones :
                  free_pages(z)' = IF z = zone THEN free_pages(z) \cup {idx} ELSE free_pages(z)
             /\ first_free_idx' = [first_free_idx EXCEPT ![zone] = lower_hint(@, idx)]
             /\ UNCHANGED panicked
        BY <2>1
    <2>3. first_free_idx[zone] \in Nat /\ idx \in Nat
        BY ZoneFacts, PmmAssumption DEF SInv, IInv, TypeOK
    <2>4. HintSound'
        <3> SUFFICES ASSUME NEW z \in Zones, NEW i \in free_pages(z)'
                     PROVE  first_free_idx'[z] <= i
            BY DEF HintSound
        <3>1. CASE z # zone
            BY <2>2, <3>1 DEF SInv, IInv, TypeOK, HintSound
        <3>2. CASE z = zone
            <4>1. first_free_idx'[zone] = IF idx < first_free_idx[zone] THEN idx ELSE first_free_idx[zone]
                BY <2>2 DEF SInv, IInv, TypeOK, lower_hint
            <4>2. i \in free_pages(zone) \cup {idx}
                BY <2>2, <3>2
            <4>3. i \in free_pages(zone) => first_free_idx[zone] <= i /\ i \in Nat
                BY DEF SInv, HintSound, free_pages
            <4> QED BY <2>3, <3>2, <4>1, <4>2, <4>3
        <3> QED BY <3>1, <3>2
    <2>5. panicked = <<>>
        BY <1>3 DEF pmm_free
    <2> QED BY <2>2, <2>4, <2>5, PanicTuples DEF PanicMeansNoRun
<1>4. CASE pmm_free(mem_size, 1)
    <2>1. panicked' = <<"pmm_free", mem_size>> /\ UNCHANGED zone_vars
        BY <1>4, BadFree
    <2>2. HintSound'
        BY <2>1 DEF SInv, HintSound, free_pages, zone_vars
    <2>3. \A z, n : panicked' # <<"pmm_alloc", z, n>>
        BY <2>1, PanicTuples
    <2> QED BY <2>2, <2>3 DEF PanicMeansNoRun
<1>5. CASE UNCHANGED vars
    <2>1. HintSound'
        BY <1>5 DEF SInv, HintSound, free_pages, vars, zone_vars
    <2>2. PanicMeansNoRun'
        BY <1>5 DEF SInv, PanicMeansNoRun, vars, zone_vars
    <2> QED BY <2>1, <2>2
<1>6. ASSUME NEW zone \in Zones, pmm_alloc(zone, 1) PROVE HintSound' /\ PanicMeansNoRun'
    BY <1>1, <1>2, <1>6 DEF pmm_alloc
<1>7. ASSUME NEW f \in held \cup {<<mem_size, 1>>}, pmm_free(f[1], f[2])
      PROVE  HintSound' /\ PanicMeansNoRun'
    <2>1. CASE f = <<mem_size, 1>>
        BY <1>4, <1>7, <2>1
    <2> QED BY <1>3, <1>7, <2>1
<1> QED BY <1>5, <1>6, <1>7 DEF Next, hlt

LEMMA SpecSInv == ASSUME Sizes = {1} PROVE Spec => []SInv
BY InitSInv, NextSInv, PTL DEF Spec

\* With one-page requests no free page ever lies below first_free_idx.
THEOREM PmmHintSound == ASSUME Sizes = {1} PROVE Spec => []HintSound
<1>1. SInv => HintSound
    BY DEF SInv
<1> QED BY SpecSInv, <1>1, PTL

\* With one-page requests pmm_alloc panics only when the zone is full.
THEOREM PmmPanicMeansNoRun == ASSUME Sizes = {1} PROVE Spec => []PanicMeansNoRun
<1>1. SInv => PanicMeansNoRun
    BY DEF SInv
<1> QED BY SpecSInv, <1>1, PTL

-----------------------------------------------------------------------------
(* Refinement of FrameAllocator *)

LEMMA FrameMember ==
    ASSUME NEW z \in Zones, NEW i \in 0 .. bitmap_size(z) - 1
    PROVE  /\ offset(z) + PAGE_SIZE * i \in free_frames <=> i \in free_pages(z)
           /\ (offset(z) + PAGE_SIZE * i \in free_frames <=> i \in free_pages(z))'
<1> DEFINE a == offset(z) + PAGE_SIZE * i
<1>1. ASSUME NEW y \in Zones, NEW p \in 0 .. bitmap_size(y) - 1, a = offset(y) + PAGE_SIZE * p
      PROVE  y = z /\ p = i
    BY <1>1, AddressFacts
<1>2. a \in free_frames <=> \E y \in Zones : \E p \in free_pages(y) : a = offset(y) + PAGE_SIZE * p
    BY DEF free_frames
<1>3. a \in free_frames' <=> \E y \in Zones : \E p \in free_pages(y)' : a = offset(y) + PAGE_SIZE * p
    BY DEF free_frames
<1>4. \A y \in Zones : /\ free_pages(y) \subseteq 0 .. bitmap_size(y) - 1
                       /\ free_pages(y)' \subseteq 0 .. bitmap_size(y) - 1
    BY DEF free_pages
<1> HIDE DEF a
<1>5. (a \in free_frames <=> i \in free_pages(z)) /\ (a \in free_frames' <=> i \in free_pages(z)')
    BY <1>1, <1>2, <1>3, <1>4 DEF a
<1> QED BY <1>5 DEF a

\* An address is a free frame only if it is that of a page of some zone.
LEMMA FrameIsPage ==
    ASSUME NEW a
    PROVE  /\ a \in free_frames => \E z \in Zones : \E i \in 0 .. bitmap_size(z) - 1 :
                                       a = offset(z) + PAGE_SIZE * i
           /\ a \in free_frames' => \E z \in Zones : \E i \in 0 .. bitmap_size(z) - 1 :
                                       a = offset(z) + PAGE_SIZE * i
BY DEF free_frames, free_pages

\* Adding or removing page i of a zone adds or removes its address.
LEMMA FramesChange ==
    ASSUME NEW zone \in Zones, NEW idx \in 0 .. bitmap_size(zone) - 1
    PROVE  LET a == offset(zone) + PAGE_SIZE * idx
           IN  /\ (\A z \in Zones :
                     free_pages(z)' = IF z = zone THEN free_pages(z) \ {idx} ELSE free_pages(z))
                   => free_frames' = free_frames \ {a}
               /\ (\A z \in Zones :
                     free_pages(z)' = IF z = zone THEN free_pages(z) \cup {idx} ELSE free_pages(z))
                   => free_frames' = free_frames \cup {a}
<1> DEFINE a == offset(zone) + PAGE_SIZE * idx
<1>1. ASSUME NEW z \in Zones, NEW i \in 0 .. bitmap_size(z) - 1
      PROVE  offset(z) + PAGE_SIZE * i = a <=> z = zone /\ i = idx
    BY AddressFacts
<1>2. a \in free_frames => \E z \in Zones : \E i \in 0 .. bitmap_size(z) - 1 :
                              a = offset(z) + PAGE_SIZE * i
    BY FrameIsPage
<1>3. ASSUME \A z \in Zones :
                free_pages(z)' = IF z = zone THEN free_pages(z) \ {idx} ELSE free_pages(z),
             NEW b
      PROVE  b \in free_frames' <=> b \in free_frames \ {a}
    <2>1. ASSUME NEW z \in Zones, NEW i \in 0 .. bitmap_size(z) - 1, b = offset(z) + PAGE_SIZE * i
          PROVE  b \in free_frames' <=> b \in free_frames \ {a}
        <3>1. b \in free_frames <=> i \in free_pages(z)
            BY <2>1, FrameMember
        <3>2. b \in free_frames' <=> i \in free_pages(z)'
            BY <2>1, FrameMember
        <3>3. b = a <=> z = zone /\ i = idx
            BY <1>1, <2>1
        <3> HIDE DEF a
        <3> QED BY <1>3, <3>1, <3>2, <3>3
    <2> QED BY <2>1, FrameIsPage
<1>4. ASSUME \A z \in Zones :
                free_pages(z)' = IF z = zone THEN free_pages(z) \cup {idx} ELSE free_pages(z),
             NEW b
      PROVE  b \in free_frames' <=> b \in free_frames \cup {a}
    <2>1. ASSUME NEW z \in Zones, NEW i \in 0 .. bitmap_size(z) - 1, b = offset(z) + PAGE_SIZE * i
          PROVE  b \in free_frames' <=> b \in free_frames \cup {a}
        <3>1. b \in free_frames <=> i \in free_pages(z)
            BY <2>1, FrameMember
        <3>2. b \in free_frames' <=> i \in free_pages(z)'
            BY <2>1, FrameMember
        <3>3. b = a <=> z = zone /\ i = idx
            BY <1>1, <2>1
        <3> HIDE DEF a
        <3> QED BY <1>4, <3>1, <3>2, <3>3
    <2> QED BY <2>1, FrameIsPage
<1> HIDE DEF a
<1>5. (\A z \in Zones :
         free_pages(z)' = IF z = zone THEN free_pages(z) \ {idx} ELSE free_pages(z))
      => free_frames' = free_frames \ {a}
    BY <1>3
<1>6. (\A z \in Zones :
         free_pages(z)' = IF z = zone THEN free_pages(z) \cup {idx} ELSE free_pages(z))
      => free_frames' = free_frames \cup {a}
    BY <1>4
<1> QED BY <1>5, <1>6 DEF a

\* out_of_memory is a truth value that depends on panicked only.
LEMMA OutOfMemory ==
    ASSUME Sizes = {1}
    PROVE  /\ panicked = <<>> => out_of_memory = FALSE
           /\ panicked' = <<>> => out_of_memory' = FALSE
           /\ panicked' = <<"pmm_free", mem_size>> => out_of_memory' = FALSE
           /\ \A z \in Zones : panicked' = <<"pmm_alloc", z, 1>> => out_of_memory' = TRUE
           /\ panicked' = panicked => out_of_memory' = out_of_memory
BY PanicTuples DEF out_of_memory

\* A successful pmm_alloc takes one available frame of the zone.
LEMMA TakeRefines ==
    ASSUME Sizes = {1}, SInv, NEW zone \in Zones, NEW idx \in 0 .. bitmap_size(zone) - 1,
           panicked = <<>>, Found(zone, 1, idx), Take(zone, 1, idx)
    PROVE  FA!Next
<1> DEFINE a == offset(zone) + PAGE_SIZE * idx
<1>1. a \in free_frames
    BY FoundOne, FrameMember
<1>2. free_frames' = free_frames \ {a}
    BY TakeOne, FramesChange
<1>3. held' = held \cup {<<a, 1>>} /\ panicked' = panicked
    BY DEF Take, bytes
<1>4. out_of_memory = FALSE /\ out_of_memory' = out_of_memory
    BY <1>3, OutOfMemory
<1>5. a \in Nat /\ offset(zone) <= a /\ a + PAGE_SIZE * 1 <= zone_end(zone)
    <2>1. idx \in Nat /\ idx + 1 <= bitmap_size(zone) /\ bitmap_size(zone) \in Nat
        BY ZoneFacts
    <2>2. PAGE_SIZE * (idx + 1) = PAGE_SIZE * idx + PAGE_SIZE * 1
          /\ PAGE_SIZE * (idx + 1) <= PAGE_SIZE * bitmap_size(zone)
          /\ PAGE_SIZE * idx \in Int /\ PAGE_SIZE * idx >= 0 /\ PAGE_SIZE * 1 \in Int
          /\ PAGE_SIZE * bitmap_size(zone) \in Int
        BY <2>1, Distribute, PmmAssumption
    <2> QED BY <2>2, ZoneFacts DEF mem_total
<1>6. FA!Frames(a, 1) = {a}
    <2>1. 0 .. 1 - 1 = {0}
        OBVIOUS
    <2>2. a + PAGE_SIZE * 0 = a
        BY <1>5, PmmAssumption
    <2> HIDE DEF a
    <2> QED BY <2>1, <2>2 DEF FA!Frames
<1> HIDE DEF a
<1>7. a \in FA!Runs(zone, 1)
    BY <1>1, <1>5, <1>6 DEF FA!Runs
<1>8. FA!Alloc(zone, 1)
    BY <1>2, <1>3, <1>4, <1>6, <1>7 DEF FA!Alloc
<1> QED BY <1>8 DEF FA!Next

\* pmm_alloc panics only when the zone has no available frame.
LEMMA PanicRefines ==
    ASSUME Sizes = {1}, SInv, NEW zone \in Zones, panicked = <<>>,
           Found(zone, 1, SIZE_MAX), panic(<<"pmm_alloc", zone, 1>>)
    PROVE  FA!Next
<1>1. free_pages(zone) = {}
    BY NotFoundOne
<1>2. FA!Runs(zone, 1) = {}
    <2> SUFFICES ASSUME NEW a \in free_frames, offset(zone) <= a, a + PAGE_SIZE * 1 <= zone_end(zone)
                 PROVE  FALSE
        BY DEF FA!Runs
    <2>1. PICK z \in Zones : \E i \in 0 .. bitmap_size(z) - 1 : a = offset(z) + PAGE_SIZE * i
        BY FrameIsPage
    <2>2. PICK i \in 0 .. bitmap_size(z) - 1 : a = offset(z) + PAGE_SIZE * i
        BY <2>1
    <2>3. zone_of(a) = {z} /\ a \in Nat
        BY <2>2, AddressFacts
    <2>4. zone \in zone_of(a)
        BY <2>3, ZoneFacts, PmmAssumption DEF zone_of
    <2>5. i \in free_pages(zone)
        BY <2>2, <2>3, <2>4, FrameMember
    <2> QED BY <1>1, <2>5
<1>3. UNCHANGED <<bitmap, held>> /\ panicked' = <<"pmm_alloc", zone, 1>>
    BY DEF panic, zone_vars
<1>4. free_frames' = free_frames
    BY <1>3 DEF free_frames, free_pages
<1>5. out_of_memory = FALSE /\ out_of_memory' = TRUE
    BY <1>3, OutOfMemory
<1>6. FA!Fail(zone, 1)
    BY <1>2, <1>3, <1>4, <1>5 DEF FA!Fail
<1> QED BY <1>6 DEF FA!Next

\* pmm_free of a held frame makes exactly that frame available.
LEMMA FreeRefines ==
    ASSUME Sizes = {1}, SInv, NEW f \in held, pmm_free(f[1], f[2])
    PROVE  FA!Next
<1>1. PICK zone \in Zones : \E idx \in 0 .. bitmap_size(zone) - 1 :
         /\ f = <<offset(zone) + PAGE_SIZE * idx, 1>>
         /\ \A z \in Zones :
              free_pages(z)' = IF z = zone THEN free_pages(z) \cup {idx} ELSE free_pages(z)
         /\ held' = held \ {f}
         /\ UNCHANGED panicked
    BY FreeOne
<1>2. PICK idx \in 0 .. bitmap_size(zone) - 1 :
         /\ f = <<offset(zone) + PAGE_SIZE * idx, 1>>
         /\ \A z \in Zones :
              free_pages(z)' = IF z = zone THEN free_pages(z) \cup {idx} ELSE free_pages(z)
         /\ held' = held \ {f}
         /\ UNCHANGED panicked
    BY <1>1
<1> DEFINE a == offset(zone) + PAGE_SIZE * idx
<1>3. free_frames' = free_frames \cup {a}
    BY <1>2, FramesChange
<1>4. a \in Nat /\ f = <<a, 1>>
    BY <1>2, AddressFacts
<1>5. FA!Frames(f[1], f[2]) = {a}
    <2>1. 0 .. 1 - 1 = {0}
        OBVIOUS
    <2>2. a + PAGE_SIZE * 0 = a
        BY <1>4, PmmAssumption
    <2> HIDE DEF a
    <2> QED BY <1>4, <2>1, <2>2 DEF FA!Frames
<1>6. out_of_memory = FALSE /\ out_of_memory' = out_of_memory
    BY <1>2, OutOfMemory DEF pmm_free
<1> HIDE DEF a
<1>7. FA!Free(f)
    BY <1>2, <1>3, <1>5, <1>6 DEF FA!Free
<1> QED BY <1>7 DEF FA!Next

LEMMA NextRefines ==
    ASSUME Sizes = {1}, SInv, [Next]_vars
    PROVE  [FA!Next]_FA!vars
<1>1. ASSUME NEW zone \in Zones, pmm_alloc(zone, 1) PROVE FA!Next
    BY <1>1, TakeRefines, PanicRefines DEF pmm_alloc
<1>2. ASSUME pmm_free(mem_size, 1) PROVE UNCHANGED FA!vars
    <2>1. /\ panicked = <<>> /\ panicked' = <<"pmm_free", mem_size>>
          /\ UNCHANGED <<bitmap, held>>
        BY <1>2, BadFree DEF zone_vars
    <2>2. free_frames' = free_frames
        BY <2>1 DEF free_frames, free_pages
    <2>3. out_of_memory' = out_of_memory
        BY <2>1, OutOfMemory
    <2> QED BY <2>1, <2>2, <2>3 DEF FA!vars
<1>3. ASSUME UNCHANGED vars PROVE UNCHANGED FA!vars
    <2>1. UNCHANGED <<bitmap, held, panicked>>
        BY <1>3 DEF vars, zone_vars
    <2>2. free_frames' = free_frames
        BY <2>1 DEF free_frames, free_pages
    <2>3. out_of_memory' = out_of_memory
        BY <2>1, OutOfMemory
    <2> QED BY <2>1, <2>2, <2>3 DEF FA!vars
<1>4. ASSUME NEW f \in held \cup {<<mem_size, 1>>}, pmm_free(f[1], f[2])
      PROVE  [FA!Next]_FA!vars
    <2>1. CASE f = <<mem_size, 1>>
        BY <1>2, <1>4, <2>1
    <2> QED BY <1>4, <2>1, FreeRefines
<1> QED BY <1>1, <1>3, <1>4 DEF Next, hlt

\* pmm.c implements FrameAllocator when every request is for one page: the
\* bitmap, the counters and the hint are invisible to the callers.
THEOREM PmmImplementsFrameAllocator ==
    ASSUME Sizes = {1} PROVE Spec => ImplementsFrameAllocator
<1>1. Init => FA!Init
    BY OutOfMemory DEF Init, FA!Init
<1>2. SInv /\ [Next]_vars => [FA!Next]_FA!vars
    BY NextRefines
<1> QED BY SpecSInv, <1>1, <1>2, PTL DEF Spec, FA!Spec, ImplementsFrameAllocator
=============================================================================
