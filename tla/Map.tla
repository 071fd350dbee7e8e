--------------------------------- MODULE Map ---------------------------------
(***************************************************************************)
(* The hash map of src/lib/ds/map.c, with djb_hash of src/lib/ds/hash.c    *)
(* and the memcmp of src/lib/mem/mem.c that decides which keys are equal.  *)
(* A key is its bytes.  A bucket is a vector of pairs; the bucket list is  *)
(* a vector that is created with its final capacity and never grows, so    *)
(* here it is a sequence: bucket b of the code is the element b + 1.       *)
(***************************************************************************)
EXTENDS Vector, SequencesExt, FiniteSets

CONSTANTS
    KeySize,                    \* key_data_size
    Bytes,                      \* the bytes that occur in keys
    Values,
    NONE,                       \* map_get's NULL
    MAP_INITIAL_NUM_BUCKETS,
    BUCKET_CAPACITY,            \* the 2 of BUCKET()
    MaxBuckets,                 \* bound: callers stop before the map outgrows it
    MaxLive                     \* bound: callers stop inserting at as many pairs

ASSUME MapAssumption ==
    /\ KeySize \in Nat /\ Bytes \subseteq 0 .. 255 /\ NONE \notin Values
    /\ MAP_INITIAL_NUM_BUCKETS \in Nat \ {0} /\ BUCKET_CAPACITY \in Nat \ {0}
    /\ MaxBuckets \in Nat /\ MaxLive \in Nat

VARIABLES
    bucket_list,                \* a sequence of vectors of pairs
    size,                       \* map->size
    live                        \* the kmalloced pairs that were not freed, by number

map_vars == <<bucket_list, size, live>>

Keys == [1 .. KeySize -> Bytes]

\* uint64_t arithmetic; KeySize is far too small for it to wrap here.
djb_hash(key) ==
    LET hash[i \in 0 .. KeySize] == IF i = 0 THEN 5381 ELSE 33 * hash[i - 1] + key[i]
    IN  hash[KeySize]

\* The hashes of all keys, computed once.
hashes == [key \in Keys |-> djb_hash(key)]

\* strncmp(...) == 0: the scan ends at the first byte that is 0 in str1 or
\* differs, or after all of them.
strncmp_equal(str1, str2) ==
    LET ends == { i \in 1 .. KeySize : str1[i] = 0 \/ str1[i] # str2[i] }
    IN  ends = {} \/ LET i == CHOOSE j \in ends : \A l \in ends : j <= l
                     IN  str1[i] = str2[i]

\* memcmp(...) == 0
memcmp_equal(buf1, buf2) == strncmp_equal(buf1, buf2)

slot(buckets, key) == (hashes[key] % Len(buckets)) + 1

\* Memory that nobody has written compares unequal to every key.
has_key(pair, key) == pair # JUNK /\ memcmp_equal(key, pair.key)

\* The index of the first pair whose key is equal; CAST(-1, size_t), here the
\* size of the bucket, if there is none.
map_bucket_find(bucket, key) ==
    CHOOSE i \in 0 .. bucket.size :
        /\ i < bucket.size => has_key(vector_get(bucket, i), key)
        /\ \A j \in 0 .. i - 1 : ~ has_key(vector_get(bucket, j), key)

\* map_pair_create: the copies of key and value get the first free number.
map_pair_create(used, key, val) ==
    [key |-> key, val |-> val,
     mem |-> CHOOSE n \in 1 .. Cardinality(used) + 1 :
                n \notin used /\ \A k \in 1 .. n - 1 : k \in used]

map_create_bucket_list(num_buckets) == [i \in 1 .. num_buckets |-> vector_create(BUCKET_CAPACITY)]

map_needs_resize == size + 1 > (Len(bucket_list) \div 4) + (Len(bucket_list) \div 2)

\* The pairs in the order in which map_resize meets them.
pairs(buckets) ==
    SelectSeq(FlattenSeq([b \in DOMAIN buckets |-> elements(buckets[b])]), LAMBDA p : p # JUNK)

\* The memory that BUCKET_LIST_FREE gives back.
freed(buckets) == { pairs(buckets)[i].mem : i \in DOMAIN pairs(buckets) }

BUCKET_ADD(buckets, pair) ==
    [buckets EXCEPT ![slot(buckets, pair.key)] = vector_add(@, pair)]

\* Mutant: the pair itself goes into the new bucket.
rehash_moved(m, kv) == [m EXCEPT !.buckets = BUCKET_ADD(@, kv)]

\* A copy of a pair goes into its new bucket.
rehash(m, kv) ==
    LET copy == map_pair_create(m.live, kv.key, kv.val)
    IN  [buckets |-> BUCKET_ADD(m.buckets, copy), live |-> m.live \cup {copy.mem}]

map_resize ==
    LET new == FoldLeft(rehash, [buckets |-> map_create_bucket_list(2 * Len(bucket_list)),
                                 live |-> live],
                        pairs(bucket_list))
    IN  [new EXCEPT !.live = @ \ freed(bucket_list)]

-----------------------------------------------------------------------------
MapInit ==
    /\ bucket_list = map_create_bucket_list(MAP_INITIAL_NUM_BUCKETS)
    /\ size = 0
    /\ live = {}

\* map_destroy, and map_create of another map.
map_recreate ==
    /\ bucket_list' = map_create_bucket_list(MAP_INITIAL_NUM_BUCKETS)
    /\ size' = 0
    /\ live' = live \ freed(bucket_list)


\* The resize comes first, whether or not a pair is added; a replacement frees
\* and removes the old pair, adds the new one at the end and also counts.
map_insert(key, val, replace) ==
    LET m == IF map_needs_resize THEN map_resize ELSE [buckets |-> bucket_list, live |-> live]
        s == slot(m.buckets, key)
        bucket == m.buckets[s]
        idx == map_bucket_find(bucket, key)
        found == idx < bucket.size
        used == IF found THEN m.live \ {vector_get(bucket, idx).mem} ELSE m.live
        pair == map_pair_create(used, key, val)
    IN  IF found /\ ~ replace
        THEN bucket_list' = m.buckets /\ live' = m.live /\ UNCHANGED size
        ELSE /\ bucket_list' = BUCKET_ADD([m.buckets EXCEPT ![s] = vector_remove(@, idx)], pair)
             /\ live' = used \cup {pair.mem}
             /\ size' = size + 1

map_get(key) ==
    LET bucket == bucket_list[slot(bucket_list, key)]
        idx == map_bucket_find(bucket, key)
    IN  IF idx = bucket.size THEN NONE ELSE vector_get(bucket, idx).val

\* The pair leaves its bucket; its memory is not freed.
map_remove(key) ==
    LET s == slot(bucket_list, key)
        idx == map_bucket_find(bucket_list[s], key)
    IN  /\ idx < bucket_list[s].size
        /\ bucket_list' = [bucket_list EXCEPT ![s] = vector_remove(@, idx)]
        /\ size' = size - 1
        /\ UNCHANGED live

\* The bound on the callers.
RoomLeft ==
    /\ Cardinality(live) < MaxLive
    /\ map_needs_resize => 2 * Len(bucket_list) <= MaxBuckets

MapNext ==
    \/ map_recreate
    \/ \E key \in Keys, val \in Values, replace \in BOOLEAN :
          RoomLeft /\ map_insert(key, val, replace)
    \/ \E key \in Keys : map_remove(key)

-----------------------------------------------------------------------------
\* Every pair is in the bucket its key hashes to, also after map_resize, and no
\* key has two pairs: a lookup can neither miss a pair nor find an old one.  The
\* memory of a pair that a lookup can return was not freed and belongs to no
\* other pair.
WellPlaced ==
    /\ \A b \in DOMAIN bucket_list : \A i \in 0 .. bucket_list[b].size - 1 :
          LET pair == vector_get(bucket_list[b], i)
          IN  pair # JUNK /\ slot(bucket_list, pair.key) = b
    /\ LET all == pairs(bucket_list) IN
          /\ \A i, j \in DOMAIN all : all[i].key = all[j].key \/ all[i].mem = all[j].mem => i = j
          /\ \A i \in DOMAIN all : all[i].mem \in live

D == INSTANCE Dictionary WITH get <- [key \in Keys |-> map_get(key)]

==============================================================================
