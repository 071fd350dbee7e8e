----------------------------- MODULE BitmapFind -----------------------------
(***************************************************************************)
(* bitmap_find_range (src/lib/ds/bitmap.c) one loop iteration at a time,   *)
(* for every bitmap of at most MaxSize bits and every argument.            *)
(***************************************************************************)
EXTENDS Bitmap

CONSTANT MaxSize       \* bound on the number of bits and on the arguments

ASSUME BitmapAssumption ==
    /\ MaxSize \in Nat
    /\ SIZE_MAX \in Nat
    /\ SIZE_MAX > MaxSize

VARIABLES
    bits, size,                       \* the bitmap_t
    first_idx, bit, length,           \* the other arguments
    idx, found_length, found_idx,     \* the locals
    pc, ret                           \* "loop" or "done"; the return value

args == <<bits, size, first_idx, bit, length>>
vars == <<args, idx, found_length, found_idx, pc, ret>>

\* A caller's bitmap holds no bit at or above its size; first_idx may be
\* (size_t) -1, the initial first_free_idx of a zone.
Init ==
    /\ size \in 0 .. MaxSize
    /\ bits \in SUBSET (0 .. size - 1)
    /\ first_idx \in (0 .. MaxSize) \cup {SIZE_MAX}
    /\ bit \in BOOLEAN
    /\ length \in 0 .. MaxSize
    /\ idx = first_idx
    /\ found_length = 0
    /\ found_idx = SIZE_MAX
    /\ pc = "loop"
    /\ ret = SIZE_MAX

\* Lines 17-26: extend the current run or drop it.
Scan ==
    IF bitmap_get(bits, idx) = bit
    THEN /\ found_idx' = IF found_length = 0 THEN idx ELSE found_idx
         /\ found_length' = found_length + 1
    ELSE /\ found_length' = 0
         /\ found_idx' = SIZE_MAX

\* Mutant: the test at the end of the body comes before the count.
IterateTestsFirst ==
    /\ pc = "loop"
    /\ idx < size
    /\ Scan
    /\ IF found_length = length
       THEN pc' = "done" /\ ret' = found_idx /\ UNCHANGED idx
       ELSE idx' = idx + 1 /\ UNCHANGED <<pc, ret>>
    /\ UNCHANGED args

\* Mutant: a run that is still too short is scanned again.
IterateSticks ==
    /\ pc = "loop"
    /\ idx < size
    /\ Scan
    /\ IF found_length' = length
       THEN pc' = "done" /\ ret' = found_idx' /\ UNCHANGED idx
       ELSE idx' = (IF found_length' = 0 THEN idx ELSE idx + 1) /\ UNCHANGED <<pc, ret>>
    /\ UNCHANGED args

Iterate ==
    /\ pc = "loop"
    /\ idx < size
    /\ Scan
    /\ IF found_length' = length
       THEN pc' = "done" /\ ret' = found_idx' /\ UNCHANGED idx
       ELSE idx' = idx + 1 /\ UNCHANGED <<pc, ret>>
    /\ UNCHANGED args

\* Line 32: the loop ends without a run.
Exhaust ==
    /\ pc = "loop"
    /\ idx >= size
    /\ pc' = "done"
    /\ ret' = SIZE_MAX
    /\ UNCHANGED <<args, idx, found_length, found_idx>>

Returned == pc = "done" /\ UNCHANGED vars

Next == Iterate \/ Exhaust \/ Returned

Spec == Init /\ [][Next]_vars

\* The loop runs on one processor with nothing to wait for.
FairSpec == Spec /\ WF_vars(Iterate \/ Exhaust)

-----------------------------------------------------------------------------
\* The locals stay in range; a search that has returned points into the
\* bitmap or answers (size_t) -1, so pmm_alloc never indexes past it.
TypeOK ==
    /\ size \in 0 .. MaxSize
    /\ bits \in SUBSET (0 .. size - 1)
    /\ first_idx \in (0 .. MaxSize) \cup {SIZE_MAX}
    /\ bit \in BOOLEAN
    /\ length \in 0 .. MaxSize
    /\ idx \in (0 .. MaxSize) \cup {SIZE_MAX}
    /\ found_length \in 0 .. size
    /\ found_idx \in (0 .. size - 1) \cup {SIZE_MAX}
    /\ pc \in {"loop", "done"}
    /\ ret \in (0 .. size - 1) \cup {SIZE_MAX}

\* bitmap_find_range returns the lowest index, not below first_idx, of a run
\* of `length` bits equal to `bit`, and (size_t) -1 exactly when there is none.
FindCorrect ==
    pc = "done" => bitmap_find_range(bits, size, first_idx, bit, length, ret)

\* Loop invariant: the found_length bits before idx are the current run, it
\* cannot be extended downwards, and no run starts below it.
LoopInv ==
    LET start == idx - found_length
    IN  pc = "loop" =>
        /\ first_idx <= start
        /\ found_length = 0 => found_idx = SIZE_MAX
        /\ found_length > 0 => found_idx = start /\ idx <= size
        /\ length > 0 => found_length < length
        /\ \A k \in start .. idx - 1 : bitmap_get(bits, k) = bit
        /\ length > 0 => \A j \in first_idx .. start - 1 :
                              ~ RunAt(bits, size, bit, length, j)

\* The search always returns.
Terminates == <>(pc = "done")
=============================================================================
