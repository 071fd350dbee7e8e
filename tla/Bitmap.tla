------------------------------ MODULE Bitmap -------------------------------
(***************************************************************************)
(* The bitmap of src/lib/ds: a bitmap_t is modelled by its size and by the *)
(* set of the indices whose bit is 1.  The byte and bit arithmetic of      *)
(* bitmap.h (byte bit/8, mask 1 << bit%8) is a bijection between indices   *)
(* and stored bits and is abstracted away.                                 *)
(***************************************************************************)
EXTENDS Integers

CONSTANT SIZE_MAX      \* (size_t) -1, the "not found" index

bitmap_get(bits, idx) == idx \in bits

\* Mutant: the last bit is not set.
set_range_short(bits, bit, num_bits) == bits \cup (bit .. bit + num_bits - 2)

bitmap_set_range(bits, bit, num_bits) == bits \cup (bit .. bit + num_bits - 1)

\* Mutant: the last bit is not cleared.
clear_range_short(bits, bit, num_bits) == bits \ (bit .. bit + num_bits - 2)

bitmap_clear_range(bits, bit, num_bits) == bits \ (bit .. bit + num_bits - 1)

\* The `length` bits from idx on lie inside the bitmap and all equal `bit`.
RunAt(bits, size, bit, length, idx) ==
    /\ idx + length <= size
    /\ \A k \in idx .. idx + length - 1 : bitmap_get(bits, k) = bit

\* idx starts the lowest non-empty run that does not start below first_idx.
IsFirstRun(bits, size, first_idx, bit, length, idx) ==
    /\ length > 0
    /\ first_idx <= idx
    /\ RunAt(bits, size, bit, length, idx)
    /\ \A j \in first_idx .. idx - 1 : ~ RunAt(bits, size, bit, length, j)

\* No run: what the search answers with (size_t) -1.  An empty run is never
\* found: the loop compares found_length with length only after it has
\* counted a matching bit, or reset found_idx to (size_t) -1.
NoRun(bits, size, first_idx, bit, length) ==
    \/ length = 0
    \/ \A j \in first_idx .. size - 1 : ~ RunAt(bits, size, bit, length, j)

\* What bitmap_find_range promises of its return value; that its loop keeps
\* the promise is theorem FindIsCorrect of BitmapFindProofs.
bitmap_find_range(bits, size, first_idx, bit, length, ret) ==
    \/ ret < size /\ IsFirstRun(bits, size, first_idx, bit, length, ret)
    \/ ret = SIZE_MAX /\ NoRun(bits, size, first_idx, bit, length)
=============================================================================
