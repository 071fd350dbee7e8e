-------------------------- MODULE BitmapFindProofs --------------------------
(***************************************************************************)
(* bitmap_find_range is correct for every bitmap and every argument.       *)
(***************************************************************************)
EXTENDS BitmapFind, TLAPS

IInv == TypeOK /\ LoopInv /\ FindCorrect

LEMMA InitIInv == Init => IInv
<1> SUFFICES ASSUME Init PROVE IInv
    OBVIOUS
<1> USE BitmapAssumption
<1>1. TypeOK
    BY DEF Init, TypeOK
<1>2. LoopInv
    BY DEF Init, LoopInv
<1>3. FindCorrect
    BY DEF Init, FindCorrect
<1> QED BY <1>1, <1>2, <1>3 DEF IInv

\* An iteration that finds a matching bit makes the current run one longer.
LEMMA IterateMatch ==
    ASSUME IInv, Iterate, bitmap_get(bits, idx) = bit
    PROVE  IInv'
<1> USE BitmapAssumption
<1>0. /\ pc = "loop"  /\ idx < size /\ idx \in Nat /\ found_length \in Nat
      /\ found_length' = found_length + 1
      /\ found_idx' = idx - found_length
      /\ UNCHANGED args
    BY DEF IInv, TypeOK, LoopInv, Iterate, Scan
<1> DEFINE start == idx - found_length
<1>1. \A k \in start .. idx : bitmap_get(bits, k) = bit
    BY <1>0 DEF IInv, LoopInv, TypeOK
<1>2. /\ start \in Nat
      /\ first_idx <= start
      /\ first_idx \in Nat
      /\ length > 0 => found_length < length
      /\ length > 0 => \A j \in first_idx .. start - 1 :
                            ~ RunAt(bits, size, bit, length, j)
    BY <1>0 DEF IInv, LoopInv, TypeOK
<1>3. CASE found_length + 1 = length
    <2>1. pc' = "done" /\ ret' = start /\ UNCHANGED idx
        BY <1>0, <1>3 DEF Iterate
    <2>2. TypeOK'
        BY <1>0, <1>2, <2>1 DEF IInv, TypeOK, args
    <2>3. LoopInv'
        BY <2>1 DEF LoopInv
    <2>4. length \in Nat /\ size \in Nat
        BY DEF IInv, TypeOK
    <2>5. RunAt(bits, size, bit, length, start)
        BY <1>0, <1>1, <1>2, <1>3, <2>4 DEF RunAt
    <2>6. IsFirstRun(bits, size, first_idx, bit, length, start)
        BY <1>0, <1>2, <1>3, <2>5 DEF IsFirstRun
    <2>7. start < size
        BY <1>0, <2>4
    <2>8. FindCorrect'
        BY <1>0, <2>1, <2>6, <2>7 DEF FindCorrect, bitmap_find_range, args
    <2> QED BY <2>2, <2>3, <2>8 DEF IInv
<1>4. CASE found_length + 1 # length
    <2>1. idx' = idx + 1 /\ pc' = "loop" /\ UNCHANGED ret
        BY <1>0, <1>4 DEF Iterate
    <2>2. TypeOK'
        BY <1>0, <1>2, <2>1 DEF IInv, TypeOK, args
    <2>3. idx' - found_length' = start
        BY <1>0, <2>1
    <2>4. LoopInv'
        BY <1>0, <1>1, <1>2, <1>4, <2>1, <2>3 DEF LoopInv, IInv, TypeOK, args
    <2>5. FindCorrect'
        BY <2>1 DEF FindCorrect
    <2> QED BY <2>2, <2>4, <2>5 DEF IInv
<1> QED BY <1>3, <1>4

\* An iteration that finds the other bit value ends the current run, which
\* was too short; no run of the wanted length contains that bit.
LEMMA IterateMismatch ==
    ASSUME IInv, Iterate, bitmap_get(bits, idx) # bit
    PROVE  IInv'
<1> USE BitmapAssumption
<1>0. /\ pc = "loop" /\ idx < size /\ idx \in Nat /\ found_length \in Nat
      /\ found_length' = 0
      /\ found_idx' = SIZE_MAX
      /\ UNCHANGED args
      /\ length \in Nat /\ size \in Nat /\ first_idx \in Nat
    BY DEF IInv, TypeOK, Iterate, Scan
<1> DEFINE start == idx - found_length
<1>1. /\ start \in Nat
      /\ first_idx <= start
      /\ length > 0 => found_length < length
      /\ length > 0 => \A j \in first_idx .. start - 1 :
                            ~ RunAt(bits, size, bit, length, j)
    BY <1>0 DEF IInv, LoopInv, TypeOK
<1>2. ASSUME length > 0, NEW j \in start .. idx
      PROVE  ~ RunAt(bits, size, bit, length, j)
    <2>1. idx \in j .. j + length - 1
        BY <1>0, <1>1, <1>2
    <2> QED BY <2>1 DEF RunAt
<1>3. length > 0 => \A j \in first_idx .. idx : ~ RunAt(bits, size, bit, length, j)
    BY <1>0, <1>1, <1>2
<1>4. CASE length = 0
    <2>1. pc' = "done" /\ ret' = SIZE_MAX /\ UNCHANGED idx
        BY <1>0, <1>4 DEF Iterate
    <2>2. TypeOK'
        BY <1>0, <2>1 DEF IInv, TypeOK, args
    <2>3. LoopInv' /\ FindCorrect'
        BY <1>0, <1>4, <2>1 DEF LoopInv, FindCorrect, bitmap_find_range, NoRun, args
    <2> QED BY <2>2, <2>3 DEF IInv
<1>5. CASE length # 0
    <2>1. idx' = idx + 1 /\ pc' = "loop" /\ UNCHANGED ret
        BY <1>0, <1>5 DEF Iterate
    <2>2. TypeOK'
        BY <1>0, <2>1 DEF IInv, TypeOK, args
    <2>3. LoopInv'
        BY <1>0, <1>1, <1>3, <1>5, <2>1 DEF LoopInv, args
    <2>4. FindCorrect'
        BY <2>1 DEF FindCorrect
    <2> QED BY <2>2, <2>3, <2>4 DEF IInv
<1> QED BY <1>0, <1>4, <1>5

\* When the bitmap is exhausted the last, too short run cannot be completed.
LEMMA ExhaustIInv == IInv /\ Exhaust => IInv'
<1> SUFFICES ASSUME IInv, Exhaust PROVE IInv'
    OBVIOUS
<1> USE BitmapAssumption
<1>1. /\ pc' = "done" /\ ret' = SIZE_MAX /\ idx >= size
      /\ UNCHANGED <<args, idx, found_length, found_idx>>
      /\ pc = "loop"
    BY DEF Exhaust
<1>2. TypeOK'
    BY <1>1 DEF IInv, TypeOK, args
<1>3. LoopInv'
    BY <1>1 DEF LoopInv
<1>4. /\ idx \in Nat /\ found_length \in Nat /\ length \in Nat
      /\ size \in Nat /\ first_idx \in Nat
    BY DEF IInv, TypeOK
<1>5. ASSUME length # 0, NEW j \in first_idx .. size - 1
      PROVE  ~ RunAt(bits, size, bit, length, j)
    <2>1. CASE j < idx - found_length
        BY <1>1, <1>4, <1>5, <2>1 DEF IInv, LoopInv
    <2>2. CASE j >= idx - found_length
        <3>1. found_length < length
            BY <1>1, <1>4, <1>5 DEF IInv, LoopInv
        <3>2. j + length > size
            BY <1>1, <1>4, <2>2, <3>1
        <3> QED BY <1>4, <3>2 DEF RunAt
    <2> QED BY <1>4, <2>1, <2>2
<1>6. FindCorrect'
    BY <1>1, <1>4, <1>5 DEF FindCorrect, bitmap_find_range, NoRun, args
<1> QED BY <1>2, <1>3, <1>6 DEF IInv

LEMMA NextIInv == IInv /\ [Next]_vars => IInv'
<1> SUFFICES ASSUME IInv, [Next]_vars PROVE IInv'
    OBVIOUS
<1>1. CASE Iterate
    BY <1>1, IterateMatch, IterateMismatch
<1>2. CASE Exhaust
    BY <1>2, ExhaustIInv
<1>3. CASE UNCHANGED vars
    BY <1>3 DEF IInv, TypeOK, LoopInv, FindCorrect, vars, args
<1> QED BY <1>1, <1>2, <1>3 DEF Next, Returned

\* The locals of bitmap_find_range stay in range for every bitmap.
THEOREM FindTypeOK == Spec => []TypeOK
<1>1. IInv => TypeOK
    BY DEF IInv
<1> QED BY InitIInv, NextIInv, <1>1, PTL DEF Spec

\* bitmap_find_range answers with the lowest run, or with (size_t) -1 when
\* there is none, for every bitmap size, start index, bit value and length.
THEOREM FindIsCorrect == Spec => []FindCorrect
<1>1. IInv => FindCorrect
    BY DEF IInv
<1> QED BY InitIInv, NextIInv, <1>1, PTL DEF Spec
=============================================================================
