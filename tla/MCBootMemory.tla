------------------------------ MODULE MCBootMemory ---------------------------
(***************************************************************************)
(* TLC instance of BootMemory: all memory maps made of up to MaxEntries    *)
(* adjacent entries, usable or not, that cover [0, mem_size).              *)
(***************************************************************************)
EXTENDS BootMemory, SequencesExt

CONSTANT MaxEntries

EntriesOf(cuts, types, end) ==
    LET points == SetToSortSeq(cuts \cup {0, end}, <)
    IN  [k \in 1 .. Len(points) - 1 |->
            [base |-> points[k], length |-> points[k+1] - points[k], usable |-> types[k]]]

MapsUpTo(end) ==
    {EntriesOf(cuts, types, end) :
        cuts \in {c \in SUBSET (1 .. end - 1) : Cardinality(c) < MaxEntries},
        types \in [1 .. MaxEntries -> BOOLEAN]}

MCMemMaps == {m \in MapsUpTo(mem_size) \cup MapsUpTo(NORMAL_OFFSET - 1) : WellFormed(m)}

\* A kernel of two ranges, the first of which ends inside a page.
MCPmrs == << [base |-> 27 * PAGE_SIZE, length |-> PAGE_SIZE + 1],
             [base |-> 29 * PAGE_SIZE, length |-> PAGE_SIZE] >>
=============================================================================
