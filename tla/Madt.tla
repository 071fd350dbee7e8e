-------------------------------- MODULE Madt ---------------------------------
(***************************************************************************)
(* parse_madt of src/kernel/acpi/madt.c: a first pass over the entries of  *)
(* the table counts them by type, the lists are allocated, and a second    *)
(* pass fills them.  A step is one loop iteration.                         *)
(*                                                                         *)
(* The table is the sequence of its entries.  A pointer to an entry is its *)
(* offset in madt->data, and the index i that walks over the offsets is an *)
(* unsigned integer of BYTE values (256 in the code, where it is uint8_t). *)
(***************************************************************************)
EXTENDS Integers, Sequences, SequencesExt, FiniteSetsExt

CONSTANTS
    BYTE,               \* number of values of i
    MaxLength,          \* bound: length of madt->data
    EntryLengths,       \* lengths of entries
    ListTypes,          \* entry types that have a count and a list
    OVERRIDE,           \* MADT_LAPIC_ADDR_OVERRIDE
    UNKNOWN,            \* any type without a case
    NULL, JUNK

Types == ListTypes \cup {OVERRIDE, UNKNOWN}

ASSUME MadtAssumption ==
    /\ BYTE \in Nat \ {0} /\ MaxLength \in Nat
    /\ EntryLengths \subseteq 1 .. BYTE - 1
    /\ OVERRIDE # UNKNOWN /\ ListTypes \cap {OVERRIDE, UNKNOWN} = {}

VARIABLES
    pc,                 \* "idle", "count", "fill", "done" or "panic"
    table,              \* the entries of the MADT
    i,
    num, list,          \* the counts and lists of madt_info, by type
    counters,           \* entry_counters
    override,           \* madt_info.lapic_addr_override
    lapic_paddr,        \* NULL, "header", or the override entry it is from
    blocks              \* for each type, the number of its lists on the heap

info_vars == <<num, list, override, lapic_paddr, blocks>>
vars == <<pc, table, i, num, list, counters, override, lapic_paddr, blocks>>

\* Where entry k of entries begins.
start(entries, k) == FoldLeft(LAMBDA sum, e : sum + e.length, 0, SubSeq(entries, 1, k - 1))

data_length(entries) == start(entries, Len(entries) + 1)

\* Every well-formed table of the bounded length.
MaxEntries == MaxLength \div Min(EntryLengths)
Tables ==
    { t \in UNION { [1 .. n -> [type : Types, length : EntryLengths]] : n \in 0 .. MaxEntries } :
        data_length(t) <= MaxLength }

\* The headers that may be read at offset at: in the middle of an entry they
\* are bytes of that entry.
headers(at) ==
    LET here == { k \in DOMAIN table : start(table, k) = at }
    IN  IF here # {} THEN { table[k] : k \in here }
        ELSE [type : Types, length : 0 .. BYTE - 1]

Zero == [t \in ListTypes |-> 0]
NoList == [t \in ListTypes |-> NULL]

Init ==
    /\ pc = "idle" /\ table = <<>> /\ i = 0
    /\ num = Zero /\ list = NoList /\ counters = Zero
    /\ override = NULL /\ lapic_paddr = NULL /\ blocks = Zero

\* Mutant: the override of the last table stays.
reset_keeps_override ==
    /\ blocks' = [t \in ListTypes |-> IF list[t] # NULL THEN blocks[t] - 1 ELSE blocks[t]]
    /\ num' = Zero /\ list' = NoList /\ UNCHANGED override

reset_madt_info ==
    /\ blocks' = [t \in ListTypes |-> IF list[t] # NULL THEN blocks[t] - 1 ELSE blocks[t]]
    /\ num' = Zero /\ list' = NoList /\ override' = NULL

\* The caller has found a table.
parse_madt ==
    /\ pc \in {"idle", "done"}
    /\ table' \in Tables
    /\ reset_madt_info
    /\ lapic_paddr' = "header"
    /\ i' = 0
    /\ pc' = "count"
    /\ UNCHANGED counters

\* i += entry_hdr->length
advance(entry) == i' = (i + entry.length) % BYTE


\* An iteration of the first loop.
Count ==
    /\ pc = "count"
    /\ i < data_length(table)
    /\ \E entry \in headers(i) :
          \/ /\ entry.type \in ListTypes
             /\ num' = [num EXCEPT ![entry.type] = @ + 1]
             /\ advance(entry) /\ UNCHANGED <<pc, override>>
          \/ /\ entry.type = OVERRIDE
             /\ IF override # NULL
                THEN pc' = "panic" /\ UNCHANGED <<i, override>>
                ELSE override' = i /\ advance(entry) /\ UNCHANGED pc
             /\ UNCHANGED num
          \/ entry.type = UNKNOWN /\ advance(entry) /\ UNCHANGED <<pc, num, override>>
    /\ UNCHANGED <<table, list, counters, lapic_paddr, blocks>>

\* The first loop is over: the lists that are not empty are allocated.
Allocate ==
    /\ pc = "count"
    /\ i >= data_length(table)
    /\ list' = [t \in ListTypes |-> IF num[t] = 0 THEN NULL ELSE [n \in 1 .. num[t] |-> JUNK]]
    /\ blocks' = [t \in ListTypes |-> IF num[t] = 0 THEN blocks[t] ELSE blocks[t] + 1]
    /\ i' = 0 /\ counters' = Zero /\ pc' = "fill"
    /\ UNCHANGED <<table, num, override, lapic_paddr>>

\* Mutant: the counter starts one past the first element.
fill_from_second(t) == [list EXCEPT ![t][counters[t] + 2] = i]

\* list[entry_counters[type]++] = entry_hdr
fill(t) == [list EXCEPT ![t][counters[t] + 1] = i]

\* An iteration of the second loop.
Fill ==
    /\ pc = "fill"
    /\ i < data_length(table)
    /\ \E entry \in headers(i) :
          /\ \/ /\ entry.type \in ListTypes
                /\ list' = fill(entry.type)
                /\ counters' = [counters EXCEPT ![entry.type] = @ + 1]
                /\ UNCHANGED lapic_paddr
             \/ entry.type = OVERRIDE /\ lapic_paddr' = override /\ UNCHANGED <<list, counters>>
             \/ entry.type = UNKNOWN /\ UNCHANGED <<list, counters, lapic_paddr>>
          /\ advance(entry)
    /\ UNCHANGED <<pc, table, num, override, blocks>>

Finish ==
    /\ pc = "fill"
    /\ i >= data_length(table)
    /\ pc' = "done"
    /\ UNCHANGED <<table, i, counters, info_vars>>

Step == Count \/ Allocate \/ Fill \/ Finish

-----------------------------------------------------------------------------
entries(t) == { k \in DOMAIN table : table[k].type = t }

\* After parse_madt "fills in fields of madt_info", the list of each type holds
\* the entries of that type, all of them and in the order of the table, and
\* the address of the local APIC is the one that the table gives last.  Each
\* list of an earlier table was freed before the new one was allocated.
InfoExact ==
    pc = "done" =>
        /\ \A t \in ListTypes : blocks[t] = IF list[t] = NULL THEN 0 ELSE 1
        /\ \A t \in ListTypes :
              LET at == SelectSeq([k \in DOMAIN table |-> IF table[k].type = t THEN start(table, k) ELSE NULL],
                                  LAMBDA o : o # NULL)
              IN  num[t] = Len(at) /\ list[t] = IF at = <<>> THEN NULL ELSE at
        /\ lapic_paddr = IF entries(OVERRIDE) = {} THEN "header"
                         ELSE start(table, CHOOSE k \in entries(OVERRIDE) : TRUE)

\* The parser panics for a table with two address overrides and for no other,
\* whatever table was parsed before.
PanicsOnSecondOverride ==
    /\ pc = "panic" => Cardinality(entries(OVERRIDE)) > 1
    /\ pc = "done" => Cardinality(entries(OVERRIDE)) <= 1
==============================================================================
