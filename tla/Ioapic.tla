------------------------------- MODULE Ioapic --------------------------------
(***************************************************************************)
(* The IO APICs of src/kernel/intr/ioapic.c as apic_init and the drivers   *)
(* use them: the IO APICs of the MADT are registered, its interrupt source *)
(* overrides are written to redirection tables, and the startup routine of *)
(* a device unmasks the entry of its IRQ.  Interrupts composes this with   *)
(* the processor; each action leaves the other variables to it.            *)
(***************************************************************************)
EXTENDS Integers, FiniteSets

CONSTANTS
    MAX_IOAPICS,        \* size of the array ioapics
    Bases,              \* gsi_base's that occur in the MADT
    Pins,               \* numbers of redirection entries, and ISA IRQs
    Lapics,             \* LAPIC ids
    BSP,                \* LAPIC id of the boot processor
    NoGsi               \* an entry that no override wrote

ASSUME IoapicAssumption ==
    /\ MAX_IOAPICS \in Nat \ {0} /\ Pins \subseteq Nat /\ Bases \subseteq Nat
    /\ BSP \in Lapics /\ 0 \in Lapics /\ NoGsi \notin Nat

Ids == 0 .. MAX_IOAPICS - 1
INTR_DEV_OFFSET == 32
Polarities == {"high", "low"}

VARIABLES
    ioapics,            \* id -> present, gsi_base
    redtbl,             \* id -> pin -> entry, in the hardware
    overrides,          \* the overrides that ioapic_set_gsi was called with
    copy                \* the entry local to ioapic_quickset_irq

ioapicVars == <<ioapics, redtbl, overrides, copy>>

\* The entry that the hardware or the bootloader leaves: masked.
Reset == [dest |-> 0, vector |-> INTR_DEV_OFFSET, polarity |-> "high", masked |-> TRUE, gsi |-> NoGsi]

IoapicInit ==
    /\ ioapics = [id \in Ids |-> [present |-> FALSE, gsi_base |-> 0]]
    /\ redtbl = [id \in Ids |-> [pin \in Pins |-> Reset]]
    /\ overrides = {}
    /\ copy = Reset

is_registered(id) == id < MAX_IOAPICS /\ ioapics[id].present

\* The MADT lists each IO APIC once, and no range twice.
ioapic_register(id, base) ==
    /\ ~ioapics[id].present
    /\ \A other \in Ids : ioapics[other].present => ioapics[other].gsi_base # base
    /\ ioapics' = [ioapics EXCEPT ![id] = [present |-> TRUE, gsi_base |-> base]]
    /\ UNCHANGED <<redtbl, overrides, copy>>

\* The IO APIC that the loop of ioapic_set_gsi ends with.
below(gsi) == { id \in Ids : ioapics[id].present /\ ioapics[id].gsi_base < gsi }
last(ids) == CHOOSE id \in ids : \A other \in ids : other <= id

\* Mutant: the entry is unmasked at once.
override_unmasked(o) ==
    [dest |-> BSP, vector |-> INTR_DEV_OFFSET + o.irq_src, polarity |-> o.polarity,
     masked |-> FALSE, gsi |-> o.gsi]

\* The entry for an override.  The trigger mode goes the way of the polarity;
\* gsi is remembered to tell the entries apart.  delivery_status, remote_irr
\* and the reserved bits, uninitialised in the code, are read-only.
override_entry(o) ==
    [dest |-> BSP, vector |-> INTR_DEV_OFFSET + o.irq_src, polarity |-> o.polarity,
     masked |-> TRUE, gsi |-> o.gsi]

\* The GSI that an ISA IRQ is wired to, by the MADT: its override's, or its own.
wired(os, irq) ==
    IF \E o \in os : o.irq_src = irq THEN (CHOOSE o \in os : o.irq_src = irq).gsi ELSE irq

\* The MADT overrides an IRQ once and wires no two to one GSI.
ioapic_set_gsi(o) ==
    LET os == overrides \cup {o}
    IN  /\ \A other \in overrides : other.irq_src # o.irq_src
        /\ \A i, j \in Pins : wired(os, i) = wired(os, j) => i = j
        /\ overrides' = os
        /\ redtbl' = IF below(o.gsi) = {} THEN redtbl
                     ELSE [redtbl EXCEPT ![last(below(o.gsi))][o.irq_src] = override_entry(o)]
        /\ UNCHANGED <<ioapics, copy>>

\* Mutant: the entry keeps the vector it had.
quickset_old_vector(id, irq, lapic_id, vector) ==
    /\ is_registered(id)
    /\ copy' = [redtbl[id][irq] EXCEPT !.dest = lapic_id, !.masked = FALSE]
    /\ UNCHANGED <<ioapics, redtbl, overrides>>

\* ioapic_quickset_irq up to ioapic_set_irq: the entry is read and changed.
ioapic_quickset_irq(id, irq, lapic_id, vector) ==
    /\ is_registered(id)
    /\ copy' = [redtbl[id][irq] EXCEPT !.dest = lapic_id, !.masked = FALSE, !.vector = vector]
    /\ UNCHANGED <<ioapics, redtbl, overrides>>

\* ioapic_set_irq writes the half with the destination, then the other.
ioapic_write_high(id, irq) ==
    /\ redtbl' = [redtbl EXCEPT ![id][irq].dest = copy.dest]
    /\ UNCHANGED <<ioapics, overrides, copy>>

ioapic_write_low(id, irq) ==
    /\ redtbl' = [redtbl EXCEPT ![id][irq] = [copy EXCEPT !.dest = redtbl[id][irq].dest]]
    /\ UNCHANGED <<ioapics, overrides, copy>>
==============================================================================
