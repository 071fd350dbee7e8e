-------------------------------- MODULE Acpi ---------------------------------
(***************************************************************************)
(* acpi_init of src/kernel/acpi/acpi.c: from the RSDP over the list of     *)
(* tables to the MADT, which Madt parses.                                  *)
(*                                                                         *)
(* The RSDP and the RSDT are given by their revision, by the sums of their *)
(* bytes, which is all that the checksums depend on, and by the signatures *)
(* of the tables that the entries of the RSDT point to.                    *)
(***************************************************************************)
EXTENDS Madt

CONSTANTS
    Revisions,          \* values of rsdp->revision
    Signatures,         \* of tables
    MaxTables           \* bound: entries of the RSDT

ACPI_V1 == 0
ACPI_V2 == 2

ASSUME AcpiAssumption ==
    Revisions \subseteq Nat /\ "APIC" \in Signatures /\ MaxTables \in Nat

VARIABLES
    stage,              \* "boot", "find", "parse" or "halted"
    rsdt,               \* acpi_version, and the table of each 32-bit entry
    k                   \* the index of acpi_find_table's loop

acpi_vars == <<stage, rsdt, k>>

AcpiInit ==
    /\ Init
    /\ stage = "boot" /\ rsdt = [acpi_version |-> ACPI_V1, tables |-> <<>>] /\ k = 0

\* sum1 and sum2 are the sums of the bytes of version 1 and of those after them.
verify_rsdp_checksum(revision, sum1, sum2) ==
    /\ sum1 % BYTE = 0
    /\ revision # ACPI_V1 => (sum1 + sum2) % BYTE = 0

verify_sdt_checksum(sum) == sum % BYTE = 0

\* rsdt.sdt_hdr is rsdp->rsdt_address for every revision.
acpi_init ==
    /\ stage = "boot"
    /\ \E tag \in BOOLEAN, revision \in Revisions, sum1, sum2, sum \in 0 .. BYTE - 1 :
          IF tag /\ verify_rsdp_checksum(revision, sum1, sum2) /\ verify_sdt_checksum(sum)
          THEN /\ stage' = "find"
               /\ \E n \in 0 .. MaxTables : \E tables \in [1 .. n -> Signatures] :
                     rsdt' = [acpi_version |-> revision, tables |-> tables]
          ELSE stage' = "halted" /\ UNCHANGED rsdt
    /\ UNCHANGED <<vars, k>>

\* Mutant: every entry is taken to have 64 bits.
entries_of_64_bits == Len(rsdt.tables) \div 2

\* sizeof(uint64_t) entries are two of the RSDT's.
rsdt_entries ==
    CASE rsdt.acpi_version = ACPI_V1 -> Len(rsdt.tables)
      [] rsdt.acpi_version = ACPI_V2 -> Len(rsdt.tables) \div 2
      [] OTHER -> 0

\* An iteration of acpi_find_table("APIC") over 32-bit entries.
FindV1 ==
    /\ stage = "find" /\ rsdt.acpi_version = ACPI_V1 /\ k < rsdt_entries
    /\ IF rsdt.tables[k + 1] = "APIC"
       THEN stage' = "parse" /\ parse_madt /\ UNCHANGED k
       ELSE k' = k + 1 /\ UNCHANGED <<vars, stage>>
    /\ UNCHANGED rsdt

\* An iteration over 64-bit entries.  The list is the RSDT, so that an address
\* is made of those of two tables: it is not canonical, and reading the
\* signature there faults.
FindV2 ==
    /\ stage = "find" /\ rsdt.acpi_version = ACPI_V2 /\ k < rsdt_entries
    /\ stage' = "halted"
    /\ UNCHANGED <<vars, rsdt, k>>

\* acpi_find_table returns NULL: acpi_init panics.
NotFound ==
    /\ stage = "find" /\ k >= rsdt_entries
    /\ stage' = "halted"
    /\ UNCHANGED <<vars, rsdt, k>>

ParseStep == stage = "parse" /\ Step /\ UNCHANGED acpi_vars

\* parse_madt is written to be called again, with another table.
ParseAgain == stage = "parse" /\ pc = "done" /\ parse_madt /\ UNCHANGED acpi_vars

\* panic and the handler of a fault halt the processor.
Halted == (stage = "halted" \/ pc = "panic") /\ UNCHANGED <<vars, acpi_vars>>

BootStep == acpi_init \/ FindV1 \/ FindV2 \/ NotFound \/ ParseStep

AcpiNext == BootStep \/ ParseAgain \/ Halted

\* acpi_init runs with every interrupt line masked and waits for nothing.
AcpiSpec == AcpiInit /\ [][AcpiNext]_<<vars, acpi_vars>> /\ WF_<<vars, acpi_vars>>(BootStep)

-----------------------------------------------------------------------------
\* "parses RSDT/XSDT and finds signature": what parse_madt is given is the first
\* table of the list that is an MADT, and acpi_init halts only without one; this
\* is so for revision 0, and for the others it always halts.
MadtFound ==
    LET madts == { n \in DOMAIN rsdt.tables : rsdt.tables[n] = "APIC" }
    IN  /\ stage = "parse" => /\ rsdt.acpi_version = ACPI_V1
                              /\ k + 1 \in madts /\ \A n \in madts : k + 1 <= n
        /\ stage = "halted" /\ rsdt.acpi_version = ACPI_V1 => madts = {}


\* "finds ACPI tables and parses MADT": once the checksums are verified, an MADT
\* in the list is parsed, or found to have two address overrides.
MadtParsed ==
    (stage = "find" /\ "APIC" \in Range(rsdt.tables)) ~> pc \in {"done", "panic"}
==============================================================================
