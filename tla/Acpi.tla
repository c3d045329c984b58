-------------------------------- MODULE Acpi --------------------------------
(***************************************************************************)
(* Finding the cores (kernel/arch/common/acpi/acpi.cpp): the root tables,  *)
(* the search for the MADT, and parse_madt, which goes over its entries    *)
(* once for the cores and once for their NMI lines.                        *)
(*                                                                         *)
(* A root table is the sequence of the tables it points to; a table is its *)
(* signature and whether its checksum is right.  Cores and NMI lines are   *)
(* described by entries for the APIC or the x2APIC.  The storage for cores *)
(* has AcpiMaxCores places; what is written behind it is kept apart.  The  *)
(* address of the local APICs is left out: nothing here depends on it.     *)
(***************************************************************************)
EXTENDS Naturals, Sequences, FiniteSets, Functions

CONSTANTS
    AcpiMachines,       \* bound: the tables to try, [rsdp, madt]
    AcpiMaxCores        \* max_core_count

\* The root tables and the tables they list; all have the size of their header at least.
Roots == [valid : BOOLEAN, tables : Seq({"madt", "bad_madt", "other"})]
RootPointers == [valid : BOOLEAN, revision : Nat, xsdt : Roots, rsdt : Roots]
MadtEntries == [type : STRING, enabled : BOOLEAN, apic : Nat, acpi : Nat, nmi : Nat]

ASSUME AcpiAssumption == AcpiMachines \subseteq [rsdp : RootPointers, madt : Seq(MadtEntries)] /\ AcpiMaxCores \in Nat

VARIABLES
    rsdp,           \* [valid, revision, xsdt, rsdt], the root tables with their tables
    madt,           \* the entries of the MADT
    acpiStep,       \* "idle", "root", "find", "cores", "nmis", "done" or "panic"
    rootTable,      \* the root table in use, and the place of the search in it
    entry,          \* the entry parse_madt is at
    storage,        \* the cores: [apic, acpi, nmi]
    beyond          \* cores written behind the end of the storage

acpiVars == <<rsdp, madt, acpiStep, rootTable, entry, storage, beyond>>

AcpiInit ==
    /\ rsdp = [valid |-> FALSE, revision |-> 0, xsdt |-> [valid |-> FALSE, tables |-> << >>],
               rsdt |-> [valid |-> FALSE, tables |-> << >>]]
    /\ madt = << >> /\ acpiStep = "idle" /\ rootTable = << >> /\ entry = 1 /\ storage = << >> /\ beyond = 0

AcpiPick ==
    /\ acpiStep = "idle"
    /\ \E m \in AcpiMachines : rsdp' = m.rsdp /\ madt' = m.madt
    /\ acpiStep' = "root"
    /\ UNCHANGED <<rootTable, entry, storage, beyond>>

\* The root table that is used, if it is valid.
Root == IF rsdp.revision >= 2 /\ rsdp.xsdt.valid THEN rsdp.xsdt ELSE rsdp.rsdt

\* acpi::initialize
AcpiRoot ==
    /\ acpiStep = "root"
    /\ IF rsdp.valid /\ Root.valid
       THEN acpiStep' = "find" /\ rootTable' = Root.tables
       ELSE acpiStep' = "panic" /\ UNCHANGED rootTable
    /\ UNCHANGED <<rsdp, madt, entry, storage, beyond>>

\* One turn of find_table: the signature and the checksum.
AcpiFind ==
    /\ acpiStep = "find"
    /\ acpiStep' = IF rootTable = << >> THEN "panic" ELSE IF Head(rootTable) = "madt" THEN "cores" ELSE "find"
    /\ rootTable' = IF rootTable = << >> THEN << >> ELSE Tail(rootTable)
    /\ UNCHANGED <<rsdp, madt, entry, storage, beyond>>

-----------------------------------------------------------------------------
(* parse_madt *)

Core(e) == [apic |-> e.apic, acpi |-> e.acpi, nmi |-> 0]

\* MUTANT of IsCore: a disabled core counts, too.
AnyCore(e) == e.type \in {"lapic", "x2apic"}

IsCore(e) == e.type \in {"lapic", "x2apic"} /\ e.enabled

\* The first pass.  The number of cores is not looked at.
MadtCores ==
    /\ acpiStep = "cores"
    /\ IF entry > Len(madt)
       THEN acpiStep' = "nmis" /\ entry' = 1 /\ UNCHANGED <<storage, beyond>>
       ELSE /\ IF ~ IsCore(madt[entry])
               THEN UNCHANGED <<storage, beyond>>
               ELSE IF Len(storage) < AcpiMaxCores
               THEN storage' = Append(storage, Core(madt[entry])) /\ UNCHANGED beyond
               ELSE beyond' = beyond + 1 /\ UNCHANGED storage
            /\ entry' = entry + 1 /\ UNCHANGED acpiStep
    /\ UNCHANGED <<rsdp, madt, rootTable>>

\* The cores that an NMI entry is for: all of them, or the first with the ACPI id.
NmiCores(e) == {i \in DOMAIN storage : e.acpi = 255 \/ (storage[i].acpi = e.acpi
                                                        /\ \A j \in 1 .. i - 1 : storage[j].acpi # e.acpi)}

\* The second pass.
MadtNmis ==
    /\ acpiStep = "nmis"
    /\ IF entry > Len(madt)
       THEN acpiStep' = "done" /\ UNCHANGED <<entry, storage>>
       ELSE /\ storage' = IF madt[entry].type \notin {"lapic_nmi", "x2apic_nmi"} THEN storage
                          ELSE [i \in DOMAIN storage |->
                                  IF i \in NmiCores(madt[entry])
                                  THEN [storage[i] EXCEPT !.nmi = madt[entry].nmi] ELSE storage[i]]
            /\ entry' = entry + 1 /\ UNCHANGED acpiStep
    /\ UNCHANGED <<rsdp, madt, rootTable, beyond>>

AcpiNext == AcpiPick \/ AcpiRoot \/ AcpiFind \/ MadtCores \/ MadtNmis

AcpiSpec == AcpiInit /\ [][AcpiNext]_acpiVars

-----------------------------------------------------------------------------
\* The entries up to n for cores that are enabled.
EnabledCores(n) == {i \in 1 .. n : madt[i].type \in {"lapic", "x2apic"} /\ madt[i].enabled}

\* The entries up to n that give a core its NMI line; the last one counts.
NmiEntries(core, n) ==
    {i \in 1 .. n : madt[i].type \in {"lapic_nmi", "x2apic_nmi"} /\ madt[i].acpi \in {core.acpi, 255}}
Latest(S) == CHOOSE i \in S : \A j \in S : j <= i
NmiOf(core, n) == IF NmiEntries(core, n) = {} THEN 0 ELSE madt[Latest(NmiEntries(core, n))].nmi

\* The core that entry i is for, with its NMI line of the entries up to n, comes as the
\* entry does among those for cores.
CoreOf(i, n) == [Core(madt[i]) EXCEPT !.nmi = NmiOf(madt[i], n)]
PlaceOf(i) == Cardinality(EnabledCores(i))

OneCorePerId == \A i, j \in DOMAIN storage : storage[i].acpi = storage[j].acpi => i = j

(* The kernel starts with the cores that the firmware has enabled, in the  *)
(* order of the table and each with its own NMI line, wherever the entries *)
(* for NMI lines stand, as long as there is room for the cores and no two  *)
(* of them have one ACPI id.                                               *)
CoresAsInTable ==
    (acpiStep = "done" /\ beyond = 0 /\ OneCorePerId) =>
        /\ Len(storage) = Cardinality(EnabledCores(Len(madt)))
        /\ \A i \in EnabledCores(Len(madt)) : storage[PlaceOf(i)] = CoreOf(i, Len(madt))

(* The kernel gives up only if there is nothing to use: the root pointer   *)
(* is wrong, or neither root table is right, or the one that counts, the   *)
(* XSDT when it is right, has no MADT with a right checksum.               *)
PanicsWithoutTableOnly ==
    acpiStep = "panic" =>
        \/ ~ rsdp.valid
        \/ \A r \in {rsdp.rsdt} \cup (IF rsdp.revision >= 2 THEN {rsdp.xsdt} ELSE {}) :
               ~ r.valid \/ "madt" \notin Range(r.tables)
        \/ rsdp.revision >= 2 /\ rsdp.xsdt.valid /\ "madt" \notin Range(rsdp.xsdt.tables)

(* The kernel finds the cores of the machine, or has nothing to find them  *)
(* with.                                                                   *)
CoresFound == CoresAsInTable /\ PanicsWithoutTableOnly
=============================================================================
