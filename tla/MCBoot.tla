------------------------------- MODULE MCBoot -------------------------------
(***************************************************************************)
(* The steps from the interface compiler over the boot loader to the first *)
(* service for TLC.  Each component has finished before the next one       *)
(* starts, so a behaviour is one of any of them, and `focus` says of which.*)
(***************************************************************************)
EXTENDS MCThorn, Cpio, Elf, Loader, LoaderPaging, BootMap, Acpi, ApBoot, LogProtocol

VARIABLE focus      \* the component that runs

\* Cpio: names of which one begins another one, files with and without padding.
MCNames == {<<"a">>, <<"a", "b">>, <<"b">>}
MCLookups == MCNames \cup {<<"c">>}
MCSizes == {0, 5}
MCBlocks == {4, 512}

\* Elf: any two segments; and any dynamic table of three and section table of
\* two entries of an image that can be loaded.
MCImages ==
    {GoodImage(s, <<"null">>, <<"progbits">>) : s \in BoundedSeq(SegmentTypes, 2)}
    \cup {GoodImage(<<"load", "dynamic">>, d, s) :
             d \in BoundedSeq(DynamicTags, 3), s \in BoundedSeq(SectionTypes, 2)}

\* Loader: every graph of five images in which nothing needs itself, with at
\* most two needs each; one image may be missing, or have a relocation that
\* is in no segment.  File 5 has no relocations.
MCFiles == 1..5
MCSegments == [f \in MCFiles |-> <<[base |-> 0, end |-> 3 + f], [base |-> 8, end |-> 8 + f]>>]
MCNeeds(f) == {s \in BoundedSeq((f + 1)..5, 2) : IsInjective(s)}
MCGraphs == {<<a, b, c, d, << >>>> : a \in MCNeeds(1), b \in MCNeeds(2), c \in MCNeeds(3), d \in MCNeeds(4)}
MCFaults == {[absent |-> {}, stray |-> {}], [absent |-> {4}, stray |-> {}], [absent |-> {}, stray |-> {4}]}
MCRelocs == [f \in MCFiles |->
                IF f = 5 THEN << >>
                ELSE <<[symbol |-> TRUE, at |-> 2, addend |-> 0], [symbol |-> FALSE, at |-> 8, addend |-> 1]>>]
MCDefiners == {{}, {3, 5}}

\* LoaderPaging: ranges that are and are not aligned, and cross a table.
MCCalls == [phys : {1, 6, 16}, bytes : {1, 5, 6}, virt : {1, 6, 8, 11}]

MCStarts == {0, 1}

\* Acpi: entries of every type, enabled or not, for one core or for all (255).
MadtEntry(type, enabled, apic, acpi, nmi) ==
    [type |-> type, enabled |-> enabled, apic |-> apic, acpi |-> acpi, nmi |-> nmi]
MCEntries ==
    {MadtEntry("lapic", TRUE, 1, 11, 0), MadtEntry("lapic", FALSE, 2, 12, 0), MadtEntry("x2apic", TRUE, 3, 13, 0),
     MadtEntry("lapic_nmi", TRUE, 0, 11, 1), MadtEntry("x2apic_nmi", TRUE, 0, 13, 2),
     MadtEntry("lapic_nmi", TRUE, 0, 255, 3), MadtEntry("ioapic", TRUE, 0, 0, 0)}

\* Any root tables, and any MADT of four entries.
MCRoots == [valid : BOOLEAN, tables : {<< >>, <<"other", "madt">>, <<"bad_madt", "madt">>, <<"bad_madt">>}]
MCGoodRoot == [valid |-> TRUE, revision |-> 2, xsdt |-> [valid |-> TRUE, tables |-> <<"madt">>],
               rsdt |-> [valid |-> TRUE, tables |-> << >>]]
MCMachines ==
    [rsdp : [valid : BOOLEAN, revision : {0, 2}, xsdt : MCRoots, rsdt : MCRoots], madt : {<< >>}]
    \cup [rsdp : {MCGoodRoot}, madt : BoundedSeq(MCEntries, 4)]

-----------------------------------------------------------------------------

MCInit ==
    /\ focus \in {"thorn", "cpio", "elf", "loader", "paging", "map", "acpi", "ap", "user"}
    /\ ThornInit /\ CpioInit /\ ElfInit /\ LoaderInit /\ LpInit /\ MapInit /\ AcpiInit /\ ApInit /\ BootInit

Only(c) ==
    /\ focus = c /\ focus' = focus
    /\ c # "thorn" => UNCHANGED thornVars
    /\ c # "cpio" => UNCHANGED cpioVars
    /\ c # "elf" => UNCHANGED elfVars
    /\ c # "loader" => UNCHANGED loaderVars
    /\ c # "paging" => UNCHANGED lpVars
    /\ c # "map" => UNCHANGED mapVars
    /\ c # "acpi" => UNCHANGED acpiVars
    /\ c # "ap" => UNCHANGED apVars
    /\ c # "user" => UNCHANGED bootVars

MCNext ==
    \/ Only("thorn") /\ ThornNext
    \/ Only("cpio") /\ CpioNext
    \/ Only("elf") /\ ElfNext
    \/ Only("loader") /\ LoaderNext
    \/ Only("paging") /\ LpNext
    \/ Only("map") /\ MapNext
    \/ Only("acpi") /\ AcpiNext
    \/ Only("ap") /\ ApNext
    \/ Only("user") /\ BootNext

mcVars == <<focus, thornVars, cpioVars, elfVars, loaderVars, lpVars, mapVars, acpiVars, apVars, bootVars>>

\* The processors run, and every thread gets processor time (Scheduler:
\* QueuedThreadRuns); no behaviour of these two components is infinite.
MCSpec ==
    /\ MCInit /\ [][MCNext]_mcVars
    /\ WF_mcVars(Only("ap") /\ ApNext) /\ WF_mcVars(Only("user") /\ BootNext)

(* Properties of two components *)

\* The start comes to its end: the bootstrap processor stops waiting for the
\* other cores, and bootinit and the logger come to the end of their programs.
StartCompletes == BootEnds /\ BootCompletes
=============================================================================
