------------------------------- MODULE BootMap -------------------------------
(***************************************************************************)
(* From the firmware's memory map to the first frames: the UEFI loader     *)
(* retrieves the map and takes its own stack out of it (get_memory_map,    *)
(* account_for_stack), the kernel cuts what is free into frames            *)
(* (pmm::initialize).                                                      *)
(*                                                                         *)
(* Addresses are counted in pages of the lowest layer.  A layer's page     *)
(* size (1, 2, 4 for 4 KiB, 2 MiB, 1 GiB) and the size of the low memory   *)
(* (1 MiB) are scaled down.  All attributes are 0 in the code.             *)
(***************************************************************************)
EXTENDS Integers, Sequences, SequencesExt, FiniteSets, FiniteSetsExt

CONSTANTS
    MapMaxEntries, MapMaxPages,     \* bounds of the firmware's map and of its entries
    MapStarts,                      \* where the first entry may start
    StackPages,                     \* the pages account_for_stack takes out
    LowPages                        \* 1 MiB

VARIABLES
    firmware,       \* the firmware's map: [start, pages, type]
    stackAt,        \* the page of approximately_stack
    entries,        \* memory_map::entries, with memory_map::size its length
    bootStep,       \* "idle", "loader", "kernel", "done" or "halted"
    region,         \* i of pmm::initialize
    low,            \* sub_1M_bottom, sub_1M_top
    frames,         \* the frames pushed: [start, layer]
    usedFrames      \* used_frames[0]

mapVars == <<firmware, stackAt, entries, bootStep, region, low, frames, usedFrames>>

PageSizes == <<1, 2, 4>>

FirmwareTypes == {"conventional", "boot_services_data", "loader_data", "runtime_services_data", "unknown"}

Converted(type) ==
    CASE type \in {"conventional", "boot_services_data"} -> "free"
      [] type = "loader_data" -> "loader"
      [] type = "runtime_services_data" -> "preserve"
      [] OTHER -> "unusable"

PagesOf(e) == e.start .. e.start + e.pages - 1

\* The entries follow each other; a hole is an entry of unknown type.
FirmwareMap(start, sizes, types) ==
    [i \in DOMAIN sizes |->
        [start |-> start + FoldLeft(+, 0, SubSeq(sizes, 1, i - 1)), pages |-> sizes[i], type |-> types[i]]]

MapInit ==
    /\ firmware = << >> /\ stackAt = 0 /\ entries = << >> /\ bootStep = "idle"
    /\ region = 1 /\ low = [bottom |-> 0, top |-> 0] /\ frames = {} /\ usedFrames = 0

MapPick ==
    /\ bootStep = "idle"
    /\ \E n \in 1 .. MapMaxEntries, start \in MapStarts :
         \E sizes \in [1 .. n -> 1 .. MapMaxPages], types \in [1 .. n -> FirmwareTypes] :
           /\ firmware' = FirmwareMap(start, sizes, types)
           /\ stackAt' \in UNION {PagesOf(firmware'[i]) : i \in 1 .. n}
    /\ bootStep' = "loader"
    /\ UNCHANGED <<entries, region, low, frames, usedFrames>>

\* get_memory_map, the second call having succeeded.
GetMemoryMap ==
    /\ bootStep = "loader" /\ entries = << >>
    /\ entries' = [i \in DOMAIN firmware |-> [firmware[i] EXCEPT !.type = Converted(@)]]
    /\ UNCHANGED <<firmware, stackAt, bootStep, region, low, frames, usedFrames>>

Adjacent(a, b) == a.type = b.type /\ a.start + a.pages = b.start

Joined(seq, e) ==
    IF seq # << >> /\ Adjacent(Last(seq), e)
    THEN [seq EXCEPT ![Len(seq)].pages = @ + e.pages]
    ELSE Append(seq, e)

Coalesced(map) == FoldLeft(Joined, << >>, map)

\* MUTANT of WithoutStack: a stack at the end of the entry is not taken off it.
KeepsStackAtEnd(map, i, end) ==
    IF map[i].start = stackAt
    THEN [map EXCEPT ![i] = [@ EXCEPT !.start = end, !.pages = @ - StackPages]]
    ELSE map

\* The entry map[i] without the stack.  The split makes two entries more, yet
\* the size grows by one: the last entry of the map is dropped.
WithoutStack(map, i, end) ==
    IF map[i].start = stackAt
    THEN [map EXCEPT ![i] = [@ EXCEPT !.start = end, !.pages = @ - StackPages]]
    ELSE IF map[i].start + map[i].pages = end
    THEN [map EXCEPT ![i].pages = @ - StackPages]
    ELSE Front(SubSeq(map, 1, i - 1)
               \o <<[map[i] EXCEPT !.pages = stackAt - map[i].start],
                    [start |-> stackAt, pages |-> StackPages, type |-> "working_stack"],
                    [start |-> end, pages |-> map[i].start + map[i].pages - end, type |-> "free"]>>
               \o SubSeq(map, i + 1, Len(map)))

AccountForStack ==
    /\ bootStep = "loader" /\ entries # << >>
    /\ LET map == Coalesced(entries)
           end == stackAt + StackPages
           i == SelectInSeq(map, LAMBDA e : e.start <= stackAt /\ e.start + e.pages >= end)
       IN  IF i # 0 /\ map[i].type # "free"
           THEN bootStep' = "halted" /\ entries' = map
           ELSE bootStep' = "kernel" /\ entries' = IF i = 0 THEN map ELSE WithoutStack(map, i, end)
    /\ UNCHANGED <<firmware, stackAt, region, low, frames, usedFrames>>

-----------------------------------------------------------------------------
(* pmm::initialize *)

\* One page after the other: the layer whose turn it is in the two loops.

Climb(start, remaining) ==
    {l \in 1 .. Len(PageSizes) - 1 : start % PageSizes[l + 1] # 0 /\ remaining >= PageSizes[l]}

Descend(remaining) == {l \in 1 .. Len(PageSizes) : remaining >= PageSizes[l]}

\* The frames of [start, start + pages): layers upwards until the start is
\* aligned, then downwards from the largest that fits.
FramesOf(start, pages) ==
    LET Layer(s, r) == IF Climb(s, r) # {} THEN Min(Climb(s, r)) ELSE Max(Descend(r))
        cut[s \in start .. start + pages] ==
            LET r == start + pages - s
            IN  IF Climb(s, r) \cup Descend(r) = {} THEN {}
                ELSE {[start |-> s, layer |-> Layer(s, r)]} \cup cut[s + PageSizes[Layer(s, r)]]
    IN  cut[start]

UsedTypes == {"loader", "kernel", "initrd", "paging", "memory_map", "backbuffer", "log_buffer", "working_stack"}

\* The first region that starts below 1 MiB is saved, whatever its type.
SavesLow(start) == start < LowPages /\ low.top = 0

\* What a region leaves for the frames.
Rest(start, pages) ==
    IF ~ SavesLow(start) THEN [start |-> start, pages |-> pages]
    ELSE IF pages <= LowPages THEN [start |-> start, pages |-> 0]
    ELSE [start |-> LowPages, pages |-> pages - LowPages]

\* One turn of the loop over the map, with the regions the inner loop joins.
PmmRegion ==
    /\ bootStep = "kernel" /\ region <= Len(entries)
    /\ LET last == CHOOSE k \in region .. Len(entries) :
                     /\ \A j \in region .. k - 1 : Adjacent(entries[j], entries[j + 1])
                     /\ k < Len(entries) => ~ Adjacent(entries[k], entries[k + 1])
           start == entries[region].start
           pages == entries[last].start + entries[last].pages - start
           rest == Rest(start, pages)
           type == entries[last].type
           skipped == SavesLow(start) /\ pages <= LowPages
       IN  /\ low' = IF SavesLow(start)
                     THEN [bottom |-> start, top |-> IF pages <= LowPages THEN pages ELSE LowPages]
                     ELSE low
           /\ frames' = IF type = "free" /\ ~ skipped THEN frames \cup FramesOf(rest.start, rest.pages) ELSE frames
           /\ usedFrames' = IF type \in UsedTypes /\ ~ skipped THEN usedFrames + entries[last].pages ELSE usedFrames
           /\ region' = last + 1
    /\ UNCHANGED <<firmware, stackAt, entries, bootStep>>

PmmReady ==
    /\ bootStep = "kernel" /\ region > Len(entries)
    /\ bootStep' = "done"
    /\ UNCHANGED <<firmware, stackAt, entries, region, low, frames, usedFrames>>

MapNext == MapPick \/ GetMemoryMap \/ AccountForStack \/ PmmRegion \/ PmmReady

-----------------------------------------------------------------------------
FramePages(f) == f.start .. f.start + PageSizes[f.layer] - 1

FirmwareFree ==
    UNION {PagesOf(firmware[i]) : i \in {j \in DOMAIN firmware : Converted(firmware[j].type) = "free"}}

StackTaken == stackAt .. stackAt + StackPages - 1

AccountedFor == StackTaken \subseteq FirmwareFree

(* Every frame the kernel starts with is memory that the firmware gives    *)
(* up, and none of it holds a page of the stack the loader took out.       *)
FramesAreFree ==
    \A f \in frames :
      /\ FramePages(f) \subseteq FirmwareFree
      /\ AccountedFor => FramePages(f) \cap StackTaken = {}

(* The frames are aligned to their size and share no page, nor do they     *)
(* hold a page of the low range in which mp::boot copies its trampolines.  *)
FramesApart ==
    \A f \in frames :
      /\ f.start % PageSizes[f.layer] = 0
      /\ FramePages(f) \cap (low.bottom .. low.top - 1) = {}
      /\ \A g \in frames : f = g \/ FramePages(f) \cap FramePages(g) = {}

(* No memory is lost on the way, as long as the map starts at address 0    *)
(* (the saved part is then exactly the low memory) and the stack lies at   *)
(* an end of its entry (the map is then not split).                        *)
NothingLost ==
    (bootStep = "done" /\ firmware[1].start = 0 /\ \A i \in DOMAIN entries : entries[i].type # "working_stack") =>
        UNION {FramePages(f) : f \in frames} =
            (FirmwareFree \ (low.bottom .. low.top - 1)) \ (IF AccountedFor THEN StackTaken ELSE {})

(* The frames that the kernel starts with are the memory that is free, all *)
(* of it and each page once.                                               *)
FramesSound == FramesAreFree /\ FramesApart /\ NothingLost
=============================================================================
