--------------------------------- MODULE Vmo ---------------------------------
(***************************************************************************)
(* A sparse virtual memory object (kernel/memory/vmo.cpp): created with a  *)
(* length in bytes, committed, mapped element by element (vas::map_vmo),   *)
(* unmapped by its range (arch::vm::unmap) and destroyed.                  *)
(*                                                                         *)
(* Lengths are integers of VmoWidth values (2^64), a page is VmoPage       *)
(* bytes.  The code commits objects only as a whole (commit_all).          *)
(***************************************************************************)
EXTENDS Integers, Sequences, FiniteSets

CONSTANTS VmoWidth, VmoPage

ASSUME VmoAssumption == VmoPage \in Nat \ {0} /\ VmoWidth \in Nat \ {0} /\ VmoWidth % VmoPage = 0

VARIABLES
    asked,      \* the length asked for
    length,     \* _length
    elements,   \* the elements by offset: [offset, frame], frame 0 for no backing address
    framesTaken,    \* the number of frames popped
    framesReturned, \* a frame given back -> how often
    mapped,     \* the offsets mapped into an address space
    vmoStep     \* "idle", "created", "mapped", "unmapped" or "destroyed"

vmoVars == <<asked, length, elements, framesTaken, framesReturned, mapped, vmoStep>>

VmoInit ==
    /\ asked = 0 /\ length = 0 /\ elements = << >> /\ framesTaken = 0 /\ framesReturned = << >> /\ mapped = {}
    /\ vmoStep = "idle"

\* length += (page - length) % page, in unsigned arithmetic.
RoundedUp(bytes) == (bytes + (((VmoPage - bytes) % VmoWidth) % VmoPage)) % VmoWidth

CreateSparse ==
    /\ vmoStep = "idle"
    /\ \E bytes \in 0 .. VmoWidth - 1 : asked' = bytes /\ length' = RoundedUp(bytes)
    /\ elements' = <<[offset |-> 0, frame |-> 0]>>
    /\ vmoStep' = "created"
    /\ UNCHANGED <<framesTaken, framesReturned, mapped>>

\* The first element without a frame; 0 when the loop of commit_between_offsets is at its end.
Uncommitted ==
    IF \A i \in DOMAIN elements : elements[i].frame # 0 THEN 0
    ELSE CHOOSE i \in DOMAIN elements : elements[i].frame = 0 /\ \A j \in 1 .. i - 1 : elements[j].frame # 0

\* An element at place i; those from there on move up.
Inserted(es, i, e) ==
    [j \in 1 .. Len(es) + 1 |-> IF j < i THEN es[j] ELSE IF j = i THEN e ELSE es[j - 1]]

\* MUTANT of ElementFits: a page that would start at the end is taken for one of the object.
ElementFitsLong(e, next) == e.offset + VmoPage <= next

\* There is another page between the element and the next one.
ElementFits(e, next) == e.offset + VmoPage < next

\* One turn of the inner loop, or its end: a frame for the element, and an
\* element for the page behind it unless the next element is there.
CommitElement ==
    /\ vmoStep = "created" /\ Uncommitted # 0
    /\ LET i == Uncommitted
           e == elements[i]
           next == IF i = Len(elements) THEN length ELSE elements[i + 1].offset
           done == [elements EXCEPT ![i] = [offset |-> e.offset, frame |-> framesTaken + 1]]
       IN  elements' = IF ElementFits(e, next)
                       THEN Inserted(done, i + 1, [offset |-> e.offset + VmoPage, frame |-> 0])
                       ELSE done
    /\ framesTaken' = framesTaken + 1
    /\ UNCHANGED <<asked, length, framesReturned, mapped, vmoStep>>

\* map_vmo refuses what is not committed.
MapElements ==
    /\ vmoStep \in {"created", "unmapped"} /\ Uncommitted = 0
    /\ mapped' = {elements[i].offset : i \in DOMAIN elements}
    /\ vmoStep' = "mapped"
    /\ UNCHANGED <<asked, length, elements, framesTaken, framesReturned>>

\* unmap of the range of the mapping, one page after the other.
UnmapRange ==
    /\ vmoStep = "mapped"
    /\ mapped' = {o \in mapped : ~ o < length}
    /\ vmoStep' = "unmapped"
    /\ UNCHANGED <<asked, length, elements, framesTaken, framesReturned>>

Backings == {i \in DOMAIN elements : elements[i].frame # 0}

\* The destructor, once nothing refers to the object.
DestroyVmo ==
    /\ vmoStep = "unmapped"
    /\ framesReturned' = [f \in {elements[i].frame : i \in Backings} |->
                            Cardinality({i \in Backings : elements[i].frame = f})]
    /\ vmoStep' = "destroyed"
    /\ UNCHANGED <<asked, length, elements, framesTaken, mapped>>

VmoNext == CreateSparse \/ CommitElement \/ MapElements \/ UnmapRange \/ DestroyVmo

VmoSpec == VmoInit /\ [][VmoNext]_vmoVars

-----------------------------------------------------------------------------
NoOverflow == asked <= VmoWidth - VmoPage

(* A committed object has a page of its own for every byte that was asked  *)
(* for, whatever the length, unless rounding it up overflows; the pages    *)
(* follow each other from offset 0.                                        *)
CommittedWhole ==
    (vmoStep \in {"mapped", "unmapped"} /\ NoOverflow) =>
      /\ \A b \in 0 .. asked - 1 : \E i \in DOMAIN elements : b \in elements[i].offset .. elements[i].offset + VmoPage - 1
      /\ \A i, j \in DOMAIN elements : i < j =>
           elements[i].offset + VmoPage <= elements[j].offset /\ elements[i].frame # elements[j].frame

(* A destroyed object has given back exactly the frames that it popped,    *)
(* each of them once.                                                      *)
AllFramesReturned ==
    vmoStep = "destroyed" => framesReturned = [f \in 1 .. framesTaken |-> 1]

(* No page of an object that still has a length stays mapped behind the    *)
(* end of its mapping.                                                     *)
NothingStaysMapped == (vmoStep \in {"unmapped", "destroyed"} /\ length # 0) => mapped = {}

(* From its creation to its end an object has all the frames that were     *)
(* asked for, and keeps none of them, in the page table or for itself.     *)
VmoSound == CommittedWhole /\ AllFramesReturned /\ NothingStaysMapped
=============================================================================
