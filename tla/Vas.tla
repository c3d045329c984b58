-------------------------------- MODULE Vas --------------------------------
(***************************************************************************)
(* One address space: vas::map_vmo, vas::unmap and vas::lock_address_range *)
(* (kernel/memory/vas.cpp), the mappings (kernel/memory/vmo_mapping.h) in  *)
(* their avl_tree, and the entries of the page table that vm_map and       *)
(* vm_unmap write (kernel/arch/amd64/memory/vm.cpp).                       *)
(*                                                                         *)
(* map_vmo and unmap hold the lock of the address space from their first   *)
(* line to their last, so each is one step.  Addresses and lengths are     *)
(* numbers of pages, and every VMO is committed, as rose_mapping_create    *)
(* leaves it.  unmap does not take the mapping out of the tree: release    *)
(* resets its range to {0, 0} there.                                       *)
(***************************************************************************)
EXTENDS Integers, FiniteSets

CONSTANTS
    Mappings,   \* bound: the mappings that can be created
    TopPage,    \* bound: pages are 0..TopPage
    Lengths,    \* lengths of VMOs, in pages
    NoMapping

ASSUME VasAssumption == NoMapping \notin Mappings /\ TopPage \in Nat /\ Lengths \subseteq Nat \ {0}

VARIABLES
    mappings,   \* _mappings, a tree
    range,      \* _range of each mapping
    created,    \* the mappings that have been created; the tree keeps them alive
    valid,      \* the mappings that are not released
    present,    \* the pages with a present entry in the page table
    stopped     \* the kernel has panicked

vasVars == <<mappings, range, created, valid, present, stopped>>

\* vmo_mapping_address_compare
Before(a, b) == a.end <= b.start

Avl == INSTANCE AvlOps WITH Less <- Before, Null <- NoMapping

PagesOf(r) == r.start..(r.end - 1)

Nowhere == [start |-> 0, end |-> 0]

Ranges == {[start |-> a, end |-> b] : a \in 0..TopPage, b \in 1..(TopPage + 1)}

VasTree ==
    [root |-> NoMapping, size |-> 0, left |-> [m \in Mappings |-> NoMapping], right |-> [m \in Mappings |-> NoMapping],
     parent |-> [m \in Mappings |-> NoMapping], bf |-> [m \in Mappings |-> 0]]

VasInit ==
    /\ mappings = VasTree
    /\ range = [m \in Mappings |-> Nowhere]
    /\ created = {} /\ valid = {} /\ present = {} /\ stopped = FALSE

\* MUTANT of Unmapped: the last page stays in the table.
AllButLast(r) == present \ r.start..(r.end - 2)

\* vm_map panics: "Tried to re-map page"
AlreadyPresent(r) == PagesOf(r) \cap present # {}

\* The page table after vm_unmap.
Unmapped(r) == present \ PagesOf(r)

\* The ranges after vmo_mapping::release.
RangeReset(m) == [range EXCEPT ![m] = Nowhere]

Occupied(r) == Avl!Find(mappings, range, r) # NoMapping

MapVmo(m, r) ==
    /\ ~stopped
    /\ m \notin created
    /\ ~Occupied(r)
    /\ created' = created \cup {m}
    /\ range' = [range EXCEPT ![m] = r]
    /\ mappings' = Avl!Insert(mappings, range', m).tree
    /\ valid' = valid \cup {m}
    /\ stopped' = AlreadyPresent(r)
    /\ present' = IF AlreadyPresent(r) THEN present ELSE present \cup PagesOf(r)

\* "tried to map a VMO at ..., which is already occupied by another VMO"
MapOccupied(r) ==
    /\ ~stopped /\ created # Mappings
    /\ Occupied(r)
    /\ stopped' = TRUE
    /\ UNCHANGED <<mappings, range, created, valid, present>>

\* rose_mapping_destroy; of a released mapping it returns invalid_handle.
Unmap(m) ==
    /\ ~stopped
    /\ m \in valid
    /\ stopped' = ~(PagesOf(range[m]) \subseteq present)     \* "Tried to unmap an unmapped address"
    /\ present' = Unmapped(range[m])
    /\ range' = RangeReset(m)
    /\ valid' = valid \ {m}
    /\ UNCHANGED <<mappings, created>>

VasNext ==
    \/ \E r \in {x \in Ranges : x.end - x.start \in Lengths} :
          MapOccupied(r) \/ \E m \in Mappings : MapVmo(m, r)
    \/ \E m \in Mappings : Unmap(m)

VasSpec == VasInit /\ [][VasNext]_vasVars

-----------------------------------------------------------------------------
(* Properties *)

\* The tree holds every mapping ever made; a released one is at {0, 0}.
VasTypeOK ==
    /\ valid \subseteq created /\ created \subseteq Mappings
    /\ \A m \in Mappings : range[m] \in Ranges \cup {Nowhere}
    /\ mappings.size = Cardinality(created)
    /\ present \subseteq 0..TopPage

\* Two mappings of an address space never share a page while the kernel runs.
\* Once a mapping has been released map_vmo may overlook an occupied range;
\* vm_map then stops the kernel.
NoOverlap ==
    ~stopped => \A m, n \in valid : m # n => PagesOf(range[m]) \cap PagesOf(range[n]) = {}

\* The page table has an entry for exactly the pages of the mappings.
PresentIsMapped == ~stopped => present = UNION {PagesOf(range[m]) : m \in valid}

\* A mapping that lock_address_range finds is not released, and it shares an
\* address with the range.
LookupSound ==
    \A r \in Ranges :
        LET m == Avl!Find(mappings, range, r)
        IN  r.start < r.end /\ m # NoMapping => m \in valid /\ PagesOf(range[m]) \cap PagesOf(r) # {}

\* The tree of mappings and the page table agree: no page is in two mappings,
\* the pages present are those of the mappings, and a lookup does not lead to
\* one that is gone.
MappingsSound == VasTypeOK /\ NoOverlap /\ PresentIsMapped /\ LookupSound

\* lock_address_range finds the mapping of every mapped range.
LookupFindsMapped == \A m \in valid : Avl!Find(mappings, range, range[m]) = m
=============================================================================
