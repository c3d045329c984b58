------------------------------ MODULE MCMemory ------------------------------
(***************************************************************************)
(* The containers of the kernel and its memory objects for TLC, side by    *)
(* side: they share nothing, so a behaviour is one of any of them, and     *)
(* `focus` says of which.                                                  *)
(*                                                                         *)
(* The keys of elements 1..8 of the AVL tree are even, so that a search    *)
(* may fall between two; element 9 has the key of element 4.  A descriptor *)
(* of the heap has its trigger time from the start, and is pushed again    *)
(* only as a new one.  Mappings that have not been made yet are alike: the *)
(* next one is the least.                                                  *)
(***************************************************************************)
EXTENDS TreeHeap, AvlTree, Vas, Vmo, PageTable

VARIABLE focus      \* the component that runs

MCElements == 1..9
MCKey == [n \in MCElements |-> IF n = 9 THEN 8 ELSE 2 * n]
MCValues == 1..17
MCLess(a, b) == a < b
MCBases == {13}
MCWatched == {1, 3}
MCKeyOf == <<1, 1, 1, 2, 2, 3, 3>>

MemoryInit ==
    /\ focus \in {"heap", "avl", "vas", "vmo", "pages"}
    /\ HeapInit /\ AvlInit /\ VasInit /\ VmoInit /\ PtInit

HeapStep ==
    /\ focus = "heap"
    /\ (\E e \in HeapElements : Push(e, MCKeyOf[e])) \/ Pop \/ PopEmpty
    /\ UNCHANGED <<focus, avlVars, vasVars, vmoVars, ptVars>>

AvlStep == focus = "avl" /\ AvlNext /\ UNCHANGED <<focus, heapVars, vasVars, vmoVars, ptVars>>

First(free) == {x \in free : \A y \in free : x <= y}

VasStep ==
    /\ focus = "vas"
    /\ \/ \E r \in {x \in Ranges : x.end - x.start \in Lengths} :
             MapOccupied(r) \/ \E m \in First(Mappings \ created) : MapVmo(m, r)
       \/ \E m \in Mappings : Unmap(m)
    /\ UNCHANGED <<focus, heapVars, avlVars, vmoVars, ptVars>>

VmoStep == focus = "vmo" /\ VmoNext /\ UNCHANGED <<focus, heapVars, avlVars, vasVars, ptVars>>

PagesStep == focus = "pages" /\ PtNext /\ UNCHANGED <<focus, heapVars, avlVars, vasVars, vmoVars>>

MemoryNext == HeapStep \/ AvlStep \/ VasStep \/ VmoStep \/ PagesStep

memoryVars == <<focus, heapVars, avlVars, vasVars, vmoVars, ptVars>>

MemorySpec == MemoryInit /\ [][MemoryNext]_memoryVars
=============================================================================
