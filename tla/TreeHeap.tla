------------------------------ MODULE TreeHeap ------------------------------
(***************************************************************************)
(* util::tree_heap (kernel/util/tree_heap.h), link by link: an intrusive   *)
(* binary heap, kept complete, whose elements carry the prev, next and     *)
(* tree_parent pointers themselves.  push and pop run under the lock of    *)
(* the instance or timer that owns the heap and are one step each.         *)
(*                                                                         *)
(* A timer makes a new descriptor for every event, so an element comes     *)
(* with null links (Fresh).  The scheduler pushes the same threads again   *)
(* and again, with the links they left a heap with; waiting in a mailbox   *)
(* (util::fifo) in the meantime clears next, and nothing clears prev.      *)
(***************************************************************************)
EXTENDS Integers, FiniteSets

CONSTANTS
    HeapElements,   \* timer descriptors or threads
    HeapKeys,       \* trigger times or timestamps
    HeapNull,
    Fresh       \* TRUE: a new element for every push

ASSUME TreeHeapAssumption ==
    HeapKeys \subseteq Int /\ HeapNull \notin HeapElements /\ Fresh \in BOOLEAN

VARIABLES
    heap,       \* _top, _size, and the links of every element
    key,        \* element -> trigger_time or timestamp, HeapNull before the first one
    outside,    \* the elements that no heap owns
    popped      \* what the last pop returned

heapVars == <<heap, key, outside, popped>>

Links == [HeapElements -> HeapElements \cup {HeapNull}]
NoLinks == [e \in HeapElements |-> HeapNull]

HeapInit ==
    /\ heap = [top |-> HeapNull, size |-> 0, prev |-> NoLinks, next |-> NoLinks, parent |-> NoLinks]
    /\ key = NoLinks
    /\ outside = HeapElements
    /\ popped = HeapNull

-----------------------------------------------------------------------------
(* Walking and relinking *)

\* _get_nth: n counts levels and x the slots discarded on the left.
RECURSIVE Descend(_, _, _, _, _, _)
Descend(h, current, n, x, level, slot) ==
    IF n >= level THEN current
    ELSE LET y == (2^(level - 1)) \div 2^n + x IN
         IF y < slot
         THEN Descend(h, h.next[current], n + 1, y, level, slot)
         ELSE Descend(h, h.prev[current], n + 1, x, level, slot)

\* level is the width of nth in bits (__builtin_clzl).
GetNth(h, nth) ==
    LET level == CHOOSE l \in 1 .. nth : 2^(l - 1) <= nth /\ nth < 2^l IN
    Descend(h, h.top, 1, 0, level, nth - (2^(level - 1) - 1))

ParentOfLeftmostEmpty(h) == GetNth(h, (h.size + 1) \div 2)

RightmostFull(h) == GetNth(h, h.size)

\* Element p and its child c change places.
KeepsSibling(h, p, c) ==
    LET left == h.prev[p] = c
        up == h.parent[p]
        mid == [h EXCEPT
                    !.prev[p] = h.prev[c], !.next[p] = h.next[c],
                    !.prev[c] = IF left THEN p ELSE h.prev[p],
                    !.next[c] = IF left THEN h.next[p] ELSE p,
                    !.parent = [x \in HeapElements |->
                        CASE x = p -> c
                          [] x = c -> up
                          [] x \in {h.prev[c], h.next[c]} -> p
                          [] OTHER -> h.parent[x]]] IN
    IF up = HeapNull THEN [mid EXCEPT !.top = c]
    ELSE IF mid.prev[up] = p THEN [mid EXCEPT !.prev[up] = c] ELSE [mid EXCEPT !.next[up] = c]
Swap(h, p, c) ==
    LET left == h.prev[p] = c
        sibling == IF left THEN h.next[p] ELSE h.prev[p]
        up == h.parent[p]
        mid == [h EXCEPT
                    !.prev[p] = h.prev[c], !.next[p] = h.next[c],
                    !.prev[c] = IF left THEN p ELSE h.prev[p],
                    !.next[c] = IF left THEN h.next[p] ELSE p,
                    !.parent = [x \in HeapElements |->
                        CASE x = sibling \/ x = p -> c
                          [] x = c -> up
                          [] x \in {h.prev[c], h.next[c]} -> p
                          [] OTHER -> h.parent[x]]] IN
    IF up = HeapNull THEN [mid EXCEPT !.top = c]
    ELSE IF mid.prev[up] = p THEN [mid EXCEPT !.prev[up] = c] ELSE [mid EXCEPT !.next[up] = c]

RECURSIVE SiftUp(_, _, _)
SiftUp(h, e, k) ==
    IF e # h.top /\ k[e] < k[h.parent[e]]
    THEN SiftUp(Swap(h, h.parent[e], e), e, k)
    ELSE h

\* The least of e and its children, e itself first, then prev.
FirstOfChildren(h, e, k) ==
    LET IsLess(a, b) == a # HeapNull /\ k[a] < k[b] IN
    IF IsLess(h.prev[e], e) THEN h.prev[e] ELSE IF IsLess(h.next[e], e) THEN h.next[e] ELSE e
Best(h, e, k) ==
    LET IsLess(a, b) == a # HeapNull /\ k[a] < k[b]
        best == IF IsLess(h.prev[e], e) THEN h.prev[e] ELSE e IN
    IF IsLess(h.next[e], best) THEN h.next[e] ELSE best

RECURSIVE SiftDown(_, _, _)
SiftDown(h, e, k) ==
    LET best == Best(h, e, k) IN
    IF best = e THEN h ELSE SiftDown(Swap(h, e, best), e, k)

-----------------------------------------------------------------------------
(* push and pop *)

Pushed(h, e, k) ==
    IF h.top = HeapNull THEN [h EXCEPT !.top = e, !.size = @ + 1]
    ELSE LET parent == ParentOfLeftmostEmpty(h)
             leaf == [h EXCEPT !.parent[e] = parent, !.prev[e] = HeapNull, !.next[e] = HeapNull]
             linked == IF leaf.prev[parent] # HeapNull
                       THEN [leaf EXCEPT !.next[parent] = e]
                       ELSE [leaf EXCEPT !.prev[parent] = e] IN
         [SiftUp(linked, e, k) EXCEPT !.size = @ + 1]

\* Two elements: the only child takes over.
PopOfTwo(h) ==
    LET child == h.prev[h.top] IN
    [h EXCEPT !.top = child, !.parent[child] = HeapNull, !.size = 1]

\* Three: the better child takes over and becomes the parent of the other.
PopOfThree(h, k) ==
    LET left == h.prev[h.top]
        right == h.next[h.top]
        best == IF k[left] < k[right] THEN left ELSE right
        other == IF best = left THEN right ELSE left IN
    [h EXCEPT !.top = best, !.prev[best] = other, !.parent[other] = best,
              !.parent[best] = HeapNull, !.size = 2]

\* More: the last element takes over and sinks.
PopOfMany(h, k) ==
    LET top == h.top
        e == RightmostFull(h)
        up == h.parent[e]
        raised == [h EXCEPT !.top = e, !.prev[e] = h.prev[top], !.next[e] = h.next[top]]
        cut == IF raised.prev[up] = e THEN [raised EXCEPT !.prev[up] = HeapNull]
                                      ELSE [raised EXCEPT !.next[up] = HeapNull] IN
    [SiftDown([cut EXCEPT !.parent[e] = HeapNull, !.parent[h.prev[top]] = e,
                          !.parent[h.next[top]] = e], e, k)
        EXCEPT !.size = @ - 1]

Popped(h, k) ==
    CASE h.size = 1 -> [h EXCEPT !.top = HeapNull, !.size = 0]
      [] h.size = 2 -> PopOfTwo(h)
      [] h.size = 3 -> PopOfThree(h, k)
      [] OTHER -> PopOfMany(h, k)

\* The links an element arrives with.
Arriving(h, e) == IF Fresh THEN {h} ELSE {h, [h EXCEPT !.next[e] = HeapNull]}

\* What is left of an element that came out: a descriptor is destroyed.
Leaving(h, e) ==
    IF Fresh THEN [h EXCEPT !.prev[e] = HeapNull, !.next[e] = HeapNull, !.parent[e] = HeapNull] ELSE h

Push(e, k) ==
    /\ e \in outside
    /\ key' = [key EXCEPT ![e] = k]
    /\ \E h \in Arriving(heap, e) : heap' = Pushed(h, e, key')
    /\ outside' = outside \ {e}
    /\ popped' = HeapNull

Pop ==
    /\ heap.size > 0
    /\ popped' = heap.top
    /\ heap' = Leaving(Popped(heap, key), popped')
    /\ key' = IF Fresh THEN [key EXCEPT ![popped'] = HeapNull] ELSE key
    /\ outside' = outside \cup {popped'}

PopEmpty ==
    /\ heap.size = 0
    /\ popped' = HeapNull
    /\ UNCHANGED <<heap, key, outside>>

HeapNext == (\E e \in HeapElements, k \in HeapKeys : Push(e, k)) \/ Pop \/ PopEmpty

HeapSpec == HeapInit /\ [][HeapNext]_heapVars

-----------------------------------------------------------------------------
(* Properties *)

\* The fields hold what their types allow.
HeapTypeOK ==
    /\ heap \in [top : HeapElements \cup {HeapNull}, size : 0 .. Cardinality(HeapElements),
                 prev : Links, next : Links, parent : Links]
    /\ key \in [HeapElements -> HeapKeys \cup {HeapNull}]
    /\ outside \subseteq HeapElements
    /\ popped \in HeapElements \cup {HeapNull}

\* The element in slot n of a complete tree, slot 1 being the root.
InSlot[n \in 1 .. Cardinality(HeapElements)] ==
    IF n = 1 THEN heap.top
    ELSE LET up == InSlot[n \div 2] IN
         IF up = HeapNull THEN HeapNull
         ELSE IF n % 2 = 0 THEN heap.prev[up] ELSE heap.next[up]

\* Between two operations the elements inside form a complete binary tree:
\* the first _size slots hold each of them once and the other slots nothing,
\* every tree_parent is the element above, and no element is before it.
CompleteHeap ==
    /\ HeapTypeOK
    /\ {InSlot[n] : n \in 1 .. heap.size} = HeapElements \ outside
    /\ heap.size = Cardinality(HeapElements \ outside)
    /\ \A n \in heap.size + 1 .. Cardinality(HeapElements) : InSlot[n] = HeapNull
    /\ heap.size > 0 => heap.parent[heap.top] = HeapNull
    /\ \A n \in 2 .. heap.size :
        /\ heap.parent[InSlot[n]] = InSlot[n \div 2]
        /\ ~(key[InSlot[n]] < key[InSlot[n \div 2]])

Queue == INSTANCE PriorityQueue WITH contents <- HeapElements \ outside, None <- HeapNull,
                                     Elements <- HeapElements, Keys <- HeapKeys

\* The heap is a priority queue: pop returns an element that was pushed and
\* not yet popped, and one that the comparator puts before no other
\* (push_pop.test.cpp: "assert(v->id == i)" for the sorted ids).
ImplementsPriorityQueue == Queue!QueueSpec
=============================================================================
