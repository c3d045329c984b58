---------------------------- MODULE PriorityQueue ----------------------------
(***************************************************************************)
(* What the users of util::tree_heap rely on: the run queue of a scheduler *)
(* instance and the event queue of a timer.                                *)
(***************************************************************************)
EXTENDS Integers

CONSTANTS Elements, Keys, None

VARIABLES
    contents,   \* the elements inside
    key,        \* element -> what the comparator looks at
    popped      \* what the last pop returned

queueVars == <<contents, key, popped>>

QueueInit ==
    /\ contents = {}
    /\ key = [e \in Elements |-> None]
    /\ popped = None

Insert(e, k) ==
    /\ e \notin contents
    /\ contents' = contents \cup {e}
    /\ key'[e] = k
    /\ \A x \in contents : key'[x] = key[x]
    /\ popped' = None

\* Any of the elements with the least key comes out; nothing, when empty.
ExtractLeast ==
    /\ \A x \in contents' : key'[x] = key[x]
    /\ \/ contents = {} /\ popped' = None /\ UNCHANGED contents
       \/ \E e \in contents :
            /\ \A x \in contents : ~(key[x] < key[e])
            /\ popped' = e
            /\ contents' = contents \ {e}

QueueNext ==
    \/ \E e \in Elements, k \in Keys : Insert(e, k)
    \/ ExtractLeast

QueueSpec == QueueInit /\ [][QueueNext]_queueVars
=============================================================================
