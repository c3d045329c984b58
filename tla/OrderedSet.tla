----------------------------- MODULE OrderedSet -----------------------------
(***************************************************************************)
(* What avl_tree promises its users: a set of elements, no two with the    *)
(* same key.                                                               *)
(***************************************************************************)
CONSTANTS Elements, Key

VARIABLE members

Init == members = {}

\* insert: nothing happens when an element with that key is there.
Insert(e) ==
    /\ e \notin members
    /\ \A m \in members : Key[m] # Key[e]
    /\ members' = members \cup {e}

Erase(e) ==
    /\ e \in members
    /\ members' = members \ {e}

Destroy == members' = {}

Next == Destroy \/ \E e \in Elements : Insert(e) \/ Erase(e)

Spec == Init /\ [][Next]_members
=============================================================================
