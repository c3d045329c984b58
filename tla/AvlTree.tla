------------------------------- MODULE AvlTree -------------------------------
(***************************************************************************)
(* One avl_tree (kernel/util/avl_tree.h) and the elements that its users   *)
(* construct, insert and erase.  An element that is destroyed may be       *)
(* constructed again; constructing one clears its links.                   *)
(***************************************************************************)
EXTENDS AvlOps, FiniteSets

CONSTANTS
    AvlElements,
    Key,                \* the key of each element
    Values,             \* keys to search for
    EraseInwardRoot     \* TRUE: every element may be erased; FALSE: see InwardRoot

ASSUME AvlTreeAssumption == Null \notin AvlElements /\ EraseInwardRoot \in BOOLEAN

VARIABLES
    tree,       \* the links of the tree and of the elements
    destroyed   \* the elements that are not constructed

avlVars == <<tree, destroyed>>

RECURSIVE Subtree(_, _)
Subtree(t, n) == IF n = Null THEN {} ELSE {n} \cup Subtree(t, t.left[n]) \cup Subtree(t, t.right[n])

Members == Subtree(tree, tree.root)

\* The links of an element as its constructor leaves them.
Constructed(t, n) == [t EXCEPT !.left[n] = Null, !.right[n] = Null, !.parent[n] = Null, !.bf[n] = 0]

EmptyTree ==
    [root |-> Null, size |-> 0, left |-> [n \in AvlElements |-> Null], right |-> [n \in AvlElements |-> Null],
     parent |-> [n \in AvlElements |-> Null], bf |-> [n \in AvlElements |-> 0]]

AvlInit == tree = EmptyTree /\ destroyed = AvlElements

\* The root has two children, leans to its left child, which itself leans to
\* the right, and the root's right child has no left child.  For it erase
\* calls _rebalance_right without looking at the left child's factor.
InwardRoot(t, n) ==
    /\ n = t.root /\ t.left[n] # Null /\ t.right[n] # Null
    /\ t.left[t.right[n]] = Null /\ t.bf[n] = -1 /\ t.bf[t.left[n]] = 1

InsertElement(n) ==
    /\ n \in destroyed
    /\ LET r == Insert(tree, Key, n)
       IN  tree' = r.tree /\ destroyed' = IF r.inserted THEN destroyed \ {n} ELSE destroyed

EraseElement(n) ==
    /\ n \in Members
    /\ InwardRoot(tree, n) => EraseInwardRoot
    /\ tree' = Constructed(Erase(tree, n), n)
    /\ destroyed' = destroyed \cup {n}

Destroy ==
    /\ tree.root # Null
    /\ tree' = EmptyTree
    /\ destroyed' = destroyed \cup Released(tree)

AvlNext == Destroy \/ \E n \in AvlElements : InsertElement(n) \/ EraseElement(n)

AvlSpec == AvlInit /\ [][AvlNext]_avlVars

-----------------------------------------------------------------------------
(* Properties *)

\* The links lead to elements, a factor is one that fits in its three bits
\* and is legal between two operations, and _size counts the elements.
AvlTypeOK ==
    /\ tree.root \in AvlElements \cup {Null}
    /\ {tree.left, tree.right, tree.parent} \subseteq [AvlElements -> AvlElements \cup {Null}]
    /\ tree.bf \in [AvlElements -> -1..1]
    /\ tree.size = Cardinality(Members)

RECURSIVE Depth(_, _)
Depth(t, n) ==
    IF n = Null THEN 0
    ELSE LET l == Depth(t, t.left[n])
             r == Depth(t, t.right[n])
         IN  1 + IF l > r THEN l ELSE r

\* _check_invariants of the code: the children of a node have it as their
\* parent, its stored factor is the difference of the depths, and the two
\* depths differ by at most one.
CheckInvariants ==
    \A n \in Members :
        /\ tree.left[n] # Null => tree.parent[tree.left[n]] = n /\ Less(Key[tree.left[n]], Key[n])
        /\ tree.right[n] # Null => tree.parent[tree.right[n]] = n /\ Less(Key[n], Key[tree.right[n]])
        /\ tree.bf[n] = Depth(tree, tree.right[n]) - Depth(tree, tree.left[n])

\* find returns the element with a key exactly when there is one, wherever
\* rotations and removals have put it.
FindsExactly ==
    \A k \in Values :
        LET n == Find(tree, Key, k)
        IN  IF \E m \in Members : Key[m] = k THEN n \in Members /\ Key[n] = k ELSE n = Null

\* The least of the members with a key not below k, or Null.
Least(k) ==
    LET up == {m \in Members : ~Less(Key[m], k)}
    IN  IF up = {} THEN Null ELSE CHOOSE m \in up : \A x \in up : ~Less(Key[x], Key[m])

\* The next larger member, or Null.
NextAfter(k) ==
    LET later == {m \in Members : Less(k, Key[m])}
    IN  IF later = {} THEN Null ELSE CHOOSE m \in later : \A x \in later : ~Less(Key[x], Key[m])

\* begin and ++ visit the elements in order: ++ leads from every element to
\* the next larger one, and from the last to end().  erase returns it.
IteratesInOrder ==
    /\ Begin(tree) = IF Members = {} THEN Null
                     ELSE CHOOSE m \in Members : \A x \in Members : ~Less(Key[x], Key[m])
    /\ \A n \in Members : Increment(tree, n) = NextAfter(Key[n])

\* An element that lower_bound or upper_bound returns is the right one.  They
\* may miss it (end() is returned below a right child), but not for a key that
\* is in the tree or above all others, the only ones that vmo asks for.
BoundsSound ==
    \A k \in Values :
        /\ LowerBound(tree, Key, k) \in {Least(k), Null}
        /\ UpperBound(tree, Key, k) \in {NextAfter(k), Null}
        /\ (Least(k) = Null \/ \E m \in Members : Key[m] = k) =>
              LowerBound(tree, Key, k) = Least(k) /\ UpperBound(tree, Key, k) = NextAfter(k)

\* No element that the tree still leads to has been destroyed.
NoneDestroyedInTree == Members \cap destroyed = {}

\* After any sequence of insertions and removals the tree is balanced, every
\* way to look into it (find, the bounds, iteration) sees the elements that are
\* inside, and none of them has been destroyed.
TreeSound == AvlTypeOK /\ CheckInvariants /\ FindsExactly /\ IteratesInOrder /\ BoundsSound /\ NoneDestroyedInTree

\* The tree is a set of elements without equal keys.
OrderedSetOf == INSTANCE OrderedSet WITH members <- Members, Elements <- AvlElements
ImplementsOrderedSet == OrderedSetOf!Spec
=============================================================================
