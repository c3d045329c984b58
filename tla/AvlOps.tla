------------------------------- MODULE AvlOps -------------------------------
(***************************************************************************)
(* kernel/util/avl_tree.h: the operations of the intrusive AVL tree as     *)
(* operators on a record of its links.  A loop of the code is a recursion. *)
(* The code writes every case twice, once for each side; here the side is  *)
(* a parameter.  tree_parent holds the parent and, in its low three bits,  *)
(* the balance factor: parent and bf are two fields here.                  *)
(***************************************************************************)
EXTENDS Integers

CONSTANTS
    Null,           \* nullptr, and end()
    Less(_, _)      \* the Comparator of the tree, on keys

Other(s) == IF s = "left" THEN "right" ELSE "left"

\* The sign of the balance factor of a node that leans to side s.
Toward(s) == IF s = "left" THEN -1 ELSE 1

-----------------------------------------------------------------------------
(* Links *)

SetParent(t, n, p) == IF n = Null THEN t ELSE [t EXCEPT !.parent[n] = p]

SideOf(t, n) == IF t.left[t.parent[n]] = n THEN "left" ELSE "right"

Child(t, s, n) == IF s = "left" THEN t.left[n] ELSE t.right[n]

SetChild(t, s, n, c) ==
    IF s = "left" THEN [t EXCEPT !.left[n] = c] ELSE [t EXCEPT !.right[n] = c]

\* c takes the place of n below n's parent p, or as the root.
Replace(t, p, n, c) ==
    IF p = Null THEN [t EXCEPT !.root = c] ELSE SetChild(t, SideOf(t, n), p, c)

\* _rotate_left (s = "right") and _rotate_right (s = "left"): the child of n
\* on side s takes the place of n.
Rotate(t, n, s) ==
    LET p     == t.parent[n]
        c     == Child(t, s, n)
        inner == Child(t, Other(s), c)
        up    == Replace(t, p, n, c)
        down  == SetChild(SetChild(up, s, n, inner), Other(s), c, n)
    IN  SetParent(SetParent(SetParent(down, inner, n), n, c), c, p)

-----------------------------------------------------------------------------
(* Rebalancing *)

\* MUTANT of Rebalance: the balance factors are not updated.
ForgetsFactors(t, n, s) == Rotate(t, n, s)

\* _rebalance_left (s = "right") and _rebalance_right: side s is too deep.
Rebalance(t, n, s) ==
    LET c == Child(t, s, n)
        f == IF t.bf[c] = 0 THEN Toward(s) ELSE 0
    IN  Rotate([t EXCEPT !.bf[n] = f, !.bf[c] = -f], n, s)

\* _rebalance_right_left (s = "right") and _rebalance_left_right.
RebalanceTwice(t, n, s) ==
    LET c == Child(t, s, n)
        g == Child(t, Other(s), c)
        b == t.bf[g] * Toward(s)
        u == [t EXCEPT !.bf[n] = IF b > 0 THEN -Toward(s) ELSE 0,
                       !.bf[c] = IF b < 0 THEN Toward(s) ELSE 0]
    IN  [Rotate(Rotate(u, c, Other(s)), n, s) EXCEPT !.bf[g] = 0]

\* _insert_rebalance: the subtree of n has become deeper.
RECURSIVE InsertRebalance(_, _)
InsertRebalance(t, n) ==
    IF t.parent[n] = Null THEN t
    ELSE LET p == t.parent[n]
             s == SideOf(t, n)
         IN  CASE t.bf[p] = Toward(s) /\ t.bf[n] = -Toward(s) -> RebalanceTwice(t, p, s)
               [] t.bf[p] = Toward(s) /\ t.bf[n] # -Toward(s) -> Rebalance(t, p, s)
               [] t.bf[p] = -Toward(s) -> [t EXCEPT !.bf[p] = 0]
               [] OTHER -> InsertRebalance([t EXCEPT !.bf[p] = Toward(s)], p)

\* _erase_rebalance: the subtree of p on side s has become shallower.
RECURSIVE EraseRebalance(_, _, _)
EraseRebalance(t, p, s) ==
    LET o == Other(s)
        h == Child(t, o, p)
        Climb(u, n) == IF u.parent[n] = Null THEN u
                       ELSE EraseRebalance(u, u.parent[n], SideOf(u, n))
    IN  CASE t.bf[p] = 0 -> [t EXCEPT !.bf[p] = Toward(o)]
          [] t.bf[p] = Toward(s) -> Climb([t EXCEPT !.bf[p] = 0], p)
          [] OTHER ->
               CASE t.bf[h] = 0 -> Rebalance(t, p, o)
                 [] t.bf[h] = Toward(o) -> Climb(Rebalance(t, p, o), h)
                 [] OTHER -> Climb(RebalanceTwice(t, p, o), Child(t, s, h))

-----------------------------------------------------------------------------
(* Searching; key is the function from elements to their keys *)

\* Where a search for k ends: at an element with that key, or at the element
\* that has no child on the side where k belongs.
RECURSIVE Search(_, _, _, _)
Search(t, key, k, n) ==
    LET s == CASE Less(k, key[n]) -> "left"
               [] ~Less(k, key[n]) /\ Less(key[n], k) -> "right"
               [] OTHER -> "here"
    IN  IF s = "here" \/ Child(t, s, n) = Null THEN [at |-> n, side |-> s]
        ELSE Search(t, key, k, Child(t, s, n))

Find(t, key, k) ==
    IF t.root = Null THEN Null
    ELSE LET w == Search(t, key, k, t.root)
         IN  IF w.side = "here" THEN w.at ELSE Null

LowerBound(t, key, k) ==
    IF t.root = Null THEN Null
    ELSE LET w == Search(t, key, k, t.root)
         IN  CASE w.side # "right" -> w.at
               [] w.side = "right" /\ t.parent[w.at] = Null -> Null
               [] OTHER -> IF SideOf(t, w.at) = "right" THEN Null ELSE t.parent[w.at]

RECURSIVE Outermost(_, _, _)
Outermost(t, s, n) == IF Child(t, s, n) = Null THEN n ELSE Outermost(t, s, Child(t, s, n))

Begin(t) == IF t.root = Null THEN Null ELSE Outermost(t, "left", t.root)

\* iterator::operator++
RECURSIVE Above(_, _)
Above(t, n) ==
    CASE t.parent[n] = Null -> Null
      [] t.parent[n] # Null /\ t.left[t.parent[n]] = n -> t.parent[n]
      [] OTHER -> Above(t, t.parent[n])

Increment(t, n) ==
    IF t.right[n] # Null THEN Outermost(t, "left", t.right[n]) ELSE Above(t, n)

UpperBound(t, key, k) ==
    LET n == LowerBound(t, key, k)
    IN  IF n # Null /\ ~Less(k, key[n]) /\ ~Less(key[n], k) THEN Increment(t, n) ELSE n

-----------------------------------------------------------------------------
(* Insertion and removal *)

\* insert: the tree, and whether n is in it; n's own links are as constructed.
Insert(t, key, n) ==
    IF t.root = Null THEN [tree |-> [t EXCEPT !.root = n, !.size = @ + 1], inserted |-> TRUE]
    ELSE LET w == Search(t, key, key[n], t.root)
             u == SetParent(SetChild(t, w.side, w.at, n), n, w.at)
         IN  IF w.side = "here" THEN [tree |-> t, inserted |-> FALSE]
             ELSE [tree |-> [InsertRebalance(u, n) EXCEPT !.size = @ + 1], inserted |-> TRUE]

\* erase of an element with at most one child.
EraseEdge(t, n) ==
    LET p == t.parent[n]
        c == IF t.left[n] # Null THEN t.left[n] ELSE t.right[n]
        u == SetParent(Replace(t, p, n, c), c, p)
    IN  IF p = Null THEN u ELSE EraseRebalance(u, p, SideOf(t, n))

\* MUTANT of EraseAboveNext: the left subtree of n is forgotten.
ForgetsLeft(t, n) ==
    SetParent(Replace(t, t.parent[n], n, t.right[n]), t.right[n], t.parent[n])

\* erase of an element whose right child c has no left child: c moves up.
EraseAboveNext(t, n) ==
    LET p == t.parent[n]
        c == t.right[n]
        u == SetParent(SetParent([Replace(t, p, n, c) EXCEPT !.left[c] = t.left[n], !.bf[c] = t.bf[n]],
                                 t.left[n], c), c, p)
        v == [u EXCEPT !.bf[c] = t.bf[n] - 1]
    IN  CASE p # Null -> EraseRebalance(u, c, "right")
          [] p = Null /\ t.bf[n] < 0 -> Rebalance(v, c, "left")
          [] OTHER -> v

\* erase of any other element: the next element c takes its place.
EraseFarFromNext(t, n) ==
    LET p == t.parent[n]
        c == Outermost(t, "left", t.right[n])
        q == t.parent[c]
        u == SetParent([Replace(t, p, n, c) EXCEPT !.left[q] = t.right[c]], t.right[c], q)
        v == [u EXCEPT !.left[c] = t.left[n], !.right[c] = t.right[n], !.bf[c] = t.bf[n]]
    IN  EraseRebalance(SetParent(SetParent(SetParent(v, t.left[n], c), t.right[n], c), c, p), q, "left")

Erase(t, n) ==
    LET u == CASE t.left[n] = Null \/ t.right[n] = Null -> EraseEdge(t, n)
               [] t.left[n] # Null /\ t.right[n] # Null /\ t.left[t.right[n]] = Null -> EraseAboveNext(t, n)
               [] OTHER -> EraseFarFromNext(t, n)
    IN  [u EXCEPT !.size = @ - 1]

\* ~avl_tree: the elements it hands back to Traits::create, which is all but
\* the last (the destructor returns when no root is left, before that call).
RECURSIVE Released(_)
Released(t) ==
    CASE t.root = Null -> {}
      [] t.root # Null /\ t.left[t.root] # Null -> Released(Rotate(t, t.root, "left"))
      [] OTHER -> LET r == t.right[t.root]
                  IN  IF r = Null THEN {}
                      ELSE {t.root} \cup Released([SetParent(t, r, Null) EXCEPT !.root = r])
=============================================================================
