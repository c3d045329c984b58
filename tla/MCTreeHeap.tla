----------------------------- MODULE MCTreeHeap -----------------------------
(* Small heaps for TLC.  HeapElements are only told apart by their keys and links. *)
EXTENDS TreeHeap, TLC

ElementSymmetry == Permutations(HeapElements)
=============================================================================
