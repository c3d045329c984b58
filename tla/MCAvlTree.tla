----------------------------- MODULE MCAvlTree -----------------------------
(* The keys of elements 1..8 are even, so that a search may fall between two; *)
(* element 9 has the key of element 4.                                        *)
EXTENDS AvlTree

MCElements == 1..9
MCKey == [n \in MCElements |-> IF n = 9 THEN 8 ELSE 2 * n]
MCValues == 1..17
MCLess(a, b) == a < b
=============================================================================
