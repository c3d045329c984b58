------------------------------- MODULE MCVas -------------------------------
EXTENDS Vas, TLC

Symmetry == Permutations(Mappings)
=============================================================================
