----------------------------- MODULE MCReconcile ------------------------------
EXTENDS Reconcile, TLC
Symmetry == Permutations(Digests) \cup Permutations(ContentIds)
=============================================================================
