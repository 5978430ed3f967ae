----------------------------- MODULE MCDurableFiles -----------------------------
EXTENDS DurableFiles, TLC

Interchangeable == Permutations(Inodes) \cup Permutations(Versions)
=============================================================================
