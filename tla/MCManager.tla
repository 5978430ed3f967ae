------------------------------ MODULE MCManager ------------------------------
(* Instances of Manager for TLC. *)
EXTENDS Manager, TLC

MCChosen == {Off, Window(LastDay, LastDay)}

Symmetry == Permutations(Clients)
=============================================================================
