--------------------------- MODULE AtomicCollection ---------------------------
(***************************************************************************)
(* What internal/collection promises of the artwork collection: it changes *)
(* from one collection to the next at once, and only to one that was       *)
(* proposed. A proposal may be withdrawn; nothing in between is ever seen. *)
(***************************************************************************)
CONSTANT Collections

VARIABLES committed, goal

Init == committed \in Collections /\ goal = committed

Propose == goal' \in Collections /\ UNCHANGED committed

Commit == committed' = goal /\ goal' \in Collections

Spec == Init /\ [][Propose \/ Commit]_<<committed, goal>>
=============================================================================
