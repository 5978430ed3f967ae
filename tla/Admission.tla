------------------------------ MODULE Admission ------------------------------
(* The resource controller: a bounded number of transforms at once, and a    *)
(* bounded queue behind them.  Background work waits for a place in the      *)
(* queue; interactive work is refused when there is none.                    *)
EXTENDS Naturals, FiniteSets

CONSTANTS TransformConcurrency, TransformQueue

ASSUME AdmissionAssumption == TransformConcurrency \in Nat /\ TransformQueue \in Nat

VARIABLES capacity,      \* who holds a place: running or queued
          active         \* who runs

admission == <<capacity, active>>

Idle == capacity = {} /\ active = {}

\* Mutant: one more than there is room for.
HasPlaceOver == Cardinality(capacity) <= TransformConcurrency + TransformQueue

HasPlace == Cardinality(capacity) < TransformConcurrency + TransformQueue

HasSlot == Cardinality(active) < TransformConcurrency

\* reserve: the place is taken; background work has nothing to do until there is one.
Reserve(who) == HasPlace /\ capacity' = capacity \cup {who} /\ UNCHANGED active

Overloaded == ~HasPlace

Waits(who) == who \in capacity \ active

Activate(who) == Waits(who) /\ HasSlot /\ active' = active \cup {who} /\ UNCHANGED capacity

\* Canceled while it waited for a slot.
GiveUp(who) == Waits(who) /\ capacity' = capacity \ {who} /\ UNCHANGED active

\* The callback returned, with or without an error.
Leave(who) == who \in active /\ active' = active \ {who} /\ capacity' = capacity \ {who}
=============================================================================
