---------------------------- MODULE ReconcilePlan -----------------------------
(***************************************************************************)
(* The planner of internal/reconcile (planner.go, rotation.go,             *)
(* capacity.go): from the desired digests, an observation and the durable  *)
(* record, the commands that may come first. The code plans a whole list   *)
(* and replans after every command, so the head is all that ever runs.     *)
(*                                                                         *)
(* Abstracted data: the order within one group (digest order, or longest   *)
(* away first) is any order, and time is the argument due: the pictures    *)
(* displayed, or away, for at least the rotation interval.                 *)
(***************************************************************************)
EXTENDS ReconcileState

CONSTANTS AllowEmpty,      \* policy.AllowEmpty
          RemoveUnknown,   \* policy.RemoveUnknown
          RotationOn,      \* policy.Rotation > 0
          PowerOffPolicy   \* policy.Power = PowerOff

ASSUME PolicyIsBoolean == /\ AllowEmpty \in BOOLEAN /\ RemoveUnknown \in BOOLEAN
                          /\ RotationOn \in BOOLEAN /\ PowerOffPolicy \in BOOLEAN

\* Bindings whose content the inventory lacks (plan.PruneBindings).
Prunable(st, inv) == {d \in Digests : st.bound[d] # None /\ st.bound[d] \notin inv}

Owned(desired, st, inv)    == {d \in desired : st.bound[d] \in inv}
Obsolete(desired, st, inv) == {d \in Digests \ desired : st.bound[d] \in inv}
Waiting(desired, st, inv)  == desired \ Owned(desired, st, inv)

\* Deletions of artwork that left the collection; the last piece stays until
\* a successor is bound, unless policy permits an empty TV.
Retirements(desired, st, inv) ==
  {DeleteOwned(d, st.bound[d]) : d \in
     {o \in Obsolete(desired, st, inv) :
        \/ AllowEmpty
        \/ Owned(desired, st, inv) # {}
        \/ Obsolete(desired, st, inv) # {o}}}

\* planCapacity: how many waiting pictures fit into free slots.
FreeSlots(desired, st, inv) ==
  LET waiting == Cardinality(Waiting(desired, st, inv))
      room    == st.capacity.max - Cardinality(inv)
  IN IF ~st.capacity.known \/ room > waiting THEN waiting
     ELSE IF room < 0 THEN 0 ELSE room

\* prioritizeWaiting: artwork never shown or away long enough goes first.
FirstWaiting(desired, st, inv, due) ==
  LET waiting == Waiting(desired, st, inv)
  IN IF waiting \cap due # {} THEN waiting \cap due ELSE waiting

Fills(desired, st, inv, due) ==
  IF FreeSlots(desired, st, inv) > 0
  THEN {Upload(d) : d \in FirstWaiting(desired, st, inv, due)} ELSE {}

\* Mutant: one owned picture is enough to rotate.
RotationActiveAtOne(desired, st, inv) ==
  /\ RotationOn
  /\ ~st.capacity.probe
  /\ st.capacity.short < MaxShortfalls
  /\ Owned(desired, st, inv) # {}

\* rotationActive
RotationActive(desired, st, inv) ==
  /\ RotationOn
  /\ ~st.capacity.probe
  /\ st.capacity.short < MaxShortfalls
  /\ Cardinality(Owned(desired, st, inv)) >= (IF AllowEmpty THEN 1 ELSE 2)

\* Capacity keeps some artwork waiting and the plan cannot rotate it in.
CapacityLimited(desired, st, inv) ==
  /\ st.capacity.known
  /\ FreeSlots(desired, st, inv) < Cardinality(Waiting(desired, st, inv))
  /\ ~RotationActive(desired, st, inv)

\* The deletions that open a rotation swap, once both an owned and a waiting
\* picture are due.
Evictions(desired, st, inv, due) ==
  {DeleteOwned(d, st.bound[d]) : d \in
     {o \in Owned(desired, st, inv) \cap due :
        /\ st.capacity.known
        /\ FreeSlots(desired, st, inv) < Cardinality(Waiting(desired, st, inv))
        /\ Waiting(desired, st, inv) \cap due # {}
        /\ RotationActive(desired, st, inv)}}

Removals(st, inv) ==
  IF RemoveUnknown THEN {DeleteUnknown(c) : c \in inv \ BoundContent(st)} ELSE {}

\* The artwork commands in plan order. Deletions of obsolete artwork, uploads
\* into free slots, rotation swaps, removals of unknown artwork.
ArtworkHeads(desired, st, inv, due) ==
  LET retire == Retirements(desired, st, inv)
      fill   == Fills(desired, st, inv, due)
      evict  == Evictions(desired, st, inv, due)
  IN IF retire # {} THEN retire
     ELSE IF fill # {} THEN fill
     ELSE IF evict # {} THEN evict
     ELSE Removals(st, inv)

SettingHeads(obs) == IF obs.set THEN {} ELSE {Configure}
PowerHeads        == IF PowerOffPolicy THEN {PowerOff} ELSE {}

\* Mutant: a parked upload does not hold back artwork commands.
HeadsUnblocked(desired, st, obs, due) ==
  LET artwork == ArtworkHeads(desired, st, obs.inv, due)
  IN IF artwork # {} THEN artwork
     ELSE IF SettingHeads(obs) # {} THEN SettingHeads(obs)
     ELSE PowerHeads

\* planSnapshot with the filters of replan: the possible first commands. A
\* parked upload blocks every command that changes artwork.
Heads(desired, st, obs, due) ==
  LET artwork == IF st.parked = None
                 THEN ArtworkHeads(desired, st, obs.inv, due) ELSE {}
  IN IF artwork # {} THEN artwork
     ELSE IF SettingHeads(obs) # {} THEN SettingHeads(obs)
     ELSE PowerHeads

\* hasCapacityMutation: the plan changes what the TV holds.
ChangesCapacity(desired, st, inv, due) == ArtworkHeads(desired, st, inv, due) # {}

\* projectCapacityProbe: room for one picture more than the TV holds now.
Probed(st, inv) == [st EXCEPT !.capacity.known = TRUE, !.capacity.probe = TRUE,
                              !.capacity.max = Cardinality(inv) + 1]

\* buildPlan: the record the plan is computed from. Capacity evidence older
\* than its lifetime admits one probing upload, if nothing else would change
\* what the TV holds.
Planned(desired, st, inv, due, stale) ==
  LET probing == /\ stale
                 /\ st.capacity.known
                 /\ ~ChangesCapacity(desired, st, inv, due)
                 /\ Waiting(desired, st, inv) # {}
  IN IF st.capacity.probe \/ probing THEN Probed(st, inv) ELSE st
=============================================================================
