---------------------------- MODULE ReconcileProofs ----------------------------
(***************************************************************************)
(* For every set of digests and content IDs, every policy and every        *)
(* combination of disturbances: the state of a run is well typed, a        *)
(* command reaches the TV only after its own intent is durable, and every  *)
(* record the run wants to save passes the validation of save.             *)
(*                                                                         *)
(* The argument: JournalledBeforeSent says something of one step of the    *)
(* run only. It is inductive together with what memory holds from the      *)
(* moment a command is prepared until its receipt is folded (InFlight),    *)
(* which needs both copies of the record to be valid, the file because an  *)
(* interrupted run starts over from it. RetryBound keeps the count of      *)
(* attempts in its type: every path back to an observation has one left.   *)
(***************************************************************************)
EXTENDS Reconcile, FiniteSetTheorems, TLAPS

-----------------------------------------------------------------------------
(* What the operators of ReconcileState and ReconcilePlan return: each     *)
(* change of the record keeps its type and keeps it valid, and the planner *)
(* only plans commands with a payload.                                     *)

\* The number of images a TV reports is a number, since content IDs are finite.
LEMMA CountIsNat ==
  ASSUME NEW inv \in SUBSET ContentIds
  PROVE  Cardinality(inv) \in Nat
  BY IdsFinite, FS_Subset, FS_CardinalityType

LEMMA NoCapacityType == NoCapacity \in Capacities /\ NoCapacity.short = 0 /\ ~NoCapacity.probe
  BY ShortfallsIsNat DEF NoCapacity, Capacities

\* The record of a TV never seen before.
LEMMA InitialStateType == InitialState \in States /\ ValidState(InitialState)
<1>1. InitialState \in States
  BY NoCapacityType DEF InitialState, States
<1>2. ValidState(InitialState)
  BY NoCapacityType DEF InitialState, ValidState, ValidOperation
<1> QED BY <1>1, <1>2

-----------------------------------------------------------------------------
(* Folding a receipt.                                                      *)

\* Binding an uploaded picture to its image leaves no other picture with it.
LEMMA ReboundInjective ==
  ASSUME NEW bound \in [Digests -> ContentIds \cup {None}],
         NEW digest, NEW content \in ContentIds \cup {None},
         \A d, e \in Digests : bound[d] # None /\ bound[d] = bound[e] => d = e
  PROVE  LET b == Rebound(bound, digest, content)
         IN /\ b \in [Digests -> ContentIds \cup {None}]
            /\ \A d, e \in Digests : b[d] # None /\ b[d] = b[e] => d = e
  BY DEF Rebound

LEMMA FoldUploadKeeps ==
  ASSUME NEW st \in States, NEW op \in Operations, NEW seen \in Observations
  PROVE  /\ FoldUpload(st, op, seen) \in States
         /\ FoldUpload(st, op, seen).pending = st.pending
         /\ FoldUpload(st, op, seen).parked = st.parked
         /\ ValidState(st) => ValidState(FoldUpload(st, op, seen))
<1> DEFINE full == FullAt(Cardinality(seen.inv))
<1> DEFINE new  == FoldUpload(st, op, seen)
<1> DEFINE b    == Rebound(st.bound, op.cmd.digest, op.receipt)
<1>1. full \in Capacities /\ full.short = 0 /\ ~full.probe
  <2>1. Cardinality(seen.inv) \in Nat
    BY CountIsNat DEF Observations
  <2> QED BY <2>1, ShortfallsIsNat DEF Capacities, FullAt
<1>2. /\ st.bound \in [Digests -> ContentIds \cup {None}] /\ op.receipt \in ContentIds \cup {None}
      /\ st.capacity \in Capacities
  BY DEF States, Operations
<1>3. /\ new.bound = b /\ new.pending = st.pending /\ new.parked = st.parked
      /\ new.capacity \in {full, st.capacity}
      /\ new = [bound |-> new.bound, pending |-> new.pending, parked |-> new.parked,
                capacity |-> new.capacity]
  <2> DEFINE evidence == IF ProvesFull(st, op, seen) THEN full ELSE st.capacity
  <2>1. new = [st EXCEPT !.bound = b, !.capacity = evidence]
    BY DEF FoldUpload
  <2>2. evidence \in {full, st.capacity}
    OBVIOUS
  <2> HIDE DEF new, b, full, evidence
  <2> QED BY <2>1, <2>2 DEF States
<1>4. b \in [Digests -> ContentIds \cup {None}]
  BY <1>2 DEF Rebound
<1>5. new \in States
  BY <1>1, <1>2, <1>3, <1>4 DEF States
<1>6. ASSUME ValidState(st) PROVE ValidState(new)
  <2>1. \A d, e \in Digests : b[d] # None /\ b[d] = b[e] => d = e
    BY <1>6, <1>2, ReboundInjective DEF ValidState
  <2> HIDE DEF b, full, new
  <2> QED BY <2>1, <1>1, <1>3, <1>6 DEF ValidState
<1> QED BY <1>3, <1>5, <1>6

LEMMA FoldAppliedKeeps ==
  ASSUME NEW st \in States, NEW op \in Operations, NEW seen \in Observations
  PROVE  /\ FoldApplied(st, op, seen) \in States
         /\ FoldApplied(st, op, seen).parked = st.parked
         /\ ValidState(st) => ValidState(FoldApplied(st, op, seen))
<1>1. CASE op.cmd.kind = "upload"
  BY <1>1, FoldUploadKeeps DEF FoldApplied
<1>2. CASE op.cmd.kind = "delete-owned"
  <2>1. FoldApplied(st, op, seen) = Unbind(st, op.cmd.digest)
    BY <1>2 DEF FoldApplied
  <2> QED BY <2>1 DEF Unbind, States, ValidState
<1>3. CASE op.cmd.kind \notin {"upload", "delete-owned"}
  BY <1>3 DEF FoldApplied
<1> QED BY <1>1, <1>2, <1>3

-----------------------------------------------------------------------------
(* Recovery.                                                               *)

\* Settling the pending command leaves a record without one.
LEMMA ResolvedKeeps ==
  ASSUME NEW st \in States, st.pending # None, NEW seen \in Observations
  PROVE  /\ Resolved(st, seen) \in States
         /\ Resolved(st, seen).pending = None
         /\ ValidState(st) => ValidState(Resolved(st, seen))
<1>1. st.pending \in Operations
  BY DEF States
<1>2. PICK folded \in {FoldApplied(st, st.pending, seen), st} :
         Resolved(st, seen) = [folded EXCEPT !.pending = None]
  BY DEF Resolved
<1>3. folded \in States /\ (ValidState(st) => ValidState(folded))
  BY <1>1, <1>2, FoldAppliedKeeps
<1>4. /\ [folded EXCEPT !.pending = None] \in States
      /\ [folded EXCEPT !.pending = None].pending = None
      /\ ValidState(folded) => ValidState([folded EXCEPT !.pending = None])
  BY <1>3 DEF States, ValidState, ValidOperation
<1> QED BY <1>2, <1>3, <1>4

\* Parking keeps the record valid: what is parked is an unanswered upload.
LEMMA ParkedKeeps ==
  ASSUME NEW st \in States, st.pending # None, Parkable(st)
  PROVE  /\ Parked(st) \in States
         /\ Parked(st).pending = None
         /\ ValidState(st) => ValidState(Parked(st))
<1>1. st.pending \in Operations
  BY DEF States
<1> QED BY <1>1 DEF Parked, Parkable, States, ValidState, ValidOperation

\* Settling the parked upload leaves a record without one.
LEMMA SettledKeeps ==
  ASSUME NEW st \in States, st.parked # None, NEW seen \in Observations
  PROVE  /\ Settled(st, seen) \in States
         /\ ValidState(st) => ValidState(Settled(st, seen))
<1>1. st.parked \in Operations
  BY DEF States
<1>2. PICK folded \in {FoldUpload(st, st.parked, seen), st} :
         Settled(st, seen) = [folded EXCEPT !.parked = None]
  BY DEF Settled
<1>3. folded \in States /\ (ValidState(st) => ValidState(folded))
  BY <1>1, <1>2, FoldUploadKeeps
<1>4. /\ [folded EXCEPT !.parked = None] \in States
      /\ ValidState(folded) => ValidState([folded EXCEPT !.parked = None])
  BY <1>3 DEF States, ValidState, ValidOperation
<1> QED BY <1>2, <1>3, <1>4

-----------------------------------------------------------------------------
(* Capacity evidence.                                                      *)

\* Evidence validateState accepts: a probe or a shortfall is about a known size.
Sound(capacity) == /\ capacity.probe => capacity.known
                   /\ capacity.short > 0 => capacity.known

LEMMA ProbeConsumedKeeps ==
  ASSUME NEW capacity \in Capacities
  PROVE  /\ ProbeConsumed(capacity) \in Capacities
         /\ Sound(capacity) => Sound(ProbeConsumed(capacity))
  BY NoCapacityType DEF ProbeConsumed, Sound

LEMMA StorageFullCapacityType ==
  ASSUME NEW capacity \in Capacities, NEW held \in Nat
  PROVE  /\ StorageFullCapacity(capacity, held) \in Capacities
         /\ Sound(StorageFullCapacity(capacity, held))
  BY ShortfallsIsNat DEF StorageFullCapacity, Capacities, Sound

\* The record the planner plans from differs in its capacity evidence only.
LEMMA PlannedKeeps ==
  ASSUME NEW st \in States, NEW want, NEW inv \in SUBSET ContentIds, NEW turn, NEW gone
  PROVE  /\ Planned(want, st, inv, turn, gone) \in States
         /\ ValidState(st) => ValidState(Planned(want, st, inv, turn, gone))
<1>1. CASE Planned(want, st, inv, turn, gone) = st
  BY <1>1
<1>2. CASE Planned(want, st, inv, turn, gone) = Probed(st, inv)
  <2>1. Cardinality(inv) + 1 \in Nat
    BY CountIsNat
  <2>2. Probed(st, inv) \in States
    BY <2>1 DEF Probed, States, Capacities
  <2>3. ValidState(st) => ValidState(Probed(st, inv))
    BY DEF Probed, States, Capacities, ValidState
  <2> QED BY <1>2, <2>2, <2>3
<1> QED BY <1>1, <1>2 DEF Planned

-----------------------------------------------------------------------------
(* Plans.                                                                  *)

\* Every planned command carries the payload its kind needs: an upload names
\* desired artwork, a deletion an image the TV was seen to hold.
LEMMA HeadsAreCommands ==
  ASSUME NEW st \in States, NEW want \in SUBSET Digests, NEW o \in Observations, NEW turn,
         NEW cmd \in Heads(want, st, o, turn)
  PROVE  cmd \in Commands /\ ValidIntent(cmd)
<1> DEFINE retire == Retirements(want, st, o.inv)
<1> DEFINE fill   == Fills(want, st, o.inv, turn)
<1> DEFINE evict  == Evictions(want, st, o.inv, turn)
<1>1. /\ o.inv \in SUBSET ContentIds /\ None \notin o.inv
      /\ st.bound \in [Digests -> ContentIds \cup {None}] /\ None \notin Digests
  BY NoneIsDistinct DEF Observations, States
<1>2. ASSUME NEW d \in Digests, st.bound[d] \in o.inv
      PROVE  DeleteOwned(d, st.bound[d]) \in Commands /\ ValidIntent(DeleteOwned(d, st.bound[d]))
  BY <1>1, <1>2 DEF DeleteOwned, Commands, ArtworkKinds, ValidIntent
<1>3. \A c \in retire \cup evict : c \in Commands /\ ValidIntent(c)
  <2>1. \A d \in Obsolete(want, st, o.inv) \cup Owned(want, st, o.inv) :
          d \in Digests /\ st.bound[d] \in o.inv
    BY DEF Obsolete, Owned
  <2> QED BY <1>2, <2>1 DEF Retirements, Evictions
<1>4. \A c \in fill : c \in Commands /\ ValidIntent(c)
  <2>1. FirstWaiting(want, st, o.inv, turn) \subseteq Digests
    BY DEF FirstWaiting, Waiting
  <2>2. \A d \in Digests : Upload(d) \in Commands /\ ValidIntent(Upload(d))
    BY <1>1 DEF Upload, Commands, ArtworkKinds, ValidIntent
  <2> QED BY <2>1, <2>2 DEF Fills
<1>5. \A c \in Removals(st, o.inv) : c \in Commands /\ ValidIntent(c)
  <2>1. \A i \in o.inv : DeleteUnknown(i) \in Commands /\ ValidIntent(DeleteUnknown(i))
    BY <1>1 DEF DeleteUnknown, Commands, ArtworkKinds, ValidIntent
  <2> QED BY <2>1 DEF Removals
<1>6. \A c \in {Configure, PowerOff} : c \in Commands /\ ValidIntent(c)
  BY DEF Configure, PowerOff, Commands, ArtworkKinds, ValidIntent
<1>7. cmd \in retire \cup fill \cup evict \cup Removals(st, o.inv) \cup {Configure, PowerOff}
  <2>1. ArtworkHeads(want, st, o.inv, turn)
          \subseteq retire \cup fill \cup evict \cup Removals(st, o.inv)
    BY DEF ArtworkHeads
  <2> HIDE DEF retire, fill, evict
  <2> QED BY <2>1 DEF Heads, SettingHeads, PowerHeads
<1> QED BY <1>3, <1>4, <1>5, <1>6, <1>7

-----------------------------------------------------------------------------
(* The invariant of a run.                                                 *)

\* What memory holds while a command is being prepared, sent and answered.
InFlight ==
  /\ pc \in {"save-prepared", "apply", "save-applied", "save-unknown"} =>
       mem.pending # None /\ mem.pending.cmd = cand
  /\ pc \in {"save-prepared", "apply"} => mem.pending.phase = "prepared"
  /\ pc = "apply" => mem = disk

\* Wherever the run may still execute another command, the last one has an
\* attempt left.
RetryBound ==
  /\ pc \in {"idle", "recover", "settle", "plan", "replan", "observe",
             "save-recovered", "save-parked", "save-settled"} => tries.n < MaxAttempts
  /\ pc = "save-rejected" /\ verdict = "retry" => tries.n < MaxAttempts

ValidRecords == ValidState(mem) /\ ValidState(disk)

IInv == TypeOK /\ InFlight /\ RetryBound /\ ValidRecords

-----------------------------------------------------------------------------
(* Helpers.                                                                *)

LEMMA DisturbedType ==
  ASSUME budget \in 0 .. Budget, NEW hazard, Disturbed(hazard)
  PROVE  budget' \in 0 .. Budget
  BY BoundsAreNat DEF Disturbed

LEMMA LookType ==
  ASSUME TypeOK
  PROVE  Look \in Observations
  BY DEF TypeOK, TVs, Look, Observations

LEMMA NoTriesType ==
  NoTries \in [cmd : Commands \cup {None}, n : 0 .. MaxAttempts] /\ NoTries.n < MaxAttempts
  BY BoundsAreNat DEF NoTries

\* A run that returns leaves nothing behind but the file.
LEMMA EndRunKeeps ==
  ASSUME EndRun, disk' \in States, ValidState(disk'),
         desired' \in SUBSET Digests, settled' \in BOOLEAN, budget' \in 0 .. Budget,
         tv' \in TVs
  PROVE  IInv'
<1>1. NoObservation \in Observations
  BY DEF NoObservation, Observations
<1>2. TypeOK'
  BY <1>1, NoTriesType DEF EndRun, TypeOK, Steps, SaveSteps
<1>3. InFlight' /\ RetryBound' /\ ValidRecords'
  BY NoTriesType DEF EndRun, InFlight, RetryBound, ValidRecords
<1> QED BY <1>2, <1>3 DEF IInv

\* Adopting a plan leaves a valid record, and a candidate with its payload.
LEMMA AdoptPlanKeeps ==
  ASSUME IInv, pc \in {"plan", "replan"}, NEW st \in States, ValidState(st),
         NEW heads \in SUBSET Commands, AdoptPlan(st, heads), obs' = obs, due' = due,
         prune' \in SUBSET Digests, UNCHANGED <<disk, reportVars, outside>>
  PROVE  IInv'
<1>1. TypeOK'
  BY DEF IInv, TypeOK, AdoptPlan, Goto, Steps, SaveSteps, reportVars, outside
<1>2. InFlight' /\ RetryBound' /\ ValidRecords'
  BY DEF IInv, AdoptPlan, Goto, InFlight, RetryBound, ValidRecords, reportVars
<1> QED BY <1>1, <1>2 DEF IInv

-----------------------------------------------------------------------------
(* Recovery and planning.                                                  *)

LEMMA BeginKeeps == ASSUME IInv, Begin PROVE IInv'
<1>1. Look \in Observations
  BY LookType DEF IInv
<1>2. due' \in SUBSET Digests /\ stale' \in BOOLEAN
  <2>1. due' \in SUBSET Digests
    BY DEF Begin
  <2>2. stale' \in BOOLEAN
    BY DEF Begin
  <2> QED BY <2>1, <2>2
<1>3. TypeOK'
  BY <1>1, <1>2 DEF IInv, TypeOK, Begin, Goto, Steps, reportVars, outside
<1>4. InFlight' /\ RetryBound' /\ ValidRecords'
  BY DEF IInv, Begin, Goto, InFlight, RetryBound, ValidRecords, reportVars
<1> QED BY <1>3, <1>4 DEF IInv

LEMMA RecoverKeeps == ASSUME IInv, Recover PROVE IInv'
<1>1. mem \in States /\ obs \in Observations /\ ValidState(mem)
  BY DEF IInv, TypeOK, ValidRecords
<1>2. mem' \in States /\ ValidState(mem')
  BY <1>1, ResolvedKeeps, ParkedKeeps DEF Recover, Store
<1>3. pc' \in {"settle", "save-recovered", "save-parked", "failed"}
  BY DEF Recover, Store, Goto
<1>4. TypeOK'
  BY <1>2, <1>3 DEF IInv, TypeOK, Recover, Steps, SaveSteps, reportVars, outside
<1>5. InFlight' /\ RetryBound' /\ ValidRecords'
  BY <1>2, <1>3 DEF IInv, Recover, InFlight, RetryBound, ValidRecords, reportVars
<1> QED BY <1>4, <1>5 DEF IInv

LEMMA SettleKeeps == ASSUME IInv, Settle PROVE IInv'
<1>1. mem \in States /\ obs \in Observations /\ ValidState(mem)
  BY DEF IInv, TypeOK, ValidRecords
<1>2. mem' \in States /\ ValidState(mem')
  BY <1>1, SettledKeeps DEF Settle, Settles, Store
<1>3. pc' \in {"save-settled", "plan"}
  BY DEF Settle, Store, Goto
<1>4. TypeOK'
  BY <1>2, <1>3 DEF IInv, TypeOK, Settle, Steps, SaveSteps, reportVars, outside
<1>5. InFlight' /\ RetryBound' /\ ValidRecords'
  BY <1>2, <1>3 DEF IInv, Settle, InFlight, RetryBound, ValidRecords, reportVars
<1> QED BY <1>4, <1>5 DEF IInv

LEMMA PlanKeeps == ASSUME IInv, Plan \/ Replan PROVE IInv'
<1> DEFINE st == Planned(desired, mem, obs.inv, due, stale)
<1> DEFINE heads == Heads(desired, st, obs, due)
<1>1. /\ mem \in States /\ ValidState(mem) /\ obs \in Observations
      /\ obs.inv \in SUBSET ContentIds /\ desired \in SUBSET Digests
  BY DEF IInv, TypeOK, ValidRecords, Observations
<1>2. st \in States /\ ValidState(st)
  BY <1>1, PlannedKeeps
<1>3. heads \in SUBSET Commands
  BY <1>1, <1>2, HeadsAreCommands
<1>4. prune' \in SUBSET Digests
  BY DEF IInv, TypeOK, Plan, Replan, PruneNow, Prunable
<1>5. /\ pc \in {"plan", "replan"} /\ AdoptPlan(st, heads) /\ obs' = obs /\ due' = due
      /\ UNCHANGED <<disk, reportVars, outside>>
  BY DEF Plan, Replan
<1> HIDE DEF st, heads
<1> QED BY <1>2, <1>3, <1>4, <1>5, AdoptPlanKeeps

LEMMA SkipIneligibleKeeps == ASSUME IInv, SkipIneligible PROVE IInv'
  BY EndRunKeeps DEF IInv, TypeOK, ValidRecords, SkipIneligible, outside

LEMMA ExecuteKeeps == ASSUME IInv, Execute PROVE IInv'
<1> DEFINE st == Planned(desired, mem, tv.inv, due, stale)
<1> DEFINE op == [cmd |-> cand, phase |-> "prepared", receipt |-> None, before |-> tv.inv]
<1>1. /\ mem \in States /\ ValidState(mem) /\ Look \in Observations
      /\ tv.inv \in SUBSET ContentIds /\ desired \in SUBSET Digests
  BY LookType DEF IInv, TypeOK, TVs, ValidRecords
<1>2. st \in States /\ ValidState(st)
  BY <1>1, PlannedKeeps
<1>3. cand \in Commands /\ ValidIntent(cand)
  BY <1>1, <1>2, HeadsAreCommands DEF Execute
<1>4. op \in Operations /\ ValidOperation(op) /\ op # None
  <2>1. op \in Operations
    BY <1>1, <1>3 DEF Operations, Phases
  <2> QED BY <2>1, <1>3, NoneIsNoOperation DEF ValidOperation
<1>5. /\ mem' = [st EXCEPT !.pending = op] /\ pc' = "save-prepared" /\ pc = "observe"
      /\ cand' = cand /\ disk' = disk
  BY DEF Execute, Store, Goto, Prepared
<1>6. mem' \in States /\ ValidState(mem') /\ mem'.pending = op
  <2> HIDE DEF st, op
  <2> QED BY <1>2, <1>4, <1>5 DEF States, ValidState
<1>7. tries' \in [cmd : Commands \cup {None}, n : 0 .. MaxAttempts]
  <2>1. tries.n < MaxAttempts
    BY <1>5 DEF IInv, RetryBound
  <2> QED BY <2>1, <1>3, BoundsAreNat DEF IInv, TypeOK, Execute
<1>8. prune' \in SUBSET Digests /\ offTried' \in BOOLEAN /\ settled' \in BOOLEAN /\ stale' \in BOOLEAN
  <2>1. PruneNow(Look) \in SUBSET Digests
    BY DEF PruneNow, Prunable
  <2> QED BY <2>1 DEF IInv, TypeOK, Execute
<1>9. TypeOK'
  BY <1>1, <1>5, <1>6, <1>7, <1>8 DEF IInv, TypeOK, Execute, Steps, SaveSteps
<1>10. InFlight' /\ RetryBound' /\ ValidRecords'
  BY <1>4, <1>5, <1>6 DEF IInv, InFlight, RetryBound, ValidRecords
<1> QED BY <1>9, <1>10 DEF IInv

LEMMA ReconsiderKeeps == ASSUME IInv, Reconsider PROVE IInv'
<1> DEFINE st == Planned(desired, mem, tv.inv, due, stale)
<1> DEFINE heads == Heads(desired, st, Look, due)
<1>1. /\ mem \in States /\ ValidState(mem) /\ Look \in Observations
      /\ tv.inv \in SUBSET ContentIds /\ desired \in SUBSET Digests
  BY LookType DEF IInv, TypeOK, TVs, ValidRecords
<1>2. st \in States /\ ValidState(st)
  BY <1>1, PlannedKeeps
<1>3. heads \in SUBSET Commands
  BY <1>1, <1>2, HeadsAreCommands
<1>4. /\ mem' \in {mem, st} /\ cand' \in heads \cup {None} /\ obs' \in {obs, Look}
      /\ pc' \in {"finish", "observe"} /\ pc = "observe" /\ stale' \in {stale, stale /\ ~st.capacity.probe}
  BY DEF Reconsider, Store, Goto
<1>5. prune' \in SUBSET Digests
  <2>1. PruneNow(Look) \in SUBSET Digests
    BY DEF PruneNow, Prunable
  <2> QED BY <2>1 DEF IInv, TypeOK, Reconsider
<1>6. stale' \in BOOLEAN
  BY <1>4 DEF IInv, TypeOK
<1> HIDE DEF st, heads
<1>7. TypeOK'
  BY <1>1, <1>2, <1>3, <1>4, <1>5, <1>6
  DEF IInv, TypeOK, Reconsider, Steps, SaveSteps, reportVars, outside
<1>8. InFlight' /\ RetryBound' /\ ValidRecords'
  BY <1>1, <1>2, <1>4 DEF IInv, Reconsider, InFlight, RetryBound, ValidRecords, reportVars
<1> QED BY <1>7, <1>8 DEF IInv

LEMMA ObserveFailsKeeps == ASSUME IInv, ObserveFails PROVE IInv'
<1>1. budget' \in 0 .. Budget
  BY DisturbedType DEF IInv, TypeOK, ObserveFails
<1>2. TypeOK'
  BY <1>1 DEF IInv, TypeOK, ObserveFails, Goto, Steps, runVars, planVars, reportVars
<1>3. InFlight' /\ RetryBound' /\ ValidRecords'
  BY DEF IInv, ObserveFails, Goto, InFlight, RetryBound, ValidRecords
<1> QED BY <1>2, <1>3 DEF IInv

LEMMA FinishKeeps == ASSUME IInv, Finish PROVE IInv'
<1>1. pc' \in {"failed", "save-final"}
  BY DEF Finish, Store, Goto
<1>2. mem' \in States /\ ValidState(mem')
  <2>1. CASE mem' = mem
    BY <2>1 DEF IInv, TypeOK, ValidRecords
  <2>2. CASE mem' = [mem EXCEPT !.bound = [d \in Digests |-> IF d \in prune THEN None ELSE mem.bound[d]]]
    BY <2>2 DEF IInv, TypeOK, ValidRecords, States, ValidState
  <2> QED BY <2>1, <2>2 DEF Finish, Store
<1>3. TypeOK'
  BY <1>1, <1>2 DEF IInv, TypeOK, Finish, Steps, SaveSteps, runVars, planVars, reportVars, outside
<1>4. InFlight' /\ RetryBound' /\ ValidRecords'
  BY <1>1, <1>2 DEF IInv, Finish, InFlight, RetryBound, ValidRecords
<1> QED BY <1>3, <1>4 DEF IInv

-----------------------------------------------------------------------------
(* Durable writes.                                                         *)

\* A write that succeeded made the file what memory holds, a valid record.
LEMMA WrittenKeeps ==
  ASSUME IInv, NEW step, Written(step)
  PROVE  disk' \in States /\ ValidState(disk') /\ disk' = mem /\ pc = step
  BY DEF IInv, TypeOK, Written

LEMMA SavedRecoveryKeeps == ASSUME IInv, SavedRecovery \/ SavedSettled PROVE IInv'
<1>1. /\ disk' \in States /\ ValidState(disk') /\ mem' = mem
      /\ pc \in {"save-recovered", "save-parked", "save-settled"} /\ pc' \in {"settle", "plan"}
      /\ UNCHANGED <<runVars, outside>>
  BY WrittenKeeps DEF SavedRecovery, SavedSettled, Goto
<1>2. TypeOK'
  BY <1>1 DEF IInv, TypeOK, Steps, runVars, planVars, reportVars, outside
<1>3. InFlight' /\ RetryBound' /\ ValidRecords'
  BY <1>1 DEF IInv, InFlight, RetryBound, ValidRecords, runVars, reportVars
<1> QED BY <1>2, <1>3 DEF IInv

LEMMA SavedPreparedKeeps == ASSUME IInv, SavedPrepared PROVE IInv'
<1>1. /\ disk' \in States /\ ValidState(disk') /\ disk' = mem /\ pc = "save-prepared"
      /\ pc' = "apply" /\ UNCHANGED <<mem, runVars, outside>>
  BY WrittenKeeps DEF SavedPrepared, Goto
<1>2. TypeOK'
  BY <1>1 DEF IInv, TypeOK, Steps, runVars, planVars, reportVars, outside
<1>3. InFlight' /\ RetryBound' /\ ValidRecords'
  BY <1>1 DEF IInv, InFlight, RetryBound, ValidRecords, runVars, planVars
<1> QED BY <1>2, <1>3 DEF IInv

LEMMA SavedAndReturnedKeeps == ASSUME IInv, SavedCancelled \/ SavedFinal PROVE IInv'
<1>1. disk' \in States /\ ValidState(disk') /\ EndRun /\ UNCHANGED outside
  BY WrittenKeeps DEF SavedCancelled, SavedFinal
<1> QED BY <1>1, EndRunKeeps DEF IInv, TypeOK, outside

LEMMA SavedUnknownKeeps == ASSUME IInv, SavedUnknown PROVE IInv'
<1>1. /\ disk' \in States /\ ValidState(disk') /\ pc' = "failed"
      /\ UNCHANGED <<mem, runVars, desired, tv, budget>> /\ settled' \in BOOLEAN
  BY WrittenKeeps DEF SavedUnknown, Goto, IInv, TypeOK
<1>2. TypeOK'
  BY <1>1 DEF IInv, TypeOK, Steps, runVars, planVars, reportVars
<1>3. InFlight' /\ RetryBound' /\ ValidRecords'
  BY <1>1 DEF IInv, InFlight, RetryBound, ValidRecords
<1> QED BY <1>2, <1>3 DEF IInv

LEMMA SavedRejectedKeeps == ASSUME IInv, SavedRejected PROVE IInv'
<1>1. /\ disk' \in States /\ ValidState(disk') /\ pc = "save-rejected"
      /\ pc' \in {"observe", "replan", "failed"} /\ mem' = mem
      /\ UNCHANGED <<planVars, offTried, fallback, outside>>
      /\ verdict' = "none" /\ paced' = TRUE
  BY WrittenKeeps DEF SavedRejected, Goto
<1>2. /\ tries' \in {tries, NoTries}
      /\ pc' \in {"observe", "replan"} => tries'.n < MaxAttempts
  BY <1>1, NoTriesType DEF IInv, RetryBound, SavedRejected, Goto
<1>3. absorbed' \in BOOLEAN
  BY DEF IInv, TypeOK, SavedRejected
<1>4. TypeOK'
  BY <1>1, <1>2, <1>3, NoTriesType DEF IInv, TypeOK, Steps, planVars, outside
<1>5. InFlight' /\ RetryBound' /\ ValidRecords'
  BY <1>1, <1>2 DEF IInv, InFlight, RetryBound, ValidRecords
<1> QED BY <1>4, <1>5 DEF IInv

LEMMA SavedAppliedKeeps == ASSUME IInv, SavedApplied PROVE IInv'
<1>1. /\ disk' \in States /\ ValidState(disk') /\ disk' = mem /\ pc = "save-applied"
      /\ mem' = Resolved(mem, obs) /\ pc' = "save-resolved"
      /\ UNCHANGED <<obs, cand, due, prune, reportVars, outside>>
  BY WrittenKeeps DEF SavedApplied, Store, Goto
<1>2. mem' \in States /\ ValidState(mem')
  BY <1>1, ResolvedKeeps DEF IInv, TypeOK, InFlight, ValidRecords
<1>3. stale' \in BOOLEAN
  BY DEF SavedApplied, IInv, TypeOK
<1>4. TypeOK'
  BY <1>1, <1>2, <1>3 DEF IInv, TypeOK, Steps, SaveSteps, reportVars, outside
<1>5. InFlight' /\ RetryBound' /\ ValidRecords'
  BY <1>1, <1>2 DEF InFlight, RetryBound, ValidRecords
<1> QED BY <1>4, <1>5 DEF IInv

LEMMA SavedResolvedKeeps == ASSUME IInv, SavedResolved PROVE IInv'
<1>1. disk' \in States /\ ValidState(disk') /\ UNCHANGED outside
  BY WrittenKeeps DEF SavedResolved
<1>2. CASE EndRun
  BY <1>1, <1>2, EndRunKeeps DEF IInv, TypeOK, outside
<1>3. CASE ~EndRun
  <2>1. /\ pc' \in {"finish", "replan"} /\ tries' = NoTries /\ paced' = TRUE
        /\ UNCHANGED <<mem, planVars, verdict, absorbed, offTried, fallback>>
    BY <1>3 DEF SavedResolved, Goto
  <2>2. TypeOK'
    BY <1>1, <2>1, NoTriesType DEF IInv, TypeOK, Steps, planVars, outside
  <2>3. InFlight' /\ RetryBound' /\ ValidRecords'
    BY <1>1, <2>1, NoTriesType DEF IInv, InFlight, RetryBound, ValidRecords
  <2> QED BY <2>2, <2>3 DEF IInv
<1> QED BY <1>2, <1>3

LEMMA SaveFailsKeeps == ASSUME IInv, SaveFails PROVE IInv'
<1>1. budget' \in 0 .. Budget
  BY DisturbedType DEF IInv, TypeOK, SaveFails
<1>2. CASE EndRun
  BY <1>1, <1>2, EndRunKeeps DEF IInv, TypeOK, ValidRecords, SaveFails
<1>3. CASE ~EndRun
  <2>1. /\ mem' \in {mem, disk} /\ pc' = "failed" /\ UNCHANGED <<disk, runVars, desired, tv, settled>>
    BY <1>3 DEF SaveFails, Store, Goto
  <2>2. TypeOK'
    BY <1>1, <2>1 DEF IInv, TypeOK, Steps, runVars, planVars, reportVars
  <2>3. InFlight' /\ RetryBound' /\ ValidRecords'
    BY <2>1 DEF IInv, InFlight, RetryBound, ValidRecords
  <2> QED BY <2>2, <2>3 DEF IInv
<1> QED BY <1>2, <1>3

\* Whichever version the file holds, both were valid.
LEMMA SaveOutcomeUnknownKeeps == ASSUME IInv, SaveOutcomeUnknown PROVE IInv'
<1>1. budget' \in 0 .. Budget
  BY DisturbedType DEF IInv, TypeOK, SaveOutcomeUnknown
<1>2. disk' \in States /\ ValidState(disk') /\ EndRun /\ UNCHANGED <<desired, tv, settled>>
  BY DEF IInv, TypeOK, ValidRecords, SaveOutcomeUnknown
<1> QED BY <1>1, <1>2, EndRunKeeps DEF IInv, TypeOK

-----------------------------------------------------------------------------
(* A command at the TV.                                                    *)

\* A record whose pending command and capacity evidence change stays valid if
\* the new ones are.
LEMMA RecordKeeps ==
  ASSUME NEW st \in States, ValidState(st),
         NEW pending \in Operations \cup {None}, ValidOperation(pending),
         NEW capacity \in Capacities, Sound(capacity)
  PROVE  LET new == [st EXCEPT !.pending = pending, !.capacity = capacity]
         IN new \in States /\ ValidState(new) /\ new.pending = pending
  BY DEF States, ValidState, Sound

LEMMA NoneIsValid == ValidOperation(None)
  BY DEF ValidOperation

\* What the run holds when the command is about to be sent.
LEMMA AtApply ==
  ASSUME IInv, pc = "apply"
  PROVE  /\ mem \in States /\ ValidState(mem) /\ mem.pending \in Operations
         /\ mem.pending.cmd = cand /\ cand \in Commands /\ ValidIntent(cand)
         /\ mem.capacity \in Capacities /\ Sound(mem.capacity)
         /\ obs.inv \in SUBSET ContentIds
<1>1. mem \in States /\ ValidState(mem) /\ mem.pending # None /\ mem.pending.cmd = cand
  BY DEF IInv, TypeOK, InFlight, ValidRecords
<1>2. mem.pending \in Operations /\ mem.capacity \in Capacities
  BY <1>1 DEF States
<1>3. cand \in Commands
  BY <1>1, <1>2 DEF Operations
<1>4. ValidIntent(cand)
  BY <1>1 DEF ValidState, ValidOperation
<1>5. Sound(mem.capacity)
  BY <1>1 DEF ValidState, Sound
<1>6. obs.inv \in SUBSET ContentIds
  BY DEF IInv, TypeOK, Observations
<1> QED BY <1>1, <1>2, <1>3, <1>4, <1>5, <1>6

LEMMA CancelledKeeps == ASSUME IInv, Cancelled PROVE IInv'
<1>1. /\ mem \in States /\ ValidState(mem)
      /\ mem' = [mem EXCEPT !.pending = None] /\ pc' = "save-cancelled"
      /\ UNCHANGED <<disk, runVars, desired, tv, settled>>
  BY AtApply DEF Cancelled, Store, Goto
<1>2. mem' \in States /\ ValidState(mem')
  BY <1>1, NoneIsValid DEF States, ValidState
<1>3. budget' \in 0 .. Budget
  BY DisturbedType DEF IInv, TypeOK, Cancelled
<1>4. TypeOK'
  BY <1>1, <1>2, <1>3 DEF IInv, TypeOK, Steps, SaveSteps, runVars, planVars, reportVars
<1>5. InFlight' /\ RetryBound' /\ ValidRecords'
  BY <1>1, <1>2 DEF IInv, InFlight, RetryBound, ValidRecords
<1> QED BY <1>4, <1>5 DEF IInv

LEMMA SlowPacingKeeps == ASSUME IInv, SlowPacing PROVE IInv'
<1>1. /\ settled' = TRUE
      /\ UNCHANGED <<disk, mem, pc, runVars, desired, tv, budget>>
  BY DEF SlowPacing
<1>2. TypeOK'
  BY <1>1 DEF IInv, TypeOK, runVars, planVars, reportVars
<1>3. InFlight' /\ RetryBound' /\ ValidRecords'
  BY <1>1 DEF IInv, InFlight, RetryBound, ValidRecords, runVars, planVars, reportVars
<1> QED BY <1>2, <1>3 DEF IInv

\* A definite rejection clears the journal entry; it may be retried only if an
\* attempt is left.
LEMMA RejectKeeps ==
  ASSUME IInv, pc = "apply", budget' \in 0 .. Budget,
         NEW report \in {"retry", "final"}, Reject(report),
         report = "retry" => tries.n < MaxAttempts, tv' \in TVs
  PROVE  IInv'
<1>1. /\ verdict' = report /\ pc' = "save-rejected"
      /\ UNCHANGED <<disk, planVars, tries, absorbed, offTried, fallback, paced, desired, settled>>
  BY DEF Reject, Goto
<1>2. mem' \in States /\ ValidState(mem')
  <2> DEFINE capacity == IF cand.kind = "upload" THEN ProbeConsumed(mem.capacity) ELSE mem.capacity
  <2>1. mem' = [mem EXCEPT !.pending = None, !.capacity = capacity]
    BY AtApply DEF Reject, States
  <2>2. capacity \in Capacities /\ Sound(capacity)
    BY AtApply, ProbeConsumedKeeps
  <2> HIDE DEF capacity
  <2> QED BY <2>1, <2>2, AtApply, NoneIsValid, RecordKeeps
<1>3. TypeOK'
  BY <1>1, <1>2 DEF IInv, TypeOK, Steps, SaveSteps, planVars
<1>4. InFlight' /\ RetryBound' /\ ValidRecords'
  BY <1>1, <1>2 DEF IInv, InFlight, RetryBound, ValidRecords
<1> QED BY <1>3, <1>4 DEF IInv

LEMMA RejectionKeeps == ASSUME IInv, NotAuthorized \/ LinkDown \/ Refused \/ Unlisted PROVE IInv'
<1>1. CASE NotAuthorized
  BY <1>1, RejectKeeps DEF NotAuthorized, IInv, TypeOK
<1>2. CASE LinkDown
  BY <1>2, RejectKeeps, DisturbedType DEF LinkDown, IInv, TypeOK
<1>3. CASE Refused
  BY <1>3, RejectKeeps, DisturbedType DEF Refused, IInv, TypeOK
<1>4. CASE Unlisted
  <2>1. cand.digest \in Digests
    BY <1>4, AtApply DEF Unlisted, Commands, ValidIntent
  <2>2. tv' \in TVs
    BY <1>4, <2>1 DEF Unlisted, IInv, TypeOK, TVs
  <2> QED BY <1>4, <2>2, RejectKeeps, DisturbedType DEF Unlisted, IInv, TypeOK
<1> QED BY <1>1, <1>2, <1>3, <1>4

LEMMA StorageFullKeeps == ASSUME IInv, StorageFull PROVE IInv'
<1>1. /\ pc' = "save-rejected" /\ verdict' \in {"storage-full", "final"} /\ stale' = FALSE
      /\ UNCHANGED <<disk, obs, cand, due, prune, tries, absorbed, offTried, fallback,
                     paced, desired, tv, settled>>
  BY DEF StorageFull, Goto
<1>2. budget' \in 0 .. Budget
  BY DisturbedType DEF IInv, TypeOK, StorageFull
<1>3. mem' \in States /\ ValidState(mem')
  <2> DEFINE capacity == StorageFullCapacity(mem.capacity, Cardinality(obs.inv))
  <2>1. mem' = [mem EXCEPT !.pending = None, !.capacity = capacity]
    BY AtApply DEF StorageFull, States
  <2>2. capacity \in Capacities /\ Sound(capacity)
    BY AtApply, CountIsNat, StorageFullCapacityType DEF StorageFull
  <2>3. pc = "apply"
    BY DEF StorageFull
  <2> HIDE DEF capacity
  <2> QED BY <2>1, <2>2, <2>3, AtApply, NoneIsValid, RecordKeeps
<1>4. TypeOK'
  BY <1>1, <1>2, <1>3 DEF IInv, TypeOK, Steps, SaveSteps
<1>5. InFlight' /\ RetryBound' /\ ValidRecords'
  BY <1>1, <1>3 DEF IInv, InFlight, RetryBound, ValidRecords
<1> QED BY <1>4, <1>5 DEF IInv

\* An image a TV gives an upload has a content ID of its own range.
LEMMA AnswersAreIds ==
  ASSUME IInv, pc = "apply", NEW content \in AnswerIds
  PROVE  /\ content \in ContentIds \cup {None}
         /\ cand.kind = "upload" => content \in ContentIds
<1>1. tv.inv \in SUBSET ContentIds
  BY DEF IInv, TypeOK, TVs
<1> QED BY <1>1 DEF AnswerIds, UploadIds, FreshIds

\* A command leaves the TV a TV.
LEMMA EffectType ==
  ASSUME IInv, pc = "apply", NEW content \in ContentIds \cup {None},
         cand.kind = "upload" => content \in ContentIds
  PROVE  Effect(cand, content) \in TVs
<1>1. cand \in Commands /\ ValidIntent(cand) /\ tv \in TVs
  BY AtApply DEF IInv, TypeOK
<1>2. CASE cand.kind = "upload"
  <2>1. cand.digest \in Digests
    BY <1>1, <1>2 DEF Commands, ValidIntent
  <2>2. Effect(cand, content) =
          [tv EXCEPT !.inv = tv.inv \cup {content}, !.holds = [tv.holds EXCEPT ![content] = cand.digest]]
    BY <1>1, <1>2 DEF Effect, TVs
  <2>3. /\ tv.inv \cup {content} \in SUBSET ContentIds
        /\ [tv.holds EXCEPT ![content] = cand.digest] \in [ContentIds -> Digests \cup {Foreign}]
    BY <1>1, <1>2, <2>1 DEF TVs
  <2> QED BY <1>1, <2>2, <2>3 DEF TVs
<1>3. CASE cand.kind = "setting"
  BY <1>1, <1>3 DEF Effect, TVs
<1>4. CASE cand.kind = "power-off"
  BY <1>1, <1>4 DEF Effect, TVs
<1>5. CASE cand.kind \notin {"upload", "setting", "power-off"}
  <2>1. Effect(cand, content) =
          [tv EXCEPT !.inv = tv.inv \ {cand.content},
                     !.holds = [tv.holds EXCEPT ![cand.content] = Foreign]]
    BY <1>1, <1>5 DEF Effect, TVs
  <2> QED BY <1>1, <2>1 DEF TVs
<1> QED BY <1>2, <1>3, <1>4, <1>5

\* Recording an answer keeps the record valid and still names the command.
LEMMA AnsweredKeeps ==
  ASSUME IInv, pc = "apply", NEW phase \in {"applied", "outcome-unknown"},
         NEW content \in ContentIds \cup {None}, NEW capacity \in Capacities, Sound(capacity)
  PROVE  LET op  == [mem.pending EXCEPT !.phase = phase, !.receipt = content]
             new == [mem EXCEPT !.pending = op, !.capacity = capacity]
         IN /\ new \in States /\ ValidState(new)
            /\ new.pending # None /\ new.pending.cmd = cand
<1> DEFINE op == [mem.pending EXCEPT !.phase = phase, !.receipt = content]
<1>1. op \in Operations /\ op.cmd = cand /\ op.phase # "prepared"
  BY AtApply DEF Operations, Phases
<1>2. ValidOperation(op)
  BY <1>1, AtApply DEF ValidOperation
<1> HIDE DEF op
<1>3. LET new == [mem EXCEPT !.pending = op, !.capacity = capacity]
      IN new \in States /\ ValidState(new) /\ new.pending = op
  BY <1>1, <1>2, AtApply, RecordKeeps
<1>4. op # None
  BY <1>1, NoneIsNoOperation
<1> QED BY <1>1, <1>3, <1>4 DEF op

LEMMA RecordAppliedKeeps ==
  ASSUME IInv, pc = "apply", NEW content \in ContentIds \cup {None},
         cand.kind = "upload" => content \in ContentIds,
         RecordApplied(content), budget' \in 0 .. Budget,
         tv' \in TVs
  PROVE  IInv'
<1>1. /\ pc' = "save-applied" /\ due' = due \ {cand.digest}
      /\ UNCHANGED <<disk, cand, stale, prune, reportVars, desired, settled>>
  BY DEF RecordApplied, Goto
<1>2. mem' \in States /\ ValidState(mem') /\ mem'.pending # None /\ mem'.pending.cmd = cand
  <2> DEFINE capacity == IF cand.kind = "upload"
                         THEN [ProbeConsumed(mem.capacity) EXCEPT !.short = 0] ELSE mem.capacity
  <2>1. mem' = [mem EXCEPT !.pending = [mem.pending EXCEPT !.phase = "applied", !.receipt = content],
                           !.capacity = capacity]
    BY AtApply DEF RecordApplied, States, Operations
  <2>2. capacity \in Capacities /\ Sound(capacity)
    <3>1. ProbeConsumed(mem.capacity) \in Capacities /\ Sound(ProbeConsumed(mem.capacity))
      BY AtApply, ProbeConsumedKeeps
    <3>2. /\ [ProbeConsumed(mem.capacity) EXCEPT !.short = 0] \in Capacities
          /\ Sound([ProbeConsumed(mem.capacity) EXCEPT !.short = 0])
      BY <3>1, ShortfallsIsNat DEF Capacities, Sound
    <3> QED BY <3>2, AtApply
  <2> HIDE DEF capacity
  <2> QED BY <2>1, <2>2, AnsweredKeeps
<1>3. obs' \in Observations
  <2>1. obs \in Observations /\ (cand.kind = "upload" => content \in ContentIds)
    BY DEF IInv, TypeOK
  <2>2. obs' = Receipted(cand, content)
    BY DEF RecordApplied
  <2> QED BY <2>1, <2>2 DEF Receipted, Observations
<1>4. TypeOK'
  BY <1>1, <1>2, <1>3 DEF IInv, TypeOK, Steps, SaveSteps, reportVars
<1>5. InFlight' /\ RetryBound' /\ ValidRecords'
  BY <1>1, <1>2 DEF IInv, InFlight, RetryBound, ValidRecords
<1> QED BY <1>4, <1>5 DEF IInv

LEMMA RecordUnknownKeeps ==
  ASSUME IInv, pc = "apply", NEW content \in ContentIds \cup {None},
         RecordUnknown(content), budget' \in 0 .. Budget,
         tv' \in TVs
  PROVE  IInv'
<1>1. pc' = "save-unknown" /\ UNCHANGED <<disk, runVars, desired, settled>>
  BY DEF RecordUnknown, Goto
<1>2. mem' \in States /\ ValidState(mem') /\ mem'.pending # None /\ mem'.pending.cmd = cand
  <2>1. mem' = [mem EXCEPT !.pending = [mem.pending EXCEPT !.phase = "outcome-unknown",
                                                           !.receipt = content],
                           !.capacity = mem.capacity]
    BY AtApply DEF RecordUnknown, States, Operations
  <2> QED BY <2>1, AtApply, AnsweredKeeps
<1>3. TypeOK'
  BY <1>1, <1>2 DEF IInv, TypeOK, Steps, SaveSteps, runVars, planVars, reportVars
<1>4. InFlight' /\ RetryBound' /\ ValidRecords'
  BY <1>1, <1>2 DEF IInv, InFlight, RetryBound, ValidRecords, runVars, planVars
<1> QED BY <1>3, <1>4 DEF IInv

LEMMA AppliedKeeps == ASSUME IInv, Applied PROVE IInv'
<1>1. PICK content \in AnswerIds : tv' = Effect(cand, content) /\ RecordApplied(content)
  BY DEF Applied
<1>2. pc = "apply" /\ budget' \in 0 .. Budget
  BY DEF Applied, IInv, TypeOK
<1> QED BY <1>1, <1>2, AnswersAreIds, EffectType, RecordAppliedKeeps

LEMMA ReplyLostKeeps == ASSUME IInv, ReplyLost PROVE IInv'
<1>1. pc = "apply" /\ budget' \in 0 .. Budget
  BY DisturbedType DEF ReplyLost, IInv, TypeOK
<1>2. CASE \E content \in AnswerIds : /\ tv' = Effect(cand, content)
                                      /\ \E known \in {content, None} : RecordUnknown(known)
  <2>1. PICK content \in AnswerIds : /\ tv' = Effect(cand, content)
                                     /\ \E known \in {content, None} : RecordUnknown(known)
    BY <1>2
  <2>2. PICK known \in {content, None} : RecordUnknown(known)
    BY <2>1
  <2>3. content \in ContentIds \cup {None} /\ known \in ContentIds \cup {None}
    BY <1>1, <2>1, AnswersAreIds
  <2> QED BY <1>1, <2>1, <2>2, <2>3, AnswersAreIds, EffectType, RecordUnknownKeeps
<1>3. CASE tv' = tv /\ RecordUnknown(None)
  BY <1>1, <1>3, RecordUnknownKeeps DEF IInv, TypeOK
<1>4. CASE cand.kind = "upload" /\ tv' = [tv EXCEPT !.late = cand.digest] /\ RecordUnknown(None)
  <2>1. cand.digest \in Digests
    BY <1>1, <1>4, AtApply DEF Commands, ValidIntent
  <2> QED BY <1>1, <1>4, <2>1, RecordUnknownKeeps DEF IInv, TypeOK, TVs
<1> QED BY <1>2, <1>3, <1>4 DEF ReplyLost

LEMMA AnsweredForAnotherKeeps == ASSUME IInv, AnsweredForAnother PROVE IInv'
<1>1. pc = "apply" /\ budget' \in 0 .. Budget
  BY DisturbedType DEF AnsweredForAnother, IInv, TypeOK
<1>2. cand.digest \in Digests
  BY <1>1, AtApply DEF AnsweredForAnother, Commands, ValidIntent
<1>3. PICK content \in FreshIds :
        /\ tv' = [tv EXCEPT !.inv = @ \cup {content}, !.holds[content] = Foreign, !.late = cand.digest]
        /\ RecordApplied(content)
  BY DEF AnsweredForAnother
<1>4. content \in ContentIds
  BY DEF FreshIds
<1>5. tv' \in TVs
  BY <1>2, <1>3, <1>4 DEF IInv, TypeOK, TVs
<1> QED BY <1>1, <1>3, <1>4, <1>5, RecordAppliedKeeps

-----------------------------------------------------------------------------
(* Failed runs, and everyone else.                                         *)

LEMMA GiveUpKeeps == ASSUME IInv, GiveUp \/ FallbackNotNeeded PROVE IInv'
<1>1. EndRun /\ UNCHANGED disk /\ UNCHANGED outside
  BY DEF GiveUp, FallbackNotNeeded
<1> QED BY <1>1, EndRunKeeps DEF IInv, TypeOK, ValidRecords, outside

LEMMA FallBackKeeps == ASSUME IInv, FallBack PROVE IInv'
<1>1. pc' = "power-off" /\ UNCHANGED <<disk, mem, runVars, outside>>
  BY DEF FallBack, Goto
<1>2. TypeOK'
  BY <1>1 DEF IInv, TypeOK, Steps, runVars, planVars, reportVars, outside
<1>3. InFlight' /\ RetryBound' /\ ValidRecords'
  BY <1>1 DEF IInv, InFlight, RetryBound, ValidRecords
<1> QED BY <1>2, <1>3 DEF IInv

LEMMA FallbackPowerOffKeeps == ASSUME IInv, FallbackPowerOff PROVE IInv'
<1> DEFINE op == [cmd |-> PowerOff, phase |-> "prepared", receipt |-> None, before |-> tv.inv]
<1>1. /\ mem' = [mem EXCEPT !.pending = op] /\ pc' = "save-prepared" /\ cand' = PowerOff
      /\ obs' = Look /\ offTried' = TRUE /\ fallback' = TRUE
      /\ UNCHANGED <<disk, due, stale, prune, tries, verdict, absorbed, paced, outside>>
  BY DEF FallbackPowerOff, Store, Goto, Prepared
<1>2. PowerOff \in Commands /\ ValidIntent(PowerOff)
  BY DEF PowerOff, Commands, ArtworkKinds, ValidIntent
<1>3. op \in Operations /\ ValidOperation(op) /\ op # None
  <2>1. tv.inv \in SUBSET ContentIds
    BY DEF IInv, TypeOK, TVs
  <2>2. op \in Operations
    BY <1>2, <2>1 DEF Operations, Phases
  <2> QED BY <1>2, <2>2, NoneIsNoOperation DEF ValidOperation
<1>4. mem' \in States /\ ValidState(mem') /\ mem'.pending = op
  <2>1. mem \in States /\ ValidState(mem)
    BY DEF IInv, TypeOK, ValidRecords
  <2> HIDE DEF op
  <2> QED BY <1>1, <1>3, <2>1 DEF States, ValidState
<1>5. Look \in Observations
  BY LookType DEF IInv
<1>6. TypeOK'
  BY <1>1, <1>2, <1>4, <1>5 DEF IInv, TypeOK, Steps, SaveSteps, outside
<1>7. InFlight' /\ RetryBound' /\ ValidRecords'
  BY <1>1, <1>3, <1>4 DEF IInv, InFlight, RetryBound, ValidRecords
<1> QED BY <1>6, <1>7 DEF IInv

LEMMA CrashKeeps == ASSUME IInv, Crash PROVE IInv'
<1>1. EndRun /\ UNCHANGED disk /\ UNCHANGED <<desired, tv, settled>>
  BY DEF Crash
<1>2. budget' \in 0 .. Budget
  BY DisturbedType DEF IInv, TypeOK, Crash
<1> QED BY <1>1, <1>2, EndRunKeeps DEF IInv, TypeOK, ValidRecords

\* Nothing outside the run touches the record.
LEMMA OutsideKeeps ==
  ASSUME IInv, UNCHANGED <<disk, mem, pc, runVars>>,
         desired' \in SUBSET Digests, tv' \in TVs, settled' \in BOOLEAN, budget' \in 0 .. Budget
  PROVE  IInv'
<1>1. TypeOK'
  BY DEF IInv, TypeOK, runVars, planVars, reportVars
<1>2. InFlight' /\ RetryBound' /\ ValidRecords'
  BY DEF IInv, InFlight, RetryBound, ValidRecords, runVars, planVars, reportVars
<1> QED BY <1>1, <1>2 DEF IInv

\* An image that comes or goes leaves the TV a TV.
LEMMA ImageChanged ==
  ASSUME NEW t \in TVs, NEW c \in ContentIds, NEW picture \in Digests \cup {Foreign},
         NEW inv \in {t.inv \cup {c}, t.inv \ {c}}
  PROVE  [t EXCEPT !.inv = inv, !.holds[c] = picture] \in TVs
<1>1. inv \in SUBSET ContentIds
  BY DEF TVs
<1>2. [t.holds EXCEPT ![c] = picture] \in [ContentIds -> Digests \cup {Foreign}]
  BY DEF TVs
<1> QED BY <1>1, <1>2 DEF TVs

LEMMA EnvironmentKeeps ==
  ASSUME IInv, CollectionCommits \/ OwnerActs \/ LateUpload \/ SettleTimePasses
  PROVE  IInv'
<1>1. /\ tv \in TVs /\ desired \in SUBSET Digests /\ settled \in BOOLEAN /\ budget \in 0 .. Budget
  BY DEF IInv, TypeOK
<1>2. CASE CollectionCommits
  BY <1>1, <1>2, DisturbedType, OutsideKeeps DEF CollectionCommits
<1>3. CASE OwnerActs
  <2>1. budget' \in 0 .. Budget
    BY <1>1, <1>3, DisturbedType DEF OwnerActs
  <2>2. tv' \in TVs
    <3>1. CASE \E c \in ContentIds : tv' = [tv EXCEPT !.inv = @ \cup {c}, !.holds[c] = Foreign]
      <4>1. PICK c \in ContentIds : tv' = [tv EXCEPT !.inv = tv.inv \cup {c}, !.holds[c] = Foreign]
        BY <3>1
      <4>2. [tv EXCEPT !.inv = tv.inv \cup {c}, !.holds[c] = Foreign] \in TVs
        BY <1>1, ImageChanged
      <4> QED BY <4>1, <4>2
    <3>2. CASE \E c \in ContentIds : tv' = [tv EXCEPT !.inv = @ \ {c}, !.holds[c] = Foreign]
      <4>1. PICK c \in ContentIds : tv' = [tv EXCEPT !.inv = tv.inv \ {c}, !.holds[c] = Foreign]
        BY <3>2
      <4>2. [tv EXCEPT !.inv = tv.inv \ {c}, !.holds[c] = Foreign] \in TVs
        BY <1>1, ImageChanged
      <4> QED BY <4>1, <4>2
    <3>3. CASE tv' = [tv EXCEPT !.art = ~@] \/ tv' = [tv EXCEPT !.set = ~@]
      BY <1>1, <3>3 DEF TVs
    <3> QED BY <1>1, <1>3, <3>1, <3>2, <3>3 DEF OwnerActs, FreshIds, TVs
  <2> QED BY <1>1, <1>3, <2>1, <2>2, OutsideKeeps DEF OwnerActs
<1>4. CASE LateUpload
  <2>1. tv' \in TVs
    <3>1. CASE \E c \in ContentIds :
                 tv' = [tv EXCEPT !.inv = @ \cup {c}, !.holds[c] = tv.late, !.late = None]
      <4>1. PICK c \in ContentIds :
              tv' = [tv EXCEPT !.inv = @ \cup {c}, !.holds[c] = tv.late, !.late = None]
        BY <3>1
      <4>2. tv.late \in Digests
        BY <1>1, <1>4 DEF TVs, LateUpload
      <4>3. [tv EXCEPT !.inv = tv.inv \cup {c}, !.holds[c] = tv.late] \in TVs
        BY <1>1, <4>2, ImageChanged
      <4> QED BY <4>1, <4>3 DEF TVs
    <3>2. CASE tv' = [tv EXCEPT !.late = None]
      BY <1>1, <3>2 DEF TVs
    <3> QED BY <1>4, <3>1, <3>2 DEF LateUpload, FreshIds
  <2> QED BY <1>1, <1>4, <2>1, OutsideKeeps DEF LateUpload
<1>5. CASE SettleTimePasses
  BY <1>1, <1>5, OutsideKeeps DEF SettleTimePasses
<1> QED BY <1>2, <1>3, <1>4, <1>5

-----------------------------------------------------------------------------
(* The theorems.                                                           *)

LEMMA InitIInv == Init => IInv
<1> SUFFICES ASSUME Init PROVE IInv
  OBVIOUS
<1>1. NoObservation \in Observations
  BY DEF NoObservation, Observations
<1>2. tv \in TVs
  BY DEF Init, TVs
<1>3. TypeOK
  <2>1. budget \in 0 .. Budget
    BY BoundsAreNat DEF Init
  <2> QED BY <1>1, <1>2, <2>1, InitialStateType, NoTriesType DEF Init, TypeOK, Steps
<1>4. InFlight /\ RetryBound /\ ValidRecords
  BY InitialStateType, NoTriesType DEF Init, InFlight, RetryBound, ValidRecords
<1> QED BY <1>3, <1>4 DEF IInv

LEMMA NextIInv == IInv /\ [Next]_vars => IInv'
<1> SUFFICES ASSUME IInv, [Next]_vars PROVE IInv'
  OBVIOUS
<1>1. CASE RunStep
  BY <1>1, BeginKeeps, RecoverKeeps, SettleKeeps, SkipIneligibleKeeps, PlanKeeps, ExecuteKeeps,
     ReconsiderKeeps, ObserveFailsKeeps, FinishKeeps, SavedRecoveryKeeps, SavedPreparedKeeps,
     SavedAndReturnedKeeps, SavedUnknownKeeps, SavedRejectedKeeps, SavedAppliedKeeps,
     SavedResolvedKeeps, SaveFailsKeeps, SaveOutcomeUnknownKeeps, CancelledKeeps,
     SlowPacingKeeps, RejectionKeeps, StorageFullKeeps, AppliedKeeps, ReplyLostKeeps,
     AnsweredForAnotherKeeps, GiveUpKeeps, FallBackKeeps, FallbackPowerOffKeeps
  DEF RunStep
<1>2. CASE Crash \/ CollectionCommits \/ OwnerActs \/ LateUpload \/ SettleTimePasses
  BY <1>2, CrashKeeps, EnvironmentKeeps
<1>3. CASE UNCHANGED vars
  BY <1>3, OutsideKeeps DEF vars, IInv, TypeOK
<1> QED BY <1>1, <1>2, <1>3 DEF Next

\* The inductive invariant holds throughout.
THEOREM Inductive == Spec => []IInv
  BY InitIInv, NextIInv, PTL DEF Spec

\* Every variable keeps its type; in particular a run never spends more than
\* MaxAttempts attempts on one command.
THEOREM TypeCorrect == Spec => []TypeOK
<1>1. IInv => TypeOK
  BY DEF IInv
<1> QED BY <1>1, Inductive, PTL

\* No command is sent to the TV unless its own intent is the prepared entry of
\* the journal on disk, for any sequence of crashes and failed writes.
THEOREM JournalFirst == Spec => []JournalledBeforeSent
<1>1. IInv => JournalledBeforeSent
  BY DEF IInv, InFlight, JournalledBeforeSent
<1> QED BY <1>1, Inductive, PTL

\* Every record a run tries to save passes validateState, so validation never
\* stands between a receipt and the journal.
THEOREM ValidSaves == Spec => []SavesAreValid
<1>1. IInv => SavesAreValid
  BY DEF IInv, ValidRecords, SavesAreValid
<1> QED BY <1>1, Inductive, PTL

-----------------------------------------------------------------------------
(* An interrupted command never blocks a TV that shows art.                *)

\* An upload is journalled only while none is parked, so there is always room
\* to park it: recovery can get past every command.
UploadAlone(st) ==
  st.pending # None /\ st.pending.cmd.kind = "upload" => st.parked = None

UploadsAlone == UploadAlone(mem) /\ UploadAlone(disk)

LEMMA PlannedKeepsUploads ==
  ASSUME NEW st \in States, NEW wanted, NEW inv, NEW late, NEW old
  PROVE  /\ Planned(wanted, st, inv, late, old).pending = st.pending
         /\ Planned(wanted, st, inv, late, old).parked = st.parked
<1>1. Probed(st, inv).pending = st.pending /\ Probed(st, inv).parked = st.parked
  BY DEF Probed, States
<1> QED BY <1>1 DEF Planned

LEMMA PlannedUploadAlone ==
  ASSUME NEW st \in States, NEW wanted \in SUBSET Digests, NEW o \in Observations, NEW late,
         NEW cmd \in Heads(wanted, st, o, late), cmd.kind = "upload"
  PROVE  st.parked = None
<1>1. Configure.kind = "setting" /\ PowerOff.kind = "power-off"
  BY DEF Configure, PowerOff
<1> QED BY <1>1 DEF Heads, SettingHeads, PowerHeads

\* The steps that give memory another record.
LEMMA MemoryKeepsUploads ==
  ASSUME IInv, UploadsAlone, RunStep, ~EndRun
  PROVE  UploadAlone(mem')
<1>1. /\ mem \in States /\ disk \in States /\ obs \in Observations /\ desired \in SUBSET Digests
      /\ tv.inv \in SUBSET ContentIds /\ Look \in Observations /\ ValidState(mem)
  BY LookType DEF IInv, TypeOK, TVs, ValidRecords
<1>2. CASE Recover
  <2>1. CASE mem' = Resolved(mem, obs) /\ mem.pending # None
    BY <1>1, <2>1, ResolvedKeeps DEF UploadAlone
  <2>2. CASE mem' = Parked(mem) /\ mem.pending # None /\ Parkable(mem)
    BY <1>1, <2>2, ParkedKeeps DEF UploadAlone
  <2>3. CASE UNCHANGED mem
    BY <2>3 DEF UploadsAlone, UploadAlone
  <2> QED BY <1>2, <2>1, <2>2, <2>3 DEF Recover, Store
<1>3. CASE Settle
  <2>1. CASE mem' = Settled(mem, obs) /\ mem.parked # None
    <3>1. mem'.parked = None
      <4>1. mem.parked \in Operations
        BY <1>1, <2>1 DEF States
      <4>2. FoldUpload(mem, mem.parked, obs) \in States
        BY <1>1, <4>1, FoldUploadKeeps
      <4>3. PICK folded \in {FoldUpload(mem, mem.parked, obs), mem} :
              Settled(mem, obs) = [folded EXCEPT !.parked = None]
        BY DEF Settled
      <4> QED BY <1>1, <2>1, <4>2, <4>3 DEF States
    <3> QED BY <3>1 DEF UploadAlone
  <2>2. CASE UNCHANGED mem
    BY <2>2 DEF UploadsAlone, UploadAlone
  <2> QED BY <1>3, <2>1, <2>2 DEF Settle, Settles, Store
<1>4. CASE Plan \/ Replan
  <2>1. mem' = Planned(desired, mem, obs.inv, due, stale)
    BY <1>4 DEF Plan, Replan, AdoptPlan
  <2> QED BY <1>1, <2>1, PlannedKeepsUploads DEF UploadsAlone, UploadAlone
<1>5. CASE Reconsider
  <2>1. mem' = mem \/ mem' = Planned(desired, mem, tv.inv, due, stale)
    BY <1>5 DEF Reconsider, Store
  <2> QED BY <1>1, <2>1, PlannedKeepsUploads DEF UploadsAlone, UploadAlone
<1>6. CASE Execute
  <2> DEFINE st == Planned(desired, mem, tv.inv, due, stale)
  <2>1. /\ mem' = Prepared(st, cand, tv.inv) /\ cand \in Heads(desired, st, Look, due)
    BY <1>6 DEF Execute, Store
  <2>2. st \in States
    BY <1>1, PlannedKeeps
  <2>3. cand.kind = "upload" => st.parked = None
    BY <1>1, <2>1, <2>2, PlannedUploadAlone
  <2>4. mem'.parked = st.parked /\ mem'.pending.cmd = cand
    <3> HIDE DEF st
    <3> QED BY <2>1, <2>2 DEF Prepared, States
  <2> QED BY <2>3, <2>4 DEF UploadAlone
<1>7. CASE Finish
  <2>1. mem'.pending = mem.pending /\ mem'.parked = mem.parked
    BY <1>1, <1>7 DEF Finish, Store, States
  <2> QED BY <2>1 DEF UploadsAlone, UploadAlone
<1>8. CASE SavedApplied
  <2>1. mem' = Resolved(mem, obs) /\ mem.pending # None
    BY <1>8 DEF SavedApplied, Store, Written, IInv, InFlight
  <2> QED BY <1>1, <2>1, ResolvedKeeps DEF UploadAlone
<1>9. CASE SaveFails
  <2>1. UNCHANGED mem \/ mem' = disk
    BY <1>9 DEF SaveFails, Store
  <2> QED BY <2>1 DEF UploadsAlone, UploadAlone
<1>10. CASE Cancelled \/ NotAuthorized \/ LinkDown \/ Refused \/ Unlisted \/ StorageFull
  <2>1. mem'.pending = None
    BY <1>1, <1>10 DEF Cancelled, Store, NotAuthorized, LinkDown, Refused, Unlisted, StorageFull, Reject, States
  <2> QED BY <2>1 DEF UploadAlone
<1>11. CASE Applied \/ ReplyLost \/ AnsweredForAnother
  <2>1. PICK content : RecordApplied(content) \/ RecordUnknown(content)
    BY <1>11 DEF Applied, ReplyLost, AnsweredForAnother
  <2>2. pc = "apply"
    BY <1>11 DEF Applied, ReplyLost, AnsweredForAnother
  <2>3. mem.pending # None /\ mem.pending \in Operations
    BY <2>2, AtApply, NoneIsNoOperation
  <2>4. mem'.pending.cmd = mem.pending.cmd /\ mem'.parked = mem.parked
    <3>1. CASE RecordApplied(content)
      BY <1>1, <2>3, <3>1 DEF RecordApplied, States, Operations
    <3>2. CASE RecordUnknown(content)
      BY <1>1, <2>3, <3>2 DEF RecordUnknown, States, Operations
    <3> QED BY <2>1, <3>1, <3>2
  <2> QED BY <2>3, <2>4 DEF UploadsAlone, UploadAlone
<1>12. CASE FallbackPowerOff
  <2>1. mem'.pending.cmd = PowerOff
    BY <1>1, <1>12 DEF FallbackPowerOff, Store, Prepared, States
  <2> QED BY <2>1 DEF UploadAlone, PowerOff
<1>13. CASE \/ Begin \/ ObserveFails \/ SavedRecovery \/ SavedSettled \/ SavedPrepared
            \/ SavedUnknown \/ SavedRejected \/ SavedResolved \/ SlowPacing \/ FallBack
  <2>1. UNCHANGED mem
    BY <1>13
    DEF Begin, ObserveFails, SavedRecovery, SavedSettled, SavedPrepared, SavedUnknown,
        SavedRejected, SavedResolved, SlowPacing, FallBack
  <2> QED BY <2>1 DEF UploadsAlone, UploadAlone
<1>14. ~(\/ SkipIneligible \/ SavedCancelled \/ SavedFinal \/ SaveOutcomeUnknown \/ GiveUp
         \/ FallbackNotNeeded)
  BY DEF SkipIneligible, SavedCancelled, SavedFinal, SaveOutcomeUnknown, GiveUp, FallbackNotNeeded
<1> QED BY <1>2, <1>3, <1>4, <1>5, <1>6, <1>7, <1>8, <1>9, <1>10, <1>11, <1>12, <1>13, <1>14
        DEF RunStep

\* The file only ever becomes what memory held.
LEMMA FileIsMemory == ASSUME RunStep PROVE disk' = disk \/ disk' = mem
  BY DEF RunStep, Begin, Recover, Settle, SkipIneligible, Plan, Replan, Execute, Reconsider,
         ObserveFails, Finish, Written, SavedRecovery, SavedSettled, SavedPrepared,
         SavedCancelled, SavedUnknown, SavedRejected, SavedApplied, SavedResolved, SavedFinal,
         SaveFails, SaveOutcomeUnknown, Cancelled, SlowPacing, NotAuthorized, LinkDown, Reject,
         Refused, Unlisted, StorageFull, Applied, RecordApplied, ReplyLost, RecordUnknown,
         AnsweredForAnother, GiveUp, FallBack, FallbackPowerOff, FallbackNotNeeded

LEMMA NextUploadsAlone == IInv /\ UploadsAlone /\ [Next]_vars => UploadsAlone'
<1> SUFFICES ASSUME IInv, UploadsAlone, [Next]_vars PROVE UploadsAlone'
  OBVIOUS
<1>1. CASE RunStep
  <2>1. UploadAlone(disk')
    BY <1>1, FileIsMemory DEF UploadsAlone, UploadAlone
  <2>2. UploadAlone(mem')
    <3>1. CASE EndRun
      BY <2>1, <3>1 DEF EndRun, UploadAlone
    <3>2. CASE ~EndRun
      BY <1>1, <3>2, MemoryKeepsUploads
    <3> QED BY <3>1, <3>2
  <2> QED BY <2>1, <2>2 DEF UploadsAlone, UploadAlone
<1>2. CASE Crash
  BY <1>2 DEF Crash, EndRun, UploadsAlone, UploadAlone
<1>3. CASE CollectionCommits \/ OwnerActs \/ LateUpload \/ SettleTimePasses \/ UNCHANGED vars
  <2>1. UNCHANGED <<mem, disk>>
    BY <1>3 DEF CollectionCommits, OwnerActs, LateUpload, SettleTimePasses, vars
  <2> QED BY <2>1 DEF UploadsAlone, UploadAlone
<1> QED BY <1>1, <1>2, <1>3 DEF Next

\* While it looks at a TV that shows art, recovery settles or parks whatever
\* command was interrupted.
LEMMA RecoveryMovesOn ==
  ASSUME IInv, UploadsAlone, [Next]_vars, pc = "recover", obs.art
  PROVE  pc' # "failed"
<1>1. mem.pending # None /\ ~Resolvable(mem.pending, obs) => Parkable(mem)
  BY DEF UploadsAlone, UploadAlone, Resolvable, Parkable
<1>2. CASE Recover
  BY <1>1, <1>2 DEF Recover, Store, Goto
<1>3. CASE ~Recover
  <2>1. CASE RunStep
    BY <1>3, <2>1
    DEF RunStep, Begin, Settle, SkipIneligible, Plan, Replan, Execute, Reconsider,
        ObserveFails, Finish, Written, SavedRecovery, SavedSettled, SavedPrepared,
        SavedCancelled, SavedUnknown, SavedRejected, SavedApplied, SavedResolved, SavedFinal,
        SaveFails, SaveOutcomeUnknown, SaveSteps, Cancelled, SlowPacing, NotAuthorized, LinkDown,
        Refused, Unlisted, StorageFull, Applied, ReplyLost, AnsweredForAnother, GiveUp, FallBack,
        FallbackPowerOff, FallbackNotNeeded
  <2>2. CASE Crash
    BY <2>2 DEF Crash, EndRun
  <2>3. CASE CollectionCommits \/ OwnerActs \/ LateUpload \/ SettleTimePasses \/ UNCHANGED vars
    BY <2>3 DEF CollectionCommits, OwnerActs, LateUpload, SettleTimePasses, vars
  <2> QED BY <2>1, <2>2, <2>3 DEF Next
<1> QED BY <1>2, <1>3

\* An interrupted command never blocks a TV that shows art: the run always gets
\* past its recovery.
THEOREM NeverStuck == Spec => RecoveryNeverStuck
<1>1. Init => UploadsAlone
  BY DEF Init, InitialState, UploadsAlone, UploadAlone
<1>2. Spec => []UploadsAlone
  BY <1>1, NextUploadsAlone, Inductive, PTL DEF Spec
<1>3. IInv /\ UploadsAlone /\ [Next]_vars => [pc = "recover" /\ obs.art => pc' # "failed"]_vars
  BY RecoveryMovesOn
<1> QED BY <1>2, <1>3, Inductive, PTL DEF Spec, RecoveryNeverStuck
=============================================================================
