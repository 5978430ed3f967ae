------------------------------- MODULE Reconcile -------------------------------
(***************************************************************************)
(* Recoverable convergence of one Samsung TV (internal/reconcile).         *)
(*                                                                         *)
(* Service.Run is serialised by a mutex, so one program counter describes  *)
(* it. A step ends where another party can be seen: at an observation of   *)
(* the TV, at a durable write of the record, and at a command sent to the  *)
(* TV. Between any two steps the process may stop, the owner may use the   *)
(* TV, and an upload whose reply was lost may still land.                  *)
(*                                                                         *)
(* disk is the reconciliation file; mem the State value the run carries.   *)
(***************************************************************************)
EXTENDS ReconcilePlan

CONSTANTS Foreign,       \* marks an image that is not the manager's
          TvCapacity,    \* images the TV stores
          MaxAttempts,   \* WithMutationAttempts
          Hazards,       \* the disturbances a run of the model may meet
          Budget         \* how many disturbances there are in one behaviour

HazardKinds == {"crash", "save", "unknown-save", "link", "reject", "lost-reply",
                "observe", "pacing", "collection", "owner-adds", "owner-removes",
                "owner-switches", "owner-tunes", "uncorrelated", "overwrites",
                "bytes-full", "slow-pacing", "unlisted"}

ASSUME ForeignIsDistinct == Foreign \notin Digests
ASSUME BoundsAreNat      == TvCapacity \in Nat /\ MaxAttempts \in Nat \ {0} /\ Budget \in Nat
ASSUME HazardsAreKnown   == Hazards \subseteq HazardKinds

VARIABLES
  disk,      \* the record on disk
  mem,       \* the record in the run's memory
  pc,        \* what the run does next
  obs,       \* the observation it plans from
  cand,      \* the head of the current plan, or None
  due,       \* digests displayed or away for the rotation interval
  stale,     \* the capacity evidence has outlived capacityTTL
  prune,     \* digests collected from PruneBindings
  tries,     \* [cmd, n]: attempts at the last executed command
  verdict,   \* how the last rejection is reported once it is durable
  absorbed,  \* storageFullAbsorbed
  offTried,  \* powerOffAttempted
  fallback,  \* powerOffAfterFailure is executing
  paced,     \* paceMutation: an earlier command of this run was executed
  desired,   \* digests of the committed collection snapshot
  tv,        \* the TV: [inv, holds, art, set, late]
  settled,   \* uploadSettleTime has passed for the upload in doubt
  budget     \* disturbances left

planVars   == <<obs, cand, due, stale, prune>>
reportVars == <<tries, verdict, absorbed, offTried, fallback, paced>>
runVars    == <<planVars, reportVars>>
vars       == <<disk, mem, pc, runVars, desired, tv, settled, budget>>

SaveSteps == {"save-recovered", "save-parked", "save-settled", "save-prepared",
              "save-cancelled", "save-unknown", "save-rejected", "save-applied",
              "save-resolved", "save-final"}

Steps == SaveSteps \cup {"idle", "recover", "settle", "plan", "observe", "apply",
                         "replan", "finish", "failed", "power-off"}

\* A TV: its images, the picture each one holds, whether it shows art, whether
\* its settings are the managed ones, and an upload that may still land.
TVs == [inv : SUBSET ContentIds, holds : [ContentIds -> Digests \cup {Foreign}],
        art : BOOLEAN, set : BOOLEAN, late : Digests \cup {None}]

NoObservation == [art |-> FALSE, inv |-> {}, set |-> FALSE]
NoTries       == [cmd |-> None, n |-> 0]

TypeOK ==
  /\ disk \in States
  /\ mem \in States
  /\ pc \in Steps
  /\ obs \in Observations
  /\ cand \in Commands \cup {None}
  /\ due \in SUBSET Digests
  /\ stale \in BOOLEAN
  /\ prune \in SUBSET Digests
  /\ tries \in [cmd : Commands \cup {None}, n : 0 .. MaxAttempts]
  /\ verdict \in {"none", "retry", "storage-full", "final"}
  /\ absorbed \in BOOLEAN
  /\ offTried \in BOOLEAN
  /\ fallback \in BOOLEAN
  /\ paced \in BOOLEAN
  /\ desired \in SUBSET Digests
  /\ tv \in TVs
  /\ settled \in BOOLEAN
  /\ budget \in 0 .. Budget

-----------------------------------------------------------------------------
(* Helpers.                                                                *)

\* One of the disturbances this behaviour may meet.
Disturbed(hazard) == hazard \in Hazards /\ budget > 0 /\ budget' = budget - 1

\* What Observe reports: inventory and settings are known in art mode only.
Look == [art |-> tv.art, inv |-> IF tv.art THEN tv.inv ELSE {}, set |-> tv.art /\ tv.set]

\* Content IDs anything still refers to. The TV gives a new image an ID that
\* no bound or journalled image had before.
Mentioned(st) ==
  BoundContent(st) \cup {op.receipt : op \in {st.pending, st.parked} \ {None}}
                   \cup {op.cmd.content : op \in {st.pending, st.parked} \ {None}}
FreshIds == ContentIds \ (tv.inv \cup Mentioned(disk) \cup Mentioned(mem) \cup obs.inv)

\* The run returns: its memory is gone and only the file is left.
EndRun == /\ pc' = "idle"
          /\ mem' = disk'
          /\ obs' = NoObservation /\ cand' = None /\ due' = {} /\ stale' = FALSE
          /\ prune' = {}
          /\ tries' = NoTries
          /\ verdict' = "none" /\ absorbed' = FALSE /\ offTried' = FALSE
          /\ fallback' = FALSE /\ paced' = FALSE

Goto(step) == pc' = step

\* Carry a new record in memory and write it next.
Store(st, step) == mem' = st /\ Goto(step)

\* The outside of the run: what only the environment and the TV change.
outside == <<desired, tv, settled, budget>>

Init ==
  /\ disk = InitialState /\ mem = InitialState
  /\ pc = "idle"
  /\ obs = NoObservation /\ cand = None /\ due = {} /\ stale = FALSE /\ prune = {} /\ tries = NoTries
  /\ verdict = "none" /\ absorbed = FALSE /\ offTried = FALSE /\ fallback = FALSE
  /\ paced = FALSE
  /\ desired \in SUBSET Digests
  /\ tv = [inv |-> {}, holds |-> [c \in ContentIds |-> Foreign],
           art |-> TRUE, set |-> TRUE, late |-> None]
  /\ settled = FALSE
  /\ budget = Budget

-----------------------------------------------------------------------------
(* Recovery (service.go: recover, resolveRecovery).                        *)

\* Run starts: one observation, then the file is loaded. A TV that cannot be
\* observed ends the run before anything changes.
Begin ==
  /\ pc = "idle"
  /\ obs' = Look
  /\ due' \in IF RotationOn THEN SUBSET Digests ELSE {{}}
  /\ stale' \in IF disk.capacity.known THEN BOOLEAN ELSE {FALSE}
  /\ Goto("recover")
  /\ UNCHANGED <<disk, mem, cand, prune, reportVars, outside>>

\* Whether folding an operation replaces the capacity evidence.
Refreshes(op) == op # None /\ op.cmd.kind = "upload" /\ ProvesFull(mem, op, obs)

Recover ==
  /\ pc = "recover"
  /\ \/ /\ mem.pending = None
        /\ Goto("settle") /\ UNCHANGED mem
     \/ /\ mem.pending # None
        /\ Resolvable(mem.pending, obs)
        /\ Store(Resolved(mem, obs), "save-recovered")
     \/ /\ mem.pending # None
        /\ ~Resolvable(mem.pending, obs)
        /\ Parkable(mem)
        /\ Store(Parked(mem), "save-parked")
     \/ /\ mem.pending # None
        /\ ~Resolvable(mem.pending, obs)
        /\ ~Parkable(mem)
        /\ Goto("failed") /\ UNCHANGED mem
  /\ stale' = (stale /\ ~Refreshes(mem.pending))
  /\ UNCHANGED <<disk, obs, cand, due, prune, reportVars, outside>>

\* Mutant: an image that appeared since is taken for the parked upload.
SettleByGuess ==
  /\ pc = "settle"
  /\ \/ /\ mem.parked # None /\ Unexplained(mem, obs)
        /\ \E c \in obs.inv \ (mem.parked.before \cup BoundContent(mem)) :
             Store(Settled([mem EXCEPT !.parked.receipt = c], obs), "save-settled")
     \/ /\ ~(mem.parked # None /\ Unexplained(mem, obs))
        /\ Goto("plan") /\ UNCHANGED mem
  /\ stale' = (stale /\ ~Refreshes(mem.parked))
  /\ UNCHANGED <<disk, obs, cand, due, prune, reportVars, outside>>

Settle ==
  /\ pc = "settle"
  /\ \/ /\ Settles(mem, obs, settled)
        /\ Store(Settled(mem, obs), "save-settled")
     \/ /\ ~Settles(mem, obs, settled)
        /\ Goto("plan") /\ UNCHANGED mem
  /\ stale' = (stale /\ ~Refreshes(mem.parked))
  /\ UNCHANGED <<disk, obs, cand, due, prune, reportVars, outside>>

-----------------------------------------------------------------------------
(* Planning and the command loop (service.go: run).                        *)

PruneNow(o) == IF mem.parked = None THEN Prunable(mem, o.inv) ELSE {}

\* Adopt the planned record and take the head of its plan as the candidate.
\* The evidence of a probe is new.
AdoptPlan(st, heads) ==
  /\ mem' = st
  /\ stale' = (stale /\ ~st.capacity.probe)
  /\ \/ heads = {} /\ cand' = None /\ Goto("finish")
     \/ cand' \in heads /\ Goto("observe")

\* A TV that is off or shows something else is skipped.
SkipIneligible ==
  /\ pc = "plan"
  /\ ~obs.art
  /\ UNCHANGED disk
  /\ EndRun
  /\ UNCHANGED outside

Plan ==
  /\ pc = "plan"
  /\ obs.art
  /\ prune' = PruneNow(obs)
  /\ LET st == Planned(desired, mem, obs.inv, due, stale)
     IN AdoptPlan(st, Heads(desired, st, obs, due))
  /\ UNCHANGED <<disk, obs, due, reportVars, outside>>

\* Plan again from what a receipt proved, without asking the TV.
Replan ==
  /\ pc = "replan"
  /\ LET st == Planned(desired, mem, obs.inv, due, stale)
     IN AdoptPlan(st, Heads(desired, st, obs, due))
  /\ UNCHANGED <<disk, obs, due, prune, reportVars, outside>>

\* The journal entry of a command about to be sent.
Prepared(st, cmd, inv) ==
  [st EXCEPT !.pending = [cmd |-> cmd, phase |-> "prepared", receipt |-> None, before |-> inv]]

\* The fresh observation confirms the candidate: execute it.
Execute ==
  /\ pc = "observe"
  /\ tv.art
  /\ LET st == Planned(desired, mem, tv.inv, due, stale)
     IN /\ cand \in Heads(desired, st, Look, due)
        /\ Store(Prepared(st, cand, tv.inv), "save-prepared")
        /\ stale' = (stale /\ ~st.capacity.probe)
  /\ obs' = Look
  /\ prune' = prune \cup PruneNow(Look)
  /\ tries' = [cmd |-> cand, n |-> IF tries.cmd = cand THEN tries.n + 1 ELSE 1]
  /\ offTried' = (offTried \/ cand = PowerOff)
  /\ settled' = (settled /\ cand.kind # "upload")
  /\ UNCHANGED <<disk, cand, due, verdict, absorbed, fallback, paced, desired, tv, budget>>

\* The fresh observation plans something else: adopt that plan instead.
Reconsider ==
  /\ pc = "observe"
  /\ tv.art
  /\ LET st    == Planned(desired, mem, tv.inv, due, stale)
         heads == Heads(desired, st, Look, due)
     IN /\ cand \notin heads
        /\ \/ /\ heads = {}
              /\ cand' = None /\ obs' = Look /\ Goto("finish")
              /\ UNCHANGED <<mem, stale>>
           \/ /\ cand' \in heads
              /\ Store(st, "observe")
              /\ stale' = (stale /\ ~st.capacity.probe)
              /\ UNCHANGED obs
  /\ prune' = prune \cup PruneNow(Look)
  /\ UNCHANGED <<disk, due, reportVars, outside>>

\* The TV is no longer eligible, or does not answer.
ObserveFails ==
  /\ pc = "observe"
  /\ \/ ~tv.art /\ UNCHANGED budget
     \/ Disturbed("observe")
  /\ Goto("failed")
  /\ UNCHANGED <<disk, mem, runVars, desired, tv, settled>>

\* All commands ran. Unproven uploads and a full TV end the cycle without a
\* completion record; otherwise vanished bindings go and the cycle is complete.
Finish ==
  /\ pc = "finish"
  /\ \/ /\ mem.parked # None \/ CapacityLimited(desired, mem, obs.inv)
        /\ Goto("failed") /\ UNCHANGED mem
     \/ /\ mem.parked = None
        /\ ~CapacityLimited(desired, mem, obs.inv)
        /\ Store([mem EXCEPT !.bound = [d \in Digests |-> IF d \in prune THEN None ELSE @[d]]],
                 "save-final")
  /\ UNCHANGED <<disk, runVars, outside>>

-----------------------------------------------------------------------------
(* Durable writes (state.go: save). A record validateState refuses is not  *)
(* written; a write can fail, or leave its outcome unknown.                *)

Written(step) == pc = step /\ ValidState(mem) /\ disk' = mem

SavedRecovery ==
  /\ Written("save-recovered") \/ Written("save-parked")
  /\ Goto("settle")
  /\ UNCHANGED <<mem, runVars, outside>>

SavedSettled ==
  /\ Written("save-settled")
  /\ Goto("plan")
  /\ UNCHANGED <<mem, runVars, outside>>

SavedPrepared ==
  /\ Written("save-prepared")
  /\ Goto("apply")
  /\ UNCHANGED <<mem, runVars, outside>>

SavedCancelled ==
  /\ Written("save-cancelled")
  /\ EndRun
  /\ UNCHANGED outside

\* The time of this receipt is where the settle time now counts from.
SavedUnknown ==
  /\ Written("save-unknown")
  /\ Goto("failed")
  /\ settled' = (settled /\ cand.kind # "upload")
  /\ UNCHANGED <<mem, runVars, desired, tv, budget>>

\* handleDefiniteRejection returns, and run retries, rotates or gives up.
SavedRejected ==
  /\ Written("save-rejected")
  /\ \/ verdict = "retry" /\ Goto("observe") /\ UNCHANGED <<tries, absorbed>>
     \/ verdict = "storage-full" /\ Goto("replan") /\ tries' = NoTries /\ absorbed' = TRUE
     \/ verdict = "final" /\ Goto("failed") /\ UNCHANGED <<tries, absorbed>>
  /\ verdict' = "none"
  /\ paced' = TRUE
  /\ UNCHANGED <<mem, planVars, offTried, fallback, outside>>

\* The receipt is durable: fold its effect and clear the journal entry.
SavedApplied ==
  /\ Written("save-applied")
  /\ Store(Resolved(mem, obs), "save-resolved")
  /\ stale' = (stale /\ ~Refreshes(mem.pending))
  /\ UNCHANGED <<obs, cand, due, prune, reportVars, outside>>

SavedResolved ==
  /\ Written("save-resolved")
  /\ \/ fallback /\ EndRun
     \/ /\ ~fallback
        /\ Goto(IF cand = PowerOff THEN "finish" ELSE "replan")
        /\ tries' = NoTries
        /\ paced' = TRUE
        /\ UNCHANGED <<mem, planVars, verdict, absorbed, offTried, fallback>>
  /\ UNCHANGED outside

SavedFinal ==
  /\ Written("save-final")
  /\ EndRun
  /\ UNCHANGED outside

\* Mutant: the command is sent although its journal entry was not written.
SaveFailsUnnoticed ==
  /\ pc \in SaveSteps
  /\ ValidState(mem) /\ Disturbed("save")
  /\ Goto(IF pc = "save-prepared" THEN "apply" ELSE "failed")
  /\ UNCHANGED <<disk, mem, runVars, desired, tv, settled>>

\* The write failed and the file is what it was. What the run then carries
\* decides whether the scheduled power-off may still be tried.
SaveFails ==
  /\ pc \in SaveSteps
  /\ IF ValidState(mem) THEN Disturbed("save") ELSE UNCHANGED budget
  /\ UNCHANGED disk
  /\ \/ pc = "save-cancelled" /\ EndRun
     \/ /\ pc \in {"save-parked", "save-settled"}
        /\ Store(disk, "failed") /\ UNCHANGED runVars
     \/ /\ pc \notin {"save-cancelled", "save-parked", "save-settled"}
        /\ Goto("failed") /\ UNCHANGED <<mem, runVars>>
  /\ UNCHANGED <<desired, tv, settled>>

\* Either version may be on disk: no more authority to change the TV.
SaveOutcomeUnknown ==
  /\ pc \in SaveSteps
  /\ ValidState(mem)
  /\ Disturbed("unknown-save")
  /\ disk' \in {disk, mem}
  /\ EndRun
  /\ UNCHANGED <<desired, tv, settled>>

-----------------------------------------------------------------------------
(* One command at the TV (execution.go: execute, receipt.go, and what      *)
(* samsung.Adapter.Apply returns).                                         *)

\* The adapter's guard: the TV is still what the authorization was issued for.
Guarded == /\ tv.art
           /\ tv.inv = obs.inv
           /\ cand = Configure => tv.set = obs.set

\* handleDefiniteRejection, up to its save.
Reject(report) ==
  /\ mem' = [mem EXCEPT !.pending  = None,
                        !.capacity = IF cand.kind = "upload" THEN ProbeConsumed(@) ELSE @]
  /\ verdict' = report
  /\ Goto("save-rejected")
  /\ UNCHANGED <<disk, planVars, tries, absorbed, offTried, fallback, paced, desired, settled>>

\* The run is cancelled while it waits to pace the command, or before the
\* adapter writes it.
Cancelled ==
  /\ pc = "apply"
  /\ Disturbed("pacing")
  /\ Store([mem EXCEPT !.pending = None], "save-cancelled")
  /\ UNCHANGED <<disk, runVars, desired, tv, settled>>

\* The pacing wait before an upload is longer than uploadSettleTime, which
\* counts from the journal entry until there is a receipt.
SlowPacing ==
  /\ pc = "apply"
  /\ paced /\ ~fallback
  /\ "slow-pacing" \in Hazards
  /\ cand.kind = "upload" /\ ~settled
  /\ settled' = TRUE
  /\ UNCHANGED <<disk, mem, pc, runVars, desired, tv, budget>>

NotAuthorized ==
  /\ pc = "apply"
  /\ ~Guarded
  /\ Reject("final")
  /\ UNCHANGED <<tv, budget>>

\* Mutant: the attempts are not counted.
LinkDownForever ==
  /\ pc = "apply"
  /\ Disturbed("link")
  /\ Reject(IF fallback THEN "final" ELSE "retry")
  /\ UNCHANGED tv

\* The command could not be sent: the one rejection that may be retried.
LinkDown ==
  /\ pc = "apply"
  /\ Disturbed("link")
  /\ Reject(IF tries.n < MaxAttempts /\ ~fallback THEN "retry" ELSE "final")
  /\ UNCHANGED tv

Refused ==
  /\ pc = "apply"
  /\ Guarded
  /\ Disturbed("reject")
  /\ Reject("final")
  /\ UNCHANGED tv

\* The TV confirmed the upload, but the one inventory read that verifies it
\* does not list the image yet: this too is reported as not applied.
Unlisted ==
  /\ pc = "apply"
  /\ Guarded
  /\ cand.kind = "upload" /\ Cardinality(tv.inv) < TvCapacity
  /\ Disturbed("unlisted")
  /\ Reject("final")
  /\ tv' = [tv EXCEPT !.late = cand.digest]

\* The TV has no room. The first such answer of a run starts rotation.
StorageFull ==
  /\ pc = "apply"
  /\ Guarded
  /\ cand.kind = "upload"
  /\ \/ Cardinality(tv.inv) >= TvCapacity /\ UNCHANGED budget
     \/ Disturbed("bytes-full")
  /\ mem' = [mem EXCEPT !.pending  = None,
                        !.capacity = StorageFullCapacity(@, Cardinality(obs.inv))]
  /\ verdict' = (IF RotationOn /\ ~absorbed THEN "storage-full" ELSE "final")
  /\ Goto("save-rejected")
  /\ stale' = FALSE
  /\ UNCHANGED <<disk, obs, cand, due, prune, tries, absorbed, offTried, fallback,
                 paced, desired, tv, settled>>

\* Content IDs the TV may give an upload: a new one while it has room; a TV
\* that overwrites gives a full inventory's slot of other owned artwork.
UploadIds(digest) ==
  IF Cardinality(tv.inv) < TvCapacity THEN FreshIds
  ELSE {c \in tv.inv : /\ "overwrites" \in Hazards
                       /\ \E d \in Digests \ {digest} : disk.bound[d] = c}

\* The ID a command is answered with, if it is an upload.
AnswerIds == IF cand.kind = "upload" THEN UploadIds(cand.digest) ELSE {None}

\* The TV after the command took effect.
Effect(cmd, content) ==
  CASE cmd.kind = "upload"    -> [tv EXCEPT !.inv = @ \cup {content}, !.holds[content] = cmd.digest]
    [] cmd.kind = "setting"   -> [tv EXCEPT !.set = TRUE]
    [] cmd.kind = "power-off" -> [tv EXCEPT !.art = FALSE]
    [] OTHER                  -> [tv EXCEPT !.inv = @ \ {cmd.content}, !.holds[cmd.content] = Foreign]

\* receiptObservation
Receipted(cmd, content) ==
  CASE cmd.kind = "upload"    -> [obs EXCEPT !.inv = @ \cup {content}]
    [] cmd.kind = "setting"   -> [obs EXCEPT !.set = TRUE]
    [] cmd.kind = "power-off" -> [obs EXCEPT !.art = FALSE]
    [] OTHER                  -> [obs EXCEPT !.inv = @ \ {cmd.content}]

\* Mutant: a picture just swapped in or out stays due for rotation.
RecordAppliedStillDue(content) ==
  /\ mem' = [mem EXCEPT !.pending.phase = "applied", !.pending.receipt = content,
                        !.capacity = IF cand.kind = "upload"
                                     THEN [ProbeConsumed(@) EXCEPT !.short = 0] ELSE @]
  /\ obs' = Receipted(cand, content)
  /\ Goto("save-applied")
  /\ UNCHANGED <<disk, cand, due, stale, prune, reportVars, desired, settled>>

\* handleAppliedReceipt, up to its first save.
RecordApplied(content) ==
  /\ mem' = [mem EXCEPT !.pending.phase = "applied", !.pending.receipt = content,
                        !.capacity = IF cand.kind = "upload"
                                     THEN [ProbeConsumed(@) EXCEPT !.short = 0] ELSE @]
  /\ obs' = Receipted(cand, content)
  /\ due' = due \ {cand.digest}
  /\ Goto("save-applied")
  /\ UNCHANGED <<disk, cand, stale, prune, reportVars, desired, settled>>

Applied ==
  /\ pc = "apply"
  /\ Guarded
  /\ \E content \in AnswerIds : tv' = Effect(cand, content) /\ RecordApplied(content)
  /\ UNCHANGED budget

\* handleReceipt for an unknown outcome, up to its save.
RecordUnknown(content) ==
  /\ mem' = [mem EXCEPT !.pending.phase = "outcome-unknown", !.pending.receipt = content]
  /\ Goto("save-unknown")
  /\ UNCHANGED <<disk, runVars, desired, settled>>

\* The command was sent and its reply, or the reading that verifies it, was
\* lost: it took effect or not, and an upload may still take effect later.
ReplyLost ==
  /\ pc = "apply"
  /\ Guarded
  /\ Disturbed("lost-reply")
  /\ \/ \E content \in AnswerIds :
          /\ tv' = Effect(cand, content)
          /\ \E known \in {content, None} : RecordUnknown(known)
     \/ tv' = tv /\ RecordUnknown(None)
     \/ /\ cand.kind = "upload"
        /\ tv' = [tv EXCEPT !.late = cand.digest] /\ RecordUnknown(None)

\* A TV whose image_added event carries no request ID announces the owner's
\* own picture while the upload is still in flight.
AnsweredForAnother ==
  /\ pc = "apply"
  /\ Guarded
  /\ cand.kind = "upload"
  /\ Disturbed("uncorrelated")
  /\ \E content \in FreshIds :
       /\ Cardinality(tv.inv) < TvCapacity
       /\ tv' = [tv EXCEPT !.inv = @ \cup {content}, !.holds[content] = Foreign,
                           !.late = cand.digest]
       /\ RecordApplied(content)

-----------------------------------------------------------------------------
(* A failed run still turns the TV off (power_off.go).                     *)

MayStillPowerOff == PowerOffPolicy /\ ~offTried /\ mem.pending = None

GiveUp ==
  /\ pc = "failed"
  /\ ~MayStillPowerOff
  /\ UNCHANGED disk
  /\ EndRun
  /\ UNCHANGED outside

FallBack ==
  /\ pc = "failed"
  /\ MayStillPowerOff
  /\ Goto("power-off")
  /\ UNCHANGED <<disk, mem, runVars, outside>>

FallbackPowerOff ==
  /\ pc = "power-off"
  /\ tv.art
  /\ obs' = Look
  /\ cand' = PowerOff
  /\ offTried' = TRUE
  /\ fallback' = TRUE
  /\ Store(Prepared(mem, PowerOff, tv.inv), "save-prepared")
  /\ UNCHANGED <<disk, due, stale, prune, tries, verdict, absorbed, paced, outside>>

FallbackNotNeeded ==
  /\ pc = "power-off"
  /\ ~tv.art
  /\ UNCHANGED disk
  /\ EndRun
  /\ UNCHANGED outside

-----------------------------------------------------------------------------
(* Everyone else.                                                          *)

\* The process stops, or the run's context is cancelled between two steps.
Crash ==
  /\ pc # "idle"
  /\ Disturbed("crash")
  /\ UNCHANGED disk
  /\ EndRun
  /\ UNCHANGED <<desired, tv, settled>>

\* A snapshot is fixed for one run; between runs the collection may change.
CollectionCommits ==
  /\ pc = "idle"
  /\ Disturbed("collection")
  /\ desired' \in SUBSET Digests
  /\ UNCHANGED <<disk, mem, pc, runVars, tv, settled>>

OwnerActs ==
  /\ \/ /\ Disturbed("owner-adds")
        /\ Cardinality(tv.inv) < TvCapacity
        /\ \E c \in FreshIds : tv' = [tv EXCEPT !.inv = @ \cup {c}, !.holds[c] = Foreign]
     \/ /\ Disturbed("owner-removes")
        /\ \E c \in tv.inv : tv' = [tv EXCEPT !.inv = @ \ {c}, !.holds[c] = Foreign]
     \/ Disturbed("owner-switches") /\ tv' = [tv EXCEPT !.art = ~@]
     \/ Disturbed("owner-tunes") /\ tv' = [tv EXCEPT !.set = ~@]
  /\ UNCHANGED <<disk, mem, pc, runVars, desired, settled>>

\* An upload whose reply was lost lands after all, or never does.
LateUpload ==
  /\ tv.late # None
  /\ \/ /\ Cardinality(tv.inv) < TvCapacity
        /\ \E c \in FreshIds :
             tv' = [tv EXCEPT !.inv = @ \cup {c}, !.holds[c] = tv.late, !.late = None]
     \/ tv' = [tv EXCEPT !.late = None]
  /\ UNCHANGED <<disk, mem, pc, runVars, desired, settled, budget>>

UploadInDoubt == \E op \in {disk.pending, disk.parked} \ {None} : op.cmd.kind = "upload"

\* uploadSettleTime passes between two cycles, which is longer than any TV
\* takes to store a transfer that has ended.
SettleTimePasses ==
  /\ pc = "idle"
  /\ ~settled
  /\ UploadInDoubt
  /\ tv.late = None
  /\ settled' = TRUE
  /\ UNCHANGED <<disk, mem, pc, runVars, desired, tv, budget>>

-----------------------------------------------------------------------------
RunStep ==
  \/ Begin \/ Recover \/ Settle
  \/ SkipIneligible \/ Plan \/ Replan \/ Execute \/ Reconsider \/ ObserveFails \/ Finish
  \/ SavedRecovery \/ SavedSettled \/ SavedPrepared \/ SavedCancelled \/ SavedUnknown
  \/ SavedRejected \/ SavedApplied \/ SavedResolved \/ SavedFinal
  \/ SaveFails \/ SaveOutcomeUnknown
  \/ Cancelled \/ SlowPacing \/ NotAuthorized \/ LinkDown \/ Refused \/ Unlisted
  \/ StorageFull
  \/ Applied \/ ReplyLost \/ AnsweredForAnother
  \/ GiveUp \/ FallBack \/ FallbackPowerOff \/ FallbackNotNeeded

Next == RunStep \/ Crash \/ CollectionCommits \/ OwnerActs \/ LateUpload \/ SettleTimePasses

Spec == Init /\ [][Next]_vars

\* Cycles repeat while the process lives, the TV finishes or drops a transfer,
\* and the pauses between cycles add up to the settle time. Nothing obliges
\* the owner, the faults or the collection.
FairSpec == Spec /\ WF_vars(RunStep) /\ WF_vars(LateUpload) /\ SF_vars(SettleTimePasses)

-----------------------------------------------------------------------------
(* Safety.                                                                 *)

Journalled(digest) ==
  \E op \in {disk.pending, disk.parked} \ {None} :
    op.cmd.kind = "upload" /\ op.cmd.digest = digest

\* An image the record calls the manager's own is the picture the record says,
\* unless the journal still names the upload that took the image over: neither
\* a lost reply nor a restart ever binds somebody else's image.
BindingsAreTrue ==
  \A d \in Digests : disk.bound[d] \in tv.inv =>
    \/ tv.holds[disk.bound[d]] = d
    \/ Journalled(tv.holds[disk.bound[d]])

\* Every image the manager put on the TV is bound or still in the journal, and
\* so is an upload that may yet land: nothing it uploaded is ever forgotten.
NothingIsForgotten ==
  /\ \A c \in tv.inv : tv.holds[c] # Foreign =>
       disk.bound[tv.holds[c]] = c \/ Journalled(tv.holds[c])
  /\ tv.late # None => Journalled(tv.late)

\* A picture is never on the TV twice, nor uploaded while an earlier upload
\* may still land, however replies are lost and runs interrupted.
NoDuplicates ==
  /\ \A b, c \in tv.inv : tv.holds[b] = tv.holds[c] /\ tv.holds[b] # Foreign => b = c
  /\ tv.late # None => \A c \in tv.inv : tv.holds[c] # tv.late
  /\ pc = "apply" /\ cand.kind = "upload" => tv.late = None

\* A command reaches the TV only with its own prepared intent on disk, whatever
\* failed before it.
JournalledBeforeSent ==
  pc = "apply" => /\ disk.pending # None
                  /\ disk.pending.cmd = cand
                  /\ disk.pending.phase = "prepared"
                  /\ mem = disk

\* The run never carries a record to save that its own validation refuses,
\* which would leave the journal unable to move.
SavesAreValid == pc \in SaveSteps => ValidState(mem)

\* A TV that shows art always lets the run get past the interrupted command:
\* it is settled, or parked, and never blocks the TV for good.
RecoveryNeverStuck == [][pc = "recover" /\ obs.art => pc' # "failed"]_vars

\* A parked upload is given up only when it is true that it did not land and
\* never will: otherwise its picture would be uploaded a second time.
GivenUpMeansAbsent ==
  [][disk.parked # None /\ disk'.parked = None /\ disk'.bound = disk.bound
       => /\ tv.late # disk.parked.cmd.digest
          /\ \A c \in tv.inv : tv.holds[c] # disk.parked.cmd.digest]_vars

\* Unless unknown artwork is to be removed, an image of the owner's leaves the
\* TV by the owner's hand only.
OwnersArtStays ==
  [][RemoveUnknown \/ OwnerActs \/
     \A c \in tv.inv : tv.holds[c] = Foreign => c \in tv.inv']_vars

\* Without AllowEmpty, the deletion of owned artwork always leaves another
\* owned image on the TV.
LastPieceStays ==
  [][~AllowEmpty /\ pc = "apply" /\ cand.kind = "delete-owned" /\ tv.inv' # tv.inv
       => OwnerActs \/ LateUpload \/
          \E d \in Digests \ {cand.digest} : disk.bound[d] \in tv.inv']_vars

-----------------------------------------------------------------------------
(* Liveness.                                                               *)

\* Every desired picture is on the TV and bound, and nothing is in doubt.
Converged == disk.pending = None /\ disk.parked = None
             /\ \A d \in desired : disk.bound[d] \in tv.inv

\* Artwork waits because the TV shows an image that could be the parked upload.
AwaitsProof == disk.parked # None /\ tv.inv \ (disk.parked.before \cup BoundContent(disk)) # {}

\* Once disturbances stop and the TV keeps showing art, every desired picture
\* ends up on it and bound, whatever was interrupted before. The one thing the
\* manager waits for without end is an image that appeared around an upload
\* whose answer was lost.
Converges == <>[](tv.art) => <>[]Converged \/ <>[]AwaitsProof

\* A run ends: the command loop never replans forever.
RunEnds == pc # "idle" ~> pc = "idle"

\* Under the power-off policy a TV that shows art is turned off, also while
\* artwork commands fail or wait for an upload to be proven.
TurnsOff == PowerOffPolicy => (tv.art ~> ~tv.art)
=============================================================================
