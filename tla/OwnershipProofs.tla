---------------------------- MODULE OwnershipProofs ----------------------------
(***************************************************************************)
(* What the reconciler may say it owns, what it may remove, and that it    *)
(* never loses an image, for every value of the constants.                 *)
(*                                                                         *)
(* These invariants carry the argument. Claims: each content ID a record   *)
(* binds, or has from a receipt, is the manager's own image, if the TV     *)
(* still has it. SparesOthers: what was planned about a deletion is still  *)
(* so when it is sent. LInv: the record in memory and the one on disk are  *)
(* each a ledger of the TV. In a ledger each image the manager put there,  *)
(* and each upload that may yet land, is bound or journalled; what is      *)
(* bound is on the TV; and an upload in the journal was sent when no image *)
(* showed its picture. Both records have to be ledgers, since a failed or  *)
(* unknown write, or a restart, may leave the run with either of them; and *)
(* the rest of LInv is what the run knows of the TV at each of its steps.  *)
(* On a TV that overwrites, OnlyFoldingTakesOver says when a binding may   *)
(* name an image that another picture has taken.                           *)
(***************************************************************************)
EXTENDS ReconcileProofs

\* A content ID claimed for picture d: if the TV has the image, it is one the
\* manager put there, and on a TV that never overwrites it is that picture.
Mine(t, d, c) ==
  c \in t.inv => /\ t.holds[c] # Foreign
                 /\ "overwrites" \in Hazards \/ t.holds[c] = d

IsUpload(op) == op # None /\ op.cmd.kind = "upload"

\* The claims of a record: its bindings, and the receipts of its uploads.
ClaimsMine(st, t) ==
  /\ \A d \in Digests : Mine(t, d, st.bound[d])
  /\ IsUpload(st.pending) => Mine(t, st.pending.cmd.digest, st.pending.receipt)
  /\ IsUpload(st.parked) => Mine(t, st.parked.cmd.digest, st.parked.receipt)

AboutToSend == pc \in {"save-prepared", "apply"}

Claims == ClaimsMine(mem, tv) /\ ClaimsMine(disk, tv)

\* A deletion about to be sent names the image bound to its own picture, and
\* was planned with another owned image in sight; unknown artwork is removed by
\* policy only.
SparesOthers ==
  AboutToSend =>
    /\ cand.kind = "delete-owned" =>
         /\ mem.bound[cand.digest] = cand.content
         /\ AllowEmpty \/ \E d \in Digests \ {cand.digest} : mem.bound[d] \in obs.inv
    /\ cand.kind = "delete-unknown" => RemoveUnknown

-----------------------------------------------------------------------------
(* What each operator does to the parts of a record.                       *)

LEMMA TypedParts ==
  ASSUME NEW st \in States
  PROVE  /\ st.bound \in [Digests -> ContentIds \cup {None}]
         /\ st.pending \in Operations \cup {None}
         /\ st.parked \in Operations \cup {None}
         /\ st.capacity \in Capacities
  BY DEF States

\* An operation is of some command, and an upload names a picture.
LEMMA TypedOperation ==
  ASSUME NEW op \in Operations
  PROVE  /\ op # None /\ op.cmd \in Commands /\ op.receipt \in ContentIds \cup {None}
         /\ op.cmd.digest \in Digests \cup {None} /\ op.cmd.content \in ContentIds \cup {None}
         /\ op.before \subseteq ContentIds
  BY NoneIsNoOperation DEF Operations, Commands

LEMMA ResolvedParts ==
  ASSUME NEW st \in States, st.pending # None, NEW o \in Observations
  PROVE  LET op      == st.pending
             applied == op.phase = "applied" \/ (op.cmd.content # None /\ op.cmd.content \notin o.inv)
             new     == Resolved(st, o)
         IN /\ new.pending = None
            /\ new.parked = st.parked
            /\ ~applied => new.bound = st.bound
            /\ applied /\ op.cmd.kind = "upload" =>
                 new.bound = Rebound(st.bound, op.cmd.digest, op.receipt)
            /\ applied /\ op.cmd.kind = "delete-owned" =>
                 new.bound = [st.bound EXCEPT ![op.cmd.digest] = None]
            /\ op.cmd.kind \notin {"upload", "delete-owned"} => new.bound = st.bound
<1> DEFINE op      == st.pending
<1> DEFINE applied == op.phase = "applied" \/ (op.cmd.content # None /\ op.cmd.content \notin o.inv)
<1> DEFINE folded  == IF applied THEN FoldApplied(st, op, o) ELSE st
<1>1. op \in Operations
  BY DEF States
<1>2. Resolved(st, o) = [folded EXCEPT !.pending = None]
  BY DEF Resolved
<1>3. folded \in States /\ folded.parked = st.parked
  BY <1>1, FoldAppliedKeeps
<1>4. /\ Resolved(st, o).pending = None /\ Resolved(st, o).parked = st.parked
      /\ Resolved(st, o).bound = folded.bound
  <2> HIDE DEF folded
  <2> QED BY <1>2, <1>3 DEF States
<1>5. ~applied => folded = st
  OBVIOUS
<1>6. applied /\ op.cmd.kind = "upload" => folded.bound = Rebound(st.bound, op.cmd.digest, op.receipt)
  BY DEF FoldApplied, FoldUpload, States
<1>7. applied /\ op.cmd.kind = "delete-owned" => folded.bound = [st.bound EXCEPT ![op.cmd.digest] = None]
  BY DEF FoldApplied, Unbind, States
<1>8. op.cmd.kind \notin {"upload", "delete-owned"} => folded = st
  BY DEF FoldApplied
<1> HIDE DEF folded
<1> QED BY <1>4, <1>5, <1>6, <1>7, <1>8

LEMMA ParkedParts ==
  ASSUME NEW st \in States
  PROVE  /\ Parked(st).pending = None /\ Parked(st).parked = st.pending
         /\ Parked(st).bound = st.bound
  BY DEF Parked, States

LEMMA SettledParts ==
  ASSUME NEW st \in States, st.parked # None, NEW o \in Observations
  PROVE  LET op     == st.parked
             landed == op.receipt # None /\ op.receipt \in o.inv
             new    == Settled(st, o)
         IN /\ new.pending = st.pending
            /\ new.parked = None
            /\ new.bound = IF landed THEN Rebound(st.bound, op.cmd.digest, op.receipt) ELSE st.bound
<1> DEFINE op     == st.parked
<1> DEFINE landed == op.receipt # None /\ op.receipt \in o.inv
<1> DEFINE folded == IF landed THEN FoldUpload(st, op, o) ELSE st
<1>1. op \in Operations
  BY DEF States
<1>2. Settled(st, o) = [folded EXCEPT !.parked = None]
  BY DEF Settled
<1>3. folded \in States /\ folded.pending = st.pending
  BY <1>1, FoldUploadKeeps
<1>4. /\ Settled(st, o).pending = st.pending /\ Settled(st, o).parked = None
      /\ Settled(st, o).bound = folded.bound
  <2> HIDE DEF folded
  <2> QED BY <1>2, <1>3 DEF States
<1>5. folded.bound = IF landed THEN Rebound(st.bound, op.cmd.digest, op.receipt) ELSE st.bound
  BY DEF FoldUpload, States
<1> HIDE DEF folded
<1> QED BY <1>4, <1>5

LEMMA PlannedParts ==
  ASSUME NEW st \in States, NEW wanted, NEW inv, NEW late, NEW old
  PROVE  /\ Planned(wanted, st, inv, late, old).bound = st.bound
         /\ Planned(wanted, st, inv, late, old).pending = st.pending
         /\ Planned(wanted, st, inv, late, old).parked = st.parked
<1>1. /\ Probed(st, inv).bound = st.bound /\ Probed(st, inv).pending = st.pending
      /\ Probed(st, inv).parked = st.parked
  BY DEF Probed, States
<1> QED BY <1>1 DEF Planned

LEMMA PreparedParts ==
  ASSUME NEW st \in States, NEW cmd, NEW inv
  PROVE  /\ Prepared(st, cmd, inv).bound = st.bound
         /\ Prepared(st, cmd, inv).pending =
              [cmd |-> cmd, phase |-> "prepared", receipt |-> None, before |-> inv]
         /\ Prepared(st, cmd, inv).parked = st.parked
  BY DEF Prepared, States

-----------------------------------------------------------------------------
(* The manager's images stay the manager's.                                *)

\* A record that claims no more than another, or what is known to be its own,
\* claims nothing that is not the manager's.
LEMMA ClaimsFrom ==
  ASSUME NEW t \in TVs, NEW st, NEW new, ClaimsMine(st, t),
         \A d \in Digests : new.bound[d] \in {st.bound[d], None} \/ Mine(t, d, new.bound[d]),
         new.pending = st.pending \/ (IsUpload(new.pending) =>
           Mine(t, new.pending.cmd.digest, new.pending.receipt)),
         new.parked = st.parked \/ new.parked = st.pending \/ new.parked = None
  PROVE  ClaimsMine(new, t)
<1>1. None \notin t.inv
  BY NoneIsDistinct DEF TVs
<1> QED BY <1>1 DEF ClaimsMine, Mine, IsUpload

\* What is mentioned by a record is not given to another image, so its claims
\* hold of the changed TV.
LEMMA ClaimsElsewhere ==
  ASSUME NEW st \in States, NEW t \in TVs, NEW u \in TVs, ClaimsMine(st, t),
         \A c \in u.inv \cap Mentioned(st) :
           \/ c \in t.inv /\ u.holds[c] = t.holds[c]
           \/ "overwrites" \in Hazards /\ u.holds[c] # Foreign
  PROVE  ClaimsMine(st, u)
<1>1. None \notin u.inv
  BY NoneIsDistinct DEF TVs
<1>2. ASSUME NEW d, NEW c \in Mentioned(st), Mine(t, d, c)
      PROVE  Mine(u, d, c)
  BY <1>2 DEF Mine
<1>3. \A d \in Digests : st.bound[d] # None => st.bound[d] \in Mentioned(st)
  BY DEF Mentioned, BoundContent
<1>4. \A op \in {st.pending, st.parked} : op # None => op.receipt \in Mentioned(st)
  BY DEF Mentioned
<1>5. \A d \in Digests : Mine(u, d, st.bound[d])
  BY <1>1, <1>2, <1>3 DEF ClaimsMine, Mine
<1>6. \A op \in {st.pending, st.parked} : IsUpload(op) => Mine(u, op.cmd.digest, op.receipt)
  BY <1>2, <1>4 DEF ClaimsMine, IsUpload
<1> QED BY <1>5, <1>6 DEF ClaimsMine

LEMMA ReboundClaims ==
  ASSUME NEW bound, NEW digest, NEW content, NEW d \in Digests
  PROVE  \/ Rebound(bound, digest, content)[d] \in {bound[d], None}
         \/ d = digest /\ Rebound(bound, digest, content)[d] = content
  BY DEF Rebound

LEMMA ResolvedClaims ==
  ASSUME NEW st \in States, st.pending # None, NEW o \in Observations, NEW t \in TVs, ClaimsMine(st, t)
  PROVE  ClaimsMine(Resolved(st, o), t)
<1> DEFINE op == st.pending
<1> DEFINE new == Resolved(st, o)
<1>1. new.pending = None /\ new.parked = st.parked
  BY ResolvedParts
<1>2. \/ new.bound = st.bound
      \/ IsUpload(op) /\ new.bound = Rebound(st.bound, op.cmd.digest, op.receipt)
      \/ new.bound = [st.bound EXCEPT ![op.cmd.digest] = None]
  BY ResolvedParts DEF IsUpload
<1>3. IsUpload(op) => Mine(t, op.cmd.digest, op.receipt)
  BY DEF ClaimsMine
<1>4. ASSUME NEW d \in Digests
      PROVE  new.bound[d] \in {st.bound[d], None} \/ Mine(t, d, new.bound[d])
  <2> HIDE DEF new, op
  <2>1. CASE new.bound = [st.bound EXCEPT ![op.cmd.digest] = None]
    BY <2>1, TypedParts
  <2>2. CASE IsUpload(op) /\ new.bound = Rebound(st.bound, op.cmd.digest, op.receipt)
    BY <2>2, <1>3, ReboundClaims
  <2> QED BY <1>2, <2>1, <2>2
<1>5. ~IsUpload(new.pending)
  BY <1>1 DEF IsUpload
<1> HIDE DEF new, op
<1> QED BY <1>1, <1>4, <1>5, ClaimsFrom DEF new

LEMMA SettledClaims ==
  ASSUME NEW st \in States, st.parked # None, NEW o \in Observations, NEW t \in TVs,
         ClaimsMine(st, t), ValidState(st)
  PROVE  ClaimsMine(Settled(st, o), t)
<1> DEFINE op == st.parked
<1> DEFINE new == Settled(st, o)
<1>1. new.pending = st.pending /\ new.parked = None
  BY SettledParts
<1>2. \/ new.bound = st.bound
      \/ new.bound = Rebound(st.bound, op.cmd.digest, op.receipt)
  BY SettledParts
<1>3. Mine(t, op.cmd.digest, op.receipt)
  BY DEF ClaimsMine, IsUpload, ValidState
<1>4. ASSUME NEW d \in Digests
      PROVE  new.bound[d] \in {st.bound[d], None} \/ Mine(t, d, new.bound[d])
  <2> HIDE DEF new, op
  <2> QED BY <1>2, <1>3, ReboundClaims
<1> HIDE DEF new, op
<1> QED BY <1>1, <1>4, ClaimsFrom DEF new

\* The steps of a run at which the TV does nothing.
LEMMA MemoryClaims ==
  ASSUME IInv, ClaimsMine(mem, tv), ClaimsMine(disk, tv), RunStep, ~EndRun, pc # "apply"
  PROVE  ClaimsMine(mem', tv)
<1>1. /\ mem \in States /\ disk \in States /\ obs \in Observations /\ desired \in SUBSET Digests
      /\ tv \in TVs /\ ValidState(mem)
  BY DEF IInv, TypeOK, ValidRecords
<1>2. CASE mem'.bound = mem.bound /\ mem'.pending = mem.pending /\ mem'.parked = mem.parked
  BY <1>1, <1>2 DEF ClaimsMine
<1>3. CASE mem.pending # None /\ mem' = Resolved(mem, obs)
  BY <1>1, <1>3, ResolvedClaims
<1>4. CASE mem' = Parked(mem)
  <2>1. mem'.pending = None /\ mem'.parked = mem.pending /\ mem'.bound = mem.bound
    BY <1>1, <1>4, ParkedParts
  <2> QED BY <1>1, <2>1 DEF ClaimsMine, IsUpload
<1>5. CASE mem.parked # None /\ mem' = Settled(mem, obs)
  BY <1>1, <1>5, SettledClaims
<1>6. CASE Execute \/ FallbackPowerOff
  <2>1. PICK st \in States : /\ st.bound = mem.bound /\ st.parked = mem.parked
                             /\ \E cmd : mem' = Prepared(st, cmd, tv.inv)
    <3>1. CASE Execute
      <4> DEFINE st == Planned(desired, mem, tv.inv, due, stale)
      <4>1. st \in States /\ st.bound = mem.bound /\ st.parked = mem.parked
        BY <1>1, PlannedKeeps, PlannedParts DEF TVs
      <4>2. mem' = Prepared(st, cand, tv.inv)
        BY <3>1 DEF Execute, Store
      <4> QED BY <4>1, <4>2
    <3>2. CASE FallbackPowerOff
      BY <1>1, <3>2 DEF FallbackPowerOff, Store
    <3> QED BY <1>6, <3>1, <3>2
  <2>2. /\ mem'.bound = mem.bound /\ mem'.parked = mem.parked
        /\ mem'.pending.receipt = None
    <3>1. PICK cmd : mem' = Prepared(st, cmd, tv.inv)
      BY <2>1
    <3>2. Prepared(st, cmd, tv.inv).bound = st.bound /\ Prepared(st, cmd, tv.inv).parked = st.parked
      BY DEF Prepared, States
    <3>3. mem'.pending = [cmd |-> cmd, phase |-> "prepared", receipt |-> None, before |-> tv.inv]
      BY <3>1, PreparedParts
    <3> QED BY <2>1, <3>1, <3>2, <3>3
  <2>3. None \notin tv.inv
    BY <1>1, NoneIsDistinct DEF TVs
  <2> QED BY <2>2, <2>3 DEF ClaimsMine, Mine
<1>7. CASE mem'.pending = mem.pending /\ mem'.parked = mem.parked
           /\ \A d \in Digests : mem'.bound[d] \in {mem.bound[d], None}
  BY <1>1, <1>7, ClaimsFrom
<1>8. CASE mem' = disk
  BY <1>8
<1>9. CASE Recover
  BY <1>9, <1>2, <1>3, <1>4 DEF Recover, Store
<1>10. CASE Settle
  BY <1>10, <1>2, <1>5 DEF Settle, Settles, Store
<1>11. CASE Plan \/ Replan \/ Reconsider
  <2>1. PICK inv : mem' = mem \/ mem' = Planned(desired, mem, inv, due, stale)
    BY <1>11 DEF Plan, Replan, AdoptPlan, Reconsider, Store
  <2>2. mem'.bound = mem.bound /\ mem'.pending = mem.pending /\ mem'.parked = mem.parked
    BY <1>1, <2>1, PlannedParts
  <2> QED BY <2>2, <1>2
<1>12. CASE Finish
  <2>1. /\ mem'.pending = mem.pending /\ mem'.parked = mem.parked
        /\ \A d \in Digests : mem'.bound[d] \in {mem.bound[d], None}
    BY <1>1, <1>12 DEF Finish, Store, States
  <2> QED BY <2>1, <1>7
<1>13. CASE SavedApplied
  <2>1. mem.pending # None /\ mem' = Resolved(mem, obs)
    BY <1>13 DEF SavedApplied, Store, Written, IInv, InFlight
  <2> QED BY <2>1, <1>3
<1>14. CASE SaveFails
  BY <1>14, <1>2, <1>8 DEF SaveFails, Store
<1>15. CASE \/ Begin \/ ObserveFails \/ SavedRecovery \/ SavedSettled \/ SavedPrepared
            \/ SavedUnknown \/ SavedRejected \/ SavedResolved \/ FallBack
  <2>1. UNCHANGED mem
    BY <1>15
    DEF Begin, ObserveFails, SavedRecovery, SavedSettled, SavedPrepared,
        SavedUnknown, SavedRejected, SavedResolved, FallBack
  <2> QED BY <2>1, <1>2
<1>16. ~(\/ SkipIneligible \/ SavedCancelled \/ SavedFinal \/ SaveOutcomeUnknown \/ GiveUp
         \/ FallbackNotNeeded)
  BY DEF SkipIneligible, SavedCancelled, SavedFinal, SaveOutcomeUnknown, GiveUp, FallbackNotNeeded
<1>17. ~(\/ Cancelled \/ SlowPacing \/ NotAuthorized \/ LinkDown \/ Refused \/ Unlisted \/ StorageFull
         \/ Applied \/ ReplyLost \/ AnsweredForAnother)
  BY DEF Cancelled, SlowPacing, NotAuthorized, LinkDown, Refused, Unlisted, StorageFull, Applied,
         ReplyLost, AnsweredForAnother
<1> QED BY <1>6, <1>9, <1>10, <1>11, <1>12, <1>13, <1>14, <1>15, <1>16, <1>17 DEF RunStep

\* The record that goes with an answer, or with none.
LEMMA AnsweredParts ==
  ASSUME IInv, pc = "apply", NEW content \in ContentIds \cup {None},
         RecordApplied(content) \/ RecordUnknown(content)
  PROVE  /\ mem'.bound = mem.bound /\ mem'.parked = mem.parked
         /\ mem'.pending # None /\ mem'.pending.cmd = cand
         /\ mem'.pending.receipt = content /\ mem'.pending.before = mem.pending.before
         /\ mem'.pending.phase = IF RecordApplied(content) THEN "applied" ELSE "outcome-unknown"
<1>1. mem \in States /\ mem.pending \in Operations /\ mem.pending.cmd = cand
  BY AtApply
<1>2. RecordApplied(content) => pc' = "save-applied"
  BY DEF RecordApplied, Goto
<1>3. RecordUnknown(content) => pc' = "save-unknown"
  BY DEF RecordUnknown, Goto
<1>4. mem'.pending =
        [mem.pending EXCEPT !.phase = IF RecordApplied(content) THEN "applied" ELSE "outcome-unknown",
                            !.receipt = content]
  <2>1. CASE RecordApplied(content)
    BY <1>1, <2>1 DEF RecordApplied, States, Operations
  <2>2. CASE RecordUnknown(content)
    BY <1>1, <1>2, <1>3, <2>2 DEF RecordUnknown, States, Operations
  <2> QED BY <2>1, <2>2
<1>5. mem'.bound = mem.bound /\ mem'.parked = mem.parked
  BY <1>1 DEF RecordApplied, RecordUnknown, States
<1>6. /\ mem'.pending.cmd = cand /\ mem'.pending.before = mem.pending.before
      /\ mem'.pending.receipt = content
      /\ mem'.pending.phase = IF RecordApplied(content) THEN "applied" ELSE "outcome-unknown"
  BY <1>1, <1>4 DEF Operations
<1>7. mem'.pending # None
  <2>1. mem'.pending \in Operations
    BY <1>1, <1>4 DEF Operations, Phases
  <2> QED BY <2>1, NoneIsNoOperation
<1> QED BY <1>5, <1>6, <1>7

\* What the TV holds after a command.
LEMMA EffectParts ==
  ASSUME IInv, pc = "apply", NEW content \in AnswerIds
  PROVE  LET u == Effect(cand, content)
         IN /\ u \in TVs
            /\ u.late = tv.late
            /\ cand.kind = "upload" =>
                 /\ content \in ContentIds /\ cand.digest \in Digests
                 /\ u.inv = tv.inv \cup {content}
                 /\ u.holds = [tv.holds EXCEPT ![content] = cand.digest]
            /\ cand.kind \in {"delete-owned", "delete-unknown"} =>
                 /\ cand.content \in ContentIds
                 /\ u.inv = tv.inv \ {cand.content}
                 /\ u.holds = [tv.holds EXCEPT ![cand.content] = Foreign]
            /\ cand.kind \in {"setting", "power-off"} => u.inv = tv.inv /\ u.holds = tv.holds
<1> DEFINE u == Effect(cand, content)
<1>1. cand \in Commands /\ ValidIntent(cand) /\ tv \in TVs
  BY AtApply DEF IInv, TypeOK
<1>2. content \in ContentIds \cup {None} /\ (cand.kind = "upload" => content \in ContentIds)
  BY AnswersAreIds
<1>3. u \in TVs
  BY <1>2, EffectType
<1>4. CASE cand.kind = "upload"
  BY <1>1, <1>2, <1>3, <1>4 DEF Effect, TVs, Commands, ValidIntent
<1>5. CASE cand.kind \in {"delete-owned", "delete-unknown"}
  BY <1>1, <1>2, <1>3, <1>5 DEF Effect, TVs, Commands, ValidIntent
<1>6. CASE cand.kind \in {"setting", "power-off"}
  BY <1>1, <1>2, <1>3, <1>6 DEF Effect, TVs
<1> QED BY <1>1, <1>3, <1>4, <1>5, <1>6 DEF Commands, ArtworkKinds

\* Claims depend on the images only.
LEMMA ClaimsSameImages ==
  ASSUME NEW st, NEW t, NEW u, ClaimsMine(st, t), u.inv = t.inv, u.holds = t.holds
  PROVE  ClaimsMine(st, u)
  BY DEF ClaimsMine, Mine

\* A command takes over no image that either record claims, unless the TV
\* overwrites.
LEMMA EffectClaims ==
  ASSUME IInv, pc = "apply", NEW content \in AnswerIds, NEW st \in {mem, disk}, ClaimsMine(st, tv)
  PROVE  /\ ClaimsMine(st, Effect(cand, content))
         /\ cand.kind = "upload" => Mine(Effect(cand, content), cand.digest, content)
<1> DEFINE u == Effect(cand, content)
<1>1. tv \in TVs /\ u \in TVs /\ st \in States
  BY EffectParts DEF IInv, TypeOK
<1>2. CASE cand.kind = "upload"
  <2>1. /\ content \in ContentIds /\ cand.digest \in Digests
        /\ u.inv = tv.inv \cup {content}
        /\ u.holds = [tv.holds EXCEPT ![content] = cand.digest]
    BY <1>2, EffectParts
  <2>2. content \in Mentioned(st) => "overwrites" \in Hazards
    BY <1>2 DEF AnswerIds, UploadIds, FreshIds
  <2>3. u.holds[content] = cand.digest /\ cand.digest # Foreign
    BY <1>1, <2>1, ForeignIsDistinct DEF TVs
  <2>4. \A c \in u.inv \cap Mentioned(st) :
          \/ c \in tv.inv /\ u.holds[c] = tv.holds[c]
          \/ "overwrites" \in Hazards /\ u.holds[c] # Foreign
    <3> HIDE DEF u
    <3> QED BY <1>1, <2>1, <2>2, <2>3 DEF TVs
  <2> HIDE DEF u
  <2>5. ClaimsMine(st, u)
    BY <1>1, <2>4, ClaimsElsewhere
  <2>6. Mine(u, cand.digest, content)
    BY <2>3 DEF Mine
  <2> QED BY <2>5, <2>6 DEF u
<1>3. CASE cand.kind \in {"delete-owned", "delete-unknown"}
  <2>1. /\ u.inv = tv.inv \ {cand.content}
        /\ u.holds = [tv.holds EXCEPT ![cand.content] = Foreign]
    BY <1>3, EffectParts
  <2>2. \A c \in u.inv \cap Mentioned(st) : c \in tv.inv /\ u.holds[c] = tv.holds[c]
    <3> HIDE DEF u
    <3> QED BY <1>1, <2>1 DEF TVs
  <2> HIDE DEF u
  <2>3. ClaimsMine(st, u)
    BY <1>1, <2>2, ClaimsElsewhere
  <2> QED BY <1>3, <2>3 DEF u
<1>4. CASE cand.kind \in {"setting", "power-off"}
  <2>1. u.inv = tv.inv /\ u.holds = tv.holds
    BY <1>4, EffectParts
  <2> HIDE DEF u
  <2>2. ClaimsMine(st, u)
    BY <2>1, ClaimsSameImages
  <2> QED BY <1>4, <2>2 DEF u
<1>5. cand.kind \in {"upload", "delete-owned", "delete-unknown", "setting", "power-off"}
  BY AtApply DEF Commands, ArtworkKinds
<1> QED BY <1>2, <1>3, <1>4, <1>5

\* A command that is answered, or not.
LEMMA ApplyClaims ==
  ASSUME IInv, ClaimsMine(mem, tv), ClaimsMine(disk, tv), RunStep, pc = "apply",
         "uncorrelated" \notin Hazards
  PROVE  ClaimsMine(mem', tv') /\ ClaimsMine(disk', tv')
<1>1. mem \in States /\ disk \in States /\ tv \in TVs
  BY DEF IInv, TypeOK
<1>2. CASE Cancelled \/ NotAuthorized \/ LinkDown \/ Refused \/ Unlisted \/ StorageFull
  <2>1. mem'.pending = None /\ mem'.bound = mem.bound /\ mem'.parked = mem.parked /\ disk' = disk
    BY <1>1, <1>2
    DEF Cancelled, Store, NotAuthorized, LinkDown, Refused, Unlisted, StorageFull, Reject, States
  <2>2. tv'.inv = tv.inv /\ tv'.holds = tv.holds
    BY <1>1, <1>2 DEF Cancelled, NotAuthorized, LinkDown, Refused, Unlisted, StorageFull, TVs
  <2>3. ClaimsMine(mem, tv') /\ ClaimsMine(disk, tv')
    BY <2>2, ClaimsSameImages
  <2> QED BY <2>1, <2>3 DEF ClaimsMine, IsUpload
<1>3. CASE SlowPacing
  BY <1>3 DEF SlowPacing
<1>4. ASSUME NEW content \in AnswerIds, tv' = Effect(cand, content), disk' = disk,
             NEW known \in {content, None}, RecordApplied(known) \/ RecordUnknown(known)
      PROVE  ClaimsMine(mem', tv') /\ ClaimsMine(disk', tv')
  <2>1. /\ ClaimsMine(mem, tv') /\ ClaimsMine(disk, tv')
        /\ cand.kind = "upload" => Mine(tv', cand.digest, content)
    BY <1>4, EffectClaims
  <2>2. /\ mem'.bound = mem.bound /\ mem'.parked = mem.parked
        /\ mem'.pending.cmd = cand /\ mem'.pending.receipt = known
    BY <1>4, AnswersAreIds, AnsweredParts
  <2>3. None \notin tv'.inv
    BY <1>4, EffectParts, NoneIsDistinct DEF TVs
  <2> QED BY <1>4, <2>1, <2>2, <2>3 DEF ClaimsMine, IsUpload, Mine
<1>5. ASSUME tv'.inv = tv.inv, tv'.holds = tv.holds, disk' = disk, RecordUnknown(None)
      PROVE  ClaimsMine(mem', tv') /\ ClaimsMine(disk', tv')
  <2>1. ClaimsMine(mem, tv') /\ ClaimsMine(disk, tv')
    BY <1>5, ClaimsSameImages
  <2>2. /\ mem'.bound = mem.bound /\ mem'.parked = mem.parked
        /\ mem'.pending.cmd = cand /\ mem'.pending.receipt = None
    BY <1>5, AnsweredParts
  <2>3. None \notin tv'.inv
    BY <1>1, <1>5, NoneIsDistinct DEF TVs
  <2> QED BY <1>5, <2>1, <2>2, <2>3 DEF ClaimsMine, IsUpload, Mine
<1>6. CASE Applied
  <2>1. PICK content \in AnswerIds : tv' = Effect(cand, content) /\ RecordApplied(content)
    BY <1>6 DEF Applied
  <2>2. disk' = disk
    BY <2>1 DEF RecordApplied
  <2> QED BY <1>4, <2>1, <2>2
<1>7. CASE ReplyLost
  <2>1. CASE \E content \in AnswerIds : /\ tv' = Effect(cand, content)
                                        /\ \E known \in {content, None} : RecordUnknown(known)
    <3>1. PICK content \in AnswerIds : /\ tv' = Effect(cand, content)
                                       /\ \E known \in {content, None} : RecordUnknown(known)
      BY <2>1
    <3>2. PICK known \in {content, None} : RecordUnknown(known)
      BY <3>1
    <3>3. disk' = disk
      BY <3>2 DEF RecordUnknown
    <3> QED BY <1>4, <3>1, <3>2, <3>3
  <2>2. CASE RecordUnknown(None) /\ (tv' = tv \/ tv' = [tv EXCEPT !.late = cand.digest])
    <3>1. tv'.inv = tv.inv /\ tv'.holds = tv.holds
      BY <1>1, <2>2 DEF TVs
    <3> QED BY <1>5, <2>2, <3>1 DEF RecordUnknown
  <2> QED BY <1>7, <2>1, <2>2 DEF ReplyLost
<1>8. ~AnsweredForAnother
  BY DEF AnsweredForAnother, Disturbed
<1>9. ~(\/ Begin \/ Recover \/ Settle
        \/ SkipIneligible \/ Plan \/ Replan \/ Execute \/ Reconsider \/ ObserveFails \/ Finish
        \/ SavedRecovery \/ SavedSettled \/ SavedPrepared \/ SavedCancelled \/ SavedUnknown
        \/ SavedRejected \/ SavedApplied \/ SavedResolved \/ SavedFinal
        \/ SaveFails \/ SaveOutcomeUnknown
        \/ GiveUp \/ FallBack \/ FallbackPowerOff \/ FallbackNotNeeded)
  BY DEF Begin, Recover, Settle, SkipIneligible, Plan, Replan, Execute, Reconsider, ObserveFails,
         Finish, Written, SavedRecovery, SavedSettled, SavedPrepared, SavedCancelled, SavedUnknown,
         SavedRejected, SavedApplied, SavedResolved, SavedFinal, SaveFails, SaveOutcomeUnknown,
         SaveSteps, GiveUp, FallBack, FallbackPowerOff, FallbackNotNeeded
<1> QED BY <1>2, <1>3, <1>6, <1>7, <1>8, <1>9 DEF RunStep

-----------------------------------------------------------------------------
(* What the planner plans.                                                 *)

\* A set of two has another element.
LEMMA TwoAreMore ==
  ASSUME NEW S \in SUBSET Digests, Cardinality(S) >= 2, NEW e
  PROVE  \E d \in S : d # e
<1> SUFFICES ASSUME \A d \in S : d = e PROVE FALSE
  OBVIOUS
<1>1. CASE S = {}
  BY <1>1, FS_EmptySet
<1>2. CASE S # {}
  <2>1. S = {e}
    BY <1>2
  <2>2. Cardinality({e}) = 1
    BY FS_Singleton
  <2> QED BY <2>1, <2>2
<1> QED BY <1>1, <1>2

\* A planned deletion of owned artwork names its image, which is there, and
\* leaves another one; unknown artwork is unbound; an upload is of a picture
\* the TV does not show. All of them wait for a parked upload.
LEMMA PlannedArtwork ==
  ASSUME NEW st \in States, NEW wanted \in SUBSET Digests, NEW o \in Observations, NEW late,
         NEW cmd \in Heads(wanted, st, o, late)
  PROVE  /\ cmd.kind = "delete-owned" =>
              /\ cmd.digest \in Digests /\ st.bound[cmd.digest] = cmd.content
              /\ cmd.content \in o.inv
              /\ AllowEmpty \/ \E d \in Digests \ {cmd.digest} : st.bound[d] \in o.inv
         /\ cmd.kind = "delete-unknown" => RemoveUnknown /\ cmd.content \in o.inv \ BoundContent(st)
         /\ cmd.kind = "upload" => cmd.digest \in Digests /\ st.bound[cmd.digest] \notin o.inv
         /\ cmd.kind \in ArtworkKinds => st.parked = None
<1> DEFINE retire == Retirements(wanted, st, o.inv)
<1> DEFINE fill   == Fills(wanted, st, o.inv, late)
<1> DEFINE evict  == Evictions(wanted, st, o.inv, late)
<1>1. /\ cmd.kind \in ArtworkKinds => st.parked = None
      /\ cmd \in retire \cup fill \cup evict \cup Removals(st, o.inv) \cup {Configure, PowerOff}
  <2>1. ArtworkHeads(wanted, st, o.inv, late) \subseteq retire \cup fill \cup evict \cup Removals(st, o.inv)
    BY DEF ArtworkHeads
  <2>2. Configure.kind = "setting" /\ PowerOff.kind = "power-off"
    BY DEF Configure, PowerOff
  <2> HIDE DEF retire, fill, evict
  <2> QED BY <2>1, <2>2 DEF Heads, SettingHeads, PowerHeads, ArtworkKinds
<1>2. ASSUME cmd \in retire
      PROVE  /\ cmd.kind = "delete-owned"
             /\ cmd.digest \in Digests /\ st.bound[cmd.digest] = cmd.content /\ cmd.content \in o.inv
             /\ AllowEmpty \/ \E d \in Digests \ {cmd.digest} : st.bound[d] \in o.inv
  <2>1. PICK d \in Obsolete(wanted, st, o.inv) :
          /\ cmd = DeleteOwned(d, st.bound[d])
          /\ \/ AllowEmpty
             \/ Owned(wanted, st, o.inv) # {}
             \/ Obsolete(wanted, st, o.inv) # {d}
    BY <1>2 DEF Retirements
  <2>2. cmd.kind = "delete-owned" /\ cmd.digest = d /\ cmd.content = st.bound[d]
    BY <2>1 DEF DeleteOwned
  <2>3. AllowEmpty \/ \E e \in Digests \ {d} : st.bound[e] \in o.inv
    BY <2>1 DEF Obsolete, Owned
  <2> QED BY <2>1, <2>2, <2>3 DEF Obsolete
<1>3. ASSUME cmd \in evict
      PROVE  /\ cmd.kind = "delete-owned"
             /\ cmd.digest \in Digests /\ st.bound[cmd.digest] = cmd.content /\ cmd.content \in o.inv
             /\ AllowEmpty \/ \E d \in Digests \ {cmd.digest} : st.bound[d] \in o.inv
  <2>1. PICK d \in Owned(wanted, st, o.inv) :
          cmd = DeleteOwned(d, st.bound[d]) /\ RotationActive(wanted, st, o.inv)
    BY <1>3 DEF Evictions
  <2>2. cmd.kind = "delete-owned" /\ cmd.digest = d /\ cmd.content = st.bound[d]
    BY <2>1 DEF DeleteOwned
  <2>3. AllowEmpty \/ \E e \in Digests \ {d} : st.bound[e] \in o.inv
    <3> SUFFICES ASSUME ~AllowEmpty PROVE \E e \in Digests \ {d} : st.bound[e] \in o.inv
      OBVIOUS
    <3>1. Cardinality(Owned(wanted, st, o.inv)) >= 2
      BY <2>1 DEF RotationActive
    <3>2. Owned(wanted, st, o.inv) \in SUBSET Digests
      BY DEF Owned
    <3>3. \E e \in Owned(wanted, st, o.inv) : e # d
      BY <3>1, <3>2, TwoAreMore
    <3> QED BY <3>3 DEF Owned
  <2> QED BY <2>1, <2>2, <2>3 DEF Owned
<1>4. ASSUME cmd \in fill
      PROVE  cmd.kind = "upload" /\ cmd.digest \in Digests /\ st.bound[cmd.digest] \notin o.inv
  <2>1. PICK d \in FirstWaiting(wanted, st, o.inv, late) : cmd = Upload(d)
    BY <1>4 DEF Fills
  <2>2. d \in Waiting(wanted, st, o.inv)
    BY <2>1 DEF FirstWaiting
  <2> QED BY <2>1, <2>2 DEF Upload, Waiting, Owned
<1>5. ASSUME cmd \in Removals(st, o.inv)
      PROVE  cmd.kind = "delete-unknown" /\ RemoveUnknown /\ cmd.content \in o.inv \ BoundContent(st)
  BY <1>5 DEF Removals, DeleteUnknown
<1>6. ASSUME cmd \in {Configure, PowerOff}
      PROVE  cmd.kind \in {"setting", "power-off"}
  BY <1>6 DEF Configure, PowerOff
<1> HIDE DEF retire, fill, evict
<1> QED BY <1>1, <1>2, <1>3, <1>4, <1>5, <1>6

\* What is planned when a command is executed.
LEMMA ExecutePlans ==
  ASSUME IInv, Execute
  PROVE  /\ cand.kind = "delete-owned" =>
              /\ cand.digest \in Digests /\ mem.bound[cand.digest] = cand.content
              /\ cand.content \in tv.inv
              /\ AllowEmpty \/ \E d \in Digests \ {cand.digest} : mem.bound[d] \in tv.inv
         /\ cand.kind = "delete-unknown" => RemoveUnknown /\ cand.content \in tv.inv \ BoundContent(mem)
         /\ cand.kind = "upload" => cand.digest \in Digests /\ mem.bound[cand.digest] \notin tv.inv
         /\ cand.kind \in ArtworkKinds => mem.parked = None
         /\ mem'.bound = mem.bound /\ mem'.parked = mem.parked
         /\ mem'.pending = [cmd |-> cand, phase |-> "prepared", receipt |-> None, before |-> tv.inv]
         /\ obs' = Look /\ obs'.inv = tv.inv
<1> DEFINE st == Planned(desired, mem, tv.inv, due, stale)
<1>1. /\ mem \in States /\ ValidState(mem) /\ Look \in Observations
      /\ tv.inv \in SUBSET ContentIds /\ desired \in SUBSET Digests
  BY LookType DEF IInv, TypeOK, TVs, ValidRecords
<1>2. st \in States
  BY <1>1, PlannedKeeps
<1>3. st.bound = mem.bound /\ st.parked = mem.parked
  BY <1>1, PlannedParts
<1>4. cand \in Heads(desired, st, Look, due) /\ mem' = Prepared(st, cand, tv.inv) /\ obs' = Look
  BY DEF Execute, Store
<1>5. Look.inv = tv.inv
  BY DEF Execute, Look
<1>6. /\ mem'.bound = st.bound /\ mem'.parked = st.parked
      /\ mem'.pending = [cmd |-> cand, phase |-> "prepared", receipt |-> None, before |-> tv.inv]
  <2> HIDE DEF st
  <2> QED BY <1>2, <1>4 DEF Prepared, States
<1>7. BoundContent(st) = BoundContent(mem)
  BY <1>3 DEF BoundContent
<1> HIDE DEF st
<1> QED BY <1>1, <1>2, <1>3, <1>4, <1>5, <1>6, <1>7, PlannedArtwork

\* What sends a command, and what it does before.
LEMMA SendingSteps ==
  ASSUME [Next]_vars, AboutToSend'
  PROVE  \/ Execute
         \/ FallbackPowerOff /\ cand' = PowerOff
         \/ AboutToSend /\ UNCHANGED <<mem, cand, obs>>
<1>1. CASE RunStep
  BY <1>1
  DEF RunStep, AboutToSend, Begin, Recover, Settle, SkipIneligible, Plan, Replan, AdoptPlan,
      Reconsider, ObserveFails, Finish, Written, SavedRecovery, SavedSettled, SavedPrepared,
      SavedCancelled, SavedUnknown, SavedRejected, SavedApplied, SavedResolved, SavedFinal,
      SaveFails, SaveOutcomeUnknown, Cancelled, SlowPacing, NotAuthorized, LinkDown, Reject,
      Refused, Unlisted, StorageFull, Applied, RecordApplied, ReplyLost, RecordUnknown,
      AnsweredForAnother, GiveUp, FallBack, FallbackPowerOff, FallbackNotNeeded, EndRun, Goto, Store,
      runVars, planVars
<1>2. CASE Crash
  BY <1>2 DEF Crash, EndRun, AboutToSend
<1>3. CASE CollectionCommits \/ OwnerActs \/ LateUpload \/ SettleTimePasses \/ UNCHANGED vars
  BY <1>3 DEF CollectionCommits, OwnerActs, LateUpload, SettleTimePasses, vars, runVars, planVars, AboutToSend
<1> QED BY <1>1, <1>2, <1>3 DEF Next

LEMMA NextSparesOthers ==
  ASSUME IInv, SparesOthers, [Next]_vars
  PROVE  SparesOthers'
<1> SUFFICES ASSUME AboutToSend' PROVE SparesOthers'
  BY DEF SparesOthers
<1>1. CASE Execute
  <2>1. cand' = cand
    BY <1>1 DEF Execute
  <2> QED BY <1>1, <2>1, ExecutePlans DEF SparesOthers
<1>2. CASE cand' = PowerOff
  BY <1>2 DEF SparesOthers, PowerOff
<1>3. CASE AboutToSend /\ UNCHANGED <<mem, cand, obs>>
  BY <1>3 DEF SparesOthers
<1> QED BY <1>1, <1>2, <1>3, SendingSteps

-----------------------------------------------------------------------------
(* The steps together.                                                     *)

LEMMA TvWaits ==
  ASSUME RunStep, pc # "apply"
  PROVE  tv' = tv
  BY DEF RunStep, Begin, Recover, Settle, SkipIneligible, Plan, Replan, Execute, Reconsider,
         ObserveFails, Finish, Written, SavedRecovery, SavedSettled, SavedPrepared,
         SavedCancelled, SavedUnknown, SavedRejected, SavedApplied, SavedResolved, SavedFinal,
         SaveFails, SaveOutcomeUnknown, Cancelled, SlowPacing, NotAuthorized, LinkDown,
         Refused, Unlisted, StorageFull, Applied, ReplyLost, AnsweredForAnother, GiveUp,
         FallBack, FallbackPowerOff, FallbackNotNeeded, outside

\* The owner and a late upload give no mentioned content ID to an image.
LEMMA OutsideSpares ==
  ASSUME IInv, OwnerActs \/ LateUpload, NEW st \in {mem, disk}
  PROVE  \A c \in tv'.inv \cap Mentioned(st) : c \in tv.inv /\ tv'.holds[c] = tv.holds[c]
<1>1. tv \in TVs
  BY DEF IInv, TypeOK
<1>2. ASSUME NEW c \in FreshIds, NEW picture,
             tv'.inv = tv.inv \cup {c}, tv'.holds = [tv.holds EXCEPT ![c] = picture]
      PROVE  \A b \in tv'.inv \cap Mentioned(st) : b \in tv.inv /\ tv'.holds[b] = tv.holds[b]
  BY <1>1, <1>2 DEF FreshIds, TVs
<1>3. ASSUME NEW c \in tv.inv, tv'.inv = tv.inv \ {c}, tv'.holds = [tv.holds EXCEPT ![c] = Foreign]
      PROVE  \A b \in tv'.inv : b \in tv.inv /\ tv'.holds[b] = tv.holds[b]
  BY <1>1, <1>3 DEF TVs
<1>4. CASE tv'.inv = tv.inv /\ tv'.holds = tv.holds
  BY <1>4
<1>5. CASE \E c \in FreshIds, picture \in {Foreign, tv.late} :
             tv'.inv = tv.inv \cup {c} /\ tv'.holds = [tv.holds EXCEPT ![c] = picture]
  BY <1>2, <1>5
<1>6. CASE \E c \in tv.inv : tv'.inv = tv.inv \ {c} /\ tv'.holds = [tv.holds EXCEPT ![c] = Foreign]
  BY <1>3, <1>6
<1>7. CASE OwnerActs
  <2>1. CASE \E c \in FreshIds : tv' = [tv EXCEPT !.inv = @ \cup {c}, !.holds[c] = Foreign]
    BY <1>1, <1>5, <2>1 DEF TVs
  <2>2. CASE \E c \in tv.inv : tv' = [tv EXCEPT !.inv = @ \ {c}, !.holds[c] = Foreign]
    BY <1>1, <1>6, <2>2 DEF TVs
  <2>3. CASE tv' = [tv EXCEPT !.art = ~@] \/ tv' = [tv EXCEPT !.set = ~@]
    BY <1>1, <1>4, <2>3 DEF TVs
  <2> QED BY <1>7, <2>1, <2>2, <2>3 DEF OwnerActs
<1>8. CASE LateUpload
  <2>1. CASE \E c \in FreshIds :
               tv' = [tv EXCEPT !.inv = @ \cup {c}, !.holds[c] = tv.late, !.late = None]
    BY <1>1, <1>5, <2>1 DEF TVs
  <2>2. CASE tv' = [tv EXCEPT !.late = None]
    BY <1>1, <1>4, <2>2 DEF TVs
  <2> QED BY <1>8, <2>1, <2>2 DEF LateUpload
<1> QED BY <1>7, <1>8

LEMMA NextClaims ==
  ASSUME IInv, Claims, "uncorrelated" \notin Hazards, [Next]_vars
  PROVE  Claims'
<1>1. mem \in States /\ disk \in States /\ tv \in TVs /\ tv' \in TVs
  BY NextIInv DEF IInv, TypeOK
<1>2. CASE RunStep /\ pc # "apply"
  <2>1. tv' = tv
    BY <1>2, TvWaits
  <2>2. ClaimsMine(disk', tv)
    BY <1>2, FileIsMemory DEF Claims
  <2>3. ClaimsMine(mem', tv)
    <3>1. CASE EndRun
      BY <2>2, <3>1 DEF EndRun
    <3>2. CASE ~EndRun
      BY <1>2, <3>2, MemoryClaims DEF Claims
    <3> QED BY <3>1, <3>2
  <2> QED BY <2>1, <2>2, <2>3 DEF Claims
<1>3. CASE RunStep /\ pc = "apply"
  BY <1>3, ApplyClaims DEF Claims
<1>4. CASE Crash
  BY <1>4 DEF Crash, EndRun, Claims
<1>5. CASE OwnerActs \/ LateUpload
  <2>1. disk' = disk /\ mem' = mem
    BY <1>5 DEF OwnerActs, LateUpload
  <2>2. \A st \in {mem, disk} :
          \A c \in tv'.inv \cap Mentioned(st) : c \in tv.inv /\ tv'.holds[c] = tv.holds[c]
    BY <1>5, OutsideSpares
  <2>3. ClaimsMine(mem, tv') /\ ClaimsMine(disk, tv')
    BY <1>1, <2>2, ClaimsElsewhere DEF Claims
  <2> QED BY <2>1, <2>3 DEF Claims
<1>6. CASE CollectionCommits \/ SettleTimePasses \/ UNCHANGED vars
  BY <1>6 DEF CollectionCommits, SettleTimePasses, vars, Claims
<1> QED BY <1>2, <1>3, <1>4, <1>5, <1>6 DEF Next

\* When the TV's inventory may change.
LEMMA InventoryChanges ==
  ASSUME IInv, [Next]_vars, tv'.inv # tv.inv
  PROVE  \/ OwnerActs \/ LateUpload
         \/ AnsweredForAnother
         \/ pc = "apply" /\ Guarded /\ \E content \in AnswerIds : tv' = Effect(cand, content)
<1>1. tv \in TVs
  BY DEF IInv, TypeOK
<1>2. CASE RunStep
  <2>1. pc = "apply"
    BY <1>2, TvWaits
  <2>2. CASE \/ Begin \/ Recover \/ Settle
             \/ SkipIneligible \/ Plan \/ Replan \/ Execute \/ Reconsider \/ ObserveFails \/ Finish
             \/ SavedRecovery \/ SavedSettled \/ SavedPrepared \/ SavedCancelled \/ SavedUnknown
             \/ SavedRejected \/ SavedApplied \/ SavedResolved \/ SavedFinal
             \/ SaveFails \/ SaveOutcomeUnknown
             \/ GiveUp \/ FallBack \/ FallbackPowerOff \/ FallbackNotNeeded
    BY <2>1, <2>2
    DEF Begin, Recover, Settle, SkipIneligible, Plan, Replan, Execute, Reconsider, ObserveFails,
        Finish, Written, SavedRecovery, SavedSettled, SavedPrepared, SavedCancelled, SavedUnknown,
        SavedRejected, SavedApplied, SavedResolved, SavedFinal, SaveFails, SaveOutcomeUnknown,
        SaveSteps, GiveUp, FallBack, FallbackPowerOff, FallbackNotNeeded
  <2>3. CASE Cancelled \/ SlowPacing \/ NotAuthorized \/ LinkDown \/ Refused \/ Unlisted \/ StorageFull
    BY <1>1, <2>3 DEF Cancelled, SlowPacing, NotAuthorized, LinkDown, Refused, Unlisted, StorageFull, TVs
  <2>4. CASE Applied \/ ReplyLost
    BY <1>1, <2>4 DEF Applied, ReplyLost, TVs
  <2> QED BY <1>2, <2>2, <2>3, <2>4 DEF RunStep
<1>3. CASE Crash \/ CollectionCommits \/ SettleTimePasses \/ UNCHANGED vars
  BY <1>3 DEF Crash, CollectionCommits, SettleTimePasses, vars
<1> QED BY <1>2, <1>3 DEF Next

-----------------------------------------------------------------------------
(* The theorems about removal.                                             *)

\* The image that leaves the TV when no unknown artwork is removed is one the
\* record claimed, or the owner took it.
LEMMA OwnersArtStep ==
  ASSUME IInv, Claims, SparesOthers, [Next]_vars
  PROVE  RemoveUnknown \/ OwnerActs \/ \A c \in tv.inv : tv.holds[c] = Foreign => c \in tv'.inv
<1>1. tv \in TVs /\ mem \in States
  BY DEF IInv, TypeOK
<1>2. CASE tv'.inv = tv.inv
  BY <1>2
<1>3. CASE LateUpload
  BY <1>1, <1>3 DEF LateUpload, TVs
<1>4. CASE AnsweredForAnother
  BY <1>1, <1>4 DEF AnsweredForAnother, TVs
<1>5. CASE pc = "apply" /\ \E content \in AnswerIds : tv' = Effect(cand, content)
  <2>1. PICK content \in AnswerIds : tv' = Effect(cand, content)
    BY <1>5
  <2>2. CASE cand.kind \in {"upload", "setting", "power-off"}
    BY <1>5, <2>1, <2>2, EffectParts
  <2>3. CASE cand.kind = "delete-unknown"
    BY <1>5, <2>3 DEF SparesOthers, AboutToSend
  <2>4. CASE cand.kind = "delete-owned"
    <3>1. tv'.inv = tv.inv \ {cand.content}
      BY <1>5, <2>1, <2>4, EffectParts
    <3>2. mem.bound[cand.digest] = cand.content /\ cand.digest \in Digests
      BY <1>5, <2>4, NoneIsDistinct, AtApply DEF SparesOthers, AboutToSend, Commands, ValidIntent
    <3>3. cand.content \in tv.inv => tv.holds[cand.content] # Foreign
      BY <3>2 DEF Claims, ClaimsMine, Mine
    <3> QED BY <3>1, <3>3
  <2> QED BY <1>5, <2>2, <2>3, <2>4, AtApply DEF Commands, ArtworkKinds
<1> QED BY <1>2, <1>3, <1>4, <1>5, InventoryChanges

LEMMA InitClaims == Init => Claims /\ SparesOthers
<1> SUFFICES ASSUME Init PROVE Claims /\ SparesOthers
  OBVIOUS
<1>1. tv.inv = {}
  BY DEF Init
<1>2. ~IsUpload(InitialState.pending) /\ ~IsUpload(InitialState.parked)
  BY DEF InitialState, IsUpload
<1> QED BY <1>1, <1>2 DEF Init, Claims, ClaimsMine, Mine, SparesOthers, AboutToSend

\* A deletion about to be sent leaves what was planned, throughout.
LEMMA OthersSpared == Spec => []SparesOthers
  BY InitClaims, NextSparesOthers, Inductive, PTL DEF Spec

LEMMA ClaimsHold == "uncorrelated" \notin Hazards => (Spec => []Claims)
<1> SUFFICES ASSUME "uncorrelated" \notin Hazards PROVE Spec => []Claims
  OBVIOUS
<1>1. IInv /\ Claims /\ [Next]_vars => Claims'
  BY NextClaims
<1> QED BY <1>1, InitClaims, Inductive, PTL DEF Spec

\* Unless policy removes unknown artwork, an image of the owner's leaves the
\* TV by the owner's hand only, on every TV that answers an upload with that
\* upload's own image, through crashes, lost replies and overwritten images.
THEOREM OwnersArtSafe == "uncorrelated" \notin Hazards => (Spec => OwnersArtStays)
<1> SUFFICES ASSUME "uncorrelated" \notin Hazards PROVE Spec => OwnersArtStays
  OBVIOUS
<1>1. IInv /\ Claims /\ SparesOthers /\ [Next]_vars =>
        [RemoveUnknown \/ OwnerActs \/
         \A c \in tv.inv : tv.holds[c] = Foreign => c \in tv.inv']_vars
  BY OwnersArtStep
<1> QED BY <1>1, Inductive, OthersSpared, ClaimsHold, PTL DEF Spec, OwnersArtStays

LEMMA LastPieceStep ==
  ASSUME IInv, SparesOthers, [Next]_vars,
         ~AllowEmpty, pc = "apply", cand.kind = "delete-owned", tv'.inv # tv.inv
  PROVE  OwnerActs \/ LateUpload \/ \E d \in Digests \ {cand.digest} : disk.bound[d] \in tv'.inv
<1>1. /\ mem.bound[cand.digest] = cand.content
      /\ \E d \in Digests \ {cand.digest} : mem.bound[d] \in obs.inv
  BY DEF SparesOthers, AboutToSend
<1>2. mem = disk /\ mem \in States /\ ValidState(mem) /\ cand.digest \in Digests
  BY NoneIsDistinct, AtApply DEF IInv, InFlight, Commands, ValidIntent
<1>3. ~AnsweredForAnother
  BY DEF AnsweredForAnother
<1>4. CASE Guarded /\ \E content \in AnswerIds : tv' = Effect(cand, content)
  <2>1. tv'.inv = obs.inv \ {cand.content}
    BY <1>4, EffectParts DEF Guarded
  <2>2. PICK d \in Digests \ {cand.digest} : mem.bound[d] \in obs.inv
    BY <1>1
  <2>3. mem.bound[d] # None
    BY <2>2, NoneIsDistinct DEF IInv, TypeOK, Observations
  <2>4. mem.bound[d] # cand.content
    BY <1>1, <1>2, <2>2, <2>3 DEF ValidState
  <2> QED BY <1>2, <2>1, <2>2, <2>4
<1> QED BY <1>3, <1>4, InventoryChanges

\* Unless an empty TV is allowed, the deletion of an owned image leaves another
\* owned image on the TV, whatever disturbs the run.
THEOREM LastPieceSafe == Spec => LastPieceStays
<1>1. IInv /\ SparesOthers /\ [Next]_vars =>
        [~AllowEmpty /\ pc = "apply" /\ cand.kind = "delete-owned" /\ tv.inv' # tv.inv
           => OwnerActs \/ LateUpload \/
              \E d \in Digests \ {cand.digest} : disk.bound[d] \in tv.inv']_vars
  BY LastPieceStep
<1> QED BY <1>1, Inductive, OthersSpared, PTL DEF Spec, LastPieceStays

-----------------------------------------------------------------------------
(* Bindings on a TV that overwrites.                                       *)

\* Every answer of the TV reaches the file: nothing comes between the answer
\* to an upload and the record of it.
AnswersRecorded == Hazards \cap {"uncorrelated", "lost-reply", "crash", "save", "unknown-save"} = {}

\* Content c holds picture d, if the TV has it.
Right(t, d, c) == c \in t.inv => t.holds[c] = d

RightRecord(st, t) == \A d \in Digests : Right(t, d, st.bound[d])

\* A record with a receipt still to be folded: an upload may have taken over
\* the image another picture is bound to, but its own receipt is right.
Folding(st, t) ==
  /\ st.pending # None /\ st.pending.phase = "applied"
  /\ IsUpload(st.pending) => Right(t, st.pending.cmd.digest, st.pending.receipt)
  /\ \A d \in Digests : \/ Right(t, d, st.bound[d])
                        \/ IsUpload(st.pending) /\ st.bound[d] = st.pending.receipt

\* No operation outlives the run that sent it.
NothingInDoubt ==
  /\ mem.parked = None /\ disk.parked = None
  /\ mem.pending # None => pc \in {"save-prepared", "apply", "save-applied"}
  /\ disk.pending # None =>
       pc \in {"apply", "save-cancelled", "save-rejected", "save-applied", "save-resolved"}

\* Both records are right, but for the receipt being folded.
OnlyFoldingTakesOver ==
  /\ pc = "save-applied" => /\ Folding(mem, tv)
                            /\ disk.pending # None /\ disk.pending.cmd = mem.pending.cmd
                            /\ disk.bound = mem.bound
  /\ pc = "save-resolved" => Folding(disk, tv) /\ RightRecord(mem, tv)
  /\ pc \notin {"save-applied", "save-resolved"} => RightRecord(mem, tv) /\ RightRecord(disk, tv)

\* What the TV holds elsewhere does not matter to a record.
LEMMA RightElsewhere ==
  ASSUME NEW st \in States, NEW t, NEW u,
         \A c \in u.inv \cap Mentioned(st) : c \in t.inv /\ u.holds[c] = t.holds[c],
         None \notin u.inv
  PROVE  /\ RightRecord(st, t) => RightRecord(st, u)
         /\ Folding(st, t) => Folding(st, u)
<1>1. \A d \in Digests : st.bound[d] # None => st.bound[d] \in Mentioned(st)
  BY DEF Mentioned, BoundContent
<1>2. st.pending # None => st.pending.receipt \in Mentioned(st)
  BY DEF Mentioned
<1>3. ASSUME NEW d, NEW c, c \in Mentioned(st) \cup {None}, Right(t, d, c)
      PROVE  Right(u, d, c)
  BY <1>3 DEF Right
<1>4. ASSUME NEW d \in Digests, Right(t, d, st.bound[d]) PROVE Right(u, d, st.bound[d])
  BY <1>1, <1>3, <1>4
<1>5. RightRecord(st, t) => RightRecord(st, u)
  BY <1>4 DEF RightRecord
<1>6. Folding(st, t) => Folding(st, u)
  BY <1>2, <1>3, <1>4 DEF Folding
<1> QED BY <1>5, <1>6

\* A run that returns, and a file that is one of two right records.
LEMMA ReturnedRight ==
  ASSUME EndRun, tv' = tv, disk'.parked = None, disk'.pending = None, RightRecord(disk', tv)
  PROVE  NothingInDoubt' /\ OnlyFoldingTakesOver'
  BY DEF EndRun, NothingInDoubt, OnlyFoldingTakesOver

\* The fold takes the overwritten binding away.
LEMMA FoldRights ==
  ASSUME NEW st \in States, NEW o \in Observations, NEW t, Folding(st, t), None \notin t.inv
  PROVE  RightRecord(Resolved(st, o), t)
<1> DEFINE op == st.pending
<1> DEFINE new == Resolved(st, o)
<1>1. op # None /\ op.phase = "applied" /\ (IsUpload(op) <=> op.cmd.kind = "upload")
  BY DEF Folding, IsUpload
<1>2. /\ op.cmd.kind = "upload" => new.bound = Rebound(st.bound, op.cmd.digest, op.receipt)
      /\ op.cmd.kind = "delete-owned" => new.bound = [st.bound EXCEPT ![op.cmd.digest] = None]
      /\ op.cmd.kind \notin {"upload", "delete-owned"} => new.bound = st.bound
  BY <1>1, ResolvedParts
<1>3. ASSUME NEW d \in Digests PROVE Right(t, d, new.bound[d])
  <2> HIDE DEF new
  <2>1. CASE op.cmd.kind = "upload"
    <3>1. new.bound[d] = IF d = op.cmd.digest THEN op.receipt
                         ELSE IF st.bound[d] = op.receipt THEN None ELSE st.bound[d]
      BY <1>2, <2>1 DEF Rebound
    <3>2. Right(t, op.cmd.digest, op.receipt) /\ Right(t, d, None)
      BY <1>1, <2>1 DEF Folding, Right
    <3>3. Right(t, d, st.bound[d]) \/ st.bound[d] = op.receipt
      BY DEF Folding
    <3> QED BY <3>1, <3>2, <3>3
  <2>2. CASE op.cmd.kind # "upload"
    <3>1. Right(t, d, st.bound[d]) /\ Right(t, d, None)
      BY <1>1, <2>2 DEF Folding, Right
    <3>2. new.bound[d] \in {st.bound[d], None}
      BY <1>2, <2>2, TypedParts
    <3> QED BY <3>1, <3>2
  <2> QED BY <2>1, <2>2
<1> QED BY <1>3 DEF RightRecord

\* The steps of a run at which the TV does nothing.
LEMMA MemoryRights ==
  ASSUME IInv, NothingInDoubt, OnlyFoldingTakesOver, AnswersRecorded, RunStep, pc # "apply"
  PROVE  NothingInDoubt' /\ OnlyFoldingTakesOver'
<1>1. /\ mem \in States /\ disk \in States /\ obs \in Observations /\ desired \in SUBSET Digests
      /\ tv \in TVs /\ ValidState(mem) /\ tv' = tv /\ None \notin tv.inv
  BY TvWaits, NoneIsDistinct DEF IInv, TypeOK, ValidRecords, TVs
<1>2. CASE SkipIneligible \/ GiveUp \/ FallbackNotNeeded
  <2>1. EndRun /\ disk' = disk /\ pc \in {"plan", "failed", "power-off"}
    BY <1>2 DEF SkipIneligible, GiveUp, FallbackNotNeeded
  <2>2. disk.pending = None /\ disk.parked = None /\ RightRecord(disk, tv)
    BY <2>1 DEF NothingInDoubt, OnlyFoldingTakesOver
  <2> QED BY <1>1, <2>1, <2>2, ReturnedRight
<1>3. CASE SavedCancelled \/ SavedFinal \/ (SavedResolved /\ EndRun)
  <2>1. EndRun /\ disk' = mem /\ pc \in {"save-cancelled", "save-final", "save-resolved"}
    BY <1>3 DEF SavedCancelled, SavedFinal, SavedResolved, Written
  <2>2. mem.pending = None /\ mem.parked = None /\ RightRecord(mem, tv)
    BY <2>1 DEF NothingInDoubt, OnlyFoldingTakesOver
  <2> QED BY <1>1, <2>1, <2>2, ReturnedRight
<1>4. ~SaveFails /\ ~SaveOutcomeUnknown
  BY <1>1 DEF SaveFails, SaveOutcomeUnknown, Disturbed, AnswersRecorded
<1>5. CASE Begin \/ Recover \/ Settle \/ ObserveFails \/ FallBack
  <2>1. /\ mem' = mem /\ disk' = disk
        /\ pc \in {"idle", "recover", "settle", "observe", "failed"}
        /\ pc' \notin {"save-applied", "save-resolved"}
    BY <1>5
    DEF Begin, Recover, Settle, Settles, ObserveFails, FallBack, Goto, NothingInDoubt
  <2> QED BY <1>1, <2>1 DEF NothingInDoubt, OnlyFoldingTakesOver
<1>6. CASE Plan \/ Replan \/ Reconsider
  <2>1. /\ disk' = disk /\ pc \in {"plan", "replan", "observe"} /\ pc' \in {"finish", "observe"}
        /\ \E inv : mem' = mem \/ mem' = Planned(desired, mem, inv, due, stale)
    BY <1>6 DEF Plan, Replan, AdoptPlan, Reconsider, Store, Goto
  <2>2. mem'.bound = mem.bound /\ mem'.pending = mem.pending /\ mem'.parked = mem.parked
    BY <1>1, <2>1, PlannedParts
  <2> QED BY <1>1, <2>1, <2>2 DEF NothingInDoubt, OnlyFoldingTakesOver, RightRecord
<1>7. CASE Finish
  <2>1. /\ disk' = disk /\ pc = "finish" /\ pc' \in {"failed", "save-final"}
        /\ mem'.pending = mem.pending /\ mem'.parked = mem.parked
        /\ \A d \in Digests : mem'.bound[d] \in {mem.bound[d], None}
    BY <1>1, <1>7 DEF Finish, Store, Goto, States
  <2>2. RightRecord(mem', tv)
    BY <1>1, <2>1 DEF OnlyFoldingTakesOver, RightRecord, Right
  <2> QED BY <1>1, <2>1, <2>2 DEF NothingInDoubt, OnlyFoldingTakesOver
<1>8. CASE Execute \/ FallbackPowerOff
  <2>1. /\ disk' = disk /\ pc \in {"observe", "power-off"} /\ pc' = "save-prepared"
        /\ mem'.bound = mem.bound /\ mem'.parked = mem.parked
    <3>1. CASE Execute
      BY <3>1, ExecutePlans DEF Execute, Store, Goto
    <3>2. CASE FallbackPowerOff
      <4>1. mem' = Prepared(mem, PowerOff, tv.inv)
        BY <3>2 DEF FallbackPowerOff, Store
      <4>2. mem'.bound = mem.bound /\ mem'.parked = mem.parked
        BY <1>1, <4>1 DEF Prepared, States
      <4> QED BY <3>2, <4>2 DEF FallbackPowerOff, Store, Goto
    <3> QED BY <1>8, <3>1, <3>2
  <2> QED BY <1>1, <2>1 DEF NothingInDoubt, OnlyFoldingTakesOver, RightRecord
<1>9. CASE SavedApplied
  <2>1. /\ pc = "save-applied" /\ disk' = mem /\ pc' = "save-resolved"
        /\ mem' = Resolved(mem, obs) /\ Folding(mem, tv)
    BY <1>9 DEF SavedApplied, Written, Store, Goto, OnlyFoldingTakesOver
  <2>2. RightRecord(mem', tv)
    BY <1>1, <2>1, FoldRights
  <2>3. mem'.pending = None /\ mem'.parked = mem.parked
    BY <1>1, <2>1, ResolvedParts DEF Folding
  <2> QED BY <1>1, <2>1, <2>2, <2>3 DEF NothingInDoubt, OnlyFoldingTakesOver
<1>10. CASE \/ SavedRecovery \/ SavedSettled \/ SavedPrepared \/ SavedUnknown \/ SavedRejected
            \/ (SavedResolved /\ ~EndRun)
  <2>1. /\ mem' = mem /\ disk' = mem
        /\ pc \in {"save-recovered", "save-parked", "save-settled", "save-prepared",
                   "save-unknown", "save-rejected", "save-resolved"}
        /\ pc' \notin {"save-applied", "save-resolved"}
        /\ pc = "save-prepared" => pc' = "apply"
    BY <1>10
    DEF SavedRecovery, SavedSettled, SavedPrepared, SavedUnknown, SavedRejected, SavedResolved,
        Written, Goto
  <2>2. RightRecord(mem, tv) /\ mem.parked = None /\ (mem.pending # None => pc = "save-prepared")
    BY <2>1 DEF NothingInDoubt, OnlyFoldingTakesOver
  <2> QED BY <1>1, <2>1, <2>2 DEF NothingInDoubt, OnlyFoldingTakesOver
<1>11. ~(\/ Cancelled \/ SlowPacing \/ NotAuthorized \/ LinkDown \/ Refused \/ Unlisted \/ StorageFull
         \/ Applied \/ ReplyLost \/ AnsweredForAnother)
  BY DEF Cancelled, SlowPacing, NotAuthorized, LinkDown, Refused, Unlisted, StorageFull, Applied,
         ReplyLost, AnsweredForAnother
<1> QED BY <1>2, <1>3, <1>4, <1>5, <1>6, <1>7, <1>8, <1>9, <1>10, <1>11 DEF RunStep

\* The answer to an upload: what it took over is the receipt's own content.
LEMMA AppliedRights ==
  ASSUME IInv, NothingInDoubt, OnlyFoldingTakesOver, Applied
  PROVE  NothingInDoubt' /\ OnlyFoldingTakesOver'
<1>1. /\ pc = "apply" /\ mem \in States /\ mem = disk /\ tv \in TVs /\ mem.pending # None
      /\ mem.pending.cmd = cand /\ mem.parked = None /\ RightRecord(mem, tv)
  BY AtApply, NoneIsNoOperation
  DEF Applied, IInv, TypeOK, InFlight, NothingInDoubt, OnlyFoldingTakesOver
<1>2. PICK content \in AnswerIds : tv' = Effect(cand, content) /\ RecordApplied(content)
  BY DEF Applied
<1>3. /\ mem'.bound = mem.bound /\ mem'.parked = mem.parked
      /\ mem'.pending # None /\ mem'.pending.cmd = cand
      /\ mem'.pending.receipt = content /\ mem'.pending.phase = "applied"
  BY <1>1, <1>2, AnswersAreIds, AnsweredParts
<1>4. disk' = disk /\ pc' = "save-applied"
  BY <1>2 DEF RecordApplied, Goto
<1>5. /\ IsUpload(mem'.pending) => Right(tv', cand.digest, content)
      /\ \A d \in Digests : \/ Right(tv', d, mem.bound[d])
                            \/ IsUpload(mem'.pending) /\ mem.bound[d] = content
  <2>1. CASE cand.kind = "upload"
    <3>1. /\ content \in ContentIds /\ tv'.inv = tv.inv \cup {content}
          /\ tv'.holds = [tv.holds EXCEPT ![content] = cand.digest]
      BY <1>1, <1>2, <2>1, EffectParts
    <3>2. /\ tv'.holds[content] = cand.digest
          /\ \A c \in tv'.inv \ {content} : c \in tv.inv /\ tv'.holds[c] = tv.holds[c]
      BY <1>1, <3>1 DEF TVs
    <3>3. IsUpload(mem'.pending)
      BY <1>3, <2>1 DEF IsUpload
    <3> QED BY <1>1, <3>2, <3>3 DEF RightRecord, Right
  <2>2. CASE cand.kind # "upload"
    <3>1. \A c \in tv'.inv : c \in tv.inv /\ tv'.holds[c] = tv.holds[c]
      <4>1. CASE cand.kind \in {"delete-owned", "delete-unknown"}
        <5>1. /\ tv'.inv = tv.inv \ {cand.content}
              /\ tv'.holds = [tv.holds EXCEPT ![cand.content] = Foreign]
          BY <1>1, <1>2, <4>1, EffectParts
        <5> QED BY <1>1, <5>1 DEF TVs
      <4>2. CASE cand.kind \in {"setting", "power-off"}
        BY <1>1, <1>2, <4>2, EffectParts
      <4> QED BY <1>1, <2>2, <4>1, <4>2, AtApply DEF Commands, ArtworkKinds
    <3>2. ~IsUpload(mem'.pending)
      BY <1>3, <2>2 DEF IsUpload
    <3> QED BY <1>1, <3>1, <3>2 DEF RightRecord, Right
  <2> QED BY <2>1, <2>2
<1>6. Folding(mem', tv')
  BY <1>3, <1>5 DEF Folding
<1> QED BY <1>1, <1>3, <1>4, <1>6 DEF NothingInDoubt, OnlyFoldingTakesOver

\* A command that is sent or not.
LEMMA ApplyRights ==
  ASSUME IInv, NothingInDoubt, OnlyFoldingTakesOver, AnswersRecorded, RunStep, pc = "apply"
  PROVE  NothingInDoubt' /\ OnlyFoldingTakesOver'
<1>1. /\ mem \in States /\ disk \in States /\ tv \in TVs
      /\ mem.parked = None /\ disk.parked = None /\ RightRecord(mem, tv) /\ RightRecord(disk, tv)
  BY DEF IInv, TypeOK, NothingInDoubt, OnlyFoldingTakesOver
<1>2. CASE Cancelled \/ NotAuthorized \/ LinkDown \/ Refused \/ Unlisted \/ StorageFull
  <2>1. /\ mem'.pending = None /\ mem'.bound = mem.bound /\ mem'.parked = mem.parked /\ disk' = disk
        /\ pc' \in {"save-cancelled", "save-rejected"}
    BY <1>1, <1>2
    DEF Cancelled, Store, NotAuthorized, LinkDown, Refused, Unlisted, StorageFull, Reject, States, Goto
  <2>2. tv'.inv = tv.inv /\ tv'.holds = tv.holds
    BY <1>1, <1>2 DEF Cancelled, NotAuthorized, LinkDown, Refused, Unlisted, StorageFull, TVs
  <2> QED BY <1>1, <2>1, <2>2 DEF NothingInDoubt, OnlyFoldingTakesOver, RightRecord, Right
<1>3. CASE SlowPacing
  BY <1>3 DEF SlowPacing, NothingInDoubt, OnlyFoldingTakesOver
<1>4. CASE Applied
  BY <1>4, AppliedRights
<1>5. ~ReplyLost /\ ~AnsweredForAnother
  BY DEF ReplyLost, AnsweredForAnother, Disturbed, AnswersRecorded
<1>6. ~(\/ Begin \/ Recover \/ Settle
        \/ SkipIneligible \/ Plan \/ Replan \/ Execute \/ Reconsider \/ ObserveFails \/ Finish
        \/ SavedRecovery \/ SavedSettled \/ SavedPrepared \/ SavedCancelled \/ SavedUnknown
        \/ SavedRejected \/ SavedApplied \/ SavedResolved \/ SavedFinal
        \/ SaveFails \/ SaveOutcomeUnknown
        \/ GiveUp \/ FallBack \/ FallbackPowerOff \/ FallbackNotNeeded)
  BY DEF Begin, Recover, Settle, SkipIneligible, Plan, Replan, Execute, Reconsider, ObserveFails,
         Finish, Written, SavedRecovery, SavedSettled, SavedPrepared, SavedCancelled, SavedUnknown,
         SavedRejected, SavedApplied, SavedResolved, SavedFinal, SaveFails, SaveOutcomeUnknown,
         SaveSteps, GiveUp, FallBack, FallbackPowerOff, FallbackNotNeeded
<1> QED BY <1>2, <1>3, <1>4, <1>5, <1>6 DEF RunStep

LEMMA NextRights ==
  ASSUME IInv, NothingInDoubt, OnlyFoldingTakesOver, AnswersRecorded, [Next]_vars
  PROVE  NothingInDoubt' /\ OnlyFoldingTakesOver'
<1>1. CASE RunStep
  BY <1>1, MemoryRights, ApplyRights
<1>2. ~Crash
  BY DEF Crash, Disturbed, AnswersRecorded
<1>3. CASE OwnerActs \/ LateUpload
  <2>1. disk' = disk /\ mem' = mem /\ pc' = pc
    BY <1>3 DEF OwnerActs, LateUpload
  <2>2. \A st \in {mem, disk} :
          \A c \in tv'.inv \cap Mentioned(st) : c \in tv.inv /\ tv'.holds[c] = tv.holds[c]
    BY <1>3, OutsideSpares
  <2>3. mem \in States /\ disk \in States /\ None \notin tv'.inv
    BY NextIInv, NoneIsDistinct DEF IInv, TypeOK, TVs
  <2>4. \A st \in {mem, disk} : /\ RightRecord(st, tv) => RightRecord(st, tv')
                                /\ Folding(st, tv) => Folding(st, tv')
    BY <2>2, <2>3, RightElsewhere
  <2> QED BY <2>1, <2>4 DEF NothingInDoubt, OnlyFoldingTakesOver
<1>4. CASE CollectionCommits \/ SettleTimePasses \/ UNCHANGED vars
  BY <1>4 DEF CollectionCommits, SettleTimePasses, vars, NothingInDoubt, OnlyFoldingTakesOver
<1> QED BY <1>1, <1>2, <1>3, <1>4 DEF Next

LEMMA InitRights == Init => NothingInDoubt /\ OnlyFoldingTakesOver
  BY DEF Init, InitialState, NothingInDoubt, OnlyFoldingTakesOver, RightRecord, Right

\* While a receipt is folded, the journal names the picture that took over.
LEMMA FoldingIsJournalled ==
  ASSUME IInv, NothingInDoubt, OnlyFoldingTakesOver
  PROVE  BindingsAreTrue
<1> SUFFICES ASSUME NEW d \in Digests, disk.bound[d] \in tv.inv, tv.holds[disk.bound[d]] # d
             PROVE  Journalled(tv.holds[disk.bound[d]])
  BY DEF BindingsAreTrue
<1>1. PICK st \in {mem, disk} :
        /\ Folding(st, tv) /\ st.bound = disk.bound
        /\ disk.pending # None /\ disk.pending.cmd = st.pending.cmd
  BY DEF OnlyFoldingTakesOver, RightRecord, Right, Folding
<1>2. IsUpload(st.pending) /\ tv.holds[disk.bound[d]] = st.pending.cmd.digest
  BY <1>1 DEF Folding, Right
<1> QED BY <1>1, <1>2 DEF Journalled, IsUpload

\* What the record binds to a picture is that picture, on every TV that answers
\* an upload with that upload's own image. On a TV that gives each upload a new
\* image, no lost reply, failed write, restart, slow pacing or act of the owner
\* changes it. A TV that overwrites may give the upload the image of another
\* picture: as long as its answers are recorded, the journal names the upload
\* until the fold has taken the image from the other picture.
THEOREM TrueBindings ==
  "uncorrelated" \notin Hazards /\ ("overwrites" \in Hazards => AnswersRecorded)
    => (Spec => []BindingsAreTrue)
<1> SUFFICES ASSUME "uncorrelated" \notin Hazards, "overwrites" \in Hazards => AnswersRecorded
             PROVE  Spec => []BindingsAreTrue
  OBVIOUS
<1>1. CASE "overwrites" \notin Hazards
  <2>1. Claims => BindingsAreTrue
    BY <1>1 DEF Claims, ClaimsMine, Mine, BindingsAreTrue
  <2> QED BY <2>1, ClaimsHold, PTL
<1>2. CASE AnswersRecorded
  <2>1. /\ Init => NothingInDoubt /\ OnlyFoldingTakesOver
        /\ IInv /\ NothingInDoubt /\ OnlyFoldingTakesOver /\ [Next]_vars
             => NothingInDoubt' /\ OnlyFoldingTakesOver'
        /\ IInv /\ NothingInDoubt /\ OnlyFoldingTakesOver => BindingsAreTrue
    BY <1>2, InitRights, NextRights, FoldingIsJournalled
  <2> QED BY <2>1, Inductive, PTL DEF Spec
<1> QED BY <1>1, <1>2

-----------------------------------------------------------------------------
(* Nothing the manager put on the TV is forgotten.                         *)

\* The disturbances under which the code loses track of an image: the run
\* PrunedAfterUpload shows owner-removes.
Orderly ==
  Hazards \cap {"uncorrelated", "overwrites", "unlisted", "slow-pacing", "owner-removes"} = {}

\* The uploads in the journal of a record.
Uploads(st)      == {op \in {st.pending, st.parked} : IsUpload(op)}
InJournal(st, d) == \E op \in Uploads(st) : op.cmd.digest = d
IsDelete(op)     == op # None /\ op.cmd.kind = "delete-owned"

Pictured(t, d) == \E c \in t.inv : t.holds[c] = d

\* What the manager put on the TV, or may yet appear there, is bound or in the
\* journal.
Accounted(st, t) ==
  /\ \A c \in t.inv :
       t.holds[c] # Foreign => st.bound[t.holds[c]] = c \/ InJournal(st, t.holds[c])
  /\ t.late # None => InJournal(st, t.late)

\* What is bound is on the TV, unless its deletion is in the journal.
Present(st, t) ==
  \A d \in Digests : st.bound[d] # None =>
    st.bound[d] \in t.inv \/ (IsDelete(st.pending) /\ st.pending.cmd.digest = d)

\* An upload in the journal was sent while no image showed its picture, and
\* every image of then is still there; a receipt tells what became of it.
OpenUpload(st, op, t) ==
  /\ op.before \subseteq t.inv
  /\ \A c \in op.before : t.holds[c] # op.cmd.digest
  /\ st.bound[op.cmd.digest] \notin t.inv
  /\ op.receipt # None => op.receipt \in t.inv /\ t.late # op.cmd.digest
  /\ op.phase = "applied" => op.receipt # None

\* A command that changes artwork is alone in the journal, and a deletion names
\* the image it is to remove.
JournalTrue(st, t) ==
  /\ \A op \in Uploads(st) : OpenUpload(st, op, t)
  /\ st.pending # None /\ st.pending.cmd.kind \in ArtworkKinds => st.parked = None
  /\ IsDelete(st.pending) =>
       /\ st.bound[st.pending.cmd.digest] = st.pending.cmd.content
       /\ st.pending.phase = "applied" => st.pending.cmd.content \notin t.inv

Ledger(st, t) == Accounted(st, t) /\ Present(st, t) /\ JournalTrue(st, t)

\* A picture is on the TV once, or on its way there.
Once(t) ==
  /\ \A b, c \in t.inv : t.holds[b] = t.holds[c] /\ t.holds[b] # Foreign => b = c
  /\ t.late # None => ~Pictured(t, t.late)

-----------------------------------------------------------------------------
(* What recovery and planning do to a ledger.                              *)

LEMMA UploadsTyped ==
  ASSUME NEW st \in States, ValidState(st), NEW op \in Uploads(st)
  PROVE  op \in Operations /\ op.cmd.kind = "upload" /\ op.cmd.digest \in Digests
<1>1. op \in Operations /\ op.cmd.kind = "upload"
  BY TypedParts DEF Uploads, IsUpload
<1>2. ValidIntent(op.cmd)
  BY <1>1, TypedOperation DEF Uploads, ValidState, ValidOperation
<1> QED BY <1>1, <1>2, TypedOperation DEF ValidIntent

LEMMA LedgerSame ==
  ASSUME NEW st, NEW new, NEW t, Ledger(st, t),
         new.bound = st.bound, new.pending = st.pending, new.parked = st.parked
  PROVE  Ledger(new, t)
  BY DEF Ledger, Accounted, Present, JournalTrue, OpenUpload, Uploads, InJournal

\* Folding the one upload in the journal, known to be on the TV as c.
LEMMA FoldedLedger ==
  ASSUME NEW st \in States, NEW t \in TVs, NEW d \in Digests, NEW c \in t.inv, NEW new,
         Ledger(st, t), Once(t), t.holds[c] = d, t.late # d,
         \A op \in Uploads(st) : op.cmd.digest = d, ~IsDelete(st.pending),
         new.pending = None, new.parked = None, new.bound = Rebound(st.bound, d, c)
  PROVE  Ledger(new, t)
<1>1. \A e : InJournal(st, e) => e = d
  BY DEF InJournal
<1>2. /\ new.bound[d] = c
      /\ \A e \in Digests \ {d} : new.bound[e] = IF st.bound[e] = c THEN None ELSE st.bound[e]
  BY DEF Rebound
<1>3. d # Foreign /\ t.holds \in [ContentIds -> Digests \cup {Foreign}] /\ t.inv \subseteq ContentIds
  BY ForeignIsDistinct DEF TVs
<1>4. Accounted(new, t)
  <2>1. t.late = None
    BY <1>1 DEF Ledger, Accounted
  <2>2. ASSUME NEW b \in t.inv, t.holds[b] # Foreign
        PROVE  new.bound[t.holds[b]] = b
    <3>1. CASE t.holds[b] = d
      BY <1>2, <1>3, <2>2, <3>1 DEF Once
    <3>2. CASE t.holds[b] # d
      <4>1. st.bound[t.holds[b]] = b
        BY <1>1, <2>2, <3>2 DEF Ledger, Accounted
      <4>2. b # c /\ t.holds[b] \in Digests \ {d}
        BY <1>3, <2>2, <3>2
      <4> QED BY <1>2, <4>1, <4>2
    <3> QED BY <3>1, <3>2
  <2> QED BY <2>1, <2>2 DEF Accounted
<1>5. Present(new, t)
  BY <1>2 DEF Ledger, Present
<1>6. JournalTrue(new, t)
  BY DEF JournalTrue, Uploads, IsUpload, IsDelete
<1> QED BY <1>4, <1>5, <1>6 DEF Ledger

\* What an observation tells of what a record mentions.
Tells(o, st, t) ==
  /\ o.inv \subseteq t.inv
  /\ o.art => \A c \in t.inv \cap Mentioned(st) : c \in o.inv

LEMMA ResolvedLedger ==
  ASSUME NEW st \in States, ValidState(st), NEW t \in TVs, NEW o \in Observations,
         st.pending # None, ClaimsMine(st, t), Ledger(st, t), Once(t), "overwrites" \notin Hazards,
         st.pending.phase = "applied" \/ (Resolvable(st.pending, o) /\ Tells(o, st, t))
  PROVE  Ledger(Resolved(st, o), t)
<1> DEFINE op  == st.pending
<1> DEFINE new == Resolved(st, o)
<1> DEFINE applied == op.phase = "applied" \/ (op.cmd.content # None /\ op.cmd.content \notin o.inv)
<1>1. op \in Operations /\ new.pending = None /\ new.parked = st.parked
  BY TypedParts, ResolvedParts
<1>2. ValidIntent(op.cmd)
  BY <1>1 DEF ValidState, ValidOperation
<1>3. CASE op.cmd.kind = "upload"
  <2>1. op.phase = "applied"
    BY <1>3 DEF Resolvable
  <2>2. op \in Uploads(st) /\ st.parked = None
    BY <1>3 DEF Uploads, IsUpload, Ledger, JournalTrue, ArtworkKinds
  <2>3. op.receipt # None /\ op.receipt \in t.inv /\ t.late # op.cmd.digest
    BY <2>1, <2>2 DEF Ledger, JournalTrue, OpenUpload
  <2>4. t.holds[op.receipt] = op.cmd.digest
    BY <1>3, <2>3 DEF ClaimsMine, Mine, IsUpload
  <2>5. new.bound = Rebound(st.bound, op.cmd.digest, op.receipt)
    BY <1>3, <2>1, ResolvedParts
  <2>6. \A up \in Uploads(st) : up.cmd.digest = op.cmd.digest
    BY <2>2 DEF Uploads, IsUpload
  <2>7. op.cmd.digest \in Digests /\ ~IsDelete(op)
    BY <1>3, <2>2, UploadsTyped DEF IsDelete
  <2>8. new.parked = None
    BY <1>1, <2>2
  <2> HIDE DEF op, new
  <2> QED BY <1>1, <2>3, <2>4, <2>5, <2>6, <2>7, <2>8, FoldedLedger DEF op, new
<1>4. CASE op.cmd.kind = "delete-owned"
  <2>1. IsDelete(op) /\ st.parked = None /\ Uploads(st) = {} /\ Uploads(new) = {}
    BY <1>1, <1>4 DEF Uploads, IsUpload, IsDelete, Ledger, JournalTrue, ArtworkKinds
  <2>2. /\ op.cmd.digest \in Digests /\ op.cmd.content # None
        /\ st.bound[op.cmd.digest] = op.cmd.content
    BY <1>1, <1>2, <1>4, <2>1, TypedOperation DEF ValidIntent, Ledger, JournalTrue
  <2>3. op.cmd.content \in Mentioned(st)
    BY <1>1 DEF Mentioned
  <2>4. st.bound \in [Digests -> ContentIds \cup {None}] /\ t.late = None
    BY <2>1, TypedParts DEF Ledger, Accounted, InJournal
  <2>5. CASE applied
    <3>1. op.cmd.content \notin t.inv
      <4>1. CASE op.phase = "applied"
        BY <2>1, <4>1 DEF Ledger, JournalTrue
      <4>2. CASE op.phase # "applied"
        BY <1>4, <2>3, <2>5, <4>2 DEF Resolvable, Tells
      <4> QED BY <4>1, <4>2
    <3>2. new.bound = [st.bound EXCEPT ![op.cmd.digest] = None]
      BY <1>4, <2>5, ResolvedParts
    <3> HIDE DEF new, op
    <3>3. /\ new.bound[op.cmd.digest] = None
          /\ \A e \in Digests \ {op.cmd.digest} : new.bound[e] = st.bound[e]
      BY <2>2, <2>4, <3>2
    <3>4. Accounted(new, t)
      <4>1. ASSUME NEW b \in t.inv, t.holds[b] # Foreign
            PROVE  new.bound[t.holds[b]] = b
        <5>1. st.bound[t.holds[b]] = b
          BY <2>1, <4>1 DEF Ledger, Accounted, InJournal
        <5>2. t.holds[b] \in Digests
          BY <4>1 DEF TVs
        <5>3. t.holds[b] # op.cmd.digest
          BY <2>2, <3>1, <5>1
        <5> QED BY <3>3, <5>1, <5>2, <5>3
      <4> QED BY <2>4, <4>1 DEF Accounted
    <3>5. Present(new, t)
      BY <3>3 DEF Ledger, Present, op
    <3>6. JournalTrue(new, t)
      BY <1>1, <2>1 DEF JournalTrue, IsDelete
    <3> QED BY <3>4, <3>5, <3>6 DEF Ledger, new
  <2>6. CASE ~applied
    <3>1. new.bound = st.bound
      BY <2>6, ResolvedParts
    <3>2. op.cmd.content \in t.inv
      BY <2>2, <2>6 DEF Tells
    <3> HIDE DEF new, op
    <3>3. Accounted(new, t)
      BY <2>1, <3>1 DEF Ledger, Accounted, InJournal
    <3>4. Present(new, t)
      BY <2>2, <3>1, <3>2 DEF Ledger, Present, op
    <3>5. JournalTrue(new, t)
      BY <1>1, <2>1 DEF JournalTrue, IsDelete
    <3> QED BY <3>3, <3>4, <3>5 DEF Ledger, new
  <2> QED BY <2>5, <2>6
<1>5. CASE op.cmd.kind \notin {"upload", "delete-owned"}
  <2>1. new.bound = st.bound
    BY <1>5, ResolvedParts
  <2>2. ~IsUpload(op) /\ ~IsDelete(op)
    BY <1>5 DEF IsUpload, IsDelete
  <2> HIDE DEF new
  <2>3. Uploads(new) = Uploads(st)
    BY <1>1, <2>2 DEF Uploads, IsUpload
  <2>4. Accounted(new, t)
    BY <2>1, <2>3 DEF Ledger, Accounted, InJournal
  <2>5. Present(new, t)
    BY <2>1, <2>2 DEF Ledger, Present
  <2>6. JournalTrue(new, t)
    BY <1>1, <2>1, <2>3 DEF Ledger, JournalTrue, OpenUpload, IsDelete
  <2> QED BY <2>4, <2>5, <2>6 DEF Ledger, new
<1> QED BY <1>3, <1>4, <1>5

LEMMA ParkedLedger ==
  ASSUME NEW st \in States, NEW t, Ledger(st, t), Parkable(st), st.pending # None
  PROVE  Ledger(Parked(st), t)
<1> DEFINE new == Parked(st)
<1>1. new.pending = None /\ new.parked = st.pending /\ new.bound = st.bound
  BY ParkedParts
<1>2. ~IsDelete(st.pending) /\ st.parked = None
  BY DEF Parkable, IsDelete
<1> HIDE DEF new
<1>3. Uploads(new) = Uploads(st)
  BY <1>1, <1>2 DEF Uploads, IsUpload
<1>4. Accounted(new, t) /\ Present(new, t)
  BY <1>1, <1>2, <1>3 DEF Ledger, Accounted, Present, InJournal
<1>5. JournalTrue(new, t)
  BY <1>1, <1>3 DEF Ledger, JournalTrue, OpenUpload, IsDelete
<1> QED BY <1>4, <1>5 DEF Ledger, new

\* A parked upload is settled by its receipt, or given up when it cannot have
\* left an image.
LEMMA SettledLedger ==
  ASSUME NEW st \in States, ValidState(st), NEW t \in TVs, NEW o \in Observations, NEW passed \in BOOLEAN,
         st.pending = None, ClaimsMine(st, t), Ledger(st, t), Once(t), "overwrites" \notin Hazards,
         Settles(st, o, passed), Tells(o, st, t),
         passed => t.late = None /\ \A c \in t.inv : t.holds[c] # Foreign => c \in o.inv
  PROVE  Ledger(Settled(st, o), t)
<1> DEFINE op  == st.parked
<1> DEFINE new == Settled(st, o)
<1> DEFINE landed == op.receipt # None /\ op.receipt \in o.inv
<1>1. op # None /\ op.cmd.kind = "upload" /\ op \in Uploads(st) /\ Uploads(st) = {op}
  BY DEF Settles, ValidState, Uploads, IsUpload
<1>2. /\ new.pending = None /\ new.parked = None
      /\ new.bound = IF landed THEN Rebound(st.bound, op.cmd.digest, op.receipt) ELSE st.bound
  BY <1>1, SettledParts
<1>3. OpenUpload(st, op, t) /\ op.cmd.digest \in Digests /\ op \in Operations
  BY <1>1, UploadsTyped DEF Ledger, JournalTrue
<1>4. Mine(t, op.cmd.digest, op.receipt)
  BY <1>1 DEF ClaimsMine, IsUpload
<1>5. CASE op.receipt # None
  <2>1. op.receipt \in t.inv /\ t.late # op.cmd.digest
    BY <1>3, <1>5 DEF OpenUpload
  <2>2. op.receipt \in Mentioned(st)
    BY <1>1 DEF Mentioned
  <2>3. landed
    BY <1>5, <2>1, <2>2 DEF Settles, Tells
  <2>4. t.holds[op.receipt] = op.cmd.digest
    BY <1>4, <2>1 DEF Mine
  <2>5. new.bound = Rebound(st.bound, op.cmd.digest, op.receipt)
    BY <1>2, <2>3
  <2>6. ~IsDelete(st.pending) /\ \A up \in Uploads(st) : up.cmd.digest = op.cmd.digest
    BY <1>1 DEF IsDelete
  <2> HIDE DEF op, new
  <2> QED BY <1>2, <1>3, <2>1, <2>4, <2>5, <2>6, FoldedLedger DEF new
<1>6. CASE op.receipt = None
  <2>1. new.bound = st.bound /\ Uploads(new) = {}
    BY <1>2, <1>6 DEF Uploads, IsUpload
  <2>2. t.late = None /\ \A c \in t.inv : t.holds[c] # Foreign => c \in o.inv
    BY <1>6 DEF Settles
  <2>3. o.inv \subseteq op.before \cup BoundContent(st)
    BY <1>6 DEF Settles, Unexplained
  <2>4. ASSUME NEW b \in t.inv, t.holds[b] # Foreign
        PROVE  st.bound[t.holds[b]] = b
    <3>1. CASE st.bound[t.holds[b]] # b
      <4>1. t.holds[b] = op.cmd.digest
        BY <1>1, <2>4, <3>1 DEF Ledger, Accounted, InJournal
      <4>2. b \in BoundContent(st)
        BY <1>3, <2>2, <2>3, <2>4, <4>1 DEF OpenUpload
      <4>3. PICK e \in Digests : st.bound[e] = b
        BY <4>2 DEF BoundContent
      <4>4. t.holds[b] = e
        BY <2>4, <4>3 DEF ClaimsMine, Mine
      <4> QED BY <3>1, <4>3, <4>4
    <3> QED BY <3>1
  <2> HIDE DEF op, new
  <2>5. Accounted(new, t)
    BY <2>1, <2>2, <2>4 DEF Accounted
  <2>6. Present(new, t)
    BY <2>1 DEF Ledger, Present, IsDelete
  <2>7. JournalTrue(new, t)
    BY <1>2, <2>1 DEF JournalTrue, IsDelete
  <2> QED BY <2>5, <2>6, <2>7 DEF Ledger, new
<1> QED BY <1>5, <1>6

\* An upload is sent while no image shows its picture and none may yet land.
LEMMA UploadIsNew ==
  ASSUME NEW st \in States, NEW t \in TVs, Ledger(st, t), st.pending = None, st.parked = None,
         NEW d \in Digests, st.bound[d] \notin t.inv
  PROVE  t.late = None /\ ~Pictured(t, d)
<1>1. \A e : ~InJournal(st, e)
  BY DEF InJournal, Uploads, IsUpload
<1> QED BY <1>1, ForeignIsDistinct DEF Ledger, Accounted, Pictured

LEMMA PreparedLedger ==
  ASSUME NEW st \in States, NEW t \in TVs, Ledger(st, t), st.pending = None,
         NEW cmd \in Commands, NEW new \in States,
         new.bound = st.bound, new.parked = st.parked,
         new.pending = [cmd |-> cmd, phase |-> "prepared", receipt |-> None, before |-> t.inv],
         cmd.kind = "delete-owned" => st.bound[cmd.digest] = cmd.content,
         cmd.kind = "upload" => cmd.digest \in Digests /\ st.bound[cmd.digest] \notin t.inv,
         cmd.kind \in ArtworkKinds => st.parked = None
  PROVE  Ledger(new, t)
<1> DEFINE op == new.pending
<1>1. /\ op.cmd = cmd /\ op.phase = "prepared" /\ op.receipt = None /\ op.before = t.inv
  OBVIOUS
<1>2. op # None
  <2>1. op \in Operations
    BY <1>1 DEF Operations, Phases, TVs
  <2> QED BY <2>1, NoneIsNoOperation
<1> HIDE DEF op
<1>3. Uploads(st) \subseteq Uploads(new) /\ Uploads(new) \subseteq Uploads(st) \cup {op}
  BY DEF Uploads, IsUpload, op
<1>4. Accounted(new, t)
  BY <1>3 DEF Ledger, Accounted, InJournal
<1>5. Present(new, t)
  BY DEF Ledger, Present, IsDelete
<1>6. \A up \in Uploads(st) : OpenUpload(new, up, t)
  BY DEF Ledger, JournalTrue, OpenUpload
<1>7. IsUpload(op) => OpenUpload(new, op, t)
  <2> SUFFICES ASSUME IsUpload(op) PROVE OpenUpload(new, op, t)
    OBVIOUS
  <2>1. cmd.kind = "upload" /\ st.parked = None
    BY <1>1 DEF IsUpload, ArtworkKinds
  <2>2. ~Pictured(t, cmd.digest)
    BY <2>1, UploadIsNew
  <2> QED BY <1>1, <2>1, <2>2 DEF OpenUpload, Pictured
<1>8. \A up \in Uploads(new) : OpenUpload(new, up, t)
  BY <1>3, <1>6, <1>7 DEF Uploads
<1>9. JournalTrue(new, t)
  BY <1>1, <1>8 DEF JournalTrue, IsDelete, op
<1> QED BY <1>4, <1>5, <1>9 DEF Ledger

\* A command that did nothing leaves the journal.
LEMMA ClearedLedger ==
  ASSUME NEW st, NEW t, Ledger(st, t), st.pending # None, NEW new,
         new.bound = st.bound, new.parked = st.parked, new.pending = None,
         st.pending.cmd.kind = "upload" => t.late = None /\ ~Pictured(t, st.pending.cmd.digest),
         st.pending.cmd.kind = "delete-owned" => st.pending.cmd.content \in t.inv
  PROVE  Ledger(new, t)
<1>1. Uploads(new) \subseteq Uploads(st)
  BY DEF Uploads, IsUpload
<1>2. \A up \in Uploads(st) : up \in Uploads(new) \/ up = st.pending
  BY DEF Uploads, IsUpload
<1>3. Accounted(new, t)
  <2>1. ASSUME NEW c \in t.inv, t.holds[c] # Foreign
        PROVE  new.bound[t.holds[c]] = c \/ InJournal(new, t.holds[c])
    <3>1. CASE st.bound[t.holds[c]] = c
      BY <3>1
    <3>2. CASE InJournal(st, t.holds[c])
      <4>1. PICK up \in Uploads(st) : up.cmd.digest = t.holds[c]
        BY <3>2 DEF InJournal
      <4>2. up # st.pending
        BY <4>1 DEF Uploads, IsUpload, Pictured
      <4> QED BY <1>2, <4>1, <4>2 DEF InJournal
    <3> QED BY <2>1, <3>1, <3>2 DEF Ledger, Accounted
  <2>2. t.late # None => InJournal(new, t.late)
    <3> SUFFICES ASSUME t.late # None PROVE InJournal(new, t.late)
      OBVIOUS
    <3>1. PICK up \in Uploads(st) : up.cmd.digest = t.late
      BY DEF Ledger, Accounted, InJournal
    <3>2. up # st.pending
      BY <3>1 DEF Uploads, IsUpload
    <3> QED BY <1>2, <3>1, <3>2 DEF InJournal
  <2> QED BY <2>1, <2>2 DEF Accounted
<1>4. Present(new, t)
  BY DEF Ledger, Present, JournalTrue, IsDelete
<1>5. JournalTrue(new, t)
  BY <1>1 DEF Ledger, JournalTrue, OpenUpload, IsDelete
<1> QED BY <1>3, <1>4, <1>5 DEF Ledger

-----------------------------------------------------------------------------
(* What the TV does to a ledger.                                           *)

\* An image appears under a content ID no record mentions, of a picture that is
\* the owner's, the late upload's, or of an upload in the journal.
LEMMA AddedLedger ==
  ASSUME NEW st \in States, ValidState(st), NEW t \in TVs, NEW u \in TVs, Ledger(st, t),
         NEW c \in ContentIds, c \notin t.inv, c \notin Mentioned(st), NEW picture,
         u.inv = t.inv \cup {c}, u.holds = [t.holds EXCEPT ![c] = picture],
         picture = Foreign \/ InJournal(st, picture),
         u.late \in {t.late, None}
  PROVE  Ledger(st, u)
<1>1. /\ t.inv \subseteq ContentIds /\ t.holds \in [ContentIds -> Digests \cup {Foreign}]
      /\ \A b \in t.inv : u.holds[b] = t.holds[b]
      /\ u.holds[c] = picture
  BY DEF TVs
<1>2. \A d \in Digests : st.bound[d] # c
  BY NoneIsDistinct DEF Mentioned, BoundContent
<1>3. Accounted(st, u)
  BY <1>1 DEF Ledger, Accounted
<1>4. Present(st, u)
  BY DEF Ledger, Present
<1>5. JournalTrue(st, u)
  <2>1. ASSUME NEW op \in Uploads(st)
        PROVE  OpenUpload(st, op, u)
    <3>1. OpenUpload(st, op, t)
      BY DEF Ledger, JournalTrue
    <3>2. st.bound[op.cmd.digest] \notin u.inv
      <4>1. st.bound[op.cmd.digest] # c
        <5>1. op.cmd.digest \in Digests
          BY UploadsTyped
        <5> QED BY <1>2, <5>1
      <4> QED BY <3>1, <4>1 DEF OpenUpload
    <3>3. op.cmd.digest # None
      BY UploadsTyped, NoneIsDistinct
    <3>4. op.receipt # None => op.receipt \in u.inv /\ u.late # op.cmd.digest
      BY <3>1, <3>3 DEF OpenUpload
    <3>5. op.before \subseteq u.inv /\ \A b \in op.before : u.holds[b] # op.cmd.digest
      BY <1>1, <3>1 DEF OpenUpload
    <3> QED BY <3>1, <3>2, <3>4, <3>5 DEF OpenUpload
  <2>2. IsDelete(st.pending) => st.pending.cmd.content # c
    BY DEF IsDelete, Mentioned
  <2> QED BY <2>1, <2>2 DEF Ledger, JournalTrue
<1> QED BY <1>3, <1>4, <1>5 DEF Ledger

LEMMA AddedOnce ==
  ASSUME NEW t \in TVs, NEW u \in TVs, Once(t), NEW c \in ContentIds, c \notin t.inv, NEW picture,
         u.inv = t.inv \cup {c}, u.holds = [t.holds EXCEPT ![c] = picture],
         picture = Foreign \/ ~Pictured(t, picture),
         u.late = None \/ (u.late = t.late /\ picture = Foreign)
  PROVE  Once(u)
<1>1. /\ t.inv \subseteq ContentIds
      /\ \A b \in t.inv : u.holds[b] = t.holds[b]
      /\ u.holds[c] = picture
  BY DEF TVs
<1>2. u.late # None => u.late # Foreign
  BY ForeignIsDistinct DEF TVs
<1> QED BY <1>1, <1>2 DEF Once, Pictured

-----------------------------------------------------------------------------
(* What the run knows.                                                     *)

ClearedSteps == {"settle", "plan", "observe", "replan", "finish", "power-off",
                 "save-recovered", "save-parked", "save-settled", "save-rejected",
                 "save-cancelled", "save-resolved", "save-final"}

Recovering == {"recover", "save-recovered", "save-parked", "settle", "save-settled", "plan"}

\* A new command is only planned with the journal cleared.
PendingCleared == pc \in ClearedSteps => mem.pending = None

\* What is folded at once is a receipt.
ReceiptFolded == pc = "save-applied" => mem.pending.phase = "applied"

\* What is about to be sent has not happened, and is not happening.
NotYetDone ==
  AboutToSend =>
    /\ cand.kind = "upload" => tv.late = None /\ ~Pictured(tv, cand.digest) /\ ~settled
    /\ cand.kind = "delete-owned" => cand.content \in tv.inv
    /\ cand.kind = "delete-unknown" => cand.content \notin BoundContent(mem)

\* No transfer is left once the settle time has passed.
NothingOnItsWay == settled => tv.late = None

\* While a run recovers, its observation tells what became of every image the
\* record mentions, and of every upload once the settle time has passed.
SeenEnough ==
  pc \in Recovering =>
    /\ Tells(obs, mem, tv)
    /\ settled /\ obs.art => \A c \in tv.inv : tv.holds[c] # Foreign => c \in obs.inv

\* An upload leaves its place in the journal by settling only.
ParkedUntilSettled == pc # "save-settled" /\ mem.parked = None => disk.parked = None

LInv == /\ Ledger(mem, tv) /\ Ledger(disk, tv) /\ Once(tv)
        /\ PendingCleared /\ ReceiptFolded /\ NotYetDone /\ NothingOnItsWay /\ SeenEnough
        /\ prune = {} /\ ParkedUntilSettled

-----------------------------------------------------------------------------
(* The ledgers at each step.                                               *)

LEMMA MemoryLedger ==
  ASSUME IInv, Claims, LInv, Orderly, RunStep, ~EndRun, pc # "apply"
  PROVE  Ledger(mem', tv)
<1>1. /\ mem \in States /\ disk \in States /\ obs \in Observations /\ desired \in SUBSET Digests
      /\ tv \in TVs /\ ValidState(mem) /\ settled \in BOOLEAN /\ tv.inv \in SUBSET ContentIds
      /\ "overwrites" \notin Hazards /\ mem' \in States
  BY NextIInv DEF IInv, TypeOK, ValidRecords, Orderly, TVs, Next
<1>2. CASE mem'.bound = mem.bound /\ mem'.pending = mem.pending /\ mem'.parked = mem.parked
  BY <1>2, LedgerSame DEF LInv
<1>3. CASE Recover
  <2>1. pc \in Recovering
    BY <1>3 DEF Recover, Recovering
  <2>2. CASE mem.pending # None /\ Resolvable(mem.pending, obs) /\ mem' = Resolved(mem, obs)
    BY <1>1, <2>1, <2>2, ResolvedLedger DEF LInv, SeenEnough, Claims
  <2>3. CASE mem.pending # None /\ Parkable(mem) /\ mem' = Parked(mem)
    BY <1>1, <2>3, ParkedLedger DEF LInv
  <2> QED BY <1>2, <1>3, <2>2, <2>3 DEF Recover, Store
<1>4. CASE Settle
  <2>1. CASE Settles(mem, obs, settled) /\ mem' = Settled(mem, obs)
    <3>1. mem.pending = None
      BY <1>4 DEF Settle, LInv, PendingCleared, ClearedSteps
    <3>2. Tells(obs, mem, tv)
      BY <1>4 DEF Settle, LInv, SeenEnough, Recovering
    <3>3. settled => tv.late = None /\ \A c \in tv.inv : tv.holds[c] # Foreign => c \in obs.inv
      BY <1>4, <2>1 DEF Settle, LInv, SeenEnough, Recovering, NothingOnItsWay, Settles
    <3> QED BY <1>1, <2>1, <3>1, <3>2, <3>3, SettledLedger DEF LInv, Claims
  <2> QED BY <1>2, <1>4, <2>1 DEF Settle, Store
<1>5. CASE Plan \/ Replan \/ Reconsider
  <2>1. PICK inv : mem' = mem \/ mem' = Planned(desired, mem, inv, due, stale)
    BY <1>5 DEF Plan, Replan, AdoptPlan, Reconsider, Store
  <2>2. mem'.bound = mem.bound /\ mem'.pending = mem.pending /\ mem'.parked = mem.parked
    BY <1>1, <2>1, PlannedParts
  <2> QED BY <2>2, <1>2
<1>6. CASE Execute
  <2>1. mem.pending = None
    BY <1>6 DEF Execute, LInv, PendingCleared, ClearedSteps
  <2>2. cand \in Commands
    <3>1. pc' = "save-prepared" /\ cand' = cand /\ mem'.pending.cmd = cand
      BY <1>6, ExecutePlans DEF Execute, Store, Goto
    <3>2. IInv'
      BY <1>6, ExecuteKeeps
    <3>3. cand \in Commands \cup {None} /\ mem'.pending # None /\ mem'.pending \in Operations \cup {None}
      BY <3>1, <3>2, <1>1, TypedParts DEF IInv, TypeOK, InFlight
    <3> QED BY <3>1, <3>3, TypedOperation
  <2>3. /\ mem'.bound = mem.bound /\ mem'.parked = mem.parked
        /\ mem'.pending = [cmd |-> cand, phase |-> "prepared", receipt |-> None, before |-> tv.inv]
        /\ cand.kind = "delete-owned" => mem.bound[cand.digest] = cand.content
        /\ cand.kind = "upload" => cand.digest \in Digests /\ mem.bound[cand.digest] \notin tv.inv
        /\ cand.kind \in ArtworkKinds => mem.parked = None
    BY <1>6, ExecutePlans
  <2> QED BY <1>1, <2>1, <2>2, <2>3, PreparedLedger DEF LInv
<1>7. CASE FallbackPowerOff
  <2>1. mem.pending = None
    BY <1>7 DEF FallbackPowerOff, LInv, PendingCleared, ClearedSteps
  <2>2. PowerOff \in Commands /\ PowerOff.kind = "power-off"
    BY DEF PowerOff, Commands, ArtworkKinds
  <2>3. mem' = Prepared(mem, PowerOff, tv.inv)
    BY <1>7 DEF FallbackPowerOff, Store
  <2>4. /\ mem'.bound = mem.bound /\ mem'.parked = mem.parked
        /\ mem'.pending = [cmd |-> PowerOff, phase |-> "prepared", receipt |-> None, before |-> tv.inv]
    BY <1>1, <2>3 DEF Prepared, States
  <2>5. PowerOff.kind \notin ArtworkKinds /\ PowerOff.kind # "upload" /\ PowerOff.kind # "delete-owned"
    BY <2>2 DEF ArtworkKinds
  <2> QED BY <1>1, <2>1, <2>2, <2>4, <2>5, PreparedLedger DEF LInv
<1>8. CASE Finish
  <2>1. mem'.pending = mem.pending /\ mem'.parked = mem.parked /\ mem'.bound = mem.bound
    <3>1. CASE mem' = mem
      BY <3>1
    <3>2. CASE mem' = [mem EXCEPT !.bound = [d \in Digests |-> IF d \in prune THEN None ELSE mem.bound[d]]]
      BY <1>1, <3>2 DEF LInv, States
    <3> QED BY <1>8, <3>1, <3>2 DEF Finish, Store
  <2> QED BY <2>1, <1>2
<1>9. CASE SavedApplied
  <2>1. mem.pending # None /\ mem' = Resolved(mem, obs)
    BY <1>9 DEF SavedApplied, Store, Written, IInv, InFlight
  <2>2. pc = "save-applied"
    BY <1>9 DEF SavedApplied, Written
  <2>3. mem.pending.phase = "applied"
    BY <2>2 DEF LInv, ReceiptFolded
  <2> QED BY <1>1, <2>1, <2>3, ResolvedLedger DEF LInv, Claims
<1>10. CASE SaveFails
  <2>1. mem' = mem \/ mem' = disk
    BY <1>10 DEF SaveFails, Store
  <2> QED BY <2>1 DEF LInv
<1>11. CASE \/ Begin \/ ObserveFails \/ SavedRecovery \/ SavedSettled \/ SavedPrepared
            \/ SavedUnknown \/ SavedRejected \/ SavedResolved \/ FallBack
  <2>1. UNCHANGED mem
    BY <1>11
    DEF Begin, ObserveFails, SavedRecovery, SavedSettled, SavedPrepared,
        SavedUnknown, SavedRejected, SavedResolved, FallBack
  <2> QED BY <2>1, <1>2
<1>12. ~(\/ SkipIneligible \/ SavedCancelled \/ SavedFinal \/ SaveOutcomeUnknown \/ GiveUp
         \/ FallbackNotNeeded)
  BY DEF SkipIneligible, SavedCancelled, SavedFinal, SaveOutcomeUnknown, GiveUp, FallbackNotNeeded
<1>13. ~(\/ Cancelled \/ SlowPacing \/ NotAuthorized \/ LinkDown \/ Refused \/ Unlisted \/ StorageFull
         \/ Applied \/ ReplyLost \/ AnsweredForAnother)
  BY DEF Cancelled, SlowPacing, NotAuthorized, LinkDown, Refused, Unlisted, StorageFull, Applied,
         ReplyLost, AnsweredForAnother
<1> QED BY <1>3, <1>4, <1>5, <1>6, <1>7, <1>8, <1>9, <1>10, <1>11, <1>12, <1>13 DEF RunStep

\* The record of a command and of what is known of its answer, with the TV the
\* command was carried out by.
LEMMA AnsweredLedger ==
  ASSUME IInv, Claims, LInv, Orderly, pc = "apply", NEW content \in AnswerIds,
         NEW new \in States, ValidState(new),
         new.bound = mem.bound, new.parked = mem.parked,
         new.pending # None, new.pending.cmd = cand, new.pending.before = mem.pending.before,
         new.pending.receipt \in {content, None},
         new.pending.phase = "applied" => new.pending.receipt = content
  PROVE  Ledger(new, Effect(cand, content)) /\ Once(Effect(cand, content))
<1> DEFINE u == Effect(cand, content)
<1>1. /\ mem \in States /\ ValidState(mem) /\ mem.pending \in Operations /\ mem.pending # None
      /\ mem.pending.cmd = cand /\ cand \in Commands /\ ValidIntent(cand) /\ mem.pending.phase = "prepared"
      /\ mem = disk /\ tv \in TVs /\ u \in TVs /\ u.late = tv.late
  BY AtApply, TypedOperation, EffectParts DEF IInv, TypeOK, InFlight
<1>2. /\ Ledger(mem, tv) /\ Once(tv) /\ AboutToSend
      /\ cand.kind = "upload" => tv.late = None /\ ~Pictured(tv, cand.digest) /\ ~settled
      /\ cand.kind = "delete-unknown" => cand.content \notin BoundContent(mem)
  BY DEF LInv, NotYetDone, AboutToSend
<1>3. new.pending \in Operations
  BY TypedParts
<1>4. CASE cand.kind = "upload"
  <2>1. /\ content \in ContentIds /\ cand.digest \in Digests
        /\ u.inv = tv.inv \cup {content}
        /\ u.holds = [tv.holds EXCEPT ![content] = cand.digest]
    BY <1>4, EffectParts
  <2>2. content \notin tv.inv /\ content \notin Mentioned(mem) /\ content # None
    BY <1>4, <2>1, NoneIsDistinct DEF AnswerIds, UploadIds, FreshIds, Orderly
  <2>3. mem.pending \in Uploads(mem) /\ mem.parked = None /\ Uploads(mem) = {mem.pending}
    BY <1>1, <1>2, <1>4 DEF Uploads, IsUpload, Ledger, JournalTrue, ArtworkKinds
  <2>4. new.pending \in Uploads(new) /\ Uploads(new) = {new.pending} /\ new.parked = None
        /\ ~IsDelete(new.pending)
    BY <1>4, <2>3 DEF Uploads, IsUpload, IsDelete
  <2> HIDE DEF u
  <2>5. Ledger(mem, u)
    <3>1. InJournal(mem, cand.digest)
      BY <1>1, <2>3 DEF InJournal
    <3> QED BY <1>1, <1>2, <2>1, <2>2, <3>1, AddedLedger
  <2>6. Once(u)
    BY <1>1, <1>2, <1>4, <2>1, <2>2, AddedOnce
  <2>7. Accounted(new, u)
    <3>1. \A d : InJournal(mem, d) => InJournal(new, d)
      BY <1>1, <2>3, <2>4 DEF InJournal
    <3> QED BY <2>5, <3>1 DEF Ledger, Accounted
  <2>8. Present(new, u)
    <3>1. ~IsDelete(mem.pending)
      BY <1>1, <1>4 DEF IsDelete
    <3> QED BY <2>5, <3>1 DEF Ledger, Present
  <2>9. JournalTrue(new, u)
    <3>1. OpenUpload(mem, mem.pending, u)
      BY <2>3, <2>5 DEF Ledger, JournalTrue
    <3>2. u.late # cand.digest
      BY <1>1, <1>2, <1>4, <2>1, NoneIsDistinct
    <3>3. OpenUpload(new, new.pending, u)
      BY <1>1, <2>1, <2>2, <3>1, <3>2 DEF OpenUpload
    <3> QED BY <2>4, <3>3 DEF JournalTrue
  <2> QED BY <2>6, <2>7, <2>8, <2>9 DEF Ledger, u
<1>5. CASE cand.kind \in {"delete-owned", "delete-unknown"}
  <2>1. /\ u.inv = tv.inv \ {cand.content}
        /\ u.holds = [tv.holds EXCEPT ![cand.content] = Foreign]
    BY <1>5, EffectParts
  <2>2. /\ mem.parked = None /\ Uploads(mem) = {} /\ Uploads(new) = {}
        /\ new.parked = None
    BY <1>1, <1>2, <1>5 DEF Uploads, IsUpload, Ledger, JournalTrue, ArtworkKinds
  <2> HIDE DEF u
  <2>3. \A c \in u.inv : c \in tv.inv /\ u.holds[c] = tv.holds[c]
    BY <1>1, <2>1 DEF TVs
  <2>4. tv.late = None
    BY <1>2, <2>2 DEF Ledger, Accounted, InJournal
  <2>5. Accounted(new, u)
    BY <1>1, <1>2, <2>2, <2>3, <2>4 DEF Ledger, Accounted, InJournal
  <2>6. Once(u)
    BY <1>1, <1>2, <2>3, <2>4 DEF Once
  <2>7. \A d \in Digests : mem.bound[d] # None => mem.bound[d] \in tv.inv \/ (cand.kind = "delete-owned" /\ cand.digest = d)
    BY <1>1, <1>2 DEF Ledger, Present, IsDelete
  <2>8. IsDelete(new.pending) <=> cand.kind = "delete-owned"
    BY DEF IsDelete
  <2>9. cand.kind = "delete-owned" => mem.bound[cand.digest] = cand.content /\ cand.digest \in Digests
    BY <1>1, <1>2, TypedOperation DEF Ledger, JournalTrue, IsDelete, ValidIntent, Commands
  <2>10. Present(new, u)
    <3>1. ASSUME NEW d \in Digests, mem.bound[d] # None, mem.bound[d] = cand.content
          PROVE  cand.kind = "delete-owned" /\ cand.digest = d
      BY <1>1, <1>2, <1>5, <2>9, <3>1 DEF BoundContent, ValidState
    <3> QED BY <2>1, <2>7, <2>8, <3>1 DEF Present
  <2>11. JournalTrue(new, u)
    BY <2>1, <2>2, <2>8, <2>9 DEF JournalTrue
  <2> QED BY <2>5, <2>6, <2>10, <2>11 DEF Ledger, u
<1>6. CASE cand.kind \in {"setting", "power-off"}
  <2>1. u.inv = tv.inv /\ u.holds = tv.holds
    BY <1>6, EffectParts
  <2>2. /\ ~IsUpload(mem.pending) /\ ~IsUpload(new.pending) /\ ~IsDelete(mem.pending) /\ ~IsDelete(new.pending)
    BY <1>1, <1>6 DEF IsUpload, IsDelete
  <2>3. Uploads(new) = Uploads(mem)
    BY <2>2 DEF Uploads
  <2>4. new.pending.cmd.kind \notin ArtworkKinds
    BY <1>6 DEF ArtworkKinds
  <2> HIDE DEF u
  <2>5. Accounted(new, u) /\ Once(u)
    BY <1>1, <1>2, <2>1, <2>3 DEF Ledger, Accounted, InJournal, Once, Pictured
  <2>6. Present(new, u)
    BY <1>2, <2>1, <2>2 DEF Ledger, Present
  <2>7. JournalTrue(new, u)
    BY <1>1, <1>2, <2>1, <2>2, <2>3, <2>4 DEF Ledger, JournalTrue, OpenUpload
  <2> QED BY <2>5, <2>6, <2>7 DEF Ledger, u
<1> QED BY <1>1, <1>4, <1>5, <1>6 DEF Commands, ArtworkKinds

\* An answer that is not known, of a command that was not carried out, or of an
\* upload that may still be.
LEMMA UnansweredLedger ==
  ASSUME IInv, Claims, LInv, Orderly, pc = "apply", NEW u \in TVs,
         u.inv = tv.inv, u.holds = tv.holds,
         u.late = tv.late \/ (cand.kind = "upload" /\ u.late = cand.digest),
         NEW new \in States, ValidState(new),
         new.bound = mem.bound, new.parked = mem.parked,
         new.pending # None, new.pending.cmd = cand, new.pending.before = mem.pending.before,
         new.pending.receipt = None, new.pending.phase # "applied"
  PROVE  Ledger(new, u) /\ Once(u)
<1>1. /\ mem \in States /\ ValidState(mem) /\ mem.pending \in Operations /\ mem.pending # None
      /\ mem.pending.cmd = cand /\ mem.pending.phase = "prepared"
  BY AtApply, TypedOperation DEF IInv, TypeOK, InFlight
<1>2. /\ Ledger(mem, tv) /\ Once(tv)
      /\ cand.kind = "upload" => tv.late = None /\ ~Pictured(tv, cand.digest)
  BY DEF LInv, NotYetDone, AboutToSend
<1>3. mem.pending.receipt = None
  BY <1>1 DEF ValidState, ValidOperation
<1>4. Uploads(new) = IF cand.kind = "upload" THEN {new.pending} \cup (Uploads(mem) \ {mem.pending})
                     ELSE Uploads(mem)
  <2>1. cand.kind = "upload" => mem.parked = None
    BY <1>1, <1>2 DEF Ledger, JournalTrue, ArtworkKinds
  <2>2. CASE cand.kind = "upload"
    BY <1>1, <2>1, <2>2 DEF Uploads, IsUpload
  <2>3. CASE cand.kind # "upload"
    BY <1>1, <2>3 DEF Uploads, IsUpload
  <2> QED BY <2>2, <2>3
<1>5. \A d : InJournal(mem, d) => InJournal(new, d)
  BY <1>1, <1>4 DEF InJournal
<1>6. Accounted(new, u)
  <2>1. u.late # None => InJournal(new, u.late)
    <3>1. CASE u.late = tv.late
      BY <1>2, <1>5, <3>1 DEF Ledger, Accounted
    <3>2. CASE cand.kind = "upload" /\ u.late = cand.digest
      BY <1>4, <3>2 DEF InJournal
    <3> QED BY <3>1, <3>2
  <2> QED BY <1>2, <1>5, <2>1 DEF Ledger, Accounted
<1>7. Present(new, u)
  BY <1>1, <1>2 DEF Ledger, Present, IsDelete
<1>8. JournalTrue(new, u)
  <2>1. ASSUME cand.kind = "upload"
        PROVE  OpenUpload(new, new.pending, u)
    <3>1. mem.pending \in Uploads(mem)
      BY <1>1, <2>1 DEF Uploads, IsUpload
    <3>2. OpenUpload(mem, mem.pending, tv)
      BY <1>2, <3>1 DEF Ledger, JournalTrue
    <3> QED BY <1>1, <3>2 DEF OpenUpload
  <2>2. ASSUME NEW up \in Uploads(mem), cand.kind # "upload"
        PROVE  OpenUpload(new, up, u)
    BY <1>2, <2>2 DEF Ledger, JournalTrue, OpenUpload
  <2>3. cand.kind = "upload" => mem.parked = None
    BY <1>1, <1>2 DEF Ledger, JournalTrue, ArtworkKinds
  <2>4. \A up \in Uploads(new) : OpenUpload(new, up, u)
    <3>1. CASE cand.kind = "upload"
      <4>1. Uploads(mem) \ {mem.pending} = {}
        BY <2>3, <3>1 DEF Uploads, IsUpload
      <4> QED BY <1>4, <2>1, <3>1, <4>1
    <3>2. CASE cand.kind # "upload"
      BY <1>4, <2>2, <3>2
    <3> QED BY <3>1, <3>2
  <2> QED BY <1>1, <1>2, <2>4 DEF Ledger, JournalTrue, IsDelete
<1>9. Once(u)
  BY <1>2 DEF Once, Pictured
<1> QED BY <1>6, <1>7, <1>8, <1>9 DEF Ledger

LEMMA ApplyLedger ==
  ASSUME IInv, Claims, LInv, Orderly, RunStep, pc = "apply"
  PROVE  Ledger(mem', tv') /\ Ledger(disk', tv') /\ Once(tv')
<1>1. /\ mem \in States /\ ValidState(mem) /\ mem = disk /\ tv \in TVs /\ mem.pending # None
      /\ mem.pending.cmd = cand /\ mem.pending.phase = "prepared" /\ mem.pending.receipt = None
      /\ tv' \in TVs /\ mem' \in States /\ ValidState(mem')
  <2>1. IInv'
    BY NextIInv DEF Next
  <2>2. /\ mem \in States /\ ValidState(mem) /\ mem = disk /\ tv \in TVs /\ mem.pending # None
        /\ mem.pending.cmd = cand /\ mem.pending.phase = "prepared"
    BY DEF IInv, TypeOK, InFlight, ValidRecords
  <2>3. mem.pending.receipt = None
    BY <2>2 DEF ValidState, ValidOperation
  <2> QED BY <2>1, <2>2, <2>3 DEF IInv, TypeOK, ValidRecords
<1>2. CASE Cancelled \/ NotAuthorized \/ LinkDown \/ Refused \/ StorageFull
  <2>1. mem'.pending = None /\ mem'.bound = mem.bound /\ mem'.parked = mem.parked /\ disk' = disk
    BY <1>1, <1>2
    DEF Cancelled, Store, NotAuthorized, LinkDown, Refused, StorageFull, Reject, States
  <2>2. tv' = tv
    BY <1>2 DEF Cancelled, NotAuthorized, LinkDown, Refused, StorageFull
  <2>3. /\ cand.kind = "upload" => tv.late = None /\ ~Pictured(tv, cand.digest)
        /\ cand.kind = "delete-owned" => cand.content \in tv.inv
    BY DEF LInv, NotYetDone, AboutToSend
  <2>4. Ledger(mem', tv)
    BY <1>1, <2>1, <2>3, ClearedLedger DEF LInv
  <2> QED BY <2>1, <2>2, <2>4 DEF LInv
<1>3. ~(Unlisted \/ SlowPacing \/ AnsweredForAnother)
  BY DEF Unlisted, SlowPacing, AnsweredForAnother, Disturbed, Orderly
<1>4. ASSUME NEW content \in AnswerIds, tv' = Effect(cand, content), disk' = disk,
             NEW known \in {content, None}, RecordApplied(known) \/ RecordUnknown(known),
             RecordApplied(known) => known = content
      PROVE  Ledger(mem', tv') /\ Ledger(disk', tv') /\ Once(tv')
  <2>1. known \in ContentIds \cup {None}
    BY <1>4, AnswersAreIds
  <2>2. /\ mem'.bound = mem.bound /\ mem'.parked = mem.parked
        /\ mem'.pending # None /\ mem'.pending.cmd = cand
        /\ mem'.pending.receipt = known /\ mem'.pending.before = mem.pending.before
        /\ mem'.pending.phase = IF RecordApplied(known) THEN "applied" ELSE "outcome-unknown"
    BY <1>4, <2>1, AnsweredParts
  <2>3. Ledger(mem', tv') /\ Once(tv')
    BY <1>1, <1>4, <2>2, AnsweredLedger
  <2>4. Ledger(disk', tv')
    BY <1>1, <1>4, AnsweredLedger
  <2> QED BY <2>3, <2>4
<1>5. ASSUME tv'.inv = tv.inv, tv'.holds = tv.holds, disk' = disk, RecordUnknown(None),
             tv'.late = tv.late \/ (cand.kind = "upload" /\ tv'.late = cand.digest)
      PROVE  Ledger(mem', tv') /\ Ledger(disk', tv') /\ Once(tv')
  <2>1. pc' = "save-unknown"
    BY <1>5 DEF RecordUnknown, Goto
  <2>2. ~RecordApplied(None)
    BY <2>1 DEF RecordApplied, Goto
  <2>3. /\ mem'.bound = mem.bound /\ mem'.parked = mem.parked
        /\ mem'.pending # None /\ mem'.pending.cmd = cand
        /\ mem'.pending.receipt = None /\ mem'.pending.before = mem.pending.before
        /\ mem'.pending.phase # "applied"
    BY <1>5, <2>2, AnsweredParts
  <2>4. Ledger(mem', tv') /\ Once(tv')
    BY <1>1, <1>5, <2>3, UnansweredLedger
  <2>5. Ledger(disk', tv')
    BY <1>1, <1>5, UnansweredLedger
  <2> QED BY <2>4, <2>5
<1>6. CASE Applied
  <2>1. PICK content \in AnswerIds : tv' = Effect(cand, content) /\ RecordApplied(content)
    BY <1>6 DEF Applied
  <2>2. disk' = disk
    BY <2>1 DEF RecordApplied
  <2> QED BY <1>4, <2>1, <2>2
<1>7. CASE ReplyLost
  <2>1. CASE \E content \in AnswerIds : /\ tv' = Effect(cand, content)
                                        /\ \E known \in {content, None} : RecordUnknown(known)
    <3>1. PICK content \in AnswerIds : /\ tv' = Effect(cand, content)
                                       /\ \E known \in {content, None} : RecordUnknown(known)
      BY <2>1
    <3>2. PICK known \in {content, None} : RecordUnknown(known)
      BY <3>1
    <3>3. disk' = disk /\ pc' = "save-unknown"
      BY <3>2 DEF RecordUnknown, Goto
    <3>4. ~RecordApplied(known)
      BY <3>3 DEF RecordApplied, Goto
    <3> QED BY <1>4, <3>1, <3>2, <3>3, <3>4
  <2>2. CASE RecordUnknown(None) /\ (tv' = tv \/ (cand.kind = "upload" /\ tv' = [tv EXCEPT !.late = cand.digest]))
    <3>1. /\ tv'.inv = tv.inv /\ tv'.holds = tv.holds
          /\ tv'.late = tv.late \/ (cand.kind = "upload" /\ tv'.late = cand.digest)
      BY <1>1, <2>2 DEF TVs
    <3> QED BY <1>5, <2>2, <3>1 DEF RecordUnknown
  <2> QED BY <1>7, <2>1, <2>2 DEF ReplyLost
<1>8. ~(\/ Begin \/ Recover \/ Settle
        \/ SkipIneligible \/ Plan \/ Replan \/ Execute \/ Reconsider \/ ObserveFails \/ Finish
        \/ SavedRecovery \/ SavedSettled \/ SavedPrepared \/ SavedCancelled \/ SavedUnknown
        \/ SavedRejected \/ SavedApplied \/ SavedResolved \/ SavedFinal
        \/ SaveFails \/ SaveOutcomeUnknown
        \/ GiveUp \/ FallBack \/ FallbackPowerOff \/ FallbackNotNeeded)
  BY DEF Begin, Recover, Settle, SkipIneligible, Plan, Replan, Execute, Reconsider, ObserveFails,
         Finish, Written, SavedRecovery, SavedSettled, SavedPrepared, SavedCancelled, SavedUnknown,
         SavedRejected, SavedApplied, SavedResolved, SavedFinal, SaveFails, SaveOutcomeUnknown,
         SaveSteps, GiveUp, FallBack, FallbackPowerOff, FallbackNotNeeded
<1> QED BY <1>2, <1>3, <1>6, <1>7, <1>8 DEF RunStep

\* An image that appears by the owner's hand, or late.
LEMMA OutsideAdds ==
  ASSUME IInv, OwnerActs \/ LateUpload, "owner-removes" \notin Hazards
  PROVE  \/ tv'.inv = tv.inv /\ tv'.holds = tv.holds /\ tv'.late \in {tv.late, None}
         \/ \E c \in FreshIds :
              /\ tv'.inv = tv.inv \cup {c}
              /\ \/ tv'.holds = [tv.holds EXCEPT ![c] = Foreign] /\ tv'.late = tv.late
                 \/ /\ tv.late # None /\ tv'.late = None
                    /\ tv'.holds = [tv.holds EXCEPT ![c] = tv.late]
<1>1. tv \in TVs
  BY DEF IInv, TypeOK
<1>2. CASE OwnerActs
  <2>1. CASE \E c \in FreshIds : tv' = [tv EXCEPT !.inv = @ \cup {c}, !.holds[c] = Foreign]
    <3>1. PICK c \in FreshIds : tv' = [tv EXCEPT !.inv = @ \cup {c}, !.holds[c] = Foreign]
      BY <2>1
    <3>2. /\ tv'.inv = tv.inv \cup {c} /\ tv'.holds = [tv.holds EXCEPT ![c] = Foreign]
          /\ tv'.late = tv.late
      BY <1>1, <3>1 DEF TVs
    <3> QED BY <3>2
  <2>2. CASE tv' = [tv EXCEPT !.art = ~@] \/ tv' = [tv EXCEPT !.set = ~@]
    BY <1>1, <2>2 DEF TVs
  <2> QED BY <1>2, <2>1, <2>2 DEF OwnerActs, Disturbed
<1>3. CASE LateUpload
  <2>1. CASE \E c \in FreshIds :
               tv' = [tv EXCEPT !.inv = @ \cup {c}, !.holds[c] = tv.late, !.late = None]
    <3>1. PICK c \in FreshIds :
            tv' = [tv EXCEPT !.inv = @ \cup {c}, !.holds[c] = tv.late, !.late = None]
      BY <2>1
    <3>2. /\ tv'.inv = tv.inv \cup {c} /\ tv'.holds = [tv.holds EXCEPT ![c] = tv.late]
          /\ tv'.late = None
      BY <1>1, <3>1 DEF TVs
    <3> QED BY <1>3, <3>2 DEF LateUpload
  <2>2. CASE tv' = [tv EXCEPT !.late = None]
    BY <1>1, <2>2 DEF TVs
  <2> QED BY <1>3, <2>1, <2>2 DEF LateUpload
<1> QED BY <1>2, <1>3

\* With the same images and perhaps less on its way, a ledger stays true.
LEMMA LessOnItsWay ==
  ASSUME NEW st \in States, ValidState(st), NEW t, NEW u, Ledger(st, t), Once(t),
         u.inv = t.inv, u.holds = t.holds, u.late \in {t.late, None}
  PROVE  Ledger(st, u) /\ Once(u)
<1>1. \A op \in Uploads(st) : op.cmd.digest # None
  BY UploadsTyped, NoneIsDistinct
<1>2. Accounted(st, u) /\ Present(st, u) /\ Once(u)
  BY DEF Ledger, Accounted, Present, Once, Pictured
<1>3. JournalTrue(st, u)
  BY <1>1 DEF Ledger, JournalTrue, OpenUpload
<1> QED BY <1>2, <1>3 DEF Ledger

LEMMA OutsideLedger ==
  ASSUME IInv, LInv, Orderly, OwnerActs \/ LateUpload
  PROVE  Ledger(mem, tv') /\ Ledger(disk, tv') /\ Once(tv')
<1>1. /\ mem \in States /\ disk \in States /\ ValidState(mem) /\ ValidState(disk) /\ tv \in TVs
      /\ "owner-removes" \notin Hazards
  BY DEF IInv, TypeOK, ValidRecords, Orderly
<1>2. tv' \in TVs
  BY NextIInv DEF IInv, TypeOK, Next
<1>3. Ledger(mem, tv) /\ Ledger(disk, tv) /\ Once(tv)
  BY DEF LInv
<1>4. CASE tv'.inv = tv.inv /\ tv'.holds = tv.holds /\ tv'.late \in {tv.late, None}
  BY <1>1, <1>3, <1>4, LessOnItsWay
<1>5. ASSUME NEW c \in FreshIds, tv'.inv = tv.inv \cup {c}, NEW picture,
             tv'.holds = [tv.holds EXCEPT ![c] = picture],
             \/ picture = Foreign /\ tv'.late = tv.late
             \/ tv.late # None /\ picture = tv.late /\ tv'.late = None
      PROVE  Ledger(mem, tv') /\ Ledger(disk, tv') /\ Once(tv')
  <2>1. c \in ContentIds /\ c \notin tv.inv /\ c \notin Mentioned(mem) /\ c \notin Mentioned(disk)
    BY DEF FreshIds
  <2>2. /\ picture = Foreign \/ InJournal(mem, picture)
        /\ picture = Foreign \/ InJournal(disk, picture)
        /\ picture = Foreign \/ ~Pictured(tv, picture)
    BY <1>3, <1>5 DEF Ledger, Accounted, Once
  <2>3. tv'.late \in {tv.late, None} /\ (tv'.late = None \/ (tv'.late = tv.late /\ picture = Foreign))
    BY <1>5
  <2>4. Ledger(mem, tv')
    BY <1>1, <1>2, <1>3, <1>5, <2>1, <2>2, <2>3, AddedLedger
  <2>5. Ledger(disk, tv')
    BY <1>1, <1>2, <1>3, <1>5, <2>1, <2>2, <2>3, AddedLedger
  <2>6. Once(tv')
    BY <1>1, <1>2, <1>3, <1>5, <2>1, <2>2, <2>3, AddedOnce
  <2> QED BY <2>4, <2>5, <2>6
<1> QED BY <1>1, <1>4, <1>5, OutsideAdds

LEMMA NextLedger ==
  ASSUME IInv, Claims, LInv, Orderly, [Next]_vars
  PROVE  Ledger(mem', tv') /\ Ledger(disk', tv') /\ Once(tv')
<1>1. CASE RunStep /\ pc # "apply"
  <2>1. tv' = tv
    BY <1>1, TvWaits
  <2>2. Ledger(disk', tv)
    BY <1>1, FileIsMemory DEF LInv
  <2>3. Ledger(mem', tv)
    <3>1. CASE EndRun
      BY <2>2, <3>1 DEF EndRun
    <3>2. CASE ~EndRun
      BY <1>1, <3>2, MemoryLedger
    <3> QED BY <3>1, <3>2
  <2> QED BY <2>1, <2>2, <2>3 DEF LInv
<1>2. CASE RunStep /\ pc = "apply"
  BY <1>2, ApplyLedger
<1>3. CASE Crash
  BY <1>3 DEF Crash, EndRun, LInv
<1>4. CASE OwnerActs \/ LateUpload
  <2>1. disk' = disk /\ mem' = mem
    BY <1>4 DEF OwnerActs, LateUpload
  <2> QED BY <1>4, <2>1, OutsideLedger
<1>5. CASE CollectionCommits \/ SettleTimePasses \/ UNCHANGED vars
  BY <1>5 DEF CollectionCommits, SettleTimePasses, vars, LInv
<1> QED BY <1>1, <1>2, <1>3, <1>4, <1>5 DEF Next

-----------------------------------------------------------------------------
(* What the run knows, at each step.                                       *)

\* What is left alone by everyone but the run.
LEMMA OutsideRun ==
  ASSUME CollectionCommits \/ OwnerActs \/ LateUpload \/ SettleTimePasses \/ UNCHANGED vars
  PROVE  UNCHANGED <<disk, mem, pc, obs, cand, prune>>
  BY DEF CollectionCommits, OwnerActs, LateUpload, SettleTimePasses, vars, runVars, planVars

LEMMA NextPendingCleared ==
  ASSUME IInv, LInv, [Next]_vars
  PROVE  PendingCleared' /\ ReceiptFolded'
<1>1. /\ mem \in States /\ obs \in Observations /\ PendingCleared /\ ReceiptFolded
  BY DEF IInv, TypeOK, LInv
<1>2. CASE EndRun
  BY <1>2 DEF EndRun, PendingCleared, ReceiptFolded, ClearedSteps
<1>3. CASE Recover
  <2>1. pc' # "save-applied"
    BY <1>3 DEF Recover, Store, Goto
  <2>2. CASE mem.pending = None /\ UNCHANGED mem
    BY <2>1, <2>2 DEF PendingCleared, ReceiptFolded
  <2>3. CASE mem.pending # None /\ mem' = Resolved(mem, obs)
    BY <1>1, <2>1, <2>3, ResolvedParts DEF PendingCleared, ReceiptFolded
  <2>4. CASE mem' = Parked(mem)
    BY <1>1, <2>1, <2>4, ParkedParts DEF PendingCleared, ReceiptFolded
  <2>5. CASE pc' = "failed"
    BY <2>5 DEF PendingCleared, ReceiptFolded, ClearedSteps
  <2> QED BY <1>3, <2>2, <2>3, <2>4, <2>5 DEF Recover, Store, Goto
<1>4. CASE Settle
  <2>1. pc' # "save-applied" /\ mem.pending = None
    BY <1>1, <1>4 DEF Settle, Store, Goto, PendingCleared, ClearedSteps
  <2>2. mem'.pending = None
    BY <1>1, <1>4, <2>1, SettledParts DEF Settle, Settles, Store
  <2> QED BY <2>1, <2>2 DEF PendingCleared, ReceiptFolded
<1>5. CASE Plan \/ Replan \/ Reconsider
  <2>1. PICK inv : mem' = mem \/ mem' = Planned(desired, mem, inv, due, stale)
    BY <1>5 DEF Plan, Replan, AdoptPlan, Reconsider, Store
  <2>2. pc' # "save-applied" /\ mem.pending = None
    BY <1>1, <1>5 DEF Plan, Replan, AdoptPlan, Reconsider, Store, Goto, PendingCleared, ClearedSteps
  <2>3. mem'.pending = mem.pending
    BY <1>1, <2>1, PlannedParts
  <2> QED BY <2>2, <2>3 DEF PendingCleared, ReceiptFolded
<1>6. CASE Finish
  <2>1. mem'.pending = mem.pending
    BY <1>1, <1>6 DEF Finish, Store, States
  <2> QED BY <1>1, <1>6, <2>1 DEF Finish, Store, Goto, PendingCleared, ReceiptFolded, ClearedSteps
<1>7. CASE SavedRecovery \/ SavedSettled \/ SavedRejected \/ SavedResolved
  <2>1. mem.pending = None /\ (mem' = mem \/ EndRun) /\ (pc' # "save-applied" \/ EndRun)
    BY <1>1, <1>7
    DEF SavedRecovery, SavedSettled, SavedRejected, SavedResolved, Written, Goto, PendingCleared,
        ClearedSteps
  <2> QED BY <1>2, <2>1 DEF PendingCleared, ReceiptFolded
<1>8. CASE SavedApplied
  <2>1. mem.pending # None /\ mem' = Resolved(mem, obs) /\ pc' = "save-resolved"
    BY <1>8 DEF SavedApplied, Store, Goto, Written, IInv, InFlight
  <2> QED BY <1>1, <2>1, ResolvedParts DEF PendingCleared, ReceiptFolded
<1>9. CASE Cancelled \/ NotAuthorized \/ LinkDown \/ Refused \/ Unlisted \/ StorageFull
  <2>1. mem'.pending = None /\ pc' # "save-applied"
    BY <1>1, <1>9
    DEF Cancelled, Store, Goto, NotAuthorized, LinkDown, Refused, Unlisted, StorageFull, Reject, States
  <2> QED BY <2>1 DEF PendingCleared, ReceiptFolded
<1>10. CASE Applied \/ AnsweredForAnother
  <2>1. PICK content \in ContentIds \cup {None} : RecordApplied(content) /\ pc = "apply"
    BY <1>10, AnswersAreIds DEF Applied, AnsweredForAnother, FreshIds
  <2>2. mem'.pending.phase = "applied" /\ pc' = "save-applied"
    BY <2>1, AnsweredParts DEF RecordApplied, Goto
  <2> QED BY <2>2 DEF PendingCleared, ReceiptFolded, ClearedSteps
<1>11. CASE FallBack
  BY <1>11 DEF FallBack, MayStillPowerOff, Goto, PendingCleared, ReceiptFolded
<1>12. CASE \/ Begin \/ Execute \/ ObserveFails \/ SavedPrepared \/ SavedUnknown \/ SaveFails
            \/ ReplyLost \/ FallbackPowerOff
  <2>1. EndRun \/ pc' \in {"recover", "save-prepared", "failed", "apply", "save-unknown"}
    BY <1>12
    DEF Begin, Execute, ObserveFails, SavedPrepared, SavedUnknown, SaveFails, ReplyLost, RecordUnknown,
        FallbackPowerOff, Store, Goto
  <2> QED BY <1>2, <2>1 DEF PendingCleared, ReceiptFolded, ClearedSteps
<1>13. CASE SlowPacing
  BY <1>1, <1>13 DEF SlowPacing, PendingCleared, ReceiptFolded, ClearedSteps
<1>14. CASE \/ SkipIneligible \/ SavedCancelled \/ SavedFinal \/ SaveOutcomeUnknown \/ GiveUp
            \/ FallbackNotNeeded \/ Crash
  BY <1>2, <1>14
  DEF SkipIneligible, SavedCancelled, SavedFinal, SaveOutcomeUnknown, GiveUp, FallbackNotNeeded, Crash
<1>15. CASE CollectionCommits \/ OwnerActs \/ LateUpload \/ SettleTimePasses \/ UNCHANGED vars
  BY <1>1, <1>15, OutsideRun DEF PendingCleared, ReceiptFolded
<1> QED BY <1>3, <1>4, <1>5, <1>6, <1>7, <1>8, <1>9, <1>10, <1>11, <1>12, <1>13, <1>14, <1>15
        DEF Next, RunStep

\* What is about to be sent is a command with its payload.
LEMMA InFlightCommand ==
  ASSUME IInv, AboutToSend
  PROVE  cand \in Commands /\ ValidIntent(cand)
<1>1. mem \in States /\ mem.pending # None /\ mem.pending.cmd = cand /\ ValidState(mem)
  BY DEF IInv, TypeOK, InFlight, ValidRecords, AboutToSend
<1>2. mem.pending \in Operations
  BY <1>1, TypedParts
<1> QED BY <1>1, <1>2, TypedOperation DEF ValidState, ValidOperation

\* A command waits to be sent from its journal entry on.
LEMMA SendingWaits ==
  ASSUME RunStep, AboutToSend, AboutToSend', Orderly
  PROVE  SavedPrepared
<1>1. ~(SlowPacing \/ AnsweredForAnother)
  BY DEF Orderly, SlowPacing, AnsweredForAnother, Disturbed
<1>2. ~EndRun
  BY DEF EndRun, AboutToSend
<1>3. ~(\/ Begin \/ Recover \/ Settle
        \/ SkipIneligible \/ Plan \/ Replan \/ Execute \/ Reconsider \/ ObserveFails \/ Finish
        \/ SavedRecovery \/ SavedSettled \/ SavedCancelled \/ SavedUnknown
        \/ SavedRejected \/ SavedApplied \/ SavedResolved \/ SavedFinal
        \/ GiveUp \/ FallBack \/ FallbackPowerOff \/ FallbackNotNeeded)
  BY DEF AboutToSend, Begin, Recover, Settle, SkipIneligible, Plan, Replan, Execute, Reconsider,
         ObserveFails, Finish, Written, SavedRecovery, SavedSettled, SavedCancelled, SavedUnknown,
         SavedRejected, SavedApplied, SavedResolved, SavedFinal,
         GiveUp, FallBack, FallbackPowerOff, FallbackNotNeeded
<1>4. ~(SaveFails \/ SaveOutcomeUnknown)
  BY <1>2 DEF SaveFails, SaveOutcomeUnknown, Store, Goto, AboutToSend
<1>5. ~(Cancelled \/ NotAuthorized \/ LinkDown \/ Refused \/ Unlisted \/ StorageFull)
  BY DEF Cancelled, NotAuthorized, LinkDown, Refused, Unlisted, StorageFull, Reject, Store, Goto, AboutToSend
<1>6. ~(Applied \/ ReplyLost)
  BY DEF Applied, ReplyLost, RecordApplied, RecordUnknown, Goto, AboutToSend
<1> QED BY <1>1, <1>3, <1>4, <1>5, <1>6 DEF RunStep

\* An image that appears outside the run is the owner's, or one of an upload
\* that was on its way.
LEMMA OutsideShows ==
  ASSUME IInv, OwnerActs \/ LateUpload, "owner-removes" \notin Hazards
  PROVE  /\ tv.inv \subseteq tv'.inv
         /\ tv'.late \in {tv.late, None}
         /\ \A c \in tv'.inv : \/ c \in tv.inv /\ tv'.holds[c] = tv.holds[c]
                               \/ c \in FreshIds /\ tv'.holds[c] = Foreign
                               \/ c \in FreshIds /\ tv.late # None /\ tv'.holds[c] = tv.late
<1>1. tv \in TVs
  BY DEF IInv, TypeOK
<1>2. CASE tv'.inv = tv.inv /\ tv'.holds = tv.holds /\ tv'.late \in {tv.late, None}
  BY <1>2
<1>3. ASSUME NEW c \in FreshIds, NEW picture, tv'.inv = tv.inv \cup {c},
             tv'.holds = [tv.holds EXCEPT ![c] = picture],
             \/ picture = Foreign /\ tv'.late = tv.late
             \/ tv.late # None /\ tv'.late = None /\ picture = tv.late
      PROVE  /\ tv.inv \subseteq tv'.inv
             /\ tv'.late \in {tv.late, None}
             /\ \A b \in tv'.inv : \/ b \in tv.inv /\ tv'.holds[b] = tv.holds[b]
                                   \/ b \in FreshIds /\ tv'.holds[b] = Foreign
                                   \/ b \in FreshIds /\ tv.late # None /\ tv'.holds[b] = tv.late
  <2>1. c \notin tv.inv /\ c \in ContentIds /\ tv.holds \in [ContentIds -> Digests \cup {Foreign}]
        /\ tv.inv \subseteq ContentIds
    BY <1>1 DEF FreshIds, TVs
  <2> QED BY <1>3, <2>1
<1> QED BY <1>2, <1>3, OutsideAdds

LEMMA NextNotYetDone ==
  ASSUME IInv, LInv, Orderly, [Next]_vars
  PROVE  NotYetDone'
<1> SUFFICES ASSUME AboutToSend' PROVE NotYetDone'
  BY DEF NotYetDone
<1>1. /\ mem \in States /\ tv \in TVs /\ settled \in BOOLEAN
      /\ Ledger(mem, tv) /\ PendingCleared /\ NotYetDone
  BY DEF IInv, TypeOK, LInv
<1>2. CASE Execute
  <2>1. /\ cand' = cand /\ tv' = tv /\ pc = "observe"
        /\ settled' = (settled /\ cand.kind # "upload")
    BY <1>2 DEF Execute
  <2>2. mem.pending = None
    BY <1>1, <2>1 DEF PendingCleared, ClearedSteps
  <2>3. cand.kind = "upload" => tv.late = None /\ ~Pictured(tv, cand.digest)
    BY <1>1, <1>2, <2>2, ExecutePlans, UploadIsNew DEF ArtworkKinds
  <2>4. BoundContent(mem)' = BoundContent(mem)
    BY <1>2, ExecutePlans DEF BoundContent
  <2> QED BY <1>2, <2>1, <2>3, <2>4, ExecutePlans DEF NotYetDone
<1>3. CASE cand' = PowerOff
  BY <1>3 DEF NotYetDone, PowerOff
<1>4. CASE AboutToSend /\ UNCHANGED <<mem, cand, obs>>
  <2>1. /\ cand.kind = "upload" => tv.late = None /\ ~Pictured(tv, cand.digest) /\ ~settled
        /\ cand.kind = "delete-owned" => cand.content \in tv.inv
        /\ cand.kind = "delete-unknown" => cand.content \notin BoundContent(mem)
    BY <1>1, <1>4 DEF NotYetDone
  <2>2. BoundContent(mem)' = BoundContent(mem)
    BY <1>4 DEF BoundContent
  <2>3. CASE tv' = tv /\ settled' = settled
    BY <1>4, <2>1, <2>2, <2>3 DEF NotYetDone
  <2>4. CASE RunStep
    <3>1. tv' = tv /\ settled' = settled
      BY <1>4, <2>4, SendingWaits DEF SavedPrepared, outside
    <3> QED BY <2>3, <3>1
  <2>5. CASE OwnerActs \/ LateUpload
    <3>1. settled' = settled /\ "owner-removes" \notin Hazards
      BY <2>5 DEF OwnerActs, LateUpload, Orderly
    <3>2. cand.kind = "upload" => ValidIntent(cand) /\ cand.digest # Foreign
      <4>1. cand.kind = "upload" => cand.digest \in Digests
        <5>1. cand \in Commands /\ ValidIntent(cand)
          BY <1>4, InFlightCommand
        <5> QED BY <5>1 DEF Commands, ValidIntent
      <4> QED BY <4>1, ForeignIsDistinct, NoneIsDistinct DEF ValidIntent
    <3>3. cand.kind = "upload" => ~Pictured(tv', cand.digest) /\ tv'.late = None
      BY <2>1, <2>5, <3>1, <3>2, OutsideShows DEF Pictured
    <3>4. cand.kind = "delete-owned" => cand.content \in tv'.inv
      BY <2>1, <2>5, <3>1, OutsideShows
    <3> QED BY <1>4, <2>1, <2>2, <3>1, <3>3, <3>4 DEF NotYetDone
  <2>6. CASE Crash
    BY <2>6 DEF Crash, EndRun, AboutToSend
  <2>7. CASE SettleTimePasses
    BY <1>4, <2>7 DEF SettleTimePasses, AboutToSend
  <2>8. CASE CollectionCommits \/ UNCHANGED vars
    BY <2>3, <2>8 DEF CollectionCommits, vars
  <2> QED BY <2>4, <2>5, <2>6, <2>7, <2>8 DEF Next
<1> QED BY <1>2, <1>3, <1>4, SendingSteps

\* Only the passing of time between two runs ends the wait for a transfer.
LEMMA SettledStays ==
  ASSUME RunStep, Orderly, settled \in BOOLEAN
  PROVE  settled' => settled
<1>1. ~(SlowPacing \/ AnsweredForAnother)
  BY DEF Orderly, SlowPacing, AnsweredForAnother, Disturbed
<1> QED
  BY <1>1
  DEF RunStep, Begin, Recover, Settle, SkipIneligible, Plan, Replan, Execute, Reconsider,
      ObserveFails, Finish, SavedRecovery, SavedSettled, SavedPrepared,
      SavedCancelled, SavedUnknown, SavedRejected, SavedApplied, SavedResolved, SavedFinal,
      SaveFails, SaveOutcomeUnknown, Cancelled, NotAuthorized, LinkDown, Reject,
      Refused, Unlisted, StorageFull, Applied, RecordApplied, ReplyLost, RecordUnknown,
      GiveUp, FallBack, FallbackPowerOff, FallbackNotNeeded, outside

\* What a command that is not an upload does to a transfer.
LEMMA NoTransfer ==
  ASSUME IInv, RunStep, Orderly, pc = "apply", cand.kind # "upload"
  PROVE  tv'.late = tv.late
<1>1. tv \in TVs
  BY DEF IInv, TypeOK
<1>2. ~(SlowPacing \/ AnsweredForAnother \/ Unlisted)
  BY DEF Orderly, SlowPacing, AnsweredForAnother, Unlisted, Disturbed
<1>3. CASE Cancelled \/ NotAuthorized \/ LinkDown \/ Refused \/ StorageFull
  BY <1>3 DEF Cancelled, NotAuthorized, LinkDown, Refused, StorageFull
<1>4. CASE \E content \in AnswerIds : tv' = Effect(cand, content)
  BY <1>4, EffectParts
<1>5. CASE Applied \/ ReplyLost
  BY <1>4, <1>5 DEF Applied, ReplyLost
<1>6. ~(\/ Begin \/ Recover \/ Settle
        \/ SkipIneligible \/ Plan \/ Replan \/ Execute \/ Reconsider \/ ObserveFails \/ Finish
        \/ SavedRecovery \/ SavedSettled \/ SavedPrepared \/ SavedCancelled \/ SavedUnknown
        \/ SavedRejected \/ SavedApplied \/ SavedResolved \/ SavedFinal
        \/ SaveFails \/ SaveOutcomeUnknown
        \/ GiveUp \/ FallBack \/ FallbackPowerOff \/ FallbackNotNeeded)
  BY DEF Begin, Recover, Settle, SkipIneligible, Plan, Replan, Execute, Reconsider, ObserveFails,
         Finish, Written, SavedRecovery, SavedSettled, SavedPrepared, SavedCancelled, SavedUnknown,
         SavedRejected, SavedApplied, SavedResolved, SavedFinal, SaveFails, SaveOutcomeUnknown,
         SaveSteps, GiveUp, FallBack, FallbackPowerOff, FallbackNotNeeded
<1> QED BY <1>2, <1>3, <1>5, <1>6 DEF RunStep

LEMMA NextNothingOnItsWay ==
  ASSUME IInv, LInv, Orderly, [Next]_vars
  PROVE  NothingOnItsWay'
<1> SUFFICES ASSUME settled' PROVE tv'.late = None
  BY DEF NothingOnItsWay
<1>1. settled \in BOOLEAN /\ NothingOnItsWay /\ NotYetDone
  BY DEF IInv, TypeOK, LInv
<1>2. CASE RunStep
  <2>1. settled /\ tv.late = None
    BY <1>1, <1>2, SettledStays DEF NothingOnItsWay
  <2>2. CASE pc = "apply"
    <3>1. cand.kind # "upload"
      BY <1>1, <2>1, <2>2 DEF NotYetDone, AboutToSend
    <3> QED BY <1>2, <2>1, <2>2, <3>1, NoTransfer
  <2>3. CASE pc # "apply"
    BY <1>2, <2>1, <2>3, TvWaits
  <2> QED BY <2>2, <2>3
<1>3. CASE OwnerActs \/ LateUpload
  <2>1. settled /\ tv.late = None
    BY <1>1, <1>3 DEF OwnerActs, LateUpload, NothingOnItsWay
  <2> QED BY <1>3, <2>1, OutsideShows DEF Orderly
<1>4. CASE SettleTimePasses
  BY <1>4 DEF SettleTimePasses
<1>5. CASE Crash \/ CollectionCommits \/ UNCHANGED vars
  BY <1>1, <1>5 DEF Crash, CollectionCommits, vars, NothingOnItsWay
<1> QED BY <1>2, <1>3, <1>4, <1>5 DEF Next

LEMMA MentionedLess ==
  ASSUME NEW st, NEW new,
         new.pending \in {st.pending, None}, new.parked \in {st.pending, st.parked, None},
         \A d \in Digests : \/ new.bound[d] \in {st.bound[d], None}
                            \/ \E op \in {st.pending, st.parked} \ {None} : new.bound[d] = op.receipt
  PROVE  Mentioned(new) \subseteq Mentioned(st)
  BY DEF Mentioned, BoundContent

\* Recovery mentions nothing new.
LEMMA RecoveryMentions ==
  ASSUME IInv, Recover \/ Settle
  PROVE  Mentioned(mem') \subseteq Mentioned(mem)
<1>1. mem \in States /\ obs \in Observations
  BY DEF IInv, TypeOK
<1>2. CASE mem' = mem
  BY <1>2
<1>3. CASE mem.pending # None /\ mem' = Resolved(mem, obs)
  <2>1. mem'.pending = None /\ mem'.parked = mem.parked
    BY <1>1, <1>3, ResolvedParts
  <2>2. \/ mem'.bound = mem.bound
        \/ mem'.bound = Rebound(mem.bound, mem.pending.cmd.digest, mem.pending.receipt)
        \/ mem'.bound = [mem.bound EXCEPT ![mem.pending.cmd.digest] = None]
    BY <1>1, <1>3, ResolvedParts
  <2>3. ASSUME NEW d \in Digests
        PROVE  \/ mem'.bound[d] \in {mem.bound[d], None}
               \/ \E op \in {mem.pending, mem.parked} \ {None} : mem'.bound[d] = op.receipt
    BY <1>1, <1>3, <2>2, TypedParts, ReboundClaims
  <2> QED BY <2>1, <2>3, MentionedLess
<1>4. CASE mem' = Parked(mem)
  <2>1. mem'.pending = None /\ mem'.parked = mem.pending /\ mem'.bound = mem.bound
    BY <1>1, <1>4, ParkedParts
  <2> QED BY <2>1, MentionedLess
<1>5. CASE mem.parked # None /\ mem' = Settled(mem, obs)
  <2>1. mem'.pending = mem.pending /\ mem'.parked = None
    BY <1>1, <1>5, SettledParts
  <2>2. \/ mem'.bound = mem.bound
        \/ mem'.bound = Rebound(mem.bound, mem.parked.cmd.digest, mem.parked.receipt)
    BY <1>1, <1>5, SettledParts
  <2>3. ASSUME NEW d \in Digests
        PROVE  \/ mem'.bound[d] \in {mem.bound[d], None}
               \/ \E op \in {mem.pending, mem.parked} \ {None} : mem'.bound[d] = op.receipt
    BY <1>5, <2>2, ReboundClaims
  <2> QED BY <2>1, <2>3, MentionedLess
<1> QED BY <1>2, <1>3, <1>4, <1>5 DEF Recover, Settle, Settles, Store

\* What leads to a step of recovery.
LEMMA RecoveringSteps ==
  ASSUME [Next]_vars, pc' \in Recovering
  PROVE  \/ Begin \/ Recover \/ Settle \/ SavedRecovery \/ SavedSettled
         \/ OwnerActs \/ LateUpload
         \/ pc \in Recovering /\ UNCHANGED <<mem, obs, tv, settled>>
<1>1. CASE RunStep
  <2>1. ~EndRun
    BY DEF EndRun, Recovering
  <2>2. ~(\/ SkipIneligible \/ Plan \/ Replan \/ Execute \/ Reconsider \/ ObserveFails \/ Finish
          \/ SavedPrepared \/ SavedCancelled \/ SavedUnknown
          \/ SavedRejected \/ SavedApplied \/ SavedResolved \/ SavedFinal
          \/ SaveFails \/ SaveOutcomeUnknown)
    BY <2>1
    DEF Recovering, SkipIneligible, Plan, Replan, AdoptPlan, Execute, Reconsider, ObserveFails, Finish,
        SavedPrepared, SavedCancelled, SavedUnknown, SavedRejected, SavedApplied, SavedResolved,
        SavedFinal, SaveFails, SaveOutcomeUnknown, Goto, Store
  <2>3. ~(\/ Cancelled \/ SlowPacing \/ NotAuthorized \/ LinkDown \/ Refused \/ Unlisted
          \/ StorageFull \/ Applied \/ ReplyLost \/ AnsweredForAnother
          \/ GiveUp \/ FallBack \/ FallbackPowerOff \/ FallbackNotNeeded)
    BY <2>1
    DEF Recovering, Cancelled, SlowPacing, NotAuthorized, LinkDown, Refused, Unlisted, StorageFull,
        Reject, Applied, ReplyLost, AnsweredForAnother, RecordApplied, RecordUnknown, GiveUp, FallBack,
        FallbackPowerOff, FallbackNotNeeded, Goto, Store
  <2> QED BY <1>1, <2>2, <2>3 DEF RunStep
<1>2. CASE Crash
  BY <1>2 DEF Crash, EndRun, Recovering
<1>3. CASE SettleTimePasses
  BY <1>3 DEF SettleTimePasses, Recovering
<1>4. CASE CollectionCommits \/ UNCHANGED vars
  BY <1>4 DEF CollectionCommits, vars, runVars, planVars
<1> QED BY <1>1, <1>2, <1>3, <1>4 DEF Next

LEMMA NextSeenEnough ==
  ASSUME IInv, LInv, Orderly, [Next]_vars
  PROVE  SeenEnough'
<1> SUFFICES ASSUME pc' \in Recovering
             PROVE  /\ Tells(obs', mem', tv')
                    /\ settled' /\ obs'.art => \A c \in tv'.inv : tv'.holds[c] # Foreign => c \in obs'.inv
  BY DEF SeenEnough, Tells, Mentioned, BoundContent
<1>1. SeenEnough /\ NothingOnItsWay /\ settled \in BOOLEAN
  BY DEF LInv, IInv, TypeOK
<1>2. CASE Begin
  <2>1. mem' = mem /\ obs' = Look /\ tv' = tv
    BY <1>2 DEF Begin, outside
  <2> QED BY <2>1 DEF Tells, Look
<1>3. CASE Recover \/ Settle
  <2>1. obs' = obs /\ tv' = tv /\ settled' = settled /\ pc \in Recovering
    BY <1>3 DEF Recover, Settle, outside, Recovering
  <2>2. Mentioned(mem') \subseteq Mentioned(mem)
    BY <1>3, RecoveryMentions
  <2> QED BY <1>1, <2>1, <2>2 DEF SeenEnough, Tells
<1>4. CASE SavedRecovery \/ SavedSettled
  <2>1. obs' = obs /\ tv' = tv /\ settled' = settled /\ mem' = mem /\ pc \in Recovering
    BY <1>4 DEF SavedRecovery, SavedSettled, Written, runVars, planVars, outside, Recovering
  <2> QED BY <1>1, <2>1 DEF SeenEnough
<1>5. CASE OwnerActs \/ LateUpload
  <2>1. obs' = obs /\ settled' = settled /\ mem' = mem /\ pc' = pc
    BY <1>5 DEF OwnerActs, LateUpload, runVars, planVars
  <2>2. \A c \in FreshIds : c \notin Mentioned(mem)
    BY DEF FreshIds
  <2>3. settled => tv.late = None
    BY <1>1 DEF NothingOnItsWay
  <2> QED BY <1>1, <1>5, <2>1, <2>2, <2>3, OutsideShows DEF SeenEnough, Tells, Orderly
<1>6. CASE pc \in Recovering /\ UNCHANGED <<mem, obs, tv, settled>>
  BY <1>1, <1>6 DEF SeenEnough
<1> QED BY <1>2, <1>3, <1>4, <1>5, <1>6, RecoveringSteps

\* What is bound is seen on the TV, so no binding is ever collected.
LEMMA NothingToPrune ==
  ASSUME IInv, LInv, mem.pending = None
  PROVE  /\ pc = "plan" /\ obs.art => PruneNow(obs) = {}
         /\ tv.art => PruneNow(Look) = {}
<1>1. Present(mem, tv) /\ SeenEnough
  BY DEF LInv, Ledger
<1>2. \A d \in Digests : mem.bound[d] # None => mem.bound[d] \in tv.inv
  BY <1>1 DEF Present, IsDelete
<1>3. \A d \in Digests : mem.bound[d] # None => mem.bound[d] \in Mentioned(mem)
  BY DEF Mentioned, BoundContent
<1>4. ASSUME pc = "plan", obs.art
      PROVE  PruneNow(obs) = {}
  BY <1>1, <1>2, <1>3, <1>4 DEF SeenEnough, Recovering, Tells, PruneNow, Prunable
<1>5. ASSUME tv.art
      PROVE  PruneNow(Look) = {}
  BY <1>2, <1>5 DEF Look, PruneNow, Prunable
<1> QED BY <1>4, <1>5

LEMMA NextNothingPruned ==
  ASSUME IInv, LInv, [Next]_vars
  PROVE  prune' = {}
<1>1. prune = {} /\ PendingCleared
  BY DEF LInv
<1>2. CASE EndRun
  BY <1>2 DEF EndRun
<1>3. CASE Plan
  <2>1. pc = "plan" /\ obs.art /\ prune' = PruneNow(obs)
    BY <1>3 DEF Plan
  <2> QED BY <1>1, <2>1, NothingToPrune DEF PendingCleared, ClearedSteps
<1>4. CASE Execute \/ Reconsider
  <2>1. pc = "observe" /\ tv.art /\ prune' = prune \cup PruneNow(Look)
    BY <1>4 DEF Execute, Reconsider
  <2> QED BY <1>1, <2>1, NothingToPrune DEF PendingCleared, ClearedSteps
<1>5. CASE RunStep
  BY <1>1, <1>2, <1>3, <1>4, <1>5
  DEF RunStep, Begin, Recover, Settle, SkipIneligible, Replan,
      ObserveFails, Finish, SavedRecovery, SavedSettled, SavedPrepared,
      SavedCancelled, SavedUnknown, SavedRejected, SavedApplied, SavedResolved, SavedFinal,
      SaveFails, SaveOutcomeUnknown, Cancelled, SlowPacing, NotAuthorized, LinkDown, Reject,
      Refused, Unlisted, StorageFull, Applied, RecordApplied, ReplyLost, RecordUnknown,
      AnsweredForAnother, GiveUp, FallBack, FallbackPowerOff, FallbackNotNeeded, runVars, planVars
<1>6. CASE Crash
  BY <1>2, <1>6 DEF Crash
<1>7. CASE CollectionCommits \/ OwnerActs \/ LateUpload \/ SettleTimePasses \/ UNCHANGED vars
  BY <1>1, <1>7, OutsideRun
<1> QED BY <1>5, <1>6, <1>7 DEF Next

LEMMA NextParkedUntilSettled ==
  ASSUME IInv, LInv, [Next]_vars
  PROVE  ParkedUntilSettled'
<1>1. mem \in States /\ obs \in Observations /\ ParkedUntilSettled /\ PendingCleared
      /\ tv.inv \in SUBSET ContentIds /\ desired \in SUBSET Digests /\ disk \in States
  BY DEF IInv, TypeOK, LInv, TVs
<1>2. CASE EndRun
  BY <1>2 DEF EndRun, ParkedUntilSettled
<1>3. CASE RunStep /\ ~EndRun /\ pc = "save-settled"
  <2>1. CASE SavedSettled
    BY <2>1 DEF SavedSettled, Written, ParkedUntilSettled
  <2>2. CASE SaveFails
    BY <1>3, <2>2 DEF SaveFails, Store, ParkedUntilSettled
  <2> QED
    BY <1>3, <2>1, <2>2
    DEF RunStep, Begin, Recover, Settle, SkipIneligible, Plan, Replan, Execute, Reconsider, ObserveFails,
        Finish, Written, SavedRecovery, SavedPrepared, SavedCancelled, SavedUnknown,
        SavedRejected, SavedApplied, SavedResolved, SavedFinal, SaveOutcomeUnknown,
        Cancelled, SlowPacing, NotAuthorized, LinkDown, Refused, Unlisted, StorageFull, Applied,
        ReplyLost, AnsweredForAnother, GiveUp, FallBack, FallbackPowerOff, FallbackNotNeeded
<1>4. CASE mem'.parked = mem.parked /\ disk' \in {disk, mem} /\ pc # "save-settled"
  BY <1>1, <1>4 DEF ParkedUntilSettled
<1>5. CASE Recover
  <2>1. disk' = disk /\ pc = "recover" /\ pc' # "save-settled"
    BY <1>5 DEF Recover, Store, Goto
  <2>2. CASE mem.pending # None /\ mem' = Parked(mem)
    BY <1>1, <2>1, <2>2, ParkedParts DEF ParkedUntilSettled
  <2>3. CASE mem.pending # None /\ mem' = Resolved(mem, obs)
    BY <1>1, <1>4, <2>1, <2>3, ResolvedParts
  <2> QED BY <1>4, <1>5, <2>1, <2>2, <2>3 DEF Recover, Store
<1>6. CASE Settle
  <2>1. disk' = disk /\ pc = "settle"
    BY <1>6 DEF Settle
  <2>2. pc' = "save-settled" \/ mem' = mem
    BY <1>6 DEF Settle, Store, Goto
  <2> QED BY <1>4, <2>1, <2>2 DEF ParkedUntilSettled
<1>7. CASE Execute \/ FallbackPowerOff \/ Plan \/ Replan \/ Reconsider
  <2>1. disk' = disk /\ pc # "save-settled"
    BY <1>7 DEF Execute, FallbackPowerOff, Plan, Replan, Reconsider
  <2>2. mem'.parked = mem.parked
    <3>1. CASE Execute
      BY <3>1, ExecutePlans
    <3>2. CASE FallbackPowerOff
      BY <1>1, <3>2 DEF FallbackPowerOff, Store, Prepared, States
    <3>3. CASE Plan \/ Replan \/ Reconsider
      <4>1. PICK inv : mem' = mem \/ mem' = Planned(desired, mem, inv, due, stale)
        BY <3>3 DEF Plan, Replan, AdoptPlan, Reconsider, Store
      <4> QED BY <1>1, <4>1, PlannedParts
    <3> QED BY <1>7, <3>1, <3>2, <3>3
  <2> QED BY <1>4, <2>1, <2>2
<1>8. CASE Finish
  BY <1>1, <1>4, <1>8 DEF Finish, Store, States
<1>9. CASE SavedApplied
  <2>1. mem.pending # None /\ mem' = Resolved(mem, obs) /\ disk' = mem /\ pc = "save-applied"
    BY <1>9 DEF SavedApplied, Store, Written, IInv, InFlight
  <2> QED BY <1>1, <1>4, <2>1, ResolvedParts
<1>10. CASE SaveFails /\ ~EndRun
  <2>1. disk' = disk /\ mem' \in {mem, disk}
    BY <1>10 DEF SaveFails, Store
  <2>2. mem' = disk \/ pc # "save-settled"
    BY <1>10 DEF SaveFails, Store
  <2> QED BY <1>4, <2>1, <2>2 DEF ParkedUntilSettled
<1>11. CASE RunStep /\ pc = "apply"
  <2>1. disk' \in {disk, mem}
    BY <1>11, FileIsMemory
  <2>2. CASE Cancelled \/ NotAuthorized \/ LinkDown \/ Refused \/ Unlisted \/ StorageFull
    <3>1. mem'.parked = mem.parked
      BY <1>1, <2>2
      DEF Cancelled, Store, NotAuthorized, LinkDown, Refused, Unlisted, StorageFull, Reject, States
    <3> QED BY <1>4, <1>11, <2>1, <3>1
  <2>3. CASE SlowPacing
    BY <1>4, <1>11, <2>1, <2>3 DEF SlowPacing
  <2>4. ASSUME NEW content, content \in ContentIds \cup {None}, RecordApplied(content) \/ RecordUnknown(content)
        PROVE  mem'.parked = mem.parked
    BY <1>11, <2>4, AnsweredParts
  <2>5. CASE Applied \/ ReplyLost \/ AnsweredForAnother
    <3>1. \E content \in ContentIds \cup {None} : RecordApplied(content) \/ RecordUnknown(content)
      BY <1>11, <2>5, AnswersAreIds DEF Applied, ReplyLost, AnsweredForAnother, FreshIds
    <3> QED BY <1>4, <1>11, <2>1, <2>4, <3>1
  <2> QED
    BY <1>11, <2>2, <2>3, <2>5
    DEF RunStep, Begin, Recover, Settle, SkipIneligible, Plan, Replan, Execute, Reconsider, ObserveFails,
        Finish, Written, SavedRecovery, SavedSettled, SavedPrepared, SavedCancelled, SavedUnknown,
        SavedRejected, SavedApplied, SavedResolved, SavedFinal, SaveFails, SaveOutcomeUnknown,
        SaveSteps, GiveUp, FallBack, FallbackPowerOff, FallbackNotNeeded
<1>12. CASE \/ Begin \/ ObserveFails \/ SavedRecovery \/ SavedPrepared
            \/ SavedUnknown \/ SavedRejected \/ SavedResolved \/ FallBack
  <2>1. (mem' = mem \/ EndRun) /\ disk' \in {disk, mem} /\ pc # "save-settled"
    BY <1>12
    DEF Begin, ObserveFails, SavedRecovery, SavedPrepared, Written,
        SavedUnknown, SavedRejected, SavedResolved, FallBack, outside
  <2> QED BY <1>2, <1>4, <2>1
<1>13. CASE \/ SkipIneligible \/ SavedCancelled \/ SavedFinal \/ SaveOutcomeUnknown \/ GiveUp
            \/ FallbackNotNeeded \/ Crash
  BY <1>2, <1>13
  DEF SkipIneligible, SavedCancelled, SavedFinal, SaveOutcomeUnknown, GiveUp, FallbackNotNeeded, Crash
<1>14. CASE CollectionCommits \/ OwnerActs \/ LateUpload \/ SettleTimePasses \/ UNCHANGED vars
  BY <1>1, <1>14, OutsideRun DEF ParkedUntilSettled
<1>15. CASE RunStep /\ ~EndRun /\ pc # "save-settled" /\ pc # "apply"
  <2>1. ~(\/ Cancelled \/ SlowPacing \/ NotAuthorized \/ LinkDown \/ Refused \/ Unlisted \/ StorageFull
          \/ Applied \/ ReplyLost \/ AnsweredForAnother \/ SavedSettled)
    BY <1>15
    DEF Cancelled, SlowPacing, NotAuthorized, LinkDown, Refused, Unlisted, StorageFull, Applied,
        ReplyLost, AnsweredForAnother, SavedSettled, Written
  <2> QED BY <1>5, <1>6, <1>7, <1>8, <1>9, <1>10, <1>12, <1>13, <1>15, <2>1 DEF RunStep
<1> QED BY <1>2, <1>3, <1>11, <1>13, <1>14, <1>15 DEF Next

-----------------------------------------------------------------------------
(* The theorems about the ledger.                                          *)

LEMMA InitLInv == Init => LInv
<1> SUFFICES ASSUME Init PROVE LInv
  OBVIOUS
<1>1. /\ tv.inv = {} /\ tv.late = None /\ mem = InitialState /\ disk = InitialState
      /\ pc = "idle" /\ prune = {}
  BY DEF Init
<1>2. /\ InitialState.pending = None /\ InitialState.parked = None
      /\ \A d \in Digests : InitialState.bound[d] = None
  BY DEF InitialState
<1>3. Ledger(InitialState, tv)
  BY <1>1, <1>2 DEF Ledger, Accounted, Present, JournalTrue, Uploads, IsUpload, IsDelete
<1>4. Once(tv)
  BY <1>1 DEF Once
<1>5. PendingCleared /\ ReceiptFolded /\ NotYetDone /\ NothingOnItsWay /\ SeenEnough
  BY <1>1 DEF PendingCleared, ClearedSteps, ReceiptFolded, NotYetDone, AboutToSend, NothingOnItsWay,
              SeenEnough, Recovering
<1>6. ParkedUntilSettled
  BY <1>1, <1>2 DEF ParkedUntilSettled
<1> QED BY <1>1, <1>3, <1>4, <1>5, <1>6 DEF LInv

LEMMA LedgerHolds == Orderly => (Spec => []LInv)
<1> SUFFICES ASSUME Orderly PROVE Spec => []LInv
  OBVIOUS
<1>1. Spec => []Claims
  BY ClaimsHold DEF Orderly
<1>2. IInv /\ Claims /\ LInv /\ [Next]_vars => LInv'
  BY NextLedger, NextPendingCleared, NextNotYetDone, NextNothingOnItsWay, NextSeenEnough,
     NextNothingPruned, NextParkedUntilSettled DEF LInv
<1> QED BY <1>1, <1>2, InitLInv, Inductive, PTL DEF Spec

\* Whatever the manager put on a TV stays bound or journalled, and so does an
\* upload that may yet land, through lost replies, failed or unknown writes,
\* crashes, rejections and a full TV.
THEOREM NothingForgotten == Orderly => (Spec => []NothingIsForgotten)
<1> SUFFICES ASSUME Orderly PROVE Spec => []NothingIsForgotten
  OBVIOUS
<1>1. \A d : InJournal(disk, d) => Journalled(d)
  BY DEF InJournal, Uploads, IsUpload, Journalled
<1>2. LInv => NothingIsForgotten
  BY <1>1 DEF LInv, Ledger, Accounted, NothingIsForgotten
<1> QED BY <1>2, LedgerHolds, PTL

\* No picture is on the TV twice, and none is sent while an earlier upload may
\* still land.
THEOREM NeverTwice == Orderly => (Spec => []NoDuplicates)
<1> SUFFICES ASSUME Orderly PROVE Spec => []NoDuplicates
  OBVIOUS
<1>1. LInv => NoDuplicates
  BY DEF LInv, Once, Pictured, NotYetDone, AboutToSend, NoDuplicates
<1> QED BY <1>1, LedgerHolds, PTL

\* A record whose upload has left the journal without a binding says that the
\* upload left no image: the ledger of the new record has no place for one.
LEMMA GivenUpStep ==
  ASSUME IInv, LInv, [Next]_vars,
         disk.parked # None, disk'.parked = None, disk'.bound = disk.bound
  PROVE  /\ tv.late # disk.parked.cmd.digest
         /\ \A c \in tv.inv : tv.holds[c] # disk.parked.cmd.digest
<1> DEFINE op == disk.parked
<1>1. /\ disk \in States /\ ValidState(disk) /\ mem \in States
      /\ Ledger(mem, tv) /\ Ledger(disk, tv) /\ ParkedUntilSettled /\ PendingCleared
  BY DEF IInv, TypeOK, ValidRecords, LInv
<1>2. disk' = mem
  <2>1. CASE RunStep
    BY <2>1, FileIsMemory
  <2>2. CASE ~RunStep
    BY <2>2 DEF Next, Crash, CollectionCommits, OwnerActs, LateUpload, SettleTimePasses, vars
  <2> QED BY <2>1, <2>2
<1>3. mem.parked = None /\ mem.bound = disk.bound
  BY <1>2
<1>4. mem.pending = None
  BY <1>1, <1>3 DEF ParkedUntilSettled, PendingCleared, ClearedSteps
<1>5. \A d : ~InJournal(mem, d)
  BY <1>3, <1>4 DEF InJournal, Uploads, IsUpload
<1>6. op \in Uploads(disk) /\ op.cmd.digest \in Digests
  <2>1. op \in Uploads(disk)
    BY <1>1 DEF Uploads, IsUpload, ValidState
  <2> QED BY <1>1, <2>1, UploadsTyped
<1>7. disk.bound[op.cmd.digest] \notin tv.inv
  BY <1>1, <1>6 DEF Ledger, JournalTrue, OpenUpload
<1>8. tv.late = None /\ \A c \in tv.inv : tv.holds[c] # Foreign => mem.bound[tv.holds[c]] = c
  BY <1>1, <1>5 DEF Ledger, Accounted
<1>9. op.cmd.digest # None /\ op.cmd.digest # Foreign
  BY <1>6, NoneIsDistinct, ForeignIsDistinct
<1> HIDE DEF op
<1> QED BY <1>3, <1>7, <1>8, <1>9 DEF op

\* A parked upload is given up only when its picture is not on the TV and can
\* no longer land, whatever recovery went through before.
THEOREM GivenUpTruly == Orderly => (Spec => GivenUpMeansAbsent)
<1> SUFFICES ASSUME Orderly PROVE Spec => GivenUpMeansAbsent
  OBVIOUS
<1>1. IInv /\ LInv /\ [Next]_vars =>
        [disk.parked # None /\ disk'.parked = None /\ disk'.bound = disk.bound
           => /\ tv.late # disk.parked.cmd.digest
              /\ \A c \in tv.inv : tv.holds[c] # disk.parked.cmd.digest]_vars
  BY GivenUpStep
<1> QED BY <1>1, Inductive, LedgerHolds, PTL DEF Spec, GivenUpMeansAbsent
=============================================================================
