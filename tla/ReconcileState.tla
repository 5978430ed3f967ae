---------------------------- MODULE ReconcileState ----------------------------
(***************************************************************************)
(* The durable record internal/reconcile keeps for one TV, and the pure    *)
(* functions that recover it: what an interrupted command proves from a    *)
(* fresh observation, and how a positive receipt is folded into ownership. *)
(*                                                                         *)
(* Abstracted data: digests and content IDs are model values, slideshow    *)
(* and brightness are one managed setting (they share one recovery rule),  *)
(* the inventory fingerprint is the inventory itself, and timestamps are   *)
(* left to the modules that use them.                                      *)
(***************************************************************************)
EXTENDS Integers, FiniteSets

CONSTANTS Digests,        \* SHA-256 digests of the artwork the manager may own
          ContentIds,     \* content IDs a TV may give to an image
          None,           \* the absent digest, content ID or operation
          MaxShortfalls   \* maximumShortfalls: rejections that pause rotation

ASSUME DigestsFinite   == IsFiniteSet(Digests) /\ Digests # {}
ASSUME IdsFinite       == IsFiniteSet(ContentIds)
ASSUME NoneIsDistinct  == None \notin Digests \cup ContentIds
ASSUME ShortfallsIsNat == MaxShortfalls \in Nat

-----------------------------------------------------------------------------
(* Command intents. The selection and wake commands are not planned here:  *)
(* the cycle policy never enables Select, and every wake it asks for is    *)
(* bound to a wake boundary (module ScheduledWake).                        *)

Upload(d)         == [kind |-> "upload",         digest |-> d,    content |-> None]
DeleteOwned(d, c) == [kind |-> "delete-owned",   digest |-> d,    content |-> c]
DeleteUnknown(c)  == [kind |-> "delete-unknown", digest |-> None, content |-> c]
Configure         == [kind |-> "setting",        digest |-> None, content |-> None]
PowerOff          == [kind |-> "power-off",      digest |-> None, content |-> None]

ArtworkKinds == {"upload", "delete-owned", "delete-unknown"}

Commands == [kind    : ArtworkKinds \cup {"setting", "power-off"},
             digest  : Digests \cup {None},
             content : ContentIds \cup {None}]

\* validateIntent: the payload each kind of command must carry.
ValidIntent(cmd) ==
  /\ cmd.kind \in {"upload", "delete-owned"} => cmd.digest # None
  /\ cmd.kind \in {"delete-owned", "delete-unknown"} => cmd.content # None

-----------------------------------------------------------------------------
(* The record itself.                                                      *)

Phases == {"prepared", "outcome-unknown", "applied"}

\* Pending: the one command whose effect on the TV is not folded yet.
\* receipt is the content ID of the recorded receipt, before the inventory
\* the command was planned on.
Operations == [cmd     : Commands,
               phase   : Phases,
               receipt : ContentIds \cup {None},
               before  : SUBSET ContentIds]

ASSUME NoneIsNoOperation == None \notin Operations /\ None \notin Commands

Capacities == [known : BOOLEAN, max : Nat, probe : BOOLEAN, short : 0 .. MaxShortfalls]

NoCapacity == [known |-> FALSE, max |-> 0, probe |-> FALSE, short |-> 0]

States == [bound    : [Digests -> ContentIds \cup {None}],
           pending  : Operations \cup {None},
           parked   : Operations \cup {None},   \* UnresolvedUpload
           capacity : Capacities]

InitialState == [bound |-> [d \in Digests |-> None], pending |-> None,
                 parked |-> None, capacity |-> NoCapacity]

\* An observation: art says the TV is showing art, which is when the inventory
\* and the managed setting are known; power is known either way.
Observations == [art : BOOLEAN, inv : SUBSET ContentIds, set : BOOLEAN]

BoundContent(st) == {st.bound[d] : d \in Digests} \ {None}

\* validatePending
ValidOperation(op) ==
  op # None =>
    /\ ValidIntent(op.cmd)
    /\ op.phase = "prepared" => op.receipt = None

\* validateState: what save refuses to write and load refuses to read.
ValidState(st) ==
  /\ \A d, e \in Digests :
       st.bound[d] # None /\ st.bound[d] = st.bound[e] => d = e
  /\ ValidOperation(st.pending)
  /\ ValidOperation(st.parked)
  /\ st.parked # None => /\ st.parked.cmd.kind = "upload"
                         /\ st.parked.phase # "applied"
  /\ st.capacity.probe => st.capacity.known
  /\ st.capacity.short > 0 => st.capacity.known

-----------------------------------------------------------------------------
(* Folding a receipt.                                                      *)

\* Mutant: other artwork keeps the content ID it lost.
ReboundKeepsOthers(bound, digest, content) == [bound EXCEPT ![digest] = content]

\* uploadBinding and the deletions of foldUploadBinding: content proven to
\* hold the uploaded digest no longer belongs to any other digest.
Rebound(bound, digest, content) ==
  [d \in Digests |-> IF d = digest THEN content
                     ELSE IF bound[d] = content THEN None
                     ELSE bound[d]]

\* A content ID taken over from other owned artwork, in an inventory that did
\* not grow, proves that the TV is full at that size.
ProvesFull(st, op, obs) ==
  /\ \E d \in Digests \ {op.cmd.digest} : st.bound[d] = op.receipt
  /\ obs.art
  /\ op.before = obs.inv
  /\ op.receipt \in obs.inv

FullAt(count) == [known |-> TRUE, max |-> count, probe |-> FALSE, short |-> 0]

\* foldUploadBinding
FoldUpload(st, op, obs) ==
  [st EXCEPT
     !.bound    = Rebound(st.bound, op.cmd.digest, op.receipt),
     !.capacity = IF ProvesFull(st, op, obs) THEN FullAt(Cardinality(obs.inv))
                  ELSE st.capacity]

Unbind(st, digest) == [st EXCEPT !.bound[digest] = None]

\* The durable effect of a command that is known to have applied.
FoldApplied(st, op, obs) ==
  CASE op.cmd.kind = "upload"       -> FoldUpload(st, op, obs)
    [] op.cmd.kind = "delete-owned" -> Unbind(st, op.cmd.digest)
    [] OTHER                        -> st

-----------------------------------------------------------------------------
(* Recovery of an interrupted command (resolvePending).                    *)

\* Mutant: an upload that left no proof is taken for one that never happened.
ResolvableWithoutProof(op, obs) == op.cmd.kind = "power-off" \/ obs.art

\* Whether the observation proves enough to settle the pending operation.
Resolvable(op, obs) ==
  CASE op.phase = "applied"                                -> TRUE
    [] op.phase # "applied" /\ op.cmd.kind = "upload"      -> FALSE
    [] op.phase # "applied" /\ op.cmd.kind = "power-off"   -> TRUE
    [] OTHER                                               -> obs.art

\* The record once the pending operation is settled: a deletion counts as
\* applied exactly when the inventory no longer holds its content.
Resolved(st, obs) ==
  LET op      == st.pending
      applied == \/ op.phase = "applied"
                 \/ op.cmd.content # None /\ op.cmd.content \notin obs.inv
  IN [(IF applied THEN FoldApplied(st, op, obs) ELSE st) EXCEPT !.pending = None]

-----------------------------------------------------------------------------
(* An upload whose outcome is unknown (unresolved_upload.go).              *)

\* Mutant: only an upload with a recorded answer is parked.
ParkableAnswered(st) == /\ st.pending.cmd.kind = "upload"
                        /\ st.pending.phase = "outcome-unknown"
                        /\ st.parked = None

\* parkableUpload
Parkable(st) == /\ st.pending.cmd.kind = "upload"
                /\ st.pending.phase # "applied"
                /\ st.parked = None

\* parkUpload
Parked(st) == [st EXCEPT !.parked = st.pending, !.pending = None]

\* unexplainedArtwork
Unexplained(st, obs) == obs.inv \ (st.parked.before \cup BoundContent(st)) # {}

\* Mutant: an upload that has not appeared yet is given up at once.
SettlesAtOnce(st, obs, settleTimePassed) ==
  /\ st.parked # None
  /\ obs.art
  /\ st.parked.receipt # None \/ ~Unexplained(st, obs)

\* Mutant: only a content ID from the receipt settles a parked upload.
SettlesByReceipt(st, obs, settleTimePassed) ==
  /\ st.parked # None
  /\ obs.art
  /\ st.parked.receipt # None

\* resolveUnresolvedUpload: a content ID from the receipt is decisive either
\* way; without one the settle time must have passed with nothing unexplained.
Settles(st, obs, settleTimePassed) ==
  /\ st.parked # None
  /\ obs.art
  /\ \/ st.parked.receipt # None
     \/ settleTimePassed /\ ~Unexplained(st, obs)

Settled(st, obs) ==
  LET op     == st.parked
      landed == op.receipt # None /\ op.receipt \in obs.inv
  IN [(IF landed THEN FoldUpload(st, op, obs) ELSE st) EXCEPT !.parked = None]

-----------------------------------------------------------------------------
(* Capacity evidence.                                                      *)

\* storageFullCapacity. The count saturates: rotation only asks whether it
\* has reached MaxShortfalls.
StorageFullCapacity(previous, held) ==
  LET shortfall == previous.known /\ ~previous.probe /\ held < previous.max
  IN [known |-> TRUE, max |-> held, probe |-> FALSE,
      short |-> IF shortfall /\ previous.short < MaxShortfalls
                THEN previous.short + 1 ELSE previous.short]

\* An upload consumes the probe it was admitted by, whatever its outcome.
ProbeConsumed(capacity) == IF capacity.probe THEN NoCapacity ELSE capacity
=============================================================================
