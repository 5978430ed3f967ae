--------------------------- MODULE ArtworkCollection ---------------------------
(***************************************************************************)
(* The transactions of the artwork folder (internal/collection). A manifest*)
(* records the committed collection; a batch that adds and deletes artwork *)
(* is staged, journalled, published, recorded and cleaned up, and whoever  *)
(* comes next finishes what was interrupted.                               *)
(*                                                                         *)
(* Prepare, Import and Apply are serialised by the mutation channel of the *)
(* store, so one pc describes them. Every step is one durable operation of *)
(* durablefs. fs is what the file system shows; durable is what a power    *)
(* loss leaves of it: they differ while a directory is not synced.         *)
(***************************************************************************)
EXTENDS Naturals, FiniteSets

CONSTANTS Names,     \* file names in the artwork folder, numbered in their order
          Digests,   \* contents of artwork files
          None,
          Hazards,   \* the disturbances a behaviour may meet
          Budget     \* how many of them

HazardKinds == {"stop", "power", "fail", "unconfirmed", "unconfirmed-journal",
                "unsynced", "unreadable", "unreadable-renamed", "owner", "rename"}

ASSUME NamesAreOrdered == Names \subseteq Nat
ASSUME BudgetIsNat     == Budget \in Nat
ASSUME HazardsAreKnown == Hazards \subseteq HazardKinds

\* Artwork as the manifest records it: its bytes, and the original they were
\* derived from.
Items       == [digest : Digests, orig : Digests \cup {None}]
Collections == [Names -> Items \cup {None}]
Empty       == [n \in Names |-> None]
Effects     == [name : Names, digest : Digests]

Transactions == [kind : {"manifest", "batch"}, add : SUBSET Effects,
                 del : SUBSET Effects, next : Collections]

FileSystems ==
  [files    : [Names -> Digests \cup {None}],   \* the artwork folder
   manifest : Collections,                      \* manifest.json
   journal  : Transactions \cup {None},         \* transaction.json
   stages   : SUBSET Effects,                   \* staging/batch-*
   kept     : SUBSET Digests]                   \* originals/

ASSUME NoneIsDistinct == None \notin Digests \cup Names \cup Items \cup Transactions

VARIABLES
  fs,       \* the files as the process and the owner see them
  durable,  \* the files as they are after a power loss
  op,       \* the operation that holds the mutation channel
  pc,       \* what it does next
  tx,       \* the transaction it plans, publishes or recovers
  mine,     \* tx is its own, not one it recovers
  todo,     \* what is left to do of the present phase
  touched,  \* names the owner has changed
  made,     \* derivatives on record since they came to the folder
  budget

runVars == <<op, pc, tx, mine, todo>>
vars    == <<fs, durable, runVars, touched, made, budget>>

Phases == {"plan", "keep", "clean", "stage", "journal", "abandon", "publish",
           "unstage", "manifest", "delete", "finish", "verify", "collect"}

Derivatives == [name : Names, digest : Digests, orig : Digests]

TypeOK ==
  /\ fs \in FileSystems /\ durable \in FileSystems
  /\ op \in {"none", "prepare", "import", "apply"}
  /\ pc \in Phases \cup {"idle"}
  /\ tx \in Transactions \cup {None}
  /\ mine \in BOOLEAN
  /\ todo \in SUBSET (IF pc \in {"keep", "collect"} THEN Digests ELSE Effects)
  /\ pc \in {"keep", "stage", "publish", "unstage", "delete"} => todo # {}
  /\ touched \in SUBSET Names
  /\ made \in SUBSET Derivatives
  /\ budget \in 0 .. Budget

Disturbed(hazard) == hazard \in Hazards /\ budget > 0 /\ budget' = budget - 1

Nothing == [files |-> [n \in Names |-> None], manifest |-> Empty, journal |-> None,
            stages |-> {}, kept |-> {}]

\* The owner's artwork is there before the manager first starts.
Init ==
  /\ \E art \in [Names -> Digests \cup {None}] : fs = [Nothing EXCEPT !.files = art]
  /\ durable = fs
  /\ op = "none" /\ pc = "idle" /\ tx = None /\ mine = FALSE /\ todo = {}
  /\ touched = {} /\ made = {} /\ budget = Budget

Goto(phase, work) == pc' = phase /\ todo' = work

\* The operation returns, with or without an error.
EndOp == Goto("idle", {}) /\ op' = "none" /\ tx' = None /\ mine' = FALSE

-----------------------------------------------------------------------------
(* What the folder holds (inventory.go).                                   *)

\* The derivative records whose name is gone, by the bytes they had.
Renamed(digest) == {fs.manifest[m].orig :
                      m \in {k \in Names : /\ fs.manifest[k] # None
                                           /\ fs.manifest[k].digest = digest
                                           /\ fs.manifest[k].orig # None
                                           /\ fs.files[k] = None}}

\* withCommittedMetadata: a file keeps its recorded lineage while its bytes are
\* the recorded ones; a new name inherits that of a renamed derivative.
Lineages(n) ==
  IF fs.manifest[n] # None
  THEN {IF fs.manifest[n].digest = fs.files[n] THEN fs.manifest[n].orig ELSE None}
  ELSE IF Renamed(fs.files[n]) # {} THEN Renamed(fs.files[n]) ELSE {None}

\* scan and scanPrepare, when the files in blind cannot be read.
Scans(blind) ==
  {view \in Collections : \A n \in Names :
     IF fs.files[n] = None \/ n \in blind THEN view[n] = None
     ELSE view[n] # None /\ view[n].digest = fs.files[n] /\ view[n].orig \in Lineages(n)}

Present(view)  == {n \in Names : view[n] # None}
Origins(view)  == {view[n].orig : n \in Present(view)} \ {None}
EffectsOf(view, names) == {[name |-> n, digest |-> view[n].digest] : n \in names}

\* buildBatchPlan and newManifest: the transaction from one view to the next.
Transaction(view, next) ==
  LET add == EffectsOf(next, Present(next) \ Present(view))
      del == EffectsOf(view, Present(view) \ Present(next))
  IN [kind |-> IF add \cup del = {} THEN "manifest" ELSE "batch",
      add |-> add, del |-> del, next |-> next]

-----------------------------------------------------------------------------
(* The durable operations: what fs becomes.                                *)

Kept(o)       == [fs EXCEPT !.kept = @ \cup {o}]
Discarded(o)  == [fs EXCEPT !.kept = @ \ {o}]
Staged(e)     == [fs EXCEPT !.stages = @ \cup {e}]
Unstaged(e)   == [fs EXCEPT !.stages = @ \ {e}]
Journalled    == [fs EXCEPT !.journal = tx]
Published(e)  == [fs EXCEPT !.files[e.name] = e.digest]
Recorded      == [fs EXCEPT !.manifest = tx.next]
Deleted(e)    == [fs EXCEPT !.files[e.name] = None]
Finished      == [fs EXCEPT !.journal = None]

\* A mutation and the sync of its directory. The manifest and the journal are
\* in one directory.
Folder(new)    == fs' = new /\ durable' = [durable EXCEPT !.files = new.files]
Staging(new)   == fs' = new /\ durable' = [durable EXCEPT !.stages = new.stages]
Originals(new) == fs' = new /\ durable' = [durable EXCEPT !.kept = new.kept]
Control(new)   == fs' = new /\ durable' = [durable EXCEPT !.manifest = new.manifest,
                                                          !.journal = new.journal]

-----------------------------------------------------------------------------
(* An operation begins: recovery, inventory, plan.                         *)

AfterKeep(rest, t) == IF rest # {} THEN Goto("keep", rest)
                      ELSE Goto(IF t.kind = "batch" THEN "clean" ELSE "journal", {})

AfterStage(rest) == IF rest = {} THEN Goto("journal", {}) ELSE Goto("stage", rest)

\* Mutant: the journal goes before the manifest is written.
AfterPublishOnly(rest) == IF rest = {} THEN Goto("finish", {}) ELSE Goto("publish", rest)

AfterPublish(rest) == IF rest = {} THEN Goto("manifest", {}) ELSE Goto("publish", rest)

AfterDelete(rest) == IF rest = {} THEN Goto("finish", {}) ELSE Goto("delete", rest)

\* acquire and recoverTransaction: an interrupted transaction is finished first.
Begin ==
  /\ pc = "idle"
  /\ op' \in {"prepare", "import", "apply"}
  /\ \/ fs.journal = None /\ Goto("plan", {}) /\ UNCHANGED tx
     \/ fs.journal # None /\ tx' = fs.journal /\ AfterPublish(fs.journal.add)
  /\ UNCHANGED <<fs, durable, mine, touched, budget>>

\* Mutant: artwork that cannot be read counts as gone.
ForgetsBlindly(view, blind) == FALSE

\* excludesCommittedArtwork: recorded artwork is there but cannot be read.
Excludes(view, blind) == \E n \in blind : fs.manifest[n] # None

\* A file under a new name may be among those that cannot be read.
Unreadable(blind) ==
  IF \E n \in blind : fs.manifest[n] = None /\ Renamed(fs.files[n]) # {}
  THEN "unreadable-renamed" ELSE "unreadable"

\* prepare: the manifest follows what the owner did to the folder.
PlanPrepare ==
  /\ pc = "plan" /\ op = "prepare"
  /\ \E blind \in SUBSET {n \in Names : fs.files[n] # None} :
     \E view \in Scans(blind) :
       /\ \/ blind = {} /\ UNCHANGED budget
          \/ blind # {} /\ Disturbed(Unreadable(blind))
       /\ \/ Excludes(view, blind) /\ EndOp
          \/ /\ ~Excludes(view, blind)
             /\ tx' = [kind |-> "manifest", add |-> {}, del |-> {}, next |-> view]
             /\ mine' = TRUE
             /\ UNCHANGED op
             /\ IF view = fs.manifest THEN Goto("collect", fs.kept \ Origins(view))
                                      ELSE Goto("journal", {})
  /\ UNCHANGED <<fs, durable, touched>>

\* ImportBatch: new bytes under names that are free, or nothing new at all.
PlanImport ==
  /\ pc = "plan" /\ op = "import"
  /\ \E view \in Scans({}), next \in Collections :
       /\ \A n \in Present(view) : next[n] = view[n]
       /\ \A n \in Present(next) \ Present(view) :
            /\ next[n].orig = None
            /\ \A m \in Present(next) \ {n} : next[m].digest # next[n].digest
       /\ tx' = Transaction(view, next)
       /\ Goto(IF next = view THEN "journal" ELSE "clean", {})
  /\ mine' = TRUE
  /\ UNCHANGED <<fs, durable, op, touched, budget>>

\* Originals the next collection refers to and this one does not.
NewOrigins(view, next) ==
  {next[n].orig : n \in {k \in Present(next) : view[k] = None \/ view[k].orig # next[k].orig}}

\* What the image pipeline stages: what it adds is derived from other bytes, no
\* name changes its bytes, and what was recorded as derived stays so.
Applicable(view, next) ==
  \A n \in Present(next) :
    /\ next[n].orig # next[n].digest
    /\ view[n] = None => next[n].orig # None
    /\ view[n] # None => /\ next[n].digest = view[n].digest
                         /\ view[n].orig \in {None, next[n].orig}

\* apply: artwork is replaced by what was derived from it.
PlanApply ==
  /\ pc = "plan" /\ op = "apply"
  /\ \E view \in Scans({}), next \in Collections :
       /\ Applicable(view, next)
       /\ \/ next = view /\ EndOp
          \/ /\ next # view
             /\ tx' = Transaction(view, next)
             /\ mine' = TRUE
             /\ AfterKeep(NewOrigins(view, next), Transaction(view, next))
             /\ UNCHANGED op
  /\ UNCHANGED <<fs, durable, touched, budget>>

-----------------------------------------------------------------------------
(* Before the journal: originals, stages.                                  *)

\* keepOriginal: it is kept already, or copied from artwork with its bytes.
Keep ==
  /\ pc = "keep"
  /\ \E o \in todo :
       /\ AfterKeep(todo \ {o}, tx)
       /\ \/ o \in fs.kept /\ UNCHANGED <<fs, durable>>
          \/ o \notin fs.kept /\ (\E n \in Names : fs.files[n] = o) /\ Originals(Kept(o))
  /\ UNCHANGED <<op, tx, mine, touched, budget>>

KeepRefused ==
  /\ pc = "keep"
  /\ \E o \in todo : o \notin fs.kept /\ \A n \in Names : fs.files[n] # o
  /\ EndOp
  /\ UNCHANGED <<fs, durable, touched, budget>>

\* cleanupBatchStages, before the batch is staged and after it was abandoned.
RemoveOrphan ==
  /\ pc \in {"clean", "abandon"}
  /\ \E e \in fs.stages : Staging(Unstaged(e))
  /\ UNCHANGED <<runVars, touched, budget>>

CleanDone ==
  /\ fs.stages = {}
  /\ \/ pc = "clean" /\ AfterStage(tx.add) /\ UNCHANGED <<op, tx, mine>>
     \/ pc = "abandon" /\ EndOp
  /\ UNCHANGED <<fs, durable, touched, budget>>

\* A batch goes through its files in the order of their names.
First(effects) == {e \in effects : \A f \in effects : e.name <= f.name}

Stage ==
  /\ pc = "stage"
  /\ \E e \in First(todo) : Staging(Staged(e)) /\ AfterStage(todo \ {e})
  /\ UNCHANGED <<op, tx, mine, touched, budget>>

WriteJournal ==
  /\ pc = "journal"
  /\ Control(Journalled)
  /\ AfterPublish(tx.add)
  /\ UNCHANGED <<op, tx, mine, touched, budget>>

-----------------------------------------------------------------------------
(* From the journal on, for the one who wrote it and the one who finds it. *)

Absent(e)    == fs.files[e.name] = None
Matches(e)   == fs.files[e.name] = e.digest

\* Mutant: the folder is not synced.
PublishUnsynced ==
  /\ pc = "publish"
  /\ \E e \in First(todo) :
       Absent(e) /\ e \in fs.stages /\ fs' = Published(e) /\ UNCHANGED durable
  /\ Goto("unstage", todo)
  /\ UNCHANGED <<op, tx, mine, touched, budget>>

\* publishStagedArtwork: the stage is linked to its final name, then removed.
Publish ==
  /\ pc = "publish"
  /\ \E e \in First(todo) : Absent(e) /\ e \in fs.stages /\ Folder(Published(e))
  /\ Goto("unstage", todo)
  /\ UNCHANGED <<op, tx, mine, touched, budget>>

\* Mutant: artwork that is there already is an error.
AlreadyPublishedRefused ==
  /\ pc = "publish"
  /\ \E e \in First(todo) : Matches(e)
  /\ EndOp
  /\ UNCHANGED <<fs, durable, touched, budget>>

\* The artwork is there already: what is left of its stage is removed.
AlreadyPublished ==
  /\ pc = "publish"
  /\ \E e \in First(todo) :
       /\ Matches(e)
       /\ \/ e \in fs.stages /\ Staging(Unstaged(e))
          \/ e \notin fs.stages /\ UNCHANGED <<fs, durable>>
       /\ AfterPublish(todo \ {e})
  /\ UNCHANGED <<op, tx, mine, touched, budget>>

Unstage ==
  /\ pc = "unstage"
  /\ \E e \in First(todo) : Staging(Unstaged(e)) /\ AfterPublish(todo \ {e})
  /\ UNCHANGED <<op, tx, mine, touched, budget>>

\* Somebody else's artwork has the name, or nothing is left to publish.
PublishRefused ==
  /\ pc = "publish"
  /\ \E e \in First(todo) : ~Matches(e) /\ (Absent(e) => e \notin fs.stages)
  /\ EndOp
  /\ UNCHANGED <<fs, durable, touched, budget>>

WriteManifest ==
  /\ pc = "manifest"
  /\ Control(Recorded)
  /\ AfterDelete(tx.del)
  /\ UNCHANGED <<op, tx, mine, touched, budget>>

Delete ==
  /\ pc = "delete"
  /\ \E e \in First(todo) :
       /\ \/ Matches(e) /\ Folder(Deleted(e))
          \/ Absent(e) /\ UNCHANGED <<fs, durable>>
       /\ AfterDelete(todo \ {e})
  /\ UNCHANGED <<op, tx, mine, touched, budget>>

\* The artwork is not what was to be deleted.
DeleteRefused ==
  /\ pc = "delete"
  /\ \E e \in First(todo) : ~Matches(e) /\ ~Absent(e)
  /\ EndOp
  /\ UNCHANGED <<fs, durable, touched, budget>>

\* The journal goes. Whoever recovered goes on to plan.
Finish ==
  /\ pc = "finish"
  /\ Control(Finished)
  /\ IF mine THEN IF op = "prepare" THEN Goto("verify", {}) /\ UNCHANGED <<op, tx, mine>>
                                    ELSE EndOp
             ELSE Goto("plan", {}) /\ tx' = None /\ UNCHANGED <<op, mine>>
  /\ UNCHANGED <<touched, budget>>

\* commitPrepared: the folder is read again, and prepare goes on if it finds what
\* it recorded. (verifyCommitted does so to answer the caller of the others.)
Verify ==
  /\ pc = "verify"
  /\ IF tx.next \in Scans({})
     THEN Goto("collect", fs.kept \ Origins(tx.next)) /\ UNCHANGED <<op, tx, mine>>
     ELSE EndOp
  /\ UNCHANGED <<fs, durable, touched, budget>>

\* collectOriginals: originals nothing on record refers to are removed.
Collect ==
  /\ pc = "collect"
  /\ \/ todo = {} /\ EndOp /\ UNCHANGED <<fs, durable>>
     \/ \E o \in todo : /\ Originals(Discarded(o))
                         /\ Goto("collect", todo \ {o})
                         /\ UNCHANGED <<op, tx, mine>>
  /\ UNCHANGED <<touched, budget>>

-----------------------------------------------------------------------------
(* Failures of the operation.                                              *)

\* What the durable operation of the present step would leave.
Attempts ==
  CASE pc = "keep"                 -> {Kept(o) : o \in {o \in todo : \E n \in Names : fs.files[n] = o}}
    [] pc \in {"clean", "abandon"} -> {Unstaged(e) : e \in fs.stages}
    [] pc = "stage"                -> {Staged(e) : e \in First(todo)}
    [] pc = "journal"              -> {Journalled}
    [] pc = "publish"              -> {Published(e) : e \in {f \in First(todo) : Absent(f) /\ f \in fs.stages}}
    [] pc = "unstage"              -> {Unstaged(e) : e \in First(todo)}
    [] pc = "manifest"             -> {Recorded}
    [] pc = "delete"               -> {Deleted(e) : e \in {f \in First(todo) : Matches(f)}}
    [] pc = "finish"               -> {Finished}
    [] pc = "collect"              -> {Discarded(o) : o \in todo}
    [] OTHER                       -> {}

\* The change is there and its directory was not synced (ErrOutcomeUnknown, or
\* the process stopped in between): one hazard for each of three kinds of step.
Unconfirmed ==
  CASE pc = "journal"                       -> Disturbed("unconfirmed-journal")
    [] pc \in {"keep", "publish", "delete"} -> Disturbed("unsynced")
    [] OTHER                                -> Disturbed("unconfirmed")

\* Mutant: the stages go on every error.
FailsCleaning ==
  /\ pc # "idle"
  /\ \/ Disturbed("fail") /\ UNCHANGED fs
     \/ Unconfirmed /\ fs' \in Attempts
  /\ IF pc \in {"stage", "journal", "publish", "manifest"} /\ tx.kind = "batch"
     THEN Goto("abandon", {}) /\ UNCHANGED <<op, tx, mine>>
     ELSE EndOp
  /\ UNCHANGED <<durable, touched>>

\* An error ends the operation; one that has no journal yet gives up its stages.
Fails ==
  /\ pc # "idle"
  /\ \/ Disturbed("fail") /\ UNCHANGED fs
     \/ Unconfirmed /\ fs' \in Attempts
  /\ IF pc \in {"stage", "journal"} /\ tx.kind = "batch"
     THEN Goto("abandon", {}) /\ UNCHANGED <<op, tx, mine>>
     ELSE EndOp
  /\ UNCHANGED <<durable, touched>>

-----------------------------------------------------------------------------
(* Everyone else.                                                          *)

Stop ==
  /\ pc # "idle"
  /\ Disturbed("stop")
  /\ EndOp
  /\ UNCHANGED <<fs, durable, touched>>

\* Of what was not synced, anything may be lost.
PowerLoss ==
  /\ Disturbed("power")
  /\ fs' \in [files    : {fs.files, durable.files},       manifest : {fs.manifest, durable.manifest},
             journal  : {fs.journal, durable.journal},   stages   : {fs.stages, durable.stages},
             kept     : {fs.kept, durable.kept}]
  /\ durable' = fs'
  /\ EndOp
  /\ UNCHANGED touched

\* The owner acts once in a behaviour.
Folders(files, names) ==
  /\ touched = {}
  /\ fs' = [fs EXCEPT !.files = files]
  /\ durable' = [durable EXCEPT !.files = files]
  /\ touched' = names
  /\ UNCHANGED runVars

\* The owner adds, replaces or removes artwork.
OwnerActs ==
  /\ Disturbed("owner")
  /\ \E n \in Names, art \in Digests \cup {None} :
       art # fs.files[n] /\ Folders([fs.files EXCEPT ![n] = art], {n})

OwnerRenames ==
  \E n, m \in Names :
    /\ fs.files[n] # None /\ fs.files[m] = None
    /\ Disturbed("rename")
    /\ Folders([fs.files EXCEPT ![n] = None, ![m] = fs.files[n]], {n, m})
    /\ made' = {IF d.name = n THEN [d EXCEPT !.name = m] ELSE d : d \in made}

RunStep ==
  \/ Begin \/ PlanPrepare \/ PlanImport \/ PlanApply
  \/ Keep \/ KeepRefused \/ RemoveOrphan \/ CleanDone \/ Stage \/ WriteJournal
  \/ Publish \/ AlreadyPublished \/ Unstage \/ PublishRefused \/ WriteManifest
  \/ Delete \/ DeleteRefused \/ Finish \/ Verify \/ Collect

\* The derivatives a collection records.
Derived(c) == {[name |-> n, digest |-> c[n].digest, orig |-> c[n].orig] :
                 n \in {k \in Present(c) : c[k].orig # None}}

Writes == pc = "manifest" /\ fs' = Recorded

\* A write of the manifest puts derivatives on record, and has others deleted;
\* one whose bytes leave the folder is forgotten.
Witness ==
  LET stay == {d \in made : \A e \in tx.del : e.digest # d.digest}
  IN made' = {d \in IF Writes THEN stay \cup Derived(tx.next) ELSE made : fs'.files[d.name] = d.digest}

Next == \/ (RunStep \/ Fails \/ Stop \/ PowerLoss \/ OwnerActs) /\ Witness
        \/ OwnerRenames

Spec == Init /\ [][Next]_vars

\* Operations keep coming, once in every cycle, and take their steps.
FairSpec == Spec /\ WF_vars(RunStep /\ Witness)

-----------------------------------------------------------------------------
Committed(files) == IF files.journal # None THEN files.journal.next ELSE files.manifest

\* Whatever was interrupted, the transaction in the journal can be finished: each
\* file it adds is published or staged, each file it deletes is the one recorded
\* or gone, unless the owner changed it since.
Recoverable ==
  fs.journal # None =>
    /\ \A e \in fs.journal.add : e.name \in touched \/ Matches(e) \/ (Absent(e) /\ e \in fs.stages)
    /\ \A e \in fs.journal.del : e.name \in touched \/ Matches(e) \/ Absent(e)

\* The power may fail at any moment: every artwork of the collection that is
\* committed then is in the folder or in its stage, and its original is kept.
Survives ==
  LET next == Committed(durable)
  IN \A n \in Present(next) :
       /\ \/ n \in touched
          \/ durable.files[n] = next[n].digest
          \/ durable.journal # None /\ [name |-> n, digest |-> next[n].digest] \in durable.stages
       /\ next[n].orig \in durable.kept \cup {None}

\* While a derivative stays in the folder, its original is kept, also when the
\* file cannot be read for a while: the one it was recorded with or, if the owner
\* gave it the name of another, the one these bytes are recorded with there.
LineageKept ==
  \A m \in made :
    \/ m.orig \in fs.kept
    \/ LET item == fs.manifest[m.name]
       IN item # None /\ item.digest = m.digest /\ item.orig \in fs.kept

\* A journal does not stay: the next operation finishes it.
Recovers == fs.journal # None ~> fs.journal = None \/ touched # {}

\* The collection changes at once and only to the one that was proposed.
Abstract == INSTANCE AtomicCollection WITH
  committed <- Committed(durable),
  goal      <- IF Committed(fs) # Committed(durable) THEN Committed(fs)
               ELSE IF tx # None THEN tx.next ELSE Committed(durable)

Atomic == Abstract!Spec
=============================================================================
