------------------------ MODULE ArtworkCollectionProofs ------------------------
(***************************************************************************)
(* Proofs about ArtworkCollection: an interrupted transaction can always be *)
(* finished, the committed collection survives a power loss, it changes at  *)
(* once, and a derivative in the folder does not lose its original.         *)
(***************************************************************************)
EXTENDS ArtworkCollection, TLAPS

-----------------------------------------------------------------------------
(* The inductive invariant.                                                *)

\* The hazards under which these properties fail (README, section 4).
Confirmed == {"unconfirmed-journal", "unsynced"} \cap Hazards = {}

InFolder(n, c) == n \in touched \/ fs.files[n] = c[n].digest
There(e) == e.name \in touched \/ Matches(e)
Gone(e)  == e.name \in touched \/ Absent(e)

\* What a transaction adds is in the collection it leads to, what it deletes is not.
Good(t) ==
  /\ t.kind = "manifest" => t.add = {} /\ t.del = {}
  /\ \A e \in t.add : t.next[e.name] # None /\ t.next[e.name].digest = e.digest
  /\ \A e \in t.del : t.next[e.name] = None

\* The folder is what the transaction was planned for, or on its way from there.
Fits(t) ==
  /\ \A n \in Names : t.next[n] # None =>
       \/ InFolder(n, t.next)
       \/ fs.files[n] = None /\ [name |-> n, digest |-> t.next[n].digest] \in t.add
  /\ \A e \in t.del : There(e) \/ Gone(e)

Backed(t) == \A e \in t.add : There(e) \/ (e \in fs.stages /\ e \in durable.stages)
Added(t)  == \A e \in t.add : There(e)
Ended(t)  == Added(t) /\ \A e \in t.del : Gone(e)

\* The originals a collection refers to are among these.
Refers(c, kept) == \A n \in Names : c[n] # None => c[n].orig \in kept \cup {None}

\* How far what the process sees is ahead of what a power loss would leave.
Synced ==
  /\ durable.files = fs.files
  /\ fs.kept \subseteq durable.kept
  /\ fs.journal # None => durable.journal = fs.journal
  /\ fs.journal = None => durable.manifest = fs.manifest
  /\ fs.journal = None /\ durable.journal # None =>
       durable.journal.next = fs.manifest /\ Ended(durable.journal)

Journalling ==
  durable.journal # None => /\ Good(durable.journal) /\ Fits(durable.journal)
                            /\ Backed(durable.journal)

\* The committed collection is in the folder, and the originals are kept.
Complete ==
  /\ fs.journal = None => \A n \in Names : fs.manifest[n] # None => InFolder(n, fs.manifest)
  /\ Refers(Committed(fs), fs.kept)

Filed == Synced /\ Journalling /\ Complete

\* What the operation has done so far.
Planned ==
  /\ pc \notin {"idle", "plan"} => tx # None
  /\ pc \in {"plan", "keep", "clean", "stage", "journal", "abandon", "verify", "collect"} =>
       fs.journal = None
  /\ pc \in {"keep", "clean", "stage", "journal"} =>
       /\ Good(tx) /\ Fits(tx)
       /\ Refers(tx.next, fs.kept \cup (IF pc = "keep" THEN todo ELSE {}))
  /\ pc = "stage" => /\ todo \subseteq tx.add
                      /\ \A e \in tx.add : e \in todo \/ (e \in fs.stages /\ e \in durable.stages)
  /\ pc = "journal" => \A e \in tx.add : e \in fs.stages /\ e \in durable.stages

Publishing ==
  /\ pc \in {"publish", "unstage", "manifest", "delete", "finish"} => fs.journal = tx
  /\ pc \in {"publish", "unstage"} => /\ todo \subseteq tx.add
                                       /\ \A e \in tx.add : e \in todo \/ There(e)
  /\ pc = "unstage" => \A e \in First(todo) : There(e)
  /\ pc \in {"manifest", "delete", "finish"} => Added(tx)

Settled ==
  /\ pc \in {"delete", "finish"} => fs.manifest = tx.next /\ durable.manifest = tx.next
  /\ pc = "delete" => todo \subseteq tx.del /\ \A e \in tx.del : e \in todo \/ Gone(e)
  /\ pc = "finish" => \A e \in tx.del : Gone(e)
  /\ pc \in {"verify", "collect"} => tx.next = fs.manifest
  /\ pc = "collect" => \A n \in Names : tx.next[n] # None => tx.next[n].orig \notin todo

Phased == Planned /\ Publishing /\ Settled

IInv == TypeOK /\ Filed /\ Phased

FilesOK == fs \in FileSystems /\ durable \in FileSystems

RunOK ==
  /\ op \in {"none", "prepare", "import", "apply"}
  /\ pc \in Phases \cup {"idle"}
  /\ tx \in Transactions \cup {None}
  /\ mine \in BOOLEAN
  /\ todo \in SUBSET (IF pc \in {"keep", "collect"} THEN Digests ELSE Effects)
  /\ pc \in {"keep", "stage", "publish", "unstage", "delete"} => todo # {}

Sound == FilesOK /\ RunOK /\ Filed /\ Phased

-----------------------------------------------------------------------------
(* Records and steps.                                                      *)

\* A file system has these parts.
LEMMA Parts ==
  ASSUME NEW f \in FileSystems
  PROVE  /\ f.files \in [Names -> Digests \cup {None}]
         /\ f.manifest \in Collections
         /\ f.journal \in Transactions \cup {None}
         /\ f.stages \in SUBSET Effects
         /\ f.kept \in SUBSET Digests
BY DEF FileSystems

\* The folder changes, and nothing else.
LEMMA ChangesFiles ==
  ASSUME NEW f \in FileSystems, NEW v \in [Names -> Digests \cup {None}],
         NEW g, g = [f EXCEPT !.files = v]
  PROVE  /\ g \in FileSystems
         /\ g.files = v /\ g.manifest = f.manifest /\ g.journal = f.journal
         /\ g.stages = f.stages /\ g.kept = f.kept
BY DEF FileSystems

\* The manifest changes, and nothing else.
LEMMA ChangesManifest ==
  ASSUME NEW f \in FileSystems, NEW v \in Collections,
         NEW g, g = [f EXCEPT !.manifest = v]
  PROVE  /\ g \in FileSystems
         /\ g.files = f.files /\ g.manifest = v /\ g.journal = f.journal
         /\ g.stages = f.stages /\ g.kept = f.kept
BY DEF FileSystems

\* The journal changes, and nothing else.
LEMMA ChangesJournal ==
  ASSUME NEW f \in FileSystems, NEW v \in Transactions \cup {None},
         NEW g, g = [f EXCEPT !.journal = v]
  PROVE  /\ g \in FileSystems
         /\ g.files = f.files /\ g.manifest = f.manifest /\ g.journal = v
         /\ g.stages = f.stages /\ g.kept = f.kept
BY DEF FileSystems

\* The staging directory changes, and nothing else.
LEMMA ChangesStages ==
  ASSUME NEW f \in FileSystems, NEW v \in SUBSET Effects,
         NEW g, g = [f EXCEPT !.stages = v]
  PROVE  /\ g \in FileSystems
         /\ g.files = f.files /\ g.manifest = f.manifest /\ g.journal = f.journal
         /\ g.stages = v /\ g.kept = f.kept
BY DEF FileSystems

\* The directory of originals changes, and nothing else.
LEMMA ChangesKept ==
  ASSUME NEW f \in FileSystems, NEW v \in SUBSET Digests,
         NEW g, g = [f EXCEPT !.kept = v]
  PROVE  /\ g \in FileSystems
         /\ g.files = f.files /\ g.manifest = f.manifest /\ g.journal = f.journal
         /\ g.stages = f.stages /\ g.kept = v
BY DEF FileSystems

\* What a transaction is made of.
LEMMA TransactionParts ==
  ASSUME NEW t \in Transactions
  PROVE  /\ t # None
         /\ t.kind \in {"manifest", "batch"}
         /\ t.add \in SUBSET Effects /\ t.del \in SUBSET Effects
         /\ t.next \in Collections
BY NoneIsDistinct DEF Transactions

\* An effect is on a file.
LEMMA EffectParts ==
  ASSUME NEW e \in Effects
  PROVE  e.name \in Names /\ e.digest \in Digests /\ e.digest # None
         /\ e = [name |-> e.name, digest |-> e.digest]
BY NoneIsDistinct DEF Effects

\* A record of artwork.
LEMMA ItemParts ==
  ASSUME NEW c \in Collections, NEW n \in Names, c[n] # None
  PROVE  c[n].digest \in Digests /\ c[n].digest # None /\ c[n].orig \in Digests \cup {None}
BY NoneIsDistinct DEF Collections, Items

\* A file is published or deleted, and its folder synced.
LEMMA FolderStep ==
  ASSUME FilesOK, NEW n \in Names, NEW v \in Digests \cup {None},
         Folder([fs EXCEPT !.files[n] = v])
  PROVE  /\ FilesOK'
         /\ fs'.files = [fs.files EXCEPT ![n] = v] /\ durable'.files = fs'.files
         /\ fs'.manifest = fs.manifest /\ durable'.manifest = durable.manifest
         /\ fs'.journal = fs.journal   /\ durable'.journal = durable.journal
         /\ fs'.stages = fs.stages     /\ durable'.stages = durable.stages
         /\ fs'.kept = fs.kept         /\ durable'.kept = durable.kept
<1> DEFINE w == [fs.files EXCEPT ![n] = v]
<1>1. w \in [Names -> Digests \cup {None}]
  BY Parts DEF FilesOK
<1>2. fs' = [fs EXCEPT !.files = w]
  BY DEF Folder
<1> HIDE DEF w
<1>3. /\ fs' \in FileSystems /\ fs'.files = w /\ fs'.manifest = fs.manifest
      /\ fs'.journal = fs.journal /\ fs'.stages = fs.stages /\ fs'.kept = fs.kept
  BY <1>1, <1>2, ChangesFiles DEF FilesOK
<1>4. durable' = [durable EXCEPT !.files = w]
  BY <1>2, <1>3 DEF Folder, FilesOK
<1>5. /\ durable' \in FileSystems /\ durable'.files = w /\ durable'.manifest = durable.manifest
      /\ durable'.journal = durable.journal /\ durable'.stages = durable.stages
      /\ durable'.kept = durable.kept
  BY <1>1, <1>4, ChangesFiles DEF FilesOK
<1> QED
  BY <1>3, <1>5 DEF w, FilesOK

\* The stages change, and their directory is synced.
LEMMA StagingStep ==
  ASSUME FilesOK, NEW S \in SUBSET Effects, Staging([fs EXCEPT !.stages = S])
  PROVE  /\ FilesOK'
         /\ fs'.files = fs.files       /\ durable'.files = durable.files
         /\ fs'.manifest = fs.manifest /\ durable'.manifest = durable.manifest
         /\ fs'.journal = fs.journal   /\ durable'.journal = durable.journal
         /\ fs'.stages = S             /\ durable'.stages = S
         /\ fs'.kept = fs.kept         /\ durable'.kept = durable.kept
<1>1. fs' = [fs EXCEPT !.stages = S]
  BY DEF Staging
<1>2. /\ fs' \in FileSystems /\ fs'.files = fs.files /\ fs'.manifest = fs.manifest
      /\ fs'.journal = fs.journal /\ fs'.stages = S /\ fs'.kept = fs.kept
  BY <1>1, ChangesStages DEF FilesOK
<1>3. durable' = [durable EXCEPT !.stages = S]
  BY <1>2 DEF Staging
<1>4. /\ durable' \in FileSystems /\ durable'.files = durable.files
      /\ durable'.manifest = durable.manifest /\ durable'.journal = durable.journal
      /\ durable'.stages = S /\ durable'.kept = durable.kept
  BY <1>3, ChangesStages DEF FilesOK
<1> QED
  BY <1>2, <1>4 DEF FilesOK

\* The kept originals change, and their directory is synced.
LEMMA OriginalsStep ==
  ASSUME FilesOK, NEW K \in SUBSET Digests, Originals([fs EXCEPT !.kept = K])
  PROVE  /\ FilesOK'
         /\ fs'.files = fs.files       /\ durable'.files = durable.files
         /\ fs'.manifest = fs.manifest /\ durable'.manifest = durable.manifest
         /\ fs'.journal = fs.journal   /\ durable'.journal = durable.journal
         /\ fs'.stages = fs.stages     /\ durable'.stages = durable.stages
         /\ fs'.kept = K               /\ durable'.kept = K
<1>1. fs' = [fs EXCEPT !.kept = K]
  BY DEF Originals
<1>2. /\ fs' \in FileSystems /\ fs'.files = fs.files /\ fs'.manifest = fs.manifest
      /\ fs'.journal = fs.journal /\ fs'.stages = fs.stages /\ fs'.kept = K
  BY <1>1, ChangesKept DEF FilesOK
<1>3. durable' = [durable EXCEPT !.kept = K]
  BY <1>2 DEF Originals
<1>4. /\ durable' \in FileSystems /\ durable'.files = durable.files
      /\ durable'.manifest = durable.manifest /\ durable'.journal = durable.journal
      /\ durable'.stages = durable.stages /\ durable'.kept = K
  BY <1>3, ChangesKept DEF FilesOK
<1> QED
  BY <1>2, <1>4 DEF FilesOK

\* The manifest or the journal changes, and the directory of both is synced.
LEMMA ControlStep ==
  ASSUME FilesOK, NEW new \in FileSystems, Control(new),
         new.files = fs.files, new.stages = fs.stages, new.kept = fs.kept
  PROVE  /\ FilesOK'
         /\ fs'.files = fs.files       /\ durable'.files = durable.files
         /\ fs'.manifest = new.manifest /\ durable'.manifest = new.manifest
         /\ fs'.journal = new.journal   /\ durable'.journal = new.journal
         /\ fs'.stages = fs.stages     /\ durable'.stages = durable.stages
         /\ fs'.kept = fs.kept         /\ durable'.kept = durable.kept
<1>1. /\ fs' = new
      /\ durable' = [durable EXCEPT !.manifest = new.manifest, !.journal = new.journal]
  BY DEF Control
<1> DEFINE half == [durable EXCEPT !.manifest = new.manifest]
<1>2. durable' = [half EXCEPT !.journal = new.journal]
  BY <1>1
<1>3. /\ half \in FileSystems /\ half.files = durable.files /\ half.manifest = new.manifest
      /\ half.stages = durable.stages /\ half.kept = durable.kept
  BY ChangesManifest, Parts DEF FilesOK
<1> HIDE DEF half
<1>4. /\ durable' \in FileSystems /\ durable'.files = half.files
      /\ durable'.manifest = half.manifest /\ durable'.journal = new.journal
      /\ durable'.stages = half.stages /\ durable'.kept = half.kept
  BY <1>2, <1>3, ChangesJournal, Parts
<1> QED
  BY <1>1, <1>3, <1>4 DEF FilesOK

-----------------------------------------------------------------------------
(* The invariant of the files.                                             *)

\* The transactions on disk.
LEMMA JournalParts ==
  ASSUME FilesOK
  PROVE  /\ fs.journal # None => fs.journal \in Transactions
         /\ durable.journal # None => durable.journal \in Transactions
         /\ Committed(fs) \in Collections
BY Parts, TransactionParts DEF FilesOK, Committed

\* What stays when nothing but the stages and the kept originals change.
LEMMA FiledBeside ==
  ASSUME FilesOK, Filed, touched' = touched,
         fs'.files = fs.files, durable'.files = durable.files,
         fs'.manifest = fs.manifest, durable'.manifest = durable.manifest,
         fs'.journal = fs.journal, durable'.journal = durable.journal,
         fs'.kept \subseteq durable'.kept, Refers(Committed(fs), fs'.kept),
         fs.journal # None =>
           \A e \in fs.journal.add : There(e) \/ (e \in fs'.stages /\ e \in durable'.stages)
  PROVE  Filed'
<1>1. Synced'
  BY DEF Filed, Synced, Ended, Added, There, Gone, Matches, Absent
<1>2. (Good(durable.journal)' /\ Fits(durable.journal)') \/ durable'.journal = None
  BY DEF Filed, Journalling, Good, Fits, InFolder, There, Gone, Matches, Absent
<1>3. Backed(durable.journal)' \/ durable'.journal = None
  BY DEF Filed, Synced, Backed, Ended, Added, There, Matches
<1>4. Complete'
  BY DEF Filed, Complete, InFolder, Refers, Committed
<1> QED
  BY <1>1, <1>2, <1>3, <1>4 DEF Filed, Journalling

\* Nothing changes.
LEMMA FiledSame ==
  ASSUME FilesOK, Filed, UNCHANGED <<fs, durable, touched>>
  PROVE  FilesOK' /\ Filed'
<1>1. FilesOK'
  BY DEF FilesOK
<1>2. Filed'
  BY DEF Filed, Synced, Journalling, Complete, Ended, Added, There, Gone, Matches, Absent,
         Good, Fits, Backed, InFolder, Refers, Committed
<1> QED
  BY <1>1, <1>2

\* A file of the journal is published.
LEMMA FiledPublish ==
  ASSUME FilesOK, Filed, touched' = touched, fs.journal # None,
         NEW e \in fs.journal.add, Absent(e), Folder(Published(e))
  PROVE  FilesOK' /\ Filed'
<1> DEFINE t == fs.journal
<1>1. t \in Transactions /\ durable.journal = t
  BY JournalParts DEF Filed, Synced
<1>2. e \in Effects /\ t.add \subseteq Effects /\ t.del \subseteq Effects /\ t.next \in Collections
  BY <1>1, TransactionParts
<1>3. e.name \in Names /\ e.digest \in Digests /\ e.digest # None
  BY <1>2, EffectParts
<1>4. /\ FilesOK'
      /\ fs'.files = [fs.files EXCEPT ![e.name] = e.digest] /\ durable'.files = fs'.files
      /\ fs'.manifest = fs.manifest /\ durable'.manifest = durable.manifest
      /\ fs'.journal = fs.journal   /\ durable'.journal = durable.journal
      /\ fs'.stages = fs.stages     /\ durable'.stages = durable.stages
      /\ fs'.kept = fs.kept         /\ durable'.kept = durable.kept
  BY <1>3, FolderStep DEF Published
<1>5. fs'.files[e.name] = e.digest /\ \A n \in Names : n # e.name => fs'.files[n] = fs.files[n]
  BY <1>3, <1>4, Parts DEF FilesOK
<1>6. Good(t) /\ Fits(t) /\ Backed(t)
  BY <1>1 DEF Filed, Journalling
<1>7. Synced'
  BY <1>1, <1>4 DEF Filed, Synced
<1>8. Good(durable.journal)'
  BY <1>1, <1>4, <1>6 DEF Good
<1>9. \A f \in t.add : There(f) => There(f)'
  <2> SUFFICES ASSUME NEW f \in t.add, There(f), f.name \notin touched
               PROVE  Matches(f)'
    BY DEF There
  <2>1. f \in Effects /\ f.name \in Names /\ f.digest # None /\ fs.files[f.name] = f.digest
    BY <1>2, EffectParts DEF There, Matches
  <2>2. f.name # e.name
    BY <2>1 DEF Absent
  <2> QED
    BY <1>5, <2>1, <2>2 DEF Matches
<1>10. \A f \in t.del : (There(f) \/ Gone(f)) => (There(f) \/ Gone(f))'
  <2> SUFFICES ASSUME NEW f \in t.del
               PROVE  (There(f) \/ Gone(f)) => (There(f) \/ Gone(f))'
    OBVIOUS
  <2>1. f.name \in Names
    BY <1>2, EffectParts
  <2>2. f.name # e.name
    BY <1>6 DEF Good
  <2> QED
    BY <1>5, <2>1, <2>2 DEF There, Gone, Matches, Absent
<1>11. \A n \in Names : t.next[n] # None =>
         \/ n \in touched \/ fs'.files[n] = t.next[n].digest
         \/ fs'.files[n] = None /\ [name |-> n, digest |-> t.next[n].digest] \in t.add
  <2> SUFFICES ASSUME NEW n \in Names, t.next[n] # None
               PROVE  \/ n \in touched \/ fs'.files[n] = t.next[n].digest
                      \/ fs'.files[n] = None /\ [name |-> n, digest |-> t.next[n].digest] \in t.add
    OBVIOUS
  <2>1. CASE n = e.name
    BY <1>5, <1>6, <2>1 DEF Good
  <2>2. CASE n # e.name
    BY <1>5, <1>6, <2>2 DEF Fits, InFolder
  <2> QED
    BY <2>1, <2>2
<1>12. Fits(durable.journal)'
  <2>1. durable'.journal = t
    BY <1>1, <1>4
  <2> HIDE DEF t
  <2>2. \A f \in t.del : (There(f) \/ Gone(f))'
    BY <1>6, <1>10 DEF Fits
  <2> QED
    BY <1>11, <2>1, <2>2 DEF Fits, InFolder, There, Gone, Matches, Absent
<1>13. Backed(durable.journal)'
  <2>1. durable'.journal = t /\ fs'.stages = fs.stages /\ durable'.stages = durable.stages
    BY <1>1, <1>4
  <2> HIDE DEF t
  <2>2. \A f \in t.add : There(f)' \/ (f \in fs.stages /\ f \in durable.stages)
    BY <1>6, <1>9 DEF Backed
  <2> QED
    BY <2>1, <2>2 DEF Backed, There, Matches
<1>14. Complete'
  BY <1>4 DEF Filed, Complete, Refers, Committed
<1> QED
  BY <1>4, <1>7, <1>8, <1>12, <1>13, <1>14 DEF Filed, Journalling

\* A file that is not in the next collection is deleted.
LEMMA FiledDelete ==
  ASSUME FilesOK, Filed, touched' = touched, fs.journal # None,
         NEW e \in fs.journal.del, Matches(e), Folder(Deleted(e))
  PROVE  FilesOK' /\ Filed'
<1> DEFINE t == fs.journal
<1>1. t \in Transactions /\ durable.journal = t
  BY JournalParts DEF Filed, Synced
<1>2. e \in Effects /\ t.add \subseteq Effects /\ t.del \subseteq Effects /\ t.next \in Collections
  BY <1>1, TransactionParts
<1>3. e.name \in Names
  BY <1>2, EffectParts
<1>4. /\ FilesOK'
      /\ fs'.files = [fs.files EXCEPT ![e.name] = None] /\ durable'.files = fs'.files
      /\ fs'.manifest = fs.manifest /\ durable'.manifest = durable.manifest
      /\ fs'.journal = fs.journal   /\ durable'.journal = durable.journal
      /\ fs'.stages = fs.stages     /\ durable'.stages = durable.stages
      /\ fs'.kept = fs.kept         /\ durable'.kept = durable.kept
  BY <1>3, FolderStep DEF Deleted
<1>5. fs'.files[e.name] = None /\ \A n \in Names : n # e.name => fs'.files[n] = fs.files[n]
  BY <1>3, <1>4, Parts DEF FilesOK
<1>6. Good(t) /\ Fits(t) /\ Backed(t)
  BY <1>1 DEF Filed, Journalling
<1>7. Synced'
  BY <1>1, <1>4 DEF Filed, Synced
<1>8. Good(durable.journal)'
  BY <1>1, <1>4, <1>6 DEF Good
<1>9. \A f \in t.add : There(f) => There(f)'
  <2> SUFFICES ASSUME NEW f \in t.add
               PROVE  There(f) => There(f)'
    OBVIOUS
  <2>1. f.name \in Names
    BY <1>2, EffectParts
  <2>2. f.name # e.name
    BY <1>6 DEF Good
  <2> QED
    BY <1>5, <2>1, <2>2 DEF There, Matches
<1>10. \A f \in t.del : (There(f) \/ Gone(f)) => (There(f) \/ Gone(f))'
  <2> SUFFICES ASSUME NEW f \in t.del
               PROVE  (There(f) \/ Gone(f)) => (There(f) \/ Gone(f))'
    OBVIOUS
  <2>1. f.name \in Names
    BY <1>2, EffectParts
  <2> QED
    BY <1>5, <2>1 DEF There, Gone, Matches, Absent
<1>11. \A n \in Names : t.next[n] # None =>
         \/ n \in touched \/ fs'.files[n] = t.next[n].digest
         \/ fs'.files[n] = None /\ [name |-> n, digest |-> t.next[n].digest] \in t.add
  BY <1>5, <1>6 DEF Fits, InFolder, Good
<1>12. Fits(durable.journal)'
  <2>1. durable'.journal = t
    BY <1>1, <1>4
  <2> HIDE DEF t
  <2>2. \A f \in t.del : (There(f) \/ Gone(f))'
    BY <1>6, <1>10 DEF Fits
  <2> QED
    BY <1>11, <2>1, <2>2 DEF Fits, InFolder, There, Gone, Matches, Absent
<1>13. Backed(durable.journal)'
  <2>1. durable'.journal = t /\ fs'.stages = fs.stages /\ durable'.stages = durable.stages
    BY <1>1, <1>4
  <2> HIDE DEF t
  <2>2. \A f \in t.add : There(f)' \/ (f \in fs.stages /\ f \in durable.stages)
    BY <1>6, <1>9 DEF Backed
  <2> QED
    BY <2>1, <2>2 DEF Backed, There, Matches
<1>14. Complete'
  BY <1>4 DEF Filed, Complete, Refers, Committed
<1> QED
  BY <1>4, <1>7, <1>8, <1>12, <1>13, <1>14 DEF Filed, Journalling

-----------------------------------------------------------------------------
(* The steps.                                                              *)

\* Between operations nothing is owed.
LEMMA Ending ==
  ASSUME EndOp
  PROVE  RunOK' /\ Phased'
<1>1. RunOK'
  BY DEF EndOp, Goto, RunOK
<1>2. Planned' /\ Publishing' /\ Settled'
  BY DEF EndOp, Goto, Planned, Publishing, Settled
<1> QED
  BY <1>1, <1>2 DEF Phased

LEMMA EndingUnchanged ==
  ASSUME Sound, EndOp, UNCHANGED <<fs, durable, touched>>
  PROVE  Sound'
BY Ending, FiledSame DEF Sound

\* A transaction is planned, or found in the journal.
LEMMA TxParts ==
  ASSUME Sound, pc \notin {"idle", "plan"}
  PROVE  /\ tx \in Transactions /\ tx # None
         /\ tx.add \subseteq Effects /\ tx.del \subseteq Effects /\ tx.next \in Collections
<1>1. tx \in Transactions /\ tx # None
  BY DEF Sound, RunOK, Phased, Planned
<1> QED
  BY <1>1, TransactionParts

LEMMA BeginStep ==
  ASSUME Sound, Begin
  PROVE  Sound'
<1>1. FilesOK' /\ Filed'
  BY FiledSame DEF Sound, Begin
<1>2. CASE fs.journal = None /\ Goto("plan", {}) /\ UNCHANGED tx
  <2>1. RunOK'
    BY <1>2 DEF Sound, Begin, RunOK, Goto, Phases
  <2>2. Planned' /\ Publishing' /\ Settled'
    BY <1>2 DEF Begin, Goto, Planned, Publishing, Settled
  <2> QED
    BY <1>1, <2>1, <2>2 DEF Sound, Phased
<1>3. CASE fs.journal # None /\ tx' = fs.journal /\ AfterPublish(fs.journal.add)
  <2>1. fs.journal \in Transactions /\ fs.journal.add \in SUBSET Effects
    BY <1>3, JournalParts, TransactionParts DEF Sound
  <2>2. /\ pc' \in {"publish", "manifest"} /\ todo' = fs.journal.add
        /\ (pc' = "publish" => todo' # {}) /\ (pc' = "manifest" => todo' = {})
    BY <1>3 DEF AfterPublish, Goto
  <2>3. RunOK'
    BY <1>3, <2>1, <2>2 DEF Sound, Begin, RunOK, Phases
  <2>4. Planned'
    BY <1>3, <2>2 DEF Planned
  <2>5. Publishing'
    BY <1>3, <2>2 DEF Publishing, Begin, Added
  <2>6. Settled'
    BY <2>2 DEF Settled
  <2> QED
    BY <1>1, <2>3, <2>4, <2>5, <2>6 DEF Sound, Phased
<1> QED
  BY <1>2, <1>3 DEF Begin

\* The artwork a scan finds is in the folder, with a lineage on record.
LEMMA ScanFinds ==
  ASSUME Sound, fs.journal = None, NEW blind, NEW view \in Scans(blind), NEW n \in Names
  PROVE  /\ view \in Collections
         /\ view[n] # None => /\ fs.files[n] # None /\ view[n].digest = fs.files[n]
                              /\ view[n].orig \in fs.kept \cup {None}
         /\ view[n] = None => fs.files[n] = None \/ n \in blind
<1>1. /\ view \in Collections
      /\ IF fs.files[n] = None \/ n \in blind THEN view[n] = None
         ELSE view[n] # None /\ view[n].digest = fs.files[n] /\ view[n].orig \in Lineages(n)
  BY DEF Scans
<1>2. Refers(fs.manifest, fs.kept)
  BY DEF Sound, Filed, Complete, Committed
<1>3. \A d : \A o \in Renamed(d) : o \in fs.kept
  BY <1>2 DEF Renamed, Refers
<1>4. \A o \in Lineages(n) : o \in fs.kept \cup {None}
  BY <1>2, <1>3 DEF Lineages, Refers
<1> QED
  BY <1>1, <1>4

LEMMA PlanPrepareStep ==
  ASSUME Sound, PlanPrepare
  PROVE  Sound'
<1> USE DEF PlanPrepare
<1>1. FilesOK' /\ Filed'
  BY FiledSame DEF Sound
<1>2. PICK blind \in SUBSET {n \in Names : fs.files[n] # None} :
        \E view \in Scans(blind) :
          \/ EndOp
          \/ /\ tx' = [kind |-> "manifest", add |-> {}, del |-> {}, next |-> view]
             /\ mine' = TRUE
             /\ UNCHANGED op
             /\ IF view = fs.manifest THEN Goto("collect", fs.kept \ Origins(view))
                                      ELSE Goto("journal", {})
  OBVIOUS
<1>3. PICK view \in Scans(blind) :
          \/ EndOp
          \/ /\ tx' = [kind |-> "manifest", add |-> {}, del |-> {}, next |-> view]
             /\ mine' = TRUE
             /\ UNCHANGED op
             /\ IF view = fs.manifest THEN Goto("collect", fs.kept \ Origins(view))
                                      ELSE Goto("journal", {})
  BY <1>2
<1>4. CASE EndOp
  BY <1>1, <1>4, Ending DEF Sound
<1>5. CASE /\ tx' = [kind |-> "manifest", add |-> {}, del |-> {}, next |-> view]
           /\ mine' = TRUE
           /\ UNCHANGED op
           /\ IF view = fs.manifest THEN Goto("collect", fs.kept \ Origins(view))
                                    ELSE Goto("journal", {})
  <2>1. fs.journal = None /\ fs'.journal = None /\ pc = "plan"
    BY DEF Sound, Phased, Planned
  <2>2. view \in Collections
    BY DEF Scans
  <2>3. /\ tx' \in Transactions /\ tx'.kind = "manifest" /\ tx'.add = {} /\ tx'.del = {}
        /\ tx'.next = view /\ tx' # None
    BY <1>5, <2>2, NoneIsDistinct DEF Transactions
  <2>4. /\ \A n \in Names : view[n] # None => fs.files[n] = view[n].digest
        /\ Refers(view, fs.kept)
    BY <2>1, ScanFinds DEF Refers
  <2>5. CASE view = fs.manifest /\ Goto("collect", fs.kept \ Origins(view))
    <3>1. RunOK'
      BY <1>5, <2>3, <2>5, Parts DEF Sound, FilesOK, RunOK, Goto, Phases
    <3>2. \A n \in Names : view[n] # None => view[n].orig \notin fs.kept \ Origins(view)
      <4> SUFFICES ASSUME NEW n \in Names, view[n] # None
                   PROVE  view[n].orig \notin fs.kept \ Origins(view)
        OBVIOUS
      <4>1. CASE view[n].orig = None
        BY <4>1, Parts, NoneIsDistinct DEF Sound, FilesOK
      <4>2. CASE view[n].orig # None
        BY <4>2 DEF Origins, Present
      <4> QED
        BY <4>1, <4>2
    <3>3. Planned' /\ Publishing'
      BY <2>1, <2>3, <2>5 DEF Goto, Planned, Publishing
    <3>4. Settled'
      BY <2>3, <2>5, <3>2 DEF Goto, Settled
    <3> QED
      BY <1>1, <3>1, <3>3, <3>4 DEF Sound, Phased
  <2>6. CASE view # fs.manifest /\ Goto("journal", {})
    <3>1. RunOK'
      BY <1>5, <2>3, <2>6 DEF Sound, RunOK, Goto, Phases
    <3>2. Planned'
      BY <2>1, <2>3, <2>4, <2>6 DEF Goto, Planned, Good, Fits, InFolder, Refers
    <3>3. Publishing' /\ Settled'
      BY <2>6 DEF Goto, Publishing, Settled
    <3> QED
      BY <1>1, <3>1, <3>2, <3>3 DEF Sound, Phased
  <2> QED
    BY <1>5, <2>5, <2>6
<1> QED
  BY <1>3, <1>4, <1>5

\* What a transaction from one collection to another is.
LEMMA TransactionIs ==
  ASSUME NEW view \in Collections, NEW next \in Collections,
         NEW t, t = Transaction(view, next)
  PROVE  /\ t \in Transactions /\ t.next = next
         /\ t.kind = "manifest" => t.add = {} /\ t.del = {}
         /\ \A e \in t.add : /\ e.name \in Names /\ view[e.name] = None /\ next[e.name] # None
                             /\ e.digest = next[e.name].digest
         /\ \A e \in t.del : /\ e.name \in Names /\ view[e.name] # None /\ next[e.name] = None
                             /\ e.digest = view[e.name].digest
         /\ \A n \in Names : view[n] = None /\ next[n] # None =>
              [name |-> n, digest |-> next[n].digest] \in t.add
<1> DEFINE add == EffectsOf(next, Present(next) \ Present(view))
           del == EffectsOf(view, Present(view) \ Present(next))
<1>1. t = [kind |-> IF add \cup del = {} THEN "manifest" ELSE "batch",
           add |-> add, del |-> del, next |-> next]
  BY DEF Transaction
<1>2. /\ \A e \in add : /\ e.name \in Names /\ view[e.name] = None /\ next[e.name] # None
                        /\ e.digest = next[e.name].digest /\ e \in Effects
      /\ \A n \in Names : view[n] = None /\ next[n] # None =>
              [name |-> n, digest |-> next[n].digest] \in add
  BY ItemParts DEF EffectsOf, Present, Effects
<1>3. \A e \in del : /\ e.name \in Names /\ view[e.name] # None /\ next[e.name] = None
                     /\ e.digest = view[e.name].digest /\ e \in Effects
  BY ItemParts DEF EffectsOf, Present, Effects
<1> HIDE DEF add, del
<1>4. t.add = add /\ t.del = del /\ t.next = next
      /\ t.kind = IF add \cup del = {} THEN "manifest" ELSE "batch"
  BY <1>1
<1>5. t \in Transactions
  BY <1>1, <1>2, <1>3 DEF Transactions
<1> QED
  BY <1>2, <1>3, <1>4, <1>5

\* A plan that keeps the bytes of what is there and whose originals are kept fits.
LEMMA PlanFits ==
  ASSUME Sound, fs.journal = None, NEW view \in Scans({}), NEW next \in Collections,
         \A n \in Names : view[n] # None /\ next[n] # None => next[n].digest = view[n].digest,
         NEW t, t = Transaction(view, next)
  PROVE  /\ Good(t)
         /\ \A n \in Names : t.next[n] # None =>
              \/ fs.files[n] = t.next[n].digest
              \/ fs.files[n] = None /\ [name |-> n, digest |-> t.next[n].digest] \in t.add
         /\ \A e \in t.del : Matches(e)
<1>1. /\ view \in Collections
      /\ \A n \in Names : /\ view[n] # None => view[n].digest = fs.files[n]
                          /\ view[n] = None => fs.files[n] = None
  BY ScanFinds DEF Scans
<1>2. /\ t.next = next
      /\ t.kind = "manifest" => t.add = {} /\ t.del = {}
      /\ \A e \in t.add : /\ e.name \in Names /\ view[e.name] = None /\ next[e.name] # None
                          /\ e.digest = next[e.name].digest
      /\ \A e \in t.del : /\ e.name \in Names /\ view[e.name] # None /\ next[e.name] = None
                          /\ e.digest = view[e.name].digest
      /\ \A n \in Names : view[n] = None /\ next[n] # None =>
           [name |-> n, digest |-> next[n].digest] \in t.add
  BY <1>1, TransactionIs
<1>3. Good(t)
  BY <1>2 DEF Good
<1>4. \A e \in t.del : Matches(e)
  BY <1>1, <1>2 DEF Matches
<1> QED
  BY <1>1, <1>2, <1>3, <1>4

LEMMA PlanImportStep ==
  ASSUME Sound, PlanImport
  PROVE  Sound'
<1> USE DEF PlanImport
<1>1. FilesOK' /\ Filed'
  BY FiledSame DEF Sound
<1>2. PICK view \in Scans({}), next \in Collections :
       /\ \A n \in Present(view) : next[n] = view[n]
       /\ \A n \in Present(next) \ Present(view) :
            /\ next[n].orig = None
            /\ \A m \in Present(next) \ {n} : next[m].digest # next[n].digest
       /\ tx' = Transaction(view, next)
       /\ Goto(IF next = view THEN "journal" ELSE "clean", {})
  OBVIOUS
<1>3. fs.journal = None /\ fs'.journal = None /\ view \in Collections
  BY DEF Sound, Phased, Planned, Scans
<1>4. tx' \in Transactions /\ tx' # None /\ tx'.next = next
  BY <1>2, <1>3, TransactionIs, TransactionParts
<1>5. \A n \in Names : view[n] # None => next[n] = view[n]
  BY <1>2 DEF Present
<1>6. /\ Good(tx')
      /\ \A n \in Names : next[n] # None =>
              \/ fs.files[n] = next[n].digest
              \/ fs.files[n] = None /\ [name |-> n, digest |-> next[n].digest] \in tx'.add
      /\ \A e \in tx'.del : Matches(e)
  BY <1>2, <1>3, <1>4, <1>5, PlanFits
<1>7. Refers(next, fs.kept)
  <2> SUFFICES ASSUME NEW n \in Names, next[n] # None
               PROVE  next[n].orig \in fs.kept \cup {None}
    BY DEF Refers
  <2>1. CASE view[n] = None
    BY <1>2, <2>1 DEF Present
  <2>2. CASE view[n] # None
    BY <1>3, <1>5, <2>2, ScanFinds
  <2> QED
    BY <2>1, <2>2
<1>8. next = view => tx'.add = {}
  <2> SUFFICES ASSUME next = view, NEW e \in tx'.add
               PROVE  FALSE
    OBVIOUS
  <2> QED
    BY <1>2, <1>3, TransactionIs
<1>9. pc' \in {"journal", "clean"} /\ (pc' = "journal" => tx'.add = {}) /\ todo' = {}
  BY <1>2, <1>8 DEF Goto
<1>10. RunOK'
  BY <1>4, <1>9 DEF Sound, RunOK, Phases
<1>11. Planned'
  BY <1>3, <1>4, <1>6, <1>7, <1>9 DEF Planned, Good, Fits, InFolder, There, Gone, Matches, Refers
<1>12. Publishing' /\ Settled'
  BY <1>9 DEF Publishing, Settled
<1> QED
  BY <1>1, <1>10, <1>11, <1>12 DEF Sound, Phased

LEMMA PlanApplyStep ==
  ASSUME Sound, PlanApply
  PROVE  Sound'
<1> USE DEF PlanApply
<1>1. FilesOK' /\ Filed'
  BY FiledSame DEF Sound
<1>2. PICK view \in Scans({}), next \in Collections :
       /\ Applicable(view, next)
       /\ \/ next = view /\ EndOp
          \/ /\ next # view
             /\ tx' = Transaction(view, next)
             /\ mine' = TRUE
             /\ AfterKeep(NewOrigins(view, next), Transaction(view, next))
             /\ UNCHANGED op
  OBVIOUS
<1>3. fs.journal = None /\ fs'.journal = None /\ view \in Collections
  BY DEF Sound, Phased, Planned, Scans
<1>4. CASE next = view /\ EndOp
  BY <1>1, <1>4, Ending DEF Sound
<1>5. CASE /\ next # view
           /\ tx' = Transaction(view, next)
           /\ mine' = TRUE
           /\ AfterKeep(NewOrigins(view, next), Transaction(view, next))
           /\ UNCHANGED op
  <2> DEFINE new == NewOrigins(view, next)
  <2>1. tx' \in Transactions /\ tx' # None /\ tx'.next = next
    BY <1>3, <1>5, TransactionIs, TransactionParts
  <2>2. \A n \in Names : next[n] # None =>
          /\ view[n] = None => next[n].orig # None
          /\ view[n] # None => /\ next[n].digest = view[n].digest
                               /\ view[n].orig \in {None, next[n].orig}
    BY <1>2 DEF Applicable, Present
  <2>3. /\ Good(tx')
        /\ \A n \in Names : next[n] # None =>
                \/ fs.files[n] = next[n].digest
                \/ fs.files[n] = None /\ [name |-> n, digest |-> next[n].digest] \in tx'.add
        /\ \A e \in tx'.del : Matches(e)
    BY <1>3, <1>5, <2>1, <2>2, PlanFits
  <2>4. \A n \in Names : next[n] # None => next[n].orig \in fs.kept \cup new \cup {None}
    <3> SUFFICES ASSUME NEW n \in Names, next[n] # None,
                        view[n] # None, view[n].orig = next[n].orig
                 PROVE  next[n].orig \in fs.kept \cup {None}
      BY DEF NewOrigins, Present
    <3> QED
      BY <1>3, ScanFinds
  <2>5. new \subseteq Digests
    <3> SUFFICES ASSUME NEW n \in Names, next[n] # None,
                        view[n] = None \/ view[n].orig # next[n].orig
                 PROVE  next[n].orig \in Digests
      BY DEF NewOrigins, Present
    <3> QED
      BY <2>2, ItemParts
  <2>6. /\ pc' \in {"keep", "clean", "journal"}
        /\ todo' \in SUBSET Digests /\ (pc' # "keep" => todo' = {} /\ new = {})
        /\ pc' = "keep" => todo' = new /\ todo' # {}
        /\ pc' = "journal" => tx'.kind # "batch"
    BY <1>5, <2>5 DEF AfterKeep, Goto
  <2> HIDE DEF new
  <2>7. RunOK'
    BY <1>5, <2>1, <2>6 DEF Sound, RunOK, Phases
  <2>8. pc' = "journal" => tx'.add = {}
    BY <2>1, <2>3, <2>6, TransactionParts DEF Good
  <2>9. Refers(next, fs.kept \cup (IF pc' = "keep" THEN todo' ELSE {}))
    BY <2>4, <2>6 DEF Refers
  <2>10. Planned'
    BY <1>3, <2>1, <2>3, <2>6, <2>8, <2>9
    DEF Planned, Good, Fits, InFolder, There, Gone, Matches, Refers
  <2>11. Publishing' /\ Settled'
    BY <2>6 DEF Publishing, Settled
  <2> QED
    BY <1>1, <2>7, <2>10, <2>11 DEF Sound, Phased
<1> QED
  BY <1>2, <1>4, <1>5

\* Nothing is planned but what fits, until the journal is written.
LEMMA Fitting ==
  ASSUME Sound, pc \in {"keep", "clean", "stage", "journal"}
  PROVE  /\ fs.journal = None /\ Good(tx) /\ Fits(tx)
         /\ tx \in Transactions /\ tx # None /\ tx.add \subseteq Effects
         /\ tx.next \in Collections
         /\ pc # "keep" => Refers(tx.next, fs.kept)
<1>1. pc # "keep" => Refers(tx.next, fs.kept)
  BY DEF Sound, Phased, Planned, Refers
<1> QED
  BY <1>1, TxParts DEF Sound, Phased, Planned

LEMMA KeepStep ==
  ASSUME Sound, Keep
  PROVE  Sound'
<1> USE DEF Keep
<1>1. PICK o \in todo :
       /\ AfterKeep(todo \ {o}, tx)
       /\ \/ o \in fs.kept /\ UNCHANGED <<fs, durable>>
          \/ o \notin fs.kept /\ (\E n \in Names : fs.files[n] = o) /\ Originals(Kept(o))
  OBVIOUS
<1>2. todo \subseteq Digests
  BY DEF Sound, RunOK
<1>3. /\ fs.journal = None /\ Good(tx) /\ Fits(tx)
      /\ tx \in Transactions /\ tx # None /\ tx.next \in Collections
      /\ Refers(tx.next, fs.kept \cup todo)
  BY Fitting DEF Sound, Phased, Planned
<1>4. FilesOK' /\ Filed' /\ fs'.files = fs.files /\ fs'.journal = fs.journal
      /\ fs'.kept = fs.kept \cup {o}
  <2>1. CASE o \in fs.kept /\ UNCHANGED <<fs, durable>>
    BY <2>1, FiledSame DEF Sound
  <2>2. CASE Originals(Kept(o))
    <3>1. fs.kept \cup {o} \in SUBSET Digests
      BY <1>2, Parts DEF Sound, FilesOK
    <3>2. /\ FilesOK'
          /\ fs'.files = fs.files       /\ durable'.files = durable.files
          /\ fs'.manifest = fs.manifest /\ durable'.manifest = durable.manifest
          /\ fs'.journal = fs.journal   /\ durable'.journal = durable.journal
          /\ fs'.stages = fs.stages     /\ durable'.stages = durable.stages
          /\ fs'.kept = fs.kept \cup {o} /\ durable'.kept = fs.kept \cup {o}
      BY <2>2, <3>1, OriginalsStep DEF Sound, Kept
    <3>3. Refers(Committed(fs), fs'.kept)
      BY <3>2 DEF Sound, Filed, Complete, Refers
    <3>4. Filed'
      BY <1>3, <3>2, <3>3, FiledBeside DEF Sound
    <3> QED
      BY <3>2, <3>4
  <2> QED
    BY <1>1, <2>1, <2>2
<1>5. /\ pc' \in {"keep", "clean", "journal"}
      /\ pc' = "keep" => todo' = todo \ {o} /\ todo' # {}
      /\ pc' # "keep" => todo' = {} /\ todo \ {o} = {}
      /\ pc' = "journal" => tx.kind # "batch"
  BY <1>1 DEF AfterKeep, Goto
<1>6. RunOK'
  BY <1>2, <1>5 DEF Sound, RunOK, Phases
<1>7. pc' = "journal" => tx.add = {}
  BY <1>3, <1>5, TransactionParts DEF Good
<1>8. \A n \in Names : tx.next[n] # None =>
        tx.next[n].orig \in fs'.kept \cup (IF pc' = "keep" THEN todo' ELSE {}) \cup {None}
  BY <1>3, <1>4, <1>5 DEF Refers
<1>9. Planned'
  BY <1>3, <1>4, <1>5, <1>7, <1>8
  DEF Planned, Good, Fits, InFolder, There, Gone, Matches, Absent, Refers
<1>10. Publishing' /\ Settled'
  BY <1>5 DEF Publishing, Settled
<1> QED
  BY <1>4, <1>6, <1>9, <1>10 DEF Sound, Phased

LEMMA RemoveOrphanStep ==
  ASSUME Sound, RemoveOrphan
  PROVE  Sound'
<1> USE DEF RemoveOrphan
<1>1. PICK e \in fs.stages : Staging(Unstaged(e))
  OBVIOUS
<1>2. fs.stages \ {e} \in SUBSET Effects
  BY Parts DEF Sound, FilesOK
<1>3. /\ FilesOK'
      /\ fs'.files = fs.files       /\ durable'.files = durable.files
      /\ fs'.manifest = fs.manifest /\ durable'.manifest = durable.manifest
      /\ fs'.journal = fs.journal   /\ durable'.journal = durable.journal
      /\ fs'.kept = fs.kept         /\ durable'.kept = durable.kept
  BY <1>1, <1>2, StagingStep DEF Sound, Unstaged
<1>4. fs.journal = None
  BY DEF Sound, Phased, Planned
<1>5. Filed'
  BY <1>3, <1>4, FiledBeside DEF Sound, Filed, Synced, Complete
<1>6. pc' = pc /\ todo' = todo /\ tx' = tx /\ touched' = touched
  BY DEF runVars
<1>7. RunOK'
  BY DEF Sound, RunOK, runVars
<1>8. Planned'
  BY <1>3, <1>6 DEF Sound, Phased, Planned, Good, Fits, InFolder, There, Gone, Matches, Absent, Refers
<1>9. Publishing' /\ Settled'
  BY <1>6 DEF Publishing, Settled
<1> QED
  BY <1>3, <1>5, <1>7, <1>8, <1>9 DEF Sound, Phased

\* What a stage of the batch, or the journal, comes next.
LEMMA AfterStageOK ==
  ASSUME Sound, pc \in {"clean", "stage"}, UNCHANGED <<op, tx, mine, touched>>,
         NEW rest \in SUBSET tx.add, AfterStage(rest),
         fs'.files = fs.files, fs'.journal = fs.journal, fs'.kept = fs.kept,
         \A e \in tx.add : e \in rest \/ (e \in fs'.stages /\ e \in durable'.stages)
  PROVE  RunOK' /\ Phased'
<1>1. /\ fs.journal = None /\ Good(tx) /\ Fits(tx)
      /\ tx \in Transactions /\ tx # None /\ tx.add \subseteq Effects
      /\ Refers(tx.next, fs.kept)
  BY Fitting
<1>2. /\ pc' \in {"stage", "journal"} /\ todo' = rest
      /\ pc' = "stage" => todo' # {}
      /\ pc' = "journal" => rest = {}
  BY DEF AfterStage, Goto
<1>3. RunOK'
  BY <1>1, <1>2 DEF Sound, RunOK, Phases
<1>4. Planned'
  BY <1>1, <1>2 DEF Planned, Good, Fits, InFolder, There, Gone, Matches, Absent, Refers
<1>5. Publishing' /\ Settled'
  BY <1>2 DEF Publishing, Settled
<1> QED
  BY <1>3, <1>4, <1>5 DEF Phased

LEMMA CleanDoneStep ==
  ASSUME Sound, CleanDone
  PROVE  Sound'
<1> USE DEF CleanDone
<1>1. FilesOK' /\ Filed'
  BY FiledSame DEF Sound
<1>2. CASE pc = "clean" /\ AfterStage(tx.add) /\ UNCHANGED <<op, tx, mine>>
  BY <1>1, <1>2, AfterStageOK DEF Sound
<1>3. CASE pc = "abandon" /\ EndOp
  BY <1>1, <1>3, Ending DEF Sound
<1> QED
  BY <1>2, <1>3

LEMMA StageStep ==
  ASSUME Sound, Stage
  PROVE  Sound'
<1> USE DEF Stage
<1>1. PICK e \in First(todo) : Staging(Staged(e)) /\ AfterStage(todo \ {e})
  OBVIOUS
<1>2. /\ e \in todo /\ e \in Effects /\ todo \subseteq tx.add /\ fs.journal = None
      /\ \A f \in tx.add : f \in todo \/ (f \in fs.stages /\ f \in durable.stages)
  BY DEF First, Sound, RunOK, Phased, Planned
<1>3. fs.stages \cup {e} \in SUBSET Effects
  BY <1>2, Parts DEF Sound, FilesOK
<1>4. /\ FilesOK'
      /\ fs'.files = fs.files       /\ durable'.files = durable.files
      /\ fs'.manifest = fs.manifest /\ durable'.manifest = durable.manifest
      /\ fs'.journal = fs.journal   /\ durable'.journal = durable.journal
      /\ fs'.stages = fs.stages \cup {e} /\ durable'.stages = fs.stages \cup {e}
      /\ fs'.kept = fs.kept         /\ durable'.kept = durable.kept
  BY <1>1, <1>3, StagingStep DEF Sound, Staged
<1>5. Filed'
  BY <1>2, <1>4, FiledBeside DEF Sound, Filed, Synced, Complete
<1>6. RunOK' /\ Phased'
  <2>1. todo \ {e} \in SUBSET tx.add
    BY <1>2
  <2>2. \A f \in tx.add : f \in todo \ {e} \/ (f \in fs'.stages /\ f \in durable'.stages)
    BY <1>2, <1>4
  <2> QED
    BY <1>1, <1>4, <2>1, <2>2, AfterStageOK
<1> QED
  BY <1>4, <1>5, <1>6 DEF Sound

\* What is published next, or the manifest.
LEMMA AfterPublishOK ==
  ASSUME RunOK, UNCHANGED <<op, tx, mine>>, tx \in Transactions, fs'.journal = tx,
         NEW rest \in SUBSET tx.add, AfterPublish(rest),
         \A e \in tx.add : e \in rest \/ There(e)'
  PROVE  RunOK' /\ Phased'
<1>1. tx.add \subseteq Effects /\ tx # None
  BY TransactionParts
<1>2. /\ pc' \in {"publish", "manifest"} /\ todo' = rest
      /\ pc' = "publish" => todo' # {}
      /\ pc' = "manifest" => rest = {}
  BY DEF AfterPublish, Goto
<1>3. RunOK'
  BY <1>1, <1>2 DEF RunOK, Phases
<1>4. Planned'
  BY <1>1, <1>2 DEF Planned
<1>5. Publishing'
  BY <1>2 DEF Publishing, Added, There, Matches
<1>6. Settled'
  BY <1>2 DEF Settled
<1> QED
  BY <1>3, <1>4, <1>5, <1>6 DEF Phased

LEMMA WriteJournalStep ==
  ASSUME Sound, WriteJournal
  PROVE  Sound'
<1> USE DEF WriteJournal
<1>1. /\ fs.journal = None /\ Good(tx) /\ Fits(tx)
      /\ tx \in Transactions /\ tx # None /\ tx.add \subseteq Effects
      /\ tx.next \in Collections /\ Refers(tx.next, fs.kept)
      /\ \A e \in tx.add : e \in fs.stages /\ e \in durable.stages
  BY Fitting DEF Sound, Phased, Planned
<1>2. /\ Journalled \in FileSystems /\ Journalled.files = fs.files
      /\ Journalled.manifest = fs.manifest /\ Journalled.journal = tx
      /\ Journalled.stages = fs.stages /\ Journalled.kept = fs.kept
  BY <1>1, ChangesJournal DEF Journalled, Sound, FilesOK
<1>3. /\ FilesOK'
      /\ fs'.files = fs.files       /\ durable'.files = durable.files
      /\ fs'.manifest = fs.manifest /\ durable'.manifest = fs.manifest
      /\ fs'.journal = tx           /\ durable'.journal = tx
      /\ fs'.stages = fs.stages     /\ durable'.stages = durable.stages
      /\ fs'.kept = fs.kept         /\ durable'.kept = durable.kept
  BY <1>2, ControlStep DEF Sound
<1>4. Synced'
  BY <1>1, <1>3 DEF Sound, Filed, Synced
<1>5. Journalling'
  BY <1>1, <1>3 DEF Journalling, Good, Fits, Backed, InFolder, There, Gone, Matches, Absent
<1>6. Complete'
  BY <1>1, <1>3 DEF Complete, Committed, Refers
<1>7. RunOK' /\ Phased'
  BY <1>1, <1>3, AfterPublishOK DEF Sound
<1> QED
  BY <1>3, <1>4, <1>5, <1>6, <1>7 DEF Sound, Filed

\* What is carried out is what the journal says, there and after a power loss.
LEMMA Running ==
  ASSUME Sound, pc \in {"publish", "unstage", "manifest", "delete", "finish"}
  PROVE  /\ fs.journal = tx /\ durable.journal = tx
         /\ tx \in Transactions /\ tx # None /\ tx.next \in Collections
         /\ tx.add \subseteq Effects /\ tx.del \subseteq Effects
         /\ Good(tx) /\ Fits(tx) /\ Backed(tx) /\ Refers(tx.next, fs.kept)
<1>1. fs.journal = tx /\ tx # None
  BY DEF Sound, Phased, Planned, Publishing
<1>2. durable.journal = tx
  BY <1>1 DEF Sound, Filed, Synced
<1>3. Good(tx) /\ Fits(tx) /\ Backed(tx)
  BY <1>1, <1>2 DEF Sound, Filed, Journalling
<1>4. Refers(tx.next, fs.kept)
  BY <1>1 DEF Sound, Filed, Complete, Committed
<1> QED
  BY <1>1, <1>2, <1>3, <1>4, TxParts

LEMMA PublishStep ==
  ASSUME Sound, Publish
  PROVE  Sound'
<1> USE DEF Publish
<1>1. PICK e \in First(todo) : Absent(e) /\ e \in fs.stages /\ Folder(Published(e))
  OBVIOUS
<1>2. /\ e \in todo /\ todo \subseteq tx.add /\ \A f \in tx.add : f \in todo \/ There(f)
      /\ todo # {}
  BY DEF First, Sound, RunOK, Phased, Publishing
<1>3. /\ fs.journal = tx /\ durable.journal = tx
      /\ tx \in Transactions /\ tx # None /\ tx.add \subseteq Effects /\ Good(tx)
  BY Running
<1>4. FilesOK' /\ Filed'
  BY <1>1, <1>2, <1>3, FiledPublish DEF Sound
<1>5. e.name \in Names /\ e.digest \in Digests /\ e.digest # None
  BY <1>2, <1>3, EffectParts
<1>6. fs'.files = [fs.files EXCEPT ![e.name] = e.digest] /\ fs'.journal = fs.journal
  BY <1>1, <1>5, FolderStep DEF Sound, Published
<1>7. fs'.files[e.name] = e.digest /\ \A n \in Names : n # e.name => fs'.files[n] = fs.files[n]
  BY <1>5, <1>6, Parts DEF Sound, FilesOK
<1>8. pc' = "unstage" /\ todo' = todo /\ tx' = tx /\ touched' = touched
  BY DEF Goto
<1>9. RunOK'
  BY <1>2, <1>3, <1>8 DEF Sound, RunOK, Phases
<1>10. \A f \in tx.add : f.name = e.name => f.digest = e.digest
  BY <1>2, <1>3 DEF Good
<1>11. \A f \in tx.add : (f \in todo \/ There(f))'
  <2> SUFFICES ASSUME NEW f \in tx.add, f \notin todo, f.name \notin touched
               PROVE  fs'.files[f.name] = f.digest
    BY <1>8 DEF There, Matches
  <2>1. f.name \in Names /\ f.digest # None /\ fs.files[f.name] = f.digest
    BY <1>2, <1>3, EffectParts DEF There, Matches
  <2> QED
    BY <1>7, <1>10, <2>1
<1>12. \A f \in First(todo) : There(f)'
  <2> SUFFICES ASSUME NEW f \in First(todo)
               PROVE  fs'.files[f.name] = f.digest
    BY DEF There, Matches
  <2>1. f \in todo /\ f.name <= e.name /\ e.name <= f.name
    BY DEF First
  <2>2. f.name \in Nat /\ e.name \in Nat
    BY <1>2, <1>3, <2>1, EffectParts, NamesAreOrdered
  <2>3. f.name = e.name
    BY <2>1, <2>2
  <2> QED
    BY <1>2, <1>7, <1>10, <2>1, <2>3
<1>13. Planned'
  BY <1>3, <1>8 DEF Planned
<1>14. Publishing'
  BY <1>2, <1>3, <1>6, <1>8, <1>11, <1>12 DEF Publishing, First, There, Matches
<1>15. Settled'
  BY <1>8 DEF Settled
<1> QED
  BY <1>4, <1>9, <1>13, <1>14, <1>15 DEF Sound, Phased

\* A stage of the journal goes when its file is there.
LEMMA FiledUnstage ==
  ASSUME Sound, UNCHANGED <<op, tx, mine, touched>>, pc \in {"publish", "unstage"},
         NEW e \in First(todo), There(e), AfterPublish(todo \ {e}),
         Staging(Unstaged(e)) \/ UNCHANGED <<fs, durable>>
  PROVE  Sound'
<1>1. /\ e \in todo /\ todo \subseteq tx.add /\ \A f \in tx.add : f \in todo \/ There(f)
  BY DEF First, Sound, RunOK, Phased, Publishing
<1>2. /\ fs.journal = tx /\ durable.journal = tx /\ tx \in Transactions /\ Backed(tx)
  BY Running
<1>3. FilesOK' /\ Filed' /\ fs'.files = fs.files /\ fs'.journal = tx
  <2>1. CASE UNCHANGED <<fs, durable>>
    BY <1>2, <2>1, FiledSame DEF Sound
  <2>2. CASE Staging(Unstaged(e))
    <3>1. fs.stages \ {e} \in SUBSET Effects
      BY Parts DEF Sound, FilesOK
    <3>2. /\ FilesOK'
          /\ fs'.files = fs.files       /\ durable'.files = durable.files
          /\ fs'.manifest = fs.manifest /\ durable'.manifest = durable.manifest
          /\ fs'.journal = fs.journal   /\ durable'.journal = durable.journal
          /\ fs'.stages = fs.stages \ {e} /\ durable'.stages = fs.stages \ {e}
          /\ fs'.kept = fs.kept         /\ durable'.kept = durable.kept
      BY <2>2, <3>1, StagingStep DEF Sound, Unstaged
    <3>3. \A f \in tx.add : There(f) \/ (f \in fs'.stages /\ f \in durable'.stages)
      BY <1>2, <3>2 DEF Backed
    <3>4. Filed'
      BY <1>2, <3>2, <3>3, FiledBeside DEF Sound, Filed, Synced, Complete
    <3> QED
      BY <1>2, <3>2, <3>4
  <2> QED
    BY <2>1, <2>2
<1>4. \A f \in tx.add : f \in todo \ {e} \/ There(f)'
  BY <1>1, <1>3 DEF There, Matches
<1>5. todo \ {e} \in SUBSET tx.add
  BY <1>1
<1> QED
  BY <1>2, <1>3, <1>4, <1>5, AfterPublishOK DEF Sound

LEMMA AlreadyPublishedStep ==
  ASSUME Sound, AlreadyPublished
  PROVE  Sound'
<1>1. PICK e \in First(todo) :
       /\ Matches(e)
       /\ \/ e \in fs.stages /\ Staging(Unstaged(e))
          \/ e \notin fs.stages /\ UNCHANGED <<fs, durable>>
       /\ AfterPublish(todo \ {e})
  BY DEF AlreadyPublished
<1>2. There(e)
  BY <1>1 DEF There
<1> QED
  BY <1>1, <1>2, FiledUnstage DEF AlreadyPublished

LEMMA UnstageStep ==
  ASSUME Sound, Unstage
  PROVE  Sound'
<1>1. PICK e \in First(todo) : Staging(Unstaged(e)) /\ AfterPublish(todo \ {e})
  BY DEF Unstage
<1>2. There(e)
  BY DEF Unstage, Sound, Phased, Publishing
<1> QED
  BY <1>1, <1>2, FiledUnstage DEF Unstage

\* What is deleted next, or the end.
LEMMA AfterDeleteOK ==
  ASSUME RunOK, UNCHANGED <<op, tx, mine>>, tx \in Transactions, fs'.journal = tx, Added(tx)',
         fs'.manifest = tx.next, durable'.manifest = tx.next,
         NEW rest \in SUBSET tx.del, AfterDelete(rest),
         \A e \in tx.del : e \in rest \/ Gone(e)'
  PROVE  RunOK' /\ Phased'
<1>1. tx.del \subseteq Effects /\ tx # None
  BY TransactionParts
<1>2. /\ pc' \in {"delete", "finish"} /\ todo' = rest
      /\ pc' = "delete" => todo' # {}
      /\ pc' = "finish" => rest = {}
  BY DEF AfterDelete, Goto
<1>3. RunOK'
  BY <1>1, <1>2 DEF RunOK, Phases
<1>4. Planned'
  BY <1>1, <1>2 DEF Planned
<1>5. Publishing'
  BY <1>2 DEF Publishing, Added, There, Matches
<1>6. Settled'
  BY <1>2 DEF Settled, Gone, Absent
<1> QED
  BY <1>3, <1>4, <1>5, <1>6 DEF Phased

LEMMA WriteManifestStep ==
  ASSUME Sound, WriteManifest
  PROVE  Sound'
<1> USE DEF WriteManifest
<1>1. /\ fs.journal = tx /\ durable.journal = tx
      /\ tx \in Transactions /\ tx # None /\ tx.next \in Collections
      /\ Good(tx) /\ Fits(tx) /\ Backed(tx) /\ Refers(tx.next, fs.kept)
  BY Running
<1>2. /\ Recorded \in FileSystems /\ Recorded.files = fs.files
      /\ Recorded.manifest = tx.next /\ Recorded.journal = tx
      /\ Recorded.stages = fs.stages /\ Recorded.kept = fs.kept
  BY <1>1, ChangesManifest DEF Recorded, Sound, FilesOK
<1>3. /\ FilesOK'
      /\ fs'.files = fs.files       /\ durable'.files = durable.files
      /\ fs'.manifest = tx.next     /\ durable'.manifest = tx.next
      /\ fs'.journal = tx           /\ durable'.journal = tx
      /\ fs'.stages = fs.stages     /\ durable'.stages = durable.stages
      /\ fs'.kept = fs.kept         /\ durable'.kept = durable.kept
  BY <1>2, ControlStep DEF Sound
<1>4. Synced'
  BY <1>1, <1>3 DEF Sound, Filed, Synced
<1>5. Journalling'
  BY <1>1, <1>3 DEF Journalling, Good, Fits, Backed, InFolder, There, Gone, Matches, Absent
<1>6. Complete'
  BY <1>1, <1>3 DEF Complete, Committed, Refers
<1>7. Added(tx)'
  BY <1>3 DEF Sound, Phased, Publishing, Added, There, Matches
<1>8. RunOK' /\ Phased'
  BY <1>1, <1>3, <1>7, AfterDeleteOK DEF Sound
<1> QED
  BY <1>3, <1>4, <1>5, <1>6, <1>8 DEF Sound, Filed

LEMMA DeleteStep ==
  ASSUME Sound, Delete
  PROVE  Sound'
<1> USE DEF Delete
<1>1. PICK e \in First(todo) :
       /\ \/ Matches(e) /\ Folder(Deleted(e))
          \/ Absent(e) /\ UNCHANGED <<fs, durable>>
       /\ AfterDelete(todo \ {e})
  OBVIOUS
<1>2. /\ e \in todo /\ todo \subseteq tx.del /\ \A f \in tx.del : f \in todo \/ Gone(f)
      /\ Added(tx) /\ fs.manifest = tx.next /\ durable.manifest = tx.next
  BY DEF First, Sound, RunOK, Phased, Settled, Publishing
<1>3. /\ fs.journal = tx /\ durable.journal = tx
      /\ tx \in Transactions /\ tx # None
      /\ tx.add \subseteq Effects /\ tx.del \subseteq Effects /\ Good(tx)
  BY Running
<1>4. /\ FilesOK' /\ Filed' /\ fs'.files[e.name] = None
      /\ \A n \in Names : n # e.name => fs'.files[n] = fs.files[n]
      /\ fs'.manifest = fs.manifest /\ durable'.manifest = durable.manifest
      /\ fs'.journal = fs.journal
  <2>1. e.name \in Names
    BY <1>2, <1>3, EffectParts
  <2>2. CASE Matches(e) /\ Folder(Deleted(e))
    <3>1. FilesOK' /\ Filed'
      BY <1>2, <1>3, <2>2, FiledDelete DEF Sound
    <3>2. /\ fs'.files = [fs.files EXCEPT ![e.name] = None] /\ fs'.journal = fs.journal
          /\ fs'.manifest = fs.manifest /\ durable'.manifest = durable.manifest
      BY <2>1, <2>2, FolderStep DEF Sound, Deleted
    <3> QED
      BY <2>1, <3>1, <3>2, Parts DEF Sound, FilesOK
  <2>3. CASE Absent(e) /\ UNCHANGED <<fs, durable>>
    BY <2>3, FiledSame DEF Sound, Absent
  <2> QED
    BY <1>1, <2>2, <2>3
<1>5. Added(tx)'
  <2> SUFFICES ASSUME NEW f \in tx.add, f.name \notin touched
               PROVE  fs'.files[f.name] = f.digest
    BY DEF Added, There, Matches
  <2>1. f.name \in Names /\ fs.files[f.name] = f.digest
    BY <1>2, <1>3, EffectParts DEF Added, There, Matches
  <2>2. f.name # e.name
    BY <1>2, <1>3 DEF Good
  <2> QED
    BY <1>4, <2>1, <2>2
<1>6. \A f \in tx.del : f \in todo \ {e} \/ Gone(f)'
  <2> SUFFICES ASSUME NEW f \in tx.del, f = e \/ Gone(f), f.name \notin touched
               PROVE  fs'.files[f.name] = None
    BY <1>2 DEF Gone, Absent
  <2>1. f.name \in Names
    BY <1>3, EffectParts
  <2> QED
    BY <1>4, <2>1 DEF Gone, Absent
<1>7. todo \ {e} \in SUBSET tx.del
  BY <1>2
<1>8. RunOK' /\ Phased'
  BY <1>1, <1>2, <1>3, <1>4, <1>5, <1>6, <1>7, AfterDeleteOK DEF Sound
<1> QED
  BY <1>4, <1>8 DEF Sound

\* The journal goes: what it asked for is done.
LEMMA FiledFinish ==
  ASSUME Sound, pc = "finish", touched' = touched,
         fs' = Finished, Control(Finished) \/ durable' = durable
  PROVE  /\ FilesOK' /\ Filed' /\ fs'.journal = None
         /\ fs'.manifest = tx.next /\ fs'.files = fs.files
<1>1. /\ fs.journal = tx /\ durable.journal = tx
      /\ tx \in Transactions /\ tx # None /\ tx.next \in Collections
      /\ Good(tx) /\ Fits(tx) /\ Backed(tx) /\ Refers(tx.next, fs.kept)
      /\ tx.add \subseteq Effects
  BY Running
<1>2. Ended(tx) /\ fs.manifest = tx.next /\ durable.manifest = tx.next
  BY DEF Sound, Phased, Publishing, Settled, Ended
<1>3. /\ Finished \in FileSystems /\ Finished.files = fs.files
      /\ Finished.manifest = fs.manifest /\ Finished.journal = None
      /\ Finished.stages = fs.stages /\ Finished.kept = fs.kept
  BY ChangesJournal DEF Finished, Sound, FilesOK
<1>4. /\ FilesOK'
      /\ fs'.files = fs.files       /\ durable'.files = durable.files
      /\ fs'.manifest = tx.next     /\ durable'.manifest = tx.next
      /\ fs'.journal = None         /\ durable'.journal \in {None, tx}
      /\ fs'.stages = fs.stages     /\ durable'.stages = durable.stages
      /\ fs'.kept = fs.kept         /\ durable'.kept = durable.kept
  <2>1. CASE Control(Finished)
    BY <1>2, <1>3, <2>1, ControlStep DEF Sound
  <2>2. CASE durable' = durable
    BY <1>1, <1>2, <1>3, <2>2 DEF Sound, FilesOK
  <2> QED
    BY <2>1, <2>2
<1>5. Synced'
  BY <1>2, <1>4 DEF Sound, Filed, Synced, Ended, Added, There, Gone, Matches, Absent
<1>6. Journalling'
  BY <1>1, <1>4 DEF Journalling, Good, Fits, Backed, InFolder, There, Gone, Matches, Absent
<1>7. \A n \in Names : tx.next[n] # None => InFolder(n, tx.next)
  <2> SUFFICES ASSUME NEW n \in Names, tx.next[n] # None, n \notin touched
               PROVE  fs.files[n] = tx.next[n].digest
    BY DEF InFolder
  <2> DEFINE e == [name |-> n, digest |-> tx.next[n].digest]
  <2>1. CASE e \in tx.add
    BY <1>2, <2>1 DEF Ended, Added, There, Matches
  <2>2. CASE e \notin tx.add
    BY <1>1, <2>2 DEF Fits, InFolder
  <2> QED
    BY <2>1, <2>2
<1>8. Complete'
  BY <1>1, <1>4, <1>7 DEF Complete, Committed, Refers, InFolder
<1> QED
  BY <1>4, <1>5, <1>6, <1>8 DEF Filed

LEMMA FinishStep ==
  ASSUME Sound, Finish
  PROVE  Sound'
<1> USE DEF Finish
<1>1. fs' = Finished
  BY DEF Control
<1>2. /\ FilesOK' /\ Filed' /\ fs'.journal = None /\ fs'.manifest = tx.next
  BY <1>1, FiledFinish
<1>3. tx # None
  BY Running
<1>4. CASE EndOp
  BY <1>2, <1>4, Ending DEF Sound
<1>5. CASE Goto("verify", {}) /\ UNCHANGED <<op, tx, mine>>
  <2>1. RunOK'
    BY <1>5 DEF Sound, RunOK, Goto, Phases
  <2>2. Planned' /\ Publishing' /\ Settled'
    BY <1>2, <1>3, <1>5 DEF Goto, Planned, Publishing, Settled
  <2> QED
    BY <1>2, <2>1, <2>2 DEF Sound, Phased
<1>6. CASE Goto("plan", {}) /\ tx' = None /\ UNCHANGED <<op, mine>>
  <2>1. RunOK'
    BY <1>6 DEF Sound, RunOK, Goto, Phases
  <2>2. Planned' /\ Publishing' /\ Settled'
    BY <1>2, <1>6 DEF Goto, Planned, Publishing, Settled
  <2> QED
    BY <1>2, <2>1, <2>2 DEF Sound, Phased
<1> QED
  BY <1>4, <1>5, <1>6

LEMMA VerifyStep ==
  ASSUME Sound, Verify
  PROVE  Sound'
<1> USE DEF Verify
<1>1. FilesOK' /\ Filed'
  BY FiledSame DEF Sound
<1>2. CASE EndOp
  BY <1>1, <1>2, Ending DEF Sound
<1>3. CASE Goto("collect", fs.kept \ Origins(tx.next)) /\ UNCHANGED <<op, tx, mine>>
  <2>1. /\ fs'.journal = None /\ tx # None /\ tx.next = fs.manifest /\ fs'.manifest = fs.manifest
    BY DEF Sound, Phased, Planned, Settled
  <2>2. RunOK'
    BY <1>3, Parts DEF Sound, FilesOK, RunOK, Goto, Phases
  <2>3. \A n \in Names : tx.next[n] # None => tx.next[n].orig \notin fs.kept \ Origins(tx.next)
    <3> SUFFICES ASSUME NEW n \in Names, tx.next[n] # None
                 PROVE  tx.next[n].orig \notin fs.kept \ Origins(tx.next)
      OBVIOUS
    <3>1. CASE tx.next[n].orig = None
      BY <3>1, Parts, NoneIsDistinct DEF Sound, FilesOK
    <3>2. CASE tx.next[n].orig # None
      BY <3>2 DEF Origins, Present
    <3> QED
      BY <3>1, <3>2
  <2>4. Planned' /\ Publishing'
    BY <1>3, <2>1 DEF Goto, Planned, Publishing
  <2>5. Settled'
    BY <1>3, <2>1, <2>3 DEF Goto, Settled
  <2> QED
    BY <1>1, <2>2, <2>4, <2>5 DEF Sound, Phased
<1> QED
  BY <1>2, <1>3

\* Nothing on record refers to what is collected.
LEMMA CollectedUnused ==
  ASSUME Sound, pc = "collect", NEW o \in todo
  PROVE  fs.journal = None /\ Refers(Committed(fs), fs.kept \ {o}) /\ o \in Digests
<1>1. /\ fs.journal = None /\ tx.next = fs.manifest
      /\ \A n \in Names : tx.next[n] # None => tx.next[n].orig \notin todo
      /\ Refers(Committed(fs), fs.kept) /\ todo \subseteq Digests
  BY DEF Sound, RunOK, Filed, Complete, Phased, Planned, Settled
<1> QED
  BY <1>1 DEF Refers, Committed

LEMMA CollectStep ==
  ASSUME Sound, Collect
  PROVE  Sound'
<1> USE DEF Collect
<1>1. CASE todo = {} /\ EndOp /\ UNCHANGED <<fs, durable>>
  BY <1>1, EndingUnchanged
<1>2. CASE \E o \in todo : /\ Originals(Discarded(o))
                           /\ Goto("collect", todo \ {o})
                           /\ UNCHANGED <<op, tx, mine>>
  <2>1. PICK o \in todo : /\ Originals(Discarded(o))
                          /\ Goto("collect", todo \ {o})
                          /\ UNCHANGED <<op, tx, mine>>
    BY <1>2
  <2>2. fs.journal = None /\ Refers(Committed(fs), fs.kept \ {o})
    BY CollectedUnused
  <2>3. fs.kept \ {o} \in SUBSET Digests
    BY Parts DEF Sound, FilesOK
  <2>4. /\ FilesOK'
        /\ fs'.files = fs.files       /\ durable'.files = durable.files
        /\ fs'.manifest = fs.manifest /\ durable'.manifest = durable.manifest
        /\ fs'.journal = fs.journal   /\ durable'.journal = durable.journal
        /\ fs'.kept = fs.kept \ {o}   /\ durable'.kept = fs.kept \ {o}
    BY <2>1, <2>3, OriginalsStep DEF Sound, Discarded
  <2>5. Filed'
    BY <2>2, <2>4, FiledBeside DEF Sound
  <2>6. RunOK'
    BY <2>1 DEF Sound, RunOK, Goto, Phases
  <2>7. Planned' /\ Publishing'
    BY <2>1, <2>2, <2>4 DEF Goto, Planned, Publishing, Sound, Phased
  <2>8. Settled'
    BY <2>1, <2>4 DEF Goto, Settled, Sound, Phased
  <2> QED
    BY <2>4, <2>5, <2>6, <2>7, <2>8 DEF Sound, Phased
<1> QED
  BY <1>1, <1>2

-----------------------------------------------------------------------------
(* Failures.                                                               *)

\* What a step that was not confirmed leaves, but for the two kinds excluded.
LEMMA FiledUnconfirmed ==
  ASSUME Confirmed, Sound, pc # "idle", Unconfirmed, fs' \in Attempts, UNCHANGED <<durable, touched>>
  PROVE  /\ FilesOK' /\ Filed' /\ fs'.files = fs.files
         /\ pc \in {"stage", "journal"} => fs'.journal = fs.journal
<1>1. pc \in {"clean", "abandon", "stage", "unstage", "manifest", "finish", "collect"}
  BY DEF Confirmed, Unconfirmed, Disturbed, Attempts, Sound, RunOK, Phases
<1>2. /\ durable' = durable /\ touched' = touched /\ durable \in FileSystems /\ fs \in FileSystems
      /\ fs.kept \subseteq durable.kept /\ Refers(Committed(fs), fs.kept)
  BY DEF Sound, FilesOK, Filed, Synced, Complete
<1>9. fs \in FileSystems
  BY DEF Sound, FilesOK
<1>3. CASE pc \in {"clean", "abandon"}
  <2>1. PICK e \in fs.stages : fs' = [fs EXCEPT !.stages = fs.stages \ {e}]
    BY <1>3 DEF Attempts, Unstaged
  <2>2. PICK new \in SUBSET Effects : new = fs.stages \ {e} /\ fs' = [fs EXCEPT !.stages = new]
    BY <1>2, <2>1, Parts
  <2>3. /\ fs' \in FileSystems /\ fs'.files = fs.files /\ fs'.manifest = fs.manifest
        /\ fs'.journal = fs.journal /\ fs'.kept = fs.kept
    BY <1>9, <2>2, ChangesStages
  <2>4. fs.journal = None
    BY <1>3 DEF Sound, Phased, Planned
  <2> QED
    BY <1>2, <1>3, <2>3, <2>4, FiledBeside DEF Sound, FilesOK
<1>4. CASE pc = "stage"
  <2>1. PICK e \in First(todo) : fs' = [fs EXCEPT !.stages = fs.stages \cup {e}]
    BY <1>4 DEF Attempts, Staged
  <2>2. PICK new \in SUBSET Effects : new = fs.stages \cup {e} /\ fs' = [fs EXCEPT !.stages = new]
    BY <1>2, <1>4, <2>1, Parts DEF First, Sound, RunOK
  <2>3. /\ fs' \in FileSystems /\ fs'.files = fs.files /\ fs'.manifest = fs.manifest
        /\ fs'.journal = fs.journal /\ fs'.kept = fs.kept
    BY <1>9, <2>2, ChangesStages
  <2>4. fs.journal = None
    BY <1>4 DEF Sound, Phased, Planned
  <2> QED
    BY <1>2, <2>3, <2>4, FiledBeside DEF Sound, FilesOK
<1>5. CASE pc = "unstage"
  <2>1. PICK e \in First(todo) : fs' = [fs EXCEPT !.stages = fs.stages \ {e}]
    BY <1>5 DEF Attempts, Unstaged
  <2>2. PICK new \in SUBSET Effects : new = fs.stages \ {e} /\ fs' = [fs EXCEPT !.stages = new]
    BY <1>2, <2>1, Parts
  <2>3. /\ fs' \in FileSystems /\ fs'.files = fs.files /\ fs'.manifest = fs.manifest
        /\ fs'.journal = fs.journal /\ fs'.kept = fs.kept /\ fs'.stages = fs.stages \ {e}
    BY <1>9, <2>2, ChangesStages
  <2>4. There(e) /\ fs.journal = tx /\ Backed(tx)
    BY <1>5, Running DEF Sound, Phased, Publishing
  <2>5. \A f \in fs.journal.add : There(f) \/ (f \in fs'.stages /\ f \in durable'.stages)
    BY <1>2, <2>3, <2>4 DEF Backed
  <2>6. Filed'
    BY <1>2, <2>3, <2>5, FiledBeside DEF Sound, FilesOK
  <2> QED
    BY <1>2, <1>5, <2>3, <2>6 DEF FilesOK
<1>6. CASE pc = "manifest"
  <2>1. fs' = [fs EXCEPT !.manifest = tx.next]
    BY <1>6 DEF Attempts, Recorded
  <2>2. fs.journal = tx /\ tx # None /\ tx.next \in Collections
    BY <1>6, Running
  <2>3. /\ fs' \in FileSystems /\ fs'.files = fs.files
        /\ fs'.journal = tx /\ fs'.kept = fs.kept /\ fs'.stages = fs.stages
    BY <1>9, <2>1, <2>2, ChangesManifest
  <2>4. Synced'
    BY <1>2, <2>2, <2>3 DEF Sound, Filed, Synced
  <2>5. Journalling'
    BY <1>2, <2>3 DEF Sound, Filed, Journalling, Good, Fits, Backed, InFolder,
                      There, Gone, Matches, Absent
  <2>6. Complete'
    BY <1>2, <2>2, <2>3 DEF Complete, Committed, Refers
  <2> QED
    BY <1>2, <1>6, <2>3, <2>4, <2>5, <2>6 DEF FilesOK, Filed
<1>7. CASE pc = "finish"
  <2>1. fs' = Finished
    BY <1>7 DEF Attempts
  <2> QED
    BY <1>2, <1>7, <2>1, FiledFinish
<1>8. CASE pc = "collect"
  <2>1. PICK o \in todo : fs' = Discarded(o)
    BY <1>8 DEF Attempts
  <2> DEFINE new == fs.kept \ {o}
  <2>2. new \in SUBSET Digests
    BY <1>9, Parts
  <2>3. fs' = [fs EXCEPT !.kept = new]
    BY <2>1 DEF Discarded
  <2>4. Refers(Committed(fs), new) /\ fs.journal = None /\ new \subseteq fs.kept
    BY <1>8, CollectedUnused
  <2> HIDE DEF new
  <2>5. /\ fs' \in FileSystems /\ fs'.files = fs.files /\ fs'.manifest = fs.manifest
        /\ fs'.journal = fs.journal /\ fs'.kept = new
    BY <1>9, <2>2, <2>3, ChangesKept
  <2> QED
    BY <1>2, <1>8, <2>4, <2>5, FiledBeside DEF Sound, FilesOK
<1> QED
  BY <1>1, <1>3, <1>4, <1>5, <1>6, <1>7, <1>8

LEMMA FailsStep ==
  ASSUME Confirmed, Sound, Fails
  PROVE  Sound'
<1> USE DEF Fails
<1>1. FilesOK' /\ Filed' /\ fs'.files = fs.files
      /\ (pc \in {"stage", "journal"} => fs'.journal = fs.journal)
  <2>1. CASE UNCHANGED fs
    BY <2>1, FiledSame DEF Sound
  <2>2. CASE Unconfirmed /\ fs' \in Attempts
    BY <2>2, FiledUnconfirmed
  <2> QED
    BY <2>1, <2>2
<1>2. CASE EndOp
  BY <1>1, <1>2, Ending DEF Sound
<1>3. CASE pc \in {"stage", "journal"} /\ Goto("abandon", {}) /\ UNCHANGED <<op, tx, mine>>
  <2>1. fs'.journal = None /\ tx # None
    BY <1>1, <1>3, Fitting
  <2>2. RunOK'
    BY <1>3 DEF Sound, RunOK, Goto, Phases
  <2>3. Planned' /\ Publishing' /\ Settled'
    BY <1>3, <2>1 DEF Goto, Planned, Publishing, Settled
  <2> QED
    BY <1>1, <2>2, <2>3 DEF Sound, Phased
<1> QED
  BY <1>2, <1>3

\* A power loss takes back what was not synced; the journal still in force, or
\* one that was carried out, may be among it.
LEMMA PowerLossStep ==
  ASSUME Sound, PowerLoss
  PROVE  Sound'
<1> USE DEF PowerLoss
<1>1. /\ fs' \in FileSystems /\ durable' = fs' /\ touched' = touched
      /\ fs'.files \in {fs.files, durable.files}
      /\ fs'.manifest \in {fs.manifest, durable.manifest}
      /\ fs'.journal \in {fs.journal, durable.journal}
      /\ fs'.stages \in {fs.stages, durable.stages}
      /\ fs'.kept \in {fs.kept, durable.kept}
  BY Parts DEF Sound, FilesOK, FileSystems
<1>2. /\ durable.files = fs.files /\ fs.kept \subseteq durable.kept
      /\ fs.journal # None => durable.journal = fs.journal
      /\ fs.journal = None => durable.manifest = fs.manifest
      /\ fs.journal = None /\ durable.journal # None =>
           durable.journal.next = fs.manifest /\ Ended(durable.journal)
  BY DEF Sound, Filed, Synced
<1>3. FilesOK'
  BY <1>1 DEF FilesOK
<1>4. Synced'
  BY <1>1 DEF Synced
<1>5. Journalling'
  <2>1. fs'.journal = None \/ fs'.journal = durable.journal
    BY <1>1, <1>2
  <2>2. fs'.files = fs.files
    BY <1>1, <1>2
  <2>3. durable.journal # None =>
          Good(durable.journal) /\ Fits(durable.journal) /\ Backed(durable.journal)
    BY DEF Sound, Filed, Journalling
  <2>4. \A e : e \in fs.stages /\ e \in durable.stages => e \in fs'.stages
    BY <1>1
  <2> QED
    BY <1>1, <2>1, <2>2, <2>3, <2>4
    DEF Journalling, Good, Fits, Backed, InFolder, There, Gone, Matches, Absent
<1>6. Complete'
  <2>1. fs'.files = fs.files /\ fs.kept \subseteq fs'.kept
    BY <1>1, <1>2
  <2>2. /\ fs.journal = None => \A n \in Names : fs.manifest[n] # None => InFolder(n, fs.manifest)
        /\ Refers(Committed(fs), fs.kept)
    BY DEF Sound, Filed, Complete
  <2>3. fs'.journal = None => fs.journal = None /\ fs'.manifest = fs.manifest
    BY <1>1, <1>2
  <2>4. Committed(fs)' = Committed(fs)
    BY <1>1, <1>2 DEF Committed
  <2>5. Refers(Committed(fs), fs'.kept)
    BY <2>1, <2>2 DEF Refers
  <2> QED
    BY <1>1, <2>1, <2>2, <2>3, <2>4, <2>5 DEF Complete, InFolder, Refers
<1> QED
  BY <1>3, <1>4, <1>5, <1>6, Ending DEF Sound, Filed

\* The owner changes the names touched then, and no other.
LEMMA OwnerStep ==
  ASSUME Sound, NEW files \in [Names -> Digests \cup {None}], NEW names, Folders(files, names),
         \A n \in Names : n \in names \/ files[n] = fs.files[n]
  PROVE  Sound'
<1> USE DEF Folders
<1>1. /\ fs' \in FileSystems /\ fs'.files = files /\ fs'.manifest = fs.manifest
      /\ fs'.journal = fs.journal /\ fs'.stages = fs.stages /\ fs'.kept = fs.kept
  BY ChangesFiles DEF Sound, FilesOK
<1>2. /\ durable' \in FileSystems /\ durable'.files = files /\ durable'.manifest = durable.manifest
      /\ durable'.journal = durable.journal /\ durable'.stages = durable.stages
      /\ durable'.kept = durable.kept
  BY ChangesFiles DEF Sound, FilesOK
<1>3. /\ touched = {} /\ touched' = names /\ pc' = pc /\ op' = op /\ tx' = tx /\ mine' = mine
      /\ todo' = todo
  BY DEF runVars
<1>4. FilesOK'
  BY <1>1, <1>2 DEF FilesOK
<1>5. \A e \in Effects : (There(e) => There(e)') /\ (Gone(e) => Gone(e)')
  BY <1>1, <1>3, EffectParts DEF There, Gone, Matches, Absent
<1>6. \A n \in Names : n \in touched' \/ (fs'.files[n] = fs.files[n] /\ n \notin touched)
  BY <1>1, <1>3
<1>7. \A t \in Transactions : Fits(t) =>
        /\ \A n \in Names : t.next[n] # None =>
             \/ n \in touched' \/ fs'.files[n] = t.next[n].digest
             \/ fs'.files[n] = None /\ [name |-> n, digest |-> t.next[n].digest] \in t.add
        /\ \A e \in t.del : There(e)' \/ Gone(e)'
  <2> SUFFICES ASSUME NEW t \in Transactions, Fits(t)
               PROVE  /\ \A n \in Names : t.next[n] # None =>
                           \/ n \in touched' \/ fs'.files[n] = t.next[n].digest
                           \/ fs'.files[n] = None /\ [name |-> n, digest |-> t.next[n].digest] \in t.add
                      /\ \A e \in t.del : There(e)' \/ Gone(e)'
    OBVIOUS
  <2>1. \A e \in t.del : There(e)' \/ Gone(e)'
    BY <1>5, TransactionParts DEF Fits
  <2>2. \A n \in Names : t.next[n] # None =>
                           \/ n \in touched' \/ fs'.files[n] = t.next[n].digest
                           \/ fs'.files[n] = None /\ [name |-> n, digest |-> t.next[n].digest] \in t.add
    BY <1>6 DEF Fits, InFolder
  <2> QED
    BY <2>1, <2>2
<1>8. \A t \in Transactions :
        /\ Backed(t) => \A e \in t.add : There(e)' \/ (e \in fs'.stages /\ e \in durable'.stages)
        /\ Added(t) => \A e \in t.add : There(e)'
        /\ Ended(t) => \A e \in t.del : Gone(e)'
  BY <1>1, <1>2, <1>5, TransactionParts DEF Backed, Added, Ended
<1>9. Synced'
  <2>1. durable'.journal # None => durable'.journal \in Transactions
    BY <1>2, JournalParts DEF Sound
  <2> QED
    BY <1>1, <1>2, <1>8, <2>1 DEF Sound, Filed, Synced, Ended, Added, There, Gone, Matches, Absent
<1>10. Journalling'
  <2>1. durable.journal # None => durable.journal \in Transactions
    BY JournalParts DEF Sound
  <2>2. durable.journal # None =>
          Good(durable.journal) /\ Fits(durable.journal) /\ Backed(durable.journal)
    BY DEF Sound, Filed, Journalling
  <2>3. CASE durable.journal = None
    BY <1>2, <2>3 DEF Journalling
  <2>4. CASE durable.journal # None
    <3> DEFINE t == durable.journal
    <3>1. t \in Transactions /\ Good(t) /\ Fits(t) /\ Backed(t) /\ durable'.journal = t
      BY <1>2, <2>1, <2>2, <2>4
    <3> HIDE DEF t
    <3>2. Good(durable.journal)'
      BY <3>1 DEF Good
    <3>3. Fits(durable.journal)'
      BY <1>7, <3>1 DEF Fits, InFolder, There, Gone, Matches, Absent
    <3>4. Backed(durable.journal)'
      BY <1>8, <3>1 DEF Backed, There, Matches
    <3> QED
      BY <3>2, <3>3, <3>4 DEF Journalling
  <2> QED
    BY <2>3, <2>4
<1>11. Complete'
  BY <1>1, <1>6 DEF Sound, Filed, Complete, Committed, Refers, InFolder
<1>12. RunOK'
  BY <1>3 DEF Sound, RunOK
<1>13. tx # None => tx \in Transactions
  BY DEF Sound, RunOK
<1>14. Planned'
  <2>1. pc \in {"keep", "clean", "stage", "journal"} => Good(tx)' /\ Fits(tx)'
    <3> SUFFICES ASSUME pc \in {"keep", "clean", "stage", "journal"}
                 PROVE  Good(tx)' /\ Fits(tx)'
      OBVIOUS
    <3>1. tx \in Transactions /\ Good(tx) /\ Fits(tx)
      BY Fitting
    <3>2. Good(tx)'
      BY <1>3, <3>1 DEF Good
    <3>3. Fits(tx)'
      BY <1>3, <1>7, <3>1 DEF Fits, InFolder, There, Gone, Matches, Absent
    <3> QED
      BY <3>2, <3>3
  <2> QED
    BY <1>1, <1>2, <1>3, <2>1 DEF Sound, Phased, Planned, Refers
<1>15. \A e \in todo : pc = "unstage" => e \in Effects
  BY DEF Sound, RunOK
<1>16. Publishing'
  <2>1. pc \in {"publish", "unstage", "manifest", "delete", "finish"} =>
          /\ tx.add \subseteq Effects /\ tx.del \subseteq Effects /\ fs'.journal = tx
    BY <1>1, Running
  <2>2. pc = "unstage" => \A e \in First(todo) : There(e)'
    BY <1>5, <1>15 DEF First, Sound, Phased, Publishing
  <2>3. pc \in {"publish", "unstage"} => \A e \in tx.add : e \in todo \/ There(e)'
    BY <1>5, <2>1 DEF Sound, Phased, Publishing
  <2>4. pc \in {"manifest", "delete", "finish"} => \A e \in tx.add : There(e)'
    BY <1>5, <2>1 DEF Sound, Phased, Publishing, Added
  <2>5. pc \in {"publish", "unstage"} => todo \subseteq tx.add
    BY DEF Sound, Phased, Publishing
  <2> QED
    BY <1>3, <2>1, <2>2, <2>3, <2>4, <2>5 DEF Publishing, First, There, Matches, Added
<1>17. Settled'
  <2>1. pc \in {"delete", "finish"} => tx.del \subseteq Effects
    BY Running
  <2>2. pc = "delete" => \A e \in tx.del : e \in todo \/ Gone(e)'
    BY <1>5, <2>1 DEF Sound, Phased, Settled
  <2>3. pc = "finish" => \A e \in tx.del : Gone(e)'
    BY <1>5, <2>1 DEF Sound, Phased, Settled
  <2> QED
    BY <1>1, <1>2, <1>3, <2>2, <2>3 DEF Sound, Phased, Settled, Gone, Absent
<1> QED
  BY <1>4, <1>9, <1>10, <1>11, <1>12, <1>14, <1>16, <1>17 DEF Sound, Filed, Phased

-----------------------------------------------------------------------------
(* The theorems.                                                           *)

\* Types and invariant, taken together and apart.
LEMMA SoundIs ==
  TypeOK /\ Filed /\ Phased <=>
    Sound /\ touched \in SUBSET Names /\ made \in SUBSET Derivatives /\ budget \in 0 .. Budget
BY DEF TypeOK, Sound, FilesOK, RunOK

LEMMA InitSound == Init => IInv
<1> SUFFICES ASSUME Init
             PROVE  IInv
  OBVIOUS
<1> USE DEF Init
<1>1. PICK art \in [Names -> Digests \cup {None}] : fs = [Nothing EXCEPT !.files = art]
  OBVIOUS
<1>2. Nothing \in FileSystems
  BY DEF Nothing, FileSystems, Empty, Collections
<1>3. /\ fs \in FileSystems /\ fs.manifest = Empty /\ fs.journal = None
  BY <1>1, <1>2, ChangesFiles DEF Nothing
<1>4. \A n \in Names : Empty[n] = None
  BY DEF Empty
<1>5. durable = fs
  OBVIOUS
<1>6. Synced /\ Journalling
  BY <1>3, <1>5 DEF Synced, Journalling
<1>7. Complete
  BY <1>3, <1>4 DEF Complete, Refers, Committed
<1>8. Phased
  BY DEF Phased, Planned, Publishing, Settled
<1>9. TypeOK
  <2>1. RunOK
    BY DEF RunOK
  <2>2. budget \in 0 .. Budget /\ touched \in SUBSET Names /\ made \in SUBSET Derivatives
    BY BudgetIsNat
  <2> QED
    BY <1>3, <1>5, <2>1, <2>2 DEF TypeOK, RunOK
<1> QED
  BY <1>6, <1>7, <1>8, <1>9 DEF IInv, Filed

\* Every step leaves the files, and what is owed, in order.
LEMMA NextSound ==
  ASSUME Confirmed, Sound, [Next]_vars
  PROVE  Sound'
<1>1. CASE RunStep
  <2>1. CASE KeepRefused \/ PublishRefused \/ DeleteRefused
    BY <2>1, EndingUnchanged DEF KeepRefused, PublishRefused, DeleteRefused
  <2> QED
    BY <1>1, <2>1, BeginStep, PlanPrepareStep, PlanImportStep, PlanApplyStep, KeepStep,
       RemoveOrphanStep, CleanDoneStep, StageStep, WriteJournalStep, PublishStep,
       AlreadyPublishedStep, UnstageStep, WriteManifestStep, DeleteStep, FinishStep,
       VerifyStep, CollectStep DEF RunStep
<1>2. CASE Stop
  BY <1>2, EndingUnchanged DEF Stop
<1>3. CASE OwnerActs
  <2>1. PICK n \in Names, art \in Digests \cup {None} : Folders([fs.files EXCEPT ![n] = art], {n})
    BY <1>3 DEF OwnerActs
  <2>2. /\ [fs.files EXCEPT ![n] = art] \in [Names -> Digests \cup {None}]
        /\ \A m \in Names : m \in {n} \/ [fs.files EXCEPT ![n] = art][m] = fs.files[m]
    BY Parts DEF Sound, FilesOK
  <2> QED
    BY <2>1, <2>2, OwnerStep
<1>4. CASE OwnerRenames
  <2>1. PICK n \in Names, m \in Names : Folders([fs.files EXCEPT ![n] = None, ![m] = fs.files[n]], {n, m})
    BY <1>4 DEF OwnerRenames
  <2> DEFINE files == [fs.files EXCEPT ![n] = None, ![m] = fs.files[n]]
  <2>2. /\ files \in [Names -> Digests \cup {None}]
        /\ \A k \in Names : k \in {n, m} \/ files[k] = fs.files[k]
    BY Parts DEF Sound, FilesOK
  <2> HIDE DEF files
  <2>3. Folders(files, {n, m})
    BY <2>1 DEF files
  <2> QED
    BY <2>2, <2>3, OwnerStep
<1>5. CASE UNCHANGED vars
  <2>1. UNCHANGED <<fs, durable, touched, op, pc, tx, mine, todo>>
    BY <1>5 DEF vars, runVars
  <2>2. FilesOK' /\ Filed'
    BY <2>1, FiledSame DEF Sound
  <2>3. RunOK'
    BY <2>1 DEF Sound, RunOK
  <2>4. Planned'
    BY <2>1 DEF Sound, Phased, Planned, Good, Fits, InFolder, There, Gone, Matches, Absent, Refers
  <2>5. Publishing' /\ Settled'
    BY <2>1 DEF Sound, Phased, Publishing, Settled, First, There, Gone, Matches, Absent, Added
  <2> QED
    BY <2>2, <2>3, <2>4, <2>5 DEF Sound, Phased
<1> QED
  BY <1>1, <1>2, <1>3, <1>4, <1>5, FailsStep, PowerLossStep DEF Next

\* So do the counters and the sets a property looks at.
LEMMA NextTypes ==
  ASSUME TypeOK, FilesOK', [Next]_vars
  PROVE  touched' \in SUBSET Names /\ made' \in SUBSET Derivatives /\ budget' \in 0 .. Budget
<1>1. budget' \in 0 .. Budget
  <2>1. budget' = budget \/ \E h : Disturbed(h)
    <3>1. RunStep => budget' = budget \/ \E h : Disturbed(h)
      BY DEF RunStep, Begin, PlanPrepare, PlanImport, PlanApply, Keep, KeepRefused, RemoveOrphan,
             CleanDone, Stage, WriteJournal, Publish, AlreadyPublished, Unstage, PublishRefused,
             WriteManifest, Delete, DeleteRefused, Finish, Verify, Collect
    <3>2. Fails => \E h : Disturbed(h)
      BY DEF Fails, Unconfirmed
    <3>3. Stop \/ PowerLoss \/ OwnerActs \/ OwnerRenames => \E h : Disturbed(h)
      BY DEF Stop, PowerLoss, OwnerActs, OwnerRenames
    <3> QED
      BY <3>1, <3>2, <3>3 DEF Next, vars
  <2> QED
    BY <2>1, BudgetIsNat DEF TypeOK, Disturbed
<1>2. touched' \in SUBSET Names
  <2>1. RunStep \/ Fails \/ Stop \/ PowerLoss => touched' = touched
    BY DEF RunStep, Begin, PlanPrepare, PlanImport, PlanApply, Keep, KeepRefused, RemoveOrphan,
           CleanDone, Stage, WriteJournal, Publish, AlreadyPublished, Unstage, PublishRefused,
           WriteManifest, Delete, DeleteRefused, Finish, Verify, Collect, Fails, Stop, PowerLoss
  <2>2. OwnerActs \/ OwnerRenames => touched' \in SUBSET Names
    BY DEF OwnerActs, OwnerRenames, Folders
  <2> QED
    BY <2>1, <2>2 DEF Next, vars, TypeOK
<1>3. made' \in SUBSET Derivatives
  <2>1. ASSUME Witness
        PROVE  made' \in SUBSET Derivatives
    <3>1. Writes => Derived(tx.next) \subseteq Derivatives
      <4> SUFFICES ASSUME Writes
                   PROVE  Derived(tx.next) \subseteq Derivatives
        OBVIOUS
      <4>1. fs'.manifest = tx.next
        BY DEF Writes, Recorded, Sound, FilesOK, TypeOK, FileSystems
      <4>2. tx.next \in Collections
        BY <4>1, Parts DEF FilesOK
      <4> QED
        BY <4>2, ItemParts DEF Derived, Present, Derivatives
    <3>2. Writes => made' \subseteq made \cup Derived(tx.next)
      BY <2>1 DEF Witness
    <3>3. ~Writes => made' \subseteq made
      BY <2>1 DEF Witness
    <3> QED
      BY <3>1, <3>2, <3>3 DEF TypeOK
  <2>2. CASE OwnerRenames
    <3>1. PICK n \in Names, m \in Names :
            made' = {IF d.name = n THEN [d EXCEPT !.name = m] ELSE d : d \in made}
      BY <2>2 DEF OwnerRenames
    <3>2. \A d \in Derivatives : [d EXCEPT !.name = m] \in Derivatives
      BY DEF Derivatives
    <3> QED
      BY <3>1, <3>2 DEF TypeOK
  <2> QED
    BY <2>1, <2>2 DEF Next, vars, TypeOK
<1> QED
  BY <1>1, <1>2, <1>3

\* The invariant is inductive, whatever the names, the contents and the number of
\* disturbances, unless a step of the two kinds excluded is left unconfirmed.
THEOREM Inductive == Confirmed => (Spec => []IInv)
<1> SUFFICES ASSUME Confirmed
             PROVE  Spec => []IInv
  OBVIOUS
<1>1. IInv /\ [Next]_vars => IInv'
  <2> SUFFICES ASSUME IInv, [Next]_vars
               PROVE  IInv'
    OBVIOUS
  <2>1. Sound
    BY SoundIs DEF IInv
  <2>2. Sound'
    BY <2>1, NextSound
  <2>3. touched' \in SUBSET Names /\ made' \in SUBSET Derivatives /\ budget' \in 0 .. Budget
    BY <2>2, NextTypes DEF IInv, Sound
  <2> QED
    BY <2>2, <2>3 DEF IInv, TypeOK, Sound, FilesOK, RunOK
<1> QED
  BY InitSound, <1>1, PTL DEF Spec

\* Whatever was interrupted, the transaction in the journal can be finished.
THEOREM JournalRecoverable == Confirmed => (Spec => []Recoverable)
<1>1. IInv => Recoverable
  <2> SUFFICES ASSUME IInv, fs.journal # None
               PROVE  /\ \A e \in fs.journal.add :
                           e.name \in touched \/ Matches(e) \/ (Absent(e) /\ e \in fs.stages)
                      /\ \A e \in fs.journal.del : e.name \in touched \/ Matches(e) \/ Absent(e)
    BY DEF Recoverable
  <2> DEFINE t == fs.journal
  <2>1. t \in Transactions /\ Good(t) /\ Fits(t) /\ Backed(t)
    BY JournalParts, SoundIs DEF IInv, Sound, Filed, Synced, Journalling
  <2>2. t.add \subseteq Effects
    BY <2>1, TransactionParts
  <2> HIDE DEF t
  <2>3. \A e \in t.del : e.name \in touched \/ Matches(e) \/ Absent(e)
    BY <2>1 DEF Fits, There, Gone
  <2>4. ASSUME NEW e \in t.add, e.name \notin touched, ~Matches(e)
        PROVE  Absent(e) /\ e \in fs.stages
    <3>1. e.name \in Names
      BY <2>2, EffectParts
    <3>2. t.next[e.name] # None /\ t.next[e.name].digest = e.digest
      BY <2>1 DEF Good
    <3>3. Absent(e)
      BY <2>1, <2>4, <3>1, <3>2 DEF Fits, InFolder, Matches, Absent
    <3>4. e \in fs.stages
      BY <2>1, <2>4 DEF Backed, There
    <3> QED
      BY <3>3, <3>4
  <2> QED
    BY <2>3, <2>4 DEF t
<1> QED
  BY <1>1, Inductive, PTL

\* The collection that is committed when the power fails is there: in the folder
\* or in its stages, and every original it refers to is kept.
THEOREM CollectionSurvives == Confirmed => (Spec => []Survives)
<1>1. IInv => Survives
  <2> SUFFICES ASSUME IInv
               PROVE  Survives
    OBVIOUS
  <2>1. /\ durable.files = fs.files /\ fs.kept \subseteq durable.kept
        /\ fs.journal # None => durable.journal = fs.journal
        /\ fs.journal = None => durable.manifest = fs.manifest
        /\ fs.journal = None /\ durable.journal # None => durable.journal.next = fs.manifest
        /\ durable.journal # None => Fits(durable.journal) /\ Backed(durable.journal)
        /\ fs.journal = None => \A n \in Names : fs.manifest[n] # None => InFolder(n, fs.manifest)
        /\ Refers(Committed(fs), fs.kept)
    BY DEF IInv, Filed, Synced, Journalling, Complete
  <2> DEFINE next == Committed(durable)
  <2>2. next = Committed(fs)
    BY <2>1 DEF Committed
  <2>3. ASSUME NEW n \in Names, next[n] # None
        PROVE  /\ \/ n \in touched
                  \/ durable.files[n] = next[n].digest
                  \/ durable.journal # None /\ [name |-> n, digest |-> next[n].digest] \in durable.stages
               /\ next[n].orig \in durable.kept \cup {None}
    <3>1. next[n].orig \in durable.kept \cup {None}
      BY <2>1, <2>2, <2>3 DEF Refers
    <3>2. CASE fs.journal = None
      <4>1. next = fs.manifest
        BY <2>2, <3>2 DEF Committed
      <4> QED
        BY <2>1, <2>3, <3>1, <3>2, <4>1 DEF InFolder
    <3>3. CASE fs.journal # None
      <4>1. durable.journal # None /\ next = durable.journal.next
        BY <2>1, <3>3 DEF Committed
      <4> DEFINE e == [name |-> n, digest |-> next[n].digest]
      <4>2. n \in touched \/ fs.files[n] = next[n].digest \/ e \in durable.journal.add
        BY <2>1, <2>3, <4>1 DEF Fits, InFolder
      <4>3. e \in durable.journal.add => There(e) \/ e \in durable.stages
        BY <2>1, <4>1 DEF Backed
      <4>4. There(e) => n \in touched \/ fs.files[n] = next[n].digest
        BY DEF There, Matches
      <4> QED
        BY <2>1, <3>1, <4>1, <4>2, <4>3, <4>4
    <3> QED
      BY <3>2, <3>3
  <2> QED
    BY <2>3 DEF Survives, Present
<1> QED
  BY <1>1, Inductive, PTL

\* The collection committed changes when the journal is written, to the one that
\* was planned, and at no other time.
LEMMA Commits ==
  ASSUME Confirmed, Sound, [Next]_vars
  PROVE  \/ Committed(fs)' = Committed(fs)
         \/ tx # None /\ Committed(fs)' = tx.next
<1> DEFINE Same == fs'.manifest = fs.manifest /\ fs'.journal = fs.journal
<1>1. fs \in FileSystems /\ (pc = "journal" => tx # None)
      /\ (pc \in {"publish", "unstage", "manifest", "delete", "finish"} => fs.journal = tx /\ tx # None)
      /\ (pc \in {"delete", "finish"} => fs.manifest = tx.next)
  BY Running DEF Sound, FilesOK, Phased, Planned, Publishing, Settled
<1>2. Same => Committed(fs)' = Committed(fs)
  BY DEF Committed
<1>3. /\ \A e : LET g == Published(e) IN g.manifest = fs.manifest /\ g.journal = fs.journal
      /\ \A e : LET g == Deleted(e) IN g.manifest = fs.manifest /\ g.journal = fs.journal
      /\ \A e : LET g == Staged(e) IN g.manifest = fs.manifest /\ g.journal = fs.journal
      /\ \A e : LET g == Unstaged(e) IN g.manifest = fs.manifest /\ g.journal = fs.journal
      /\ \A e : LET g == Kept(e) IN g.manifest = fs.manifest /\ g.journal = fs.journal
      /\ \A e : LET g == Discarded(e) IN g.manifest = fs.manifest /\ g.journal = fs.journal
  BY <1>1 DEF FileSystems, Published, Deleted, Staged, Unstaged, Kept, Discarded
<1>4. /\ Journalled.manifest = fs.manifest /\ Journalled.journal = tx
      /\ Recorded.manifest = tx.next /\ Recorded.journal = fs.journal
      /\ Finished.manifest = fs.manifest /\ Finished.journal = None
  BY <1>1 DEF FileSystems, Journalled, Recorded, Finished
<1>5. fs' = Journalled /\ pc = "journal" => tx # None /\ Committed(fs)' = tx.next
  BY <1>1, <1>4 DEF Committed
<1>6. fs' = Recorded /\ pc = "manifest" => Committed(fs)' = Committed(fs)
  BY <1>1, <1>4 DEF Committed
<1>7. fs' = Finished /\ pc = "finish" => Committed(fs)' = Committed(fs)
  BY <1>1, <1>4 DEF Committed
<1>8. CASE RunStep
  <2>1. CASE \/ Begin \/ PlanPrepare \/ PlanImport \/ PlanApply \/ KeepRefused \/ CleanDone
             \/ PublishRefused \/ DeleteRefused \/ Verify
    BY <1>2, <2>1 DEF Begin, PlanPrepare, PlanImport, PlanApply, KeepRefused, CleanDone,
                      PublishRefused, DeleteRefused, Verify
  <2>2. CASE Keep \/ RemoveOrphan \/ Stage \/ Publish \/ AlreadyPublished \/ Unstage \/ Delete \/ Collect
    <3>1. Same
      BY <1>3, <2>2 DEF Keep, RemoveOrphan, Stage, Publish, AlreadyPublished, Unstage, Delete,
                        Collect, Originals, Staging, Folder
    <3> QED
      BY <1>2, <3>1
  <2>3. CASE WriteJournal
    BY <1>5, <2>3 DEF WriteJournal, Control
  <2>4. CASE WriteManifest
    BY <1>6, <2>4 DEF WriteManifest, Control
  <2>5. CASE Finish
    BY <1>7, <2>5 DEF Finish, Control
  <2> QED
    BY <1>8, <2>1, <2>2, <2>3, <2>4, <2>5 DEF RunStep
<1>9. CASE Fails
  <2>1. CASE UNCHANGED fs
    BY <1>2, <2>1
  <2>2. CASE fs' \in Attempts
    <3>1. \/ Same
          \/ fs' = Journalled /\ pc = "journal"
          \/ fs' = Recorded /\ pc = "manifest"
          \/ fs' = Finished /\ pc = "finish"
      BY <1>3, <2>2 DEF Attempts
    <3> QED
      BY <1>2, <1>5, <1>6, <1>7, <3>1
  <2> QED
    BY <1>9, <2>1, <2>2 DEF Fails
<1>10. CASE Stop \/ UNCHANGED vars
  BY <1>2, <1>10 DEF Stop, vars
<1>11. CASE PowerLoss
  <2>1. /\ fs'.manifest \in {fs.manifest, durable.manifest}
        /\ fs'.journal \in {fs.journal, durable.journal}
    BY <1>11 DEF PowerLoss
  <2> QED
    BY <2>1 DEF Committed, Sound, Filed, Synced
<1>12. CASE OwnerActs \/ OwnerRenames
  <2>1. PICK files : fs' = [fs EXCEPT !.files = files]
    BY <1>12 DEF OwnerActs, OwnerRenames, Folders
  <2>2. Same
    BY <1>1, <2>1 DEF FileSystems
  <2> QED
    BY <1>2, <2>2
<1> QED
  BY <1>8, <1>9, <1>10, <1>11, <1>12 DEF Next

\* What the process sees committed is what a power loss would leave committed.
LEMMA CommittedAgree ==
  ASSUME Sound
  PROVE  /\ Committed(fs) = Committed(durable)
         /\ Committed(durable) \in Collections
         /\ tx # None => tx.next \in Collections
<1>1. Committed(fs) = Committed(durable)
  BY DEF Sound, Filed, Synced, Committed
<1>2. tx # None => tx.next \in Collections
  BY TransactionParts DEF Sound, RunOK
<1> QED
  BY <1>1, <1>2, JournalParts DEF Sound

\* The collection changes at once, and only to the one that was proposed: nothing
\* in between is ever committed, whatever is interrupted.
THEOREM ChangesAtOnce == Confirmed => (Spec => Atomic)
<1> SUFFICES ASSUME Confirmed
             PROVE  Spec => Atomic
  OBVIOUS
<1>1. Init => Abstract!Init
  <2> SUFFICES ASSUME Init
               PROVE  Abstract!Init
    OBVIOUS
  <2>1. Sound /\ tx = None
    BY InitSound, SoundIs DEF IInv, Init
  <2> QED
    BY <2>1, CommittedAgree DEF Abstract!Init
<1>2. IInv /\ IInv' /\ [Next]_vars
        => [Abstract!Propose \/ Abstract!Commit]_<<Committed(durable),
             IF Committed(fs) # Committed(durable) THEN Committed(fs)
             ELSE IF tx # None THEN tx.next ELSE Committed(durable)>>
  <2> SUFFICES ASSUME IInv, IInv', [Next]_vars
               PROVE  Abstract!Propose \/ Abstract!Commit
    OBVIOUS
  <2>1. Sound /\ Sound'
    BY SoundIs DEF IInv, TypeOK, Sound, FilesOK, RunOK
  <2>2. /\ Committed(fs) = Committed(durable) /\ Committed(durable) \in Collections
        /\ tx # None => tx.next \in Collections
    BY <2>1, CommittedAgree
  <2>3. /\ Committed(fs)' = Committed(durable)' /\ Committed(durable)' \in Collections
        /\ tx' # None => tx'.next \in Collections
    <3>1. Committed(fs)' = Committed(durable)'
      BY <2>1 DEF Sound, Filed, Synced, Committed
    <3>2. tx' # None => tx'.next \in Collections
      BY <2>1, TransactionParts DEF Sound, RunOK
    <3>3. /\ durable'.manifest \in Collections
          /\ durable'.journal # None => durable'.journal.next \in Collections
      BY <2>1, Parts, TransactionParts DEF Sound, FilesOK
    <3>4. Committed(durable)' \in Collections
      BY <3>3 DEF Committed
    <3> QED
      BY <3>1, <3>2, <3>4
  <2>4. \/ Committed(fs)' = Committed(fs)
        \/ tx # None /\ Committed(fs)' = tx.next
    BY <2>1, Commits
  <2> QED
    BY <2>2, <2>3, <2>4 DEF Abstract!Propose, Abstract!Commit
<1>3. Spec => []IInv
  BY Inductive
<1> QED
  BY <1>1, <1>2, <1>3, PTL DEF Spec, Atomic, Abstract!Spec

-----------------------------------------------------------------------------
(* The lineage of derivatives.                                             *)
(*                                                                         *)
(* A derivative of made is followed from its name to the record that keeps *)
(* its original, through the collection on record and the one a transaction *)
(* leads to, while the owner renames it at any moment in between.          *)

\* As in Confirmed, and no renamed derivative is unreadable at a Prepare.
Traceable == Confirmed /\ "unreadable-renamed" \notin Hazards

\* The record under its name has an original.
Stands(c, d) == c[d.name] # None /\ c[d.name].digest = d.digest /\ c[d.name].orig # None

RecordAt(c, d, n) == c[n] # None /\ c[n].digest = d.digest /\ c[n].orig = d.orig

\* The collection knows a derivative by its name, or from a record it was made
\* with, whose file is there or was renamed away to a name not on record.  As
\* long as the owner did nothing, that record is the one under its name.
Follows(c, d, files, names) ==
  /\ \/ Stands(c, d)
     \/ \E k \in Names : /\ RecordAt(c, d, k)
                         /\ files[k] = d.digest \/ (files[k] = None /\ c[d.name] = None)
  /\ names = {} => RecordAt(c, d, d.name)

\* What a transaction makes of a derivative: it goes on, it is deleted, or the
\* owner gave it a name of other bytes, and the transaction comes to no end.
Dropped(t, d) == \E e \in t.del : e.digest = d.digest
Clashes(e, d) == e.name = d.name /\ e.digest # d.digest
Blocked(t, d, kept) == d.orig \in kept /\ \E e \in t.add : Clashes(e, d)

Carries(t, d, files, names, kept) ==
  Follows(t.next, d, files, names) \/ Dropped(t, d) \/ Blocked(t, d, kept)

\* What is added without an original has bytes of its own.
Fresh(t) ==
  \A e \in t.add : t.next[e.name].orig = None =>
    \A k \in Names : k # e.name => t.next[k] = None \/ t.next[k].digest # e.digest

InPlace == \A d \in made : fs.files[d.name] = d.digest

Backing == Refers(fs.manifest, fs.kept) /\ Refers(durable.manifest, fs.kept)

OnRecord ==
  \A n \in Names : /\ fs.manifest[n] # None => InFolder(n, fs.manifest)
                   /\ durable.manifest[n] # None => InFolder(n, durable.manifest)

\* A derivative has its original, or another that its bytes are recorded with.
Linked ==
  \A d \in made : /\ d.orig \in fs.kept \/ (Stands(fs.manifest, d) /\ Stands(durable.manifest, d))
                  /\ touched = {} => d.orig \in fs.kept

Committing ==
  /\ fs.journal = None => \A d \in made : Follows(fs.manifest, d, fs.files, touched)
  /\ fs.journal # None => \A d \in made : Carries(fs.journal, d, fs.files, touched, fs.kept)
  /\ durable.journal # None => Fresh(durable.journal)

Traced == InPlace /\ Backing /\ OnRecord /\ Linked /\ Committing

\* What the operation is about to commit, or has just committed.
Preparing ==
  pc \in {"keep", "clean", "stage", "journal"} =>
    Fresh(tx) /\ \A d \in made : Carries(tx, d, fs.files, touched, fs.kept)

Held ==
  pc \in {"publish", "unstage", "manifest", "delete", "finish"} =>
    \A d \in made, e \in tx.add : Clashes(e, d) =>
      pc \in {"publish", "unstage"} /\ e \in todo /\ (pc = "unstage" => e \notin First(todo))

Arrived ==
  pc \in {"delete", "finish"} => \A d \in made : Follows(tx.next, d, fs.files, touched)

Intended == Preparing /\ Held /\ Arrived

LInv == Traced /\ Intended

-----------------------------------------------------------------------------
(* Facts about derivatives.                                                *)

LEMMA DerivativeParts ==
  ASSUME NEW d \in Derivatives
  PROVE  /\ d.name \in Names /\ d.digest \in Digests /\ d.digest # None
         /\ d.orig \in Digests /\ d.orig # None
BY NoneIsDistinct DEF Derivatives

LEMMA RecordedStands ==
  ASSUME NEW d \in Derivatives, NEW c, RecordAt(c, d, d.name)
  PROVE  Stands(c, d)
BY DerivativeParts DEF RecordAt, Stands

\* A derivative recorded under its name is followed, whatever happens to it.
LEMMA RecordedFollows ==
  ASSUME NEW d \in Derivatives, NEW c, RecordAt(c, d, d.name), NEW files, NEW names
  PROVE  Follows(c, d, files, names)
BY RecordedStands DEF Follows

\* What a collection follows has its original, or another, under its name.
LEMMA FollowedKept ==
  ASSUME NEW d \in Derivatives, NEW c, NEW files, NEW names, NEW kept,
         Follows(c, d, files, names), Refers(c, kept)
  PROVE  d.orig \in kept \/ Stands(c, d)
BY DerivativeParts DEF Follows, RecordAt, Refers

LEMMA CarriedOn ==
  ASSUME NEW t, NEW d, NEW files, NEW names, NEW kept, NEW more,
         Carries(t, d, files, names, kept), kept \subseteq more
  PROVE  Carries(t, d, files, names, more)
BY DEF Carries, Blocked

\* Before the owner acts, a transaction that does not fit a derivative drops it.
LEMMA FittingCarries ==
  ASSUME NEW t \in Transactions, Good(t), Fits(t), touched = {},
         NEW d \in Derivatives, fs.files[d.name] = d.digest,
         NEW kept, Carries(t, d, fs.files, touched, kept)
  PROVE  RecordAt(t.next, d, d.name) \/ Dropped(t, d)
<1>1. ~ \E e \in t.add : Clashes(e, d)
  <2> SUFFICES ASSUME NEW e \in t.add, Clashes(e, d)
               PROVE  FALSE
    OBVIOUS
  <2>1. e.name \in Names /\ t.next[e.name] # None /\ t.next[e.name].digest = e.digest
    BY TransactionParts, EffectParts DEF Good
  <2>2. fs.files[e.name] = e.digest \/ fs.files[e.name] = None
    BY <2>1 DEF Fits, InFolder
  <2> QED
    BY <2>2, DerivativeParts DEF Clashes
<1> QED
  BY <1>1 DEF Carries, Blocked, Follows

\* A new derivative of a step that writes the manifest.
New(d) ==
  /\ pc = "manifest" /\ fs' = Recorded
  /\ d \in Derivatives /\ d.orig \in fs.kept /\ RecordAt(tx.next, d, d.name)

\* What the witness shows after a step.
LEMMA Witnessed ==
  ASSUME Sound, made \in SUBSET Derivatives, Witness, NEW d \in made'
  PROVE  /\ fs'.files[d.name] = d.digest
         /\ d \in made \/ New(d)
         /\ Writes => ((d \in made /\ ~Dropped(tx, d)) \/ New(d))
<1>1. fs'.files[d.name] = d.digest
  BY DEF Witness
<1>2. CASE ~Writes
  BY <1>1, <1>2 DEF Witness
<1>3. CASE Writes
  <2>1. (d \in made /\ (\A e \in tx.del : e.digest # d.digest)) \/ d \in Derived(tx.next)
    BY <1>3 DEF Witness
  <2>2. CASE d \in Derived(tx.next)
    <3>1. tx.next \in Collections /\ Refers(tx.next, fs.kept)
      BY <1>3, Running DEF Writes
    <3>2. PICK n \in Names : /\ tx.next[n] # None /\ tx.next[n].orig # None
                             /\ d = [name |-> n, digest |-> tx.next[n].digest, orig |-> tx.next[n].orig]
      BY <2>2 DEF Derived, Present
    <3>3. tx.next[n].digest \in Digests /\ tx.next[n].orig \in Digests
      BY <3>1, <3>2, ItemParts
    <3>4. d \in Derivatives /\ RecordAt(tx.next, d, d.name)
      BY <3>2, <3>3 DEF Derivatives, RecordAt
    <3>5. d.orig \in fs.kept
      BY <3>1, <3>2, <3>3, NoneIsDistinct DEF Refers
    <3> QED
      BY <1>1, <1>3, <3>4, <3>5 DEF New, Writes
  <2> QED
    BY <1>1, <2>1, <2>2 DEF Dropped
<1> QED
  BY <1>2, <1>3

\* Away from the manifest nothing new is on record.
LEMMA NothingNew ==
  ASSUME Sound, made \in SUBSET Derivatives, Witness, pc # "manifest"
  PROVE  made' \subseteq made /\ InPlace'
BY Witnessed DEF New, InPlace

-----------------------------------------------------------------------------
(* What the steps leave of the trace.                                      *)

\* Where records are followed to is all that matters of a folder.
LEMMA FollowsOn ==
  ASSUME NEW d, NEW c, NEW files, NEW names, NEW then, Follows(c, d, files, names),
         \A k \in Names : RecordAt(c, d, k) =>
           /\ files[k] = d.digest => then[k] = d.digest
           /\ files[k] = None => then[k] \in {None, d.digest}
  PROVE  Follows(c, d, then, names)
BY DEF Follows

\* What stays when the folder stays, and nothing is written but what was there.
LEMMA TracedBeside ==
  ASSUME Sound, Traced, made \in SUBSET Derivatives, Witness, touched' = touched,
         fs'.files = fs.files, fs.kept \subseteq fs'.kept,
         fs'.manifest \in {fs.manifest, durable.manifest},
         durable'.manifest \in {fs.manifest, durable.manifest},
         fs'.journal \in {fs.journal, durable.journal},
         durable'.journal \in {fs.journal, durable.journal}
  PROVE  Traced'
<1>1. \A d \in made' : /\ fs'.files[d.name] = d.digest
                       /\ d \in made \/ New(d)
  BY Witnessed
<1>2. /\ Refers(fs.manifest, fs.kept) /\ Refers(durable.manifest, fs.kept)
      /\ OnRecord
  BY DEF Traced, Backing
<1>3. Backing'
  BY <1>2 DEF Backing, Refers
<1>4. OnRecord'
  BY <1>2 DEF OnRecord, InFolder
<1>5. \A d \in made' : /\ d.orig \in fs'.kept \/ (Stands(fs'.manifest, d) /\ Stands(durable'.manifest, d))
                       /\ touched' = {} => d.orig \in fs'.kept
  BY <1>1 DEF Traced, Linked, New
<1>6. \A d : New(d) => /\ fs.journal = tx /\ durable.journal = tx /\ tx # None
                       /\ Carries(tx, d, fs.files, touched, fs.kept)
  BY Running, RecordedFollows DEF New, Carries
<1>7. ASSUME fs'.journal = None, NEW d \in made'
      PROVE  Follows(fs'.manifest, d, fs'.files, touched')
  <2>1. fs.journal = None /\ durable.manifest = fs.manifest
    BY <1>7 DEF Sound, Filed, Synced
  <2>2. d \in made
    BY <1>1, <1>6, <2>1
  <2> QED
    BY <2>1, <2>2 DEF Traced, Committing
<1>8. ASSUME fs'.journal # None, NEW d \in made'
      PROVE  Carries(fs'.journal, d, fs'.files, touched', fs'.kept)
  <2>1. CASE fs.journal = None
    <3>1. fs'.journal = durable.journal /\ durable.journal.next = fs.manifest
      BY <1>8, <2>1 DEF Sound, Filed, Synced
    <3>2. d \in made
      BY <1>1, <1>6, <2>1
    <3> QED
      BY <2>1, <3>1, <3>2 DEF Traced, Committing, Carries
  <2>2. CASE fs.journal # None
    <3>1. fs'.journal = fs.journal
      BY <2>2 DEF Sound, Filed, Synced
    <3>2. Carries(fs.journal, d, fs.files, touched, fs.kept)
      BY <1>1, <1>6, <2>2 DEF Traced, Committing
    <3> QED
      BY <3>1, <3>2, CarriedOn
  <2> QED
    BY <2>1, <2>2
<1>9. durable'.journal # None => Fresh(durable'.journal)
  BY DEF Sound, Filed, Synced, Traced, Committing
<1> QED
  BY <1>1, <1>3, <1>4, <1>5, <1>7, <1>8, <1>9
     DEF Traced, InPlace, Linked, Committing, Fresh

\* A file of the journal is published: a record it goes with is the better for it.
LEMMA TracedPublish ==
  ASSUME Sound, Traced, made \in SUBSET Derivatives, Witness, touched' = touched,
         pc = "publish", NEW e \in tx.add, Absent(e),
         fs'.files = [fs.files EXCEPT ![e.name] = e.digest], fs'.kept = fs.kept,
         fs'.manifest = fs.manifest, durable'.manifest = durable.manifest,
         fs'.journal = fs.journal, durable'.journal = durable.journal
  PROVE  Traced'
<1>1. made' \subseteq made /\ InPlace'
  BY NothingNew
<1>2. /\ fs.journal = tx /\ durable.journal = tx /\ tx # None /\ Good(tx)
      /\ e.name \in Names /\ e.digest # None
  BY Running, EffectParts
<1>3. /\ fs'.files[e.name] = e.digest /\ fs.files[e.name] = None
      /\ \A k \in Names : k # e.name => fs'.files[k] = fs.files[k]
  BY <1>2, Parts DEF Sound, FilesOK, Absent
<1>4. tx.next[e.name] # None /\ tx.next[e.name].digest = e.digest
  BY <1>2 DEF Good
<1>5. ASSUME NEW d \in made'
      PROVE  Carries(tx, d, fs'.files, touched, fs.kept)
  <2>1. d \in Derivatives /\ Carries(tx, d, fs.files, touched, fs.kept)
    BY <1>1, <1>2 DEF Traced, Committing
  <2>2. \A k \in Names : RecordAt(tx.next, d, k) =>
           /\ fs.files[k] = d.digest => fs'.files[k] = d.digest
           /\ fs.files[k] = None => fs'.files[k] \in {None, d.digest}
    BY <1>3, <1>4, <2>1, DerivativeParts DEF RecordAt
  <2>3. Follows(tx.next, d, fs.files, touched) => Follows(tx.next, d, fs'.files, touched)
    BY <2>2, FollowsOn
  <2> QED
    BY <2>1, <2>3 DEF Carries
<1>6. Backing' /\ Linked'
  BY <1>1 DEF Traced, Backing, Linked
<1>7. OnRecord'
  <2> SUFFICES ASSUME NEW n \in Names, NEW c \in {fs.manifest, durable.manifest}, c[n] # None
               PROVE  n \in touched \/ fs'.files[n] = c[n].digest
    BY DEF OnRecord, InFolder
  <2>1. n \in touched \/ fs.files[n] = c[n].digest
    BY DEF Traced, OnRecord, InFolder
  <2>2. c[n].digest # None
    BY ItemParts, Parts DEF Sound, FilesOK
  <2> QED
    BY <1>3, <2>1, <2>2
<1>8. Committing'
  BY <1>1, <1>2, <1>5 DEF Traced, Committing, Fresh
<1> QED
  BY <1>1, <1>6, <1>7, <1>8 DEF Traced

\* A file is deleted, that is not on record.
LEMMA TracedDelete ==
  ASSUME Sound, LInv, made \in SUBSET Derivatives, Witness, touched' = touched,
         pc = "delete", NEW e \in tx.del,
         fs'.files = [fs.files EXCEPT ![e.name] = None], fs'.kept = fs.kept,
         fs'.manifest = fs.manifest, durable'.manifest = durable.manifest,
         fs'.journal = fs.journal, durable'.journal = durable.journal
  PROVE  Traced' /\ \A d \in made' : Follows(tx.next, d, fs'.files, touched')
<1>1. made' \subseteq made /\ InPlace'
  BY NothingNew DEF LInv, Traced
<1>2. /\ fs.journal = tx /\ durable.journal = tx /\ tx # None /\ Good(tx) /\ e.name \in Names
      /\ tx \in Transactions
  BY Running, EffectParts
<1>3. \A k \in Names : k # e.name => fs'.files[k] = fs.files[k]
  BY <1>2, Parts DEF Sound, FilesOK
<1>4. tx.next[e.name] = None /\ fs.manifest = tx.next /\ durable.manifest = tx.next
  BY <1>2 DEF Good, Sound, Phased, Settled
<1>5. ASSUME NEW d \in made'
      PROVE  Follows(tx.next, d, fs'.files, touched')
  <2>1. Follows(tx.next, d, fs.files, touched)
    BY <1>1 DEF LInv, Intended, Arrived
  <2>2. \A k \in Names : RecordAt(tx.next, d, k) =>
           /\ fs.files[k] = d.digest => fs'.files[k] = d.digest
           /\ fs.files[k] = None => fs'.files[k] \in {None, d.digest}
    BY <1>3, <1>4 DEF RecordAt
  <2>3. Follows(tx.next, d, fs'.files, touched)
    BY <2>1, <2>2, FollowsOn
  <2> QED
    BY <2>3
<1>6. Backing' /\ Linked'
  BY <1>1 DEF LInv, Traced, Backing, Linked
<1>7. OnRecord'
  BY <1>3, <1>4 DEF LInv, Traced, OnRecord, InFolder
<1>8. Committing'
  BY <1>1, <1>2, <1>5 DEF LInv, Traced, Committing, Fresh, Carries
<1> QED
  BY <1>1, <1>5, <1>6, <1>7, <1>8 DEF Traced


\* The journal is written, of what was prepared.
LEMMA TracedJournal ==
  ASSUME Sound, LInv, made \in SUBSET Derivatives, Witness, touched' = touched,
         pc = "journal", fs'.files = fs.files, fs'.kept = fs.kept,
         fs'.manifest = fs.manifest, durable'.manifest = fs.manifest,
         fs'.journal = tx, durable'.journal = tx
  PROVE  Traced'
<1>1. made' \subseteq made /\ InPlace'
  BY NothingNew
<1>2. fs.journal = None /\ durable.manifest = fs.manifest /\ tx # None
  BY Fitting DEF Sound, Filed, Synced
<1>3. Fresh(tx) /\ \A d \in made : Carries(tx, d, fs.files, touched, fs.kept)
  BY DEF LInv, Intended, Preparing
<1>4. Backing' /\ Linked'
  BY <1>1, <1>2 DEF LInv, Traced, Backing, Linked
<1>5. OnRecord'
  BY <1>2 DEF LInv, Traced, OnRecord, InFolder
<1>6. Committing'
  BY <1>1, <1>2, <1>3 DEF Committing, Fresh
<1> QED
  BY <1>1, <1>4, <1>5, <1>6 DEF Traced

\* The manifest is written. Every derivative that stays is one the transaction
\* carries on, and none is under the name of other artwork that was added.
LEMMA TracedRecorded ==
  ASSUME Sound, LInv, made \in SUBSET Derivatives, Witness, touched' = touched,
         pc = "manifest", fs' = Recorded, fs'.files = fs.files, fs'.kept = fs.kept,
         fs'.manifest = tx.next, durable'.manifest \in {tx.next, durable.manifest},
         fs'.journal = fs.journal, durable'.journal = durable.journal
  PROVE  Traced' /\ \A d \in made' : Follows(tx.next, d, fs'.files, touched')
<1>1. \A d \in made' : fs'.files[d.name] = d.digest /\ ((d \in made /\ ~Dropped(tx, d)) \/ New(d))
  BY Witnessed DEF Writes
<1>2. /\ fs.journal = tx /\ durable.journal = tx /\ tx # None /\ Fits(tx) /\ Added(tx)
      /\ Refers(tx.next, fs.kept) /\ tx.add \subseteq Effects /\ tx.next \in Collections
  BY Running DEF Sound, Phased, Publishing
<1>3. ASSUME NEW d \in made', d \in made, ~Dropped(tx, d)
      PROVE  Follows(tx.next, d, fs.files, touched)
  <2>1. Carries(tx, d, fs.files, touched, fs.kept)
    BY <1>2, <1>3 DEF LInv, Traced, Committing
  <2>2. ~ Blocked(tx, d, fs.kept)
    BY <1>3 DEF LInv, Intended, Held, Blocked
  <2> QED
    BY <1>3, <2>1, <2>2 DEF Carries
<1>4. ASSUME NEW d \in made', New(d)
      PROVE  Follows(tx.next, d, fs.files, touched)
  BY <1>4, RecordedFollows DEF New
<1>5. \A d \in made' : Follows(tx.next, d, fs'.files, touched')
  BY <1>1, <1>3, <1>4
<1>6. InPlace'
  BY <1>1 DEF InPlace
<1>7. Backing'
  BY <1>2 DEF LInv, Traced, Backing, Refers
<1>8. OnRecord'
  <2> SUFFICES ASSUME NEW n \in Names, NEW c \in {tx.next, durable.manifest}, c[n] # None
               PROVE  n \in touched \/ fs.files[n] = c[n].digest
    BY DEF OnRecord, InFolder
  <2>1. CASE c = durable.manifest
    BY <2>1 DEF LInv, Traced, OnRecord, InFolder
  <2>2. CASE c = tx.next
    <3> DEFINE e == [name |-> n, digest |-> c[n].digest]
    <3>1. n \in touched \/ fs.files[n] = c[n].digest \/ (fs.files[n] = None /\ e \in tx.add)
      BY <1>2, <2>2 DEF Fits, InFolder
    <3>2. e \in tx.add => n \in touched \/ fs.files[n] = c[n].digest
      BY <1>2 DEF Added, There, Matches
    <3> QED
      BY <3>1, <3>2
  <2> QED
    BY <2>1, <2>2
<1>9. Linked'
  <2> SUFFICES ASSUME NEW d \in made'
               PROVE  /\ \/ d.orig \in fs.kept
                         \/ Stands(tx.next, d) /\ Stands(durable'.manifest, d)
                      /\ touched = {} => d.orig \in fs.kept
    BY DEF Linked
  <2>1. CASE New(d)
    BY <2>1 DEF New
  <2>2. CASE d \in made
    <3>1. d \in Derivatives /\ Follows(tx.next, d, fs.files, touched)
      BY <1>5, <2>2
    <3>2. d.orig \in fs.kept \/ Stands(tx.next, d)
      BY <1>2, <3>1, FollowedKept
    <3>3. /\ d.orig \in fs.kept \/ Stands(durable.manifest, d)
          /\ touched = {} => d.orig \in fs.kept
      BY <2>2 DEF LInv, Traced, Linked
    <3> QED
      BY <3>2, <3>3
  <2> QED
    BY <1>1, <2>1, <2>2
<1>10. Committing'
  BY <1>2, <1>5 DEF LInv, Traced, Committing, Carries, Fresh
<1> QED
  BY <1>5, <1>6, <1>7, <1>8, <1>9, <1>10 DEF Traced

\* The journal goes, or may come back after a power loss.
LEMMA TracedFinish ==
  ASSUME Sound, LInv, made \in SUBSET Derivatives, Witness, touched' = touched,
         pc = "finish", fs'.files = fs.files, fs'.kept = fs.kept,
         fs'.manifest = tx.next, durable'.manifest = tx.next,
         fs'.journal = None, durable'.journal \in {None, durable.journal}
  PROVE  Traced'
<1>1. made' \subseteq made /\ InPlace'
  BY NothingNew
<1>2. fs.manifest = tx.next /\ durable.manifest = tx.next
  BY DEF Sound, Phased, Settled
<1>3. Backing' /\ Linked'
  BY <1>1, <1>2 DEF LInv, Traced, Backing, Linked
<1>4. OnRecord'
  BY <1>2 DEF LInv, Traced, OnRecord, InFolder
<1>5. Committing'
  BY <1>1, <1>2 DEF LInv, Traced, Intended, Arrived, Committing, Fresh
<1> QED
  BY <1>1, <1>3, <1>4, <1>5 DEF Traced

\* An original nothing refers to is removed: no derivative needs it.
LEMMA TracedDiscard ==
  ASSUME Sound, LInv, made \in SUBSET Derivatives, Witness, touched' = touched,
         pc = "collect", NEW o \in todo, fs'.files = fs.files, fs'.kept = fs.kept \ {o},
         fs'.manifest = fs.manifest, durable'.manifest = durable.manifest,
         fs'.journal = fs.journal, durable'.journal = durable.journal
  PROVE  Traced'
<1>1. made' \subseteq made /\ InPlace'
  BY NothingNew
<1>2. /\ fs.journal = None /\ durable.manifest = fs.manifest
      /\ Refers(fs.manifest, fs'.kept)
  BY CollectedUnused DEF Sound, Filed, Synced, Committed
<1>3. Backing'
  BY <1>2 DEF Backing
<1>4. OnRecord'
  BY DEF LInv, Traced, OnRecord, InFolder
<1>5. Linked'
  <2> SUFFICES ASSUME NEW d \in made'
               PROVE  /\ d.orig \in fs'.kept \/ Stands(fs.manifest, d)
                      /\ touched = {} => d.orig \in fs'.kept
    BY <1>2 DEF Linked
  <2>1. d \in Derivatives /\ Follows(fs.manifest, d, fs.files, touched)
    BY <1>1, <1>2 DEF LInv, Traced, Committing
  <2>2. d.orig \in fs'.kept \/ Stands(fs.manifest, d)
    BY <1>2, <2>1, FollowedKept
  <2>3. RecordAt(fs.manifest, d, d.name) => d.orig \in fs'.kept
    BY <1>2, <2>1, DerivativeParts DEF RecordAt, Refers
  <2> QED
    BY <2>1, <2>2, <2>3 DEF Follows
<1>6. Committing'
  BY <1>1, <1>2 DEF LInv, Traced, Committing, Fresh
<1> QED
  BY <1>1, <1>3, <1>4, <1>5, <1>6 DEF Traced

-----------------------------------------------------------------------------
(* What a plan sees of the derivatives.                                    *)

\* A scan sees a derivative by its name, or by the record of a file that is there.
Seen(view, d) ==
  /\ \/ Stands(view, d)
     \/ \E k \in Names : RecordAt(view, d, k) /\ fs.files[k] = d.digest
  /\ touched = {} => RecordAt(view, d, d.name)

\* Artwork on record that is there is seen as it was recorded.
LEMMA SeesRecord ==
  ASSUME NEW d \in Derivatives, NEW k \in Names, RecordAt(fs.manifest, d, k),
         fs.files[k] = d.digest, NEW blind, k \notin blind, NEW view \in Scans(blind)
  PROVE  RecordAt(view, d, k)
BY DerivativeParts DEF Scans, Lineages, RecordAt

\* A derivative under another name has the lineage of one that was renamed.
LEMMA SeesRenamed ==
  ASSUME NEW d \in Derivatives, NEW k \in Names, RecordAt(fs.manifest, d, k),
         fs.files[k] = None, fs.manifest[d.name] = None, fs.files[d.name] = d.digest
  PROVE  /\ Renamed(fs.files[d.name]) # {}
         /\ \A blind : \A view \in Scans(blind) : d.name \notin blind => Stands(view, d)
<1>1. d.orig \in Renamed(fs.files[d.name])
  BY DerivativeParts DEF Renamed, RecordAt
<1>2. None \notin Renamed(fs.files[d.name])
  BY DEF Renamed
<1>3. Lineages(d.name) = Renamed(fs.files[d.name])
  BY <1>1 DEF Lineages
<1> QED
  BY <1>1, <1>2, <1>3, DerivativeParts DEF Scans, Stands

\* No derivative escapes a plan, unless one that was renamed cannot be read.
LEMMA PlanSees ==
  ASSUME Sound, Traced, made \in SUBSET Derivatives, fs.journal = None,
         NEW blind \in SUBSET Names, NEW view \in Scans(blind),
         \A n \in blind : fs.manifest[n] = None /\ Renamed(fs.files[n]) = {},
         NEW d \in made
  PROVE  Seen(view, d)
<1>1. /\ d \in Derivatives /\ fs.files[d.name] = d.digest
      /\ Follows(fs.manifest, d, fs.files, touched)
  BY DEF Traced, InPlace, Committing
<1>2. d.name \in Names /\ d.digest # None /\ d.orig # None
  BY <1>1, DerivativeParts
<1>3. \A k \in Names : RecordAt(fs.manifest, d, k) => k \notin blind
  BY DEF RecordAt
<1>4. touched = {} => RecordAt(view, d, d.name)
  BY <1>1, <1>2, <1>3, SeesRecord DEF Follows
<1>5. ASSUME Stands(fs.manifest, d)
      PROVE  Stands(view, d)
  BY <1>1, <1>2, <1>5 DEF Scans, Lineages, Stands
<1>6. ASSUME NEW k \in Names, RecordAt(fs.manifest, d, k), fs.files[k] = d.digest
      PROVE  RecordAt(view, d, k)
  BY <1>1, <1>3, <1>6, SeesRecord
<1>7. ASSUME NEW k \in Names, RecordAt(fs.manifest, d, k), fs.files[k] = None, fs.manifest[d.name] = None
      PROVE  Stands(view, d)
  BY <1>1, <1>2, <1>7, SeesRenamed
<1>8. \/ Stands(fs.manifest, d)
      \/ \E k \in Names : /\ RecordAt(fs.manifest, d, k)
                          /\ fs.files[k] = d.digest \/ (fs.files[k] = None /\ fs.manifest[d.name] = None)
  BY <1>1 DEF Follows
<1> QED
  BY <1>4, <1>5, <1>6, <1>7, <1>8 DEF Seen

\* What is seen is followed.
LEMMA SeenFollows ==
  ASSUME NEW view, NEW d, Seen(view, d)
  PROVE  Follows(view, d, fs.files, touched)
BY DEF Seen, Follows

\* What an unreadable file may hide is artwork no plan has to know.
LEMMA BlindToNothing ==
  ASSUME Traceable, NEW blind \in SUBSET Names, NEW view, ~Excludes(view, blind),
         blind = {} \/ Disturbed(Unreadable(blind))
  PROVE  \A n \in blind : fs.manifest[n] = None /\ Renamed(fs.files[n]) = {}
BY DEF Traceable, Excludes, Disturbed, Unreadable

\* Prepare records the view.
LEMMA PreparePrepares ==
  ASSUME Traceable, Sound, LInv, made \in SUBSET Derivatives, Witness, PlanPrepare
  PROVE  Intended'
<1>1. fs' = fs /\ touched' = touched /\ made' \subseteq made /\ fs.journal = None
  BY NothingNew DEF PlanPrepare, Sound, Phased, Planned
<1>2. PICK blind \in SUBSET {n \in Names : fs.files[n] # None} : \E view \in Scans(blind) :
        /\ blind = {} \/ Disturbed(Unreadable(blind))
        /\ \/ Excludes(view, blind) /\ EndOp
           \/ /\ ~Excludes(view, blind)
              /\ tx' = [kind |-> "manifest", add |-> {}, del |-> {}, next |-> view]
              /\ IF view = fs.manifest THEN Goto("collect", fs.kept \ Origins(view))
                                       ELSE Goto("journal", {})
  BY DEF PlanPrepare
<1>3. PICK view \in Scans(blind) :
        /\ blind = {} \/ Disturbed(Unreadable(blind))
        /\ \/ Excludes(view, blind) /\ EndOp
           \/ /\ ~Excludes(view, blind)
              /\ tx' = [kind |-> "manifest", add |-> {}, del |-> {}, next |-> view]
              /\ IF view = fs.manifest THEN Goto("collect", fs.kept \ Origins(view))
                                       ELSE Goto("journal", {})
  BY <1>2
<1>4. CASE EndOp
  BY <1>4 DEF EndOp, Goto, Intended, Preparing, Held, Arrived
<1>5. CASE ~EndOp
  <2>1. /\ ~Excludes(view, blind) /\ tx'.next = view /\ tx'.add = {}
        /\ pc' \in {"collect", "journal"}
    BY <1>3, <1>5 DEF Goto
  <2>2. \A n \in blind : fs.manifest[n] = None /\ Renamed(fs.files[n]) = {}
    BY <1>3, <2>1, BlindToNothing
  <2>3. \A d \in made : Seen(view, d)
    BY <1>1, <1>3, <2>2, PlanSees DEF LInv
  <2>4. \A d \in made' : Carries(tx', d, fs'.files, touched', fs'.kept)
    BY <1>1, <2>1, <2>3, SeenFollows DEF Carries
  <2>5. Fresh(tx)'
    BY <2>1 DEF Fresh
  <2> QED
    BY <2>1, <2>4, <2>5 DEF Intended, Preparing, Held, Arrived
<1> QED
  BY <1>4, <1>5

\* An import leaves all records, and adds bytes that are on none.
LEMMA ImportPrepares ==
  ASSUME Sound, LInv, made \in SUBSET Derivatives, Witness, PlanImport
  PROVE  Intended'
<1>1. fs' = fs /\ touched' = touched /\ made' \subseteq made /\ fs.journal = None
  BY NothingNew DEF PlanImport, Sound, Phased, Planned
<1>2. PICK view \in Scans({}), next \in Collections :
       /\ \A n \in Present(view) : next[n] = view[n]
       /\ \A n \in Present(next) \ Present(view) :
            /\ next[n].orig = None
            /\ \A m \in Present(next) \ {n} : next[m].digest # next[n].digest
       /\ tx' = Transaction(view, next)
       /\ Goto(IF next = view THEN "journal" ELSE "clean", {})
  BY DEF PlanImport
<1>3. /\ tx'.next = next /\ pc' \in {"journal", "clean"}
      /\ \A e \in tx'.add : /\ e.name \in Names /\ view[e.name] = None /\ next[e.name] # None
                            /\ e.digest = next[e.name].digest
  BY <1>2, TransactionIs DEF Goto, Scans
<1>4. ASSUME NEW d \in made
      PROVE  Follows(next, d, fs.files, touched)
  <2>1. d \in Derivatives /\ Seen(view, d)
    BY <1>1, PlanSees DEF LInv
  <2>2. \A k \in Names : view[k] # None => next[k] = view[k]
    BY <1>2 DEF Present
  <2>3. d.name \in Names
    BY <2>1, DerivativeParts
  <2> QED
    BY <2>1, <2>2, <2>3 DEF Seen, Follows, Stands, RecordAt
<1>5. Fresh(tx)'
  BY <1>2, <1>3 DEF Fresh, Present
<1>6. \A d \in made' : Carries(tx', d, fs'.files, touched', fs'.kept)
  BY <1>1, <1>3, <1>4 DEF Carries
<1> QED
  BY <1>3, <1>5, <1>6 DEF Intended, Preparing, Held, Arrived

\* What is applied keeps the lineage of what it leaves, and deletes the rest.
LEMMA ApplyPrepares ==
  ASSUME Sound, LInv, made \in SUBSET Derivatives, Witness, PlanApply
  PROVE  Intended'
<1>1. fs' = fs /\ touched' = touched /\ made' \subseteq made /\ fs.journal = None
  BY NothingNew DEF PlanApply, Sound, Phased, Planned
<1>2. PICK view \in Scans({}), next \in Collections :
       /\ Applicable(view, next)
       /\ \/ next = view /\ EndOp
          \/ /\ tx' = Transaction(view, next)
             /\ AfterKeep(NewOrigins(view, next), Transaction(view, next))
  BY DEF PlanApply
<1>3. CASE EndOp
  BY <1>3 DEF EndOp, Goto, Intended, Preparing, Held, Arrived
<1>4. CASE tx' = Transaction(view, next) /\ AfterKeep(NewOrigins(view, next), Transaction(view, next))
  <2>1. view \in Collections
    BY DEF Scans
  <2>2. /\ tx'.next = next /\ pc' \in {"keep", "clean", "journal"}
        /\ \A e \in tx'.add : /\ e.name \in Names /\ view[e.name] = None /\ next[e.name] # None
                              /\ e.digest = next[e.name].digest
    BY <1>4, <2>1, TransactionIs DEF AfterKeep, Goto
  <2>3. \A k \in Names : view[k] # None /\ next[k] = None =>
          [name |-> k, digest |-> view[k].digest] \in tx'.del
    BY <1>4 DEF Transaction, EffectsOf, Present
  <2>4. \A k \in Names : next[k] # None =>
          /\ view[k] = None => next[k].orig # None
          /\ view[k] # None => /\ next[k].digest = view[k].digest
                               /\ view[k].orig \in {None, next[k].orig}
    BY <1>2 DEF Applicable, Present
  <2>5. ASSUME NEW d \in made
        PROVE  Follows(next, d, fs.files, touched) \/ Dropped(tx', d)
    <3>1. d \in Derivatives /\ Seen(view, d)
      BY <1>1, PlanSees DEF LInv
    <3>2. d.name \in Names /\ d.orig # None
      BY <3>1, DerivativeParts
    <3>3. \A k \in Names : view[k] # None /\ view[k].digest = d.digest /\ next[k] = None => Dropped(tx', d)
      BY <2>3 DEF Dropped
    <3>4. Stands(view, d) => Stands(next, d) \/ Dropped(tx', d)
      BY <2>4, <3>2, <3>3 DEF Stands
    <3>5. \A k \in Names : RecordAt(view, d, k) => RecordAt(next, d, k) \/ Dropped(tx', d)
      BY <2>4, <3>2, <3>3 DEF RecordAt
    <3> QED
      BY <3>1, <3>2, <3>4, <3>5 DEF Seen, Follows
  <2>6. Fresh(tx)'
    BY <2>2, <2>4 DEF Fresh
  <2>7. \A d \in made' : Carries(tx', d, fs'.files, touched', fs'.kept)
    BY <1>1, <2>2, <2>5 DEF Carries
  <2> QED
    BY <2>2, <2>6, <2>7 DEF Intended, Preparing, Held, Arrived
<1> QED
  BY <1>2, <1>3, <1>4

-----------------------------------------------------------------------------
(* What the owner does to the trace.                                       *)

\* Before the owner acts, a transaction carries a derivative under its name, drops
\* it, or fails over it.
LEMMA JournalCarries ==
  ASSUME Sound, Traced, made \in SUBSET Derivatives, touched = {}, fs.journal # None, NEW d \in made
  PROVE  RecordAt(fs.journal.next, d, d.name) \/ Dropped(fs.journal, d)
<1>1. /\ fs.journal \in Transactions /\ durable.journal = fs.journal
      /\ Good(fs.journal) /\ Fits(fs.journal)
  BY JournalParts DEF Sound, Filed, Synced, Journalling
<1>2. d \in Derivatives /\ fs.files[d.name] = d.digest /\ Carries(fs.journal, d, fs.files, touched, fs.kept)
  BY DEF Traced, InPlace, Committing
<1> QED
  BY <1>1, <1>2, FittingCarries

LEMMA PlanCarries ==
  ASSUME Sound, LInv, made \in SUBSET Derivatives, touched = {},
         pc \in {"keep", "clean", "stage", "journal"}, NEW d \in made
  PROVE  RecordAt(tx.next, d, d.name) \/ Dropped(tx, d)
<1>1. tx \in Transactions /\ Good(tx) /\ Fits(tx)
  BY Fitting
<1>2. d \in Derivatives /\ fs.files[d.name] = d.digest /\ Carries(tx, d, fs.files, touched, fs.kept)
  BY DEF LInv, Traced, InPlace, Intended, Preparing
<1> QED
  BY <1>1, <1>2, FittingCarries

\* The owner's one change leaves what is on record in the folder, or touched.
LEMMA OwnerLeaves ==
  ASSUME Sound, Traced, NEW files \in [Names -> Digests \cup {None}], NEW names,
         Folders(files, names), \A k \in Names : k \in names \/ files[k] = fs.files[k]
  PROVE  /\ fs'.files = files /\ fs'.kept = fs.kept /\ touched' = names
         /\ fs'.manifest = fs.manifest /\ durable'.manifest = durable.manifest
         /\ fs'.journal = fs.journal /\ durable'.journal = durable.journal
         /\ pc' = pc /\ tx' = tx /\ todo' = todo
         /\ Backing' /\ OnRecord'
<1>1. /\ fs'.files = files /\ fs'.kept = fs.kept /\ fs'.manifest = fs.manifest
      /\ fs'.journal = fs.journal
  BY ChangesFiles DEF Folders, Sound, FilesOK
<1>2. durable'.manifest = durable.manifest /\ durable'.journal = durable.journal
  BY ChangesFiles DEF Folders, Sound, FilesOK
<1>3. touched = {} /\ touched' = names /\ pc' = pc /\ tx' = tx /\ todo' = todo
  BY DEF Folders, runVars
<1>4. Backing'
  BY <1>1, <1>2 DEF Traced, Backing
<1>5. OnRecord'
  BY <1>1, <1>2, <1>3 DEF Traced, OnRecord, InFolder
<1> QED
  BY <1>1, <1>2, <1>3, <1>4, <1>5

\* The owner adds, replaces or removes artwork.
LEMMA OwnerActsTraced ==
  ASSUME Sound, LInv, made \in SUBSET Derivatives, Witness, OwnerActs
  PROVE  LInv'
<1>1. PICK n \in Names, art \in Digests \cup {None} :
        art # fs.files[n] /\ Folders([fs.files EXCEPT ![n] = art], {n})
  BY DEF OwnerActs
<1> DEFINE files == [fs.files EXCEPT ![n] = art]
<1>2. /\ files \in [Names -> Digests \cup {None}]
      /\ \A k \in Names : k \in {n} \/ files[k] = fs.files[k]
      /\ files[n] # fs.files[n]
  BY <1>1, Parts DEF Sound, FilesOK
<1> HIDE DEF files
<1>3. Folders(files, {n}) /\ touched = {}
  BY <1>1 DEF files, Folders
<1>4. /\ fs'.files = files /\ fs'.kept = fs.kept /\ touched' = {n}
      /\ fs'.manifest = fs.manifest /\ durable'.manifest = durable.manifest
      /\ fs'.journal = fs.journal /\ durable'.journal = durable.journal
      /\ pc' = pc /\ tx' = tx /\ todo' = todo
      /\ Backing' /\ OnRecord'
  BY <1>2, <1>3, OwnerLeaves DEF LInv
<1>5. /\ made' \subseteq made
      /\ InPlace'
  <2>1. ~ (pc = "manifest" /\ fs' = Recorded)
    <3>1. pc = "manifest" => Recorded.files = fs.files
      BY Running, ChangesManifest DEF Sound, FilesOK, Recorded
    <3> QED
      BY <1>2, <1>4, <3>1
  <2> QED
    BY <2>1, Witnessed DEF New, InPlace
<1>6. Linked'
  BY <1>3, <1>4, <1>5 DEF LInv, Traced, Linked
<1>7. ASSUME fs.journal = None, NEW d \in made'
      PROVE  Follows(fs.manifest, d, fs'.files, touched')
  <2>1. d \in Derivatives /\ RecordAt(fs.manifest, d, d.name)
    BY <1>3, <1>5, <1>7 DEF LInv, Traced, Committing, Follows
  <2> QED
    BY <2>1, RecordedFollows
<1>8. ASSUME fs.journal # None, NEW d \in made'
      PROVE  Carries(fs.journal, d, fs'.files, touched', fs'.kept)
  <2>1. d \in Derivatives /\ (RecordAt(fs.journal.next, d, d.name) \/ Dropped(fs.journal, d))
    BY <1>3, <1>5, <1>8, JournalCarries DEF LInv
  <2> QED
    BY <2>1, RecordedFollows DEF Carries
<1>9. Committing'
  BY <1>4, <1>7, <1>8 DEF LInv, Traced, Committing, Fresh
<1>10. Preparing'
  <2>1. ASSUME pc \in {"keep", "clean", "stage", "journal"}, NEW d \in made'
        PROVE  Carries(tx, d, fs'.files, touched', fs'.kept)
    <3>1. d \in Derivatives /\ (RecordAt(tx.next, d, d.name) \/ Dropped(tx, d))
      BY <1>3, <1>5, <2>1, PlanCarries
    <3> QED
      BY <3>1, RecordedFollows DEF Carries
  <2> QED
    BY <1>4, <2>1 DEF LInv, Intended, Preparing, Fresh
<1>11. Held'
  BY <1>4, <1>5 DEF LInv, Intended, Held, First
<1>12. Arrived'
  <2> SUFFICES ASSUME pc \in {"delete", "finish"}, NEW d \in made'
               PROVE  Follows(tx.next, d, fs'.files, touched')
    BY <1>4 DEF Arrived
  <2>1. d \in Derivatives /\ RecordAt(tx.next, d, d.name)
    BY <1>3, <1>5 DEF LInv, Intended, Arrived, Follows
  <2> QED
    BY <2>1, RecordedFollows
<1> QED
  BY <1>4, <1>5, <1>6, <1>9, <1>10, <1>11, <1>12 DEF LInv, Traced, Intended

\* A derivative is renamed: the record of its old name is the trace.
LEMMA RenamedFollows ==
  ASSUME NEW d \in Derivatives, NEW c, RecordAt(c, d, d.name), NEW m \in Names, c[m] = None,
         NEW files, files[d.name] = None, NEW names, names # {},
         NEW moved, moved = [d EXCEPT !.name = m]
  PROVE  Follows(c, moved, files, names)
<1>1. moved.name = m /\ moved.digest = d.digest /\ moved.orig = d.orig
  BY DEF Derivatives
<1>2. d.name \in Names /\ RecordAt(c, moved, d.name)
  BY <1>1, DerivativeParts DEF RecordAt
<1> QED
  BY <1>1, <1>2 DEF Follows

\* A transaction carries it on: it knows the new name of other artwork, or of the
\* same, or not at all.
LEMMA RenamedCarries ==
  ASSUME NEW d \in Derivatives, NEW t \in Transactions, Fits(t), Fresh(t), touched = {},
         RecordAt(t.next, d, d.name) \/ Dropped(t, d),
         NEW m \in Names, m # d.name, fs.files[m] = None,
         NEW files, files[d.name] = None, NEW names, names # {}, NEW kept, d.orig \in kept,
         NEW moved, moved = [d EXCEPT !.name = m]
  PROVE  Carries(t, moved, files, names, kept)
<1>1. moved.name = m /\ moved.digest = d.digest /\ moved.orig = d.orig
  BY DEF Derivatives
<1>2. t.next \in Collections
  BY TransactionParts
<1>3. CASE Dropped(t, d)
  BY <1>1, <1>3 DEF Dropped, Carries
<1>4. CASE RecordAt(t.next, d, d.name) /\ t.next[m] = None
  <2>1. Follows(t.next, moved, files, names)
    BY <1>4, RenamedFollows
  <2> QED
    BY <2>1 DEF Carries
<1>5. CASE RecordAt(t.next, d, d.name) /\ t.next[m] # None
  <2> DEFINE e == [name |-> m, digest |-> t.next[m].digest]
  <2>1. e \in t.add /\ e.name = m /\ e.digest = t.next[m].digest
    <3>1. t.next[m].digest # None
      BY <1>2, <1>5, ItemParts
    <3> QED
      BY <1>5, <3>1 DEF Fits, InFolder
  <2> HIDE DEF e
  <2>2. CASE t.next[m].digest # d.digest
    BY <1>1, <2>1, <2>2 DEF Carries, Blocked, Clashes
  <2>3. CASE t.next[m].digest = d.digest
    <3>1. d.name \in Names /\ t.next[d.name] # None /\ t.next[d.name].digest = d.digest
      BY <1>5, DerivativeParts DEF RecordAt
    <3>2. t.next[m].orig # None
      BY <2>1, <2>3, <3>1 DEF Fresh
    <3> QED
      BY <1>1, <1>5, <2>3, <3>2 DEF Carries, Follows, Stands
  <2> QED
    BY <2>2, <2>3
<1> QED
  BY <1>3, <1>4, <1>5

\* The owner renames artwork.
LEMMA OwnerRenamesTraced ==
  ASSUME Sound, LInv, made \in SUBSET Derivatives, OwnerRenames
  PROVE  LInv'
<1>1. PICK n \in Names, m \in Names :
        /\ fs.files[n] # None /\ fs.files[m] = None
        /\ Folders([fs.files EXCEPT ![n] = None, ![m] = fs.files[n]], {n, m})
        /\ made' = {IF d.name = n THEN [d EXCEPT !.name = m] ELSE d : d \in made}
  BY DEF OwnerRenames
<1> DEFINE files == [fs.files EXCEPT ![n] = None, ![m] = fs.files[n]]
<1>2. /\ files \in [Names -> Digests \cup {None}]
      /\ \A k \in Names : k \in {n, m} \/ files[k] = fs.files[k]
      /\ n # m /\ files[n] = None /\ files[m] = fs.files[n]
  BY <1>1, Parts DEF Sound, FilesOK
<1> HIDE DEF files
<1>3. Folders(files, {n, m}) /\ touched = {}
  BY <1>1 DEF files, Folders
<1>4. /\ fs'.files = files /\ fs'.kept = fs.kept /\ touched' = {n, m} /\ touched' # {}
      /\ fs'.manifest = fs.manifest /\ durable'.manifest = durable.manifest
      /\ fs'.journal = fs.journal /\ durable'.journal = durable.journal
      /\ pc' = pc /\ tx' = tx /\ todo' = todo
      /\ Backing' /\ OnRecord'
  BY <1>2, <1>3, OwnerLeaves DEF LInv
\* Where a derivative is now, and where it was.
<1>5. ASSUME NEW r \in made'
      PROVE  \E d \in made :
               /\ d \in Derivatives /\ d.orig \in fs.kept /\ fs.files[d.name] = d.digest
               /\ r.digest = d.digest /\ r.orig = d.orig /\ files[r.name] = r.digest
               /\ \/ d.name # n /\ r = d
                  \/ d.name = n /\ r = [d EXCEPT !.name = m] /\ r.name = m
  <2>1. PICK d \in made : r = IF d.name = n THEN [d EXCEPT !.name = m] ELSE d
    BY <1>1
  <2>2. d \in Derivatives /\ d.orig \in fs.kept /\ fs.files[d.name] = d.digest
    BY <1>3 DEF LInv, Traced, Linked, InPlace
  <2>3. d.name \in Names /\ d.digest # None
    BY <2>2, DerivativeParts
  <2>4. CASE d.name = n
    <3>1. r = [d EXCEPT !.name = m] /\ r.name = m /\ r.digest = d.digest /\ r.orig = d.orig
      BY <2>1, <2>2, <2>4 DEF Derivatives
    <3> QED
      BY <1>2, <2>2, <2>4, <3>1
  <2>5. CASE d.name # n
    BY <1>1, <1>2, <2>1, <2>2, <2>3, <2>5
  <2> QED
    BY <2>4, <2>5
<1>6. InPlace'
  BY <1>4, <1>5 DEF InPlace
<1>7. Linked'
  BY <1>4, <1>5 DEF Linked
\* Its record, and how a transaction carries it.
<1>8. ASSUME NEW c \in {fs.manifest, durable.manifest}, NEW r \in made',
             \A d \in made : RecordAt(c, d, d.name)
      PROVE  Follows(c, r, files, touched')
  <2>1. PICK d \in made : /\ d \in Derivatives
                          /\ \/ d.name # n /\ r = d
                             \/ d.name = n /\ r = [d EXCEPT !.name = m]
    BY <1>5
  <2>2. c[m] = None
    <3>1. c[m] # None => fs.files[m] = c[m].digest /\ c[m].digest # None
      BY <1>3, ItemParts, Parts DEF LInv, Traced, OnRecord, InFolder, Sound, FilesOK
    <3> QED
      BY <1>1, <3>1
  <2>3. CASE d.name # n /\ r = d
    BY <1>8, <2>1, <2>3, RecordedFollows
  <2>4. CASE d.name = n /\ r = [d EXCEPT !.name = m]
    BY <1>2, <1>4, <1>8, <2>1, <2>2, <2>4, RenamedFollows
  <2> QED
    BY <2>1, <2>3, <2>4
<1>9. ASSUME NEW t \in Transactions, Fits(t), Fresh(t), NEW r \in made',
             \A d \in made : RecordAt(t.next, d, d.name) \/ Dropped(t, d)
      PROVE  Carries(t, r, files, touched', fs.kept)
  <2>1. PICK d \in made : /\ d \in Derivatives /\ d.orig \in fs.kept
                          /\ \/ d.name # n /\ r = d
                             \/ d.name = n /\ r = [d EXCEPT !.name = m]
    BY <1>5
  <2>2. CASE d.name # n /\ r = d
    BY <1>9, <2>1, <2>2, RecordedFollows DEF Carries
  <2>3. CASE d.name = n /\ r = [d EXCEPT !.name = m]
    BY <1>1, <1>2, <1>3, <1>4, <1>9, <2>1, <2>3, RenamedCarries
  <2> QED
    BY <2>1, <2>2, <2>3
<1>10. Committing'
  <2>1. ASSUME fs.journal = None, NEW r \in made'
        PROVE  Follows(fs.manifest, r, files, touched')
    <3>1. \A d \in made : RecordAt(fs.manifest, d, d.name)
      BY <1>3, <2>1 DEF LInv, Traced, Committing, Follows
    <3> QED
      BY <1>8, <3>1
  <2>2. ASSUME fs.journal # None, NEW r \in made'
        PROVE  Carries(fs.journal, r, files, touched', fs.kept)
    <3>1. fs.journal \in Transactions /\ Fits(fs.journal) /\ Fresh(fs.journal)
      BY <2>2, JournalParts DEF LInv, Traced, Committing, Sound, Filed, Synced, Journalling
    <3>2. \A d \in made : RecordAt(fs.journal.next, d, d.name) \/ Dropped(fs.journal, d)
      BY <1>3, <2>2, JournalCarries DEF LInv
    <3> QED
      BY <1>9, <3>1, <3>2
  <2>3. durable.journal # None => Fresh(durable.journal)
    BY DEF LInv, Traced, Committing
  <2> QED
    BY <1>4, <2>1, <2>2, <2>3 DEF Committing, Fresh
<1>11. Preparing'
  <2>1. ASSUME pc \in {"keep", "clean", "stage", "journal"}, NEW r \in made'
        PROVE  Fresh(tx) /\ Carries(tx, r, files, touched', fs.kept)
    <3>1. tx \in Transactions /\ Fits(tx) /\ Fresh(tx)
      BY <2>1, Fitting DEF LInv, Intended, Preparing
    <3>2. \A d \in made : RecordAt(tx.next, d, d.name) \/ Dropped(tx, d)
      BY <1>3, <2>1, PlanCarries
    <3> QED
      BY <1>9, <3>1, <3>2
  <2>2. pc \in {"keep", "clean", "stage", "journal"} => Fresh(tx)
    BY DEF LInv, Intended, Preparing
  <2> QED
    BY <1>4, <2>1, <2>2 DEF Preparing, Fresh
<1>12. Held'
  <2> SUFFICES ASSUME pc \in {"publish", "unstage", "manifest", "delete", "finish"},
                      NEW r \in made', NEW e \in tx.add, Clashes(e, r)
               PROVE  /\ pc \in {"publish", "unstage"} /\ e \in todo
                      /\ pc = "unstage" => e \notin First(todo)
    BY <1>4 DEF Held, First
  <2>1. PICK d \in made : \/ d.name # n /\ r = d
                          \/ d.name = n /\ r.name = m
    BY <1>5
  <2>2. CASE r = d
    BY <2>2 DEF LInv, Intended, Held
  <2>3. CASE r.name = m
    <3>1. ~There(e)
      <4>1. e.name = m /\ e.digest # None
        BY <2>3, Running, EffectParts DEF Clashes
      <4> QED
        BY <1>1, <1>3, <4>1 DEF There, Matches
    <3> QED
      BY <3>1 DEF Sound, Phased, Publishing, Added
  <2> QED
    BY <2>1, <2>2, <2>3
<1>13. Arrived'
  <2> SUFFICES ASSUME pc \in {"delete", "finish"}, NEW r \in made'
               PROVE  Follows(tx.next, r, files, touched')
    BY <1>4 DEF Arrived
  <2>1. \A d \in made : RecordAt(tx.next, d, d.name)
    BY <1>3 DEF LInv, Intended, Arrived, Follows
  <2>2. fs.manifest = tx.next
    BY DEF Sound, Phased, Settled
  <2> QED
    BY <1>8, <2>1, <2>2
<1> QED
  BY <1>4, <1>6, <1>7, <1>10, <1>11, <1>12, <1>13 DEF LInv, Traced, Intended

-----------------------------------------------------------------------------
(* The steps of the lineage.                                               *)

\* Away from a commit nothing is intended.
LEMMA NothingIntended ==
  ASSUME pc' \in {"idle", "plan", "abandon", "verify", "collect"}
  PROVE  Intended'
BY DEF Intended, Preparing, Held, Arrived

LEMMA EndIntendsNothing ==
  ASSUME EndOp
  PROVE  Intended'
BY NothingIntended DEF EndOp, Goto

\* What is prepared stays prepared while the folder stays.
LEMMA StillPreparing ==
  ASSUME LInv, pc \in {"keep", "clean", "stage", "journal"},
         pc' \in {"keep", "clean", "stage", "journal"}, tx' = tx,
         fs'.files = fs.files, touched' = touched, fs.kept \subseteq fs'.kept, made' \subseteq made
  PROVE  Intended'
<1>1. Fresh(tx) /\ \A d \in made : Carries(tx, d, fs.files, touched, fs.kept)
  BY DEF LInv, Intended, Preparing
<1>2. \A d \in made' : Carries(tx, d, fs'.files, touched', fs'.kept)
  BY <1>1, CarriedOn
<1> QED
  BY <1>1, <1>2 DEF Intended, Preparing, Held, Arrived, Fresh

\* A step that leaves everything but stages and grows the kept originals.
LEMMA AsideStep ==
  ASSUME Sound, Traced, made \in SUBSET Derivatives, Witness, touched' = touched,
         fs'.files = fs.files, fs.kept \subseteq fs'.kept,
         fs'.manifest = fs.manifest, durable'.manifest = durable.manifest,
         fs'.journal = fs.journal, durable'.journal = durable.journal
  PROVE  Traced'
BY TracedBeside

LEMMA RefusedLineage ==
  ASSUME Sound, LInv, made \in SUBSET Derivatives, Witness, EndOp, UNCHANGED <<fs, durable, touched>>
  PROVE  LInv'
BY AsideStep, EndIntendsNothing DEF LInv

LEMMA BeginLineage ==
  ASSUME Sound, LInv, made \in SUBSET Derivatives, Witness, Begin
  PROVE  LInv'
<1>1. Traced'
  BY AsideStep DEF Begin, LInv
<1>2. CASE Goto("plan", {})
  BY <1>1, <1>2, NothingIntended DEF Goto, LInv
<1>3. CASE tx' = fs.journal /\ AfterPublish(fs.journal.add)
  <2>1. /\ pc' \in {"publish", "manifest"} /\ todo' = tx'.add
        /\ pc' = "manifest" => tx'.add = {}
    BY <1>3 DEF AfterPublish, Goto
  <2>2. Intended'
    BY <2>1 DEF Intended, Preparing, Held, Arrived
  <2> QED
    BY <1>1, <2>2 DEF LInv
<1> QED
  BY <1>2, <1>3 DEF Begin

LEMMA PlanLineage ==
  ASSUME Traceable, Sound, LInv, made \in SUBSET Derivatives, Witness,
         PlanPrepare \/ PlanImport \/ PlanApply
  PROVE  LInv'
<1>1. Traced'
  BY AsideStep DEF PlanPrepare, PlanImport, PlanApply, LInv
<1> QED
  BY <1>1, PreparePrepares, ImportPrepares, ApplyPrepares DEF LInv

LEMMA KeepLineage ==
  ASSUME Sound, LInv, made \in SUBSET Derivatives, Witness, Keep
  PROVE  LInv'
<1>1. PICK o \in todo :
        /\ AfterKeep(todo \ {o}, tx)
        /\ UNCHANGED <<fs, durable>> \/ Originals(Kept(o))
  BY DEF Keep
<1>2. CASE UNCHANGED <<fs, durable>>
  <2>1. Traced'
    BY <1>2, AsideStep DEF Keep, LInv
  <2>2. Intended'
    BY <1>1, <1>2, NothingNew, StillPreparing DEF Keep, AfterKeep, Goto
  <2> QED
    BY <2>1, <2>2 DEF LInv
<1>3. CASE Originals(Kept(o))
  <2>1. fs.kept \cup {o} \in SUBSET Digests
    BY Parts DEF Keep, Sound, FilesOK, RunOK
  <2>2. /\ fs'.files = fs.files
        /\ fs'.manifest = fs.manifest /\ durable'.manifest = durable.manifest
        /\ fs'.journal = fs.journal   /\ durable'.journal = durable.journal
        /\ fs'.kept = fs.kept \cup {o}
    BY <1>3, <2>1, OriginalsStep DEF Sound, Kept
  <2>3. Traced'
    BY <2>2, AsideStep DEF Keep, LInv
  <2>4. Intended'
    BY <1>1, <2>2, NothingNew, StillPreparing DEF Keep, AfterKeep, Goto
  <2> QED
    BY <2>3, <2>4 DEF LInv
<1> QED
  BY <1>1, <1>2, <1>3

\* The stages change, before the journal.
LEMMA StagesLineage ==
  ASSUME Sound, LInv, made \in SUBSET Derivatives, Witness, RemoveOrphan \/ CleanDone \/ Stage
  PROVE  LInv'
<1>1. /\ pc \in {"clean", "abandon", "stage"} /\ touched' = touched
      /\ \/ pc \in {"clean", "stage"} /\ pc' \in {"clean", "stage", "journal"} /\ tx' = tx
         \/ pc' \in {"idle", "abandon"}
  BY DEF RemoveOrphan, CleanDone, Stage, AfterStage, Goto, EndOp, runVars
<1>2. /\ fs'.files = fs.files /\ fs'.kept = fs.kept
      /\ fs'.manifest = fs.manifest /\ durable'.manifest = durable.manifest
      /\ fs'.journal = fs.journal   /\ durable'.journal = durable.journal
  <2>1. CASE RemoveOrphan
    <3>1. PICK e \in fs.stages : Staging([fs EXCEPT !.stages = fs.stages \ {e}])
      BY <2>1 DEF RemoveOrphan, Unstaged
    <3>2. fs.stages \ {e} \in SUBSET Effects
      BY Parts DEF Sound, FilesOK
    <3> QED
      BY <3>1, <3>2, StagingStep DEF Sound
  <2>2. CASE Stage
    <3>1. PICK e \in First(todo) : Staging([fs EXCEPT !.stages = fs.stages \cup {e}])
      BY <2>2 DEF Stage, Staged
    <3>2. fs.stages \cup {e} \in SUBSET Effects
      BY <2>2, <3>1, Parts DEF Stage, First, Sound, FilesOK, RunOK
    <3> QED
      BY <3>1, <3>2, StagingStep DEF Sound
  <2>3. CASE CleanDone
    BY <2>3 DEF CleanDone
  <2> QED
    BY <2>1, <2>2, <2>3
<1>3. Traced'
  BY <1>1, <1>2, AsideStep DEF LInv
<1>4. made' \subseteq made
  BY <1>1, NothingNew
<1>5. Intended'
  BY <1>1, <1>2, <1>4, StillPreparing, NothingIntended
<1> QED
  BY <1>3, <1>5 DEF LInv

LEMMA JournalLineage ==
  ASSUME Sound, LInv, made \in SUBSET Derivatives, Witness, WriteJournal
  PROVE  LInv'
<1> USE DEF WriteJournal
<1>1. tx \in Transactions
  BY Fitting
<1>2. /\ Journalled \in FileSystems /\ Journalled.files = fs.files
      /\ Journalled.manifest = fs.manifest /\ Journalled.journal = tx
      /\ Journalled.stages = fs.stages /\ Journalled.kept = fs.kept
  BY <1>1, ChangesJournal DEF Journalled, Sound, FilesOK
<1>3. /\ fs'.files = fs.files /\ fs'.kept = fs.kept
      /\ fs'.manifest = fs.manifest /\ durable'.manifest = fs.manifest
      /\ fs'.journal = tx           /\ durable'.journal = tx
  BY <1>2, ControlStep DEF Sound
<1>4. Traced'
  BY <1>3, TracedJournal
<1>5. /\ pc' \in {"publish", "manifest"} /\ tx' = tx /\ todo' = tx.add
      /\ pc' = "manifest" => tx.add = {}
  BY DEF AfterPublish, Goto
<1>6. Intended'
  BY <1>5 DEF Intended, Preparing, Held, Arrived
<1> QED
  BY <1>4, <1>6 DEF LInv

\* What stands in the way of a derivative's name is ahead of the publication.
LEMMA StillHeld ==
  ASSUME Sound, LInv, made' \subseteq made, tx' = tx, pc \in {"publish", "unstage"},
         NEW e, e \in todo, AfterPublish(todo \ {e}),
         \A d \in made : ~Clashes(e, d)
  PROVE  Intended'
<1>1. /\ pc' \in {"publish", "manifest"} /\ todo' = todo \ {e}
      /\ pc' = "manifest" => todo \ {e} = {}
  BY DEF AfterPublish, Goto
<1>2. \A d \in made, f \in tx.add : Clashes(f, d) => f \in todo \ {e}
  BY DEF LInv, Intended, Held
<1> QED
  BY <1>1, <1>2 DEF Intended, Preparing, Held, Arrived

LEMMA PublishLineage ==
  ASSUME Sound, LInv, made \in SUBSET Derivatives, Witness, Publish
  PROVE  LInv'
<1> USE DEF Publish
<1>1. PICK e \in First(todo) : Absent(e) /\ Folder(Published(e))
  OBVIOUS
<1>2. e \in tx.add /\ e \in todo /\ e \in Effects
  BY Running DEF First, Sound, Phased, Publishing
<1>3. /\ fs'.files = [fs.files EXCEPT ![e.name] = e.digest] /\ fs'.kept = fs.kept
      /\ fs'.manifest = fs.manifest /\ durable'.manifest = durable.manifest
      /\ fs'.journal = fs.journal   /\ durable'.journal = durable.journal
  BY <1>1, <1>2, EffectParts, FolderStep DEF Sound, Published
<1>4. Traced'
  BY <1>1, <1>2, <1>3, TracedPublish DEF LInv
<1>5. \A f \in First(todo) : f.name = e.name
  <2> SUFFICES ASSUME NEW f \in First(todo)
               PROVE  f.name = e.name
    OBVIOUS
  <2>1. f \in Effects /\ f.name <= e.name /\ e.name <= f.name
    BY <1>2, Running DEF First, Sound, Phased, Publishing
  <2>2. f.name \in Nat /\ e.name \in Nat
    BY <1>2, <2>1, EffectParts, NamesAreOrdered
  <2> QED
    BY <2>1, <2>2
<1>6. ASSUME NEW d \in made', NEW f \in tx.add, Clashes(f, d)
      PROVE  f \in todo /\ f \notin First(todo)
  <2>1. d \in made /\ d \in Derivatives /\ fs.files[d.name] = d.digest
    BY NothingNew DEF LInv, Traced, InPlace
  <2>2. d.name # e.name
    BY <1>1, <2>1, DerivativeParts DEF Absent
  <2>3. f \in todo
    BY <1>6, <2>1 DEF LInv, Intended, Held
  <2> QED
    BY <1>5, <1>6, <2>2, <2>3 DEF Clashes
<1>7. Intended'
  BY <1>6 DEF Goto, Intended, Preparing, Held, Arrived, First
<1> QED
  BY <1>4, <1>7 DEF LInv

LEMMA UnstageLineage ==
  ASSUME Sound, LInv, made \in SUBSET Derivatives, Witness, AlreadyPublished \/ Unstage
  PROVE  LInv'
<1>1. /\ pc \in {"publish", "unstage"} /\ tx' = tx /\ touched' = touched
      /\ made' \subseteq made
  BY NothingNew DEF AlreadyPublished, Unstage
<1>2. PICK e \in First(todo) :
        /\ AfterPublish(todo \ {e})
        /\ UNCHANGED <<fs, durable>> \/ Staging(Unstaged(e))
        /\ pc = "publish" => Matches(e)
  BY DEF AlreadyPublished, Unstage
<1>3. /\ fs'.files = fs.files /\ fs'.kept = fs.kept
      /\ fs'.manifest = fs.manifest /\ durable'.manifest = durable.manifest
      /\ fs'.journal = fs.journal   /\ durable'.journal = durable.journal
  <2>1. CASE Staging(Unstaged(e))
    <3>1. fs.stages \ {e} \in SUBSET Effects
      BY Parts DEF Sound, FilesOK
    <3> QED
      BY <2>1, <3>1, StagingStep DEF Sound, Unstaged
  <2> QED
    BY <1>2, <2>1
<1>4. Traced'
  BY <1>1, <1>3, AsideStep DEF LInv
<1>5. e \in todo /\ e \in tx.add
  BY <1>1 DEF First, Sound, Phased, Publishing
<1>6. \A d \in made : ~Clashes(e, d)
  <2> SUFFICES ASSUME NEW d \in made, Clashes(e, d)
               PROVE  FALSE
    OBVIOUS
  <2>1. CASE pc = "publish"
    BY <1>2, <2>1 DEF Matches, Clashes, LInv, Traced, InPlace
  <2>2. CASE pc = "unstage"
    BY <1>5, <2>2 DEF LInv, Intended, Held
  <2> QED
    BY <1>1, <2>1, <2>2
<1>7. Intended'
  BY <1>1, <1>2, <1>5, <1>6, StillHeld
<1> QED
  BY <1>4, <1>7 DEF LInv

LEMMA ManifestLineage ==
  ASSUME Sound, LInv, made \in SUBSET Derivatives, Witness, WriteManifest
  PROVE  LInv'
<1> USE DEF WriteManifest
<1>1. fs.journal = tx /\ tx.next \in Collections /\ Good(tx)
  BY Running
<1>2. /\ Recorded \in FileSystems /\ Recorded.files = fs.files
      /\ Recorded.manifest = tx.next /\ Recorded.journal = tx
      /\ Recorded.stages = fs.stages /\ Recorded.kept = fs.kept
  BY <1>1, ChangesManifest DEF Recorded, Sound, FilesOK
<1>3. /\ fs'.files = fs.files /\ fs'.kept = fs.kept /\ fs' = Recorded
      /\ fs'.manifest = tx.next     /\ durable'.manifest = tx.next
      /\ fs'.journal = fs.journal   /\ durable'.journal = durable.journal
  BY <1>1, <1>2, ControlStep, Running DEF Sound, Control
<1>4. Traced' /\ \A d \in made' : Follows(tx.next, d, fs'.files, touched')
  BY <1>3, TracedRecorded
<1>5. pc' \in {"delete", "finish"} /\ tx' = tx
  BY DEF AfterDelete, Goto
<1>6. \A d \in made', e \in tx.add : ~Clashes(e, d)
  <2> SUFFICES ASSUME NEW d \in made', NEW e \in tx.add, Clashes(e, d)
               PROVE  FALSE
    OBVIOUS
  <2>1. d \in made \/ New(d)
    BY Witnessed
  <2>2. ~ New(d)
    BY <1>1 DEF Clashes, New, RecordAt, Good
  <2> QED
    BY <2>1, <2>2 DEF LInv, Intended, Held
<1>7. Intended'
  BY <1>4, <1>5, <1>6 DEF Intended, Preparing, Held, Arrived
<1> QED
  BY <1>4, <1>7 DEF LInv

LEMMA DeleteLineage ==
  ASSUME Sound, LInv, made \in SUBSET Derivatives, Witness, Delete
  PROVE  LInv'
<1> USE DEF Delete
<1>1. pc' \in {"delete", "finish"} /\ tx' = tx /\ made' \subseteq made
  BY NothingNew DEF AfterDelete, Goto
<1>2. PICK e \in First(todo) : \/ Folder(Deleted(e))
                               \/ UNCHANGED <<fs, durable>>
  OBVIOUS
<1>3. e \in tx.del /\ e \in Effects
  BY Running DEF First, Sound, Phased, Settled
<1>4. Traced' /\ \A d \in made' : Follows(tx.next, d, fs'.files, touched')
  <2>1. CASE Folder(Deleted(e))
    <3>1. /\ fs'.files = [fs.files EXCEPT ![e.name] = None] /\ fs'.kept = fs.kept
          /\ fs'.manifest = fs.manifest /\ durable'.manifest = durable.manifest
          /\ fs'.journal = fs.journal   /\ durable'.journal = durable.journal
      BY <1>3, <2>1, EffectParts, FolderStep DEF Sound, Deleted
    <3> QED
      BY <1>3, <3>1, TracedDelete
  <2>2. CASE UNCHANGED <<fs, durable>>
    <3>1. Traced'
      BY <2>2, AsideStep DEF LInv
    <3>2. \A d \in made : Follows(tx.next, d, fs.files, touched)
      BY DEF LInv, Intended, Arrived
    <3> QED
      BY <1>1, <2>2, <3>1, <3>2
  <2> QED
    BY <1>2, <2>1, <2>2
<1>5. \A d \in made', e1 \in tx.add : ~Clashes(e1, d)
  BY <1>1 DEF LInv, Intended, Held
<1>6. Intended'
  BY <1>1, <1>4, <1>5 DEF Intended, Preparing, Held, Arrived
<1> QED
  BY <1>4, <1>6 DEF LInv

LEMMA FinishLineage ==
  ASSUME Sound, LInv, made \in SUBSET Derivatives, Witness, Finish
  PROVE  LInv'
<1> USE DEF Finish
<1>1. fs.manifest = tx.next
  BY DEF Sound, Phased, Settled
<1>2. /\ Finished \in FileSystems /\ Finished.files = fs.files
      /\ Finished.manifest = fs.manifest /\ Finished.journal = None
      /\ Finished.stages = fs.stages /\ Finished.kept = fs.kept
  BY ChangesJournal DEF Finished, Sound, FilesOK
<1>3. /\ fs'.files = fs.files /\ fs'.kept = fs.kept
      /\ fs'.manifest = tx.next /\ durable'.manifest = tx.next
      /\ fs'.journal = None     /\ durable'.journal = None
  BY <1>1, <1>2, ControlStep DEF Sound
<1>4. Traced'
  BY <1>3, TracedFinish
<1>5. Intended'
  BY NothingIntended DEF Goto, EndOp
<1> QED
  BY <1>4, <1>5 DEF LInv

LEMMA CollectLineage ==
  ASSUME Sound, LInv, made \in SUBSET Derivatives, Witness, Verify \/ Collect
  PROVE  LInv'
<1>1. Intended'
  BY NothingIntended DEF Verify, Collect, Goto, EndOp
<1>2. CASE UNCHANGED <<fs, durable>>
  <2>1. Traced'
    BY <1>2, AsideStep DEF Verify, Collect, LInv
  <2> QED
    BY <1>1, <2>1 DEF LInv
<1>3. CASE Collect /\ ~UNCHANGED <<fs, durable>>
  <2>1. PICK o \in todo : Originals(Discarded(o))
    BY <1>3 DEF Collect
  <2>2. fs.kept \ {o} \in SUBSET Digests
    BY Parts DEF Sound, FilesOK
  <2>3. /\ fs'.files = fs.files       /\ durable'.files = durable.files
        /\ fs'.manifest = fs.manifest /\ durable'.manifest = durable.manifest
        /\ fs'.journal = fs.journal   /\ durable'.journal = durable.journal
        /\ fs'.kept = fs.kept \ {o}
    BY <2>1, <2>2, OriginalsStep DEF Sound, Discarded
  <2>4. Traced'
    BY <1>3, <2>3, TracedDiscard DEF Collect
  <2> QED
    BY <1>1, <2>4 DEF LInv
<1> QED
  BY <1>2, <1>3 DEF Verify

\* A step that was not confirmed, but for the two kinds excluded.
LEMMA UnconfirmedTraced ==
  ASSUME Confirmed, Sound, LInv, made \in SUBSET Derivatives, Witness,
         pc # "idle", Unconfirmed, fs' \in Attempts, UNCHANGED <<durable, touched>>
  PROVE  Traced'
<1>1. pc \in {"clean", "abandon", "stage", "unstage", "manifest", "finish", "collect"}
  BY DEF Confirmed, Unconfirmed, Disturbed, Attempts, Sound, RunOK, Phases
<1>2. fs \in FileSystems /\ durable' = durable /\ touched' = touched
  BY DEF Sound, FilesOK
<1>3. CASE pc \in {"clean", "abandon", "stage", "unstage"}
  <2>1. PICK new \in SUBSET Effects : fs' = [fs EXCEPT !.stages = new]
    <3>1. fs.stages \subseteq Effects /\ (pc = "stage" => todo \subseteq Effects)
      BY <1>2, Parts DEF Sound, RunOK
    <3>2. \A e : fs.stages \ {e} \in SUBSET Effects
      BY <3>1
    <3>3. pc = "stage" => \A e \in First(todo) : fs.stages \cup {e} \in SUBSET Effects
      BY <3>1 DEF First
    <3>4. \/ \E e : fs' = [fs EXCEPT !.stages = fs.stages \ {e}]
          \/ pc = "stage" /\ \E e \in First(todo) : fs' = [fs EXCEPT !.stages = fs.stages \cup {e}]
      BY <1>3 DEF Attempts, Unstaged, Staged
    <3> QED
      BY <3>2, <3>3, <3>4
  <2>2. /\ fs'.files = fs.files /\ fs'.manifest = fs.manifest
        /\ fs'.journal = fs.journal /\ fs'.kept = fs.kept
    BY <1>2, <2>1, ChangesStages
  <2> QED
    BY <1>2, <2>2, AsideStep DEF LInv
<1>4. CASE pc = "manifest"
  <2>1. fs' = Recorded
    BY <1>4 DEF Attempts
  <2>2. tx.next \in Collections
    BY <1>4, Running
  <2>3. /\ fs'.files = fs.files /\ fs'.manifest = tx.next
        /\ fs'.journal = fs.journal /\ fs'.kept = fs.kept
    BY <1>2, <2>1, <2>2, ChangesManifest DEF Recorded
  <2> QED
    BY <1>2, <1>4, <2>1, <2>3, TracedRecorded
<1>5. CASE pc = "finish"
  <2>1. fs' = Finished /\ fs.manifest = tx.next /\ durable.manifest = tx.next
    BY <1>5 DEF Attempts, Sound, Phased, Settled
  <2>2. /\ fs'.files = fs.files /\ fs'.manifest = fs.manifest
        /\ fs'.journal = None /\ fs'.kept = fs.kept
    BY <1>2, <2>1, ChangesJournal DEF Finished
  <2> QED
    BY <1>2, <1>5, <2>1, <2>2, TracedFinish
<1>6. CASE pc = "collect"
  <2>1. PICK o \in todo : fs' = Discarded(o)
    BY <1>6 DEF Attempts
  <2>2. fs.kept \ {o} \in SUBSET Digests
    BY <1>2, Parts
  <2>3. /\ fs'.files = fs.files /\ fs'.manifest = fs.manifest
        /\ fs'.journal = fs.journal /\ fs'.kept = fs.kept \ {o}
    BY <1>2, <2>1, <2>2, ChangesKept DEF Discarded
  <2> QED
    BY <1>2, <1>6, <2>3, TracedDiscard
<1> QED
  BY <1>1, <1>3, <1>4, <1>5, <1>6

LEMMA FailsLineage ==
  ASSUME Confirmed, Sound, LInv, made \in SUBSET Derivatives, Witness, Fails
  PROVE  LInv'
<1>1. Intended'
  BY NothingIntended DEF Fails, Goto, EndOp
<1>2. CASE UNCHANGED fs
  BY <1>1, <1>2, AsideStep DEF Fails, LInv
<1>3. CASE Unconfirmed /\ fs' \in Attempts
  BY <1>1, <1>3, UnconfirmedTraced DEF Fails, LInv
<1> QED
  BY <1>2, <1>3 DEF Fails

LEMMA PowerLineage ==
  ASSUME Sound, LInv, made \in SUBSET Derivatives, Witness, PowerLoss
  PROVE  LInv'
<1>1. /\ fs'.files \in {fs.files, durable.files} /\ fs'.manifest \in {fs.manifest, durable.manifest}
      /\ fs'.journal \in {fs.journal, durable.journal} /\ fs'.kept \in {fs.kept, durable.kept}
      /\ durable' = fs' /\ touched' = touched
  BY DEF PowerLoss
<1>2. durable.files = fs.files /\ fs.kept \subseteq durable.kept
  BY DEF Sound, Filed, Synced
<1>3. Traced'
  BY <1>1, <1>2, TracedBeside DEF LInv
<1> QED
  BY <1>3, EndIntendsNothing DEF PowerLoss, LInv

\* Every step leaves the trace of every derivative.
LEMMA NextLineage ==
  ASSUME Traceable, Sound, LInv, made \in SUBSET Derivatives, [Next]_vars
  PROVE  LInv'
<1>1. CASE RunStep /\ Witness
  <2>1. CASE KeepRefused \/ PublishRefused \/ DeleteRefused
    BY <1>1, <2>1, RefusedLineage DEF KeepRefused, PublishRefused, DeleteRefused
  <2> QED
    BY <1>1, <2>1, BeginLineage, PlanLineage, KeepLineage, StagesLineage, JournalLineage,
       PublishLineage, UnstageLineage, ManifestLineage, DeleteLineage, FinishLineage,
       CollectLineage DEF RunStep
<1>2. CASE Fails /\ Witness
  BY <1>2, FailsLineage DEF Traceable
<1>3. CASE Stop /\ Witness
  BY <1>3, RefusedLineage DEF Stop
<1>4. CASE UNCHANGED vars
  <2>1. Traced'
    BY <1>4 DEF vars, LInv, Traced, InPlace, Backing, OnRecord, InFolder, Linked, Committing, Fresh, Refers
  <2>2. Intended'
    BY <1>4 DEF vars, runVars, LInv, Intended, Preparing, Held, Arrived, Fresh, First
  <2> QED
    BY <2>1, <2>2 DEF LInv
<1> QED
  BY <1>1, <1>2, <1>3, <1>4, PowerLineage, OwnerActsTraced, OwnerRenamesTraced DEF Next

\* A derivative whose trace is not lost has an original.
LEMMA TraceKept ==
  ASSUME Traced, made \in SUBSET Derivatives
  PROVE  LineageKept
<1> SUFFICES ASSUME NEW d \in made, d.orig \notin fs.kept
             PROVE  /\ fs.manifest[d.name] # None /\ fs.manifest[d.name].digest = d.digest
                    /\ fs.manifest[d.name].orig \in fs.kept
  BY DEF LineageKept
<1>1. d.name \in Names /\ Stands(fs.manifest, d)
  BY DerivativeParts DEF Traced, Linked
<1> QED
  BY <1>1 DEF Stands, Traced, Backing, Refers

\* While a derivative stays in the folder, its original is kept, or the one its
\* bytes are recorded with: through interrupted transactions, power losses and
\* the collection of originals, and under any name the owner gives it.
THEOREM LineageStays == Traceable => (Spec => []LineageKept)
<1> SUFFICES ASSUME Traceable
             PROVE  Spec => []LineageKept
  OBVIOUS
<1>1. Init => LInv
  <2> SUFFICES ASSUME Init
               PROVE  LInv
    OBVIOUS
  <2>1. \A n \in Names : fs.manifest[n] = None /\ durable.manifest[n] = None
    BY ChangesFiles DEF Init, Nothing, FileSystems, Empty, Collections
  <2>2. fs.journal = None /\ durable.journal = None
    BY DEF Init, Nothing
  <2>3. Traced
    BY <2>1, <2>2 DEF Init, Traced, InPlace, Backing, Refers, OnRecord, Linked, Committing
  <2> QED
    BY <2>3 DEF Init, LInv, Intended, Preparing, Held, Arrived
<1>2. IInv /\ LInv /\ [Next]_vars => LInv'
  <2> SUFFICES ASSUME IInv, LInv, [Next]_vars
               PROVE  LInv'
    OBVIOUS
  <2>1. Sound /\ made \in SUBSET Derivatives
    BY SoundIs DEF IInv
  <2> QED
    BY <2>1, NextLineage
<1>3. IInv /\ LInv => LineageKept
  BY SoundIs, TraceKept DEF IInv, LInv
<1>4. Spec => []IInv
  BY Inductive DEF Traceable
<1> QED
  BY <1>1, <1>2, <1>3, <1>4, PTL DEF Spec
=============================================================================
