--------------------------- MODULE DurableFilesProofs ---------------------------
(***************************************************************************)
(* Proofs about DurableFiles: what was reported as written survives a power *)
(* loss, nobody's file is overwritten, reads are whole, and a control file  *)
(* is an AtomicFile.                                                        *)
(***************************************************************************)
EXTENDS DurableFiles, TLAPS

-----------------------------------------------------------------------------
(* The inductive invariant.                                                *)

Dirs == [Names -> Inodes \cup {None}]

ReaderOK ==
  /\ reader \in [at : {"idle", "open", "first", "second", "again", "read"},
                 name : {"path", "other"},
                 before : [inode : Inodes \cup {None}, stamp : Nat],
                 inode : Inodes \cup {None},
                 halves : [1..2 -> Contents \cup {None}]]
  /\ reader.at \in {"open", "first", "second", "again"} => reader.before.inode # None

\* Which call is at which system call.
Stages ==
  /\ op.kind \in {"replace", "create"} <=> op.v # None
  /\ pc # "idle" => op.kind # "none"
  /\ pc \in {"temp", "write", "fsync"} => op.v # None
  /\ pc = "sync" => op.kind = "move"
  /\ pc = "unlink" => op.kind \in {"create", "move"}

\* The file being written is under no name anybody uses.
OutOfSight ==
  pc \in {"write", "fsync"} \/ (pc = "publish" /\ op.v # None) =>
    /\ names["temp"] # None
    /\ \A d \in disks : names["temp"] \notin {d["path"], d["other"]}
    /\ names["temp"] \notin {reader.inode, reader.before.inode}

Whole(i, v) == i # None /\ file[i].now = v /\ file[i].kept = v

\* What the call has achieved.
Progress ==
  /\ pc = "fsync" => file[names["temp"]].now = op.v
  /\ pc = "publish" /\ op.v # None => Whole(names["temp"], op.v)
  /\ pc \in {"unlink", "confirm"} /\ op.v # None => Whole(names["path"], op.v)
  /\ op.kind = "move" /\ pc = "sync" => names["path"] # None /\ names["other"] = names["path"]
  /\ op.kind = "move" /\ pc = "unlink" =>
       disks = {names} /\ names["path"] # None /\ names["other"] = names["path"]
  /\ op.kind = "rename" /\ pc = "publish" => names["path"] # None /\ names["other"] # names["path"]
  /\ op.kind = "rename" /\ pc = "publish" /\ promised # None => Whole(names["path"], promised)

\* A file under the control file's name, now or after a power loss, is whole.
PathWhole == \A d \in disks : d["path"] # None =>
  file[d["path"]].now \in Versions /\ file[d["path"]].kept = file[d["path"]].now

Safe(v) == v # None => \A d \in disks : \E n \in {"path", "other"} : Whole(d[n], v)

\* The promise given, and the one a call will give back if it fails.
Promises ==
  /\ Safe(promised)
  /\ op.kind \in {"create", "move", "rename"} => op.was = promised
  /\ op.kind \in {"replace", "remove"} => promised = None
  /\ op.kind = "replace" /\ pc \in {"temp", "write", "fsync", "publish"} => Safe(op.was)

\* The halves read are of one content unless the stamp has moved on.
HalvesAgree ==
  /\ reader.at \in {"first", "second", "again"} =>
       /\ reader.inode = reader.before.inode
       /\ reader.before.stamp <= file[reader.inode].stamp
  /\ reader.at \in {"second", "again"} /\ file[reader.inode].stamp = reader.before.stamp =>
       reader.halves[1] = file[reader.inode].now
  /\ reader.at = "again" /\ file[reader.inode].stamp = reader.before.stamp =>
       reader.halves[2] = file[reader.inode].now

IInv == TypeOK /\ ReaderOK /\ Stages /\ OutOfSight /\ Progress /\ PathWhole /\ Promises
        /\ HalvesAgree /\ ReadsAreWhole

-----------------------------------------------------------------------------
(* Changes of directories.                                                 *)

\* What a change of the names in ns makes of the directory and of those a power
\* loss may leave.
Altered(ns) ==
  /\ names' \in Dirs /\ disks' \subseteq Dirs /\ names' \in disks' /\ disks \subseteq disks'
  /\ \A n \in Names \ ns : names'[n] = names[n]
  /\ \A e \in disks' \ disks : \E d \in disks :
       /\ \A n \in Names : names'[n] # names[n] => d[n] = names[n] /\ e[n] = names'[n]
       /\ \A n \in Names : names'[n] = names[n] => e[n] = d[n]

LEMMA Changes ==
  ASSUME TypeOK, NEW new \in Dirs, NEW ns, \A n \in Names \ ns : new[n] = names[n], Change(new)
  PROVE  Altered(ns) /\ names' = new
<1>1. names \in Dirs /\ disks \subseteq Dirs /\ names \in disks
  BY DEF TypeOK, Dirs
<1> DEFINE ready == {d \in disks : \A n \in Names : new[n] # names[n] => d[n] = names[n]}
<1>2. names' = new /\ disks' = disks \cup {Follows(d, new) : d \in ready}
  BY DEF Change
<1>3. \A d \in Dirs : Follows(d, new) \in Dirs
  BY DEF Follows, Dirs
<1>4. \A d \in Dirs : \A n \in Names :
        Follows(d, new)[n] = IF new[n] = names[n] THEN d[n] ELSE new[n]
  BY DEF Follows
<1>5. Follows(names, new) = new
  BY <1>1 DEF Follows, Dirs
<1>6. names \in ready
  BY <1>1
<1>7. \A e \in disks' \ disks : \E d \in ready : e = Follows(d, new)
  BY <1>2
<1>8. ready \subseteq disks /\ \A d \in ready : \A n \in Names : new[n] # names[n] => d[n] = names[n]
  OBVIOUS
<1>9. new \in disks'
  BY <1>2, <1>5, <1>6
<1> HIDE DEF ready
<1>10. disks' \subseteq Dirs
  BY <1>1, <1>3, <1>7, <1>8
<1>11. \A e \in disks' \ disks : \E d \in disks :
         /\ \A n \in Names : new[n] # names[n] => d[n] = names[n] /\ e[n] = new[n]
         /\ \A n \in Names : new[n] = names[n] => e[n] = d[n]
  BY <1>1, <1>4, <1>7, <1>8
<1> QED
  BY <1>2, <1>9, <1>10, <1>11 DEF Altered

\* Nothing but the temporary name changed.
OnlyTemp ==
  /\ names' \in Dirs /\ disks' \subseteq Dirs /\ names' \in disks' /\ disks \subseteq disks'
  /\ \A n \in {"path", "other"} : names'[n] = names[n]
  /\ \A e \in disks' : \E d \in disks : \A n \in {"path", "other"} : e[n] = d[n]

LEMMA TempAltered == ASSUME TypeOK, Altered({"temp"}) PROVE OnlyTemp
  BY DEF Altered, OnlyTemp, Names, TypeOK, Dirs

LEMMA SameNames == ASSUME TypeOK, Same PROVE OnlyTemp
  BY DEF Same, OnlyTemp, TypeOK, Dirs

LEMMA Entered ==
  ASSUME TypeOK, NEW n \in Names, NEW i \in Inodes, Enter(n, i)
  PROVE  Altered({n}) /\ names' = [names EXCEPT ![n] = i]
  BY Changes DEF Enter, TypeOK, Dirs

LEMMA Unlinked ==
  ASSUME TypeOK, NEW n \in Names, Unlink(n)
  PROVE  Altered({n}) /\ names' = [names EXCEPT ![n] = None]
  BY Changes DEF Unlink, TypeOK, Dirs

LEMMA Linked ==
  ASSUME TypeOK, NEW n \in Names, NEW m \in Names, Link(n, m)
  PROVE  Altered({m}) /\ names' = [names EXCEPT ![m] = names[n]]
  BY Changes DEF Link, TypeOK, Dirs

LEMMA Renamed ==
  ASSUME TypeOK, NEW n \in Names, NEW m \in Names, Rename(n, m)
  PROVE  Altered({n, m}) /\ names' = [names EXCEPT ![m] = names[n], ![n] = None]
<1> DEFINE new == [names EXCEPT ![m] = names[n], ![n] = None]
<1>1. new \in Dirs /\ \A k \in Names \ {n, m} : new[k] = names[k]
  BY DEF TypeOK, Dirs
<1>2. Change(new)
  BY DEF Rename
<1> HIDE DEF new
<1>3. Altered({n, m}) /\ names' = new
  BY <1>1, <1>2, Changes
<1> QED BY <1>3 DEF new

LEMMA UnlinkTemp == ASSUME TypeOK, Unlink("temp") PROVE OnlyTemp
  BY Unlinked, TempAltered DEF Names

-----------------------------------------------------------------------------
(* How a call ends without having changed a name anybody uses.             *)

SafeAfter(v) == v # None => \A d \in disks' : \E n \in {"path", "other"} :
  d[n] # None /\ file'[d[n]].now = v /\ file'[d[n]].kept = v

\* The files in sight, now or after a power loss, are what they were.
SteadySight == \A d \in disks : \A n \in {"path", "other"} :
  d[n] # None => file'[d[n]] = file[d[n]]

LEMMA PathKept == ASSUME PathWhole, OnlyTemp, SteadySight PROVE PathWhole'
  BY DEF PathWhole, OnlyTemp, SteadySight

LEMMA SafeKept == ASSUME NEW v, Safe(v), OnlyTemp, SteadySight PROVE SafeAfter(v)
  BY DEF Safe, Whole, SafeAfter, OnlyTemp, SteadySight

LEMMA Steady == ASSUME TypeOK, file' = file PROVE SteadySight
  BY DEF SteadySight

LEMMA BudgetKept == ASSUME TypeOK, Calm \/ \E h \in {"fail", "cancel", "owner", "edit", "power"} : Hazard(h)
                    PROVE  budget' \in 0..Budget /\ left' \in 0..MaxCalls
  BY FilesBounds DEF TypeOK, Calm, Hazard

LEMMA DirsKept == ASSUME OnlyTemp PROVE disks' \subseteq [Names -> Inodes \cup {None}] /\ names' \in disks'
  BY DEF OnlyTemp, Dirs

LEMMA Ends ==
  ASSUME IInv, NEW r \in {"failed", "exists", "unknown"}, Returns(r), pc # "idle",
         r \in {"failed", "exists"} =>
           /\ op.kind # "remove"
           /\ op.kind = "replace" => pc \in {"temp", "write", "fsync", "publish"},
         OnlyTemp, UNCHANGED <<file, reader>>,
         budget' \in 0..Budget, left' \in 0..MaxCalls
  PROVE  IInv'
<1> USE DEF IInv
<1>1. op' = NoOp /\ pc' = "idle" /\ result' = r
  BY DEF Returns
<1>2. promised' = IF r = "unknown" THEN promised ELSE op.was
  BY DEF Returns
<1>3. Safe(promised) /\ Safe(promised')
  <2>1. CASE r = "unknown"
    BY <1>2, <2>1 DEF Promises
  <2>2. CASE r # "unknown"
    <3>1. op.kind \in {"create", "move", "rename", "replace"}
      BY <2>2 DEF TypeOK, Kinds, Stages
    <3>2. CASE op.kind = "replace"
      BY <1>2, <2>2, <3>2 DEF Promises
    <3>3. CASE op.kind # "replace"
      BY <1>2, <2>2, <3>1, <3>3 DEF Promises
    <3> QED BY <3>2, <3>3
  <2> QED BY <2>1, <2>2
<1>4. SafeAfter(promised')
  BY <1>3, SafeKept, Steady
<1>5. TypeOK'
  <2>1. promised' \in Versions \cup {None}
    BY <1>2 DEF TypeOK
  <2>2. NoOp \in [kind : Kinds \cup {"none"}, v : Versions \cup {None}, was : Versions \cup {None}]
    BY DEF NoOp
  <2> QED BY <1>1, <2>1, <2>2, DirsKept DEF TypeOK
<1>6. ReaderOK' /\ ReadsAreWhole'
  BY DEF ReaderOK, ReadsAreWhole
<1>7. Stages' /\ OutOfSight' /\ Progress'
  BY <1>1 DEF Stages, OutOfSight, Progress, NoOp
<1>8. PathWhole'
  BY PathKept, Steady
<1>9. Promises'
  BY <1>1, <1>4 DEF Promises, Safe, Whole, SafeAfter, NoOp
<1>10. HalvesAgree'
  BY DEF HalvesAgree
<1> QED BY <1>5, <1>6, <1>7, <1>8, <1>9, <1>10

-----------------------------------------------------------------------------
(* The steps of a call.                                                    *)

LEMMA BeginKeeps == ASSUME IInv, Begin PROVE IInv'
<1> USE DEF IInv
<1>1. PICK kind \in Kinds, v \in Versions \cup {None} :
        /\ pc = "idle" /\ left > 0 /\ left' = left - 1
        /\ kind \in {"replace", "create"} <=> v # None
        /\ kind \in {"move", "rename", "remove"} => names["path"] # None
        /\ kind = "rename" => names["other"] = None
        /\ op' = [kind |-> kind, v |-> v, was |-> promised]
        /\ pc' = IF v # None THEN "temp" ELSE "publish"
        /\ promised' = IF kind \in {"replace", "remove"} THEN None ELSE promised
        /\ UNCHANGED <<names, disks, file, result, reader, budget>>
  BY DEF Begin
<1>2. op'.kind = kind /\ op'.v = v /\ op'.was = promised
  BY <1>1
<1>3. op' \in [kind : Kinds \cup {"none"}, v : Versions \cup {None}, was : Versions \cup {None}]
  BY <1>1 DEF TypeOK
<1>4. op' # NoOp /\ pc' # "idle"
  BY <1>1, <1>2 DEF NoOp, Kinds
<1>5. left' \in 0..MaxCalls
  BY <1>1, FilesBounds DEF TypeOK
<1>6. TypeOK'
  BY <1>1, <1>3, <1>4, <1>5 DEF TypeOK
<1>7. Stages' /\ OutOfSight'
  BY <1>1, <1>2 DEF Stages, OutOfSight, Kinds
<1>8. Progress'
  <2>1. kind = "rename" /\ promised # None => Whole(names["path"], promised)
    <3> SUFFICES ASSUME kind = "rename", promised # None PROVE Whole(names["path"], promised)
      OBVIOUS
    <3>1. \E n \in {"path", "other"} : Whole(names[n], promised)
      BY DEF Promises, Safe, TypeOK
    <3> QED BY <1>1, <3>1 DEF Whole
  <2> QED BY <1>1, <1>2, <2>1 DEF Progress, Whole
<1>9. Promises'
  BY <1>1, <1>2 DEF Promises, Safe, Whole, Kinds
<1>10. ReaderOK' /\ ReadsAreWhole' /\ HalvesAgree' /\ PathWhole'
  BY <1>1 DEF ReaderOK, ReadsAreWhole, HalvesAgree, PathWhole
<1> QED BY <1>6, <1>7, <1>8, <1>9, <1>10

LEMMA FreeUnused ==
  ASSUME TypeOK, NEW i \in Free
  PROVE  /\ i \in Inodes /\ i # None
         /\ \A d \in disks : \A n \in Names : d[n] # i
         /\ i \notin {reader.inode, reader.before.inode}
  BY FilesConfig DEF Free, Used

LEMMA CreateTempKeeps == ASSUME IInv, CreateTemp PROVE IInv'
<1> USE DEF IInv
<1>1. CASE Hazard("fail") /\ Returns("failed") /\ UNCHANGED <<names, disks, file>>
  <2>1. pc = "temp" /\ UNCHANGED reader /\ OnlyTemp
    BY <1>1, SameNames DEF CreateTemp, Same
  <2> QED BY <1>1, <2>1, Ends, BudgetKept DEF Stages
<1>2. CASE \E i \in Free :
          /\ Calm /\ Enter("temp", i) /\ Goes("write")
          /\ file' = [file EXCEPT ![i] = [now |-> Partial, kept |-> Partial, stamp |-> 0]]
  <2>1. PICK i \in Free :
          /\ Calm /\ Enter("temp", i) /\ Goes("write")
          /\ file' = [file EXCEPT ![i] = [now |-> Partial, kept |-> Partial, stamp |-> 0]]
    BY <1>2
  <2>2. pc = "temp" /\ UNCHANGED reader /\ pc' = "write" /\ UNCHANGED <<op, result, promised>>
    BY <2>1 DEF CreateTemp, Goes
  <2>3. /\ i \in Inodes /\ i # None
        /\ \A d \in disks : \A n \in Names : d[n] # i
        /\ i \notin {reader.inode, reader.before.inode}
    BY FreeUnused
  <2>4. Altered({"temp"}) /\ names' = [names EXCEPT !["temp"] = i]
    BY <2>1, <2>3, Entered DEF Names
  <2>5. OnlyTemp /\ names'["temp"] = i
    BY <2>4, TempAltered DEF TypeOK, Names
  <2>6. \A j \in Inodes \ {i} : file'[j] = file[j]
    BY <2>1 DEF TypeOK
  <2>7. SteadySight
    BY <2>3, <2>6 DEF SteadySight, TypeOK, Names
  <2>8. TypeOK'
    <3>1. file' \in [Inodes -> [now : Contents, kept : Contents, stamp : Nat]]
      BY <2>1, <2>3 DEF TypeOK, Contents
    <3> QED BY <2>2, <2>5, <3>1, DirsKept, BudgetKept, <2>1 DEF TypeOK
  <2>9. Stages' /\ Progress'
    BY <2>2 DEF Stages, Progress, Whole
  <2>10. OutOfSight'
    BY <2>2, <2>3, <2>5 DEF OutOfSight, OnlyTemp, Names
  <2>11. PathWhole'
    BY <2>5, <2>7, PathKept
  <2>12. Promises'
    <3>1. SafeAfter(promised) /\ (op.kind = "replace" => SafeAfter(op.was))
      BY <2>2, <2>5, <2>7, SafeKept DEF Promises
    <3> QED BY <2>2, <3>1 DEF Promises, Safe, SafeAfter, Whole
  <2>13. ReaderOK' /\ ReadsAreWhole'
    BY <2>2 DEF ReaderOK, ReadsAreWhole
  <2>14. HalvesAgree'
    <3>1. reader.inode \in Inodes => file'[reader.inode] = file[reader.inode]
      BY <2>3, <2>6
    <3> QED BY <2>2, <3>1 DEF HalvesAgree, ReaderOK
  <2> QED BY <2>8, <2>9, <2>10, <2>11, <2>12, <2>13, <2>14
<1> QED BY <1>1, <1>2 DEF CreateTemp

\* A step that writes the temporary file, or nothing, and leaves every name.
LEMMA TempWritten ==
  ASSUME IInv, pc \in {"write", "fsync"}, pc' \in {"fsync", "publish"}, Same, Calm,
         UNCHANGED <<op, result, promised, reader>>,
         file' \in [Inodes -> [now : Contents, kept : Contents, stamp : Nat]],
         \A j \in Inodes \ {names["temp"]} : file'[j] = file[j],
         pc' = "fsync" => file'[names["temp"]].now = op.v,
         pc' = "publish" => file'[names["temp"]].now = op.v /\ file'[names["temp"]].kept = op.v
  PROVE  IInv'
<1> USE DEF IInv
<1>1. OnlyTemp /\ names' = names /\ disks' = disks
  BY SameNames DEF Same
<1>2. names["temp"] # None /\ names["temp"] \in Inodes /\ op.v # None
  BY DEF OutOfSight, Stages, TypeOK, Names
<1>3. \A d \in disks : names["temp"] \notin {d["path"], d["other"]}
  BY DEF OutOfSight
<1>4. SteadySight
  BY <1>3 DEF SteadySight, TypeOK, Names
<1>5. TypeOK'
  BY <1>1, DirsKept, BudgetKept DEF TypeOK
<1>6. Stages' /\ Progress'
  BY <1>1, <1>2 DEF Stages, Progress, Whole
<1>7. OutOfSight'
  BY <1>1 DEF OutOfSight
<1>8. PathWhole'
  BY <1>1, <1>4, PathKept
<1>9. Promises'
  <2>1. SafeAfter(promised) /\ (op.kind = "replace" => SafeAfter(op.was))
    BY <1>1, <1>4, SafeKept DEF Promises
  <2> QED BY <2>1 DEF Promises, Safe, SafeAfter, Whole
<1>10. ReaderOK' /\ ReadsAreWhole'
  BY DEF ReaderOK, ReadsAreWhole
<1>11. HalvesAgree'
  <2>1. reader.inode \in Inodes => file'[reader.inode] = file[reader.inode]
    BY DEF OutOfSight
  <2> QED BY <2>1 DEF HalvesAgree, ReaderOK
<1> QED BY <1>5, <1>6, <1>7, <1>8, <1>9, <1>10, <1>11

LEMMA WriteTempKeeps == ASSUME IInv, WriteTemp PROVE IInv'
<1> USE DEF IInv
<1>1. pc = "write" /\ UNCHANGED reader
  BY DEF WriteTemp
<1>2. CASE Hazard("fail") /\ Fails("failed")
  BY <1>1, <1>2, Ends, UnlinkTemp, BudgetKept DEF Fails, Stages
<1>3. CASE Calm /\ file' = [file EXCEPT ![names["temp"]].now = op.v] /\ Goes("fsync") /\ Same
  <2>1. names["temp"] \in Inodes /\ op.v \in Contents
    BY <1>1 DEF OutOfSight, Stages, TypeOK, Names, Contents
  <2>2. /\ file' \in [Inodes -> [now : Contents, kept : Contents, stamp : Nat]]
        /\ file'[names["temp"]].now = op.v
        /\ \A j \in Inodes \ {names["temp"]} : file'[j] = file[j]
    BY <1>3, <2>1 DEF TypeOK
  <2> QED BY <1>1, <1>3, <2>2, TempWritten DEF Goes
<1> QED BY <1>2, <1>3 DEF WriteTemp

LEMMA SyncTempKeeps == ASSUME IInv, SyncTemp PROVE IInv'
<1> USE DEF IInv
<1>1. pc = "fsync" /\ UNCHANGED reader
  BY DEF SyncTemp
<1>2. CASE Hazard("fail") /\ Fails("failed")
  BY <1>1, <1>2, Ends, UnlinkTemp, BudgetKept DEF Fails, Stages
<1>3. CASE Calm /\ file' = [file EXCEPT ![names["temp"]].kept = op.v] /\ Goes("publish") /\ Same
  <2>1. names["temp"] \in Inodes /\ op.v \in Contents
    BY <1>1 DEF OutOfSight, Stages, TypeOK, Names, Contents
  <2>2. /\ file' \in [Inodes -> [now : Contents, kept : Contents, stamp : Nat]]
        /\ file'[names["temp"]].kept = op.v
        /\ file'[names["temp"]].now = file[names["temp"]].now
        /\ \A j \in Inodes \ {names["temp"]} : file'[j] = file[j]
    BY <1>3, <2>1 DEF TypeOK
  <2>3. file[names["temp"]].now = op.v
    BY <1>1 DEF Progress
  <2> QED BY <1>1, <1>3, <2>2, <2>3, TempWritten DEF Goes
<1> QED BY <1>2, <1>3 DEF SyncTemp

\* A step that changes no file, and names anybody uses.
LEMMA FilesStay ==
  ASSUME ReaderOK, ReadsAreWhole, HalvesAgree, UNCHANGED <<file, reader>>
  PROVE  ReaderOK' /\ ReadsAreWhole' /\ HalvesAgree'
  BY DEF ReaderOK, ReadsAreWhole, HalvesAgree

\* Every directory a power loss may leave is an old one, or an old one that takes
\* the changes on.
LEMMA AlteredDirs ==
  ASSUME TypeOK, NEW ns, Altered(ns), NEW e \in disks'
  PROVE  \E d \in disks : \A n \in Names :
           \/ e[n] = d[n]
           \/ e[n] = names'[n] /\ d[n] = names[n]
  BY DEF Altered

LEMMA AlteredTypes ==
  ASSUME NEW ns, Altered(ns)
  PROVE  disks' \subseteq [Names -> Inodes \cup {None}] /\ names' \in disks'
  BY DEF Altered, Dirs

LEMMA ReplaceFileKeeps == ASSUME IInv, ReplaceFile PROVE IInv'
<1> USE DEF IInv
<1>1. pc = "publish" /\ op.kind = "replace" /\ UNCHANGED <<file, reader>> /\ op.v # None /\ op.v \in Versions
  BY DEF ReplaceFile, Stages, TypeOK
<1>2. CASE \/ Hazard("fail") /\ Fails("unknown")
           \/ Hazard("cancel") /\ Fails("failed")
  BY <1>1, <1>2, Ends, UnlinkTemp, BudgetKept DEF Fails
<1>3. ASSUME Rename("temp", "path"), Goes("confirm") \/ Returns("unknown"),
             Calm \/ Hazard("fail")
      PROVE  IInv'
  <2>1. Altered({"temp", "path"}) /\ names'["path"] = names["temp"] /\ names'["other"] = names["other"]
    BY <1>3, Renamed DEF Names, TypeOK
  <2>2. Whole(names["temp"], op.v)
    BY <1>1 DEF Progress
  <2>3. op' \in {op, NoOp} /\ promised' = promised /\ promised = None
    BY <1>1, <1>3 DEF Goes, Returns, Promises
  <2>4. (op' = op /\ pc' = "confirm" /\ result' = result) \/ (op' = NoOp /\ pc' = "idle" /\ result' = "unknown")
    BY <1>3 DEF Goes, Returns
  <2>5. TypeOK'
    <3>1. NoOp \in [kind : Kinds \cup {"none"}, v : Versions \cup {None}, was : Versions \cup {None}]
      BY DEF NoOp
    <3>2. pc' = "idle" <=> op' = NoOp
      BY <1>1, <2>4 DEF TypeOK
    <3> QED BY <1>1, <1>3, <2>1, <2>3, <2>4, <3>1, <3>2, AlteredTypes, BudgetKept DEF TypeOK
  <2>6. PathWhole'
    <3> SUFFICES ASSUME NEW e \in disks', e["path"] # None
                 PROVE  file[e["path"]].now \in Versions /\ file[e["path"]].kept = file[e["path"]].now
      BY <1>1 DEF PathWhole
    <3>1. PICK d \in disks : e["path"] = d["path"] \/ e["path"] = names'["path"]
      BY <2>1, AlteredDirs DEF Names
    <3> QED BY <1>1, <2>1, <2>2, <3>1 DEF PathWhole, Whole
  <2>7. Stages' /\ OutOfSight' /\ Progress'
    BY <1>1, <2>1, <2>2, <2>4 DEF Stages, OutOfSight, Progress, Whole, NoOp
  <2>8. Promises'
    BY <1>1, <2>3, <2>4 DEF Promises, Safe, NoOp
  <2> QED BY <1>1, <2>5, <2>6, <2>7, <2>8, FilesStay
<1> QED BY <1>2, <1>3 DEF ReplaceFile

LEMMA CreateFileKeeps == ASSUME IInv, CreateFile PROVE IInv'
<1> USE DEF IInv
<1>1. pc = "publish" /\ op.kind = "create" /\ UNCHANGED <<file, reader>> /\ op.v # None /\ op.v \in Versions
  BY DEF CreateFile, Stages, TypeOK
<1>2. CASE \/ names["path"] # None /\ Calm /\ Fails("exists")
           \/ Hazard("fail") /\ Fails("failed")
           \/ Hazard("cancel") /\ Fails("failed")
  BY <1>1, <1>2, Ends, UnlinkTemp, BudgetKept DEF Fails
<1>3. CASE names["path"] = None /\ Calm /\ Link("temp", "path") /\ Goes("unlink")
  <2>1. Altered({"path"}) /\ names'["path"] = names["temp"] /\ names'["other"] = names["other"]
    BY <1>3, Linked DEF Names, TypeOK
  <2>2. Whole(names["temp"], op.v)
    BY <1>1 DEF Progress
  <2>3. op' = op /\ pc' = "unlink" /\ result' = result /\ promised' = promised
    BY <1>3 DEF Goes
  <2>4. TypeOK'
    BY <1>1, <1>3, <2>1, <2>3, AlteredTypes, BudgetKept DEF TypeOK
  <2>5. PathWhole'
    <3> SUFFICES ASSUME NEW e \in disks', e["path"] # None
                 PROVE  file[e["path"]].now \in Versions /\ file[e["path"]].kept = file[e["path"]].now
      BY <1>1 DEF PathWhole
    <3>1. PICK d \in disks : e["path"] = d["path"] \/ e["path"] = names'["path"]
      BY <2>1, AlteredDirs DEF Names
    <3> QED BY <1>1, <2>1, <2>2, <3>1 DEF PathWhole, Whole
  <2>6. Stages' /\ OutOfSight' /\ Progress'
    BY <1>1, <2>1, <2>2, <2>3 DEF Stages, OutOfSight, Progress, Whole
  <2>7. SafeAfter(promised)
    <3> SUFFICES ASSUME promised # None, NEW e \in disks'
                 PROVE  \E n \in {"path", "other"} : Whole(e[n], promised)
      BY <1>1 DEF SafeAfter, Whole
    <3>1. PICK d \in disks : \A n \in Names : e[n] = d[n] \/ (e[n] = names'[n] /\ d[n] = names[n])
      BY <2>1, AlteredDirs
    <3>2. PICK n \in {"path", "other"} : Whole(d[n], promised)
      BY DEF Promises, Safe
    <3> QED BY <1>3, <2>1, <3>1, <3>2 DEF Whole, Names
  <2>8. Promises'
    BY <1>1, <2>3, <2>7 DEF Promises, Safe, SafeAfter, Whole
  <2> QED BY <1>1, <2>4, <2>5, <2>6, <2>8, FilesStay
<1> QED BY <1>2, <1>3 DEF CreateFile

LEMMA MoveFileKeeps == ASSUME IInv, MoveFile PROVE IInv'
<1> USE DEF IInv
<1>1. pc = "publish" /\ op.kind = "move" /\ UNCHANGED <<file, reader>> /\ op.v = None
  BY DEF MoveFile, Stages, TypeOK
<1>2. CASE \/ names["path"] # None /\ names["other"] # None /\ Calm /\ Returns("exists") /\ Same
           \/ names["path"] = None /\ Calm /\ Returns("failed") /\ Same
           \/ Hazard("fail") /\ Returns("failed") /\ Same
  BY <1>1, <1>2, Ends, SameNames, BudgetKept
<1>3. CASE /\ names["path"] # None /\ names["other"] = None /\ Calm
           /\ Link("path", "other") /\ Goes("sync")
  <2>1. Altered({"other"}) /\ names'["path"] = names["path"] /\ names'["other"] = names["path"]
    BY <1>3, Linked DEF Names, TypeOK
  <2>2. op' = op /\ pc' = "sync" /\ result' = result /\ promised' = promised
    BY <1>3 DEF Goes
  <2>3. TypeOK'
    BY <1>1, <1>3, <2>1, <2>2, AlteredTypes, BudgetKept DEF TypeOK
  <2>4. \A e \in disks' : \E d \in disks :
          e["path"] = d["path"] /\ (e["other"] = d["other"] \/ d["other"] = None)
    BY <1>3, <2>1, AlteredDirs DEF Names
  <2>5. PathWhole'
    BY <1>1, <2>4 DEF PathWhole
  <2>6. Stages' /\ OutOfSight' /\ Progress'
    BY <1>1, <1>3, <2>1, <2>2 DEF Stages, OutOfSight, Progress, Whole
  <2>7. SafeAfter(promised)
    BY <1>1, <2>4 DEF SafeAfter, Whole, Promises, Safe
  <2>8. Promises'
    BY <1>1, <2>2, <2>7 DEF Promises, Safe, SafeAfter, Whole
  <2> QED BY <1>1, <2>3, <2>5, <2>6, <2>8, FilesStay
<1> QED BY <1>2, <1>3 DEF MoveFile

LEMMA RenameFileKeeps == ASSUME IInv, RenameFile PROVE IInv'
<1> USE DEF IInv
<1>1. pc = "publish" /\ op.kind = "rename" /\ UNCHANGED <<file, reader>> /\ op.v = None
  BY DEF RenameFile, Stages, TypeOK
<1>2. CASE \/ names["path"] = None /\ Calm /\ Returns("unknown") /\ Same
           \/ Hazard("fail") /\ Returns("unknown") /\ Same
  BY <1>1, <1>2, Ends, SameNames, BudgetKept
<1>3. CASE names["path"] # None /\ Calm /\ Rename("path", "other") /\ Goes("confirm")
  <2>1. Altered({"path", "other"}) /\ names'["path"] = None /\ names'["other"] = names["path"]
    BY <1>3, Renamed DEF Names, TypeOK
  <2>2. op' = op /\ pc' = "confirm" /\ result' = result /\ promised' = promised
    BY <1>3 DEF Goes
  <2>3. TypeOK'
    BY <1>1, <1>3, <2>1, <2>2, AlteredTypes, BudgetKept DEF TypeOK
  <2>4. names["other"] # names["path"] /\ (promised # None => Whole(names["path"], promised))
    BY <1>1 DEF Progress
  <2>5. \A e \in disks' : e \in disks \/ (e["path"] = None /\ e["other"] = names["path"])
    BY <1>3, <2>1, <2>4 DEF Altered, Names
  <2>6. PathWhole'
    BY <1>1, <2>5 DEF PathWhole
  <2>7. Stages' /\ OutOfSight' /\ Progress'
    BY <1>1, <2>2 DEF Stages, OutOfSight, Progress, Whole
  <2>8. SafeAfter(promised)
    BY <1>1, <2>4, <2>5 DEF SafeAfter, Whole, Promises, Safe
  <2>9. Promises'
    BY <1>1, <2>2, <2>8 DEF Promises, Safe, SafeAfter, Whole
  <2> QED BY <1>1, <2>3, <2>6, <2>7, <2>9, FilesStay
<1> QED BY <1>2, <1>3 DEF RenameFile

LEMMA RemoveFileKeeps == ASSUME IInv, RemoveFile PROVE IInv'
<1> USE DEF IInv
<1>1. pc = "publish" /\ op.kind = "remove" /\ UNCHANGED <<file, reader>> /\ op.v = None
  BY DEF RemoveFile, Stages, TypeOK
<1>2. CASE \/ names["path"] = None /\ Calm /\ Returns("unknown") /\ Same
           \/ Hazard("fail") /\ Returns("unknown") /\ Same
  BY <1>1, <1>2, Ends, SameNames, BudgetKept
<1>3. CASE names["path"] # None /\ Calm /\ Unlink("path") /\ Goes("confirm")
  <2>1. Altered({"path"}) /\ names'["path"] = None
    BY <1>3, Unlinked DEF Names, TypeOK
  <2>2. op' = op /\ pc' = "confirm" /\ result' = result /\ promised' = promised /\ promised = None
    BY <1>1, <1>3 DEF Goes, Promises
  <2>3. TypeOK'
    BY <1>1, <1>3, <2>1, <2>2, AlteredTypes, BudgetKept DEF TypeOK
  <2>4. \A e \in disks' : \E d \in disks : e["path"] \in {d["path"], None}
    BY <2>1, AlteredDirs DEF Names
  <2>5. PathWhole'
    BY <1>1, <2>4 DEF PathWhole
  <2>6. Stages' /\ OutOfSight' /\ Progress'
    BY <1>1, <2>2 DEF Stages, OutOfSight, Progress, Whole
  <2>7. Promises'
    BY <1>1, <2>2 DEF Promises, Safe
  <2> QED BY <1>1, <2>3, <2>5, <2>6, <2>7, FilesStay
<1> QED BY <1>2, <1>3 DEF RemoveFile

LEMMA SyncLinkKeeps == ASSUME IInv, SyncLink PROVE IInv'
<1> USE DEF IInv
<1>1. pc = "sync" /\ op.kind = "move" /\ UNCHANGED <<file, reader>> /\ op.v = None
  BY DEF SyncLink, Stages, TypeOK
<1>2. CASE Hazard("fail") /\ Returns("unknown") /\ Same
  BY <1>1, <1>2, Ends, SameNames, BudgetKept
<1>3. CASE Calm /\ Synced /\ Goes("unlink")
  <2>1. disks' = {names} /\ names' = names /\ names \in disks
    BY <1>3 DEF Synced, TypeOK
  <2>2. op' = op /\ pc' = "unlink" /\ result' = result /\ promised' = promised
    BY <1>3 DEF Goes
  <2>3. TypeOK'
    BY <1>1, <1>3, <2>1, <2>2, BudgetKept DEF TypeOK
  <2>4. PathWhole'
    BY <1>1, <2>1 DEF PathWhole
  <2>5. Stages' /\ OutOfSight' /\ Progress'
    BY <1>1, <2>1, <2>2 DEF Stages, OutOfSight, Progress, Whole
  <2>6. Promises'
    BY <1>1, <2>1, <2>2 DEF Promises, Safe, Whole
  <2> QED BY <1>1, <2>3, <2>4, <2>5, <2>6, FilesStay
<1> QED BY <1>2, <1>3 DEF SyncLink

LEMMA RemoveLinkKeeps == ASSUME IInv, RemoveLink PROVE IInv'
<1> USE DEF IInv
<1>1. pc = "unlink" /\ op.kind \in {"create", "move"} /\ UNCHANGED <<file, reader>>
  BY DEF RemoveLink, Stages
<1>2. CASE \/ names[Source] = None /\ Calm /\ Returns("unknown") /\ Same
           \/ Hazard("fail") /\ Fails("unknown")
           \/ op.kind = "move" /\ Hazard("cancel") /\ Fails("unknown")
  BY <1>1, <1>2, Ends, SameNames, UnlinkTemp, BudgetKept DEF Fails
<1>3. CASE names[Source] # None /\ Calm /\ Unlink(Source) /\ Goes("confirm")
  <2>1. op' = op /\ pc' = "confirm" /\ result' = result /\ promised' = promised
    BY <1>3 DEF Goes
  <2>2. Altered({Source}) /\ names' = [names EXCEPT ![Source] = None] /\ Source \in Names
    BY <1>3, Unlinked DEF Names, Source
  <2>3. TypeOK'
    BY <1>1, <1>3, <2>1, <2>2, AlteredTypes, BudgetKept DEF TypeOK
  <2>4. \A e \in disks' : \E d \in disks : e["path"] \in {d["path"], None}
    <3> SUFFICES ASSUME NEW e \in disks' PROVE \E d \in disks : e["path"] \in {d["path"], None}
      OBVIOUS
    <3>1. PICK d \in disks : \A n \in Names : e[n] = d[n] \/ (e[n] = names'[n] /\ d[n] = names[n])
      BY <2>2, AlteredDirs
    <3>2. names'["path"] \in {names["path"], None}
      BY <2>2 DEF TypeOK, Names
    <3> QED BY <3>1, <3>2 DEF Names
  <2>5. PathWhole'
    BY <1>1, <2>4 DEF PathWhole
  <2>6. Stages' /\ OutOfSight'
    BY <1>1, <2>1 DEF Stages, OutOfSight
  <2>7. Progress'
    <3>1. CASE op.kind = "create"
      <4>1. names'["path"] = names["path"]
        BY <2>2, <3>1 DEF Source, TypeOK, Names
      <4> QED BY <1>1, <2>1, <3>1, <4>1 DEF Progress, Whole
    <3>2. CASE op.kind = "move"
      BY <1>1, <2>1, <3>2 DEF Progress, Whole, Stages
    <3> QED BY <1>1, <3>1, <3>2
  <2>8. SafeAfter(promised)
    <3>1. CASE op.kind = "create"
      <4>1. OnlyTemp
        BY <2>2, <3>1, TempAltered DEF Source
      <4> QED BY <1>1, <4>1, SafeKept, Steady DEF Promises
    <3>2. CASE op.kind = "move"
      <4>1. disks = {names} /\ names["other"] = names["path"]
        BY <1>1, <3>2 DEF Progress
      <4>2. \A e \in disks' : e["other"] = names["other"]
        <5> SUFFICES ASSUME NEW e \in disks' PROVE e["other"] = names["other"]
          OBVIOUS
        <5>1. PICK d \in disks : \A n \in Names : e[n] = d[n] \/ (e[n] = names'[n] /\ d[n] = names[n])
          BY <2>2, AlteredDirs
        <5>2. names'["other"] = names["other"]
          BY <2>2, <3>2 DEF TypeOK, Names, Source
        <5> QED BY <4>1, <5>1, <5>2 DEF Names
      <4> QED BY <1>1, <4>1, <4>2 DEF SafeAfter, Whole, Promises, Safe, TypeOK
    <3> QED BY <1>1, <3>1, <3>2
  <2>9. Promises'
    BY <1>1, <2>1, <2>8 DEF Promises, Safe, SafeAfter, Whole
  <2> QED BY <1>1, <2>3, <2>5, <2>6, <2>7, <2>9, FilesStay
<1> QED BY <1>2, <1>3 DEF RemoveLink

LEMMA ConfirmKeeps == ASSUME IInv, Confirm PROVE IInv'
<1> USE DEF IInv
<1>1. pc = "confirm" /\ UNCHANGED <<file, reader>>
  BY DEF Confirm
<1>2. CASE Hazard("fail") /\ Returns("unknown") /\ Same
  BY <1>1, <1>2, Ends, SameNames, BudgetKept
<1>3. CASE Calm /\ Synced /\ Returns("done")
  <2>1. disks' = {names} /\ names' = names /\ names \in disks
    BY <1>3 DEF Synced, TypeOK
  <2>2. /\ op' = NoOp /\ pc' = "idle" /\ result' = "done"
        /\ promised' = IF op.v # None THEN op.v ELSE promised
    BY <1>3 DEF Returns
  <2>3. TypeOK'
    <3>1. NoOp \in [kind : Kinds \cup {"none"}, v : Versions \cup {None}, was : Versions \cup {None}]
      BY DEF NoOp
    <3>2. promised' \in Versions \cup {None}
      BY <2>2 DEF TypeOK
    <3> QED BY <1>1, <1>3, <2>1, <2>2, <3>1, <3>2, BudgetKept DEF TypeOK
  <2>4. PathWhole'
    BY <1>1, <2>1 DEF PathWhole
  <2>5. Stages' /\ OutOfSight' /\ Progress'
    BY <2>2 DEF Stages, OutOfSight, Progress, NoOp
  <2>6. SafeAfter(promised')
    <3>1. CASE op.v # None
      <4>1. Whole(names["path"], op.v)
        BY <1>1, <3>1 DEF Progress
      <4> QED BY <1>1, <2>1, <2>2, <3>1, <4>1 DEF SafeAfter, Whole
    <3>2. CASE op.v = None
      BY <1>1, <2>1, <2>2, <3>2 DEF SafeAfter, Whole, Promises, Safe
    <3> QED BY <3>1, <3>2
  <2>7. Promises'
    BY <2>2, <2>6 DEF Promises, Safe, SafeAfter, Whole, NoOp
  <2> QED BY <1>1, <2>3, <2>4, <2>5, <2>7, FilesStay
<1> QED BY <1>2, <1>3 DEF Confirm

-----------------------------------------------------------------------------
(* The reader.                                                             *)

LEMMA StatType ==
  ASSUME TypeOK, NEW n \in Names
  PROVE  Stat(n) \in [inode : Inodes \cup {None}, stamp : Nat]
  BY DEF TypeOK, Stat

\* A step of the reader disturbs nobody else.
LEMMA ReaderAlone ==
  ASSUME IInv, Reads, ReaderOK', HalvesAgree', ReadsAreWhole', OutOfSight'
  PROVE  IInv'
<1> USE DEF IInv
<1>1. UNCHANGED <<names, disks, file, op, pc, result, promised, budget, left>>
  BY DEF Reads, Calm
<1>2. TypeOK'
  BY <1>1 DEF TypeOK, ReaderOK
<1>3. Stages' /\ Progress' /\ PathWhole' /\ Promises'
  BY <1>1 DEF Stages, Progress, PathWhole, Promises, Safe, Whole
<1> QED BY <1>2, <1>3

LEMMA InspectKeeps == ASSUME IInv, Inspect PROVE IInv'
<1> USE DEF IInv
<1>1. PICK n \in {"path", "other"} :
        /\ names[n] # None /\ Reads
        /\ reader' = [NoRead EXCEPT !.at = "open", !.name = n, !.before = Stat(n)]
  BY DEF Inspect
<1>2. /\ reader' = [at |-> "open", name |-> n, before |-> Stat(n), inode |-> None, halves |-> <<None, None>>]
      /\ Stat(n).inode = names[n]
  BY <1>1 DEF NoRead, Stat
<1>3. <<None, None>> \in [1..2 -> Contents \cup {None}]
  OBVIOUS
<1>4. ReaderOK'
  BY <1>1, <1>2, <1>3, StatType DEF ReaderOK, Names
<1>5. HalvesAgree' /\ ReadsAreWhole'
  BY <1>2 DEF HalvesAgree, ReadsAreWhole
<1>6. OutOfSight'
  <2>1. UNCHANGED <<names, disks, pc, op>> /\ names \in disks
    BY <1>1 DEF Reads, TypeOK
  <2>2. reader'.inode = None /\ reader'.before.inode = names[n]
    BY <1>2
  <2> QED BY <2>1, <2>2 DEF OutOfSight
<1> QED BY <1>1, <1>4, <1>5, <1>6, ReaderAlone

LEMMA NoReadFine ==
  ASSUME IInv, Reads, reader' = NoRead
  PROVE  IInv'
<1> USE DEF IInv
<1>1. <<None, None>> \in [1..2 -> Contents \cup {None}]
  OBVIOUS
<1>2. ReaderOK'
  BY <1>1 DEF ReaderOK, NoRead
<1>3. HalvesAgree' /\ ReadsAreWhole'
  BY DEF HalvesAgree, ReadsAreWhole, NoRead
<1>4. OutOfSight'
  BY DEF OutOfSight, NoRead, Reads
<1> QED BY <1>2, <1>3, <1>4, ReaderAlone

LEMMA OpenKeeps == ASSUME IInv, Open PROVE IInv'
<1> USE DEF IInv
<1>1. reader.at = "open" /\ Reads
  BY DEF Open
<1>2. CASE Stat(reader.name) # reader.before
  BY <1>1, <1>2, NoReadFine DEF Open
<1>3. CASE Stat(reader.name) = reader.before
  <2>1. reader' = [reader EXCEPT !.at = "first", !.inode = names[reader.name]]
    BY <1>3 DEF Open
  <2>2. reader.name \in Names /\ names[reader.name] \in Inodes \cup {None}
    BY DEF ReaderOK, TypeOK, Names
  <2>3. /\ reader'.at = "first" /\ reader'.inode = names[reader.name]
        /\ reader'.before = reader.before /\ reader'.name = reader.name
    BY <2>1 DEF ReaderOK
  <2>4. ReaderOK'
    BY <1>1, <2>1, <2>2 DEF ReaderOK
  <2>5. /\ reader.before.inode = names[reader.name] /\ reader.before.inode # None
        /\ reader.before.stamp = file[names[reader.name]].stamp
    BY <1>1, <1>3 DEF Stat, ReaderOK
  <2>6. UNCHANGED <<names, disks, file, pc, op>>
    BY <1>1 DEF Reads
  <2>7. file[names[reader.name]].stamp \in Nat
    BY <2>2, <2>5 DEF TypeOK
  <2>8. HalvesAgree' /\ ReadsAreWhole'
    BY <2>3, <2>5, <2>6, <2>7 DEF HalvesAgree, ReadsAreWhole
  <2>9. OutOfSight'
    BY <2>3, <2>5, <2>6 DEF OutOfSight
  <2> QED BY <1>1, <2>4, <2>8, <2>9, ReaderAlone
<1> QED BY <1>2, <1>3

LEMMA ReadHalfKeeps == ASSUME IInv, ReadHalf PROVE IInv'
<1> USE DEF IInv
<1>1. reader.at \in {"first", "second"} /\ Reads /\ UNCHANGED <<names, disks, file, pc, op>>
  BY DEF ReadHalf, Reads
<1>2. reader.inode \in Inodes /\ reader.inode = reader.before.inode
  BY <1>1 DEF HalvesAgree, ReaderOK
<1>3. file[reader.inode].now \in Contents
  BY <1>2 DEF TypeOK
<1>4. CASE reader.at = "first"
  <2>1. reader' = [reader EXCEPT !.at = "second", !.halves[1] = file[reader.inode].now]
    BY <1>4 DEF ReadHalf
  <2>2. ReaderOK'
    BY <1>2, <1>3, <1>4, <2>1 DEF ReaderOK
  <2>3. /\ reader'.at = "second" /\ reader'.halves[1] = file[reader.inode].now
        /\ reader'.inode = reader.inode /\ reader'.before = reader.before
    BY <2>1 DEF ReaderOK
  <2>4. HalvesAgree' /\ ReadsAreWhole' /\ OutOfSight'
    BY <1>1, <1>4, <2>3 DEF HalvesAgree, ReadsAreWhole, OutOfSight
  <2> QED BY <1>1, <2>2, <2>4, ReaderAlone
<1>5. CASE reader.at = "second"
  <2>1. reader' = [reader EXCEPT !.at = "again", !.halves[2] = file[reader.inode].now]
    BY <1>5 DEF ReadHalf
  <2>2. ReaderOK'
    BY <1>2, <1>3, <1>5, <2>1 DEF ReaderOK
  <2>3. /\ reader'.at = "again" /\ reader'.halves[2] = file[reader.inode].now
        /\ reader'.halves[1] = reader.halves[1]
        /\ reader'.inode = reader.inode /\ reader'.before = reader.before
    BY <2>1 DEF ReaderOK
  <2>4. HalvesAgree' /\ ReadsAreWhole' /\ OutOfSight'
    BY <1>1, <1>5, <2>3 DEF HalvesAgree, ReadsAreWhole, OutOfSight
  <2> QED BY <1>1, <2>2, <2>4, ReaderAlone
<1> QED BY <1>1, <1>4, <1>5

LEMMA InspectAgainKeeps == ASSUME IInv, InspectAgain PROVE IInv'
<1> USE DEF IInv
<1>1. reader.at = "again" /\ Reads
  BY DEF InspectAgain
<1>2. CASE ~Unchanged
  BY <1>1, <1>2, NoReadFine DEF InspectAgain
<1>3. CASE Unchanged
  <2>1. reader' = [reader EXCEPT !.at = "read", !.inode = None]
    BY <1>3 DEF InspectAgain
  <2>2. ReaderOK'
    BY <2>1 DEF ReaderOK
  <2>3. /\ reader'.at = "read" /\ reader'.halves = reader.halves
        /\ reader'.inode = None /\ reader'.before = reader.before
    BY <2>1 DEF ReaderOK
  <2>4. reader.inode = names[reader.name] /\ file[reader.inode].stamp = reader.before.stamp
    BY <1>1, <1>3 DEF Unchanged, Stat, ReaderOK, HalvesAgree
  <2>5. reader.halves[1] = reader.halves[2]
    BY <1>1, <2>4 DEF HalvesAgree
  <2>6. UNCHANGED <<names, disks, file, pc, op>>
    BY <1>1 DEF Reads
  <2>7. OutOfSight'
    BY <2>3, <2>6 DEF OutOfSight
  <2>8. HalvesAgree' /\ ReadsAreWhole'
    BY <2>3, <2>5 DEF HalvesAgree, ReadsAreWhole
  <2> QED BY <1>1, <2>2, <2>7, <2>8, ReaderAlone
<1> QED BY <1>2, <1>3

-----------------------------------------------------------------------------
(* The owner and the power.                                                *)

LEMMA OwnerAddsKeeps == ASSUME IInv, OwnerAdds PROVE IInv'
<1> USE DEF IInv
<1>1. PICK n \in {"path", "other"}, i \in Free, v \in Versions :
        /\ names[n] = None /\ Hazard("owner") /\ Enter(n, i)
        /\ file' = [file EXCEPT ![i] = [now |-> v, kept |-> v, stamp |-> 1]]
        /\ UNCHANGED <<op, pc, result, reader, promised>>
  BY DEF OwnerAdds
<1>2. /\ i \in Inodes /\ i # None
      /\ \A d \in disks : \A m \in Names : d[m] # i
      /\ i \notin {reader.inode, reader.before.inode}
  BY FreeUnused
<1>3. /\ Altered({n}) /\ n \in Names /\ names'[n] = i
      /\ \A m \in Names \ {n} : names'[m] = names[m]
  <2>1. n \in Names
    BY DEF Names
  <2>2. Altered({n}) /\ names' = [names EXCEPT ![n] = i]
    BY <1>1, <1>2, <2>1, Entered
  <2> QED BY <2>1, <2>2 DEF TypeOK
<1>4. (\A j \in Inodes \ {i} : file'[j] = file[j]) /\ file'[i].now = v /\ file'[i].kept = v
  BY <1>1, <1>2 DEF TypeOK
<1>5. \A e \in disks' : \E d \in disks :
        /\ \A m \in Names \ {n} : e[m] = d[m]
        /\ e[n] = d[n] \/ (e[n] = i /\ d[n] = None)
  <2> SUFFICES ASSUME NEW e \in disks'
               PROVE  \E d \in disks : /\ \A m \in Names \ {n} : e[m] = d[m]
                                       /\ e[n] = d[n] \/ (e[n] = i /\ d[n] = None)
    OBVIOUS
  <2>1. PICK d \in disks : \A m \in Names : e[m] = d[m] \/ (e[m] = names'[m] /\ d[m] = names[m])
    BY <1>3, AlteredDirs
  <2>2. \A m \in Names \ {n} : e[m] = d[m]
    BY <1>3, <2>1
  <2>3. e[n] = d[n] \/ (e[n] = i /\ d[n] = None)
    BY <1>1, <1>3, <2>1
  <2> QED BY <2>2, <2>3
<1>6. \A d \in disks : \A m \in Names : d[m] # None => file'[d[m]] = file[d[m]]
  BY <1>2, <1>4 DEF TypeOK
<1>7. TypeOK'
  <2>1. file' \in [Inodes -> [now : Contents, kept : Contents, stamp : Nat]]
    BY <1>1, <1>2 DEF TypeOK, Contents
  <2> QED BY <1>1, <1>3, <2>1, AlteredTypes, BudgetKept DEF TypeOK
<1>8. Stages' /\ ReaderOK' /\ ReadsAreWhole'
  BY <1>1 DEF Stages, ReaderOK, ReadsAreWhole
<1>9. OutOfSight'
  <2> SUFFICES ASSUME pc \in {"write", "fsync"} \/ (pc = "publish" /\ op.v # None)
               PROVE  OutOfSight'
    BY <1>1 DEF OutOfSight
  <2>1. names["temp"] # None /\ names["temp"] # i /\ names'["temp"] = names["temp"]
    BY <1>2, <1>3 DEF OutOfSight, TypeOK, Names
  <2>2. \A e \in disks' : names["temp"] \notin {e["path"], e["other"]}
    BY <1>5, <2>1 DEF OutOfSight, Names
  <2> QED BY <1>1, <2>1, <2>2 DEF OutOfSight
<1>10. Progress'
  <2>1. pc = "fsync" => file'[names'["temp"]].now = op.v
    BY <1>1, <1>3, <1>6 DEF Progress, OutOfSight, TypeOK, Names
  <2>2. pc = "publish" /\ op.v # None =>
          names'["temp"] # None /\ file'[names'["temp"]].now = op.v /\ file'[names'["temp"]].kept = op.v
    BY <1>1, <1>3, <1>6 DEF Progress, Whole, TypeOK, Names
  <2>3. \A w : Whole(names["path"], w) =>
          names'["path"] # None /\ file'[names'["path"]].now = w /\ file'[names'["path"]].kept = w
    BY <1>1, <1>3, <1>6 DEF Whole, TypeOK, Names
  <2>4. op.kind = "move" /\ pc \in {"sync", "unlink"} => FALSE
    BY <1>1 DEF Progress
  <2>5. op.kind = "rename" /\ pc = "publish" => names'["path"] # None /\ names'["other"] # names'["path"]
    BY <1>1, <1>2, <1>3 DEF Progress, TypeOK, Names
  <2> QED BY <1>1, <2>1, <2>2, <2>3, <2>4, <2>5 DEF Progress, Whole
<1>11. PathWhole'
  <2> SUFFICES ASSUME NEW e \in disks', e["path"] # None
               PROVE  file'[e["path"]].now \in Versions /\ file'[e["path"]].kept = file'[e["path"]].now
    BY DEF PathWhole
  <2>1. PICK d \in disks : e["path"] = d["path"] \/ e["path"] = i
    BY <1>5 DEF Names
  <2> QED BY <1>4, <1>6, <2>1 DEF PathWhole, Names
<1>12. \A w : Safe(w) => SafeAfter(w)
  <2> SUFFICES ASSUME NEW w, Safe(w), w # None, NEW e \in disks'
               PROVE  \E m \in {"path", "other"} : e[m] # None /\ file'[e[m]].now = w /\ file'[e[m]].kept = w
    BY DEF SafeAfter
  <2>1. PICK d \in disks : /\ \A m \in Names \ {n} : e[m] = d[m]
                           /\ e[n] = d[n] \/ (e[n] = i /\ d[n] = None)
    BY <1>5
  <2>2. PICK m \in {"path", "other"} : Whole(d[m], w)
    BY DEF Safe
  <2> QED BY <1>6, <2>1, <2>2 DEF Whole, Names
<1>13. Promises'
  <2>1. SafeAfter(promised) /\ (op.kind = "replace" /\ pc \in {"temp", "write", "fsync", "publish"} => SafeAfter(op.was))
    BY <1>12 DEF Promises
  <2> QED BY <1>1, <2>1 DEF Promises, Safe, SafeAfter, Whole
<1>14. HalvesAgree'
  <2>1. reader.inode \in Inodes => file'[reader.inode] = file[reader.inode]
    BY <1>2, <1>4
  <2> QED BY <1>1, <2>1 DEF HalvesAgree, ReaderOK
<1> QED BY <1>7, <1>8, <1>9, <1>10, <1>11, <1>13, <1>14

LEMMA OwnerEditsKeeps == ASSUME IInv, OwnerEdits PROVE IInv'
<1> USE DEF IInv
<1>1. PICK i \in Inodes, v \in Versions :
        /\ names["other"] = i /\ \A d \in disks : d["path"] # i
        /\ Hazard("edit")
        /\ file' = [file EXCEPT ![i].now = v, ![i].stamp = @ + 1]
        /\ promised' = None /\ op' = [op EXCEPT !.was = None]
        /\ UNCHANGED <<names, disks, pc, result, reader>>
  BY DEF OwnerEdits
<1>2. op'.kind = op.kind /\ op'.v = op.v /\ op'.was = None
  BY <1>1 DEF TypeOK
<1>3. /\ file' \in [Inodes -> [now : Contents, kept : Contents, stamp : Nat]]
      /\ \A j \in Inodes \ {i} : file'[j] = file[j]
      /\ file'[i].stamp = file[i].stamp + 1
      /\ file[i].stamp \in Nat
  BY <1>1 DEF TypeOK, Contents
<1>4. names \in disks /\ names \in [Names -> Inodes \cup {None}]
  BY DEF TypeOK
<1>5. TypeOK'
  <2>1. op' \in [kind : Kinds \cup {"none"}, v : Versions \cup {None}, was : Versions \cup {None}]
    BY <1>1 DEF TypeOK
  <2>2. pc = "idle" <=> op' = NoOp
    <3>1. CASE pc = "idle"
      BY <1>1, <3>1 DEF TypeOK, NoOp
    <3>2. CASE pc # "idle"
      BY <1>2, <3>2 DEF Stages, NoOp
    <3> QED BY <3>1, <3>2
  <2> QED BY <1>1, <1>3, <2>1, <2>2, BudgetKept DEF TypeOK
<1>6. Stages' /\ OutOfSight' /\ ReaderOK' /\ ReadsAreWhole'
  BY <1>1, <1>2 DEF Stages, OutOfSight, ReaderOK, ReadsAreWhole
<1>7. names["path"] # None => names["path"] \in Inodes \ {i} /\ file'[names["path"]] = file[names["path"]]
  BY <1>1, <1>3, <1>4 DEF Names
<1>8. pc \in {"write", "fsync"} \/ (pc = "publish" /\ op.v # None) =>
        names["temp"] \in Inodes /\ file'[names["temp"]] = file[names["temp"]]
  BY <1>1, <1>3, <1>4 DEF OutOfSight, Names
<1>9. Progress'
  BY <1>1, <1>2, <1>7, <1>8 DEF Progress, Whole
<1>10. PathWhole'
  BY <1>1, <1>3 DEF PathWhole, TypeOK, Names
<1>11. Promises'
  BY <1>1, <1>2 DEF Promises, Safe
<1>12. HalvesAgree'
  <2>1. UNCHANGED reader
    BY <1>1
  <2>2. CASE reader.at \notin {"first", "second", "again"}
    BY <2>1, <2>2 DEF HalvesAgree
  <2>3. CASE reader.at \in {"first", "second", "again"}
    <3>1. reader.inode \in Inodes /\ reader.before.stamp \in Nat /\ file[reader.inode].stamp \in Nat
      BY <2>3 DEF HalvesAgree, ReaderOK, TypeOK
    <3>2. CASE reader.inode # i
      BY <1>3, <2>1, <3>1, <3>2 DEF HalvesAgree
    <3>3. CASE reader.inode = i
      <4>1. reader.before.stamp <= file[i].stamp
        BY <2>3, <3>3 DEF HalvesAgree
      <4>2. reader.before.stamp <= file'[i].stamp /\ file'[i].stamp # reader.before.stamp
        BY <1>3, <3>1, <4>1
      <4> QED BY <2>1, <2>3, <3>3, <4>2 DEF HalvesAgree
    <3> QED BY <3>2, <3>3
  <2> QED BY <2>2, <2>3
<1> QED BY <1>5, <1>6, <1>9, <1>10, <1>11, <1>12

\* A file whose data was synced is what it was.
LEMMA SyncedSurvives ==
  ASSUME NEW f \in [now : Contents, kept : Contents, stamp : Nat], NEW g \in AfterLoss(f)
  PROVE  /\ g \in [now : Contents, kept : Contents, stamp : Nat]
         /\ f.now = f.kept => g = f
<1>1. PICK c \in {f.now, f.kept} \cup (IF f.now = f.kept THEN {} ELSE {Partial}) :
        g = [f EXCEPT !.now = c, !.kept = c]
  BY DEF AfterLoss
<1>2. c \in Contents /\ (f.now = f.kept => c = f.now)
  BY <1>1 DEF Contents
<1> QED BY <1>1, <1>2

LEMMA PowerLossKeeps == ASSUME IInv, PowerLoss PROVE IInv'
<1> USE DEF IInv
<1>1. /\ names' \in disks /\ disks' = {names'} /\ op' = NoOp /\ pc' = "idle"
      /\ result' = "none" /\ reader' = NoRead /\ promised' = promised /\ Hazard("power")
  BY DEF PowerLoss
<1>2. /\ DOMAIN file' = Inodes /\ \A i \in Inodes : file'[i] \in AfterLoss(file[i])
      /\ file' = [i \in Inodes |-> file'[i]]
  BY DEF PowerLoss
<1>3. \A i \in Inodes : /\ file'[i] \in [now : Contents, kept : Contents, stamp : Nat]
                        /\ file[i].now = file[i].kept => file'[i] = file[i]
  BY <1>2, SyncedSurvives DEF TypeOK
<1>4. <<None, None>> \in [1..2 -> Contents \cup {None}]
  OBVIOUS
<1>5. TypeOK'
  <2>1. file' \in [Inodes -> [now : Contents, kept : Contents, stamp : Nat]]
    BY <1>2, <1>3
  <2>2. NoOp \in [kind : Kinds \cup {"none"}, v : Versions \cup {None}, was : Versions \cup {None}]
    BY DEF NoOp
  <2>3. disks' \subseteq [Names -> Inodes \cup {None}]
    BY <1>1 DEF TypeOK
  <2> QED BY <1>1, <2>1, <2>2, <2>3, BudgetKept DEF TypeOK, NoRead
<1>6. ReaderOK' /\ ReadsAreWhole' /\ HalvesAgree'
  BY <1>1, <1>4 DEF ReaderOK, ReadsAreWhole, HalvesAgree, NoRead
<1>7. Stages' /\ OutOfSight' /\ Progress'
  BY <1>1 DEF Stages, OutOfSight, Progress, NoOp
<1>8. PathWhole'
  <2>1. names'["path"] # None => names'["path"] \in Inodes
    BY <1>1 DEF TypeOK, Names
  <2> QED BY <1>1, <1>3, <2>1 DEF PathWhole
<1>9. SafeAfter(promised)
  <2>1. \A n \in {"path", "other"} : names'[n] # None => names'[n] \in Inodes
    BY <1>1 DEF TypeOK, Names
  <2> QED BY <1>1, <1>3, <2>1 DEF SafeAfter, Promises, Safe, Whole
<1>10. Promises'
  BY <1>1, <1>9 DEF Promises, Safe, SafeAfter, Whole, NoOp
<1> QED BY <1>5, <1>6, <1>7, <1>8, <1>10

-----------------------------------------------------------------------------
(* The invariant and what follows from it.                                 *)

LEMMA InitHolds == Init => IInv
<1> SUFFICES ASSUME Init PROVE IInv
  OBVIOUS
<1>1. names \in [Names -> Inodes \cup {None}] /\ disks = {names} /\ \A n \in Names : names[n] = None
  BY DEF Init
<1>2. <<None, None>> \in [1..2 -> Contents \cup {None}]
  OBVIOUS
<1>3. TypeOK
  BY <1>1, FilesBounds DEF Init, TypeOK, NoOp, NoRead, Contents
<1>4. ReaderOK /\ ReadsAreWhole /\ HalvesAgree
  BY <1>2 DEF Init, ReaderOK, ReadsAreWhole, HalvesAgree, NoRead
<1>5. Stages /\ OutOfSight /\ Progress /\ PathWhole /\ Promises
  BY <1>1 DEF Init, Stages, OutOfSight, Progress, PathWhole, Promises, Safe, NoOp, Names
<1> QED BY <1>3, <1>4, <1>5 DEF IInv

LEMMA CallKeeps == ASSUME IInv, Call PROVE IInv'
  BY CreateTempKeeps, WriteTempKeeps, SyncTempKeeps, ReplaceFileKeeps, CreateFileKeeps, MoveFileKeeps,
     RenameFileKeeps, RemoveFileKeeps, SyncLinkKeeps, RemoveLinkKeeps, ConfirmKeeps DEF Call

LEMMA NextKeeps == IInv /\ [Next]_vars => IInv'
<1> SUFFICES ASSUME IInv, [Next]_vars PROVE IInv'
  OBVIOUS
<1>1. CASE Begin
  BY <1>1, BeginKeeps
<1>2. CASE Call
  BY <1>2, CallKeeps
<1>3. CASE Inspect \/ Open \/ ReadHalf \/ InspectAgain
  BY <1>3, InspectKeeps, OpenKeeps, ReadHalfKeeps, InspectAgainKeeps
<1>4. CASE OwnerAdds \/ OwnerEdits \/ PowerLoss
  BY <1>4, OwnerAddsKeeps, OwnerEditsKeeps, PowerLossKeeps
<1>5. CASE UNCHANGED vars
  BY <1>5 DEF vars, IInv, TypeOK, ReaderOK, Stages, OutOfSight, Progress, PathWhole, Promises, Safe,
     Whole, HalvesAgree, ReadsAreWhole
<1> QED BY <1>1, <1>2, <1>3, <1>4, <1>5 DEF Next

\* The invariant holds in every reachable state, for any files, any number of
\* calls and any disturbances of the hazards modelled.
THEOREM Inductive == Spec => []IInv
  BY InitHolds, NextKeeps, PTL DEF Spec

\* A version that Replace or CreateExclusive reported as written, and that a move or
\* a rename may have carried on, is whole in every directory a power loss may
\* leave.
THEOREM ReportedSurvives == Spec => []Survives
<1>1. IInv => Survives
  <2> SUFFICES ASSUME IInv, promised # None, NEW d \in disks
               PROVE  \E n \in {"path", "other"} :
                        d[n] # None /\ file[d[n]].now = promised /\ file[d[n]].kept = promised
    BY DEF Survives
  <2> QED BY DEF IInv, Promises, Safe, Whole
<1> QED BY <1>1, Inductive, PTL

\* ReadStable never returns a mixture of two contents (sameStableFile).
THEOREM WholeReads == Spec => []ReadsAreWhole
<1>1. IInv => ReadsAreWhole
  BY DEF IInv
<1> QED BY <1>1, Inductive, PTL

-----------------------------------------------------------------------------
(* Nobody's file is overwritten.                                           *)

LEMMA TempOnlyLeaves ==
  ASSUME TypeOK, Unlink("temp") \/ Same \/ \E i \in Free : Enter("temp", i)
  PROVE  names'["path"] = names["path"] /\ names'["other"] = names["other"]
<1>1. \A i \in Free : i \in Inodes
  BY DEF Free
<1> QED BY <1>1, UnlinkTemp, SameNames, Entered, TempAltered DEF OnlyTemp, Names

LEMMA CallSpares ==
  ASSUME IInv, Call
  PROVE  /\ op.kind = "create" /\ names["path"] # None => names'["path"] = names["path"]
         /\ op.kind = "move" /\ names["other"] # None => names'["other"] = names["other"]
<1> USE DEF IInv
<1>1. CASE CreateTemp \/ WriteTemp \/ SyncTemp
  BY <1>1, TempOnlyLeaves DEF CreateTemp, WriteTemp, SyncTemp, Fails, Same
<1>2. CASE ReplaceFile \/ RenameFile \/ RemoveFile
  BY <1>2 DEF ReplaceFile, RenameFile, RemoveFile
<1>3. CASE CreateFile
  BY <1>3, TempOnlyLeaves DEF CreateFile, Fails
<1>4. CASE MoveFile
  BY <1>4, TempOnlyLeaves DEF MoveFile
<1>5. CASE SyncLink \/ Confirm
  BY <1>5, TempOnlyLeaves DEF SyncLink, Confirm, Synced
<1>6. CASE RemoveLink
  <2>1. CASE Unlink(Source)
    <3>1. names' = [names EXCEPT ![Source] = None]
      BY <2>1, Unlinked DEF Source, Names
    <3>2. op.kind = "create" => Source = "temp"
      BY DEF Source
    <3>3. op.kind = "move" => Source = "path"
      BY DEF Source
    <3> QED BY <3>1, <3>2, <3>3 DEF TypeOK, Names
  <2>2. CASE Unlink("temp") \/ Same
    BY <2>2, TempOnlyLeaves
  <2> QED BY <1>6, <2>1, <2>2 DEF RemoveLink, Fails
<1> QED BY <1>1, <1>2, <1>3, <1>4, <1>5, <1>6 DEF Call

\* CreateExclusive and MoveExclusive never take the place of a file that somebody
\* put there meanwhile (link(2) instead of rename(2)).
THEOREM ForeignFilesSpared == Spec => NoClobber
<1>1. IInv /\ [Next]_vars =>
        [Call => /\ op.kind = "create" /\ names["path"] # None => names'["path"] = names["path"]
                 /\ op.kind = "move" /\ names["other"] # None => names'["other"] = names["other"]]_vars
  BY CallSpares
<1> QED BY <1>1, Inductive, PTL DEF Spec, NoClobber

-----------------------------------------------------------------------------
(* A control file is an AtomicFile.                                        *)

Value == ContentOf(names["path"])
May   == {ContentOf(d["path"]) : d \in disks}

\* The control file is the same, now and after any power loss.
LEMMA PathUnchanged ==
  ASSUME TypeOK, names'["path"] = names["path"], disks \subseteq disks',
         \A e \in disks' : \E d \in disks : e["path"] = d["path"],
         \A d \in disks : d["path"] # None => file'[d["path"]] = file[d["path"]]
  PROVE  Value' = Value /\ May' = May
<1>1. Value' = Value
  BY DEF Value, ContentOf, TypeOK
<1>2. \A d \in disks : ContentOf(d["path"])' = ContentOf(d["path"])
  BY DEF ContentOf
<1>3. May' = {(IF e["path"] = None THEN None ELSE file'[e["path"]].now) : e \in disks'}
  BY DEF May, ContentOf
<1>4. May = {(IF d["path"] = None THEN None ELSE file[d["path"]].now) : d \in disks}
  BY DEF May, ContentOf
<1>5. May \subseteq May'
  BY <1>3, <1>4
<1>6. May' \subseteq May
  BY <1>3, <1>4
<1> QED BY <1>1, <1>5, <1>6

\* Another content is under the name, and a power loss may take it back.
LEMMA PathPublished ==
  ASSUME TypeOK, disks \subseteq disks', names' \in disks',
         \A e \in disks' : \/ e["path"] = names'["path"]
                           \/ \E d \in disks : e["path"] = d["path"],
         \A d \in disks : d["path"] # None => file'[d["path"]] = file[d["path"]],
         names'["path"] # None => file'[names'["path"]].now \in Versions
  PROVE  Control!Publish
<1>1. Value' \in Versions \cup {None}
  BY DEF Value, ContentOf
<1>2. May' = {(IF e["path"] = None THEN None ELSE file'[e["path"]].now) : e \in disks'}
  BY DEF May, ContentOf
<1>3. May = {(IF d["path"] = None THEN None ELSE file[d["path"]].now) : d \in disks}
  BY DEF May, ContentOf
<1>4. Value' = IF names'["path"] = None THEN None ELSE file'[names'["path"]].now
  BY DEF Value, ContentOf
<1>5. May \subseteq May' /\ Value' \in May'
  BY <1>2, <1>3, <1>4
<1>6. May' \subseteq May \cup {Value'}
  BY <1>2, <1>3, <1>4
<1>7. May' = May \cup {Value'}
  BY <1>5, <1>6
<1> QED BY <1>1, <1>7 DEF Control!Publish, Value, May

Stutters == Value' = Value /\ May' = May

LEMMA TempStutters ==
  ASSUME IInv, OnlyTemp, SteadySight
  PROVE  Stutters
<1>1. TypeOK
  BY DEF IInv
<1>2. /\ names'["path"] = names["path"] /\ disks \subseteq disks'
      /\ \A e \in disks' : \E d \in disks : e["path"] = d["path"]
      /\ \A d \in disks : d["path"] # None => file'[d["path"]] = file[d["path"]]
  BY DEF OnlyTemp, SteadySight
<1> QED BY <1>1, <1>2, PathUnchanged DEF Stutters

LEMMA SameStutters ==
  ASSUME IInv, UNCHANGED <<names, disks, file>>
  PROVE  Stutters
  BY TempStutters, SameNames, Steady DEF IInv, Same

LEMMA CleanupStutters ==
  ASSUME IInv, Unlink("temp"), UNCHANGED file
  PROVE  Stutters
  BY TempStutters, UnlinkTemp, Steady DEF IInv

LEMMA SyncConfirms ==
  ASSUME IInv, Synced, UNCHANGED file
  PROVE  Control!Confirm
<1>1. names' = names /\ disks' = {names}
  BY DEF Synced
<1>2. Value' = Value /\ May' = {Value}
  BY <1>1 DEF Value, May, ContentOf
<1> QED BY <1>2 DEF Control!Confirm, Value, May

\* A change of the names in ns, with no file changed, publishes what the control
\* file's name then stands for.
LEMMA ChangePublishes ==
  ASSUME IInv, IInv', NEW ns, Altered(ns), UNCHANGED file
  PROVE  Control!Publish
<1>1. TypeOK /\ PathWhole'
  BY DEF IInv
<1>2. disks \subseteq disks' /\ names' \in disks'
  BY DEF Altered
<1>3. \A e \in disks' : e["path"] = names'["path"] \/ \E d \in disks : e["path"] = d["path"]
  BY <1>1, AlteredDirs DEF Names
<1>4. names'["path"] # None => file'[names'["path"]].now \in Versions
  BY <1>1, <1>2 DEF PathWhole
<1> QED BY <1>1, <1>2, <1>3, <1>4, PathPublished

LEMMA WritesStutter ==
  ASSUME IInv, WriteTemp \/ SyncTemp, Same
  PROVE  Stutters
<1>1. IInv /\ TypeOK /\ pc \in {"write", "fsync"} /\ \A j \in Inodes \ {names["temp"]} : file'[j] = file[j]
  <2>1. TypeOK
    BY DEF IInv
  <2>2. CASE WriteTemp
    BY <2>1, <2>2 DEF WriteTemp, Fails, TypeOK
  <2>3. CASE SyncTemp
    BY <2>1, <2>3 DEF SyncTemp, Fails, TypeOK
  <2> QED BY <2>1, <2>2, <2>3 DEF WriteTemp, SyncTemp
<1>2. SteadySight
  BY <1>1 DEF IInv, OutOfSight, SteadySight, TypeOK, Names
<1> QED BY <1>1, <1>2, TempStutters, SameNames

LEMMA CallMaps ==
  ASSUME IInv, IInv', Call
  PROVE  Stutters \/ Control!Next
<1>1. TypeOK
  BY DEF IInv
<1>2. CASE CreateTemp
  <2>1. CASE UNCHANGED <<names, disks, file>>
    BY <2>1, SameStutters
  <2>2. CASE ~UNCHANGED <<names, disks, file>>
    <3>1. PICK i \in Free : /\ Enter("temp", i)
                            /\ file' = [file EXCEPT ![i] = [now |-> Partial, kept |-> Partial, stamp |-> 0]]
      BY <1>2, <2>2 DEF CreateTemp
    <3>2. i \in Inodes /\ \A d \in disks : \A n \in Names : d[n] # i
      BY <1>1, FreeUnused
    <3>3. OnlyTemp
      BY <1>1, <3>1, <3>2, Entered, TempAltered DEF Names
    <3>4. \A j \in Inodes \ {i} : file'[j] = file[j]
      BY <1>1, <3>1 DEF TypeOK
    <3>5. SteadySight
      BY <1>1, <3>2, <3>4 DEF SteadySight, TypeOK, Names
    <3> QED BY <3>3, <3>5, TempStutters
  <2> QED BY <2>1, <2>2
<1>3. CASE WriteTemp \/ SyncTemp
  BY <1>3, WritesStutter, CleanupStutters DEF WriteTemp, SyncTemp, Fails
<1>4. CASE ReplaceFile
  <2>1. CASE Rename("temp", "path")
    BY <1>1, <1>4, <2>1, Renamed, ChangePublishes DEF ReplaceFile, Names, Control!Next
  <2>2. CASE Unlink("temp")
    BY <1>4, <2>2, CleanupStutters DEF ReplaceFile
  <2> QED BY <1>4, <2>1, <2>2 DEF ReplaceFile, Fails
<1>5. CASE CreateFile
  <2>1. CASE Link("temp", "path")
    BY <1>1, <1>5, <2>1, Linked, ChangePublishes DEF CreateFile, Names, Control!Next
  <2>2. CASE Unlink("temp")
    BY <1>5, <2>2, CleanupStutters DEF CreateFile
  <2> QED BY <1>5, <2>1, <2>2 DEF CreateFile, Fails
<1>6. CASE MoveFile
  <2>1. CASE Link("path", "other")
    BY <1>1, <1>6, <2>1, Linked, ChangePublishes DEF MoveFile, Names, Control!Next
  <2>2. CASE Same
    BY <1>6, <2>2, SameStutters DEF MoveFile, Same
  <2> QED BY <1>6, <2>1, <2>2 DEF MoveFile
<1>7. CASE RenameFile
  <2>1. CASE Rename("path", "other")
    BY <1>1, <1>7, <2>1, Renamed, ChangePublishes DEF RenameFile, Names, Control!Next
  <2>2. CASE Same
    BY <1>7, <2>2, SameStutters DEF RenameFile, Same
  <2> QED BY <1>7, <2>1, <2>2 DEF RenameFile
<1>8. CASE RemoveFile
  <2>1. CASE Unlink("path")
    BY <1>1, <1>8, <2>1, Unlinked, ChangePublishes DEF RemoveFile, Names, Control!Next
  <2>2. CASE Same
    BY <1>8, <2>2, SameStutters DEF RemoveFile, Same
  <2> QED BY <1>8, <2>1, <2>2 DEF RemoveFile
<1>9. CASE SyncLink \/ Confirm
  <2>1. CASE Synced
    BY <1>9, <2>1, SyncConfirms DEF SyncLink, Confirm, Control!Next
  <2>2. CASE Same
    BY <1>9, <2>2, SameStutters DEF SyncLink, Confirm, Same
  <2> QED BY <1>9, <2>1, <2>2 DEF SyncLink, Confirm
<1>10. CASE RemoveLink
  <2>1. CASE Unlink(Source)
    <3>1. Source \in Names
      BY DEF Source, Names
    <3> QED BY <1>1, <1>10, <2>1, <3>1, Unlinked, ChangePublishes DEF RemoveLink, Control!Next
  <2>2. CASE Unlink("temp")
    BY <1>10, <2>2, CleanupStutters DEF RemoveLink
  <2>3. CASE Same
    BY <1>10, <2>3, SameStutters DEF RemoveLink, Same
  <2> QED BY <1>10, <2>1, <2>2, <2>3 DEF RemoveLink, Fails
<1> QED BY <1>2, <1>3, <1>4, <1>5, <1>6, <1>7, <1>8, <1>9, <1>10 DEF Call

LEMMA OwnerAddsMaps == ASSUME IInv, IInv', OwnerAdds PROVE Stutters \/ Control!Next
<1>1. TypeOK /\ PathWhole'
  BY DEF IInv
<1>2. PICK n \in {"path", "other"}, i \in Free, v \in Versions :
        /\ Enter(n, i)
        /\ file' = [file EXCEPT ![i] = [now |-> v, kept |-> v, stamp |-> 1]]
  BY DEF OwnerAdds
<1>3. i \in Inodes /\ \A d \in disks : \A m \in Names : d[m] # i
  BY <1>1, FreeUnused
<1>4. Altered({n})
  BY <1>1, <1>2, <1>3, Entered DEF Names
<1>5. \A d \in disks : d["path"] # None => file'[d["path"]] = file[d["path"]]
  BY <1>1, <1>2, <1>3 DEF TypeOK, Names
<1>6. disks \subseteq disks' /\ names' \in disks'
  BY <1>4 DEF Altered
<1>7. \A e \in disks' : e["path"] = names'["path"] \/ \E d \in disks : e["path"] = d["path"]
  BY <1>1, <1>4, AlteredDirs DEF Names
<1>8. names'["path"] # None => file'[names'["path"]].now \in Versions
  BY <1>1, <1>6 DEF PathWhole
<1> QED BY <1>1, <1>5, <1>6, <1>7, <1>8, PathPublished DEF Control!Next

LEMMA OwnerEditsMaps == ASSUME IInv, OwnerEdits PROVE Stutters
<1>1. TypeOK
  BY DEF IInv
<1>2. PICK i \in Inodes, v \in Versions :
        /\ \A d \in disks : d["path"] # i
        /\ file' = [file EXCEPT ![i].now = v, ![i].stamp = @ + 1]
        /\ UNCHANGED <<names, disks>>
  BY DEF OwnerEdits
<1>3. \A j \in Inodes \ {i} : file'[j] = file[j]
  BY <1>1, <1>2 DEF TypeOK
<1>4. \A d \in disks : d["path"] # None => file'[d["path"]] = file[d["path"]]
  BY <1>1, <1>2, <1>3 DEF TypeOK, Names
<1> QED BY <1>1, <1>2, <1>4, PathUnchanged DEF Stutters

LEMMA PowerLossMaps == ASSUME IInv, PowerLoss PROVE Control!PowerLoss
<1>1. TypeOK /\ PathWhole
  BY DEF IInv
<1>2. names' \in disks /\ disks' = {names'} /\ \A i \in Inodes : file'[i] \in AfterLoss(file[i])
  BY DEF PowerLoss
<1>3. names'["path"] # None => names'["path"] \in Inodes /\ file'[names'["path"]] = file[names'["path"]]
  BY <1>1, <1>2, SyncedSurvives DEF TypeOK, Names, PathWhole
<1>4. Value' = ContentOf(names'["path"])
  BY <1>3 DEF Value, ContentOf
<1>5. Value' \in May
  BY <1>2, <1>4 DEF May
<1>6. May' = {Value'}
  BY <1>2 DEF May, Value
<1> QED BY <1>5, <1>6 DEF Control!PowerLoss, Value, May

LEMMA NextMaps ==
  ASSUME IInv, IInv', [Next]_vars
  PROVE  Stutters \/ Control!Next
<1>1. CASE Call
  BY <1>1, CallMaps
<1>2. CASE Begin \/ Inspect \/ Open \/ ReadHalf \/ InspectAgain
  BY <1>2, SameStutters DEF Begin, Inspect, Open, ReadHalf, InspectAgain, Reads
<1>3. CASE OwnerAdds
  BY <1>3, OwnerAddsMaps
<1>4. CASE OwnerEdits
  BY <1>4, OwnerEditsMaps
<1>5. CASE PowerLoss
  BY <1>5, PowerLossMaps DEF Control!Next
<1>6. CASE UNCHANGED vars
  BY <1>6, SameStutters DEF vars
<1> QED BY <1>1, <1>2, <1>3, <1>4, <1>5, <1>6 DEF Next

\* The control file of Replace, Rename and Remove is an AtomicFile: the directory
\* and the inodes behind it implement one content that changes at once and that
\* a power loss takes back no further than the last confirmed one.
THEOREM ControlFileAtomic == Spec => ControlIsAtomic
<1>1. Init => Control!Init
  <2> SUFFICES ASSUME Init PROVE Value = None /\ May = {None}
    BY DEF Control!Init, Value, May
  <2>1. disks = {names} /\ names["path"] = None
    BY DEF Init, Names
  <2> QED BY <2>1 DEF Value, May, ContentOf
<1>2. IInv /\ IInv' /\ [Next]_vars => [Control!Next]_<<Value, May>>
  BY NextMaps DEF Stutters
<1>3. Spec => [][Control!Next]_<<Value, May>>
  BY <1>2, Inductive, PTL DEF Spec
<1>4. Spec => Control!Init
  BY <1>1 DEF Spec
<1>5. [][Control!Next]_<<Value, May>> /\ Control!Init => Control!Spec
  BY DEF Control!Spec, Value, May
<1> QED BY <1>3, <1>4, <1>5 DEF ControlIsAtomic
=============================================================================
