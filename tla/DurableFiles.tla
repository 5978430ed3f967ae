------------------------------ MODULE DurableFiles ------------------------------
(***************************************************************************)
(* internal/durablefs in a directory of a file system that forgets, at a    *)
(* power loss, whatever was not synced: data of a file not fsynced, and     *)
(* changes of names since the directory was. Replace, CreateExclusive,      *)
(* MoveExclusive, Rename and Remove run one system call at a time;          *)
(* ReadStable of another goroutine and the owner of the folder act between  *)
(* any two of them.                                                         *)
(***************************************************************************)
EXTENDS Naturals

CONSTANTS Versions,   \* contents written whole
          Partial,    \* content cut short
          Inodes, None,
          Hazards,    \* disturbances a behaviour may meet
          Budget,     \* how many
          MaxCalls    \* bound: calls of a behaviour

ASSUME FilesConfig  == None \notin Inodes \cup Versions /\ Partial \notin Versions
ASSUME FilesBounds  == Budget \in Nat /\ MaxCalls \in Nat

Names    == {"path", "other", "temp"}
Contents == Versions \cup {Partial}
Kinds    == {"replace", "create", "move", "rename", "remove"}

VARIABLES
  names,    \* the directory: inode under each name
  disks,    \* the directories a power loss can leave
  file,     \* inodes: content, content on disk, size and time as a stamp
  op,       \* call in progress, the version it writes, the promise it suspends
  pc,       \* its next system call
  result,   \* what the last call returned
  reader,   \* ReadStable: place, name, first inspection, inode opened, halves read
  promised, \* history: version the manager was told is safe
  budget, left

vars == <<names, disks, file, op, pc, result, reader, promised, budget, left>>

\* A change of names may reach the disk by itself, after the changes made to the
\* same names before it.
Follows(d, new) == [n \in Names |-> IF new[n] = names[n] THEN d[n] ELSE new[n]]
Change(new) ==
  LET ready == {d \in disks : \A n \in Names : new[n] # names[n] => d[n] = names[n]}
  IN names' = new /\ disks' = disks \cup {Follows(d, new) : d \in ready}

Enter(n, i)  == Change([names EXCEPT ![n] = i])
Link(n, m)   == Change([names EXCEPT ![m] = names[n]])
Rename(n, m) == Change([names EXCEPT ![m] = names[n], ![n] = None])
Unlink(n)    == Change([names EXCEPT ![n] = None])

Synced    == disks' = {names} /\ UNCHANGED names
Same      == UNCHANGED <<names, disks>>

NoOp   == [kind |-> "none", v |-> None, was |-> None]
NoRead == [at |-> "idle", name |-> "path", before |-> [inode |-> None, stamp |-> 0],
           inode |-> None, halves |-> <<None, None>>]

TypeOK ==
  /\ disks \subseteq [Names -> Inodes \cup {None}] /\ names \in disks
  /\ file \in [Inodes -> [now : Contents, kept : Contents, stamp : Nat]]
  /\ op \in [kind : Kinds \cup {"none"}, v : Versions \cup {None}, was : Versions \cup {None}]
  /\ pc \in {"idle", "temp", "write", "fsync", "publish", "sync", "unlink", "confirm"}
  /\ result \in {"none", "done", "failed", "exists", "unknown"}
  /\ reader.at \in {"idle", "open", "first", "second", "again", "read"}
  /\ promised \in Versions \cup {None}
  /\ budget \in 0..Budget /\ left \in 0..MaxCalls
  /\ pc = "idle" <=> op = NoOp

Init ==
  /\ names = [n \in Names |-> None] /\ disks = {names}
  /\ file = [i \in Inodes |-> [now |-> Partial, kept |-> Partial, stamp |-> 0]]
  /\ op = NoOp /\ pc = "idle" /\ result = "none" /\ reader = NoRead /\ promised = None
  /\ budget = Budget /\ left = MaxCalls

Hazard(h) == h \in Hazards /\ budget > 0 /\ budget' = budget - 1 /\ UNCHANGED left
Calm      == UNCHANGED <<budget, left>>

Used == {reader.inode, reader.before.inode} \cup {d[n] : d \in disks, n \in Names}
Free == Inodes \ Used
Stat(n) == [inode |-> names[n], stamp |-> IF names[n] = None THEN 0 ELSE file[names[n]].stamp]

-----------------------------------------------------------------------------
\* Calls of the manager.

Goes(p) == pc' = p /\ UNCHANGED <<op, result, promised>>

\* A version is promised once a call that wrote it has said so; a call that may
\* take it away suspends the promise, and restores it by failing plainly.
Returns(r) ==
  /\ result' = r /\ pc' = "idle" /\ op' = NoOp
  /\ promised' = CASE r = "done" /\ op.v # None -> op.v
                   [] r \in {"failed", "exists"} -> op.was
                   [] OTHER -> promised

\* The deferred removal of the temporary file.
Fails(r) == Returns(r) /\ Unlink("temp") /\ UNCHANGED file

Begin ==
  \E kind \in Kinds, v \in Versions \cup {None} :
    /\ pc = "idle" /\ left > 0 /\ left' = left - 1
    /\ kind \in {"replace", "create"} <=> v # None
    /\ kind \in {"move", "rename", "remove"} => names["path"] # None
    /\ kind = "rename" => names["other"] = None
    /\ op' = [kind |-> kind, v |-> v, was |-> promised]
    /\ pc' = IF v # None THEN "temp" ELSE "publish"
    /\ promised' = IF kind \in {"replace", "remove"} THEN None ELSE promised
    /\ UNCHANGED <<names, disks, file, result, reader, budget>>

\* mutant: the file is written under its own name
CreateInPlace ==
  /\ pc = "temp" /\ UNCHANGED reader
  /\ \E i \in Free :
       /\ Calm /\ Enter("path", i) /\ Goes("write")
       /\ file' = [file EXCEPT ![i] = [now |-> Partial, kept |-> Partial, stamp |-> 0]]

\* writeTemporary, with a name of its own.
CreateTemp ==
  /\ pc = "temp" /\ UNCHANGED reader
  /\ \/ \E i \in Free :
          /\ Calm /\ Enter("temp", i) /\ Goes("write")
          /\ file' = [file EXCEPT ![i] = [now |-> Partial, kept |-> Partial, stamp |-> 0]]
     \/ Hazard("fail") /\ Returns("failed") /\ UNCHANGED <<names, disks, file>>

WriteTemp ==
  /\ pc = "write" /\ UNCHANGED reader
  /\ \/ Calm /\ file' = [file EXCEPT ![names["temp"]].now = op.v] /\ Goes("fsync") /\ Same
     \/ Hazard("fail") /\ Fails("failed")

SyncTemp ==
  /\ pc = "fsync" /\ UNCHANGED reader
  /\ \/ Calm /\ file' = [file EXCEPT ![names["temp"]].kept = op.v] /\ Goes("publish") /\ Same
     \/ Hazard("fail") /\ Fails("failed")

\* rename(2) takes the place of what is there; a failure may have done it.
ReplaceFile ==
  /\ pc = "publish" /\ op.kind = "replace" /\ UNCHANGED <<file, reader>>
  /\ \/ Calm /\ Rename("temp", "path") /\ Goes("confirm")
     \/ Hazard("fail") /\ Returns("unknown") /\ Rename("temp", "path")
     \/ Hazard("fail") /\ Fails("unknown")
     \/ Hazard("cancel") /\ Fails("failed")

\* mutant: the name is looked at, then taken by rename(2)
CreateOver ==
  /\ pc = "publish" /\ op.kind = "create" /\ UNCHANGED <<file, reader>>
  /\ \/ Calm /\ Link("temp", "path") /\ Goes("unlink")
     \/ Hazard("fail") /\ Fails("failed")

\* link(2) refuses a name in use.
CreateFile ==
  /\ pc = "publish" /\ op.kind = "create" /\ UNCHANGED <<file, reader>>
  /\ \/ names["path"] = None /\ Calm /\ Link("temp", "path") /\ Goes("unlink")
     \/ names["path"] # None /\ Calm /\ Fails("exists")
     \/ Hazard("fail") /\ Fails("failed")
     \/ Hazard("cancel") /\ Fails("failed")

MoveFile ==
  /\ pc = "publish" /\ op.kind = "move" /\ UNCHANGED <<file, reader>>
  /\ \/ /\ names["path"] # None /\ names["other"] = None /\ Calm
        /\ Link("path", "other") /\ Goes("sync")
     \/ names["path"] # None /\ names["other"] # None /\ Calm /\ Returns("exists") /\ Same
     \/ names["path"] = None /\ Calm /\ Returns("failed") /\ Same
     \/ Hazard("fail") /\ Returns("failed") /\ Same

RenameFile ==
  /\ pc = "publish" /\ op.kind = "rename" /\ UNCHANGED <<file, reader>>
  /\ \/ /\ names["path"] # None /\ Calm
        /\ Rename("path", "other") /\ Goes("confirm")
     \/ names["path"] = None /\ Calm /\ Returns("unknown") /\ Same
     \/ Hazard("fail") /\ Returns("unknown") /\ Same

RemoveFile ==
  /\ pc = "publish" /\ op.kind = "remove" /\ UNCHANGED <<file, reader>>
  /\ \/ names["path"] # None /\ Calm /\ Unlink("path") /\ Goes("confirm")
     \/ names["path"] = None /\ Calm /\ Returns("unknown") /\ Same
     \/ Hazard("fail") /\ Returns("unknown") /\ Same

\* mutant: the move takes one sync of the directory to do
SyncNothing ==
  /\ pc = "sync" /\ Calm /\ Goes("unlink") /\ UNCHANGED <<names, disks, file, reader>>

\* syncDirectory between the two halves of a move.
SyncLink ==
  /\ pc = "sync" /\ UNCHANGED <<file, reader>>
  /\ \/ Calm /\ Synced /\ Goes("unlink")
     \/ Hazard("fail") /\ Returns("unknown") /\ Same

\* The link that is no longer needed: the temporary file, or a move's source.
Source == IF op.kind = "create" THEN "temp" ELSE "path"

RemoveLink ==
  /\ pc = "unlink" /\ UNCHANGED <<file, reader>>
  /\ \/ names[Source] # None /\ Calm /\ Unlink(Source) /\ Goes("confirm")
     \/ names[Source] = None /\ Calm /\ Returns("unknown") /\ Same
     \/ Hazard("fail") /\ Fails("unknown")
     \/ op.kind = "move" /\ Hazard("cancel") /\ Fails("unknown")

Confirm ==
  /\ pc = "confirm" /\ UNCHANGED <<file, reader>>
  /\ \/ Calm /\ Synced /\ Returns("done")
     \/ Hazard("fail") /\ Returns("unknown") /\ Same

Call == \/ CreateTemp \/ WriteTemp \/ SyncTemp \/ ReplaceFile \/ CreateFile \/ MoveFile \/ RenameFile
        \/ RemoveFile \/ SyncLink \/ RemoveLink \/ Confirm

-----------------------------------------------------------------------------
\* ReadStable.

Reads == Calm /\ UNCHANGED <<names, disks, file, op, pc, result, promised>>

Inspect ==
  \E n \in {"path", "other"} :
    /\ reader.at \in {"idle", "read"} /\ names[n] # None
    /\ reader' = [NoRead EXCEPT !.at = "open", !.name = n, !.before = Stat(n)]
    /\ Reads

\* Open and inspect what was opened.
Open ==
  /\ reader.at = "open"
  /\ reader' = IF Stat(reader.name) = reader.before
               THEN [reader EXCEPT !.at = "first", !.inode = names[reader.name]] ELSE NoRead
  /\ Reads

ReadHalf ==
  /\ reader.at \in {"first", "second"}
  /\ reader' = IF reader.at = "first"
               THEN [reader EXCEPT !.at = "second", !.halves[1] = file[reader.inode].now]
               ELSE [reader EXCEPT !.at = "again", !.halves[2] = file[reader.inode].now]
  /\ Reads

\* mutant: the file opened is inspected, not the name
SameFile == file[reader.inode].stamp >= reader.before.stamp

\* sameStableFile
Unchanged == Stat(reader.name) = reader.before

InspectAgain ==
  /\ reader.at = "again"
  /\ reader' = IF Unchanged THEN [reader EXCEPT !.at = "read", !.inode = None] ELSE NoRead
  /\ Reads

-----------------------------------------------------------------------------
\* Others.

\* A file is saved under a free name.
OwnerAdds ==
  \E n \in {"path", "other"}, i \in Free, v \in Versions :
    /\ names[n] = None /\ Hazard("owner") /\ Enter(n, i)
    /\ file' = [file EXCEPT ![i] = [now |-> v, kept |-> v, stamp |-> 1]]
    /\ UNCHANGED <<op, pc, result, reader, promised>>

\* A file outside the control files is edited in place.
OwnerEdits ==
  \E i \in Inodes, v \in Versions :
    /\ names["other"] = i /\ \A d \in disks : d["path"] # i
    /\ Hazard("edit")
    /\ file' = [file EXCEPT ![i].now = v, ![i].stamp = @ + 1]
    /\ promised' = None /\ op' = [op EXCEPT !.was = None]
    /\ UNCHANGED <<names, disks, pc, result, reader>>

\* Data not synced is there, gone or cut short.
AfterLoss(f) == {[f EXCEPT !.now = c, !.kept = c] :
                   c \in {f.now, f.kept} \cup (IF f.now = f.kept THEN {} ELSE {Partial})}

PowerLoss ==
  /\ Hazard("power")
  /\ names' \in disks /\ disks' = {names'}
  /\ file' \in {f \in [Inodes -> UNION {AfterLoss(file[i]) : i \in Inodes}] :
                  \A i \in Inodes : f[i] \in AfterLoss(file[i])}
  /\ op' = NoOp /\ pc' = "idle" /\ result' = "none" /\ reader' = NoRead
  /\ UNCHANGED promised

Next == Begin \/ Call \/ Inspect \/ Open \/ ReadHalf \/ InspectAgain \/ OwnerAdds \/ OwnerEdits \/ PowerLoss

Spec == Init /\ [][Next]_vars

-----------------------------------------------------------------------------
\* Properties.

\* A version reported as written survives any power loss, whole, under its name
\* or the name it is being moved to (Replace, CreateExclusive, MoveExclusive).
Survives ==
  promised # None =>
    \A d \in disks : \E n \in {"path", "other"} :
      d[n] # None /\ file[d[n]].now = promised /\ file[d[n]].kept = promised

\* A file of somebody else's is never replaced by an exclusive creation or move,
\* though it appears between the inspection and the publication.
NoClobber ==
  [][Call => /\ op.kind = "create" /\ names["path"] # None => names'["path"] = names["path"]
             /\ op.kind = "move" /\ names["other"] # None => names'["other"] = names["other"]]_vars

\* What ReadStable returns was the whole content of the file at one time.
ReadsAreWhole == reader.at = "read" => reader.halves[1] = reader.halves[2]

\* One control file is an AtomicFile: readers see published versions only, and a
\* power loss leaves one that was not yet superseded for good.
ContentOf(i) == IF i = None THEN None ELSE file[i].now
Control == INSTANCE AtomicFile WITH
  Contents <- Versions, Nothing <- None,
  value <- ContentOf(names["path"]), may <- {ContentOf(d["path"]) : d \in disks}

ControlIsAtomic == Control!Spec
=============================================================================
