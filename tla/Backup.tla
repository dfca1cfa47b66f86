------------------------------- MODULE Backup -------------------------------
(***************************************************************************)
(* POST ?backup: createBackup walks the web root and the archive's         *)
(* metadata into a zip file, and restoreBackup writes the files of such an *)
(* archive back, undoing what it did when one of them fails.  Neither      *)
(* takes a lock, so pages are saved and moved while they run.              *)
(*                                                                         *)
(* A file's content is the number of the write that produced it.  Files    *)
(* live in the root or in a directory that may have to be created; a save  *)
(* is the creation of a temporary file and its rename over the page.       *)
(***************************************************************************)
EXTENDS Naturals, FiniteSets

CONSTANTS
  Makers, Restorers,  \* requests that create, or restore, a backup
  Names,        \* the file names a backup may get (time stamp and suffix)
  Files, DirOf, \* what may be in the tree; DirOf[f] # Root may be missing
  Site,         \* the files that exist at the start
  Root, Scratch,\* the top directory; the temporary file of a save
  None, Reserved,
  Faults,       \* the steps that may fail
  MaxWrites     \* bound: changes of the tree by others

Steps == {"copy", "reserve", "publish", "record",
          "open", "capture", "write", "sync", "finish", "undo"}

ASSUME BackupAssumption ==
  /\ Site \subseteq Files \ {Scratch} /\ Scratch \in Files
  /\ Makers \cap Restorers = {}
  /\ None # Reserved
  /\ {None, Reserved} \cap [Files -> 0..MaxWrites] = {}
  /\ Faults \subseteq Steps
  /\ MaxWrites \in Nat \ {0}

Requests == Makers \cup Restorers

Gone     == 0                        \* "no such file"
Versions == 0..MaxWrites
Trees    == [Files -> Versions]
NotSeen  == [f \in Files |-> {}]
Empty    == [f \in Files |-> Gone]

VARIABLES
  live, dirs,   \* the files, and the directories below the root that exist
  writes,       \* the number of writes, renames and losses
  zips,         \* zips[n]: the archive called n, None or Reserved
  pc, name,     \* of each request: next step, the archive it is about
  unlisted,     \* directories the walk has yet to list
  todo,         \* files still to copy, capture, write, or put back
  zip,          \* the archive being written, or restored
  undo, made,   \* rollbackEntries: contents, and the files with CreatedDirs
  reply,
  seen,         \* seen[m][f]: what f held while m walked: history
  found         \* found[r]: how r found the tree and the other restores: history

tree == <<live, dirs, writes, seen>>
walk == <<name, unlisted, todo, zip>>
back == <<undo, made, found>>
vars == <<tree, zips, pc, walk, back, reply>>

Targets(z) == {f \in Files : z[f] # Gone}

Goto(r, from, to) == pc[r] = from /\ pc' = [pc EXCEPT ![r] = to]

\* The answer; what the request knew is gone with it.
Answer(r, from, what) ==
  /\ Goto(r, from, "done")
  /\ reply' = [reply EXCEPT ![r] = what]
  /\ unlisted' = [unlisted EXCEPT ![r] = {}] /\ todo' = [todo EXCEPT ![r] = {}]
  /\ zip' = [zip EXCEPT ![r] = Empty]
  /\ undo' = [undo EXCEPT ![r] = Empty] /\ made' = [made EXCEPT ![r] = {}]

Active(R) == {r \in R : pc[r] \notin {"idle", "done"}}

\* The files become t; the walks under way may have met any state of theirs.
Become(t) == /\ live' = t
             /\ seen' = [m \in Makers |-> IF pc[m] # "walk" THEN seen[m]
                           ELSE [f \in Files |-> seen[m][f] \cup {t[f]}]]

Parent(f) == {DirOf[f]} \ {Root}

Init ==
  /\ live = [f \in Files |-> IF f \in Site THEN 1 ELSE Gone]
  /\ dirs = UNION {Parent(f) : f \in Site} /\ writes = 1
  /\ zips = [n \in Names |-> None]
  /\ pc = [r \in Requests |-> "idle"] /\ name = [r \in Requests |-> None]
  /\ unlisted = [r \in Requests |-> {}] /\ todo = [r \in Requests |-> {}]
  /\ zip = [r \in Requests |-> Empty]
  /\ undo = [r \in Requests |-> Empty] /\ made = [r \in Requests |-> {}]
  /\ reply = [r \in Requests |-> "none"]
  /\ seen = [m \in Makers |-> NotSeen]
  /\ found = [r \in Restorers |-> None]
-----------------------------------------------------------------------------
(* Saves, moves and losses, meanwhile *)

Disturb == writes < MaxWrites /\ writes' = writes + 1

\* The temporary file of a save, and its directory.
Stage ==
  /\ Disturb
  /\ live[Scratch] = Gone
  /\ dirs' = dirs \cup Parent(Scratch)
  /\ Become([live EXCEPT ![Scratch] = writes'])
  /\ UNCHANGED <<zips, pc, walk, back, reply>>

\* The temporary file over its page, or a page to a URI that has none.
Rename(f, g) ==
  /\ Disturb
  /\ live[f] # Gone /\ f # g /\ g # Scratch
  /\ IF f = Scratch THEN DirOf[g] = DirOf[f] ELSE live[g] = Gone
  /\ dirs' = dirs \cup Parent(g)
  /\ Become([live EXCEPT ![g] = live[f], ![f] = Gone])
  /\ UNCHANGED <<zips, pc, walk, back, reply>>

\* Somebody deletes a directory and its files: what backups are for.
Lose(d) ==
  /\ Disturb
  /\ dirs' = dirs \ {d}
  /\ Become([f \in Files |-> IF DirOf[f] = d THEN Gone ELSE live[f]])
  /\ UNCHANGED <<zips, pc, walk, back, reply>>

Outside == \/ Stage \/ \E f, g \in Files : Rename(f, g)
           \/ \E d \in {DirOf[f] : f \in Files} : Lose(d)
-----------------------------------------------------------------------------
(* createBackup *)

BeginBackup(m) ==
  /\ Goto(m, "idle", "walk")
  /\ unlisted' = [unlisted EXCEPT ![m] = {Root}]
  /\ seen' = [seen EXCEPT ![m] = [f \in Files |-> {live[f]}]]
  /\ UNCHANGED <<live, dirs, writes, zips, name, todo, zip, back, reply>>

\* Mutant: a directory is skipped, its files with it.
List_Flat(m, d) ==
  /\ pc[m] = "walk" /\ d \in unlisted[m]
  /\ todo' = [todo EXCEPT ![m] = @ \cup {f \in Targets(live) : DirOf[f] = d}]
  /\ unlisted' = [unlisted EXCEPT ![m] = @ \ {d}]
  /\ UNCHANGED <<tree, zips, pc, name, zip, back, reply>>

\* addDirectoryToZip: WalkDir reads a whole directory, then its entries.
List(m, d) ==
  /\ pc[m] = "walk" /\ d \in unlisted[m] \cap (dirs \cup {Root})
  /\ todo' = [todo EXCEPT ![m] = @ \cup {f \in Targets(live) : DirOf[f] = d}]
  /\ unlisted' = [unlisted EXCEPT ![m] = (@ \ {d}) \cup (IF d = Root THEN dirs ELSE {})]
  /\ UNCHANGED <<tree, zips, pc, name, zip, back, reply>>

\* addFileToZip reads the file it opens to the end, also if it is replaced.
Copy(m, f) ==
  /\ pc[m] = "walk" /\ f \in todo[m]
  /\ live[f] # Gone
  /\ zip' = [zip EXCEPT ![m][f] = live[f]]
  /\ todo' = [todo EXCEPT ![m] = @ \ {f}]
  /\ UNCHANGED <<tree, zips, pc, name, unlisted, back, reply>>

\* A file, or a directory, that is not there any more fails the backup.
CopyFails(m) ==
  /\ Answer(m, "walk", "failed")
  /\ \/ "copy" \in Faults
     \/ \E f \in todo[m] : live[f] = Gone
     \/ ~(unlisted[m] \subseteq dirs \cup {Root})
  /\ UNCHANGED <<tree, zips, name, found>>

\* reserveUniqueBackupPath: an empty file, created with O_EXCL.
Reserve(m, n) ==
  /\ Goto(m, "walk", "publish")
  /\ todo[m] = {} /\ unlisted[m] = {}
  /\ zips[n] = None
  /\ zips' = [zips EXCEPT ![n] = Reserved]
  /\ name' = [name EXCEPT ![m] = n]
  /\ UNCHANGED <<tree, unlisted, todo, zip, back, reply>>

ReserveFails(m) ==
  /\ Answer(m, "walk", "failed")
  /\ todo[m] = {} /\ unlisted[m] = {}
  /\ "reserve" \in Faults \/ \A n \in Names : zips[n] # None
  /\ UNCHANGED <<tree, zips, name, found>>

\* The finished file takes the place of the reservation ...
Publish(m) ==
  /\ Goto(m, "publish", "record")
  /\ zips' = [zips EXCEPT ![name[m]] = zip[m]]
  /\ seen' = [seen EXCEPT ![m] = NotSeen]
  /\ UNCHANGED <<live, dirs, writes, walk, back, reply>>

\* ... which is given up if that fails.
PublishFails(m) ==
  /\ "publish" \in Faults
  /\ Answer(m, "publish", "failed")
  /\ zips' = [zips EXCEPT ![name[m]] = None]
  /\ UNCHANGED <<tree, name, found>>

\* The checksum beside it, and the row of recordBackup: without them the
\* backup has failed, but the archive stays.
Record(m) ==
  /\ \/ Answer(m, "record", "ok")
     \/ "record" \in Faults /\ Answer(m, "record", "failed")
  /\ UNCHANGED <<tree, zips, name, found>>
-----------------------------------------------------------------------------
(* restoreBackup *)

Waiting == {r \in Restorers : pc[r] = "idle"}

\* The archive is opened and its names are checked before anything is written;
\* a reservation is no archive.
BeginRestore(r, n) ==
  /\ zips[n] \notin {None, Reserved}
  /\ Goto(r, "idle", "capture")
  /\ name' = [name EXCEPT ![r] = n]
  /\ zip' = [zip EXCEPT ![r] = zips[n]]
  /\ todo' = [todo EXCEPT ![r] = Targets(zips[n])]
  /\ found' = [found EXCEPT ![r] = 
                 [live |-> live, dirs |-> dirs, writes |-> writes,
                  alone |-> Active(Restorers) = {}, waiting |-> Waiting \ {r}]]
  /\ UNCHANGED <<tree, zips, unlisted, undo, made, reply>>

\* No such archive, one that cannot be read, or an entry whose name or place the
\* checks refuse (a symbolic link, a path that leaves the root).
BeginRestoreFails(r, n) ==
  /\ zips[n] \in {None, Reserved} \/ "open" \in Faults
  /\ Answer(r, "idle", "failed")
  /\ UNCHANGED <<tree, zips, name, found>>

\* captureRestoreRollbackEntry, for every target, with the parents it lacks.
Capture(r, f) ==
  /\ pc[r] = "capture" /\ f \in todo[r]
  /\ undo' = [undo EXCEPT ![r][f] = live[f]]
  /\ made' = [made EXCEPT ![r] = IF Parent(f) \subseteq dirs THEN @ ELSE @ \cup {f}]
  /\ todo' = [todo EXCEPT ![r] = @ \ {f}]
  /\ UNCHANGED <<tree, zips, pc, name, unlisted, zip, found, reply>>

CaptureFails(r) ==
  /\ "capture" \in Faults
  /\ Answer(r, "capture", "failed")
  /\ UNCHANGED <<tree, zips, name, found>>

Captured(r) ==
  /\ Goto(r, "capture", "write")
  /\ todo[r] = {}
  /\ todo' = [todo EXCEPT ![r] = Targets(zip[r])]
  /\ UNCHANGED <<tree, zips, name, unlisted, zip, back, reply>>

\* Mutant: a file that is there is kept.
Restored_Keeps(r, f) ==
  /\ f \in todo[r]
  /\ dirs' = dirs \cup Parent(f)
  /\ Become([live EXCEPT ![f] = IF @ = Gone THEN zip[r][f] ELSE @])

\* restoreZipFile: MkdirAll, and atomicWriteFile.
Restored(r, f) ==
  /\ f \in todo[r]
  /\ dirs' = dirs \cup Parent(f)
  /\ Become([live EXCEPT ![f] = zip[r][f]])

Write(r, f) ==
  /\ pc[r] = "write"
  /\ Restored(r, f)
  /\ todo' = [todo EXCEPT ![r] = @ \ {f}]
  /\ UNCHANGED <<writes, zips, pc, name, unlisted, zip, back, reply>>

\* Mutant: only the targets that were finished are put back.
Undoing_Finished(r) ==
  /\ todo' = [todo EXCEPT ![r] = Targets(zip[r]) \ todo[r]]
  /\ UNCHANGED <<writes, zips, name, unlisted, zip, back, reply>>

\* rollbackOnError: every target is put back, also those not written yet.
Undoing(r) == /\ todo' = [todo EXCEPT ![r] = Targets(zip[r])]
              /\ UNCHANGED <<writes, zips, name, unlisted, zip, back, reply>>

\* It fails before the rename, the directory made or not, or after it.
WriteFails(r, f) ==
  /\ Goto(r, "write", "undo") /\ f \in todo[r]
  /\ \/ "write" \in Faults /\ UNCHANGED <<live, seen, dirs>>
     \/ "write" \in Faults /\ dirs' = dirs \cup Parent(f) /\ UNCHANGED <<live, seen>>
     \/ "sync" \in Faults /\ Restored(r, f)
  /\ Undoing(r)

\* The checksum and recordBackup.
Finish(r) ==
  /\ Answer(r, "write", "ok")
  /\ todo[r] = {}
  /\ UNCHANGED <<tree, zips, name, found>>

FinishFails(r) ==
  /\ "finish" \in Faults
  /\ Goto(r, "write", "undo") /\ todo[r] = {}
  /\ Undoing(r)
  /\ UNCHANGED <<live, dirs, seen>>

\* Mutant: the directories are removed whether they are empty or not.
PutBack_Forced(r, f) ==
  /\ pc[r] = "undo" /\ f \in todo[r]
  /\ Become([live EXCEPT ![f] = undo[r][f]])
  /\ dirs' = IF undo[r][f] # Gone THEN dirs \cup Parent(f)
             ELSE dirs \ {d \in Parent(f) : f \in made[r]}
  /\ todo' = [todo EXCEPT ![r] = @ \ {f}]
  /\ UNCHANGED <<writes, zips, pc, name, unlisted, zip, back, reply>>

\* rollbackRestore: the old content is written again; a file that was not
\* there is removed, and the directories that were not, once they are empty.
PutBack(r, f) ==
  /\ pc[r] = "undo" /\ f \in todo[r]
  /\ Become([live EXCEPT ![f] = undo[r][f]])
  /\ dirs' = IF undo[r][f] # Gone THEN dirs \cup Parent(f)
             ELSE dirs \ {d \in Parent(f) : /\ f \in made[r]
                                           /\ \A g \in Targets(live') : DirOf[g] # d}
  /\ todo' = [todo EXCEPT ![r] = @ \ {f}]
  /\ UNCHANGED <<writes, zips, pc, name, unlisted, zip, back, reply>>

\* "rollback failed": the rest of the entries is left as it is.
PutBackFails(r) ==
  /\ "undo" \in Faults /\ todo[r] # {}
  /\ Answer(r, "undo", "broken")
  /\ UNCHANGED <<tree, zips, name, found>>

Undone(r) ==
  /\ Answer(r, "undo", "failed")
  /\ todo[r] = {}
  /\ UNCHANGED <<tree, zips, name, found>>
-----------------------------------------------------------------------------
Make(m) == \/ BeginBackup(m)
           \/ \E d \in unlisted[m] : List(m, d)
           \/ \E f \in todo[m] : Copy(m, f)
           \/ CopyFails(m)
           \/ \E n \in Names : Reserve(m, n)
           \/ ReserveFails(m)
           \/ Publish(m) \/ PublishFails(m) \/ Record(m)

Restore(r) == \/ \E n \in Names : BeginRestore(r, n) \/ BeginRestoreFails(r, n)
              \/ \E f \in todo[r] : Capture(r, f) \/ Write(r, f) \/ WriteFails(r, f) \/ PutBack(r, f)
              \/ CaptureFails(r) \/ Captured(r)
              \/ Finish(r) \/ FinishFails(r) \/ PutBackFails(r) \/ Undone(r)

Next == \/ Outside
        \/ \E m \in Makers : Make(m)
        \/ \E r \in Restorers : Restore(r)

Spec == Init /\ [][Next]_vars
-----------------------------------------------------------------------------
(* Correctness *)

\* No file hangs in the air: the directory of every file exists.
TypeOK ==
  /\ \A f \in Targets(live) : DirOf[f] \in dirs \cup {Root}
  /\ live \in Trees /\ dirs \subseteq {DirOf[f] : f \in Files} \ {Root}
  /\ writes \in 0..MaxWrites
  /\ zips \in [Names -> Trees \cup {None, Reserved}]
  /\ pc \in [Requests -> {"idle", "walk", "publish", "record", "capture", "write", "undo", "done"}]
  /\ name \in [Requests -> Names \cup {None}]
  /\ unlisted \in [Requests -> SUBSET ({DirOf[f] : f \in Files} \cup {Root})]
  /\ todo \in [Requests -> SUBSET Files]
  /\ zip \in [Requests -> Trees] /\ undo \in [Requests -> Trees]
  /\ made \in [Requests -> SUBSET Files]
  /\ reply \in [Requests -> {"none", "ok", "failed", "broken"}]

\* A finished backup shows no file in a state it never had while the backup
\* ran, and misses only files that were missing at some moment of it.
BackupIsFaithful ==
  \A m \in Makers : pc[m] = "publish" =>
    \A f \in Files : zip[m][f] \in seen[m][f]

\* No page was saved, moved or lost since r began, and no other restore ran.
Undisturbed(r) == /\ found[r] # None /\ found[r].alone
                  /\ writes = found[r].writes /\ Waiting = found[r].waiting

\* A restore that failed, and whose rollback did not, leaves no trace, not even a
\* directory, if nobody else changed the tree meanwhile.
FailedRestoreLeavesNoTrace ==
  \A r \in Restorers : pc[r] = "done" /\ reply[r] = "failed" /\ Undisturbed(r) =>
    live = found[r].live /\ dirs = found[r].dirs

\* A restore that succeeded has brought back every file of the archive, and
\* left all others alone, if nobody else changed the tree meanwhile.
RestoreBringsBack ==
  \A r \in Restorers : pc[r] = "done" /\ reply[r] = "ok" /\ Undisturbed(r) =>
    LET z == zips[name[r]]
    IN  live = [f \in Files |-> IF z[f] # Gone THEN z[f] ELSE found[r].live[f]]
=============================================================================
