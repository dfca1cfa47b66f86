---------------------------- MODULE BackupProofs ----------------------------
(***************************************************************************)
(* What createBackup and restoreBackup achieve without a lock, for any     *)
(* number of requests, files, archives and changes of the tree.            *)
(*                                                                         *)
(* A walk is followed by Covered: a file that is not yet in the archive is *)
(* still to come, or was missing at some moment.  A restore is followed by *)
(* Undoable: while nobody disturbs it, the tree is what it found, changed  *)
(* exactly by the writes it has done and the undoing it has left.          *)
(***************************************************************************)
EXTENDS Backup, TLAPS

Folders == {DirOf[f] : f \in Files}

\* Each request goes through the steps of its own kind.
Stages ==
  /\ \A m \in Makers : pc[m] \in {"idle", "walk", "publish", "record", "done"}
  /\ \A r \in Restorers : pc[r] \in {"idle", "capture", "write", "undo", "done"}

\* A request that has not begun knows nothing.
Fresh == \A q \in Requests : pc[q] = "idle" =>
           /\ unlisted[q] = {} /\ todo[q] = {} /\ zip[q] = Empty
           /\ undo[q] = Empty /\ made[q] = {}

\* What a restore remembers of its beginning.
Finding == [live : Trees, dirs : SUBSET (Folders \ {Root}), writes : Nat,
            alone : BOOLEAN, waiting : SUBSET Restorers]

\* What r knows of its beginning is of a tree it may have met.
Begun(r) ==
  /\ found[r] \in Finding
  /\ \A f \in Targets(found[r].live) : DirOf[f] \in found[r].dirs \cup {Root}
  /\ found[r].writes <= writes
  /\ Waiting \subseteq found[r].waiting /\ r \notin found[r].waiting

Histories ==
  /\ seen \in [Makers -> [Files -> SUBSET Versions]]
  /\ found \in [Restorers -> Finding \cup {None}]
  /\ \A r \in Restorers : found[r] # None => Begun(r)

Shape == TypeOK /\ Stages /\ Fresh /\ Histories

\* A reservation belongs to one backup, until that publishes or gives it up.
Owned ==
  \A m \in Makers : pc[m] = "publish" =>
    /\ name[m] \in Names /\ zips[name[m]] = Reserved
    /\ \A l \in Makers : pc[l] = "publish" /\ name[l] = name[m] => l = m

\* What a restore reads is an archive, and stays one.
Reads(r) ==
  /\ found[r] # None => /\ pc[r] # "idle"
                        /\ name[r] \in Names /\ zips[name[r]] \in Trees
  /\ pc[r] \in {"capture", "write", "undo"} =>
       /\ name[r] \in Names /\ zips[name[r]] \in Trees
       /\ zip[r] = zips[name[r]] /\ todo[r] \subseteq Targets(zip[r])

Reading == \A r \in Restorers : Reads(r)

\* A file the walk has not copied is still to come, or was not there once.
Coming(m, f) == \/ f \in todo[m]
                \/ Root \in unlisted[m] \/ DirOf[f] \in unlisted[m]
                \/ Gone \in seen[m][f]

Covers(m) ==
  /\ pc[m] = "walk" =>
       \A f \in Files : /\ live[f] \in seen[m][f]
                        /\ zip[m][f] # Gone => zip[m][f] \in seen[m][f]
                        /\ zip[m][f] = Gone => Coming(m, f)
  /\ pc[m] = "publish" => \A f \in Files : zip[m][f] \in seen[m][f]

Covered == \A m \in Makers : Covers(m)

\* A restore that nobody disturbed is the only one.
Alone ==
  \A r \in Restorers : Undisturbed(r) =>
    \A q \in Restorers \ {r} : pc[q] \in {"idle", "done"}

\* The targets r has finished with in this phase, and the tree it began with.
Past(r)   == Targets(zip[r]) \ todo[r]
Before(r) == found[r].live

\* What r has noted about the files in D, to put them back.
Noted(r, D) ==
  /\ undo[r] = [f \in Files |-> IF f \in D THEN Before(r)[f] ELSE Gone]
  /\ made[r] = {f \in D : ~(Parent(f) \subseteq found[r].dirs)}

Captures(r) == /\ live = Before(r) /\ dirs = found[r].dirs
               /\ Noted(r, Past(r))

Writes(r) ==
  /\ Noted(r, Targets(zip[r]))
  /\ live = [f \in Files |-> IF f \in Past(r) THEN zip[r][f] ELSE Before(r)[f]]
  /\ dirs = found[r].dirs \cup UNION {Parent(f) : f \in Past(r)}

Undoes(r) ==
  /\ Noted(r, Targets(zip[r]))
  /\ \A f \in Files : live[f] = Before(r)[f] \/ f \in todo[r]
  /\ found[r].dirs \subseteq dirs
  /\ \A d \in dirs \ found[r].dirs : \E f \in todo[r] : DirOf[f] = d

\* What r has done to the tree, and what it answered about it.
Accounted(r) ==
  /\ pc[r] = "capture" => Captures(r)
  /\ pc[r] = "write" => Writes(r)
  /\ pc[r] = "undo" => Undoes(r)
  /\ pc[r] = "done" /\ reply[r] = "failed" => live = Before(r) /\ dirs = found[r].dirs
  /\ pc[r] = "done" /\ reply[r] = "ok" =>
       live = [f \in Files |-> IF zips[name[r]][f] # Gone THEN zips[name[r]][f]
                               ELSE Before(r)[f]]

Undoable == \A r \in Restorers : Undisturbed(r) => Accounted(r)

IndInv == Shape /\ Owned /\ Reading /\ Covered /\ Alone /\ Undoable
-----------------------------------------------------------------------------
(* What a step leaves alone *)

\* Nothing q has is touched.
Still(q) == /\ pc'[q] = pc[q] /\ name'[q] = name[q] /\ reply'[q] = reply[q]
            /\ unlisted'[q] = unlisted[q] /\ todo'[q] = todo[q] /\ zip'[q] = zip[q]
            /\ undo'[q] = undo[q] /\ made'[q] = made[q]

LEMMA Becomes == ASSUME NEW t, Become(t) PROVE Become(live')
  <1>1. live' = t
    BY DEF Become
  <1>2. QED
    BY <1>1 DEF Become

LEMMA OutsideFrame ==
  ASSUME Outside
  PROVE  /\ writes' = writes + 1 /\ zips' = zips /\ found' = found
         /\ \A q \in Requests : Still(q)
         /\ Become(live')
  <1>1. CASE Stage
    BY <1>1 DEF Stage, Disturb, Become, Still, walk, back
  <1>2. ASSUME NEW f \in Files, NEW g \in Files, Rename(f, g)
        PROVE  /\ writes' = writes + 1 /\ zips' = zips /\ found' = found
               /\ \A q \in Requests : Still(q)
               /\ Become(live')
    BY <1>2 DEF Rename, Disturb, Become, Still, walk, back
  <1>3. ASSUME NEW d \in Folders, Lose(d)
        PROVE  /\ writes' = writes + 1 /\ zips' = zips /\ found' = found
               /\ \A q \in Requests : Still(q)
               /\ Become(live')
    BY <1>3 DEF Lose, Disturb, Become, Still, walk, back
  <1>4. QED
    BY <1>1, <1>2, <1>3 DEF Outside, Folders

\* A backup changes its own state, and the archives.
LEMMA MakeFrame ==
  ASSUME TypeOK, NEW m \in Makers, Make(m)
  PROVE  /\ UNCHANGED <<live, dirs, writes, found>>
         /\ \A q \in Requests \ {m} : Still(q)
         /\ \A l \in Makers \ {m} : seen'[l] = seen[l]
  <1> USE DEF TypeOK, Still, Goto, Requests, tree, walk, back
  <1>1. CASE BeginBackup(m)
    BY <1>1 DEF BeginBackup
  <1>2. ASSUME NEW d, List(m, d)
        PROVE  /\ UNCHANGED <<live, dirs, writes, found, seen>>
               /\ \A q \in Requests \ {m} : Still(q)
    BY <1>2 DEF List
  <1>3. ASSUME NEW f, Copy(m, f)
        PROVE  /\ UNCHANGED <<live, dirs, writes, found, seen>>
               /\ \A q \in Requests \ {m} : Still(q)
    BY <1>3 DEF Copy
  <1>4. CASE CopyFails(m) \/ ReserveFails(m) \/ PublishFails(m) \/ Record(m)
    BY <1>4 DEF CopyFails, ReserveFails, PublishFails, Record, Answer
  <1>5. ASSUME NEW n \in Names, Reserve(m, n)
        PROVE  /\ UNCHANGED <<live, dirs, writes, found, seen>>
               /\ \A q \in Requests \ {m} : Still(q)
    BY <1>5 DEF Reserve
  <1>6. CASE Publish(m)
    BY <1>6 DEF Publish
  <1>7. QED
    BY <1>1, <1>2, <1>3, <1>4, <1>5, <1>6 DEF Make

\* A restore changes its own state, and the tree.
LEMMA RestoreFrame ==
  ASSUME TypeOK, NEW r \in Restorers, Restore(r)
  PROVE  /\ UNCHANGED <<writes, zips>>
         /\ \A q \in Requests \ {r} : Still(q)
         /\ \A q \in Restorers \ {r} : found'[q] = found[q]
         /\ UNCHANGED <<live, seen>> \/ Become(live')
  <1> USE DEF TypeOK, Still, Goto, Requests, tree, walk, back
  <1>1. ASSUME NEW n \in Names, BeginRestore(r, n)
        PROVE  /\ UNCHANGED <<writes, zips, live, seen>>
               /\ \A q \in Requests \ {r} : Still(q)
               /\ \A q \in Restorers \ {r} : found'[q] = found[q]
    BY <1>1 DEF BeginRestore
  <1>2. ASSUME NEW n \in Names, BeginRestoreFails(r, n)
        PROVE  /\ UNCHANGED <<writes, zips, live, seen, found>>
               /\ \A q \in Requests \ {r} : Still(q)
    BY <1>2 DEF BeginRestoreFails, Answer
  <1>3. ASSUME NEW f, Capture(r, f)
        PROVE  /\ UNCHANGED <<writes, zips, live, seen, found>>
               /\ \A q \in Requests \ {r} : Still(q)
    BY <1>3 DEF Capture
  <1>4. ASSUME NEW f, Write(r, f) \/ PutBack(r, f)
        PROVE  /\ UNCHANGED <<writes, zips, found>>
               /\ \A q \in Requests \ {r} : Still(q)
               /\ Become(live')
    <2>1. CASE Write(r, f)
      <3>1. Become([live EXCEPT ![f] = zip[r][f]])
        BY <2>1 DEF Write, Restored
      <3>2. QED
        BY <2>1, <3>1, Becomes DEF Write
    <2>2. CASE PutBack(r, f)
      <3>1. Become([live EXCEPT ![f] = undo[r][f]])
        BY <2>2 DEF PutBack
      <3>2. QED
        BY <2>2, <3>1, Becomes DEF PutBack
    <2>3. QED
      BY <1>4, <2>1, <2>2
  <1>5. ASSUME NEW f, WriteFails(r, f)
        PROVE  /\ UNCHANGED <<writes, zips, found>>
               /\ \A q \in Requests \ {r} : Still(q)
               /\ UNCHANGED <<live, seen>> \/ Become(live')
    <2>1. Restored(r, f) => Become(live')
      <3>1. Restored(r, f) => Become([live EXCEPT ![f] = zip[r][f]])
        BY DEF Restored
      <3>2. QED
        BY <3>1, Becomes
    <2>2. QED
      BY <1>5, <2>1 DEF WriteFails, Undoing
  <1>6. CASE CaptureFails(r) \/ Finish(r) \/ PutBackFails(r) \/ Undone(r)
    BY <1>6 DEF CaptureFails, Finish, PutBackFails, Undone, Answer
  <1>7. CASE Captured(r) \/ FinishFails(r)
    BY <1>7 DEF Captured, FinishFails, Undoing
  <1>8. QED
    BY <1>1, <1>2, <1>3, <1>4, <1>5, <1>6, <1>7 DEF Restore
-----------------------------------------------------------------------------
(* Types *)

LEMMA VersionsOK == Gone \in Versions /\ Empty \in Trees /\ 1 \in Versions
  BY BackupAssumption DEF Gone, Versions, Empty, Trees

LEMMA TargetsOK == ASSUME NEW z PROVE Targets(z) \subseteq Files
  BY DEF Targets

LEMMA OutsideType ==
  ASSUME TypeOK, Outside
  PROVE  TypeOK'
  <1> USE BackupAssumption, VersionsOK DEF TypeOK, Disturb, Become, Targets, Parent, Gone
  <1>1. CASE Stage
    <2>1. live' \in Trees /\ writes' \in 0..MaxWrites
      BY <1>1 DEF Stage, Trees, Versions
    <2>2. \A f \in Targets(live') : DirOf[f] \in dirs' \cup {Root}
      BY <1>1 DEF Stage, Trees
    <2>3. QED
      BY <1>1, <2>1, <2>2 DEF Stage, walk, back
  <1>2. ASSUME NEW f \in Files, NEW g \in Files, Rename(f, g)
        PROVE  TypeOK'
    <2>1. live' \in Trees /\ writes' \in 0..MaxWrites
      BY <1>2 DEF Rename, Trees, Versions
    <2>2. \A h \in Targets(live') : DirOf[h] \in dirs' \cup {Root}
      BY <1>2 DEF Rename, Trees
    <2>3. QED
      BY <1>2, <2>1, <2>2 DEF Rename, walk, back
  <1>3. ASSUME NEW d \in Folders, Lose(d)
        PROVE  TypeOK'
    <2>1. live' \in Trees /\ writes' \in 0..MaxWrites
      BY <1>3 DEF Lose, Trees, Versions
    <2>2. \A h \in Targets(live') : DirOf[h] \in dirs' \cup {Root}
      BY <1>3 DEF Lose, Trees
    <2>3. QED
      BY <1>3, <2>1, <2>2 DEF Lose, walk, back
  <1>4. QED
    BY <1>1, <1>2, <1>3 DEF Outside, Folders

\* A file is written, and its directory made if it is missing.
LEMMA WrittenOK ==
  ASSUME TypeOK, NEW f \in Files, NEW v \in Versions,
         live' = [live EXCEPT ![f] = v], dirs' = dirs \cup Parent(f)
  PROVE  /\ live' \in Trees /\ dirs' \subseteq Folders \ {Root}
         /\ \A g \in Targets(live') : DirOf[g] \in dirs' \cup {Root}
  BY DEF TypeOK, Trees, Targets, Parent, Folders

LEMMA AnswerType ==
  ASSUME TypeOK, NEW q \in Requests, NEW from, 
         NEW what \in {"ok", "failed", "broken"}, Answer(q, from, what)
  PROVE  /\ pc' \in [Requests -> {"idle", "walk", "publish", "record", "capture",
                                  "write", "undo", "done"}]
         /\ unlisted' \in [Requests -> SUBSET (Folders \cup {Root})]
         /\ todo' \in [Requests -> SUBSET Files]
         /\ zip' \in [Requests -> Trees] /\ undo' \in [Requests -> Trees]
         /\ made' \in [Requests -> SUBSET Files]
         /\ reply' \in [Requests -> {"none", "ok", "failed", "broken"}]
  BY VersionsOK DEF TypeOK, Answer, Goto, Folders

LEMMA MakeType ==
  ASSUME TypeOK, NEW m \in Makers, Make(m)
  PROVE  TypeOK'
  <1> USE DEF TypeOK, Goto, Requests, tree, walk, back
  <1>1. CASE BeginBackup(m)
    BY <1>1 DEF BeginBackup
  <1>2. ASSUME NEW d, List(m, d)
        PROVE  TypeOK'
    <2>1. (unlisted[m] \ {d}) \cup (IF d = Root THEN dirs ELSE {}) \subseteq Folders \cup {Root}
      BY DEF Folders
    <2>2. QED
      BY <1>2, <2>1, TargetsOK DEF List, Folders
  <1>3. ASSUME NEW f, Copy(m, f)
        PROVE  TypeOK'
    BY <1>3 DEF Copy, Trees
  <1>4. CASE CopyFails(m) \/ ReserveFails(m) \/ Record(m)
    BY <1>4, AnswerType DEF CopyFails, ReserveFails, Record, Folders
  <1>5. CASE PublishFails(m)
    BY <1>5, AnswerType DEF PublishFails, Folders
  <1>6. ASSUME NEW n \in Names, Reserve(m, n)
        PROVE  TypeOK'
    BY <1>6 DEF Reserve
  <1>7. CASE Publish(m)
    BY <1>7 DEF Publish
  <1>8. QED
    BY <1>1, <1>2, <1>3, <1>4, <1>5, <1>6, <1>7 DEF Make

LEMMA RestoreType ==
  ASSUME TypeOK, NEW r \in Restorers, Restore(r)
  PROVE  TypeOK'
  <1> USE DEF TypeOK, Goto, Requests, tree, walk, back
  <1>1. ASSUME NEW n \in Names, BeginRestore(r, n)
        PROVE  TypeOK'
    BY <1>1, TargetsOK DEF BeginRestore
  <1>2. ASSUME NEW n \in Names, BeginRestoreFails(r, n)
        PROVE  TypeOK'
    BY <1>2, AnswerType DEF BeginRestoreFails, Folders
  <1>3. ASSUME NEW f, Capture(r, f)
        PROVE  TypeOK'
    <2>1. f \in Files /\ live[f] \in Versions
      BY <1>3 DEF Capture, Trees
    <2>2. undo' \in [Requests -> Trees] /\ made' \in [Requests -> SUBSET Files]
      BY <1>3, <2>1 DEF Capture, Trees
    <2>3. QED
      BY <1>3, <2>1, <2>2 DEF Capture
  <1>4. ASSUME NEW f, Restored(r, f)
        PROVE  /\ live' \in Trees /\ dirs' \subseteq Folders \ {Root}
               /\ \A g \in Targets(live') : DirOf[g] \in dirs' \cup {Root}
    <2>1. /\ f \in Files /\ zip[r][f] \in Versions
          /\ live' = [live EXCEPT ![f] = zip[r][f]] /\ dirs' = dirs \cup Parent(f)
      BY <1>4 DEF Restored, Become, Trees
    <2>2. QED
      BY <2>1, WrittenOK
  <1>5. ASSUME NEW f, Write(r, f)
        PROVE  TypeOK'
    BY <1>4, <1>5 DEF Write, Folders
  <1>6. ASSUME NEW f, WriteFails(r, f)
        PROVE  TypeOK'
    <2>1. \/ UNCHANGED <<live, dirs>>
          \/ dirs' = dirs \cup Parent(f) /\ UNCHANGED live
          \/ Restored(r, f)
      BY <1>6 DEF WriteFails
    <2>2. /\ live' \in Trees /\ dirs' \subseteq Folders \ {Root}
          /\ \A g \in Targets(live') : DirOf[g] \in dirs' \cup {Root}
      BY <1>4, <1>6, <2>1 DEF WriteFails, Folders, Parent
    <2>3. QED
      BY <1>6, <2>2, TargetsOK DEF WriteFails, Undoing, Folders
  <1>7. ASSUME NEW f, PutBack(r, f)
        PROVE  TypeOK'
    <2>1. f \in Files /\ undo[r][f] \in Versions /\ live' = [live EXCEPT ![f] = undo[r][f]]
      BY <1>7 DEF PutBack, Become, Trees
    <2>2. CASE undo[r][f] # Gone
      BY <1>7, <2>1, <2>2, WrittenOK DEF PutBack, Folders
    <2>3. CASE undo[r][f] = Gone
      <3>1. Targets(live') \subseteq Targets(live)
        BY <2>1, <2>3 DEF Targets, Trees
      <3>2. /\ dirs' \subseteq dirs
            /\ \A d \in dirs \ dirs' : \A g \in Targets(live') : DirOf[g] # d
        BY <1>7, <2>3 DEF PutBack
      <3>3. /\ live' \in Trees
            /\ \A g \in Targets(live') : DirOf[g] \in dirs' \cup {Root}
        BY <2>1, <3>1, <3>2 DEF Trees
      <3>4. QED
        BY <1>7, <3>2, <3>3 DEF PutBack
    <2>4. QED
      BY <2>2, <2>3
  <1>8. CASE CaptureFails(r) \/ Finish(r) \/ PutBackFails(r) \/ Undone(r)
    BY <1>8, AnswerType DEF CaptureFails, Finish, PutBackFails, Undone, Folders
  <1>9. CASE Captured(r) \/ FinishFails(r)
    BY <1>9, TargetsOK DEF Captured, FinishFails, Undoing
  <1>10. QED
    BY <1>1, <1>2, <1>3, <1>5, <1>6, <1>7, <1>8, <1>9 DEF Restore
-----------------------------------------------------------------------------
(* Steps and histories *)

LEMMA MakeMoves ==
  ASSUME TypeOK, Stages, NEW m \in Makers, Make(m)
  PROVE  pc'[m] \in {"walk", "publish", "record", "done"}
  <1> USE DEF TypeOK, Stages, Goto, Requests
  <1>1. CASE \/ BeginBackup(m) \/ \E n \in Names : Reserve(m, n)
             \/ Publish(m)
    BY <1>1 DEF BeginBackup, Reserve, Publish
  <1>2. CASE CopyFails(m) \/ ReserveFails(m) \/ PublishFails(m) \/ Record(m)
    BY <1>2 DEF CopyFails, ReserveFails, PublishFails, Record, Answer
  <1>3. CASE (\E d \in unlisted[m] : List(m, d)) \/ \E f \in todo[m] : Copy(m, f)
    BY <1>3 DEF List, Copy
  <1>4. QED
    BY <1>1, <1>2, <1>3, Zenon DEF Make

LEMMA RestoreMoves ==
  ASSUME TypeOK, Stages, NEW r \in Restorers, Restore(r)
  PROVE  pc'[r] \in {"capture", "write", "undo", "done"}
  <1> USE DEF TypeOK, Stages, Goto, Requests
  <1>1. ASSUME NEW n \in Names, BeginRestore(r, n) \/ BeginRestoreFails(r, n)
        PROVE  pc'[r] \in {"capture", "done"}
    BY <1>1 DEF BeginRestore, BeginRestoreFails, Answer
  <1>2. ASSUME NEW f, Capture(r, f) \/ Write(r, f) \/ PutBack(r, f)
        PROVE  pc'[r] \in {"capture", "write", "undo"}
    BY <1>2 DEF Capture, Write, PutBack
  <1>3. ASSUME NEW f, WriteFails(r, f)
        PROVE  pc'[r] = "undo"
    BY <1>3 DEF WriteFails
  <1>4. CASE CaptureFails(r) \/ Finish(r) \/ PutBackFails(r) \/ Undone(r)
    BY <1>4 DEF CaptureFails, Finish, PutBackFails, Undone, Answer
  <1>5. CASE Captured(r) \/ FinishFails(r)
    BY <1>5 DEF Captured, FinishFails
  <1>6. QED
    BY <1>1, <1>2, <1>3, <1>4, <1>5 DEF Restore

\* Whoever takes a step has begun, and keeps to the steps of its kind.
LEMMA StagesStep ==
  ASSUME TypeOK, Stages, Fresh, Next
  PROVE  /\ Stages' /\ Fresh'
         /\ \A q \in Requests : pc'[q] = "idle" => pc[q] = "idle"
  <1> USE DEF Next
  <1>1. ASSUME NEW p \in Requests, \A q \in Requests \ {p} : Still(q),
               pc'[p] # "idle",
               p \in Makers => pc'[p] \in {"walk", "publish", "record", "done"},
               p \in Restorers => pc'[p] \in {"capture", "write", "undo", "done"}
        PROVE  /\ Stages' /\ Fresh'
               /\ \A q \in Requests : pc'[q] = "idle" => pc[q] = "idle"
    BY <1>1 DEF Stages, Fresh, Still, Requests
  <1>2. CASE Outside
    BY <1>2, OutsideFrame DEF Stages, Fresh, Still, Requests
  <1>3. ASSUME NEW m \in Makers, Make(m)
        PROVE  /\ Stages' /\ Fresh'
               /\ \A q \in Requests : pc'[q] = "idle" => pc[q] = "idle"
    BY <1>1, <1>3, MakeFrame, MakeMoves, BackupAssumption DEF Requests
  <1>4. ASSUME NEW r \in Restorers, Restore(r)
        PROVE  /\ Stages' /\ Fresh'
               /\ \A q \in Requests : pc'[q] = "idle" => pc[q] = "idle"
    BY <1>1, <1>4, RestoreFrame, RestoreMoves, BackupAssumption DEF Requests
  <1>5. QED
    BY <1>2, <1>3, <1>4

LEMMA SeenStep ==
  ASSUME TypeOK, seen \in [Makers -> [Files -> SUBSET Versions]], Next
  PROVE  seen' \in [Makers -> [Files -> SUBSET Versions]]
  <1> USE DEF Next
  <1>1. TypeOK'
    BY OutsideType, MakeType, RestoreType
  <1>2. Become(live') => seen' \in [Makers -> [Files -> SUBSET Versions]]
    <2>1. \A f \in Files : live'[f] \in Versions
      BY <1>1 DEF TypeOK, Trees
    <2>2. QED
      BY <2>1 DEF Become
  <1>3. CASE Outside
    BY <1>2, <1>3, OutsideFrame
  <1>4. ASSUME NEW m \in Makers, Make(m)
        PROVE  seen' \in [Makers -> [Files -> SUBSET Versions]]
    <2>1. \A f \in Files : live[f] \in Versions
      BY DEF TypeOK, Trees
    <2>2. CASE BeginBackup(m)
      BY <2>1, <2>2 DEF BeginBackup
    <2>3. CASE Publish(m)
      BY <2>3 DEF Publish, NotSeen
    <2>4. CASE CopyFails(m) \/ ReserveFails(m) \/ PublishFails(m) \/ Record(m)
      BY <2>4 DEF CopyFails, ReserveFails, PublishFails, Record, tree
    <2>5. ASSUME \/ \E d \in unlisted[m] : List(m, d)
                 \/ \E f \in todo[m] : Copy(m, f)
                 \/ \E n \in Names : Reserve(m, n)
          PROVE  seen' = seen
      BY <2>5 DEF List, Copy, Reserve, tree
    <2>6. QED
      BY <1>4, <2>2, <2>3, <2>4, <2>5 DEF Make
  <1>5. ASSUME NEW r \in Restorers, Restore(r)
        PROVE  seen' \in [Makers -> [Files -> SUBSET Versions]]
    BY <1>2, <1>5, RestoreFrame
  <1>6. QED
    BY <1>3, <1>4, <1>5

\* found is written once, when the restore begins.
LEMMA FoundOnce ==
  ASSUME TypeOK, NEW r \in Restorers, Restore(r)
  PROVE  \/ found' = found
         \/ \E n \in Names : BeginRestore(r, n)
  <1>1. ASSUME NEW f, WriteFails(r, f)
        PROVE  found' = found
    BY <1>1 DEF WriteFails, Undoing, back
  <1>2. ASSUME NEW f, Capture(r, f) \/ Write(r, f) \/ PutBack(r, f)
        PROVE  found' = found
    BY <1>2 DEF Capture, Write, PutBack, back
  <1>3. CASE \/ CaptureFails(r) \/ Finish(r) \/ PutBackFails(r) \/ Undone(r)
             \/ Captured(r) \/ FinishFails(r) \/ \E n \in Names : BeginRestoreFails(r, n)
    BY <1>3 DEF BeginRestoreFails, CaptureFails, Finish, PutBackFails, Undone, Captured,
                FinishFails, Undoing, back
  <1>4. QED
    BY <1>1, <1>2, <1>3 DEF Restore

LEMMA FoundStep ==
  ASSUME TypeOK, Stages, Fresh, Histories, NEW r \in Restorers, found'[r] # None, Next
  PROVE  Begun(r)'
  <1> USE DEF Next
  <1> USE DEF Histories
  <1>1. Waiting' \subseteq Waiting
    BY StagesStep DEF Waiting, Requests
  <1>2. writes \in Nat /\ writes' \in Nat /\ writes <= writes'
    <2>1. writes \in Nat
      BY BackupAssumption DEF TypeOK
    <2>2. writes' = writes \/ writes' = writes + 1
      BY OutsideFrame, MakeFrame, RestoreFrame
    <2>3. QED
      BY <2>1, <2>2
  <1>3. CASE found'[r] = found[r]
    <2>1. Begun(r)
      BY <1>3
    <2>2. found[r].writes \in Nat
      BY <2>1 DEF Begun, Finding
    <2>3. QED
      BY <1>1, <1>2, <1>3, <2>1, <2>2 DEF Begun, Targets
  <1>4. CASE found'[r] # found[r]
    <2>1. Restore(r)
      BY <1>4, OutsideFrame, MakeFrame, RestoreFrame
    <2>2. PICK n \in Names : BeginRestore(r, n)
      BY <1>4, <2>1, FoundOnce
    <2>3. found' = [found EXCEPT ![r] = [live |-> live, dirs |-> dirs, writes |-> writes,
                      alone |-> Active(Restorers) = {}, waiting |-> Waiting \ {r}]]
      BY <2>2 DEF BeginRestore
    <2>4. found'[r] = [live |-> live, dirs |-> dirs, writes |-> writes,
                      alone |-> Active(Restorers) = {}, waiting |-> Waiting \ {r}]
      BY <1>4, <2>3
    <2>5. Waiting' \subseteq Waiting \ {r}
      BY <1>1, <2>2 DEF BeginRestore, Goto, Waiting, TypeOK, Requests
    <2>6. found'[r] \in Finding
      <3>1. live \in Trees /\ dirs \in SUBSET (Folders \ {Root})
        BY DEF TypeOK, Folders
      <3>2. QED
        BY <1>2, <2>4, <3>1 DEF Finding, Waiting
    <2>7. QED
      BY <1>2, <2>4, <2>5, <2>6 DEF Begun, TypeOK, Targets
  <1>5. QED
    BY <1>3, <1>4

LEMMA FindingStep ==
  ASSUME TypeOK, found \in [Restorers -> Finding \cup {None}], Next
  PROVE  found' \in [Restorers -> Finding \cup {None}]
  <1> USE DEF Next
  <1>1. ASSUME NEW r \in Restorers, NEW n \in Names, BeginRestore(r, n)
        PROVE  found' \in [Restorers -> Finding \cup {None}]
    <2>1. [live |-> live, dirs |-> dirs, writes |-> writes,
           alone |-> Active(Restorers) = {}, waiting |-> Waiting \ {r}] \in Finding
      BY BackupAssumption DEF Finding, TypeOK, Waiting, Folders
    <2>2. QED
      BY <1>1, <2>1 DEF BeginRestore
  <1>2. QED
    BY <1>1, OutsideFrame, MakeFrame, FoundOnce

LEMMA ShapeStep ==
  ASSUME Shape, Next
  PROVE  Shape'
  <1> USE DEF Next
  <1>1. TypeOK'
    BY OutsideType, MakeType, RestoreType DEF Shape
  <1>2. Stages' /\ Fresh'
    BY StagesStep DEF Shape
  <1>3. Histories'
    <2>1. \A r \in Restorers : found'[r] # None => Begun(r)'
      BY FoundStep DEF Shape
    <2>2. seen' \in [Makers -> [Files -> SUBSET Versions]]
      BY SeenStep DEF Shape, Histories
    <2>3. found' \in [Restorers -> Finding \cup {None}]
      BY FindingStep DEF Shape, Histories
    <2>4. QED
      BY <2>1, <2>2, <2>3 DEF Histories
  <1>4. QED
    BY <1>1, <1>2, <1>3 DEF Shape
-----------------------------------------------------------------------------
(* Archives *)

NotATree == None \notin Trees /\ Reserved \notin Trees /\ None # Reserved

LEMMA NoTree == NotATree
  BY BackupAssumption DEF NotATree, Trees, Versions

LEMMA OwnedStep ==
  ASSUME Shape, Owned, Next
  PROVE  Owned'
  <1> USE DEF Next
  <1> USE DEF Shape, TypeOK, Requests
  <1>1. CASE Outside
    BY <1>1, OutsideFrame DEF Owned, Still
  <1>2. ASSUME NEW r \in Restorers, Restore(r)
        PROVE  Owned'
    BY <1>2, RestoreFrame, BackupAssumption DEF Owned, Still
  <1>3. ASSUME NEW m \in Makers, Make(m)
        PROVE  Owned'
    <2>1. \A l \in Makers \ {m} : pc'[l] = pc[l] /\ name'[l] = name[l]
      BY <1>3, MakeFrame DEF Still
    <2>2. ASSUME NEW n \in Names, Reserve(m, n)
          PROVE  Owned'
      BY <2>1, <2>2, NoTree DEF Owned, Reserve, Goto, NotATree
    <2>3. CASE Publish(m)
      <3>1. pc[m] = "publish" /\ pc'[m] = "record" /\ zips' = [zips EXCEPT ![name[m]] = zip[m]]
        BY <2>3 DEF Publish, Goto
      <3>2. QED
        BY <2>1, <3>1 DEF Owned
    <2>4. CASE PublishFails(m)
      <3>1. pc[m] = "publish" /\ pc'[m] = "done" /\ zips' = [zips EXCEPT ![name[m]] = None]
        BY <2>4 DEF PublishFails, Answer, Goto
      <3>2. QED
        BY <2>1, <3>1 DEF Owned
    <2>5. CASE CopyFails(m) \/ ReserveFails(m) \/ Record(m)
      <3>1. zips' = zips /\ pc'[m] = "done"
        BY <2>5 DEF CopyFails, ReserveFails, Record, Answer, Goto
      <3>2. QED
        BY <2>1, <3>1 DEF Owned
    <2>6. CASE \/ BeginBackup(m) \/ \E d \in unlisted[m] : List(m, d)
               \/ \E f \in todo[m] : Copy(m, f)
      <3>1. zips' = zips /\ pc'[m] = "walk"
        BY <2>6 DEF BeginBackup, List, Copy, Goto
      <3>2. QED
        BY <2>1, <3>1 DEF Owned
    <2>7. QED
      BY <1>3, <2>2, <2>3, <2>4, <2>5, <2>6 DEF Make
  <1>4. QED
    BY <1>1, <1>2, <1>3

\* Only a name that is free is reserved, and only a reservation is replaced.
LEMMA ArchivesStep ==
  ASSUME Shape, Owned, Next
  PROVE  \A n \in Names : zips[n] \in Trees => zips'[n] = zips[n]
  <1> USE DEF Next
  <1> USE NoTree DEF NotATree, Shape, TypeOK
  <1>1. ASSUME NEW m \in Makers, Make(m)
        PROVE  \A n \in Names : zips[n] \in Trees => zips'[n] = zips[n]
    <2>1. ASSUME NEW n \in Names, Reserve(m, n)
          PROVE  zips[n] = None /\ zips' = [zips EXCEPT ![n] = Reserved]
      BY <2>1 DEF Reserve
    <2>2. CASE Publish(m) \/ PublishFails(m)
      <3>1. pc[m] = "publish" /\ \A n \in Names \ {name[m]} : zips'[n] = zips[n]
        BY <2>2 DEF Publish, PublishFails, Answer, Goto
      <3>2. QED
        BY <3>1 DEF Owned
    <2>3. CASE \/ BeginBackup(m) \/ \E d \in unlisted[m] : List(m, d)
               \/ \E f \in todo[m] : Copy(m, f)
               \/ CopyFails(m) \/ ReserveFails(m) \/ Record(m)
      BY <2>3 DEF BeginBackup, List, Copy, CopyFails, ReserveFails, Record
    <2>4. QED
      BY <1>1, <2>1, <2>2, <2>3 DEF Make
  <1>2. QED
    BY <1>1, OutsideFrame, RestoreFrame

LEMMA ReadingStep ==
  ASSUME Shape, Owned, Reading, Next
  PROVE  Reading'
  <1> USE DEF Next
  <1>1. \A n \in Names : zips[n] \in Trees => zips'[n] = zips[n]
    BY ArchivesStep
  <1>2. ASSUME NEW r \in Restorers, Still(r), found'[r] = found[r]
        PROVE  Reads(r)'
    <2>1. Reads(r)
      BY DEF Reading
    <2>2. QED
      BY <1>1, <1>2, <2>1 DEF Still, Targets, Reads
  <1>3. ASSUME NEW r \in Restorers, Restore(r)
        PROVE  Reads(r)'
    <2>1. Reads(r) /\ zips' = zips
      BY <1>3, RestoreFrame DEF Reading, Shape
    <2> USE DEF Shape, TypeOK, Requests, Goto, Targets, Reads
    <2>2. ASSUME NEW n \in Names, BeginRestore(r, n)
          PROVE  Reads(r)'
      <3>1. zips[n] \in Trees
        BY <2>2 DEF BeginRestore
      <3>2. pc'[r] = "capture" /\ name'[r] = n /\ zip'[r] = zips[n]
            /\ todo'[r] = Targets(zips[n])
        BY <2>2 DEF BeginRestore
      <3>3. QED
        BY <2>1, <3>1, <3>2
    <2>3. ASSUME NEW n \in Names, BeginRestoreFails(r, n)
          PROVE  Reads(r)'
      BY <2>1, <2>3 DEF BeginRestoreFails, Answer
    <2>4. ASSUME NEW f, Capture(r, f) \/ Write(r, f) \/ PutBack(r, f)
          PROVE  Reads(r)'
      BY <2>1, <2>4 DEF Capture, Write, PutBack, back
    <2>5. ASSUME NEW f, WriteFails(r, f)
          PROVE  Reads(r)'
      BY <2>1, <2>5 DEF WriteFails, Undoing, back
    <2>6. CASE CaptureFails(r) \/ Finish(r) \/ PutBackFails(r) \/ Undone(r)
      BY <2>1, <2>6 DEF CaptureFails, Finish, PutBackFails, Undone, Answer
    <2>7. CASE Captured(r) \/ FinishFails(r)
      BY <2>1, <2>7 DEF Captured, FinishFails, Undoing, back
    <2>8. QED
      BY <1>3, <2>2, <2>3, <2>4, <2>5, <2>6, <2>7 DEF Restore
  <1>4. \A r \in Restorers : Reads(r)'
    <2>1. ASSUME NEW r \in Restorers, ~Restore(r)
          PROVE  Still(r) /\ found'[r] = found[r]
      BY <2>1, OutsideFrame, MakeFrame, RestoreFrame, BackupAssumption DEF Shape, Requests
    <2>2. QED
      BY <1>2, <1>3, <2>1
  <1>5. QED
    BY <1>4 DEF Reading
-----------------------------------------------------------------------------
(* The walk of a backup *)

\* What others do to the tree is seen by every walk.
LEMMA CoversStays ==
  ASSUME Shape, NEW m \in Makers, Covers(m), Still(m),
         UNCHANGED <<live, seen>> \/ Become(live') \/ UNCHANGED <<live, seen[m]>>
  PROVE  Covers(m)'
  <1>1. CASE live' = live /\ seen'[m] = seen[m]
    BY <1>1 DEF Covers, Coming, Still
  <1>2. CASE Become(live')
    <2>1. seen'[m] = IF pc[m] # "walk" THEN seen[m]
                     ELSE [f \in Files |-> seen[m][f] \cup {live'[f]}]
      BY <1>2 DEF Become
    <2>2. CASE pc[m] = "walk"
      <3>1. \A f \in Files : live'[f] \in seen'[m][f] /\ seen[m][f] \subseteq seen'[m][f]
        BY <2>1, <2>2
      <3>2. QED
        BY <2>2, <3>1 DEF Covers, Coming, Still
    <2>3. CASE pc[m] # "walk"
      BY <2>1, <2>3 DEF Covers, Still
    <2>4. QED
      BY <2>2, <2>3
  <1>3. QED
    BY <1>1, <1>2

LEMMA ListCovers ==
  ASSUME Shape, NEW m \in Makers, Covers(m), NEW d, List(m, d)
  PROVE  Covers(m)'
  <1> USE DEF Shape, TypeOK, Requests
  <1>1. /\ pc[m] = "walk" /\ pc'[m] = "walk"
        /\ live' = live /\ seen' = seen /\ zip' = zip
        /\ todo'[m] = todo[m] \cup {f \in Targets(live) : DirOf[f] = d}
        /\ unlisted'[m] = (unlisted[m] \ {d}) \cup (IF d = Root THEN dirs ELSE {})
    BY DEF List, tree
  <1>2. ASSUME NEW f \in Files, Coming(m, f), live[f] \in seen[m][f]
        PROVE  Coming(m, f)'
    <2>1. CASE f \in todo[m] \/ Gone \in seen[m][f]
      BY <1>1, <2>1 DEF Coming
    <2>2. CASE live[f] = Gone
      BY <1>1, <1>2, <2>2 DEF Coming
    <2>3. CASE live[f] # Gone /\ DirOf[f] = d
      BY <1>1, <2>3 DEF Coming, Targets
    <2>4. CASE live[f] # Gone /\ DirOf[f] # d /\ Root \in unlisted[m] /\ d = Root
      <3>1. DirOf[f] \in dirs
        BY <2>4 DEF Targets
      <3>2. QED
        BY <1>1, <2>4, <3>1 DEF Coming
    <2>5. CASE DirOf[f] # d /\ DirOf[f] \in unlisted[m]
      BY <1>1, <2>5 DEF Coming
    <2>6. CASE live[f] # Gone /\ DirOf[f] # d /\ Root \in unlisted[m] /\ d # Root
      BY <1>1, <2>6 DEF Coming
    <2>7. QED
      BY <1>2, <2>1, <2>2, <2>3, <2>4, <2>5, <2>6 DEF Coming
  <1>3. QED
    BY <1>1, <1>2 DEF Covers

LEMMA MakeCovers ==
  ASSUME Shape, NEW m \in Makers, Covers(m), Make(m)
  PROVE  Covers(m)'
  <1> USE DEF Shape, TypeOK, Requests, Goto
  <1>1. CASE BeginBackup(m)
    <2>1. /\ live' = live /\ pc'[m] = "walk" /\ unlisted'[m] = {Root}
          /\ zip' = zip /\ zip[m] = Empty
          /\ seen'[m] = [f \in Files |-> {live[f]}]
      BY <1>1 DEF BeginBackup, Fresh, Histories
    <2>2. QED
      BY <2>1 DEF Covers, Coming, Empty
  <1>2. ASSUME NEW f \in todo[m], Copy(m, f)
        PROVE  Covers(m)'
    <2>1. /\ f \in Files /\ live[f] # Gone /\ zip[m] \in Trees
          /\ pc[m] = "walk" /\ pc'[m] = "walk"
          /\ live' = live /\ seen' = seen /\ unlisted' = unlisted
          /\ zip'[m] = [zip[m] EXCEPT ![f] = live[f]] /\ todo'[m] = todo[m] \ {f}
      BY <1>2 DEF Copy, tree
    <2>2. QED
      BY <2>1 DEF Covers, Coming, Trees
  <1>3. CASE CopyFails(m) \/ ReserveFails(m) \/ PublishFails(m) \/ Record(m)
    <2>1. pc'[m] = "done"
      BY <1>3 DEF CopyFails, ReserveFails, PublishFails, Record, Answer
    <2>2. QED
      BY <2>1 DEF Covers
  <1>4. ASSUME NEW n \in Names, Reserve(m, n)
        PROVE  Covers(m)'
    <2>1. /\ pc[m] = "walk" /\ pc'[m] = "publish" /\ todo[m] = {} /\ unlisted[m] = {}
          /\ seen' = seen /\ zip' = zip
      BY <1>4 DEF Reserve, tree
    <2>2. QED
      BY <2>1 DEF Covers, Coming
  <1>5. CASE Publish(m)
    <2>1. pc'[m] = "record"
      BY <1>5 DEF Publish
    <2>2. QED
      BY <2>1 DEF Covers
  <1>6. QED
    BY <1>1, <1>2, <1>3, <1>4, <1>5, ListCovers DEF Make

LEMMA CoveredStep ==
  ASSUME Shape, Covered, Next
  PROVE  Covered'
  <1> USE DEF Next
  <1>1. ASSUME NEW m \in Makers
        PROVE  Covers(m)'
    <2>1. Covers(m)
      BY DEF Covered
    <2>2. CASE Make(m)
      BY <2>1, <2>2, MakeCovers
    <2>3. ASSUME NEW l \in Makers \ {m}, Make(l)
          PROVE  Covers(m)'
      BY <2>1, <2>3, MakeFrame, CoversStays DEF Shape, Requests
    <2>4. CASE Outside
      BY <2>1, <2>4, OutsideFrame, CoversStays DEF Shape, Requests
    <2>5. ASSUME NEW r \in Restorers, Restore(r)
          PROVE  Covers(m)'
      BY <2>1, <2>5, RestoreFrame, CoversStays, BackupAssumption DEF Shape, Requests
    <2>6. QED
      BY <2>2, <2>3, <2>4, <2>5
  <1>2. QED
    BY <1>1 DEF Covered
-----------------------------------------------------------------------------
(* A restore that nobody disturbs *)

\* What r assumes of the state it acts in.
Given(r) == /\ TypeOK /\ Stages /\ Begun(r)
            /\ name[r] \in Names /\ zips[name[r]] \in Trees
            /\ pc[r] \in {"capture", "write", "undo"} =>
                 zip[r] = zips[name[r]] /\ todo[r] \subseteq Targets(zip[r])
            /\ Accounted(r)

LEMMA BeginAccounts ==
  ASSUME Shape, NEW r \in Restorers, NEW n \in Names, BeginRestore(r, n)
  PROVE  Accounted(r)' /\ found'[r].alone = (Active(Restorers) = {})
  <1> USE DEF Shape, TypeOK, Requests, Goto
  <1>1. /\ pc[r] = "idle" /\ pc'[r] = "capture" /\ live' = live /\ dirs' = dirs
        /\ zip'[r] = zips[n] /\ todo'[r] = Targets(zips[n])
        /\ undo'[r] = Empty /\ made'[r] = {}
    BY DEF BeginRestore, Fresh, tree
  <1>2. found' = [found EXCEPT ![r] = [live |-> live, dirs |-> dirs, writes |-> writes,
                    alone |-> Active(Restorers) = {}, waiting |-> Waiting \ {r}]]
    BY DEF BeginRestore
  <1>3. found'[r] = [live |-> live, dirs |-> dirs, writes |-> writes,
                     alone |-> Active(Restorers) = {}, waiting |-> Waiting \ {r}]
    BY <1>2 DEF Histories
  <1>4. Captures(r)'
    <2>1. Past(r)' = {}
      BY <1>1 DEF Past, Targets
    <2>2. QED
      BY <1>1, <1>3, <2>1 DEF Captures, Noted, Before, Empty
  <1>5. QED
    BY <1>1, <1>3, <1>4 DEF Accounted

LEMMA CaptureAccounts ==
  ASSUME NEW r \in Restorers, Given(r), NEW f \in todo[r], Capture(r, f)
  PROVE  Accounted(r)'
  <1> USE DEF Given, TypeOK, Requests
  <1>1. /\ pc[r] = "capture" /\ pc' = pc /\ live' = live /\ dirs' = dirs
        /\ zip' = zip /\ found' = found
        /\ undo'[r] = [undo[r] EXCEPT ![f] = live[f]]
        /\ made'[r] = IF Parent(f) \subseteq dirs THEN made[r] ELSE made[r] \cup {f}
        /\ todo'[r] = todo[r] \ {f}
    BY DEF Capture, tree, back
  <1>2. f \in Targets(zip[r]) /\ Past(r)' = Past(r) \cup {f}
    BY <1>1 DEF Past, Targets
  <1>3. Captures(r)
    BY <1>1 DEF Accounted
  <1>4. undo'[r] = [g \in Files |-> IF g \in Past(r)' THEN Before(r)[g] ELSE Gone]
    BY <1>1, <1>2, <1>3 DEF Captures, Noted, Targets
  <1>5. made'[r] = {g \in Past(r)' : ~(Parent(g) \subseteq found[r].dirs)}
    BY <1>1, <1>2, <1>3 DEF Captures, Noted
  <1>6. Captures(r)'
    BY <1>1, <1>3, <1>4, <1>5 DEF Captures, Noted, Before
  <1>7. QED
    BY <1>1, <1>6 DEF Accounted

LEMMA CapturedAccounts ==
  ASSUME NEW r \in Restorers, Given(r), Captured(r)
  PROVE  Accounted(r)'
  <1> USE DEF Given, TypeOK, Requests, Goto
  <1>1. /\ pc[r] = "capture" /\ pc'[r] = "write" /\ live' = live /\ dirs' = dirs
        /\ zip' = zip /\ found' = found /\ undo' = undo /\ made' = made
        /\ todo[r] = {} /\ todo'[r] = Targets(zip[r])
    BY DEF Captured, tree, back
  <1>2. Captures(r) /\ Past(r) = Targets(zip[r]) /\ Past(r)' = {}
    BY <1>1 DEF Accounted, Past, Targets
  <1>3. live = [g \in Files |-> Before(r)[g]]
    BY <1>2 DEF Captures, Trees
  <1>4. Writes(r)'
    BY <1>1, <1>2, <1>3 DEF Writes, Captures, Noted, Before, Targets
  <1>5. QED
    BY <1>1, <1>4 DEF Accounted

LEMMA WriteAccounts ==
  ASSUME NEW r \in Restorers, Given(r), NEW f \in todo[r], Write(r, f)
  PROVE  Accounted(r)'
  <1> USE DEF Given, TypeOK, Requests
  <1>1. /\ pc[r] = "write" /\ pc' = pc
        /\ live' = [live EXCEPT ![f] = zip[r][f]] /\ dirs' = dirs \cup Parent(f)
        /\ zip' = zip /\ found' = found /\ undo' = undo /\ made' = made
        /\ todo'[r] = todo[r] \ {f}
    BY DEF Write, Restored, Become, back
  <1>2. f \in Targets(zip[r]) /\ Past(r)' = Past(r) \cup {f}
    BY <1>1 DEF Past, Targets
  <1>3. Writes(r)
    BY <1>1 DEF Accounted
  <1>4. live' = [g \in Files |-> IF g \in Past(r)' THEN zip[r][g] ELSE Before(r)[g]]
    BY <1>1, <1>2, <1>3 DEF Writes
  <1>5. dirs' = found[r].dirs \cup UNION {Parent(g) : g \in Past(r)'}
    BY <1>1, <1>2, <1>3 DEF Writes
  <1>6. Writes(r)'
    BY <1>1, <1>3, <1>4, <1>5 DEF Writes, Noted, Before, Targets
  <1>7. QED
    BY <1>1, <1>6 DEF Accounted

LEMMA WriteFailsAccounts ==
  ASSUME NEW r \in Restorers, Given(r), NEW f \in todo[r], WriteFails(r, f)
  PROVE  Accounted(r)'
  <1> USE DEF Given, TypeOK, Requests, Goto
  <1>1. /\ pc[r] = "write" /\ pc'[r] = "undo"
        /\ zip' = zip /\ found' = found /\ undo' = undo /\ made' = made
        /\ todo'[r] = Targets(zip[r])
    BY DEF WriteFails, Undoing, back
  <1>2. /\ live' = live \/ live' = [live EXCEPT ![f] = zip[r][f]]
        /\ dirs' = dirs \/ dirs' = dirs \cup Parent(f)
    BY DEF WriteFails, Restored, Become
  <1>3. Writes(r) /\ f \in Targets(zip[r]) /\ Past(r) \subseteq Targets(zip[r])
    BY <1>1 DEF Accounted, Past
  <1>4. \A g \in Files : live'[g] = Before(r)[g] \/ g \in Targets(zip[r])
    BY <1>2, <1>3 DEF Writes, Targets
  <1>5. /\ found[r].dirs \subseteq dirs'
        /\ \A d \in dirs' \ found[r].dirs : \E g \in Targets(zip[r]) : DirOf[g] = d
    BY <1>2, <1>3 DEF Writes, Parent
  <1>6. Undoes(r)'
    BY <1>1, <1>3, <1>4, <1>5 DEF Undoes, Writes, Noted, Before, Targets
  <1>7. QED
    BY <1>1, <1>6 DEF Accounted

LEMMA FinishAccounts ==
  ASSUME NEW r \in Restorers, Given(r), Finish(r)
  PROVE  Accounted(r)'
  <1> USE DEF Given, TypeOK, Requests, Goto
  <1>1. /\ pc[r] = "write" /\ pc'[r] = "done" /\ reply'[r] = "ok" /\ todo[r] = {}
        /\ live' = live /\ found' = found /\ zips' = zips /\ name' = name
    BY DEF Finish, Answer, tree
  <1>2. Writes(r) /\ zip[r] = zips[name[r]]
    BY <1>1 DEF Accounted
  <1>3. live' = [f \in Files |-> IF zips[name[r]][f] # Gone THEN zips[name[r]][f]
                               ELSE Before(r)[f]]
    BY <1>1, <1>2 DEF Writes, Past, Targets
  <1>4. QED
    BY <1>1, <1>3 DEF Accounted, Before

LEMMA FinishFailsAccounts ==
  ASSUME NEW r \in Restorers, Given(r), FinishFails(r)
  PROVE  Accounted(r)'
  <1> USE DEF Given, TypeOK, Requests, Goto
  <1>1. /\ pc[r] = "write" /\ pc'[r] = "undo" /\ live' = live /\ dirs' = dirs
        /\ zip' = zip /\ found' = found /\ undo' = undo /\ made' = made
        /\ todo'[r] = Targets(zip[r])
    BY DEF FinishFails, Undoing, back
  <1>2. Writes(r) /\ Past(r) \subseteq Targets(zip[r])
    BY <1>1 DEF Accounted, Past
  <1>3. \A g \in Files : live[g] = Before(r)[g] \/ g \in Targets(zip[r])
    BY <1>2 DEF Writes
  <1>4. /\ found[r].dirs \subseteq dirs
        /\ \A d \in dirs \ found[r].dirs : \E g \in Targets(zip[r]) : DirOf[g] = d
    BY <1>2 DEF Writes, Parent
  <1>5. Undoes(r)'
    BY <1>1, <1>2, <1>3, <1>4 DEF Undoes, Writes, Noted, Before, Targets
  <1>6. QED
    BY <1>1, <1>5 DEF Accounted

LEMMA PutBackAccounts ==
  ASSUME NEW r \in Restorers, Given(r), NEW f \in todo[r], PutBack(r, f)
  PROVE  Accounted(r)'
  <1> USE DEF Given, TypeOK, Requests
  <1> DEFINE F == found[r]
  <1>1. /\ pc[r] = "undo" /\ pc' = pc
        /\ live' = [live EXCEPT ![f] = undo[r][f]]
        /\ dirs' = IF undo[r][f] # Gone THEN dirs \cup Parent(f)
                   ELSE dirs \ {d \in Parent(f) : /\ f \in made[r]
                                                 /\ \A g \in Targets(live') : DirOf[g] # d}
        /\ zip' = zip /\ found' = found /\ undo' = undo /\ made' = made
        /\ todo'[r] = todo[r] \ {f}
    BY DEF PutBack, Become, back
  <1>2. Undoes(r) /\ f \in Targets(zip[r]) /\ f \in Files
    BY <1>1 DEF Accounted, Targets
  <1>3. undo[r][f] = F.live[f] /\ (f \in made[r] <=> ~(Parent(f) \subseteq F.dirs))
    BY <1>2 DEF Undoes, Noted, Before
  <1>4. \A g \in Files : F.live[g] # Gone => DirOf[g] \in F.dirs \cup {Root}
    BY DEF Begun, Targets
  <1>5. \A g \in Files : live'[g] = F.live[g] \/ g \in todo[r] \ {f}
    BY <1>1, <1>2, <1>3 DEF Undoes, Before, Trees
  <1>6. /\ F.dirs \subseteq dirs'
        /\ \A d \in dirs' \ F.dirs : \E g \in todo[r] \ {f} : DirOf[g] = d
    <2>1. CASE undo[r][f] # Gone
      <3>1. Parent(f) \subseteq F.dirs
        BY <1>2, <1>3, <1>4, <2>1 DEF Parent
      <3>2. dirs' = dirs
        BY <1>1, <1>2, <2>1, <3>1 DEF Undoes
      <3>3. \A d \in dirs \ F.dirs : d # Root
        OBVIOUS
      <3>4. QED
        BY <1>2, <3>1, <3>2, <3>3 DEF Undoes, Parent
    <2>2. CASE undo[r][f] = Gone
      <3>1. dirs' = dirs \ {d \in Parent(f) : /\ f \in made[r]
                                             /\ \A g \in Targets(live') : DirOf[g] # d}
        BY <1>1, <2>2
      <3>2. F.dirs \subseteq dirs'
        BY <1>2, <1>3, <3>1 DEF Undoes, Parent
      <3>3. ASSUME NEW d \in dirs' \ F.dirs
            PROVE  \E g \in todo[r] \ {f} : DirOf[g] = d
        <4>1. d \in dirs /\ d # Root
          BY <3>1
        <4>2. PICK g \in todo[r] : DirOf[g] = d
          BY <1>2, <3>3, <4>1 DEF Undoes
        <4>3. CASE g # f
          BY <4>2, <4>3
        <4>4. CASE g = f
          <5>1. d \in Parent(f) /\ f \in made[r]
            BY <1>3, <3>3, <4>1, <4>2, <4>4 DEF Parent
          <5>2. PICK h \in Targets(live') : DirOf[h] = d
            BY <3>1, <3>3, <5>1
          <5>3. h \in Files /\ live'[h] # Gone
            BY <5>2 DEF Targets
          <5>4. live'[h] # F.live[h]
            BY <1>4, <3>3, <4>1, <5>2, <5>3
          <5>5. QED
            BY <1>5, <5>2, <5>3, <5>4
        <4>5. QED
          BY <4>3, <4>4
      <3>4. QED
        BY <3>2, <3>3
    <2>3. QED
      BY <2>1, <2>2
  <1>7. Undoes(r)'
    BY <1>1, <1>2, <1>5, <1>6 DEF Undoes, Noted, Before, Targets
  <1>8. QED
    BY <1>1, <1>7 DEF Accounted

LEMMA GivesUpAccounts ==
  ASSUME NEW r \in Restorers, Given(r),
         CaptureFails(r) \/ PutBackFails(r) \/ Undone(r)
  PROVE  Accounted(r)'
  <1> USE DEF Given, TypeOK, Requests, Goto
  <1>1. live' = live /\ dirs' = dirs /\ found' = found /\ pc'[r] = "done"
    BY DEF CaptureFails, PutBackFails, Undone, Answer, tree
  <1>2. CASE CaptureFails(r)
    <2>1. pc[r] = "capture" /\ reply'[r] = "failed"
      BY <1>2 DEF CaptureFails, Answer
    <2>2. QED
      BY <1>1, <2>1 DEF Accounted, Captures, Before
  <1>3. CASE PutBackFails(r)
    <2>1. reply'[r] = "broken"
      BY <1>3 DEF PutBackFails, Answer
    <2>2. QED
      BY <1>1, <2>1 DEF Accounted
  <1>4. CASE Undone(r)
    <2>1. pc[r] = "undo" /\ reply'[r] = "failed" /\ todo[r] = {}
      BY <1>4 DEF Undone, Answer
    <2>2. Undoes(r)
      BY <2>1 DEF Accounted
    <2>3. live = found[r].live
      <3>1. live \in [Files -> Versions] /\ found[r].live \in [Files -> Versions]
        BY DEF Begun, Finding, Trees
      <3>2. \A f \in Files : live[f] = found[r].live[f]
        BY <2>1, <2>2 DEF Undoes, Before
      <3>3. QED
        BY <3>1, <3>2
    <2>4. dirs = found[r].dirs
      BY <2>1, <2>2 DEF Undoes
    <2>5. QED
      BY <1>1, <2>1, <2>3, <2>4 DEF Accounted, Before
  <1>5. QED
    BY <1>2, <1>3, <1>4

\* Of the restores, only r acts while r is undisturbed.
LEMMA Calm ==
  ASSUME IndInv, NEW r \in Restorers, Undisturbed(r)', Next
  PROVE  \/ \E m \in Makers : Make(m) /\ Undisturbed(r)
         \/ Restore(r) /\ Undisturbed(r)
         \/ \E n \in Names : BeginRestore(r, n)
  <1> USE DEF Next
  <1> USE DEF IndInv, Shape
  <1>1. writes \in Nat /\ Waiting' \subseteq Waiting
    BY StagesStep, BackupAssumption DEF Waiting, Requests, TypeOK
  <1>2. ASSUME found'[r] = found[r], writes' = writes
        PROVE  Undisturbed(r) /\ Waiting' = Waiting
    <2>1. found[r] # None
      BY <1>2 DEF Undisturbed
    <2>2. found[r].alone /\ writes = found[r].writes /\ Waiting' = found[r].waiting
      BY <1>2 DEF Undisturbed
    <2>3. Waiting \subseteq found[r].waiting
      BY <2>1 DEF Histories, Begun
    <2>4. QED
      BY <1>1, <2>1, <2>2, <2>3 DEF Undisturbed
  <1>3. CASE Outside
    <2>1. writes' = writes + 1 /\ found' = found
      BY <1>3, OutsideFrame
    <2>2. found[r] # None /\ writes' = found[r].writes
      BY <2>1 DEF Undisturbed
    <2>3. found[r].writes <= writes /\ found[r].writes \in Nat
      BY <2>2 DEF Histories, Begun, Finding
    <2>4. QED
      BY <1>1, <2>1, <2>2, <2>3
  <1>4. ASSUME NEW m \in Makers, Make(m)
        PROVE  Undisturbed(r)
    BY <1>2, <1>4, MakeFrame
  <1>5. CASE Restore(r)
    <2>1. CASE found' = found
      BY <1>2, <1>5, <2>1, RestoreFrame
    <2>2. QED
      BY <1>5, <2>1, FoundOnce
  <1>6. ASSUME NEW q \in Restorers \ {r}, Restore(q)
        PROVE  FALSE
    <2>1. Undisturbed(r) /\ Waiting' = Waiting
      BY <1>2, <1>6, RestoreFrame
    <2>2. pc[q] \in {"idle", "done"}
      BY <2>1 DEF Alone
    <2>3. CASE pc[q] = "idle"
      <3>1. pc'[q] # "idle"
        BY <1>6, RestoreMoves
      <3>2. QED
        BY <2>1, <2>3, <3>1 DEF Waiting
    <2>4. CASE pc[q] = "done"
      BY <1>6, <2>4 DEF Restore, BeginRestore, BeginRestoreFails, Capture, Write, WriteFails,
           PutBack, CaptureFails, Captured, Finish, FinishFails, PutBackFails, Undone,
           Answer, Goto
    <2>5. QED
      BY <2>2, <2>3, <2>4
  <1>7. QED
    BY <1>3, <1>4, <1>5, <1>6

LEMMA RestoreAccounts ==
  ASSUME IndInv, NEW r \in Restorers, Restore(r), Undisturbed(r)
  PROVE  Accounted(r)'
  <1>1. found[r] # None /\ Accounted(r)
    BY DEF Undisturbed, IndInv, Undoable
  <1>2. Given(r) /\ pc[r] # "idle"
    BY <1>1 DEF IndInv, Shape, Histories, Reading, Reads, Given
  <1>3. ASSUME NEW f \in todo[r], Capture(r, f) \/ Write(r, f) \/ WriteFails(r, f) \/ PutBack(r, f)
        PROVE  Accounted(r)'
    BY <1>2, <1>3, CaptureAccounts, WriteAccounts, WriteFailsAccounts, PutBackAccounts
  <1>4. CASE CaptureFails(r) \/ PutBackFails(r) \/ Undone(r)
    BY <1>2, <1>4, GivesUpAccounts
  <1>5. CASE Captured(r) \/ Finish(r) \/ FinishFails(r)
    BY <1>2, <1>5, CapturedAccounts, FinishAccounts, FinishFailsAccounts
  <1>6. ASSUME NEW n \in Names, BeginRestore(r, n) \/ BeginRestoreFails(r, n)
        PROVE  FALSE
    BY <1>2, <1>6 DEF BeginRestore, BeginRestoreFails, Answer, Goto
  <1>7. QED
    BY <1>3, <1>4, <1>5, <1>6 DEF Restore

LEMMA AloneStep ==
  ASSUME IndInv, Next
  PROVE  Alone'
  <1> USE DEF Next
  <1> SUFFICES ASSUME NEW r \in Restorers, Undisturbed(r)', NEW q \in Restorers \ {r}
               PROVE  pc'[q] \in {"idle", "done"}
    BY DEF Alone
  <1> USE DEF IndInv, Shape
  <1>1. ASSUME NEW m \in Makers, Make(m), Undisturbed(r)
        PROVE  pc'[q] \in {"idle", "done"}
    BY <1>1, MakeFrame, BackupAssumption DEF Alone, Still, Requests
  <1>2. CASE Restore(r) /\ Undisturbed(r)
    BY <1>2, RestoreFrame DEF Alone, Still, Requests
  <1>3. ASSUME NEW n \in Names, BeginRestore(r, n)
        PROVE  pc'[q] \in {"idle", "done"}
    <2>1. Active(Restorers) = {}
      BY <1>3, BeginAccounts DEF Undisturbed
    <2>2. pc'[q] = pc[q]
      BY <1>3 DEF BeginRestore, Goto, TypeOK, Requests
    <2>3. QED
      BY <2>1, <2>2 DEF Active
  <1>4. QED
    BY <1>1, <1>2, <1>3, Calm

LEMMA UndoableStep ==
  ASSUME IndInv, Next
  PROVE  Undoable'
  <1> USE DEF Next
  <1> SUFFICES ASSUME NEW r \in Restorers, Undisturbed(r)'
               PROVE  Accounted(r)'
    BY DEF Undoable
  <1>1. ASSUME NEW m \in Makers, Make(m), Undisturbed(r)
        PROVE  Accounted(r)'
    <2>1. Still(r) /\ UNCHANGED <<live, dirs, found>>
      BY <1>1, MakeFrame, BackupAssumption DEF IndInv, Shape, Requests
    <2>2. found[r] # None /\ Accounted(r)
      BY <1>1 DEF Undisturbed, IndInv, Undoable
    <2>3. zips'[name[r]] = zips[name[r]]
      BY <2>2, ArchivesStep DEF IndInv, Reading, Reads
    <2>4. QED
      BY <2>1, <2>2, <2>3 DEF Still, Accounted, Captures, Writes, Undoes, Noted, Past,
                              Before, Targets
  <1>2. CASE Restore(r) /\ Undisturbed(r)
    BY <1>2, RestoreAccounts
  <1>3. ASSUME NEW n \in Names, BeginRestore(r, n)
        PROVE  Accounted(r)'
    BY <1>3, BeginAccounts DEF IndInv
  <1>4. QED
    BY <1>1, <1>2, <1>3, Calm
-----------------------------------------------------------------------------
LEMMA StartInv == Init => IndInv
  <1> SUFFICES ASSUME Init PROVE IndInv
    OBVIOUS
  <1> USE BackupAssumption, VersionsOK DEF Init
  <1>1. TypeOK
    <2>1. live \in Trees
      BY DEF Trees
    <2>2. /\ \A f \in Targets(live) : DirOf[f] \in dirs \cup {Root}
          /\ dirs \subseteq {DirOf[f] : f \in Files} \ {Root}
      BY DEF Targets, Parent
    <2>3. QED
      BY <2>1, <2>2 DEF TypeOK
  <1>2. \A r \in Restorers : ~Undisturbed(r)
    BY DEF Undisturbed
  <1>3. Stages /\ Fresh /\ Histories
    BY DEF Stages, Fresh, Histories, Requests, NotSeen
  <1>4. Owned /\ Reading /\ Covered
    BY DEF Owned, Reading, Reads, Covered, Covers, Requests
  <1>5. QED
    BY <1>1, <1>2, <1>3, <1>4 DEF IndInv, Shape, Alone, Undoable

LEMMA StepInv == IndInv /\ [Next]_vars => IndInv'
  <1>1. ASSUME IndInv, Next
        PROVE  IndInv'
    <2>1. Shape' /\ Owned' /\ Reading' /\ Covered'
      BY <1>1, ShapeStep, OwnedStep, ReadingStep, CoveredStep DEF IndInv
    <2>2. Alone' /\ Undoable'
      BY <1>1, AloneStep, UndoableStep
    <2>3. QED
      BY <2>1, <2>2 DEF IndInv
  <1>2. ASSUME IndInv, UNCHANGED vars
        PROVE  IndInv'
    <2> USE <1>2 DEF vars, tree, walk, back, IndInv
    <2>1. Shape'
      BY DEF Shape, TypeOK, Stages, Fresh, Histories, Begun, Waiting, Targets
    <2>2. Owned' /\ Reading' /\ Covered'
      BY DEF Owned, Reading, Reads, Covered, Covers, Coming, Targets
    <2>3. \A r : /\ Undisturbed(r)' => Undisturbed(r)
                 /\ Accounted(r) => Accounted(r)'
      BY DEF Undisturbed, Waiting, Accounted, Captures, Writes, Undoes, Noted, Past, Before, Targets
    <2>4. Alone' /\ Undoable'
      BY <2>3 DEF Alone, Undoable
    <2>5. QED
      BY <2>1, <2>2, <2>4
  <1>3. QED
    BY <1>1, <1>2

LEMMA Invariance == Spec => []IndInv
  BY StartInv, StepInv, PTL DEF Spec

\* Requests go through the steps of backup and restoreBackup, with what those
\* work on, and no file is ever without its directory: also a rollback that
\* removes directories leaves those that have a file.
THEOREM Types == Spec => []TypeOK
  <1>1. IndInv => TypeOK
    BY DEF IndInv, Shape
  <1>2. QED
    BY Invariance, <1>1, PTL

\* addDirectoryToZip and addFileToZip put no file in the archive as it never was
\* while they walked, and miss none that was there all the time, whatever saves,
\* moves, losses and restores do to the tree meanwhile.
THEOREM Faithful == Spec => []BackupIsFaithful
  <1>1. IndInv => BackupIsFaithful
    BY DEF IndInv, Covered, Covers, BackupIsFaithful
  <1>2. QED
    BY Invariance, <1>1, PTL

\* rollbackRestore undoes exactly what restoreBackup did, at whichever step it
\* failed: the files, and the directories that were not there.
THEOREM NoTrace == Spec => []FailedRestoreLeavesNoTrace
  <1>1. IndInv => FailedRestoreLeavesNoTrace
    BY DEF IndInv, Undoable, Accounted, Before, FailedRestoreLeavesNoTrace
  <1>2. QED
    BY Invariance, <1>1, PTL

\* A restore that answers "ok" has written every file of the archive, which is
\* still the one it was asked for, and no other file.
THEOREM BringsBack == Spec => []RestoreBringsBack
  <1>1. IndInv => RestoreBringsBack
    BY DEF IndInv, Undoable, Accounted, Before, RestoreBringsBack
  <1>2. QED
    BY Invariance, <1>1, PTL

\* An archive is never replaced or withdrawn: reserveUniqueBackupPath gives out
\* no name twice, and a backup that fails gives up its own reservation only.
ArchivesStay == \A n \in Names : zips[n] \in Trees => zips'[n] = zips[n]

THEOREM Immutable == Spec => [][ArchivesStay]_vars
  <1>1. IndInv /\ [Next]_vars => [ArchivesStay]_vars
    BY ArchivesStep DEF IndInv, ArchivesStay
  <1>2. QED
    BY Invariance, <1>1, PTL DEF Spec
=============================================================================
