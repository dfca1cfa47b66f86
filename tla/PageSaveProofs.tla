--------------------------- MODULE PageSaveProofs ---------------------------
(***************************************************************************)
(* The safety of PageSave for any number of requests, pages, directories,  *)
(* failures, kills and power losses, from one inductive invariant.         *)
(***************************************************************************)
EXTENDS PageSave, TLAPS

OnDisk == {"written", "marked"}

\* From LockDir to Unlock, and then only, a request is inside the lock of its
\* directory.
Locked == Steps \cup {"unlock"}

LockHeld ==
  /\ \A r \in Requests : /\ pc[r] \in Locked => inside[r] = Dir(r)
                         /\ inside[r] # None => pc[r] \in Locked
  /\ \A r, s \in Requests : inside[r] = inside[s] /\ inside[r] # None => r = s

\* What a request has decided by the time it reaches each step.
Decided ==
  \A r \in Requests :
    /\ pc[r] = "idle" <=> of[r] = None
    /\ pc[r] \in Locked \cup {"lock"} => want[r] # None
    /\ file[r] \in OnDisk => want[r] # None

\* How far its revision file has got; nothing durable is ever taken back.
FileStage ==
  \A r \in Requests :
    /\ pc[r] \in {"idle", "find", "lock", "load", "reserve"}
         => file[r] = "absent" /\ fileDisk[r] = "absent"
    /\ pc[r] = "record" => file[r] = "reserved"
    /\ pc[r] \in {"syncRecord", "page", "syncPage", "db", "mark"} => file[r] = "written"
    /\ pc[r] \in {"record", "syncRecord"} => fileDisk[r] = "absent"
    /\ pc[r] \in {"page", "syncPage", "db", "mark"} => fileDisk[r] \in OnDisk
    /\ fileDisk[r] \in OnDisk => file[r] \in OnDisk

\* From Load until it is done with the page, a save has the highest number.
FreshNumber ==
  \A r, x \in Requests :
    /\ pc[r] \in {"reserve", "record", "syncRecord", "page", "syncPage"}
    /\ x # r /\ of[x] # None /\ Dir(x) = Dir(r) /\ file[x] \in OnDisk
    => rev[x] < rev[r]

Numbered ==
  \A x, y \in Requests :
    /\ of[x] # None /\ of[y] # None /\ Dir(x) = Dir(y)
    /\ file[x] \in OnDisk /\ file[y] \in OnDisk /\ rev[x] = rev[y]
    => x = y

\* Until the page is replaced it is what was read under the lock, and then
\* what was written.
PageUnderLock ==
  \A r \in Requests :
    /\ pc[r] \in {"reserve", "record", "syncRecord", "page"} => base[r] = page[of[r]]
    /\ pc[r] = "syncPage" => page[of[r]] = want[r]

\* A body in a page file is backed by a record that a power loss cannot undo.
Backed(p, c) ==
  c = Site[p] \/ \E r \in Requests : of[r] = p /\ want[r] = c /\ fileDisk[r] \in OnDisk

PagesBacked == \A p \in Pages : Backed(p, page[p]) /\ Backed(p, pageDisk[p])

\* A save that has got past its two syncs has them for good.  "Newest" ranges
\* over durable records: one that is only visible may still be taken back.
Newest(r) ==
  \A x \in Requests : of[x] = of[r] /\ fileDisk[x] \in OnDisk => rev[x] <= rev[r]

KeptBy(r) ==
  /\ reply[r] = "ok" => pc[r] \in {"unlock", "done", "killed"}
  /\ pc[r] \in {"db", "mark"} \/ reply[r] = "ok" =>
       /\ of[r] # None /\ fileDisk[r] \in OnDisk
       /\ Newest(r) => page[of[r]] = want[r] /\ pageDisk[of[r]] = want[r]

Kept == \A r \in Requests : KeptBy(r)

IndInv == /\ TypeOK /\ LockHeld /\ Decided /\ FileStage
          /\ FreshNumber /\ Numbered /\ PageUnderLock /\ PagesBacked /\ Kept
-----------------------------------------------------------------------------
USE DEF Goto, OnDisk

\* The types, by the typed arguments of each action and the stage a body is decided at.
LEMMA TypeStep == IndInv /\ [Next]_vars => TypeOK'
  <1> SUFFICES ASSUME IndInv, [Next]_vars PROVE TypeOK'
    OBVIOUS
  <1> USE DEF IndInv, TypeOK, Locked, Steps, Dir, vars, local, disk, downs, Fail,
         Decided, FileStates, Among, Entries, Records
  <1>1. ASSUME NEW r \in Requests, Arrive(r) PROVE TypeOK'
    <2>1. ASSUME NEW p \in Pages, NEW c \in Contents, Edit(r, p, c) PROVE TypeOK'
      BY <2>1, PageSaveAssumption DEF Edit
    <2>2. ASSUME NEW p \in Pages, NEW n \in 1..Cardinality(Requests), Restore(r, p, n)
          PROVE  TypeOK'
      BY <2>2, PageSaveAssumption DEF Restore
    <2>3. QED
      BY <1>1, <2>1, <2>2 DEF Arrive
  <1>2. ASSUME NEW r \in Requests, Find(r) PROVE TypeOK'
    <2>1. ASSUME NEW x \in Requests, ReadEntry(r, x) PROVE TypeOK'
      BY <2>1, PageSaveAssumption DEF ReadEntry
    <2>2. CASE Found(r) \/ NotFound(r)
      BY <2>2, PageSaveAssumption DEF Found, NotFound
    <2>3. QED
      BY <1>2, <2>1, <2>2 DEF Find
  <1>3. ASSUME NEW r \in Requests, LockDir(r) PROVE TypeOK'
    BY <1>3, PageSaveAssumption DEF LockDir, Lock!Acquire
  <1>4. ASSUME NEW r \in Requests, Save(r) PROVE TypeOK'
    <2>1. CASE Load(r)
      BY <2>1, PageSaveAssumption DEF Load
    <2>2. CASE SyncRecord(r)
      BY <2>2, PageSaveAssumption DEF SyncRecord
    <2>3. CASE RecordFails(r)
      BY <2>3, PageSaveAssumption DEF RecordFails
    <2>4. CASE ReplacePage(r)
      BY <2>4, PageSaveAssumption DEF ReplacePage
    <2>5. CASE SyncPage(r)
      BY <2>5, PageSaveAssumption DEF SyncPage
    <2>6. CASE Mark(r)
      BY <2>6, PageSaveAssumption DEF Mark
    <2>7. CASE LoadFails(r) \/ Reserve(r) \/ ReserveFails(r) \/ WriteRecord(r)
                 \/ ReplaceFails(r) \/ SyncPageFails(r)
      BY <2>7, PageSaveAssumption DEF LoadFails, Reserve, ReserveFails,
         WriteRecord, ReplaceFails, SyncPageFails
    <2>8. CASE SaveDB(r) \/ SaveDBFails(r) \/ MarkFails(r) \/ Unlock(r)
      BY <2>8, PageSaveAssumption DEF SaveDB, SaveDBFails, MarkFails, Unlock, Lock!Release
    <2>9. QED
      BY <1>4, <2>1, <2>2, <2>3, <2>4, <2>5, <2>6, <2>7, <2>8 DEF Save
  <1>5. ASSUME Kill \/ PowerLoss PROVE TypeOK'
    BY <1>5, PageSaveAssumption DEF Kill, PowerLoss, Abandon, Survivors
  <1>6. CASE UNCHANGED vars
    BY <1>6
  <1>7. QED
    BY <1>1, <1>2, <1>3, <1>4, <1>5, <1>6 DEF Next

\* Only LockDir, Unlock and a restart touch the lock.
LEMMA LockHeldStep == IndInv /\ [Next]_vars => LockHeld'
  <1> SUFFICES ASSUME IndInv, [Next]_vars PROVE LockHeld'
    OBVIOUS
  <1> USE DEF IndInv, TypeOK, Locked, Steps, Dir, vars, local, disk, downs, Fail, LockHeld, Decided
  <1>1. ASSUME NEW r \in Requests, Arrive(r) PROVE LockHeld'
    BY <1>1 DEF Arrive, Edit, Restore
  <1>2. ASSUME NEW r \in Requests, Find(r) PROVE LockHeld'
    BY <1>2 DEF Find, ReadEntry, Found, NotFound
  <1>3. ASSUME NEW r \in Requests, LockDir(r) PROVE LockHeld'
    BY <1>3 DEF LockDir, Lock!Acquire
  <1>4. ASSUME NEW r \in Requests, Save(r) PROVE LockHeld'
    BY <1>4 DEF Save, Load, LoadFails, Reserve, ReserveFails, WriteRecord, SyncRecord,
       RecordFails, ReplacePage, ReplaceFails, SyncPage, SyncPageFails, SaveDB, SaveDBFails,
       Mark, MarkFails, Unlock, Lock!Release
  <1>5. ASSUME Kill \/ PowerLoss PROVE LockHeld'
    BY <1>5 DEF Kill, PowerLoss, Abandon, Survivors
  <1>6. CASE UNCHANGED vars
    BY <1>6
  <1>7. QED
    BY <1>1, <1>2, <1>3, <1>4, <1>5, <1>6 DEF Next

\* A body is decided before LockDir and never changed after.
LEMMA DecidedStep == IndInv /\ [Next]_vars => Decided'
  <1> SUFFICES ASSUME IndInv, [Next]_vars PROVE Decided'
    OBVIOUS
  <1> USE DEF IndInv, TypeOK, Locked, Steps, Dir, vars, local, disk, downs, Fail, Decided, FileStage, FileStates
  <1>1. ASSUME NEW r \in Requests, Arrive(r) PROVE Decided'
    BY <1>1, PageSaveAssumption DEF Arrive, Edit, Restore
  <1>2. ASSUME NEW r \in Requests, Find(r) PROVE Decided'
    BY <1>2 DEF Find, ReadEntry, Found, NotFound
  <1>3. ASSUME NEW r \in Requests, LockDir(r) PROVE Decided'
    BY <1>3 DEF LockDir, Lock!Acquire
  <1>4. ASSUME NEW r \in Requests, Save(r) PROVE Decided'
    BY <1>4 DEF Save, Load, LoadFails, Reserve, ReserveFails, WriteRecord, SyncRecord,
       RecordFails, ReplacePage, ReplaceFails, SyncPage, SyncPageFails, SaveDB, SaveDBFails,
       Mark, MarkFails, Unlock, Lock!Release
  <1>5. ASSUME Kill \/ PowerLoss PROVE Decided'
    BY <1>5 DEF Kill, PowerLoss, Abandon, Survivors
  <1>6. CASE UNCHANGED vars
    BY <1>6
  <1>7. QED
    BY <1>1, <1>2, <1>3, <1>4, <1>5, <1>6 DEF Next

\* A revision file is moved by its own request, by a sync of its directory, or by a
\* power loss.
LEMMA FileStageStep == IndInv /\ [Next]_vars => FileStage'
  <1> SUFFICES ASSUME IndInv, [Next]_vars PROVE FileStage'
    OBVIOUS
  <1> USE DEF IndInv, TypeOK, Locked, Steps, Dir, vars, local, disk, downs, Fail, Decided, LockHeld, FileStage, FileStates, Among
  <1>1. ASSUME NEW r \in Requests, Arrive(r) PROVE FileStage'
    BY <1>1 DEF Arrive, Edit, Restore
  <1>2. ASSUME NEW r \in Requests, Find(r) PROVE FileStage'
    BY <1>2 DEF Find, ReadEntry, Found, NotFound
  <1>3. ASSUME NEW r \in Requests, LockDir(r) PROVE FileStage'
    BY <1>3 DEF LockDir, Lock!Acquire
  <1>4. ASSUME NEW r \in Requests, Save(r) PROVE FileStage'
    <2>1. CASE SyncRecord(r)
      BY <2>1, PageSaveAssumption DEF SyncRecord
    <2>2. CASE Load(r) \/ LoadFails(r) \/ Reserve(r) \/ ReserveFails(r) \/
                 WriteRecord(r) \/ RecordFails(r) \/ ReplacePage(r) \/
                 ReplaceFails(r) \/ SyncPage(r) \/ SyncPageFails(r) \/ SaveDB(r)
                 \/ SaveDBFails(r) \/ Mark(r) \/ MarkFails(r) \/ Unlock(r)
      BY <2>2, PageSaveAssumption DEF Load, LoadFails, Reserve, ReserveFails,
         WriteRecord, RecordFails, ReplacePage, ReplaceFails, SyncPage,
         SyncPageFails, SaveDB, SaveDBFails, Mark, MarkFails, Unlock, Lock!Release
    <2>3. QED
      BY <1>4, <2>1, <2>2 DEF Save
  <1>5. CASE Kill
    BY <1>5 DEF Kill, Abandon
  <1>6. CASE PowerLoss
    BY <1>6 DEF PowerLoss, Abandon, Survivors
  <1>7. CASE UNCHANGED vars
    BY <1>7
  <1>8. QED
    BY <1>1, <1>2, <1>3, <1>4, <1>5, <1>6, <1>7 DEF Next

\* The lock keeps other records out between Load and WriteRecord.
LEMMA FreshNumberStep == IndInv /\ [Next]_vars => FreshNumber'
  <1> SUFFICES ASSUME IndInv, [Next]_vars PROVE FreshNumber'
    OBVIOUS
  <1> USE DEF IndInv, TypeOK, Locked, Steps, Dir, vars, local, disk, downs, Fail,
         Decided, LockHeld, FileStage, FileStates, FreshNumber, Among, Records
  <1>1. ASSUME NEW r \in Requests, Arrive(r) PROVE FreshNumber'
    <2>1. /\ UNCHANGED <<file, rev>> /\ file[r] = "absent" /\ pc'[r] \in {"lock", "find"}
          /\ \A x \in Requests \ {r} : of'[x] = of[x] /\ pc'[x] = pc[x]
      BY <1>1 DEF Arrive, Edit, Restore
    <2>2. QED
      BY <2>1
  <1>2. ASSUME NEW r \in Requests, Find(r) PROVE FreshNumber'
    BY <1>2 DEF Find, ReadEntry, Found, NotFound
  <1>3. ASSUME NEW r \in Requests, LockDir(r) PROVE FreshNumber'
    BY <1>3 DEF LockDir, Lock!Acquire
  <1>4. ASSUME NEW r \in Requests, Save(r) PROVE FreshNumber'
    <2>1. CASE Load(r)
      BY <2>1, PageSaveAssumption DEF Load
    <2>2. CASE WriteRecord(r)
      BY <2>2, PageSaveAssumption DEF WriteRecord
    <2>3. CASE Mark(r)
      BY <2>3, PageSaveAssumption DEF Mark
    <2>4. CASE LoadFails(r) \/ Reserve(r) \/ ReserveFails(r) \/ SyncRecord(r) \/
                 RecordFails(r) \/ ReplacePage(r) \/ ReplaceFails(r) \/
                 SyncPage(r) \/ SyncPageFails(r) \/ SaveDB(r) \/ SaveDBFails(r) \/
                 MarkFails(r) \/ Unlock(r)
      BY <2>4, PageSaveAssumption DEF LoadFails, Reserve, ReserveFails,
         SyncRecord, RecordFails, ReplacePage, ReplaceFails, SyncPage,
         SyncPageFails, SaveDB, SaveDBFails, MarkFails, Unlock, Lock!Release
    <2>5. QED
      BY <1>4, <2>1, <2>2, <2>3, <2>4 DEF Save
  <1>5. ASSUME Kill \/ PowerLoss PROVE FreshNumber'
    BY <1>5 DEF Kill, PowerLoss, Abandon, Survivors
  <1>6. CASE UNCHANGED vars
    BY <1>6
  <1>7. QED
    BY <1>1, <1>2, <1>3, <1>4, <1>5, <1>6 DEF Next

\* A record gets on disk with a fresh number.
LEMMA NumberedStep == IndInv /\ [Next]_vars => Numbered'
  <1> SUFFICES ASSUME IndInv, [Next]_vars PROVE Numbered'
    OBVIOUS
  <1> USE DEF IndInv, TypeOK, Locked, Steps, Dir, vars, local, disk, downs, Fail,
         Decided, LockHeld, FileStage, FileStates, FreshNumber, Numbered, Among, Records
  <1>1. ASSUME NEW r \in Requests, Arrive(r) PROVE Numbered'
    <2>1. /\ UNCHANGED <<file, rev>> /\ file[r] = "absent"
          /\ \A x \in Requests \ {r} : of'[x] = of[x]
      BY <1>1 DEF Arrive, Edit, Restore, Goto
    <2>2. QED
      BY <2>1
  <1>2. ASSUME NEW r \in Requests, Find(r) PROVE Numbered'
    BY <1>2 DEF Find, ReadEntry, Found, NotFound
  <1>3. ASSUME NEW r \in Requests, LockDir(r) PROVE Numbered'
    BY <1>3 DEF LockDir, Lock!Acquire
  <1>4. ASSUME NEW r \in Requests, Save(r) PROVE Numbered'
    BY <1>4 DEF Save, Load, LoadFails, Reserve, ReserveFails, WriteRecord, SyncRecord,
       RecordFails, ReplacePage, ReplaceFails, SyncPage, SyncPageFails, SaveDB, SaveDBFails,
       Mark, MarkFails, Unlock, Lock!Release
  <1>5. ASSUME Kill \/ PowerLoss PROVE Numbered'
    BY <1>5 DEF Kill, PowerLoss, Abandon, Survivors
  <1>6. CASE UNCHANGED vars
    BY <1>6
  <1>7. QED
    BY <1>1, <1>2, <1>3, <1>4, <1>5, <1>6 DEF Next

\* The lock keeps other saves away from the page between Load and ReplacePage.
LEMMA PageUnderLockStep == IndInv /\ [Next]_vars => PageUnderLock'
  <1> SUFFICES ASSUME IndInv, [Next]_vars PROVE PageUnderLock'
    OBVIOUS
  <1> USE DEF IndInv, TypeOK, Locked, Steps, Dir, vars, local, disk, downs, Fail,
         Decided, LockHeld, PageUnderLock
  <1>1. ASSUME NEW r \in Requests, Arrive(r) PROVE PageUnderLock'
    BY <1>1, PageSaveAssumption DEF Arrive, Edit, Restore
  <1>2. ASSUME NEW r \in Requests, Find(r) PROVE PageUnderLock'
    BY <1>2 DEF Find, ReadEntry, Found, NotFound
  <1>3. ASSUME NEW r \in Requests, LockDir(r) PROVE PageUnderLock'
    BY <1>3, PageSaveAssumption DEF LockDir, Lock!Acquire
  <1>4. ASSUME NEW r \in Requests, Save(r) PROVE PageUnderLock'
    BY <1>4, PageSaveAssumption DEF Save, Load, LoadFails, Reserve, ReserveFails, WriteRecord, SyncRecord,
       RecordFails, ReplacePage, ReplaceFails, SyncPage, SyncPageFails, SaveDB, SaveDBFails,
       Mark, MarkFails, Unlock, Lock!Release
  <1>5. ASSUME Kill \/ PowerLoss PROVE PageUnderLock'
    BY <1>5 DEF Kill, PowerLoss, Abandon, Survivors
  <1>6. CASE UNCHANGED vars
    BY <1>6
  <1>7. QED
    BY <1>1, <1>2, <1>3, <1>4, <1>5, <1>6 DEF Next

\* The page is replaced by a body whose record is durable.
LEMMA PagesBackedStep == IndInv /\ [Next]_vars => PagesBacked'
  <1> SUFFICES ASSUME IndInv, [Next]_vars PROVE PagesBacked'
    OBVIOUS
  <1> USE DEF IndInv, TypeOK, Locked, Steps, Dir, vars, local, disk, downs, Fail,
         Decided, FileStage, FileStates, PagesBacked, Backed, Among
  <1>1. ASSUME NEW r \in Requests, Arrive(r) PROVE PagesBacked'
    <2>1. /\ UNCHANGED <<fileDisk, page, pageDisk>> /\ fileDisk[r] = "absent"
          /\ \A x \in Requests \ {r} : of'[x] = of[x] /\ want'[x] = want[x]
      BY <1>1 DEF Arrive, Edit, Restore
    <2>2. QED
      BY <2>1
  <1>2. ASSUME NEW r \in Requests, Find(r) PROVE PagesBacked'
    BY <1>2 DEF Find, ReadEntry, Found, NotFound
  <1>3. ASSUME NEW r \in Requests, LockDir(r) PROVE PagesBacked'
    BY <1>3 DEF LockDir, Lock!Acquire
  <1>4. ASSUME NEW r \in Requests, Save(r) PROVE PagesBacked'
    BY <1>4 DEF Save, Load, LoadFails, Reserve, ReserveFails, WriteRecord, SyncRecord,
       RecordFails, ReplacePage, ReplaceFails, SyncPage, SyncPageFails, SaveDB, SaveDBFails,
       Mark, MarkFails, Unlock, Lock!Release
  <1>5. ASSUME Kill \/ PowerLoss PROVE PagesBacked'
    BY <1>5 DEF Kill, PowerLoss, Abandon, Survivors
  <1>6. CASE UNCHANGED vars
    BY <1>6
  <1>7. QED
    BY <1>1, <1>2, <1>3, <1>4, <1>5, <1>6 DEF Next

\* A later save of the page has a higher number, durable before the page changes.
LEMMA KeptStep == IndInv /\ [Next]_vars => Kept'
  <1> SUFFICES ASSUME IndInv, [Next]_vars PROVE Kept'
    OBVIOUS
  <1> SUFFICES ASSUME NEW q \in Requests PROVE KeptBy(q)'
    BY DEF Kept
  <1> USE DEF IndInv, TypeOK, Locked, Steps, Dir, vars, local, disk, downs, Fail,
         Decided, FileStage, FileStates, Kept, KeptBy, Newest
  <1>1. ASSUME NEW r \in Requests, Arrive(r) PROVE KeptBy(q)'
    <2>1. /\ pc[r] = "idle" /\ fileDisk[r] = "absent" /\ reply[r] # "ok"
          /\ pc'[r] \in {"lock", "find"} /\ \A x \in Requests \ {r} : of'[x] = of[x] /\ pc'[x] = pc[x]
          /\ \A x \in Requests \ {r} : want'[x] = want[x]
          /\ UNCHANGED <<fileDisk, page, pageDisk, reply, rev>>
      BY <1>1, PageSaveAssumption DEF Arrive, Edit, Restore
    <2>2. CASE q = r
      BY <2>1, <2>2
    <2>3. CASE q # r
      <3>1. Newest(q)' => Newest(q)
        BY <2>1, <2>3
      <3>2. QED
        BY <2>1, <2>3, <3>1
    <2>4. QED
      BY <2>2, <2>3
  <1>2. ASSUME NEW r \in Requests, Find(r) PROVE KeptBy(q)'
    <2>1. /\ pc[r] = "find" /\ pc'[r] \in {"find", "lock", "done"} /\ reply'[r] # "ok"
          /\ \A x \in Requests \ {r} : pc'[x] = pc[x] /\ reply'[x] = reply[x] /\ want'[x] = want[x]
          /\ UNCHANGED <<of, rev, fileDisk, page, pageDisk>>
      BY <1>2 DEF Find, ReadEntry, Found, NotFound
    <2>2. Newest(q)' <=> Newest(q)
      BY <2>1
    <2>3. QED
      BY <2>1, <2>2
  <1>3. ASSUME NEW r \in Requests, LockDir(r) PROVE KeptBy(q)'
    BY <1>3, PageSaveAssumption DEF LockDir, Lock!Acquire
  <1>4. ASSUME NEW r \in Requests, Save(r) PROVE KeptBy(q)'
    <2>1. CASE Load(r)
      <3>1. q # r => (Newest(q)' => Newest(q))
        BY <2>1 DEF Load
      <3>2. QED
        BY <2>1, <3>1 DEF Load
    <2>2. CASE SyncRecord(r)
      BY <2>2, PageSaveAssumption DEF SyncRecord
    <2>3. CASE RecordFails(r)
      BY <2>3, PageSaveAssumption DEF RecordFails
    <2>4. CASE ReplacePage(r)
      <3>1. CASE of[q] = of[r] /\ q # r
        <4>1. fileDisk[q] \in OnDisk => ~ Newest(q)'
          <5>1. UNCHANGED <<of, rev, file, fileDisk>>
            BY <2>4 DEF ReplacePage
          <5>2. fileDisk[q] \in OnDisk /\ file[q] \in OnDisk => rev[q] < rev[r]
            BY <2>4, <3>1 DEF ReplacePage, FreshNumber
          <5>3. fileDisk[r] \in OnDisk
            BY <2>4 DEF ReplacePage, FileStage
          <5>4. QED
            BY <3>1, <5>1, <5>2, <5>3 DEF Newest, FileStage
        <4>2. QED
          BY <2>4, <3>1, <4>1, PageSaveAssumption DEF ReplacePage
      <3>2. CASE of[q] # of[r] \/ q = r
        BY <2>4, <3>2, PageSaveAssumption DEF ReplacePage
      <3>3. QED
        BY <3>1, <3>2
    <2>5. CASE SyncPage(r)
      BY <2>5, PageSaveAssumption DEF SyncPage, PageUnderLock
    <2>6. CASE SaveDB(r)
      BY <2>6, PageSaveAssumption DEF SaveDB
    <2>7. CASE Mark(r)
      BY <2>7, PageSaveAssumption DEF Mark
    <2>8. CASE LoadFails(r) \/ Reserve(r) \/ ReserveFails(r) \/
                 WriteRecord(r) \/ ReplaceFails(r) \/ SyncPageFails(r) \/
                 SaveDBFails(r) \/ MarkFails(r) \/ Unlock(r)
      <3>1. UNCHANGED <<of, want, rev, fileDisk, page, pageDisk>>
        BY <2>8 DEF LoadFails, Reserve, ReserveFails,
           WriteRecord, ReplaceFails, SyncPageFails, SaveDBFails, MarkFails, Unlock,
           Lock!Release
      <3>2. Newest(q)' <=> Newest(q)
        BY <3>1
      <3>3. /\ reply'[q] = "ok" => pc'[q] \in {"unlock", "done", "killed"}
            /\ pc'[q] \in {"db", "mark"} \/ reply'[q] = "ok"
                 => pc[q] \in {"db", "mark"} \/ reply[q] = "ok"
        BY <2>8 DEF LoadFails, Reserve, ReserveFails,
           WriteRecord, ReplaceFails, SyncPageFails, SaveDBFails, MarkFails, Unlock,
           Lock!Release
      <3>4. QED
        BY <3>1, <3>2, <3>3
    <2>9. QED
      BY <1>4, <2>1, <2>2, <2>3, <2>4, <2>5, <2>6, <2>7, <2>8 DEF Save
  <1>5. CASE Kill
    BY <1>5 DEF Kill, Abandon
  <1>6. CASE PowerLoss
    BY <1>6 DEF PowerLoss, Abandon, Survivors
  <1>7. CASE UNCHANGED vars
    BY <1>7
  <1>8. QED
    BY <1>1, <1>2, <1>3, <1>4, <1>5, <1>6, <1>7 DEF Next

-----------------------------------------------------------------------------
LEMMA IndInit == Init => IndInv
  <1> SUFFICES ASSUME Init PROVE IndInv
    OBVIOUS
  <1> USE PageSaveAssumption DEF Init, Lock!Init
  <1>1. TypeOK
    BY DEF TypeOK, FileStates, Steps
  <1>2. LockHeld /\ Decided /\ FileStage
    BY DEF LockHeld, Decided, FileStage, Locked, Steps
  <1>3. FreshNumber /\ Numbered /\ PageUnderLock
    BY DEF FreshNumber, Numbered, PageUnderLock
  <1>4. PagesBacked /\ Kept
    BY DEF PagesBacked, Backed, Kept, KeptBy
  <1>5. QED
    BY <1>1, <1>2, <1>3, <1>4 DEF IndInv

LEMMA Invariance == Spec => []IndInv
  <1>1. IndInv /\ [Next]_vars => IndInv'
    BY TypeStep, LockHeldStep, DecidedStep, FileStageStep, FreshNumberStep, NumberedStep,
       PageUnderLockStep, PagesBackedStep, KeptStep DEF IndInv
  <1>2. QED
    BY IndInit, <1>1, PTL DEF Spec

\* Every variable keeps its type: in particular a page file always holds a
\* body that was submitted or was there, never the zero record of a failed
\* findRevision.
THEOREM Types == Spec => []TypeOK
  <1>1. IndInv => TypeOK
    BY DEF IndInv
  <1>2. QED
    BY Invariance, <1>1, PTL

\* No two records of a revision directory have one number, for any number of
\* concurrent, failing or interrupted saves.
THEOREM RecordsAreNumbered == Spec => []UniqueNumbers
  <1>1. IndInv => UniqueNumbers
    BY DEF IndInv, Numbered, UniqueNumbers, Records, Among
  <1>2. QED
    BY Invariance, <1>1, PTL

\* A page file only ever holds what the site started with or the AfterContent
\* of a record, visible for the visible page and durable for the durable one.
THEOREM PageIsRecorded == Spec => []WriteAhead
  <1>1. IndInv => WriteAhead
    BY DEF IndInv, PagesBacked, Backed, FileStage, WriteAhead, Records, Among, Dir,
           TypeOK, Decided, FileStates
  <1>2. QED
    BY Invariance, <1>1, PTL

\* saveEditedFile never overwrites a body that is not the BeforeContent of its
\* record: no concurrent save is lost without trace.
THEOREM UpdatesAreKept == Spec => NoLostUpdate
  <1>1. IndInv /\ [Next]_vars => [ReplacesWhatItRead]_vars
    <2> SUFFICES ASSUME IndInv, [Next]_vars, NEW p \in Pages, page'[p] # page[p],
                        losses' = losses
                 PROVE \E r \in Records(DirOf[p]) :
                         of[r] = p /\ base[r] = page[p] /\ want[r] = page'[p]
      BY DEF ReplacesWhatItRead
    <2> USE DEF IndInv, TypeOK
    <2>1. PICK r \in Requests : ReplacePage(r)
      BY DEF Next, vars, local, disk, downs, Fail, Arrive, Edit, Restore, Find, ReadEntry,
         Found, NotFound, LockDir, Save, Load, LoadFails, Reserve, ReserveFails, WriteRecord,
         SyncRecord, RecordFails, ReplaceFails, SyncPage, SyncPageFails, SaveDB,
         SaveDBFails, Mark, MarkFails, Unlock, Kill, PowerLoss
    <2>2. of[r] = p /\ base[r] = page[p] /\ want[r] = page'[p] /\ r \in Records(DirOf[p])
      BY <2>1 DEF ReplacePage, PageUnderLock, FileStage, Records, Among, Dir, Decided
    <2>3. QED
      BY <2>2 DEF Records, Among
  <1>2. QED
    BY Invariance, <1>1, PTL DEF Spec, NoLostUpdate

\* An answer of success is durable: neither a kill nor a power loss, nor any
\* later save that fails, takes the saved page or its record away.
THEOREM AcknowledgedIsDurable == Spec => []AcknowledgedSurvives
  <1>1. IndInv => AcknowledgedSurvives
    <2> SUFFICES ASSUME IndInv, NEW r \in Requests, reply[r] = "ok"
                 PROVE /\ r \in Records(Dir(r))
                       /\ (\A x \in Records(Dir(r)) : of[x] = of[r] => rev[x] <= rev[r])
                            => page[of[r]] = want[r] /\ pageDisk[of[r]] = want[r]
      BY DEF AcknowledgedSurvives
    <2> USE DEF IndInv
    <2>1. of[r] # None /\ fileDisk[r] \in OnDisk /\ file[r] \in OnDisk
      BY DEF Kept, KeptBy, FileStage
    <2>2. (\A x \in Records(Dir(r)) : of[x] = of[r] => rev[x] <= rev[r]) => Newest(r)
      BY <2>1 DEF Newest, Records, Among, Dir, FileStage
    <2>3. QED
      BY <2>1, <2>2 DEF Kept, KeptBy, Records, Among
  <1>2. QED
    BY Invariance, <1>1, PTL

\* No request ends, whatever it failed at and whoever killed it, with the lock
\* of a directory: every later save of its pages can be served.
THEOREM LocksAreReleased == Spec => []NoLockLeftBehind
  <1>1. IndInv => NoLockLeftBehind
    BY DEF IndInv, LockHeld, Locked, Steps, NoLockLeftBehind
  <1>2. QED
    BY Invariance, <1>1, PTL

\* What the answer of a save says of the database is settled with the answer:
\* the row is committed, or the mark is in the record, visible and durable.
Settled ==
  \A r \in Requests : reply[r] = "ok" /\ DBConfigured =>
    /\ pc[r] \in {"unlock", "done", "killed"}
    /\ post[r] # "none" \/ (file[r] = "marked" /\ fileDisk[r] = "marked")

\* A save answered with success is in the database, or its record says that it
\* is not, or both of these writes failed.
THEOREM SaveIsCompleteOrMarked == Spec => []CompleteOrMarked
  <1>1. Init => Settled
    BY DEF Init, Settled
  <1>2. IndInv /\ Settled /\ [Next]_vars => Settled'
    <2> SUFFICES ASSUME IndInv, Settled, [Next]_vars PROVE Settled'
      OBVIOUS
    <2> USE DEF IndInv, TypeOK, Settled, vars, local, disk, downs, Fail, Steps, FileStates
    <2>1. ASSUME NEW r \in Requests, Arrive(r) \/ Find(r) \/ LockDir(r) PROVE Settled'
      BY <2>1 DEF Arrive, Edit, Restore, Find, ReadEntry, Found, NotFound, LockDir
    <2>2. ASSUME NEW r \in Requests, Save(r) PROVE Settled'
      <3>1. CASE SyncRecord(r)
        BY <3>1 DEF SyncRecord
      <3>2. CASE SaveDB(r) \/ SaveDBFails(r) \/ Mark(r) \/ MarkFails(r)
        BY <3>2 DEF SaveDB, SaveDBFails, Mark, MarkFails
      <3>3. CASE \/ Load(r) \/ LoadFails(r) \/ Reserve(r) \/ ReserveFails(r)
                 \/ WriteRecord(r) \/ RecordFails(r) \/ ReplacePage(r)
                 \/ ReplaceFails(r) \/ SyncPage(r) \/ SyncPageFails(r) \/ Unlock(r)
        BY <3>3 DEF Load, LoadFails, Reserve, ReserveFails, WriteRecord, RecordFails,
           ReplacePage, ReplaceFails, SyncPage, SyncPageFails, Unlock
      <3>4. QED
        BY <2>2, <3>1, <3>2, <3>3 DEF Save
    <2>3. ASSUME Kill \/ PowerLoss PROVE Settled'
      BY <2>3 DEF Kill, PowerLoss, Abandon, Survivors
    <2>4. CASE UNCHANGED vars
      BY <2>4
    <2>5. QED
      BY <2>1, <2>2, <2>3, <2>4 DEF Next
  <1>3. Settled => CompleteOrMarked
    BY DEF Settled, CompleteOrMarked
  <1>4. QED
    BY Invariance, <1>1, <1>2, <1>3, PTL DEF Spec

\* oldContent is read under the lock.
ReadsUnderLock == \A r \in Requests :
  pc[r] \in {"idle", "find", "lock", "load"} => base[r] = None

\* A save that answers with a failure, however far it got before the rename of
\* the page, leaves the page as it found it (saveEditedFile's error returns).
THEOREM FailuresLeaveThePage == Spec => FailedSaveLeavesPage
  <1>1. Init => ReadsUnderLock
    BY DEF Init, ReadsUnderLock
  <1>2. IndInv /\ ReadsUnderLock /\ [Next]_vars => ReadsUnderLock'
    <2> SUFFICES ASSUME IndInv, ReadsUnderLock, [Next]_vars PROVE ReadsUnderLock'
      OBVIOUS
    <2> USE DEF IndInv, TypeOK, ReadsUnderLock, vars, local, disk, downs, Fail
    <2>1. ASSUME NEW r \in Requests, Arrive(r) \/ Find(r) \/ LockDir(r) PROVE ReadsUnderLock'
      BY <2>1 DEF Arrive, Edit, Restore, Find, ReadEntry, Found, NotFound, LockDir
    <2>2. ASSUME NEW r \in Requests, Save(r) PROVE ReadsUnderLock'
      <3>1. CASE Load(r)
        BY <3>1 DEF Load
      <3>2. CASE \/ LoadFails(r) \/ Reserve(r) \/ ReserveFails(r) \/ WriteRecord(r)
                 \/ SyncRecord(r) \/ RecordFails(r) \/ ReplacePage(r) \/ ReplaceFails(r)
                 \/ SyncPage(r) \/ SyncPageFails(r) \/ SaveDB(r) \/ SaveDBFails(r)
                 \/ Mark(r) \/ MarkFails(r) \/ Unlock(r)
        BY <3>2 DEF LoadFails, Reserve, ReserveFails, WriteRecord, SyncRecord, RecordFails,
           ReplacePage, ReplaceFails, SyncPage, SyncPageFails, SaveDB, SaveDBFails, Mark,
           MarkFails, Unlock
      <3>3. QED
        BY <2>2, <3>1, <3>2 DEF Save
    <2>3. ASSUME Kill \/ PowerLoss PROVE ReadsUnderLock'
      BY <2>3 DEF Kill, PowerLoss, Abandon
    <2>4. CASE UNCHANGED vars
      BY <2>4
    <2>5. QED
      BY <2>1, <2>2, <2>3, <2>4 DEF Next
  <1>3. IndInv /\ ReadsUnderLock /\ [Next]_vars => [FailsWithPageAsFound]_vars
    <2> SUFFICES ASSUME IndInv, ReadsUnderLock, [Next]_vars, NEW r \in Requests,
                        reply'[r] = "failed", reply[r] = "none", base[r] # None,
                        pc[r] # "syncPage"
                 PROVE  page'[of[r]] = base[r]
      BY DEF FailsWithPageAsFound
    <2> USE DEF IndInv, TypeOK
    <2>1. ReserveFails(r) \/ RecordFails(r) \/ ReplaceFails(r)
      BY DEF ReadsUnderLock, Next, vars, local, disk, downs, Fail, Arrive, Edit, Restore,
         Find, ReadEntry, Found, NotFound, LockDir, Save, Load, LoadFails, Reserve,
         ReserveFails, WriteRecord, SyncRecord, RecordFails, ReplacePage, ReplaceFails,
         SyncPage, SyncPageFails, SaveDB, SaveDBFails, Mark, MarkFails, Unlock, Kill,
         PowerLoss, Abandon
    <2>2. QED
      BY <2>1 DEF ReserveFails, RecordFails, ReplaceFails, Fail, PageUnderLock, local, disk
  <1>4. QED
    BY Invariance, <1>1, <1>2, <1>3, PTL DEF Spec, FailedSaveLeavesPage
-----------------------------------------------------------------------------
\* A record is of the page whose history it is listed in.
Injective == \A p, q \in Pages : DirOf[p] = DirOf[q] => p = q

\* From Load on, a request's page, number and body are settled.
PastLoad(x) == pc[x] \notin {"idle", "find", "lock", "load"}

ReadsOwn ==
  \A r \in Requests :
    /\ pc[r] = "idle" => ask[r] = 0 /\ want[r] = None
    /\ pc[r] = "find" => \A x \in todo[r] : PastLoad(x) /\ of[x] = of[r]
    /\ ask[r] # 0 /\ want[r] # None =>
         \E x \in Requests : /\ PastLoad(x) /\ of[x] = of[r]
                             /\ rev[x] = ask[r] /\ want[x] = want[r]

\* What a step leaves of the requests: whoever is past Load stays there, with
\* page, number and body as they are.
LEMMA PastLoadIsFinal ==
  ASSUME IndInv, [Next]_vars, NEW x \in Requests, PastLoad(x)
  PROVE  PastLoad(x)' /\ of'[x] = of[x] /\ rev'[x] = rev[x] /\ want'[x] = want[x]
  <1> USE DEF IndInv, TypeOK, PastLoad, vars, local, disk, downs, Fail, Steps
  <1>1. ASSUME NEW r \in Requests, Arrive(r) \/ Find(r) \/ LockDir(r)
        PROVE  PastLoad(x)' /\ of'[x] = of[x] /\ rev'[x] = rev[x] /\ want'[x] = want[x]
    BY <1>1 DEF Arrive, Edit, Restore, Find, ReadEntry, Found, NotFound, LockDir
  <1>2. ASSUME NEW r \in Requests, Save(r)
        PROVE  PastLoad(x)' /\ of'[x] = of[x] /\ rev'[x] = rev[x] /\ want'[x] = want[x]
    <2>1. CASE Load(r)
      BY <2>1 DEF Load
    <2>2. CASE \/ LoadFails(r) \/ Reserve(r) \/ ReserveFails(r) \/ WriteRecord(r)
               \/ SyncRecord(r) \/ RecordFails(r) \/ ReplacePage(r) \/ ReplaceFails(r)
               \/ SyncPage(r) \/ SyncPageFails(r) \/ SaveDB(r) \/ SaveDBFails(r)
               \/ Mark(r) \/ MarkFails(r) \/ Unlock(r)
      BY <2>2 DEF LoadFails, Reserve, ReserveFails, WriteRecord, SyncRecord, RecordFails,
         ReplacePage, ReplaceFails, SyncPage, SyncPageFails, SaveDB, SaveDBFails, Mark,
         MarkFails, Unlock
    <2>3. QED
      BY <1>2, <2>1, <2>2 DEF Save
  <1>3. ASSUME Kill \/ PowerLoss
        PROVE  PastLoad(x)' /\ of'[x] = of[x] /\ rev'[x] = rev[x] /\ want'[x] = want[x]
    BY <1>3 DEF Kill, PowerLoss, Abandon
  <1>4. CASE UNCHANGED vars
    BY <1>4
  <1>5. QED
    BY <1>1, <1>2, <1>3, <1>4 DEF Next

\* A request that is not listing, reading or arriving keeps what it asked for.
LEMMA ReadsOwnStep == Injective /\ IndInv /\ ReadsOwn /\ [Next]_vars => ReadsOwn'
  <1> SUFFICES ASSUME Injective, IndInv, ReadsOwn, [Next]_vars, NEW q \in Requests
               PROVE  /\ pc'[q] = "idle" => ask'[q] = 0 /\ want'[q] = None
                      /\ pc'[q] = "find" =>
                           \A x \in todo'[q] : PastLoad(x)' /\ of'[x] = of'[q]
                      /\ ask'[q] # 0 /\ want'[q] # None =>
                           \E x \in Requests : /\ PastLoad(x)' /\ of'[x] = of'[q]
                                               /\ rev'[x] = ask'[q] /\ want'[x] = want'[q]
    BY DEF ReadsOwn
  <1> DEFINE Goal == /\ pc'[q] = "idle" => ask'[q] = 0 /\ want'[q] = None
                     /\ pc'[q] = "find" =>
                          \A x \in todo'[q] : PastLoad(x)' /\ of'[x] = of'[q]
                     /\ ask'[q] # 0 /\ want'[q] # None =>
                          \E x \in Requests : /\ PastLoad(x)' /\ of'[x] = of'[q]
                                              /\ rev'[x] = ask'[q] /\ want'[x] = want'[q]
  <1>1. \A x \in Requests : PastLoad(x) =>
          PastLoad(x)' /\ of'[x] = of[x] /\ rev'[x] = rev[x] /\ want'[x] = want[x]
    BY PastLoadIsFinal
  <1>2. todo[q] \subseteq Requests
    BY DEF IndInv, TypeOK
  <1>3. ASSUME /\ pc'[q] \in {"idle", "find"} => pc'[q] = pc[q]
               /\ of'[q] = of[q] /\ ask'[q] = ask[q] /\ todo'[q] = todo[q] /\ want'[q] = want[q]
        PROVE  Goal
    BY <1>1, <1>2, <1>3 DEF ReadsOwn
  <1> USE DEF IndInv, TypeOK, vars, local, disk, downs, Fail, Steps
  <1>4. CASE \E p \in Pages, c \in Contents : Edit(q, p, c)
    BY <1>4 DEF Edit, ReadsOwn
  <1>5. CASE \E p \in Pages, n \in Nat : Restore(q, p, n)
    <2>1. PICK p \in Pages, n \in Nat : Restore(q, p, n)
      BY <1>5
    <2>2. pc'[q] = "find" /\ of'[q] = p /\ todo'[q] = Entries(DirOf[p]) /\ want'[q] = None
      BY <2>1 DEF Restore, ReadsOwn
    <2>3. \A x \in Entries(DirOf[p]) : x \in Requests /\ PastLoad(x) /\ of[x] = p
      BY DEF Injective, Entries, Among, Dir, FileStage, PastLoad
    <2>4. QED
      BY <1>1, <2>2, <2>3
  <1>6. CASE \E x \in Requests : ReadEntry(q, x)
    <2>1. PICK x \in Requests : ReadEntry(q, x)
      BY <1>6
    <2>2. /\ pc'[q] = "find" /\ pc[q] = "find" /\ of'[q] = of[q] /\ ask'[q] = ask[q]
          /\ todo'[q] \subseteq todo[q] /\ x \in todo[q]
          /\ want'[q] = want[q] \/ (rev[x] = ask[q] /\ want'[q] = want[x])
      BY <2>1 DEF ReadEntry
    <2>3. PastLoad(x) /\ of[x] = of[q]
      BY <2>2 DEF ReadsOwn
    <2>4. QED
      BY <1>1, <1>2, <2>2, <2>3 DEF ReadsOwn
  <1>7. ASSUME NEW r \in Requests, Arrive(r) \/ Find(r) \/ LockDir(r) PROVE Goal
    <2>1. CASE r = q
      BY <1>3, <1>4, <1>5, <1>6, <1>7, <2>1
         DEF Arrive, Find, Found, NotFound, LockDir
    <2>2. CASE r # q
      BY <1>3, <1>7, <2>2
         DEF Arrive, Edit, Restore, Find, ReadEntry, Found, NotFound, LockDir
    <2>3. QED
      BY <2>1, <2>2
  <1>8. ASSUME NEW r \in Requests, Save(r) PROVE Goal
    BY <1>3, <1>8 DEF Save, Load, LoadFails, Reserve, ReserveFails, WriteRecord,
       SyncRecord, RecordFails, ReplacePage, ReplaceFails, SyncPage, SyncPageFails,
       SaveDB, SaveDBFails, Mark, MarkFails, Unlock
  <1>9. ASSUME Kill \/ PowerLoss PROVE Goal
    BY <1>3, <1>9 DEF Kill, PowerLoss, Abandon
  <1>10. CASE UNCHANGED vars
    BY <1>3, <1>10
  <1>11. QED
    BY <1>7, <1>8, <1>9, <1>10 DEF Next

\* Where no two pages share a revision directory, findRevision brings back, under
\* the number the operator picked, a body that was saved for that very page,
\* although it reads without the lock: the slugs of revisionDir are the only
\* reason for which a restore can return the content of another page.
THEOREM OwnRevisions == Spec => [](Injective => RestoresOwnPage)
  <1>1. Init => (Injective => ReadsOwn)
    BY DEF Init, ReadsOwn
  <1>2. IndInv /\ (Injective => ReadsOwn) /\ [Next]_vars => (Injective => ReadsOwn)'
    <2>1. Injective' <=> Injective
      BY DEF Injective
    <2>2. QED
      BY <2>1, ReadsOwnStep
  <1>3. (Injective => ReadsOwn) => (Injective => RestoresOwnPage)
    BY DEF ReadsOwn, RestoresOwnPage
  <1>4. QED
    BY Invariance, <1>1, <1>2, <1>3, PTL DEF Spec
-----------------------------------------------------------------------------
\* Neither a kill nor a power loss so far, and what is to be removed is.
Undisturbed == kills = 0 /\ losses = 0 /\ "remove" \notin Faults

\* A reservation is either about to become a record or removed again.
Attended == \A r \in Requests : file[r] = "reserved" => pc[r] = "record"

\* A save that is about to read its directory can read every entry of it.
ReadableToSaves ==
  \A r \in Requests : pc[r] = "load" => Entries(Dir(r)) = Records(Dir(r))

\* However saves fail and overlap, none leaves an entry that makes nextRevision
\* fail for every later save of the page: that takes a kill or a power loss
\* between the reservation and the record, or a second failure, of the removal
\* of a reservation that did not become a record (os.Remove in writeRevision).
THEOREM FailuresKeepHistoryReadable == Spec => [](Undisturbed => ReadableToSaves)
  <1>1. Init => (Undisturbed => Attended)
    BY DEF Init, Attended
  <1>2. IndInv /\ (Undisturbed => Attended) /\ [Next]_vars => (Undisturbed => Attended)'
    <2> SUFFICES ASSUME IndInv, Undisturbed => Attended, [Next]_vars, Undisturbed'
                 PROVE  Attended'
      OBVIOUS
    <2> USE DEF IndInv, TypeOK, Attended, vars, local, disk, downs, Fail, FileStates
    <2>1. ASSUME NEW r \in Requests, Arrive(r) \/ Find(r) \/ LockDir(r) PROVE Attended'
      BY <2>1 DEF Arrive, Edit, Restore, Find, ReadEntry, Found, NotFound, LockDir, Undisturbed
    <2>2. ASSUME NEW r \in Requests, Save(r) PROVE Attended'
      <3>1. UNCHANGED downs
        BY <2>2 DEF Save, Load, LoadFails, Reserve, ReserveFails, WriteRecord, SyncRecord,
           RecordFails, ReplacePage, ReplaceFails, SyncPage, SyncPageFails, SaveDB,
           SaveDBFails, Mark, MarkFails, Unlock
      <3>2. Attended
        BY <3>1 DEF Undisturbed
      <3>3. CASE WriteRecord(r) \/ RecordFails(r) \/ Mark(r)
        BY <3>2, <3>3 DEF WriteRecord, RecordFails, Mark, Undisturbed
      <3>4. CASE \/ Load(r) \/ LoadFails(r) \/ Reserve(r) \/ ReserveFails(r) \/ SyncRecord(r)
                 \/ ReplacePage(r) \/ ReplaceFails(r) \/ SyncPage(r) \/ SyncPageFails(r)
                 \/ SaveDB(r) \/ SaveDBFails(r) \/ MarkFails(r) \/ Unlock(r)
        BY <3>2, <3>4 DEF Load, LoadFails, Reserve, ReserveFails, SyncRecord, ReplacePage,
           ReplaceFails, SyncPage, SyncPageFails, SaveDB, SaveDBFails, MarkFails, Unlock
      <3>5. QED
        BY <2>2, <3>3, <3>4 DEF Save
    <2>3. ~Kill /\ ~PowerLoss
      BY DEF Kill, PowerLoss, Undisturbed
    <2>4. CASE UNCHANGED vars
      BY <2>4 DEF Undisturbed
    <2>5. QED
      BY <2>1, <2>2, <2>3, <2>4 DEF Next
  <1>3. IndInv /\ (Undisturbed => Attended) => (Undisturbed => ReadableToSaves)
    <2> SUFFICES ASSUME IndInv, Attended, NEW r \in Requests, pc[r] = "load",
                        NEW x \in Entries(Dir(r)), x \notin Records(Dir(r))
                 PROVE  FALSE
      BY DEF ReadableToSaves, Entries, Records
    <2>1. x \in Requests /\ Dir(x) = Dir(r) /\ pc[x] = "record"
      BY DEF IndInv, TypeOK, FileStates, Entries, Records, Among, Attended
    <2>2. inside[x] = Dir(x) /\ inside[r] = Dir(r)
      BY <2>1 DEF IndInv, LockHeld, Locked, Steps
    <2>3. Dir(r) # None
      BY PageSaveAssumption DEF IndInv, TypeOK, Decided, Dir
    <2>4. QED
      BY <2>1, <2>2, <2>3 DEF IndInv, LockHeld
  <1>4. QED
    BY Invariance, <1>1, <1>2, <1>3, PTL DEF Spec
-----------------------------------------------------------------------------
(* Saves as single steps *)

\* The history of a page: its durable records, but for the one of a save that
\* is about to replace the page.
Listed == {r \in Requests : fileDisk[r] \in OnDisk /\ pc[r] # "page"}

Entry(r) == [by |-> r, page |-> of[r], number |-> rev[r], before |-> base[r], after |-> want[r]]

History == INSTANCE PageHistory WITH Bodies <- Contents \cup {Blank}, kept <- pageDisk,
                                     history <- {Entry(r) : r \in Listed}, told <- reply

ImplementsPageHistory == History!Spec

\* A record that could still be undone is newer than all that could not: a sync
\* of the directory makes all of its records durable at once.
Ahead ==
  \A x, y \in Requests :
    /\ of[x] # None /\ of[y] # None /\ Dir(x) = Dir(y)
    /\ file[x] \in OnDisk /\ fileDisk[x] \notin OnDisk /\ fileDisk[y] \in OnDisk
    => rev[y] < rev[x]

\* A save that has replaced the page has the newest record until it unlocks.
StillNewest == \A r \in Requests : pc[r] \in {"db", "mark"} => Newest(r)

\* A record says what it replaced; who is answered is past the page, and who
\* finds no revision has none.
Recorded ==
  \A r \in Requests :
    /\ file[r] \in OnDisk => base[r] # None
    /\ reply[r] # "none" => pc[r] \in {"unlock", "done", "killed"}
    /\ reply[r] = "notfound" => file[r] = "absent" /\ fileDisk[r] = "absent"

HistInv == Ahead /\ StillNewest /\ Recorded

LEMMA AheadStep == IndInv /\ Ahead /\ [Next]_vars => Ahead'
  <1> SUFFICES ASSUME IndInv, Ahead, [Next]_vars PROVE Ahead'
    OBVIOUS
  <1> USE DEF IndInv, TypeOK, Locked, Steps, Dir, vars, local, disk, downs, Fail,
         Decided, FileStage, FileStates, Among, Records
  <1>1. ASSUME NEW r \in Requests, Arrive(r) PROVE Ahead'
    <2>1. /\ UNCHANGED <<file, fileDisk, rev>> /\ file[r] = "absent" /\ fileDisk[r] = "absent"
          /\ \A x \in Requests \ {r} : of'[x] = of[x]
      BY <1>1 DEF Arrive, Edit, Restore
    <2>2. QED
      BY <2>1 DEF Ahead
  <1>2. ASSUME NEW r \in Requests, Find(r) \/ LockDir(r) PROVE Ahead'
    BY <1>2 DEF Ahead, Find, ReadEntry, Found, NotFound, LockDir
  <1>3. ASSUME NEW r \in Requests, Save(r) PROVE Ahead'
    <2>1. CASE Load(r)
      <3>1. /\ UNCHANGED <<of, file, fileDisk>> /\ file[r] = "absent" /\ fileDisk[r] = "absent"
            /\ \A x \in Requests \ {r} : rev'[x] = rev[x]
        BY <2>1 DEF Load
      <3>2. QED
        BY <3>1 DEF Ahead
    <2>2. CASE WriteRecord(r)
      <3>1. /\ UNCHANGED <<of, rev, fileDisk>> /\ fileDisk[r] = "absent"
            /\ \A x \in Requests \ {r} : file'[x] = file[x]
        BY <2>2 DEF WriteRecord
      <3>2. \A y \in Requests : /\ of[r] # None /\ of[y] # None /\ Dir(r) = Dir(y)
                                /\ fileDisk[y] \in OnDisk
                                => rev[y] < rev[r]
        BY <2>2 DEF WriteRecord, FreshNumber
      <3>3. QED
        BY <3>1, <3>2 DEF Ahead
    <2>3. CASE SyncRecord(r)
      <3>1. /\ UNCHANGED <<of, rev, file>> /\ of[r] # None
            /\ \A x \in Requests : fileDisk'[x] = IF of[x] # None /\ Dir(x) = Dir(r) THEN file[x]
                                                                                     ELSE fileDisk[x]
        BY <2>3 DEF SyncRecord
      <3>2. QED
        BY <3>1 DEF Ahead
    <2>4. CASE RecordFails(r)
      <3>1. /\ UNCHANGED <<of, rev, fileDisk>> /\ file'[r] \in {"absent", file[r]}
            /\ \A x \in Requests \ {r} : file'[x] = file[x]
        BY <2>4 DEF RecordFails
      <3>2. QED
        BY <3>1 DEF Ahead
    <2>5. CASE Reserve(r)
      <3>1. /\ UNCHANGED <<of, rev, fileDisk>> /\ file'[r] = "reserved"
            /\ \A x \in Requests \ {r} : file'[x] = file[x]
        BY <2>5 DEF Reserve
      <3>2. QED
        BY <3>1 DEF Ahead
    <2>6. CASE Mark(r)
      <3>1. /\ UNCHANGED <<of, rev>> /\ fileDisk[r] \in OnDisk /\ fileDisk'[r] \in OnDisk
            /\ \A x \in Requests \ {r} : file'[x] = file[x] /\ fileDisk'[x] = fileDisk[x]
        BY <2>6 DEF Mark
      <3>2. QED
        BY <3>1 DEF Ahead
    <2>7. CASE \/ LoadFails(r) \/ ReserveFails(r) \/ ReplacePage(r) \/ ReplaceFails(r)
               \/ SyncPage(r) \/ SyncPageFails(r) \/ SaveDB(r) \/ SaveDBFails(r)
               \/ MarkFails(r) \/ Unlock(r)
      <3>1. UNCHANGED <<of, rev, file, fileDisk>>
        BY <2>7 DEF LoadFails, ReserveFails, ReplacePage, ReplaceFails, SyncPage,
           SyncPageFails, SaveDB, SaveDBFails, MarkFails, Unlock
      <3>2. QED
        BY <3>1 DEF Ahead
    <2>8. QED
      BY <1>3, <2>1, <2>2, <2>3, <2>4, <2>5, <2>6, <2>7 DEF Save
  <1>4. CASE Kill \/ UNCHANGED vars
    <2>1. UNCHANGED <<of, rev, file, fileDisk>>
      BY <1>4 DEF Kill, Abandon
    <2>2. QED
      BY <2>1 DEF Ahead
  <1>5. CASE PowerLoss
    BY <1>5 DEF Ahead, PowerLoss
  <1>6. QED
    BY <1>1, <1>2, <1>3, <1>4, <1>5 DEF Next

LEMMA StillNewestStep == IndInv /\ StillNewest /\ [Next]_vars => StillNewest'
  <1> SUFFICES ASSUME IndInv, StillNewest, [Next]_vars, NEW q \in Requests,
                      pc'[q] \in {"db", "mark"}
               PROVE  Newest(q)'
    BY DEF StillNewest
  <1> USE DEF IndInv, TypeOK, Locked, Steps, Dir, vars, local, disk, downs, Fail,
         Decided, FileStage, FileStates, Among
  <1>1. ASSUME pc[q] \in {"db", "mark"}, UNCHANGED <<of, rev, fileDisk>>
        PROVE  Newest(q)'
    BY <1>1 DEF StillNewest, Newest
  <1>2. ASSUME NEW r \in Requests, Arrive(r) PROVE Newest(q)'
    <2>1. /\ UNCHANGED <<fileDisk, rev>> /\ fileDisk[r] = "absent" /\ q # r /\ pc'[q] = pc[q]
          /\ \A x \in Requests \ {r} : of'[x] = of[x]
      BY <1>2 DEF Arrive, Edit, Restore
    <2>2. QED
      BY <2>1 DEF StillNewest, Newest
  <1>3. ASSUME NEW r \in Requests, Find(r) \/ LockDir(r) PROVE Newest(q)'
    BY <1>1, <1>3 DEF Find, ReadEntry, Found, NotFound, LockDir
  <1>4. ASSUME NEW r \in Requests, Save(r) PROVE Newest(q)'
    <2>1. CASE Load(r)
      <3>1. /\ UNCHANGED <<of, fileDisk>> /\ fileDisk[r] = "absent" /\ q # r /\ pc'[q] = pc[q]
            /\ \A x \in Requests \ {r} : rev'[x] = rev[x]
        BY <2>1 DEF Load
      <3>2. QED
        BY <3>1 DEF StillNewest, Newest
    <2>2. CASE SyncRecord(r)
      <3>1. /\ q # r /\ pc'[q] = pc[q] /\ UNCHANGED <<of, rev>>
            /\ \A x \in Requests : Dir(x) # Dir(r) => fileDisk'[x] = fileDisk[x]
        BY <2>2 DEF SyncRecord
      <3>2. Dir(q) # Dir(r)
        BY <2>2, <3>1, PageSaveAssumption DEF SyncRecord, LockHeld
      <3>3. QED
        BY <3>1, <3>2 DEF StillNewest, Newest
    <2>3. CASE SyncPage(r)
      <3>1. UNCHANGED <<of, rev, fileDisk>> /\ (q # r => pc'[q] = pc[q])
        BY <2>3 DEF SyncPage
      <3>2. CASE q = r
        <4>1. \A x \in Requests : of[x] = of[q] /\ fileDisk[x] \in OnDisk => rev[x] <= rev[q]
          BY <2>3, <3>2 DEF SyncPage, FreshNumber
        <4>2. QED
          BY <3>1, <4>1 DEF Newest
      <3>3. QED
        BY <1>1, <3>1, <3>2
    <2>4. CASE Mark(r)
      BY <2>4 DEF Mark, StillNewest, Newest
    <2>5. CASE \/ LoadFails(r) \/ Reserve(r) \/ ReserveFails(r) \/ WriteRecord(r)
               \/ RecordFails(r) \/ ReplacePage(r) \/ ReplaceFails(r) \/ SyncPageFails(r)
               \/ SaveDB(r) \/ SaveDBFails(r) \/ MarkFails(r) \/ Unlock(r)
      BY <1>1, <2>5 DEF LoadFails, Reserve, ReserveFails, WriteRecord, RecordFails,
         ReplacePage, ReplaceFails, SyncPageFails, SaveDB, SaveDBFails, MarkFails, Unlock
    <2>6. QED
      BY <1>4, <2>1, <2>2, <2>3, <2>4, <2>5 DEF Save
  <1>5. CASE Kill \/ PowerLoss
    BY <1>5 DEF Kill, PowerLoss, Abandon
  <1>6. CASE UNCHANGED vars
    BY <1>1, <1>6
  <1>7. QED
    BY <1>2, <1>3, <1>4, <1>5, <1>6 DEF Next

LEMMA RecordedStep == IndInv /\ Recorded /\ [Next]_vars => Recorded'
  <1> SUFFICES ASSUME IndInv, Recorded, [Next]_vars PROVE Recorded'
    OBVIOUS
  <1> USE DEF IndInv, TypeOK, Recorded, Locked, Steps, vars, local, disk, downs, Fail,
         Decided, FileStage, FileStates, Among
  <1>1. ASSUME NEW r \in Requests, Arrive(r) \/ Find(r) \/ LockDir(r) PROVE Recorded'
    BY <1>1 DEF Arrive, Edit, Restore, Find, ReadEntry, Found, NotFound, LockDir
  <1>2. ASSUME NEW r \in Requests, Save(r) PROVE Recorded'
    <2>1. CASE Load(r) \/ LoadFails(r) \/ Reserve(r) \/ ReserveFails(r)
      BY <2>1 DEF Load, LoadFails, Reserve, ReserveFails
    <2>2. CASE WriteRecord(r)
      <3>1. base[r] = page[of[r]] /\ of[r] \in Pages
        BY <2>2 DEF WriteRecord, PageUnderLock
      <3>2. base[r] # None
        BY <3>1, PageSaveAssumption
      <3>3. QED
        BY <2>2, <3>2 DEF WriteRecord
    <2>3. CASE SyncRecord(r)
      BY <2>3 DEF SyncRecord
    <2>4. CASE RecordFails(r) \/ ReplacePage(r) \/ ReplaceFails(r) \/ SyncPage(r) \/ SyncPageFails(r)
      BY <2>4 DEF RecordFails, ReplacePage, ReplaceFails, SyncPage, SyncPageFails
    <2>5. CASE SaveDB(r) \/ SaveDBFails(r) \/ Mark(r) \/ MarkFails(r) \/ Unlock(r)
      BY <2>5 DEF SaveDB, SaveDBFails, Mark, MarkFails, Unlock
    <2>6. QED
      BY <1>2, <2>1, <2>2, <2>3, <2>4, <2>5 DEF Save
  <1>3. CASE Kill
    BY <1>3 DEF Kill, Abandon
  <1>4. CASE PowerLoss
    BY <1>4 DEF PowerLoss, Abandon, Survivors
  <1>5. CASE UNCHANGED vars
    BY <1>5
  <1>6. QED
    BY <1>1, <1>2, <1>3, <1>4, <1>5 DEF Next

LEMMA HistInvariance == Spec => [](IndInv /\ HistInv)
  <1>1. Init => HistInv
    BY DEF Init, HistInv, Ahead, StillNewest, Recorded
  <1>2. IndInv /\ HistInv /\ [Next]_vars => HistInv'
    BY AheadStep, StillNewestStep, RecordedStep DEF HistInv
  <1>3. QED
    BY Invariance, <1>1, <1>2, PTL DEF Spec

\* What is in the history stays there.
LEMMA EntriesStay ==
  ASSUME IndInv, [Next]_vars, NEW x \in Listed
  PROVE  x \in Requests /\ x \in Listed' /\ Entry(x)' = Entry(x)
  <1> USE DEF IndInv, TypeOK, vars, local, disk, downs, Fail, Steps, FileStates, FileStage, PastLoad
  <1>1. x \in Requests /\ fileDisk[x] \in OnDisk /\ file[x] \in OnDisk /\ pc[x] # "page" /\ PastLoad(x)
    BY DEF Listed
  <1>2. of'[x] = of[x] /\ rev'[x] = rev[x] /\ want'[x] = want[x]
    BY <1>1, PastLoadIsFinal
  <1>3. base'[x] = base[x] /\ fileDisk'[x] \in OnDisk /\ pc'[x] # "page"
    <2>1. ASSUME NEW r \in Requests, Arrive(r) \/ Find(r) \/ LockDir(r)
          PROVE  base'[x] = base[x] /\ fileDisk'[x] \in OnDisk /\ pc'[x] # "page"
      BY <1>1, <2>1 DEF Arrive, Edit, Restore, Find, ReadEntry, Found, NotFound, LockDir
    <2>2. ASSUME NEW r \in Requests, Save(r)
          PROVE  base'[x] = base[x] /\ fileDisk'[x] \in OnDisk /\ pc'[x] # "page"
      BY <1>1, <2>2 DEF Save, Load, LoadFails, Reserve, ReserveFails, WriteRecord,
         SyncRecord, RecordFails, ReplacePage, ReplaceFails, SyncPage, SyncPageFails,
         SaveDB, SaveDBFails, Mark, MarkFails, Unlock
    <2>3. CASE Kill
      BY <1>1, <2>3 DEF Kill, Abandon
    <2>4. CASE PowerLoss
      BY <1>1, <2>4 DEF PowerLoss, Abandon, Survivors
    <2>5. CASE UNCHANGED vars
      BY <1>1, <2>5
    <2>6. QED
      BY <2>1, <2>2, <2>3, <2>4, <2>5 DEF Next
  <1>4. QED
    BY <1>1, <1>2, <1>3 DEF Listed, Entry

\* What enters it was a record that nobody has been told of, or was told it had
\* failed.
LEMMA EntriesEnter ==
  ASSUME IndInv, HistInv, [Next]_vars, NEW x \in Listed', x \notin Listed
  PROVE  /\ x \in Requests /\ file[x] \in OnDisk /\ of[x] \in Pages
         /\ reply[x] \in {"none", "failed"}
         /\ of'[x] = of[x] /\ rev'[x] = rev[x]
         /\ \A y \in Listed : of[y] = of[x] => rev[y] < rev[x]
  <1> USE DEF IndInv, TypeOK, vars, local, disk, downs, Fail, Steps, FileStates, FileStage, Decided
  <1>1. x \in Requests /\ fileDisk'[x] \in OnDisk /\ pc'[x] # "page"
    BY DEF Listed
  <1>2. fileDisk[x] \notin OnDisk \/ pc[x] = "page"
    BY <1>1 DEF Listed
  <1>3. file[x] \in OnDisk
    <2>1. CASE pc[x] = "page"
      BY <1>1, <2>1
    <2>2. ASSUME fileDisk[x] \notin OnDisk, NEW r \in Requests, Arrive(r) \/ Find(r) \/ LockDir(r)
          PROVE  file[x] \in OnDisk
      BY <1>1, <2>2 DEF Arrive, Edit, Restore, Find, ReadEntry, Found, NotFound, LockDir
    <2>3. ASSUME fileDisk[x] \notin OnDisk, NEW r \in Requests, Save(r)
          PROVE  file[x] \in OnDisk
      BY <1>1, <2>3 DEF Save, Load, LoadFails, Reserve, ReserveFails, WriteRecord,
         SyncRecord, RecordFails, ReplacePage, ReplaceFails, SyncPage, SyncPageFails,
         SaveDB, SaveDBFails, Mark, MarkFails, Unlock
    <2>4. CASE fileDisk[x] \notin OnDisk /\ PowerLoss
      BY <1>1, <2>4 DEF PowerLoss, Survivors
    <2>5. CASE fileDisk[x] \notin OnDisk /\ (Kill \/ UNCHANGED vars)
      BY <1>1, <2>5 DEF Kill, Abandon
    <2>6. QED
      BY <1>2, <2>1, <2>2, <2>3, <2>4, <2>5 DEF Next
  <1>4. of[x] \in Pages /\ PastLoad(x)
    BY <1>1, <1>3 DEF PastLoad
  <1>5. of'[x] = of[x] /\ rev'[x] = rev[x]
    BY <1>1, <1>4, PastLoadIsFinal
  <1>6. reply[x] \in {"none", "failed"}
    <2>1. reply[x] # "notfound"
      BY <1>1, <1>3 DEF HistInv, Recorded
    <2>2. reply[x] # "ok"
      BY <1>1, <1>2 DEF Kept, KeptBy
    <2>3. QED
      BY <1>1, <2>1, <2>2
  <1>7. ASSUME NEW y \in Listed, of[y] = of[x] PROVE rev[y] < rev[x]
    <2>1. y \in Requests /\ y # x /\ fileDisk[y] \in OnDisk /\ file[y] \in OnDisk
          /\ of[y] # None /\ of[x] # None /\ Dir(y) = Dir(x)
      BY <1>4, <1>7, PageSaveAssumption DEF Listed, Dir
    <2>2. CASE pc[x] = "page"
      BY <1>1, <2>1, <2>2 DEF FreshNumber
    <2>3. CASE fileDisk[x] \notin OnDisk
      BY <1>1, <1>3, <2>1, <2>3 DEF HistInv, Ahead
    <2>4. QED
      BY <1>2, <2>2, <2>3
  <1>8. QED
    BY <1>1, <1>3, <1>4, <1>5, <1>6, <1>7

\* A record that is listed is a whole entry.
LEMMA EntryTyped ==
  ASSUME IndInv', HistInv', NEW x \in Listed'
  PROVE  Entry(x)' \in History!Entries
  <1>1. x \in Requests /\ file'[x] \in OnDisk /\ fileDisk'[x] \in OnDisk
    BY DEF Listed, IndInv, FileStage
  <1>2. of'[x] \in Pages /\ rev'[x] \in Nat
    BY <1>1 DEF IndInv, TypeOK, FileStage, Decided
  <1>3. base'[x] \in Contents \cup {Blank} /\ want'[x] \in Contents \cup {Blank}
    BY <1>1 DEF IndInv, TypeOK, HistInv, Recorded, Decided
  <1>4. QED
    BY <1>1, <1>2, <1>3 DEF Entry, History!Entries

Shown == {Entry(r) : r \in Listed}

\* The history grows with every step, if at all.
LEMMA HistoryGrows ==
  ASSUME IndInv, HistInv, [Next]_vars
  PROVE  /\ History!Grows
         /\ \A e \in History!Added : \E x \in Listed' : x \notin Listed /\ e = Entry(x)'
  <1>1. (IndInv /\ HistInv)'
    BY TypeStep, LockHeldStep, DecidedStep, FileStageStep, FreshNumberStep, NumberedStep,
       PageUnderLockStep, PagesBackedStep, KeptStep, AheadStep, StillNewestStep, RecordedStep
       DEF IndInv, HistInv
  <1>2. Shown \subseteq Shown'
    BY EntriesStay DEF Shown
  <1>3. ASSUME NEW e \in Shown', e \notin Shown
        PROVE  \E x \in Listed' : x \notin Listed /\ e = Entry(x)'
    <2>1. PICK x \in Listed' : e = Entry(x)'
      BY DEF Shown
    <2>2. ASSUME x \in Listed PROVE FALSE
      BY <1>3, <2>1, <2>2, EntriesStay DEF Shown
    <2>3. QED
      BY <2>1, <2>2
  <1>4. ASSUME NEW x \in Listed', x \notin Listed
        PROVE  History!Fresh(Entry(x)')
    <2>1. Entry(x)' \in History!Entries
      BY <1>1, EntryTyped
    <2>2. QED
      BY <1>4, <2>1, EntriesEnter DEF Entry, History!Fresh
  <1>5. ASSUME NEW x \in Listed', NEW y \in Listed', of'[x] = of'[y], rev'[x] = rev'[y]
        PROVE  x = y
    BY <1>1, <1>5 DEF Listed, IndInv, Numbered, FileStage, Decided, Dir
  <1>6. \A d, e \in Shown' \ Shown : d.page = e.page /\ d.number = e.number => d = e
    BY <1>3, <1>5 DEF Entry
  <1>7. History!Added = Shown' \ Shown
    BY DEF History!Added, Shown
  <1>8. History!Grows
    BY <1>2, <1>3, <1>4, <1>6, <1>7 DEF History!Grows, Shown
  <1>9. QED
    BY <1>3, <1>7, <1>8

Changes == History!Next \/ UNCHANGED <<page, pageDisk, Shown, reply>>

\* A step that shows nobody anything at most reveals records.
LEMMA Hidden ==
  ASSUME IndInv, HistInv, [Next]_vars, UNCHANGED <<page, pageDisk, reply>>
  PROVE  Changes
  BY HistoryGrows DEF History!Tried, History!Next, Changes

\* The entries a step of r adds, unless it syncs a directory, are its own.
LEMMA OwnEntry ==
  ASSUME IndInv, HistInv, [Next]_vars, NEW r \in Requests,
         \A x \in Requests \ {r} : fileDisk'[x] = fileDisk[x] /\ pc'[x] = pc[x]
  PROVE  \A e \in History!Added : e = Entry(r)' /\ r \in Listed' \ Listed
  BY HistoryGrows DEF Listed

\* The page is replaced: the save is in the history from now on.
LEMMA ReplaceShows ==
  ASSUME IndInv, HistInv, [Next]_vars, NEW r \in Requests, ReplacePage(r)
  PROVE  Changes
  <1> USE DEF IndInv, TypeOK
  <1>1. /\ pc[r] = "page" /\ pc'[r] = "syncPage" /\ fileDisk[r] \in OnDisk /\ of[r] \in Pages
        /\ \A x \in Requests \ {r} : pc'[x] = pc[x]
        /\ UNCHANGED <<of, rev, base, want, fileDisk, pageDisk, reply>>
        /\ page' = [page EXCEPT ![of[r]] = want[r]]
    BY DEF ReplacePage, local, Decided, FileStage
  <1>2. Listed' = Listed \cup {r} /\ r \notin Listed
    BY <1>1 DEF Listed
  <1>3. \A x : Entry(x)' = Entry(x)
    BY <1>1 DEF Entry
  <1>4. Shown' = Shown \cup {Entry(r)} /\ Entry(r) \notin Shown
    <2>1. Shown' = Shown \cup {Entry(r)}
      BY <1>2, <1>3 DEF Shown
    <2>2. ASSUME NEW x \in Listed PROVE Entry(x) # Entry(r)
      <3>1. Entry(x).by = x /\ Entry(r).by = r
        BY DEF Entry
      <3>2. QED
        BY <1>2, <3>1
    <2>3. QED
      BY <2>1, <2>2 DEF Shown
  <1>5. Entry(r) \in History!Added /\ History!Fresh(Entry(r))
    BY <1>4, HistoryGrows DEF History!Added, History!Grows, Shown
  <1>6. Entry(r).before = page[Entry(r).page] /\ reply[Entry(r).by] = "none"
    BY <1>1 DEF PageUnderLock, Entry, HistInv, Recorded
  <1>7. History!Save(Entry(r))
    BY <1>1, <1>4, <1>5, <1>6 DEF History!Save, Entry, Shown
  <1>8. QED
    BY <1>5, <1>7 DEF History!Next, Changes

LEMMA SyncShows ==
  ASSUME IndInv, HistInv, [Next]_vars, NEW r \in Requests, SyncPage(r)
  PROVE  Changes
  <1> USE DEF IndInv, TypeOK
  <1>1. /\ pc[r] = "syncPage" /\ pc'[r] = "db" /\ of[r] \in Pages
        /\ \A x \in Requests \ {r} : pc'[x] = pc[x]
        /\ UNCHANGED <<of, rev, base, want, fileDisk, page, reply>>
        /\ pageDisk' = [pageDisk EXCEPT ![of[r]] = page[of[r]]]
    BY DEF SyncPage, local, Decided
  <1>2. Listed' = Listed /\ \A x : Entry(x)' = Entry(x)
    BY <1>1 DEF Listed, Entry
  <1>3. History!Sync(of[r])
    BY <1>1, <1>2 DEF History!Sync
  <1>4. QED
    BY <1>1, <1>3 DEF History!Next, Changes

\* Success is answered for the newest entry of the page, which the page holds.
LEMMA AcceptShows ==
  ASSUME IndInv, HistInv, [Next]_vars, NEW r \in Requests, SaveDB(r) \/ Mark(r) \/ MarkFails(r)
  PROVE  Changes
  <1> USE DEF IndInv, TypeOK, FileStates
  <1>1. /\ pc[r] \in {"db", "mark"} /\ pc'[r] = "unlock" /\ of[r] \in Pages
        /\ fileDisk[r] \in OnDisk /\ fileDisk'[r] \in OnDisk
        /\ \A x \in Requests \ {r} : pc'[x] = pc[x] /\ fileDisk'[x] = fileDisk[x]
        /\ UNCHANGED <<of, rev, base, want, page, pageDisk>>
        /\ reply' = [reply EXCEPT ![r] = "ok"]
    BY DEF SaveDB, Mark, MarkFails, local, Decided, FileStage
  <1>2. Listed' = Listed /\ r \in Listed /\ \A x : Entry(x)' = Entry(x)
    BY <1>1 DEF Listed, Entry
  <1>3. Newest(r) /\ page[of[r]] = want[r] /\ pageDisk[of[r]] = want[r] /\ reply[r] = "none"
    BY <1>1 DEF HistInv, StillNewest, Kept, KeptBy, Recorded
  <1>4. \A x \in Shown : x.page = Entry(r).page => x.number <= Entry(r).number
    BY <1>3 DEF Shown, Entry, Newest, Listed
  <1>5. History!Accept(Entry(r))
    BY <1>1, <1>2, <1>3, <1>4 DEF History!Accept, Entry, Shown
  <1>6. QED
    BY <1>2, <1>5 DEF History!Next, Changes

LEMMA RefuseShows ==
  ASSUME IndInv, HistInv, [Next]_vars, NEW r \in Requests,
         \/ NotFound(r) \/ LoadFails(r) \/ ReserveFails(r) \/ RecordFails(r)
         \/ ReplaceFails(r) \/ SyncPageFails(r)
  PROVE  Changes
  <1> USE DEF IndInv, TypeOK
  <1>1. /\ pc[r] \in Steps \cup {"find"} /\ UNCHANGED <<fileDisk, page, pageDisk>>
        /\ \A x \in Requests \ {r} : pc'[x] = pc[x]
        /\ reply' = [reply EXCEPT ![r] = "failed"] \/ reply' = [reply EXCEPT ![r] = "notfound"]
    BY DEF NotFound, LoadFails, ReserveFails, RecordFails, ReplaceFails, SyncPageFails, Fail,
           Steps, disk
  <1>2. reply[r] = "none"
    BY <1>1 DEF HistInv, Recorded, Steps
  <1>3. \A e \in History!Added : e.by = r
    BY <1>1, OwnEntry DEF Entry
  <1>4. History!Refuse(r)
    BY <1>1, <1>2, <1>3, HistoryGrows DEF History!Refuse
  <1>5. QED
    BY <1>4 DEF History!Next, Changes

LEMMA LossShows ==
  ASSUME IndInv, HistInv, [Next]_vars, PowerLoss
  PROVE  Changes
  <1>1. History!PowerLoss
    BY HistoryGrows DEF PowerLoss, Abandon, History!PowerLoss
  <1>2. QED
    BY <1>1 DEF History!Next, Changes

\* However saves overlap, fail and are killed, each takes one step, in which the
\* page changes and its history says from what to what, or leaves the page as
\* it was; and after an answer of success the page does not go back, whatever
\* power is lost (saveEditedFile under its lock, writeRevision before
\* atomicWriteFile, each with its sync).
THEOREM SavesAreAtomic == Spec => ImplementsPageHistory
  <1>1. Init => History!Init
    BY PageSaveAssumption DEF Init, History!Init, Listed
  <1>2. IndInv /\ HistInv /\ [Next]_vars
          => [History!Next]_<<page, pageDisk, {Entry(r) : r \in Listed}, reply>>
    <2> SUFFICES ASSUME IndInv, HistInv, [Next]_vars PROVE Changes
      BY DEF Changes, Shown
    <2>1. ASSUME NEW r \in Requests, Arrive(r) \/ Find(r) \/ LockDir(r) PROVE Changes
      <3>1. NotFound(r) \/ UNCHANGED <<page, pageDisk, reply>>
        BY <2>1 DEF Arrive, Edit, Restore, Find, ReadEntry, Found, LockDir, disk
      <3>2. QED
        BY <3>1, Hidden, RefuseShows
    <2>2. ASSUME NEW r \in Requests, Save(r) PROVE Changes
      <3>1. CASE \/ Load(r) \/ Reserve(r) \/ WriteRecord(r) \/ SyncRecord(r)
                 \/ SaveDBFails(r) \/ Unlock(r)
        <4>1. UNCHANGED <<page, pageDisk, reply>>
          BY <3>1 DEF Load, Reserve, WriteRecord, SyncRecord, SaveDBFails, Unlock, disk
        <4>2. QED
          BY <4>1, Hidden
      <3>2. QED
        BY <2>2, <3>1, ReplaceShows, SyncShows, AcceptShows, RefuseShows DEF Save
    <2>3. CASE Kill
      <3>1. UNCHANGED <<page, pageDisk, reply>>
        BY <2>3 DEF Kill, Abandon
      <3>2. QED
        BY <3>1, Hidden
    <2>4. CASE UNCHANGED vars
      <3>1. UNCHANGED <<page, pageDisk, reply>>
        BY <2>4 DEF vars, disk
      <3>2. QED
        BY <3>1, Hidden
    <2>5. QED
      BY <2>1, <2>2, <2>3, <2>4, LossShows DEF Next
  <1>3. QED
    BY HistInvariance, <1>1, <1>2, PTL DEF Spec, ImplementsPageHistory, History!Spec
=============================================================================
