--------------------------- MODULE MovePageProofs ---------------------------
(***************************************************************************)
(* Three results about MovePage for any number of requests and URIs, any   *)
(* scenes and any failures.                                                *)
(*                                                                         *)
(* redirects.json and the Redirect table agree, however requests overlap,  *)
(* but for the redirects that a failure left in doubt: whoever holds the   *)
(* lock of the redirects knows how the file differs from the table         *)
(* (Ledger), and only its holder writes either (LockHeld).                 *)
(*                                                                         *)
(* No body is lost as long as requests do not overlap: the place a page is *)
(* moved to is free when the rename runs, the place it came from when the  *)
(* rename is undone, the place of a new page when it is written, and an    *)
(* edit still sees the page it has read (Footing).                         *)
(*                                                                         *)
(* No link goes dead, if failures are not piled on failures either, unless *)
(* a page is moved where no redirect leads: a page under way counts where  *)
(* it came from until its redirect is in both stores, and seen so no set   *)
(* of URIs ever becomes a trap (NoTrap).                                   *)
(***************************************************************************)
EXTENDS MovePage, FiniteSetTheorems, TLAPS

Holding == {"load", "file", "db", "restore"}
Moving  == {"stat", "statOld", "rename", "sync", "unmove", "lock", "load", "file", "db", "restore", "unmeta"}

\* A request that has begun knows its URIs, a move that goes on has two, and
\* the old list of redirects has been read when it is needed.
Known ==
  \A r \in Requests :
    /\ pc[r] # "idle" => cur[r] \in Uris /\ new[r] \in Uris
    /\ pc[r] \in Moving => cur[r] # new[r]
    /\ pc[r] \in {"file", "db", "restore"} => prev[r] \in Redirects

LockHeld == \A r \in Requests : pc[r] \in Holding <=> lock = r

Written == \A r \in Requests : pc[r] \in {"db", "restore"} => file = Added(r)

Ledger ==
  DBConfigured => \A u \in Uris \ torn :
    /\ lock = None => file[u] = table[u]
    /\ \A r \in Requests :
         /\ pc[r] \in {"load", "file"} => file[u] = table[u]
         /\ pc[r] \in {"file", "db", "restore"} => prev[r][u] = table[u]

StoreInv == TypeOK /\ Known /\ LockHeld /\ Written /\ Ledger
-----------------------------------------------------------------------------
(* The two stores *)

\* A failure that is met is within the bound.
LEMMA Hurting ==
  ASSUME StoreInv, NEW r \in Requests, NEW step, Failing(r, step)
  PROVE  hurt' \in [Requests -> 0..scene.faults]
  <1>1. scene.faults \in Nat /\ hurt \in [Requests -> 0..scene.faults]
    BY MovePageAssumption DEF StoreInv, TypeOK
  <1>2. hurt[r] + 1 \in 0..scene.faults
    BY <1>1 DEF Failing
  <1>3. QED
    BY <1>1, <1>2 DEF Failing

LEMMA BeginTyped ==
  ASSUME StoreInv, NEW r \in Requests, NEW u \in Uris, NEW v \in Uris,
         NEW first \in {"meta", "check", "read"}, Begin(r, u, v, first)
  PROVE  /\ TypeOK' /\ Known' /\ UNCHANGED <<file, table, lock, torn, prev>>
         /\ cur'[r] = u /\ new'[r] = v /\ pc[r] = "idle" /\ pc'[r] = first
         /\ \A x \in Requests \ {r} : pc'[x] = pc[x] /\ cur'[x] = cur[x] /\ new'[x] = new[x]
  <1>1. /\ UNCHANGED <<way, base, prev, reply, page, meta, file, table, lock, hurt, torn, scene>>
        /\ cur' = [cur EXCEPT ![r] = u] /\ new' = [new EXCEPT ![r] = v]
        /\ pc' = [pc EXCEPT ![r] = first] /\ pc[r] = "idle"
    BY DEF Begin, Goto, store
  <1>2. was' \subseteq Uris
    BY DEF Begin, StoreInv, TypeOK
  <1>3. TypeOK'
    BY <1>1, <1>2 DEF StoreInv, TypeOK
  <1>4. /\ cur'[r] = u /\ new'[r] = v /\ pc'[r] = first
        /\ \A x \in Requests \ {r} : pc'[x] = pc[x] /\ cur'[x] = cur[x] /\ new'[x] = new[x]
    BY <1>1 DEF StoreInv, TypeOK
  <1>5. Known'
    BY <1>1, <1>4 DEF StoreInv, Known, Moving
  <1>6. QED
    BY <1>1, <1>3, <1>4, <1>5

\* Steps outside saveRedirect.
Outside(r) == \/ WriteMeta(r) \/ WriteMetaFails(r) \/ Vacant(r) \/ Taken(r) \/ StatOld(r)
              \/ Rename(r) \/ RenameFails(r) \/ Sync(r) \/ SyncFails(r)
              \/ Unmove(r) \/ UnmoveFails(r) \/ Unmeta(r)
              \/ Check(r) \/ Occupied(r) \/ Write(r) \/ WriteFails(r) \/ Read(r) \/ Save(r)

LEMMA OutsideFacts ==
  ASSUME StoreInv, NEW r \in Requests, Outside(r)
  PROVE  /\ UNCHANGED <<cur, new, was, scene, way, prev, file, table, lock, torn>>
         /\ pc[r] \notin Holding \cup {"idle", "lock", "done"}
         /\ pc'[r] \notin Holding \cup {"idle"}
         /\ pc'[r] \in Moving => pc[r] \in Moving \/ cur[r] # new[r]
         /\ pc' \in [Requests -> {"idle", "meta", "stat", "statOld", "rename", "sync", "unmove", "lock",
                       "load", "file", "db", "restore", "unmeta", "check", "write", "read", "save", "done"}]
         /\ \A x \in Requests \ {r} : pc'[x] = pc[x]
  BY DEF Outside, WriteMeta, WriteMetaFails, Vacant, Taken, StatOld, Rename, RenameFails, Sync, SyncFails,
         Unmove, UnmoveFails, Unmeta, Check, Occupied, Write, WriteFails, Read, Save, Answer, Goto,
         Moved, Unmoved, args, store, StoreInv, TypeOK, Holding, Moving

LEMMA OutsideStep ==
  ASSUME StoreInv, NEW r \in Requests, Outside(r)
  PROVE  StoreInv'
  <1>1. cur[r] \in Uris /\ new[r] \in Uris
    BY OutsideFacts DEF StoreInv, Known
  <1>2. reply' \in [Requests -> {"none", "ok", "failed", "conflict"}]
    BY DEF Outside, WriteMeta, WriteMetaFails, Vacant, Taken, StatOld, Rename, RenameFails, Sync, SyncFails,
           Unmove, UnmoveFails, Unmeta, Check, Occupied, Write, WriteFails, Read, Save, Answer, StoreInv, TypeOK
  <1>3. meta' \in [Uris -> Uris \cup Requests \cup {None}]
    BY <1>1 DEF Outside, WriteMeta, WriteMetaFails, Vacant, Taken, StatOld, Rename, RenameFails, Sync, SyncFails,
           Unmove, UnmoveFails, Unmeta, Check, Occupied, Write, WriteFails, Read, Save, store, StoreInv, TypeOK
  <1>4. page' \in [Uris -> Uris \cup Requests \cup {None}]
    <2>1. Src(r) \in Uris /\ Dst(r) \in Uris
      BY <1>1 DEF Src, Dst
    <2>2. QED
      BY <1>1, <2>1 DEF Outside, WriteMeta, WriteMetaFails, Vacant, Taken, StatOld, Rename, RenameFails, Sync,
           SyncFails, Unmove, UnmoveFails, Unmeta, Check, Occupied, Write, WriteFails, Read, Save, store,
           StoreInv, TypeOK
  <1>5. base' \in [Requests -> Uris \cup Requests \cup {None}]
    BY <1>1 DEF Outside, WriteMeta, WriteMetaFails, Vacant, Taken, StatOld, Rename, RenameFails, Sync, SyncFails,
           Unmove, UnmoveFails, Unmeta, Check, Occupied, Write, WriteFails, Read, Save, StoreInv, TypeOK
  <1>6. hurt' \in [Requests -> 0..scene.faults]
    <2>1. hurt' = hurt \/ \E step \in Steps : Failing(r, step)
      BY DEF Outside, WriteMeta, WriteMetaFails, Vacant, Taken, StatOld, Rename, RenameFails, Sync, SyncFails,
             Unmove, UnmoveFails, Unmeta, Check, Occupied, Write, WriteFails, Read, Save, Steps
    <2>2. QED
      BY <2>1, Hurting DEF StoreInv, TypeOK
  <1>7. TypeOK'
    BY <1>2, <1>3, <1>4, <1>5, <1>6, OutsideFacts DEF StoreInv, TypeOK
  <1>8. Known'
    BY OutsideFacts DEF StoreInv, Known, Holding, Moving
  <1>9. LockHeld'
    BY OutsideFacts DEF StoreInv, LockHeld
  <1>10. Written' /\ Ledger'
    <2>1. \A x \in Requests : Added(x)' = Added(x)
      BY OutsideFacts DEF Added
    <2>2. Written'
      BY OutsideFacts, <2>1 DEF StoreInv, Written, Holding
    <2>3. Ledger'
      BY OutsideFacts DEF StoreInv, Ledger, Holding
    <2>4. QED
      BY <2>2, <2>3
  <1>11. QED
    BY <1>7, <1>8, <1>9, <1>10 DEF StoreInv

\* Who is inside saveRedirect is so alone.
LEMMA HolderAlone ==
  ASSUME StoreInv, NEW r \in Requests, pc[r] \in Holding
  PROVE  lock = r /\ \A x \in Requests \ {r} : pc[x] \notin Holding
  BY DEF StoreInv, LockHeld

\* Steps of saveRedirect: the ledger after each.
LEMMA InsideStep ==
  ASSUME StoreInv, NEW r \in Requests,
         \/ Lock(r) \/ Load(r) \/ LoadFails(r) \/ WriteFile(r) \/ WriteFileFails(r)
         \/ SaveDB(r) \/ SaveDBFails(r) \/ Restore(r) \/ RestoreFails(r)
  PROVE  StoreInv'
  <1>1. UNCHANGED <<cur, new, was, scene, base, page, meta>>
    BY DEF Lock, Load, LoadFails, WriteFile, WriteFileFails, SaveDB, SaveDBFails, Restore, RestoreFails, args, store
  <1>2. /\ pc' \in [Requests -> {"idle", "meta", "stat", "statOld", "rename", "sync", "unmove", "lock",
                       "load", "file", "db", "restore", "unmeta", "check", "write", "read", "save", "done"}]
        /\ \A x \in Requests \ {r} : pc'[x] = pc[x]
        /\ pc[r] \in Moving
    BY DEF Lock, Load, LoadFails, WriteFile, WriteFileFails, SaveDB, SaveDBFails, Restore, RestoreFails,
           GiveUp, Answer, Goto, StoreInv, TypeOK, Moving
  <1>3. hurt' \in [Requests -> 0..scene.faults]
    <2>1. hurt' = hurt \/ \E step \in Steps : Failing(r, step)
      BY DEF Lock, Load, LoadFails, WriteFile, WriteFileFails, SaveDB, SaveDBFails, Restore, RestoreFails, Steps
    <2>2. QED
      BY <2>1, Hurting DEF StoreInv, TypeOK
  <1>4. /\ reply' \in [Requests -> {"none", "ok", "failed", "conflict"}]
        /\ way' \in [Requests -> {"there", "back"}]
    BY DEF Lock, Load, LoadFails, WriteFile, WriteFileFails, SaveDB, SaveDBFails, Restore, RestoreFails,
           GiveUp, Answer, StoreInv, TypeOK
  <1>5. /\ cur[r] \in Uris /\ new[r] \in Uris /\ cur[r] # new[r]
        /\ pc[r] \in {"file", "db", "restore"} => prev[r] \in Redirects /\ Added(r) \in Redirects
    BY <1>2 DEF StoreInv, Known, Moving, Added, Redirects
  <1>6. prev' \in [Requests -> Redirects \cup {None}] /\ \A x \in Requests \ {r} : prev'[x] = prev[x]
    BY DEF Lock, Load, LoadFails, WriteFile, WriteFileFails, SaveDB, SaveDBFails, Restore, RestoreFails,
           StoreInv, TypeOK
  <1>7. \A x \in Requests \ {r} : Added(x)' = Added(x)
    BY <1>1, <1>6 DEF Added
  <1>8. CASE Lock(r)
    <2>1. /\ lock = None /\ lock' = r /\ pc'[r] = "load" /\ None \notin Requests
          /\ UNCHANGED <<file, table, torn, prev>>
      BY <1>8, MovePageAssumption DEF Lock, Goto, store, StoreInv, TypeOK
    <2>2. TypeOK' /\ Known'
      BY <1>1, <1>2, <1>3, <1>4, <1>5, <1>6, <2>1 DEF StoreInv, TypeOK, Known, Holding, Moving
    <2>3. LockHeld'
      BY <1>2, <2>1 DEF StoreInv, LockHeld, Holding
    <2>4. Written'
      BY <1>2, <1>7, <2>1 DEF StoreInv, Written
    <2>5. Ledger'
      BY <1>2, <2>1 DEF StoreInv, Ledger, LockHeld, Holding
    <2>6. QED
      BY <2>2, <2>3, <2>4, <2>5 DEF StoreInv
  <1>9. CASE Load(r)
    <2>1. /\ pc[r] = "load" /\ pc'[r] = "file" /\ prev'[r] = file
          /\ UNCHANGED <<file, table, torn, lock>>
      BY <1>9 DEF Load, Goto, store, StoreInv, TypeOK
    <2>2. TypeOK' /\ Known'
      BY <1>1, <1>2, <1>3, <1>4, <1>5, <1>6, <2>1 DEF StoreInv, TypeOK, Known, Holding, Moving
    <2>3. LockHeld'
      BY <1>2, <2>1 DEF StoreInv, LockHeld, Holding
    <2>4. Written'
      BY <1>2, <1>7, <2>1 DEF StoreInv, Written
    <2>5. Ledger'
      BY <1>2, <1>6, <2>1 DEF StoreInv, Ledger
    <2>6. QED
      BY <2>2, <2>3, <2>4, <2>5 DEF StoreInv
  <1>10. CASE WriteFile(r)
    <2>1. /\ pc[r] = "file" /\ pc'[r] = "db" /\ file' = Added(r)
          /\ UNCHANGED <<table, torn, lock, prev>>
      BY <1>10 DEF WriteFile, Goto, StoreInv, TypeOK
    <2>2. Added(r)' = Added(r)
      BY <1>1, <2>1 DEF Added
    <2>3. TypeOK' /\ Known'
      BY <1>1, <1>2, <1>3, <1>4, <1>5, <1>6, <2>1 DEF StoreInv, TypeOK, Known, Holding, Moving
    <2>4. LockHeld'
      BY <1>2, <2>1 DEF StoreInv, LockHeld, Holding
    <2>5. lock = r /\ \A x \in Requests \ {r} : pc[x] \notin Holding
      BY <2>1, HolderAlone DEF Holding
    <2>6. Written' /\ Ledger'
      <3>1. None \notin Requests
        BY MovePageAssumption
      <3>2. Written'
        BY <1>2, <2>1, <2>2, <2>5 DEF Written, Holding
      <3>3. Ledger'
        BY <1>2, <2>1, <2>5, <3>1 DEF StoreInv, Ledger, Holding
      <3>4. QED
        BY <3>2, <3>3
    <2>7. QED
      BY <2>3, <2>4, <2>6 DEF StoreInv
  <1>11. CASE SaveDBFails(r)
    <2>1. /\ pc[r] = "db" /\ pc'[r] = "restore"
          /\ UNCHANGED <<file, lock, prev>>
      BY <1>11 DEF SaveDBFails, Goto, StoreInv, TypeOK
    <2>2. /\ table' \in Redirects /\ torn \subseteq torn' /\ torn' \subseteq Uris
          /\ \A u \in Uris \ torn' : table'[u] = table[u]
      <3>1. CASE UNCHANGED <<table, torn>>
        BY <3>1 DEF StoreInv, TypeOK
      <3>2. CASE table' = [table EXCEPT ![cur[r]] = new[r]] /\ torn' = torn \cup {cur[r]}
        BY <1>5, <3>2 DEF StoreInv, TypeOK, Redirects
      <3>3. QED
        BY <1>11, <3>1, <3>2 DEF SaveDBFails
    <2>3. Added(r)' = Added(r)
      BY <1>1, <2>1 DEF Added
    <2>4. TypeOK' /\ Known'
      BY <1>1, <1>2, <1>3, <1>4, <1>5, <1>6, <2>1, <2>2 DEF StoreInv, TypeOK, Known, Holding, Moving
    <2>5. LockHeld'
      BY <1>2, <2>1 DEF StoreInv, LockHeld, Holding
    <2>6. Written'
      BY <1>2, <1>7, <2>1, <2>3 DEF StoreInv, Written
    <2>7. lock = r /\ \A x \in Requests \ {r} : pc[x] \notin Holding
      BY <2>1, HolderAlone DEF Holding
    <2>8. Ledger'
      BY <1>2, <2>1, <2>2, <2>7, MovePageAssumption DEF StoreInv, Ledger, Holding
    <2>9. QED
      BY <2>4, <2>5, <2>6, <2>8 DEF StoreInv
  <1>12. CASE SaveDB(r) \/ LoadFails(r) \/ WriteFileFails(r) \/ Restore(r) \/ RestoreFails(r)
    <2>1. /\ pc[r] \in Holding /\ pc'[r] \in {"stat", "done"} /\ lock' = None /\ UNCHANGED prev
      BY <1>12 DEF SaveDB, LoadFails, WriteFileFails, Restore, RestoreFails, GiveUp, Answer, Goto, Holding,
                   StoreInv, TypeOK
    <2>2. file' \in Redirects /\ table' \in Redirects /\ torn' \subseteq Uris
      <3>1. [table EXCEPT ![cur[r]] = new[r]] \in Redirects
        BY <1>5 DEF StoreInv, TypeOK, Redirects
      <3>2. CASE SaveDB(r)
        BY <3>1, <3>2 DEF SaveDB, StoreInv, TypeOK
      <3>3. CASE LoadFails(r)
        BY <3>3 DEF LoadFails, store, StoreInv, TypeOK
      <3>4. CASE WriteFileFails(r)
        <4>1. pc[r] = "file"
          BY <3>4 DEF WriteFileFails, GiveUp, Goto
        <4>2. QED
          BY <1>5, <3>4, <4>1 DEF WriteFileFails, StoreInv, TypeOK
      <3>5. CASE Restore(r)
        <4>1. pc[r] = "restore"
          BY <3>5 DEF Restore, GiveUp, Goto
        <4>2. QED
          BY <1>5, <3>5, <4>1 DEF Restore, StoreInv, TypeOK
      <3>6. CASE RestoreFails(r)
        BY <1>5, <3>6 DEF RestoreFails, store, StoreInv, TypeOK
      <3>7. QED
        BY <1>12, <3>2, <3>3, <3>4, <3>5, <3>6
    <2>3. TypeOK' /\ Known'
      <3>1. TypeOK'
        BY <1>1, <1>2, <1>3, <1>4, <1>6, <2>1, <2>2 DEF StoreInv, TypeOK
      <3>2. Known'
        BY <1>1, <1>2, <1>5, <2>1 DEF StoreInv, Known, Moving
      <3>3. QED
        BY <3>1, <3>2
    <2>4. lock = r /\ \A x \in Requests \ {r} : pc[x] \notin Holding
      BY <2>1, HolderAlone
    <2>5. LockHeld'
      BY <1>2, <2>1, <2>4, MovePageAssumption DEF LockHeld, Holding
    <2>6. ASSUME DBConfigured, NEW u \in Uris \ torn' PROVE file'[u] = table'[u]
      <3>1. CASE SaveDB(r)
        <4>1. /\ pc[r] = "db" /\ file' = file /\ torn' = torn \ {cur[r]}
              /\ table' = [table EXCEPT ![cur[r]] = new[r]]
          BY <2>6, <3>1 DEF SaveDB, Answer, Goto
        <4>2. /\ file = [prev[r] EXCEPT ![cur[r]] = new[r]]
              /\ prev[r] \in Redirects /\ table \in Redirects
          BY <1>5, <4>1 DEF Added, StoreInv, TypeOK, Written
        <4>3. u # cur[r] => prev[r][u] = table[u]
          BY <2>6, <4>1 DEF StoreInv, Ledger
        <4>4. QED
          BY <4>1, <4>2, <4>3 DEF Redirects
      <3>2. CASE LoadFails(r)
        BY <2>6, <3>2 DEF LoadFails, GiveUp, Goto, store, StoreInv, Ledger
      <3>3. CASE WriteFileFails(r)
        <4>1. pc[r] = "file" /\ table' = table
          BY <3>3 DEF WriteFileFails, GiveUp, Goto
        <4>2. u \notin torn => file[u] = table[u] /\ prev[r][u] = table[u]
          BY <2>6, <4>1 DEF StoreInv, Ledger
        <4>3. \/ file' = file /\ torn' = torn
              \/ file' = [prev[r] EXCEPT ![cur[r]] = new[r]] /\ torn' = torn \cup {cur[r]}
          BY <3>3 DEF WriteFileFails, Added
        <4>4. QED
          BY <1>5, <2>6, <4>1, <4>2, <4>3 DEF Redirects
      <3>4. CASE Restore(r)
        BY <2>6, <3>4 DEF Restore, GiveUp, Goto, StoreInv, Ledger
      <3>5. CASE RestoreFails(r)
        <4>1. /\ pc[r] = "restore" /\ file' = file /\ table' = table /\ torn' = torn \cup {cur[r]}
          BY <3>5 DEF RestoreFails, GiveUp, Goto, store
        <4>2. /\ file = [prev[r] EXCEPT ![cur[r]] = new[r]] /\ prev[r] \in Redirects
              /\ prev[r][u] = table[u]
          BY <1>5, <2>6, <4>1 DEF Added, StoreInv, Written, Ledger
        <4>3. QED
          BY <2>6, <4>1, <4>2 DEF Redirects
      <3>6. QED
        BY <1>12, <3>1, <3>2, <3>3, <3>4, <3>5
    <2>7. Written' /\ Ledger'
      BY <1>2, <2>1, <2>4, <2>6 DEF Written, Ledger, Holding
    <2>8. QED
      BY <2>3, <2>5, <2>7 DEF StoreInv
  <1>13. QED
    BY <1>8, <1>9, <1>10, <1>11, <1>12

LEMMA ArriveStep ==
  ASSUME StoreInv, NEW r \in Requests, Arrive(r)
  PROVE  StoreInv'
  <1>1. PICK u \in Uris, v \in Uris, first \in {"meta", "check", "read"} : Begin(r, u, v, first)
    BY DEF Arrive, Move, Create, Edit
  <1>2. /\ TypeOK' /\ Known' /\ UNCHANGED <<file, table, lock, torn, prev>>
        /\ cur'[r] = u /\ new'[r] = v /\ pc[r] = "idle" /\ pc'[r] = first
        /\ \A x \in Requests \ {r} : pc'[x] = pc[x] /\ cur'[x] = cur[x] /\ new'[x] = new[x]
    BY <1>1, BeginTyped
  <1>3. LockHeld'
    BY <1>2 DEF StoreInv, LockHeld, Holding
  <1>4. \A x \in Requests \ {r} : Added(x)' = Added(x)
    BY <1>2 DEF Added
  <1>5. Written' /\ Ledger'
    BY <1>2, <1>4 DEF StoreInv, Written, Ledger
  <1>6. QED
    BY <1>2, <1>3, <1>5 DEF StoreInv

LEMMA StoreStep == StoreInv /\ [Next]_vars => StoreInv'
  <1> SUFFICES ASSUME StoreInv, [Next]_vars PROVE StoreInv'
    OBVIOUS
  <1>1. CASE UNCHANGED vars
    <2>1. UNCHANGED <<pc, cur, new, found, was, scene, way, base, prev, reply, page, meta, file, table,
                      lock, hurt, torn>>
      BY <1>1 DEF vars, args, store
    <2>2. TypeOK' /\ Known' /\ LockHeld'
      BY <2>1 DEF StoreInv, TypeOK, Known, LockHeld
    <2>3. \A x : Added(x)' = Added(x)
      BY <2>1 DEF Added
    <2>4. Written' /\ Ledger'
      BY <2>1, <2>3 DEF StoreInv, Written, Ledger
    <2>5. QED
      BY <2>2, <2>4 DEF StoreInv
  <1>2. ASSUME NEW r \in Requests, Step(r) PROVE StoreInv'
    BY <1>2, OutsideStep, InsideStep DEF Step, Outside
  <1>3. QED
    BY <1>1, <1>2, ArriveStep DEF Next

LEMMA StoreStart == Init => StoreInv
  <1> SUFFICES ASSUME Init PROVE StoreInv
    OBVIOUS
  <1>1. scene.site \subseteq Uris /\ scene.faults \in Nat /\ scene \in Scenes
    BY MovePageAssumption DEF Init
  <1>2. \A r \in Requests : pc[r] = "idle"
    BY DEF Init
  <1>3. file \in Redirects /\ table = file /\ lock = None /\ None \notin Requests
    BY MovePageAssumption DEF Init, Redirects
  <1>4. TypeOK
    <2>1. hurt \in [Requests -> 0..scene.faults]
      BY <1>1 DEF Init
    <2>2. /\ page \in [Uris -> Uris \cup Requests \cup {None}]
          /\ meta \in [Uris -> Uris \cup Requests \cup {None}]
      BY DEF Init
    <2>3. QED
      BY <1>1, <1>3, <2>1, <2>2 DEF Init, TypeOK
  <1>5. QED
    BY <1>2, <1>3, <1>4 DEF StoreInv, Known, LockHeld, Written, Ledger, Holding, Moving

LEMMA StoreInvariance == Spec => []StoreInv
  BY StoreStart, StoreStep, PTL DEF Spec

\* Every variable has its type.
THEOREM Types == Spec => []TypeOK
  BY StoreInvariance, PTL DEF StoreInv

\* However moves overlap and fail, redirects.json and the Redirect table agree on
\* a URI whenever redirectFileLock is free, unless the last move from there left
\* its redirect in doubt: a directory sync failed after the file was replaced, the
\* file could not be put back, or the commit was reported as failed although it
\* was not (saveRedirect, restoreRedirectsFile, saveRedirectInDB).
THEOREM RedirectsAgree == Spec => []StoresAgree
  <1>1. StoreInv => StoresAgree
    BY DEF StoreInv, Ledger, StoresAgree
  <1>2. QED
    BY <1>1, StoreInvariance, PTL
-----------------------------------------------------------------------------
(* Bodies, for requests that do not overlap *)

Only == \A r, x \in Requests : r \in Active /\ x \in Active => r = x

Footing ==
  \A r \in Requests :
    /\ pc[r] \in {"statOld", "rename"} => page[Dst(r)] = None
    /\ pc[r] \in {"sync", "unmove"} => page[Src(r)] = None
    /\ pc[r] = "write" => page[new[r]] = None
    /\ pc[r] = "save" => base[r] = page[cur[r]]

BodyInv == StoreInv /\ (Alone => Only /\ Footing)

\* A request that begins is the only one.
LEMMA BeginsAlone ==
  ASSUME BodyInv, Alone, NEW r \in Requests, Arrive(r)
  PROVE  Only' /\ Footing'
  <1>1. PICK u \in Uris, v \in Uris, first \in {"meta", "check", "read"} : Begin(r, u, v, first)
    BY DEF Arrive, Move, Create, Edit
  <1>2. Active = {}
    <2>1. SUFFICES ASSUME NEW x \in Requests, x \in Active PROVE FALSE
      BY DEF Active
    <2>2. Active = {x}
      BY <2>1 DEF BodyInv, Only, Active
    <2>3. Cardinality(Active) = 1 /\ Cardinality(Active) < scene.concurrent
      BY <1>1, <2>2, FS_Singleton DEF Begin
    <2>4. QED
      BY <2>3 DEF Alone
  <1>3. pc'[r] = first /\ \A x \in Requests \ {r} : pc'[x] = pc[x]
    BY <1>1, BeginTyped DEF BodyInv
  <1>4. Active' = {r} /\ \A x \in Requests \ {r} : pc'[x] \in {"idle", "done"}
    BY <1>2, <1>3 DEF Active
  <1>5. QED
    BY <1>3, <1>4 DEF Only, Footing

\* The one request at work goes on.
LEMMA StepsAlone ==
  ASSUME BodyInv, Alone, NEW r \in Requests, Step(r)
  PROVE  Only' /\ Footing'
  <1>1. pc[r] \notin {"idle", "done"} /\ \A x \in Requests \ {r} : pc'[x] = pc[x]
    BY DEF Step, WriteMeta, WriteMetaFails, Vacant, Taken, StatOld, Rename, RenameFails, Sync, SyncFails,
           Unmove, UnmoveFails, Lock, Load, LoadFails, WriteFile, WriteFileFails, SaveDB, SaveDBFails,
           Restore, RestoreFails, Unmeta, Check, Occupied, Write, WriteFails, Read, Save,
           GiveUp, Answer, Goto, BodyInv, StoreInv, TypeOK
  <1>2. /\ Active = {r} /\ Active' \subseteq {r}
        /\ \A x \in Requests \ {r} : pc'[x] \in {"idle", "done"}
    BY <1>1 DEF BodyInv, Only, Active
  <1>3. Only'
    BY <1>2 DEF Only, Active
  <1>4. UNCHANGED <<cur, new>> /\ cur[r] \in Uris /\ new[r] \in Uris
    BY <1>1 DEF Step, WriteMeta, WriteMetaFails, Vacant, Taken, StatOld, Rename, RenameFails, Sync, SyncFails,
           Unmove, UnmoveFails, Lock, Load, LoadFails, WriteFile, WriteFileFails, SaveDB, SaveDBFails,
           Restore, RestoreFails, Unmeta, Check, Occupied, Write, WriteFails, Read, Save, args,
           BodyInv, StoreInv, Known
  <1>5. /\ Src(r) \in Uris /\ Dst(r) \in Uris
        /\ pc[r] \in Moving => Src(r) # Dst(r)
    BY <1>1, <1>4 DEF Src, Dst, BodyInv, StoreInv, Known
  <1>6. /\ pc'[r] \in {"statOld", "rename"} => page'[Dst(r)'] = None
        /\ pc'[r] \in {"sync", "unmove"} => page'[Src(r)'] = None
        /\ pc'[r] = "write" => page'[new'[r]] = None
        /\ pc'[r] = "save" => base'[r] = page'[cur'[r]]
    <2>1. CASE Rename(r)
      <3>1. pc[r] = "rename" /\ pc'[r] = "sync" /\ Src(r)' = Src(r)
        BY <2>1, <1>4 DEF Rename, Goto, Src, BodyInv, StoreInv, TypeOK
      <3>2. page'[Src(r)] = None
        BY <1>5, <2>1, <3>1 DEF Rename, BodyInv, StoreInv, TypeOK
      <3>3. QED
        BY <3>1, <3>2
    <2>2. CASE Vacant(r) \/ StatOld(r) \/ SyncFails(r)
      <3>1. /\ UNCHANGED <<page, way>>
            /\ \/ pc[r] = "stat" /\ pc'[r] = "statOld" /\ page[Dst(r)] = None
               \/ pc[r] = "statOld" /\ pc'[r] \in {"rename", "lock", "unmeta"}
               \/ pc[r] = "sync" /\ pc'[r] = "unmove"
        BY <2>2 DEF Vacant, StatOld, SyncFails, Goto, Moved, store, BodyInv, StoreInv, TypeOK
      <3>2. Src(r)' = Src(r) /\ Dst(r)' = Dst(r)
        BY <1>4, <3>1 DEF Src, Dst
      <3>3. QED
        BY <3>1, <3>2 DEF BodyInv, Footing
    <2>3. CASE Check(r)
      BY <1>4, <2>3 DEF Check, Goto, store, BodyInv, StoreInv, TypeOK
    <2>4. CASE Read(r)
      BY <1>4, <2>4 DEF Read, Goto, store, BodyInv, StoreInv, TypeOK
    <2>5. CASE ~(Rename(r) \/ Vacant(r) \/ StatOld(r) \/ SyncFails(r) \/ Check(r) \/ Read(r))
      <3>1. pc'[r] \notin {"statOld", "rename", "sync", "unmove", "write", "save"}
        BY <2>5 DEF Step, WriteMeta, WriteMetaFails, Taken, RenameFails, Sync,
             Unmove, UnmoveFails, Lock, Load, LoadFails, WriteFile, WriteFileFails, SaveDB, SaveDBFails,
             Restore, RestoreFails, Unmeta, Occupied, Write, WriteFails, Save,
             GiveUp, Answer, Goto, Moved, Unmoved, BodyInv, StoreInv, TypeOK
      <3>2. QED
        BY <3>1
    <2>6. QED
      BY <2>1, <2>2, <2>3, <2>4, <2>5
  <1>7. Footing'
    BY <1>2, <1>6 DEF Footing
  <1>8. QED
    BY <1>3, <1>7

LEMMA SameScene ==
  ASSUME NEW r \in Requests, Arrive(r) \/ Step(r)
  PROVE  scene' = scene
  BY DEF Arrive, Move, Create, Edit, Begin, Step, WriteMeta, WriteMetaFails, Vacant, Taken, StatOld,
         Rename, RenameFails, Sync, SyncFails, Unmove, UnmoveFails, Lock, Load, LoadFails, WriteFile,
         WriteFileFails, SaveDB, SaveDBFails, Restore, RestoreFails, Unmeta, Check, Occupied, Write,
         WriteFails, Read, Save, args

LEMMA BodyStep == BodyInv /\ [Next]_vars => BodyInv'
  <1> SUFFICES ASSUME BodyInv, [Next]_vars PROVE BodyInv'
    OBVIOUS
  <1>1. StoreInv'
    BY StoreStep DEF BodyInv
  <1>2. CASE UNCHANGED vars
    <2>1. UNCHANGED <<pc, cur, new, scene, way, base, page>>
      BY <1>2 DEF vars, args, store
    <2>2. \A r : Src(r)' = Src(r) /\ Dst(r)' = Dst(r)
      BY <2>1 DEF Src, Dst
    <2>3. QED
      BY <1>1, <2>1, <2>2 DEF BodyInv, Alone, Only, Footing, Active
  <1>3. ASSUME NEW r \in Requests, Arrive(r) \/ Step(r) PROVE BodyInv'
    BY <1>1, <1>3, SameScene, BeginsAlone, StepsAlone DEF BodyInv, Alone
  <1>4. QED
    BY <1>2, <1>3 DEF Next

LEMMA BodyInvariance == Spec => []BodyInv
  <1>1. Init => BodyInv
    <2>1. Init => Only /\ Footing
      BY DEF Init, Only, Footing, Active
    <2>2. QED
      BY <2>1, StoreStart DEF BodyInv
  <1>2. QED
    BY <1>1, BodyStep, PTL DEF Spec

\* As long as requests do not overlap, no failure of a move, with any of its
\* rollbacks, and no creation makes a body disappear: only an edit that has read
\* it does (renameStaticFile, rollbackRenameAfterSyncFailure, createSubpage).
THEOREM NoBodyIsLost == Spec => BodiesKept
  <1>1. BodyInv /\ [Next]_vars =>
          [Alone => \A u \in Uris : page[u] # None =>
             \/ \E v \in Uris : page'[v] = page[u]
             \/ \E r \in Requests : pc[r] = "save" /\ cur[r] = u /\ base[r] = page[u]]_vars
    <2> SUFFICES ASSUME BodyInv, Next, Alone, NEW u \in Uris, page[u] # None,
                        \A v \in Uris : page'[v] # page[u]
                 PROVE  \E r \in Requests : pc[r] = "save" /\ cur[r] = u /\ base[r] = page[u]
      OBVIOUS
    <2>1. PICK r \in Requests : Arrive(r) \/ Step(r)
      BY DEF Next
    <2>2. page' # page
      OBVIOUS
    <2>3. Rename(r) \/ Unmove(r) \/ Write(r) \/ Save(r)
      BY <2>1, <2>2 DEF Arrive, Move, Create, Edit, Begin, Step, WriteMeta, WriteMetaFails, Vacant, Taken,
           StatOld, RenameFails, Sync, SyncFails, UnmoveFails, Lock, Load, LoadFails, WriteFile,
           WriteFileFails, SaveDB, SaveDBFails, Restore, RestoreFails, Unmeta, Check, Occupied,
           WriteFails, Read, store
    <2>4. pc[r] # "idle"
      BY <2>3 DEF Rename, Unmove, Write, Save, Answer, Goto
    <2>5. cur[r] \in Uris /\ new[r] \in Uris
      BY <2>4 DEF BodyInv, StoreInv, Known
    <2>6. Src(r) \in Uris /\ Dst(r) \in Uris
      BY <2>5 DEF Src, Dst
    <2>7. page \in [Uris -> Uris \cup Requests \cup {None}]
      BY DEF BodyInv, StoreInv, TypeOK
    <2>8. CASE Rename(r)
      <3>1. pc[r] = "rename" /\ page[Dst(r)] = None /\ Src(r) # Dst(r)
        BY <2>8 DEF Rename, Goto, BodyInv, Footing, StoreInv, Known, Moving, Src, Dst
      <3>2. /\ page'[Dst(r)] = page[Src(r)]
            /\ \A v \in Uris \ {Src(r), Dst(r)} : page'[v] = page[v]
        BY <2>6, <2>7, <2>8, <3>1 DEF Rename
      <3>3. QED
        BY <2>6, <3>1, <3>2
    <2>9. CASE Unmove(r)
      <3>1. pc[r] = "unmove" /\ page[Src(r)] = None /\ Src(r) # Dst(r)
        BY <2>9 DEF Unmove, Goto, BodyInv, Footing, StoreInv, Known, Moving, Src, Dst
      <3>2. /\ page'[Src(r)] = page[Dst(r)]
            /\ \A v \in Uris \ {Src(r), Dst(r)} : page'[v] = page[v]
        BY <2>2, <2>6, <2>7, <2>9, <3>1 DEF Unmove
      <3>3. QED
        BY <2>6, <3>1, <3>2
    <2>10. CASE Write(r)
      <3>1. page[new[r]] = None
        BY <2>10 DEF Write, Answer, Goto, BodyInv, Footing
      <3>2. QED
        BY <2>5, <2>7, <2>10, <3>1 DEF Write
    <2>11. CASE Save(r)
      <3>1. pc[r] = "save" /\ base[r] = page[cur[r]]
        BY <2>11 DEF Save, Answer, Goto, BodyInv, Footing
      <3>2. u = cur[r]
        BY <2>5, <2>7, <2>11 DEF Save
      <3>3. QED
        BY <3>1, <3>2
    <2>12. QED
      BY <2>3, <2>8, <2>9, <2>10, <2>11
  <1>2. QED
    BY <1>1, BodyInvariance, PTL DEF Spec, BodiesKept
-----------------------------------------------------------------------------
(* Links, for orderly requests *)

\* The page of r is at its new URI, and the redirect is not there yet.
Between(r) == \/ way[r] = "there" /\ pc[r] \in {"sync", "unmove", "lock", "load", "file", "db", "restore"}
              \/ way[r] = "back" /\ pc[r] \in {"stat", "statOld", "rename"}

\* Where pages are to be had, if a page under way counts where it came from.
Stands(x) == IF page[x] # None THEN \A r \in Requests : Between(r) => new[r] # x
                               ELSE \E r \in Requests : Between(r) /\ cur[r] = x

Trap(S) == \A x \in S : ~Stands(x) /\ (Target(x) = None \/ Target(x) \in S)

\* How far r has got, what it has met and what it has found.
OnCourse(r) ==
  /\ pc[r] \in {"idle", "meta", "unmove", "lock"} \cup Holding => way[r] = "there"
  /\ way[r] = "back" \/ pc[r] \in {"unmove", "restore"} => hurt[r] >= 1
  /\ Between(r) => page[cur[r]] = None /\ page[new[r]] # None
  /\ way[r] = "there" /\ pc[r] \in {"meta", "stat", "statOld", "rename"} => page[cur[r]] # None
  /\ pc[r] \in {"file", "db", "restore"} => \A u \in Uris \ {cur[r]} : prev[r][u] = file[u]
  /\ pc[r] = "db" => file[cur[r]] = new[r]

NoTrap == \A S \in SUBSET Uris : S \cap was # {} => ~Trap(S)

LinkInv == BodyInv /\ (Orderly => NoTrap /\ \A r \in Requests : OnCourse(r))

\* A trap appears only where a page or a redirect goes.
LEMMA StillNoTrap ==
  ASSUME NoTrap,
         \A u \in Uris : Stands(u) => Stands(u)',
         \A u \in Uris : Stands(u) \/ Target(u)' = Target(u),
         \A u \in was' : u \in was \/ Stands(u)
  PROVE  NoTrap'
  <1> SUFFICES ASSUME NEW S \in SUBSET Uris, S \cap was' # {}, Trap(S)'
               PROVE  FALSE
    BY DEF NoTrap
  <1>1. \A u \in S : ~Stands(u) /\ Target(u)' = Target(u)
    BY DEF Trap
  <1>2. Trap(S)
    BY <1>1 DEF Trap
  <1>3. S \cap was # {}
    BY <1>1
  <1>4. QED
    BY <1>2, <1>3 DEF NoTrap

\* What a step of r leaves alone, and that r is the only one.
Others(r) ==
  /\ pc[r] \notin {"idle", "done"} /\ UNCHANGED <<cur, new, was, scene>>
  /\ \A x \in Requests \ {r} : /\ pc[x] \in {"idle", "done"} /\ pc'[x] = pc[x]
                               /\ way'[x] = way[x] /\ hurt'[x] = hurt[x]
  /\ hurt[r] \in Nat /\ hurt'[r] \in {hurt[r], hurt[r] + 1}
  /\ cur[r] \in Uris /\ new[r] \in Uris /\ (pc[r] \in Moving => cur[r] # new[r])

LEMMA OneAtWork ==
  ASSUME BodyInv, Alone, NEW r \in Requests, Step(r)
  PROVE  Others(r)
  <1>1. /\ pc[r] \notin {"idle", "done"} /\ \A x \in Requests \ {r} : pc'[x] = pc[x]
        /\ UNCHANGED <<cur, new, was, scene>>
    BY DEF Step, WriteMeta, WriteMetaFails, Vacant, Taken, StatOld, Rename, RenameFails, Sync, SyncFails,
           Unmove, UnmoveFails, Lock, Load, LoadFails, WriteFile, WriteFileFails, SaveDB, SaveDBFails,
           Restore, RestoreFails, Unmeta, Check, Occupied, Write, WriteFails, Read, Save,
           GiveUp, Answer, Goto, args, BodyInv, StoreInv, TypeOK
  <1>2. \A x \in Requests \ {r} : pc[x] \in {"idle", "done"}
    BY <1>1 DEF BodyInv, Only, Active
  <1>3. \A x \in Requests \ {r} : way'[x] = way[x]
    BY DEF Step, WriteMeta, WriteMetaFails, Vacant, Taken, StatOld, Rename, RenameFails, Sync, SyncFails,
           Unmove, UnmoveFails, Lock, Load, LoadFails, WriteFile, WriteFileFails, SaveDB, SaveDBFails,
           Restore, RestoreFails, Unmeta, Check, Occupied, Write, WriteFails, Read, Save,
           GiveUp, BodyInv, StoreInv, TypeOK
  <1>4. hurt' = hurt \/ hurt' = [hurt EXCEPT ![r] = @ + 1]
    BY DEF Step, WriteMeta, WriteMetaFails, Vacant, Taken, StatOld, Rename, RenameFails, Sync, SyncFails,
           Unmove, UnmoveFails, Lock, Load, LoadFails, WriteFile, WriteFileFails, SaveDB, SaveDBFails,
           Restore, RestoreFails, Unmeta, Check, Occupied, Write, WriteFails, Read, Save, Failing
  <1>5. hurt[r] \in Nat /\ hurt'[r] \in {hurt[r], hurt[r] + 1}
        /\ \A x \in Requests \ {r} : hurt'[x] = hurt[x]
    BY <1>4, MovePageAssumption DEF BodyInv, StoreInv, TypeOK
  <1>6. cur[r] \in Uris /\ new[r] \in Uris /\ (pc[r] \in Moving => cur[r] # new[r])
    BY <1>1 DEF BodyInv, StoreInv, Known
  <1>7. QED
    BY <1>1, <1>2, <1>3, <1>5, <1>6 DEF Others

\* Who is not at work stays on course.
LEMMA OthersOnCourse ==
  ASSUME NEW r \in Requests, Others(r), NEW x \in Requests \ {r}, OnCourse(x)
  PROVE  OnCourse(x)'
  BY DEF Others, OnCourse, Between, Holding

\* Stands, when r is the only one at work.
LEMMA StandsAlone ==
  ASSUME NEW r \in Requests, Others(r), NEW u \in Uris
  PROVE  /\ Stands(u) <=> IF page[u] # None THEN ~(Between(r) /\ new[r] = u)
                          ELSE Between(r) /\ cur[r] = u
         /\ Stands(u)' <=> IF page'[u] # None THEN ~(Between(r)' /\ new[r] = u)
                           ELSE Between(r)' /\ cur[r] = u
  <1>1. \A x \in Requests \ {r} : ~Between(x) /\ ~Between(x)'
    BY DEF Others, Between
  <1>2. cur' = cur /\ new' = new
    BY DEF Others
  <1>3. QED
    BY <1>1, <1>2 DEF Stands

\* No redirect is touched, no page moves, and r is as far as before.
LEMMA Unmoving ==
  ASSUME LinkInv, Orderly, NEW r \in Requests, Others(r),
         UNCHANGED <<page, file, table>>, Between(r)' <=> Between(r)
  PROVE  NoTrap'
  <1>1. \A u \in Uris : Stands(u) <=> Stands(u)'
    BY StandsAlone
  <1>2. \A u \in Uris : Target(u)' = Target(u)
    BY DEF Target
  <1>3. was' = was
    BY DEF Others
  <1>4. QED
    BY <1>1, <1>2, <1>3, StillNoTrap DEF LinkInv

\* The redirect of the page under way is written, or unwritten.
LEMMA Redirecting ==
  ASSUME LinkInv, Orderly, NEW r \in Requests, Others(r),
         UNCHANGED page, Between(r), Between(r)',
         \A u \in Uris \ {cur[r]} : file'[u] = file[u] /\ table'[u] = table[u]
  PROVE  NoTrap'
  <1>1. \A u \in Uris : Stands(u) <=> Stands(u)'
    BY StandsAlone
  <1>2. Stands(cur[r])
    BY StandsAlone DEF LinkInv, OnCourse, Others
  <1>3. \A u \in Uris \ {cur[r]} : Target(u)' = Target(u)
    BY DEF Target
  <1>4. was' = was
    BY DEF Others
  <1>5. QED
    BY <1>1, <1>2, <1>3, <1>4, StillNoTrap DEF LinkInv

\* The steps of r that move no page and touch no redirect.
LEMMA QuietSteps ==
  ASSUME LinkInv, Orderly, NEW r \in Requests, Others(r),
         \/ WriteMeta(r) \/ WriteMetaFails(r) \/ Vacant(r) \/ Taken(r) \/ StatOld(r)
         \/ RenameFails(r) \/ Sync(r) \/ SyncFails(r) \/ UnmoveFails(r) \/ Lock(r) \/ Load(r)
         \/ LoadFails(r) \/ RestoreFails(r) \/ Unmeta(r)
         \/ Check(r) \/ Occupied(r) \/ WriteFails(r) \/ Read(r)
  PROVE  NoTrap' /\ OnCourse(r)'
  <1> USE DEF Others
  <1>1. OnCourse(r) /\ scene.faults <= 1 /\ scene.faults \in Nat
    BY MovePageAssumption DEF LinkInv, Orderly, BodyInv, StoreInv, TypeOK
  <1>2. UNCHANGED <<page, file, table>>
    BY DEF WriteMeta, WriteMetaFails, Vacant, Taken, StatOld, RenameFails, Sync, SyncFails,
           UnmoveFails, Lock, Load, LoadFails, RestoreFails, Unmeta, Check, Occupied, WriteFails, Read, store
  <1> USE DEF Goto, Answer, Moved, Unmoved
  <1>3. PICK P : pc \in [Requests -> P] /\ way \in [Requests -> {"there", "back"}]
        /\ prev \in [Requests -> Redirects \cup {None}] /\ hurt \in [Requests -> 0..scene.faults]
    BY DEF LinkInv, BodyInv, StoreInv, TypeOK
  <1>4. ASSUME way'[r] = way[r], prev'[r] = prev[r], 
               Between(r)' <=> Between(r),
               pc'[r] \in {"unmove", "restore"} => hurt'[r] >= 1,
               pc'[r] = "lock" => way[r] = "there",
               pc'[r] = "unmove" => way[r] = "there",
               pc'[r] \in Holding => way[r] = "there",
               pc'[r] \notin {"idle", "meta", "file", "db"},
               pc'[r] = "restore" => pc[r] = "db",
               way[r] = "there" /\ pc'[r] \in {"stat", "statOld", "rename"} =>
                 pc[r] \in {"meta", "stat", "statOld"}
        PROVE  OnCourse(r)'
    BY <1>1, <1>2, <1>3, <1>4 DEF OnCourse, Between, Holding
  <1>5. CASE WriteMeta(r) \/ WriteMetaFails(r)
    BY <1>1, <1>2, <1>3, <1>4, <1>5, Unmoving DEF WriteMeta, WriteMetaFails, OnCourse, Between, Holding
  <1>6. CASE Vacant(r) \/ Taken(r)
    BY <1>1, <1>2, <1>3, <1>4, <1>6, Unmoving DEF Vacant, Taken, OnCourse, Between, Holding, Dst
  <1>7. CASE StatOld(r) \/ RenameFails(r)
    BY <1>1, <1>2, <1>3, <1>4, <1>7, Unmoving DEF StatOld, RenameFails, Failing, OnCourse, Between, Holding, Src
  <1>8. CASE Sync(r) \/ SyncFails(r) \/ UnmoveFails(r)
    BY <1>1, <1>2, <1>3, <1>4, <1>8, Unmoving DEF Sync, SyncFails, UnmoveFails, Failing, OnCourse, Between, Holding
  <1>9. CASE Lock(r)
    BY <1>1, <1>2, <1>3, <1>4, <1>9, Unmoving DEF Lock, OnCourse, Between, Holding
  <1>10. CASE Load(r)
    BY <1>1, <1>2, <1>3, <1>10, Unmoving DEF Load, OnCourse, Between, Holding
  <1>11. CASE LoadFails(r)
    BY <1>1, <1>2, <1>3, <1>11, Unmoving DEF LoadFails, GiveUp, Failing, OnCourse, Between, Holding
  <1>12. CASE RestoreFails(r)
    BY <1>1, <1>3, <1>12 DEF RestoreFails, GiveUp, Failing, OnCourse
  <1>13. CASE Unmeta(r) \/ Check(r) \/ Occupied(r) \/ WriteFails(r) \/ Read(r)
    BY <1>1, <1>2, <1>3, <1>4, <1>13, Unmoving DEF Unmeta, Check, Occupied, WriteFails, Read,
       OnCourse, Between, Holding
  <1>14. QED
    BY <1>5, <1>6, <1>7, <1>8, <1>9, <1>10, <1>11, <1>12, <1>13

\* The rename, there or back.
LEMMA RenameSteps ==
  ASSUME LinkInv, Orderly, NEW r \in Requests, Others(r), Rename(r)
  PROVE  NoTrap' /\ OnCourse(r)'
  <1> USE DEF Others
  <1>1. /\ pc[r] = "rename" /\ pc'[r] = "sync" /\ way' = way /\ way[r] \in {"there", "back"}
        /\ UNCHANGED <<file, table, prev, hurt>>
        /\ page[Src(r)] # None /\ page[Dst(r)] = None
        /\ page' = [page EXCEPT ![Dst(r)] = page[Src(r)], ![Src(r)] = None]
    BY DEF Rename, Goto, LinkInv, Orderly, BodyInv, Footing, StoreInv, TypeOK
  <1>2. OnCourse(r) /\ cur[r] # new[r] /\ page \in [Uris -> Uris \cup Requests \cup {None}]
    BY <1>1 DEF LinkInv, BodyInv, StoreInv, TypeOK, Moving
  <1>3. CASE way[r] = "there"
    <2>1. /\ ~Between(r) /\ Between(r)' /\ Src(r) = cur[r] /\ Dst(r) = new[r]
          /\ page[cur[r]] # None /\ page[new[r]] = None
      BY <1>1, <1>3 DEF Between, Src, Dst
    <2>2. page'[new[r]] # None /\ page'[cur[r]] = None
          /\ \A u \in Uris \ {cur[r], new[r]} : page'[u] = page[u]
      BY <1>1, <1>2, <2>1
    <2>3. \A u \in Uris : Stands(u) <=> Stands(u)'
      BY <1>2, <2>1, <2>2, StandsAlone
    <2>4. NoTrap'
      BY <1>1, <2>3, StillNoTrap DEF LinkInv, Target
    <2>5. OnCourse(r)'
      <3>1. page'[cur'[r]] = None /\ page'[new'[r]] # None
        BY <2>2
      <3>2. pc'[r] = "sync" /\ way'[r] = "there"
        BY <1>1, <1>3
      <3>3. QED
        BY <3>1, <3>2 DEF OnCourse, Holding
    <2>6. QED
      BY <2>4, <2>5
  <1>4. CASE way[r] = "back"
    <2>1. /\ Between(r) /\ ~Between(r)' /\ Src(r) = new[r] /\ Dst(r) = cur[r]
          /\ page[new[r]] # None /\ page[cur[r]] = None
      BY <1>1, <1>4 DEF Between, Src, Dst
    <2>2. page'[cur[r]] # None /\ page'[new[r]] = None
          /\ \A u \in Uris \ {cur[r], new[r]} : page'[u] = page[u]
      BY <1>1, <1>2, <2>1
    <2>3. \A u \in Uris : Stands(u) <=> Stands(u)'
      BY <1>2, <2>1, <2>2, StandsAlone
    <2>4. NoTrap'
      BY <1>1, <2>3, StillNoTrap DEF LinkInv, Target
    <2>5. OnCourse(r)'
      <3>1. pc'[r] = "sync" /\ way'[r] = "back" /\ hurt'[r] >= 1
        BY <1>1, <1>2, <1>4 DEF OnCourse
      <3>2. QED
        BY <2>1, <3>1 DEF OnCourse, Holding
    <2>6. QED
      BY <2>4, <2>5
  <1>5. QED
    BY <1>1, <1>3, <1>4

LEMMA UnmoveSteps ==
  ASSUME LinkInv, Orderly, NEW r \in Requests, Others(r), Unmove(r)
  PROVE  NoTrap' /\ OnCourse(r)'
  <1> USE DEF Others
  <1>1. OnCourse(r) /\ pc[r] = "unmove" /\ way[r] = "there" /\ Between(r)
    BY DEF LinkInv, Unmove, Goto, OnCourse, Between
  <1>2. /\ page[cur[r]] = None /\ page[new[r]] # None /\ cur[r] # new[r]
        /\ Src(r) = cur[r] /\ Dst(r) = new[r]
    BY <1>1 DEF OnCourse, Src, Dst, Moving
  <1>3. /\ pc'[r] = "unmeta" /\ way' = way /\ UNCHANGED <<file, table, prev, hurt>>
        /\ page' = [page EXCEPT ![cur[r]] = page[new[r]], ![new[r]] = None]
    BY <1>1, <1>2 DEF Unmove, Goto, Unmoved, LinkInv, BodyInv, StoreInv, TypeOK
  <1>4. page'[cur[r]] # None /\ page'[new[r]] = None
        /\ \A u \in Uris \ {cur[r], new[r]} : page'[u] = page[u]
    BY <1>2, <1>3 DEF LinkInv, BodyInv, StoreInv, TypeOK
  <1>5. ~Between(r)'
    BY <1>3 DEF Between
  <1>6. \A u \in Uris : Stands(u) <=> Stands(u)'
    BY <1>1, <1>2, <1>4, <1>5, StandsAlone
  <1>7. NoTrap'
    BY <1>3, <1>6, StillNoTrap DEF LinkInv, Target
  <1>8. QED
    BY <1>1, <1>3, <1>5, <1>7 DEF OnCourse, Holding

\* A page is written where it is created or edited.
LEMMA WriteSteps ==
  ASSUME LinkInv, Orderly, NEW r \in Requests, Others(r), Write(r) \/ Save(r)
  PROVE  NoTrap' /\ OnCourse(r)'
  <1> USE DEF Others
  <1>1. /\ pc[r] \in {"write", "save"} /\ pc'[r] = "done" /\ way' = way
        /\ UNCHANGED <<file, table, prev>>
        /\ page' = [page EXCEPT ![new[r]] = r] \/ page' = [page EXCEPT ![cur[r]] = r]
    BY DEF Write, Save, Answer, Goto, LinkInv, BodyInv, StoreInv, TypeOK
  <1>2. OnCourse(r) /\ ~Between(r) /\ ~Between(r)' /\ r # None
    BY <1>1, MovePageAssumption DEF LinkInv, Between
  <1>3. \A u \in Uris : page[u] # None => page'[u] # None
    BY <1>1, <1>2 DEF LinkInv, BodyInv, StoreInv, TypeOK
  <1>4. \A u \in Uris : Stands(u) => Stands(u)'
    BY <1>2, <1>3, StandsAlone
  <1>5. NoTrap'
    BY <1>1, <1>4, StillNoTrap DEF LinkInv, Target
  <1>6. QED
    BY <1>1, <1>2, <1>5 DEF OnCourse, Holding

\* The file takes the redirect, or gets its old content back.
LEMMA FileSteps ==
  ASSUME LinkInv, Orderly, NEW r \in Requests, Others(r),
         WriteFile(r) \/ WriteFileFails(r) \/ Restore(r)
  PROVE  NoTrap' /\ OnCourse(r)'
  <1> USE DEF Others
  <1>1. OnCourse(r) /\ pc[r] \in {"file", "restore"} /\ way[r] = "there" /\ Between(r)
        /\ prev[r] \in Redirects
    BY DEF LinkInv, BodyInv, StoreInv, Known, WriteFile, WriteFileFails, Restore, GiveUp, Goto, OnCourse,
           Holding, Between
  <1>2. Added(r)[cur[r]] = new[r] /\ \A u \in Uris \ {cur[r]} : Added(r)[u] = file[u]
    BY <1>1 DEF Added, OnCourse, Redirects
  <1>3. UNCHANGED <<page, table, prev>> /\ \A u \in Uris \ {cur[r]} : file'[u] = file[u]
    BY <1>1, <1>2 DEF WriteFile, WriteFileFails, Restore, OnCourse
  <1>4. \/ pc'[r] = "db" /\ way'[r] = "there" /\ file'[cur[r]] = new[r]
        \/ pc'[r] = "stat" /\ way'[r] = "back" /\ hurt'[r] >= 1
    <2>1. WriteFile(r) => pc'[r] = "db" /\ way'[r] = "there" /\ file'[cur[r]] = new[r]
      BY <1>1, <1>2 DEF WriteFile, Goto, LinkInv, BodyInv, StoreInv, TypeOK
    <2>2. WriteFileFails(r) => pc'[r] = "stat" /\ way'[r] = "back" /\ hurt'[r] >= 1
      BY MovePageAssumption DEF WriteFileFails, Failing, GiveUp, Goto, LinkInv, BodyInv, StoreInv, TypeOK
    <2>3. Restore(r) => pc'[r] = "stat" /\ way'[r] = "back" /\ hurt'[r] >= 1
      BY <1>1 DEF Restore, GiveUp, Goto, OnCourse, LinkInv, BodyInv, StoreInv, TypeOK
    <2>4. QED
      BY <2>1, <2>2, <2>3
  <1>5. Between(r)'
    BY <1>4 DEF Between
  <1>6. NoTrap'
    BY <1>1, <1>3, <1>5, Redirecting
  <1>7. page'[cur[r]] = None /\ page'[new[r]] # None
    BY <1>1, <1>3 DEF OnCourse
  <1>8. pc'[r] = "db" => \A u \in Uris \ {cur[r]} : prev'[r][u] = file'[u]
    BY <1>1, <1>3, <1>4 DEF OnCourse
  <1>9. QED
    BY <1>4, <1>5, <1>6, <1>7, <1>8 DEF OnCourse, Holding

\* The database refuses the redirect, or has it and reports a failure.
LEMMA SaveDBFailsSteps ==
  ASSUME LinkInv, Orderly, NEW r \in Requests, Others(r), SaveDBFails(r)
  PROVE  NoTrap' /\ OnCourse(r)'
  <1> USE DEF Others
  <1>1. /\ OnCourse(r) /\ pc[r] = "db" /\ pc'[r] = "restore" /\ way[r] = "there" /\ way' = way
        /\ UNCHANGED <<prev, page, file>> /\ hurt'[r] >= 1
    <2>1. hurt'[r] = hurt[r] + 1
      BY DEF SaveDBFails, Failing, LinkInv, BodyInv, StoreInv, TypeOK
    <2>2. QED
      BY <2>1 DEF SaveDBFails, Goto, args, OnCourse, Holding, LinkInv, BodyInv, StoreInv, TypeOK
  <1>2. \A u \in Uris \ {cur[r]} : table'[u] = table[u]
    BY DEF SaveDBFails, LinkInv, BodyInv, StoreInv, TypeOK, Redirects
  <1>3. Between(r) /\ Between(r)'
    BY <1>1 DEF Between
  <1>4. NoTrap'
    BY <1>1, <1>2, <1>3, Redirecting
  <1>5. QED
    BY <1>1, <1>3, <1>4 DEF OnCourse, Holding

\* The move is complete: from now on the page stands at its new URI.
LEMMA SaveDBSteps ==
  ASSUME LinkInv, Orderly, NEW r \in Requests, Others(r), SaveDB(r)
  PROVE  NoTrap' /\ OnCourse(r)'
  <1> USE DEF Others
  <1>1. /\ OnCourse(r) /\ pc[r] = "db" /\ pc'[r] = "done" /\ way[r] = "there" /\ way' = way
        /\ Between(r) /\ ~Between(r)' /\ UNCHANGED <<page, file>>
    BY DEF SaveDB, Answer, Goto, LinkInv, BodyInv, StoreInv, TypeOK, OnCourse, Holding, Between
  <1>2. /\ page[cur[r]] = None /\ page[new[r]] # None /\ file[cur[r]] = new[r] /\ new[r] # None
    BY <1>1, MovePageAssumption DEF OnCourse
  <1>3. Target(cur[r])' = new[r] /\ \A u \in Uris \ {cur[r]} : Target(u)' = Target(u)
    BY <1>1, <1>2 DEF Target, SaveDB, LinkInv, BodyInv, StoreInv, TypeOK, Redirects
  <1>4. \A u \in Uris \ {cur[r]} : Stands(u) => Stands(u)'
    BY <1>1, <1>2, StandsAlone
  <1>5. Stands(new[r])'
    BY <1>1, <1>2, StandsAlone
  <1>6. NoTrap'
    <2> SUFFICES ASSUME NEW S \in SUBSET Uris, S \cap was # {}, Trap(S)'
                 PROVE  FALSE
      BY DEF NoTrap
    <2>1. new[r] \notin S
      BY <1>5 DEF Trap
    <2>2. cur[r] \notin S
      BY <1>2, <1>3, <2>1 DEF Trap
    <2>3. Trap(S)
      BY <1>3, <1>4, <2>2 DEF Trap
    <2>4. QED
      BY <2>3 DEF LinkInv, NoTrap
  <1>7. QED
    BY <1>1, <1>6 DEF OnCourse, Holding

\* A request that begins finds nobody at work.
LEMMA ArrivesOrderly ==
  ASSUME LinkInv, Orderly, NEW r \in Requests, Arrive(r)
  PROVE  NoTrap' /\ \A x \in Requests : OnCourse(x)'
  <1>1. PICK u \in Uris, v \in Uris, first \in {"meta", "check", "read"} :
          Begin(r, u, v, first) /\ (first = "meta" => page[u] # None)
    BY DEF Arrive, Move, Create, Edit, Orderly
  <1>2. Active = {}
    <2>1. SUFFICES ASSUME NEW x \in Requests, x \in Active PROVE FALSE
      BY DEF Active
    <2>2. Active = {x}
      BY <2>1 DEF LinkInv, BodyInv, Orderly, Only, Active
    <2>3. Cardinality(Active) = 1 /\ Cardinality(Active) < scene.concurrent
      BY <1>1, <2>2, FS_Singleton DEF Begin
    <2>4. QED
      BY <2>3 DEF Orderly, Alone
  <1>3. /\ pc'[r] = first /\ cur'[r] = u /\ pc[r] = "idle"
        /\ \A x \in Requests \ {r} : pc'[x] = pc[x] /\ cur'[x] = cur[x] /\ new'[x] = new[x]
    BY <1>1, BeginTyped DEF LinkInv, BodyInv
  <1>4. /\ UNCHANGED <<way, prev, page, file, table, hurt>>
        /\ \A w \in was' : w \in was \/ (w \in Uris /\ page[w] # None)
    BY <1>1 DEF Begin, store
  <1>5. \A x \in Requests : ~Between(x) /\ ~Between(x)'
    BY <1>2, <1>3 DEF Between, Active
  <1>6. \A w \in Uris : (Stands(w) <=> page[w] # None) /\ (Stands(w)' <=> page[w] # None)
    BY <1>4, <1>5 DEF Stands
  <1>7. NoTrap'
    <2>1. \A w \in Uris : Target(w)' = Target(w)
      BY <1>4 DEF Target
    <2>2. \A w \in Uris : Stands(w) => Stands(w)'
      BY <1>6
    <2>3. \A w \in was' : w \in was \/ Stands(w)
      BY <1>4, <1>6
    <2>4. QED
      BY <2>1, <2>2, <2>3, StillNoTrap DEF LinkInv
  <1>8. ASSUME NEW x \in Requests \ {r}
        PROVE  OnCourse(x)'
    <2>1. OnCourse(x) /\ pc[x] \in {"idle", "done"} /\ pc'[x] = pc[x]
      BY <1>2, <1>3 DEF LinkInv, Active
    <2>2. QED
      BY <1>4, <1>5, <2>1 DEF OnCourse, Holding
  <1>9. OnCourse(r)'
    <2>1. OnCourse(r)
      BY DEF LinkInv
    <2>2. QED
      BY <1>1, <1>3, <1>4, <1>5, <2>1 DEF OnCourse, Holding
  <1>10. QED
    BY <1>7, <1>8, <1>9

LEMMA StepsOrderly ==
  ASSUME LinkInv, Orderly, NEW r \in Requests, Step(r)
  PROVE  NoTrap' /\ \A x \in Requests : OnCourse(x)'
  <1>1. Others(r)
    BY OneAtWork DEF LinkInv, Orderly
  <1>2. NoTrap' /\ OnCourse(r)'
    BY <1>1, QuietSteps, RenameSteps, UnmoveSteps, WriteSteps, FileSteps, SaveDBSteps,
       SaveDBFailsSteps DEF Step
  <1>3. \A x \in Requests \ {r} : OnCourse(x)'
    BY <1>1, OthersOnCourse DEF LinkInv
  <1>4. QED
    BY <1>2, <1>3

LEMMA LinkInvariance == Spec => []LinkInv
  <1>1. Init => LinkInv
    <2> SUFFICES ASSUME Init PROVE LinkInv
      OBVIOUS
    <2>1. BodyInv
      <3>1. Only /\ Footing
        BY DEF Init, Only, Footing, Active
      <3>2. QED
        BY <3>1, StoreStart DEF BodyInv
    <2>2. \A r \in Requests : OnCourse(r) /\ ~Between(r)
      BY DEF Init, OnCourse, Between, Holding
    <2>3. \A u \in was : u \in Uris /\ Stands(u)
      BY <2>2, MovePageAssumption DEF Init, Stands
    <2>4. QED
      BY <2>1, <2>2, <2>3 DEF LinkInv, NoTrap, Trap
  <1>2. LinkInv /\ [Next]_vars => LinkInv'
    <2> SUFFICES ASSUME LinkInv, [Next]_vars PROVE LinkInv'
      OBVIOUS
    <2>1. BodyInv'
      BY BodyStep DEF LinkInv
    <2>2. CASE UNCHANGED vars
      <3>1. UNCHANGED <<pc, cur, new, was, scene, way, prev, page, file, table, hurt>>
        BY <2>2 DEF vars, args, store
      <3>2. \A r : Between(r)' = Between(r) /\ (OnCourse(r) => OnCourse(r)')
        BY <3>1 DEF Between, OnCourse
      <3>3. \A u : Stands(u)' = Stands(u) /\ Target(u)' = Target(u)
        BY <3>1, <3>2 DEF Stands, Target
      <3>4. NoTrap => NoTrap'
        BY <3>1, <3>3 DEF NoTrap, Trap
      <3>5. Orderly' => Orderly
        BY <3>1 DEF Orderly, Alone
      <3>6. QED
        BY <2>1, <3>2, <3>4, <3>5 DEF LinkInv
    <2>3. ASSUME NEW r \in Requests, Arrive(r) \/ Step(r) PROVE LinkInv'
      <3>1. Orderly' => Orderly
        BY <2>3, SameScene DEF Orderly, Alone
      <3>2. QED
        BY <2>1, <2>3, <3>1, ArrivesOrderly, StepsOrderly DEF LinkInv
    <2>4. QED
      BY <2>2, <2>3 DEF Next
  <1>3. QED
    BY <1>1, <1>2, PTL DEF Spec

\* As long as requests do not overlap and one meets at most one failure, every URI
\* that ever had a page has one, or its redirects end at a page, after any number
\* of moves, over and back, also over URIs that are used again, and whether the
\* file or the database answers; or they end where a page was moved to a URI that
\* handle redirects nobody to (renameStaticFile, saveRedirect, findRedirect).
THEOREM LinksResolve == Spec => []NoDeadLinks
  <1>1. LinkInv => NoDeadLinks
    <2> SUFFICES ASSUME LinkInv, Orderly, Active = {},
                        NEW u \in was, NEW S \in SUBSET Uris, u \in S
                 PROVE  \E x \in S : \/ x \in Uris /\ (page[x] # None \/ Refused(x))
                                     \/ Followed(x) /\ Target(x) \notin S
      BY DEF NoDeadLinks, Reaches
    <2>1. \A r \in Requests : ~Between(r)
      BY DEF Between, Active
    <2>2. PICK x \in S : Stands(x) \/ (Target(x) # None /\ Target(x) \notin S)
      BY DEF LinkInv, NoTrap, Trap
    <2>3. CASE page[x] # None
      BY <2>3
    <2>4. CASE page[x] = None
      <3>1. Target(x) # None /\ Target(x) \notin S
        BY <2>1, <2>2, <2>4 DEF Stands
      <3>2. QED
        BY <2>4, <3>1 DEF Refused, Followed
    <2>5. QED
      BY <2>3, <2>4
  <1>2. QED
    BY <1>1, LinkInvariance, PTL
-----------------------------------------------------------------------------
(* Moves as single steps *)

\* The site, with the page under way where it came from, and its new URI free.
From(x) == {r \in Requests : Between(r) /\ cur[r] = x}
To(x)   == {r \in Requests : Between(r) /\ new[r] = x}

Body(x) == IF From(x) # {} THEN page[new[CHOOSE r \in From(x) : TRUE]]
           ELSE IF To(x) # {} THEN None ELSE page[x]

Link(x) == IF Body(x) # None THEN None ELSE Target(x)

Site == INSTANCE MovedSite WITH Bodies <- Uris \cup Requests,
                                body <- [x \in Uris |-> Body(x)],
                                link <- [x \in Uris |-> Link(x)]

ImplementsMovedSite == Site!Spec

\* Body, when r is the only one at work.
LEMMA BodyAlone ==
  ASSUME NEW r \in Requests, Others(r), NEW u \in Uris
  PROVE  /\ Body(u) = IF Between(r) /\ cur[r] = u THEN page[new[r]]
                      ELSE IF Between(r) /\ new[r] = u THEN None ELSE page[u]
         /\ Body(u)' = IF Between(r)' /\ cur[r] = u THEN page'[new[r]]
                       ELSE IF Between(r)' /\ new[r] = u THEN None ELSE page'[u]
  <1>1. /\ \A x \in Requests \ {r} : ~Between(x) /\ ~Between(x)'
        /\ cur' = cur /\ new' = new
    BY DEF Others, Between
  <1>2. From(u) = IF Between(r) /\ cur[r] = u THEN {r} ELSE {}
    BY <1>1 DEF From
  <1>3. To(u) = IF Between(r) /\ new[r] = u THEN {r} ELSE {}
    BY <1>1 DEF To
  <1>4. From(u)' = IF Between(r)' /\ cur[r] = u THEN {r} ELSE {}
    BY <1>1 DEF From
  <1>5. To(u)' = IF Between(r)' /\ new[r] = u THEN {r} ELSE {}
    BY <1>1 DEF To
  <1>6. (CHOOSE x \in {r} : TRUE) = r
    OBVIOUS
  <1>7. Body(u) = IF Between(r) /\ cur[r] = u THEN page[new[r]]
                  ELSE IF Between(r) /\ new[r] = u THEN None ELSE page[u]
    BY <1>2, <1>3, <1>6 DEF Body
  <1>8. Body(u)' = IF Between(r)' /\ cur[r] = u THEN page'[new[r]]
                   ELSE IF Between(r)' /\ new[r] = u THEN None ELSE page'[u]
    BY <1>1, <1>4, <1>5, <1>6 DEF Body
  <1>9. QED
    BY <1>7, <1>8

\* No page goes anywhere, and no redirect that can be seen is touched.
LEMMA SiteStays ==
  ASSUME \A u \in Uris : Body(u)' = Body(u),
         \A u \in Uris : Body(u) # None \/ Target(u)' = Target(u)
  PROVE  UNCHANGED <<[x \in Uris |-> Body(x)], [x \in Uris |-> Link(x)]>>
  <1>1. \A u \in Uris : Link(u)' = Link(u)
    BY DEF Link
  <1>2. QED
    BY <1>1

\* r neither begins nor ends being between.
LEMMA QuietBetween ==
  ASSUME LinkInv, Orderly, NEW r \in Requests, Others(r),
         \/ WriteMeta(r) \/ WriteMetaFails(r) \/ Vacant(r) \/ Taken(r) \/ StatOld(r)
         \/ RenameFails(r) \/ Sync(r) \/ SyncFails(r) \/ UnmoveFails(r) \/ Lock(r) \/ Load(r)
         \/ LoadFails(r) \/ RestoreFails(r) \/ Unmeta(r)
         \/ Check(r) \/ Occupied(r) \/ WriteFails(r) \/ Read(r)
  PROVE  UNCHANGED <<page, file, table>> /\ (Between(r)' <=> Between(r))
  <1> USE DEF Others
  <1>1. OnCourse(r) /\ scene.faults <= 1 /\ scene.faults \in Nat
    BY MovePageAssumption DEF LinkInv, Orderly, BodyInv, StoreInv, TypeOK
  <1>2. UNCHANGED <<page, file, table>>
    BY DEF WriteMeta, WriteMetaFails, Vacant, Taken, StatOld, RenameFails, Sync, SyncFails,
           UnmoveFails, Lock, Load, LoadFails, RestoreFails, Unmeta, Check, Occupied, WriteFails, Read, store
  <1> USE DEF Goto, Answer, Moved, Unmoved
  <1>3. PICK P : pc \in [Requests -> P] /\ way \in [Requests -> {"there", "back"}]
        /\ hurt \in [Requests -> 0..scene.faults]
    BY DEF LinkInv, BodyInv, StoreInv, TypeOK
  <1>4. CASE WriteMeta(r) \/ WriteMetaFails(r) \/ Lock(r) \/ Load(r)
    BY <1>1, <1>2, <1>3, <1>4 DEF WriteMeta, WriteMetaFails, Lock, Load, OnCourse, Between, Holding
  <1>5. CASE Vacant(r) \/ Taken(r)
    BY <1>1, <1>2, <1>3, <1>5 DEF Vacant, Taken, OnCourse, Between, Holding, Dst
  <1>6. CASE StatOld(r) \/ RenameFails(r)
    BY <1>1, <1>2, <1>3, <1>6 DEF StatOld, RenameFails, Failing, OnCourse, Between, Holding, Src
  <1>7. CASE Sync(r) \/ SyncFails(r) \/ UnmoveFails(r)
    BY <1>1, <1>2, <1>3, <1>7 DEF Sync, SyncFails, UnmoveFails, Failing, OnCourse, Between, Holding
  <1>8. CASE LoadFails(r)
    BY <1>1, <1>2, <1>3, <1>8 DEF LoadFails, GiveUp, Failing, OnCourse, Between, Holding
  <1>9. CASE RestoreFails(r)
    BY <1>1, <1>3, <1>9 DEF RestoreFails, GiveUp, Failing, OnCourse
  <1>10. CASE Unmeta(r) \/ Check(r) \/ Occupied(r) \/ WriteFails(r) \/ Read(r)
    BY <1>1, <1>2, <1>3, <1>10 DEF Unmeta, Check, Occupied, WriteFails, Read, OnCourse, Between, Holding
  <1>11. QED
    BY <1>4, <1>5, <1>6, <1>7, <1>8, <1>9, <1>10

\* Steps that nobody sees: the move is not yet made, or will not be.
LEMMA HiddenSteps ==
  ASSUME LinkInv, Orderly, NEW r \in Requests, Others(r), Step(r),
         ~Write(r), ~Save(r), ~SaveDB(r)
  PROVE  UNCHANGED <<[x \in Uris |-> Body(x)], [x \in Uris |-> Link(x)]>>
  <1>1. ASSUME UNCHANGED <<page, file, table>>, Between(r)' <=> Between(r)
        PROVE  UNCHANGED <<[x \in Uris |-> Body(x)], [x \in Uris |-> Link(x)]>>
    BY <1>1, BodyAlone, SiteStays DEF Target
  <1>2. ASSUME Rename(r) \/ Unmove(r)
        PROVE  UNCHANGED <<[x \in Uris |-> Body(x)], [x \in Uris |-> Link(x)]>>
    <2>1. /\ UNCHANGED <<file, table>> /\ OnCourse(r) /\ cur[r] # new[r]
          /\ pc[r] \in {"rename", "unmove"}
          /\ page \in [Uris -> Uris \cup Requests \cup {None}]
          /\ cur[r] \in Uris /\ new[r] \in Uris
      BY <1>2 DEF Rename, Unmove, Goto, Others, Moving, LinkInv, BodyInv, StoreInv, TypeOK
    <2>2. CASE Rename(r) /\ way[r] = "there"
      <3>1. /\ ~Between(r) /\ Between(r)' /\ page[new[r]] = None
            /\ page' = [page EXCEPT ![new[r]] = page[cur[r]], ![cur[r]] = None]
        BY <2>2 DEF Rename, Goto, Between, Src, Dst, LinkInv, Orderly, BodyInv, Footing, StoreInv, TypeOK
      <3>2. /\ page'[new[r]] = page[cur[r]]
            /\ \A u \in Uris \ {cur[r], new[r]} : page'[u] = page[u]
        BY <2>1, <3>1
      <3>3. \A u \in Uris : Body(u)' = Body(u)
        BY <2>1, <3>1, <3>2, BodyAlone
      <3>4. QED
        BY <2>1, <3>3, SiteStays DEF Target
    <2>3. CASE (Rename(r) /\ way[r] = "back") \/ Unmove(r)
      <3>1. /\ Between(r) /\ ~Between(r)' /\ page[cur[r]] = None /\ page[new[r]] # None
            /\ page' = [page EXCEPT ![cur[r]] = page[new[r]], ![new[r]] = None]
        <4>1. CASE Rename(r) /\ way[r] = "back"
          BY <2>1, <4>1 DEF Rename, Goto, Between, Src, Dst, OnCourse, LinkInv, BodyInv, StoreInv, TypeOK
        <4>2. CASE Unmove(r)
          <5>1. pc[r] = "unmove" /\ way[r] = "there" /\ pc'[r] = "unmeta" /\ way' = way
            BY <2>1, <4>2 DEF Unmove, Goto, Unmoved, OnCourse, LinkInv, BodyInv, StoreInv, TypeOK
          <5>2. Between(r) /\ ~Between(r)'
            BY <5>1 DEF Between
          <5>3. QED
            BY <2>1, <4>2, <5>1, <5>2 DEF Unmove, OnCourse, Src, Dst
        <4>3. QED
          BY <2>3, <4>1, <4>2
      <3>2. /\ page'[cur[r]] = page[new[r]] /\ page'[new[r]] = None
            /\ \A u \in Uris \ {cur[r], new[r]} : page'[u] = page[u]
        BY <2>1, <3>1
      <3>3. \A u \in Uris : Body(u)' = Body(u)
        BY <2>1, <3>1, <3>2, BodyAlone
      <3>4. QED
        BY <2>1, <3>3, SiteStays DEF Target
    <2>4. way[r] \in {"there", "back"}
      BY DEF LinkInv, BodyInv, StoreInv, TypeOK
    <2>5. QED
      BY <1>2, <2>2, <2>3, <2>4
  <1>3. ASSUME WriteFile(r) \/ WriteFileFails(r) \/ SaveDBFails(r) \/ Restore(r)
        PROVE  UNCHANGED <<[x \in Uris |-> Body(x)], [x \in Uris |-> Link(x)]>>
    <2>1. /\ OnCourse(r) /\ pc[r] \in {"file", "db", "restore"} /\ way[r] = "there" /\ Between(r)
          /\ prev[r] \in Redirects /\ table \in Redirects /\ cur[r] \in Uris
      BY <1>3 DEF LinkInv, BodyInv, StoreInv, TypeOK, Known, WriteFile, WriteFileFails, SaveDBFails, Restore,
                  GiveUp, Goto, OnCourse, Holding, Between, Others
    <2>2. UNCHANGED page /\ \A u \in Uris \ {cur[r]} : file'[u] = file[u] /\ table'[u] = table[u]
      <3>1. CASE WriteFile(r) \/ WriteFileFails(r) \/ Restore(r)
        BY <2>1, <3>1 DEF WriteFile, WriteFileFails, Restore, GiveUp, Goto, OnCourse, Added, Redirects
      <3>2. CASE SaveDBFails(r)
        BY <2>1, <3>2 DEF SaveDBFails, Redirects
      <3>3. QED
        BY <1>3, <3>1, <3>2
    <2>3. Between(r)'
      BY <1>3, <2>1 DEF WriteFile, WriteFileFails, SaveDBFails, Restore, GiveUp, Goto, Between,
                        LinkInv, BodyInv, StoreInv, TypeOK
    <2>4. \A u \in Uris : Body(u)' = Body(u)
      BY <2>1, <2>2, <2>3, BodyAlone
    <2>5. Body(cur[r]) # None
      BY <2>1, BodyAlone DEF OnCourse
    <2>6. QED
      BY <2>2, <2>4, <2>5, SiteStays DEF Target
  <1>4. QED
    BY <1>1, <1>2, <1>3, QuietBetween DEF Step

\* A page is created or edited.
LEMMA PutSteps ==
  ASSUME LinkInv, Orderly, NEW r \in Requests, Others(r), Write(r) \/ Save(r)
  PROVE  Site!Next
  <1>1. PICK u \in Uris : page' = [page EXCEPT ![u] = r]
    BY DEF Write, Save, Others
  <1>2. /\ ~Between(r) /\ ~Between(r)' /\ UNCHANGED <<file, table>> /\ r # None
        /\ page \in [Uris -> Uris \cup Requests \cup {None}]
    BY MovePageAssumption DEF Write, Save, Answer, Goto, Between, LinkInv, BodyInv, StoreInv, TypeOK
  <1>3. Body(u)' = r /\ \A x \in Uris \ {u} : Body(x)' = Body(x)
    BY <1>1, <1>2, BodyAlone
  <1>4. Link(u)' = None /\ \A x \in Uris \ {u} : Link(x)' = Link(x)
    BY <1>2, <1>3 DEF Link, Target
  <1>5. Site!Put(u)
    BY <1>3, <1>4 DEF Site!Put
  <1>6. QED
    BY <1>5 DEF Site!Next

\* The database has the redirect: the page is where it was moved to.
LEMMA MoveSteps ==
  ASSUME LinkInv, Orderly, NEW r \in Requests, Others(r), SaveDB(r)
  PROVE  Site!Next
  <1>1. /\ OnCourse(r) /\ pc[r] = "db" /\ pc'[r] = "done" /\ way[r] = "there" /\ way' = way
        /\ UNCHANGED <<page, file>> /\ cur[r] # new[r] /\ cur[r] \in Uris /\ new[r] \in Uris
    BY DEF SaveDB, Answer, Goto, LinkInv, BodyInv, StoreInv, TypeOK, OnCourse, Holding, Others, Moving
  <1>2. /\ Between(r) /\ ~Between(r)'
        /\ page[cur[r]] = None /\ page[new[r]] # None /\ file[cur[r]] = new[r]
    BY <1>1 DEF Between, OnCourse
  <1>3. /\ table \in [Uris -> Uris \cup {None}] /\ page \in [Uris -> Uris \cup Requests \cup {None}]
        /\ table' = (IF DBConfigured THEN [table EXCEPT ![cur[r]] = new[r]] ELSE table)
        /\ UNCHANGED <<cur, new>> /\ None \notin Uris
    BY MovePageAssumption DEF SaveDB, LinkInv, BodyInv, StoreInv, TypeOK, Redirects, Others
  <1>8. Target(cur[r])' = new[r]
    BY <1>1, <1>2, <1>3 DEF Target
  <1>9. \A u \in Uris \ {cur[r]} : Target(u)' = Target(u)
    BY <1>1, <1>3 DEF Target
  <1>10. PICK a \in Uris, b \in Uris : a = cur[r] /\ b = new[r] /\ a # b
    BY <1>1
  <1>4. \A u \in Uris : /\ Body(u) = IF a = u THEN page[b] ELSE IF b = u THEN None ELSE page[u]
                        /\ Body(u)' = page[u]
    <2>1. page' = page
      BY <1>1
    <2>2. QED
      BY <1>2, <1>10, <2>1, BodyAlone
  <1>5. page[a] = None /\ page[b] # None /\ Body(a) = page[b] /\ Body(b) = None
    BY <1>2, <1>4, <1>10
  <1>6. [x \in Uris |-> Body(x)'] = [[x \in Uris |-> Body(x)] EXCEPT ![b] = Body(a), ![a] = None]
    BY <1>4, <1>5, <1>10
  <1>11. \A u \in Uris : Link(u) = (IF Body(u) # None THEN None ELSE Target(u))
                         /\ Link(u)' = (IF Body(u)' # None THEN None ELSE Target(u)')
    BY DEF Link
  <1>12. Link(a)' = b /\ Link(b)' = None /\ \A u \in Uris \ {a, b} : Link(u)' = Link(u)
    <2>1. Target(a)' = b /\ \A u \in Uris \ {a, b} : Target(u)' = Target(u)
      BY <1>3, <1>8, <1>9, <1>10
    <2>2. Body(a)' = None /\ Body(b)' # None
      BY <1>4, <1>5
    <2>4. \A u \in Uris \ {a, b} : Body(u)' = Body(u)
      BY <1>4
    <2>3. QED
      BY <1>10, <1>11, <2>1, <2>2, <2>4
  <1>13. [x \in Uris |-> Link(x)'] = [[x \in Uris |-> Link(x)] EXCEPT ![a] = b, ![b] = None]
    BY <1>10, <1>12
  <1>14. [x \in Uris |-> Body(x)][a] # None /\ [x \in Uris |-> Body(x)][b] = None
         /\ [x \in Uris |-> Body(x)][a] = Body(a)
    BY <1>5
  <1>15. Site!Move(a, b)
    BY <1>6, <1>13, <1>14 DEF Site!Move
  <1>16. QED
    BY <1>15 DEF Site!Next

LEMMA ArriveHidden ==
  ASSUME LinkInv, Orderly, NEW r \in Requests, Arrive(r)
  PROVE  UNCHANGED <<[x \in Uris |-> Body(x)], [x \in Uris |-> Link(x)]>>
  <1>1. PICK u \in Uris, v \in Uris, first \in {"meta", "check", "read"} : Begin(r, u, v, first)
    BY DEF Arrive, Move, Create, Edit
  <1>2. /\ pc[r] = "idle" /\ pc'[r] = first
        /\ \A x \in Requests \ {r} : pc'[x] = pc[x] /\ cur'[x] = cur[x] /\ new'[x] = new[x]
    BY <1>1, BeginTyped DEF LinkInv, BodyInv
  <1>3. UNCHANGED <<way, page, file, table>>
    BY <1>1 DEF Begin, store
  <1>4. ~Between(r) /\ ~Between(r)' /\ \A x \in Requests \ {r} : Between(x)' <=> Between(x)
    BY <1>2, <1>3 DEF Between
  <1>5. \A w : From(w)' = From(w) /\ To(w)' = To(w)
    BY <1>2, <1>4 DEF From, To
  <1>6. ASSUME NEW w \in Uris PROVE Body(w)' = Body(w)
    <2>1. CASE From(w) = {}
      BY <1>3, <1>5, <2>1 DEF Body
    <2>2. CASE From(w) # {}
      <3>1. PICK x \in From(w) : x = CHOOSE y \in From(w) : TRUE
        BY <2>2
      <3>2. x \in Requests \ {r} /\ new'[x] = new[x]
        BY <1>2, <1>4 DEF From
      <3>3. Body(w) = page[new[x]] /\ Body(w)' = page[new'[x]]
        BY <1>3, <1>5, <2>2, <3>1 DEF Body
      <3>4. QED
        BY <3>2, <3>3
    <2>3. QED
      BY <2>1, <2>2
  <1>7. QED
    BY <1>3, <1>6, SiteStays DEF Target

\* As long as requests do not overlap, move pages that are there and meet one
\* failure each at most, a move is made in one step or not at all: the commit of
\* its redirect takes the page to its new URI, and every failure before leaves
\* the site as it was, however many of its steps were done and undone
\* (updateProperties, renameStaticFile, saveRedirect).
THEOREM MovesAreAtomic == Spec /\ Orderly => ImplementsMovedSite
  <1>1. Init => Site!Init
    <2> SUFFICES ASSUME Init PROVE Site!Init
      OBVIOUS
    <2>1. \A r \in Requests : ~Between(r)
      BY DEF Init, Between
    <2>2. \A u \in Uris : Body(u) = page[u] /\ page[u] \in Uris \cup {None}
      BY <2>1 DEF Init, Body, From, To
    <2>3. \A u \in Uris : Link(u) = None
      BY DEF Init, Link, Target
    <2>4. QED
      BY <2>2, <2>3 DEF Site!Init
  <1>2. Orderly /\ [Next]_vars => Orderly'
    <2> SUFFICES ASSUME Orderly, [Next]_vars PROVE Orderly'
      OBVIOUS
    <2>1. scene' = scene
      BY SameScene DEF Next, vars, args
    <2>2. QED
      BY <2>1 DEF Orderly, Alone
  <1>3. LinkInv /\ Orderly /\ [Next]_vars
          => [Site!Next]_<<[x \in Uris |-> Body(x)], [x \in Uris |-> Link(x)]>>
    <2> SUFFICES ASSUME LinkInv, Orderly, [Next]_vars
                 PROVE  Site!Next \/ UNCHANGED <<[x \in Uris |-> Body(x)], [x \in Uris |-> Link(x)]>>
      OBVIOUS
    <2>1. ASSUME NEW r \in Requests, Step(r)
          PROVE  Site!Next \/ UNCHANGED <<[x \in Uris |-> Body(x)], [x \in Uris |-> Link(x)]>>
      <3>1. Others(r)
        BY <2>1, OneAtWork DEF LinkInv, Orderly
      <3>2. QED
        BY <2>1, <3>1, HiddenSteps, PutSteps, MoveSteps
    <2>2. CASE UNCHANGED vars
      <3>1. UNCHANGED <<pc, cur, new, way, page, file, table>>
        BY <2>2 DEF vars, args, store
      <3>2. \A u : Body(u)' = Body(u) /\ Target(u)' = Target(u)
        BY <3>1 DEF Body, From, To, Between, Target
      <3>3. QED
        BY <3>2, SiteStays
    <2>3. QED
      BY <2>1, <2>2, ArriveHidden DEF Next
  <1>4. QED
    BY LinkInvariance, <1>1, <1>2, <1>3, PTL DEF Spec, ImplementsMovedSite, Site!Spec
=============================================================================
