------------------------------ MODULE MovePage ------------------------------
(***************************************************************************)
(* Who else writes pages: POST ?properties, which changes a page's         *)
(* metadata and may move it to another URI, leaving a redirect behind, and *)
(* POST ?subpages, which creates one; together with the edit of PageSave,  *)
(* here reduced to its read and its replacement of the page.               *)
(*                                                                         *)
(* A move touches five places one after the other (the sidecar with the    *)
(* metadata, the page, redirects.json, the Redirect table) and undoes what *)
(* it did when a later one fails.  Only the redirects have a lock.         *)
(***************************************************************************)
EXTENDS Naturals, FiniteSets

CONSTANTS
  Requests,     \* numbered in the order of their arrival
  Uris,         \* canonical URIs; each has a file of its own
  None,
  DBConfigured,
  Faults,       \* the steps that may fail
  Scenes        \* bounds, of which a behaviour keeps to one:
                \*   requests    how many there are
                \*   concurrent  how many of them are in flight at once
                \*   faults      how many failures one of them meets
                \*   kinds       what they ask for
                \*   ghosts      are pages moved that are not there?
                \*   odd         the URIs no redirect leads to, as "/a b.html"
                \*   site        the pages when the server is first started

Steps == {"meta", "syncMeta", "rename", "sync", "unmove", "load", "file", "syncFile",
          "db", "commit", "restore", "unmeta", "write", "syncWrite"}

ASSUME MovePageAssumption ==
  /\ Requests \subseteq Nat /\ None \notin Uris \cup Requests
  /\ DBConfigured \in BOOLEAN /\ Faults \subseteq Steps
  /\ \A s \in Scenes : /\ s.requests \in Nat /\ s.concurrent \in Nat \ {0} /\ s.faults \in Nat
                       /\ s.kinds \subseteq {"move", "create", "edit"}
                       /\ s.ghosts \in BOOLEAN /\ s.site \subseteq Uris /\ s.odd \subseteq Uris

VARIABLES
  pc, cur, new,  \* of each request: next step, the page's URI, the new one
  way,     \* which renameStaticFile is running: "there", or the undoing "back"
  base,    \* an edit's oldContent
  prev,    \* saveRedirect's copy of redirects.json
  reply,
  page,    \* page[u]: the body at u, by who wrote it (None: no file)
  meta,    \* meta[u]: the sidecar of u, by who wrote it
  file, table,  \* the redirects, in redirects.json and in the database
  lock,    \* who holds redirectFileLock
  scene,   \* the bounds of this behaviour
  hurt,    \* how many failures each request met
  was,     \* the URIs that had a page between two requests: history
  found,   \* found[r]: the sidecar of new[r] when r began: history
  torn     \* the URIs whose redirect a failure left in doubt: history

args  == <<cur, new, found, was, scene>>
store == <<page, meta, file, table>>
vars  == <<pc, args, way, base, prev, reply, store, lock, hurt, torn>>

Redirects == [Uris -> Uris \cup {None}]

Active == {r \in Requests : pc[r] \notin {"idle", "done"}}

Goto(r, from, to) == pc[r] = from /\ pc' = [pc EXCEPT ![r] = to]

Answer(r, from, what) == /\ Goto(r, from, "done")
                         /\ reply' = [reply EXCEPT ![r] = what]

Failing(r, step) == /\ step \in Faults /\ hurt[r] < scene.faults
                    /\ hurt' = [hurt EXCEPT ![r] = @ + 1]

\* The arguments of the renameStaticFile that is running.
Src(r) == IF way[r] = "there" THEN cur[r] ELSE new[r]
Dst(r) == IF way[r] = "there" THEN new[r] ELSE cur[r]

Init ==
  /\ scene \in Scenes
  /\ pc = [r \in Requests |-> "idle"]
  /\ cur = [r \in Requests |-> None] /\ new = [r \in Requests |-> None]
  /\ way = [r \in Requests |-> "there"]
  /\ base = [r \in Requests |-> None]
  /\ prev = [r \in Requests |-> None]
  /\ reply = [r \in Requests |-> "none"]
  /\ page = [u \in Uris |-> IF u \in scene.site THEN u ELSE None]
  /\ meta = [u \in Uris |-> IF u \in scene.site THEN u ELSE None]
  /\ file = [u \in Uris |-> None] /\ table = file
  /\ lock = None /\ hurt = [r \in Requests |-> 0]
  /\ was = scene.site /\ found = [r \in Requests |-> None]
  /\ torn = {}

Begin(r, u, v, first) ==
  /\ Cardinality(Active) < scene.concurrent
  /\ r <= scene.requests
  /\ \A x \in Requests : x < r => pc[x] # "idle"
  /\ Goto(r, "idle", first)
  /\ cur' = [cur EXCEPT ![r] = u] /\ new' = [new EXCEPT ![r] = v]
  /\ found' = [found EXCEPT ![r] = meta[v]]
  /\ was' = IF Active = {} THEN was \cup {x \in Uris : page[x] # None} ELSE was
  /\ UNCHANGED <<way, base, prev, reply, store, lock, hurt, torn, scene>>
-----------------------------------------------------------------------------
(* updateProperties *)

Move(r, u, v) == /\ "move" \in scene.kinds
                 /\ scene.ghosts \/ page[u] # None
                 /\ Begin(r, u, v, "meta")

\* writePageMetadata(metadata), under the new URI; all there is to do if the
\* page keeps its own.
WriteMeta(r) ==
  /\ Goto(r, "meta", IF cur[r] = new[r] THEN "done" ELSE "stat")
  /\ meta' = [meta EXCEPT ![new[r]] = r]
  /\ reply' = [reply EXCEPT ![r] = IF cur[r] = new[r] THEN "ok" ELSE @]
  /\ UNCHANGED <<args, way, base, prev, page, file, table, lock, hurt, torn>>

WriteMetaFails(r) ==
  /\ Answer(r, "meta", "failed")
  /\ \/ Failing(r, "meta") /\ UNCHANGED meta
     \/ Failing(r, "syncMeta") /\ meta' = [meta EXCEPT ![new[r]] = r]
  /\ UNCHANGED <<args, way, base, prev, page, file, table, lock, torn>>

\* renameStaticFile(Src, Dst) returns.  Its error on the way there is followed
\* by the removal of the sidecar; on the way back it is returned at once.
Moved(r)   == IF way[r] = "there" THEN "lock" ELSE "unmeta"
Unmoved(r) == IF way[r] = "there" THEN "unmeta" ELSE "done"

\* Mutant: the new URI's file is not looked for.
Vacant_Unchecked(r) ==
  /\ Goto(r, "stat", "statOld")
  /\ UNCHANGED <<args, way, base, prev, reply, store, lock, hurt, torn>>

\* os.Stat(newAbs): os.ErrExist if it is there.
Vacant(r) ==
  /\ Goto(r, "stat", "statOld")
  /\ page[Dst(r)] = None
  /\ UNCHANGED <<args, way, base, prev, reply, store, lock, hurt, torn>>

Taken(r) ==
  /\ Goto(r, "stat", Unmoved(r))
  /\ page[Dst(r)] # None
  /\ reply' = [reply EXCEPT ![r] = IF way[r] = "there" THEN "conflict" ELSE "failed"]
  /\ UNCHANGED <<args, way, base, prev, store, lock, hurt, torn>>

\* os.Stat(currentAbs): nothing to rename is not an error.
StatOld(r) ==
  /\ Goto(r, "statOld", IF page[Src(r)] = None THEN Moved(r) ELSE "rename")
  /\ UNCHANGED <<args, way, base, prev, reply, store, lock, hurt, torn>>

\* os.Rename replaces whatever has come to be there.
Rename(r) ==
  /\ Goto(r, "rename", "sync")
  /\ page[Src(r)] # None
  /\ page' = [page EXCEPT ![Dst(r)] = page[Src(r)], ![Src(r)] = None]
  /\ UNCHANGED <<args, way, base, prev, reply, meta, file, table, lock, hurt, torn>>

RenameFails(r) ==
  /\ Goto(r, "rename", Unmoved(r))
  /\ \/ page[Src(r)] = None /\ UNCHANGED hurt
     \/ Failing(r, "rename")
  /\ reply' = [reply EXCEPT ![r] = "failed"]
  /\ UNCHANGED <<args, way, base, prev, store, lock, torn>>

Sync(r) ==
  /\ Goto(r, "sync", Moved(r))
  /\ UNCHANGED <<args, way, base, prev, reply, store, lock, hurt, torn>>

SyncFails(r) ==
  /\ Goto(r, "sync", "unmove")
  /\ Failing(r, "sync")
  /\ reply' = [reply EXCEPT ![r] = "failed"]
  /\ UNCHANGED <<args, way, base, prev, store, lock, torn>>

\* rollbackRenameAfterSyncFailure.
Unmove(r) ==
  /\ Goto(r, "unmove", Unmoved(r))
  /\ IF page[Dst(r)] = None
       THEN UNCHANGED page
       ELSE page' = [page EXCEPT ![Src(r)] = page[Dst(r)], ![Dst(r)] = None]
  /\ UNCHANGED <<args, way, base, prev, reply, meta, file, table, lock, hurt, torn>>

UnmoveFails(r) ==
  /\ Goto(r, "unmove", Unmoved(r))
  /\ Failing(r, "unmove")
  /\ UNCHANGED <<args, way, base, prev, reply, store, lock, torn>>

\* Mutant: no lock.
Lock_Open(r) ==
  /\ Goto(r, "lock", "load")
  /\ lock' = r
  /\ UNCHANGED <<args, way, base, prev, reply, store, hurt, torn>>

\* saveRedirect: the lock ...
Lock(r) ==
  /\ Goto(r, "lock", "load")
  /\ lock = None /\ lock' = r
  /\ UNCHANGED <<args, way, base, prev, reply, store, hurt, torn>>

\* Mutant: the error return keeps the lock.
GiveUp_Locked(r, from) == /\ Goto(r, from, "stat")
                          /\ way' = [way EXCEPT ![r] = "back"]
                          /\ reply' = [reply EXCEPT ![r] = "failed"]
                          /\ lock' = lock

\* Mutant: the page stays where it was moved to.
GiveUp_Stays(r, from) == /\ Goto(r, from, "unmeta")
                         /\ UNCHANGED way
                         /\ reply' = [reply EXCEPT ![r] = "failed"]
                         /\ lock' = None

\* An error return, with its deferred unlock: the rename is undone.
GiveUp(r, from) == /\ Goto(r, from, "stat")
                   /\ way' = [way EXCEPT ![r] = "back"]
                   /\ reply' = [reply EXCEPT ![r] = "failed"]
                   /\ lock' = None

\* ... the list is read ...
Load(r) ==
  /\ Goto(r, "load", "file")
  /\ prev' = [prev EXCEPT ![r] = file]
  /\ UNCHANGED <<args, way, base, reply, store, lock, hurt, torn>>

LoadFails(r) ==
  /\ GiveUp(r, "load") /\ Failing(r, "load")
  /\ UNCHANGED <<args, base, prev, store, torn>>

\* ... the redirect takes the place of an older one for its URI, or joins ...
Added(r) == [prev[r] EXCEPT ![cur[r]] = new[r]]

WriteFile(r) ==
  /\ Goto(r, "file", "db")
  /\ file' = Added(r)
  /\ UNCHANGED <<args, way, base, prev, reply, page, meta, table, lock, hurt, torn>>

WriteFileFails(r) ==
  /\ GiveUp(r, "file")
  /\ \/ Failing(r, "file") /\ UNCHANGED <<file, torn>>
     \/ Failing(r, "syncFile") /\ file' = Added(r) /\ torn' = torn \cup {cur[r]}
  /\ UNCHANGED <<args, base, prev, page, meta, table>>

\* ... and the same in the database, in one transaction ...
SaveDB(r) ==
  /\ Answer(r, "db", "ok")
  /\ table' = IF DBConfigured THEN [table EXCEPT ![cur[r]] = new[r]] ELSE table
  /\ torn' = torn \ {cur[r]}
  /\ lock' = None
  /\ UNCHANGED <<args, way, base, prev, page, meta, file, hurt>>

\* The error of Commit may come after the commit.
SaveDBFails(r) ==
  /\ DBConfigured
  /\ Goto(r, "db", "restore")
  /\ \/ Failing(r, "db") /\ UNCHANGED <<table, torn>>
     \/ /\ Failing(r, "commit")
        /\ table' = [table EXCEPT ![cur[r]] = new[r]]
        /\ torn' = torn \cup {cur[r]}
  /\ UNCHANGED <<args, way, base, prev, reply, page, meta, file, lock>>

\* Mutant: the file is removed, whatever it held before.
Restore_Removes(r) ==
  /\ GiveUp(r, "restore")
  /\ file' = None
  /\ UNCHANGED <<args, base, prev, page, meta, table, hurt, torn>>

\* ... failing which the file gets its old content back (restoreRedirectsFile).
Restore(r) ==
  /\ GiveUp(r, "restore")
  /\ file' = prev[r]
  /\ UNCHANGED <<args, base, prev, page, meta, table, hurt, torn>>

RestoreFails(r) ==
  /\ GiveUp(r, "restore") /\ Failing(r, "restore")
  /\ torn' = torn \cup {cur[r]}
  /\ UNCHANGED <<args, base, prev, store>>

\* removePageMetadata(newURI), and the error is returned.
Unmeta(r) ==
  /\ Goto(r, "unmeta", "done")
  /\ \/ meta' = [meta EXCEPT ![new[r]] = None] /\ UNCHANGED hurt
     \/ Failing(r, "unmeta") /\ UNCHANGED meta
  /\ UNCHANGED <<args, way, base, prev, reply, page, file, table, lock, torn>>
-----------------------------------------------------------------------------
(* createSubpage *)

Create(r, v) == "create" \in scene.kinds /\ Begin(r, v, v, "check")

Check(r) ==
  /\ Goto(r, "check", "write")
  /\ page[new[r]] = None
  /\ UNCHANGED <<args, way, base, prev, reply, store, lock, hurt, torn>>

Occupied(r) ==
  /\ Answer(r, "check", "conflict")
  /\ page[new[r]] # None
  /\ UNCHANGED <<args, way, base, prev, store, lock, hurt, torn>>

\* atomicWriteFile replaces whatever has come to be there.
Write(r) ==
  /\ \/ Answer(r, "write", "ok") /\ UNCHANGED hurt
     \/ Answer(r, "write", "failed") /\ Failing(r, "syncWrite")
  /\ page' = [page EXCEPT ![new[r]] = r]
  /\ UNCHANGED <<args, way, base, prev, meta, file, table, lock, torn>>

WriteFails(r) ==
  /\ Answer(r, "write", "failed") /\ Failing(r, "write")
  /\ UNCHANGED <<args, way, base, prev, store, lock, torn>>
-----------------------------------------------------------------------------
(* saveEditedFile; the lock of the revision directory is its own *)

Edit(r, u) == "edit" \in scene.kinds /\ Begin(r, u, u, "read")

Read(r) ==
  /\ Goto(r, "read", "save")
  /\ \A x \in Requests : pc[x] = "save" => cur[x] # cur[r]
  /\ base' = [base EXCEPT ![r] = page[cur[r]]]
  /\ UNCHANGED <<args, way, prev, reply, store, lock, hurt, torn>>

Save(r) ==
  /\ Answer(r, "save", "ok")
  /\ page' = [page EXCEPT ![cur[r]] = r]
  /\ UNCHANGED <<args, way, base, prev, meta, file, table, lock, hurt, torn>>
-----------------------------------------------------------------------------
Arrive(r) == \/ \E u, v \in Uris : Move(r, u, v)
             \/ \E u \in Uris : Create(r, u) \/ Edit(r, u)

Step(r) == \/ WriteMeta(r) \/ WriteMetaFails(r)
           \/ Vacant(r) \/ Taken(r) \/ StatOld(r) \/ Rename(r) \/ RenameFails(r)
           \/ Sync(r) \/ SyncFails(r) \/ Unmove(r) \/ UnmoveFails(r)
           \/ Lock(r) \/ Load(r) \/ LoadFails(r)
           \/ WriteFile(r) \/ WriteFileFails(r) \/ SaveDB(r) \/ SaveDBFails(r)
           \/ Restore(r) \/ RestoreFails(r) \/ Unmeta(r)
           \/ Check(r) \/ Occupied(r) \/ Write(r) \/ WriteFails(r)
           \/ Read(r) \/ Save(r)

Next == \E r \in Requests : Arrive(r) \/ Step(r)

Spec == Init /\ [][Next]_vars

FairSpec == Spec /\ \A r \in Requests : WF_vars(Step(r)) /\ SF_vars(Lock(r))
-----------------------------------------------------------------------------
(* What a visitor gets (handle, findRedirect): a page if there is one, else *)
(* the redirect of the database, else that of the file, which the browser   *)
(* follows, unless handle refuses to send it there.                         *)

Target(u) == IF DBConfigured /\ table[u] # None THEN table[u] ELSE file[u]

\* validInternalRedirectTarget: updateProperties moves pages to URIs with a
\* space, say, for which it does not let a redirect through.
Followed(u) == Target(u) \notin scene.odd \cup {None}
Refused(u)  == page[u] = None /\ Target(u) \in scene.odd

\* Whoever starts at u gets to one of the ends: no set of URIs without one keeps
\* the visitor, with redirects that stop in it or turn in a circle.
Reaches(u, ends) ==
  \A S \in SUBSET Uris : u \in S =>
    \E x \in S : x \in ends \/ (Followed(x) /\ Target(x) \notin S)

-----------------------------------------------------------------------------
(* Correctness *)

TypeOK ==
  /\ pc \in [Requests -> {"idle", "meta", "stat", "statOld", "rename", "sync", "unmove", "lock",
                          "load", "file", "db", "restore", "unmeta", "check", "write", "read", "save", "done"}]
  /\ cur \in [Requests -> Uris \cup {None}] /\ new \in [Requests -> Uris \cup {None}]
  /\ way \in [Requests -> {"there", "back"}]
  /\ base \in [Requests -> Uris \cup Requests \cup {None}]
  /\ prev \in [Requests -> Redirects \cup {None}]
  /\ reply \in [Requests -> {"none", "ok", "failed", "conflict"}]
  /\ page \in [Uris -> Uris \cup Requests \cup {None}]
  /\ meta \in [Uris -> Uris \cup Requests \cup {None}]
  /\ file \in Redirects /\ table \in Redirects
  /\ lock \in Requests \cup {None} /\ torn \subseteq Uris
  /\ hurt \in [Requests -> 0..scene.faults] /\ scene \in Scenes /\ was \subseteq Uris

\* Whenever the lock is free, the redirect of a URI is in both stores or in
\* neither, whoever else moves what.  Three failures leave it in doubt, until
\* the page is moved from there with success: a directory sync that fails after
\* the file was replaced, a restoration of the file that fails, and a commit
\* that is reported as failed although it was not.
StoresAgree == DBConfigured /\ lock = None => \A u \in Uris \ torn : file[u] = table[u]

\* Requests that do not overlap.
Alone == scene.concurrent = 1

\* Requests that do not overlap, move pages that are there, and meet one failure
\* each at most: a second one can prevent the undoing of what the first began.
Orderly == Alone /\ ~scene.ghosts /\ scene.faults <= 1

\* "v1 no-404 behavior": a URI that ever had a page has one, or redirects to
\* the page that moved, over as many moves as there were; it is a dead link only
\* if its page, or a page on the way, was moved to a URI handle leads nobody to.
NoDeadLinks ==
  Orderly /\ Active = {} =>
    \A u \in was : Reaches(u, {x \in Uris : page[x] # None \/ Refused(x)})

\* "Preserves previous content for rollback": a body only disappears from the
\* site when an edit replaces it that keeps it as its BeforeContent; again for
\* requests that do not overlap.
BodiesKept ==
  [][Alone => \A u \in Uris : page[u] # None =>
       \/ \E v \in Uris : page'[v] = page[u]
       \/ \E r \in Requests : pc[r] = "save" /\ cur[r] = u /\ base[r] = page[u]]_vars

\* "Invalid metadata returns validation errors without modifying files": a
\* move to a URI that has a page leaves that page's sidecar alone.
ConflictChangesNothing ==
  [][\A r \in Requests : pc'[r] = "done" /\ pc[r] # "done" /\ reply'[r] = "conflict"
       => meta'[new[r]] = found[r]]_vars

\* Every request is answered, and redirectFileLock is let go.
Answered == []<>(Active = {})
=============================================================================
