# A verification development for SiteBrush v2

SiteBrush is a web server through which an operator edits a static site in
place: pages are files under `WEB_FILE_PATH`, their history and the server's
own state are JSON files under the archive root, and a database (SQLite,
PostgreSQL or genji) keeps a copy of the revisions, the redirects and the
media.  Every HTTP request is served by a goroutine of its own; the only
synchronisation is two tables of keyed locks (around a page save, and around
the numbering of a Post row), one mutex each around the redirects file, the
user store and the session map, and the transactions of the database.  What can
go wrong is therefore an interleaving of two requests, a step of a multi-step
update that fails, or a crash between two steps.  This directory models those
parts in TLA+, checks them with TLC on small instances and proves their safety
properties with TLAPS for every instance.

"functions.go" without a path is `src/pkg/webserver/functions.go`.
`PROJECT.json` maps every definition to the lines it models and lists the
hazards, runs, mutants and theorems.

1. Inventory  2. Modules  3. Runs, bounds, fairness  4. Proofs
5. Findings and observations  6. What is not modelled  7. Plan

## 1. Inventory

How the parts interact: `siteService.handle` dispatches on the single query
key; every handler that changes something first asks `requireAuth` and
`validCSRF`, then calls one of the services below, which share the file system
(web root, archive root) and the database, never messages.  Only the save queue
has a channel.  Callbacks are limited to the unlock closures.

| Component | State | Operations | Hard behaviour | What makes it correct | Module |
|---|---|---|---|---|---|
| Lock tables (functions.go 132-167, database/functions.go 18-55) | map key to lock and reference count | lock, unlock | entry deleted while somebody queues | exclusion, exact counts, no starvation | KeyedMutex |
| Post rows and schema (database/functions.go 146-205, 429-435, 665-747) | Post table, unique index, DBWatchDog | connect, number with MAX+1 in a transaction under a lock, insert | two processes, or queue and save, at once; two first connections; databases older than the index | numbers 1, 2, 3 in commit order, truthful answers, no deadlock | Posts |
| Page save and revisions (functions.go 400-585, 599-661, 2007-2154) | page files, revision directory, Post rows | edit, restore a revision, list | two saves, failures and crashes between record, page and row; listing without the lock | unique numbers, record ahead of page, no lost update, acknowledged is durable | PageSave |
| Save queue (database/database.go) | channel, respawn token, worker, watchdog | send, receive, save, requeue, respawn | full channel, worker that dies, error after commit | nothing lost or saved twice, order, progress | SaveQueue |
| Properties, move, redirects, subpages (functions.go 669-771, 1377-1679, 3157-3197; database/functions.go 549-663) | sidecar metadata, pages, redirects.json, Redirect table | updateProperties, createSubpage, serving a redirect | five places changed one after the other, each with a rollback, and only one lock | no dead link, no body lost, both stores agree | MovePage |
| Freeze and publication (functions.go 792-820, 2168-2392) | published directory, state file | freeze, unfreeze, visitor's choice of file | copy of a changing tree, exchange by two renames | visitors see what was published, failure changes nothing | Freeze |
| Backup and restore (functions.go 828-866, 2394-3100) | zip archives, Backup rows, the tree | create, restore with rollback | walk of a changing tree, partial restore | faithful archive, failed restore leaves no trace | Backup |
| Sessions and persistent users (functions.go 189-384, 874-1002; auth_store.go) | session map, JSON store of users, groups and recovery tokens | join, login, logout, change of the password, issue and use of a token | store read without the mutex, whole-store saves beside each other, expiry, restarts | one first administrator, passwords and tokens are final, an ended session stays ended | Auth |
| Media upload (upload.go, database/media.go) | media files named by their hash, sidecars, Media rows | write, describe, clean up | clean-up after a failure while another upload of the same content succeeds | an acknowledged upload keeps its file | Upload |
| Grab (grab.go) | none of its own | fetch, rewrite, save | ends in a page save | that of the page save | - |
| Paths and hosts (functions.go 1004-1370) | none | confine a path to its root | pure | result is inside the root | - |
| Migration (migration/migration.go) | none | plan from legacy rows, a dry run | pure | every legacy row accounted for | - |
| Dispatch, health (functions.go 1728-1984) | none | parse the query, choose the file, probe directories | stale choice of file | page before redirect, published file while frozen | in Freeze, MovePage |
| Error log, configuration, start-up, GUI, data types | log channel | print | none | - | - |

## 2. Modules

**Mutex, KeyedMutex.**  `Mutex` is what callers of
`keyedMutex.lock` (and its copy in the database package) rely on: one client at
a time inside the section of a key.  `KeyedMutex` is the code.  What runs
between `k.mu.Lock()` and `k.mu.Unlock()` touches memory only and is one
action: `Join` (the key is in the table), `Create` (it is not: a heap cell
nobody points to becomes its lock), `Leave` (the reference is dropped and, with
the last, the entry).  `Enter` is the return of `lock.mu.Lock()`, `Unlock` the
first line of the returned closure.  It implements `Mutex` under a refinement
mapping; PageSave uses `Mutex` by INSTANCE, Posts extends `KeyedMutex` itself,
and the proofs about both are in PostsProofs.

**Posts, RevisionTable, MCPosts, PostsProofs.**  `SavePostRevisionFromConfig`: a
new connection with `createTables` (the DBWatchDog row, the unique index), then
`savePostDataInDB` with its lock, its transaction and its two deferred calls. A
lock key is a process and a page, since the table of locks lives in one process.
The two engines are modelled by what the code asks of them: sqlite refuses a
second writer and makes COMMIT wait for readers, postgres makes the INSERT of a
number wait for the transaction that has it.  `RevisionTable` is the table as
its callers see it: one whole revision at a time, each with the next number of
its page, and answers that agree with it.  Posts implements it, with the answers
read off the callers' control state; PageSave's `SaveDB` and `SaveDBFails` are
its steps.

**PageSave, PageHistory, MCPageSave, PageSaveProofs.**  `saveEditedFile`, with
its two callers that decide what to write: an edit (a grabbed page is saved the
same way) and the restore of a revision.  Each operation another request or a
crash can observe is an action, in the code's order: take the lock of the
revision directory, read the page and number the revision (one action:
everything it reads is written under that lock only), reserve the record's file
with O_EXCL, rename the record over it, sync, rename the page, sync, insert the
row, or mark the record when that fails, unlock.  The reader of a restore takes
no lock and reads one entry at a time.  `file`/`page` are what the process sees,
`fileDisk`/`pageDisk` what a power loss leaves: an unsynced rename may be
undone, independently of every other; a removed reservation does not come back.
A request writes at most one revision file, so the request names the file.  The
directory of a page is a constant function and need not be injective: that is
`revisionDir`, which replaces `/` by `_`.  `PageHistory` is what an operator
sees: pages, what a power loss would leave of them, and a history that only
grows; a save changes a page and enters its history in one step.  The history is
the durable records, but for the one of a save that is about to replace the
page; there is no lock, no file and no step between.

**SaveQueue, Delivery, SaveQueueProofs.**  The buffered channel, the worker that
`Run` replaces through the one-token channel `respawnLock`, requeueing with and
without room (a parked goroutine), the watchdog, and an insert that fails before
or after its commit.  Whoever sends posts is external.  `Delivery` is the queue
as they see it, a set of posts that wait and the list of those saved; the posts
in the channel, parked in a goroutine or in a worker's hand are the ones that
wait.

**MovePage, MovedSite, MCMovePage, MovePageProofs.**  `updateProperties` as the
sequence of its effects: sidecar, `renameStaticFile` (stat, rename, sync, and
undoing the rename), `saveRedirect` under `redirectFileLock` (load, write
redirects.json, table, restoring the file), and what each failure undoes;
`createSubpage`; and the edit of PageSave reduced to its read and its write.
`Reaches` is how `handle` and the visitor's browser follow redirects, without
recursion: no set of URIs without a page keeps whoever starts in it.
`validInternalRedirectTarget` is in it: `Followed` is a redirect that is let
through, `Refused` a URI whose redirect is answered with a 404.  Which URIs the
function turns down is a matter of their text, so a scene says which (`odd`).  A
commit may be reported as failed after it was done, and `torn` remembers the
URIs whose redirect a failure left in doubt.  Each URI has one file and one
sidecar, and there is one domain.  A behaviour keeps to one of several *scenes*
(how many requests, how many at once, how many failures, which kinds, whether
missing pages are moved), so that one run can look at long sequences and at
overlaps without their product.  `MovedSite` is what an operator sees of moves
that do not overlap: the page and its redirect change in one step or not at all.
A page that is between its two URIs counts where it came from, the new URI
counts as free, and a redirect counts where there is no page.

**Freeze, MCFreeze, FreezeProofs.**  `publishSnapshot` step by step (copy file
by file with the gap between Lstat and open, drop the old directory, the two
renames, sync, clean), the state file, edits meanwhile, and a visitor who reads
the state and then opens the file it chose.  A content is the number of its
edit, so "at least as new" is a comparison.

**Backup, MCBackup, BackupProofs.**  `createBackup` as a walk of a tree that
changes (a directory is listed at once, its files are copied later), the
reserved name, the rename over it and the row; `restoreBackup` as validation,
capture of every target, writes, and rollback on any failure.  Meanwhile a save
stages a temporary file and renames it, pages are moved between directories, and
somebody deletes a directory.

**Auth, Accounts, MCAuth, AuthProofs.**  The user store, which every change
loads, changes and replaces as a whole under `authStoreMu` (`Load`, `Write`,
`Sync`; a login does so for LastVisitTime), `hasPersistentUsers` which reads it
without, and the session map (`Open`, `Authorise`, `Destroy`, `Expire`).
`Accepts` and `Effect` say what each operation demands of the store and makes of
it.  A session is named by the request that opened it; a password hash is the
password, a CSRF token is the session's own.  `Accounts` is the store as a
sequence of whole operations, each on what the one before it left; it has no
mutex.

**Upload, MCUpload, UploadProofs.**  `saveUploadedMedia` for one stored name,
the hash of the content: look, rename, sync for the media file and for the
sidecar, the row, and `cleanupWrittenUpload` which spares what was there when
the upload looked.  A file is there or not.

Names ending in a suffix, such as `Lock_Open`, are mutants: plausible bugs
which the runs must detect, one per property.  They are not part of any
specification.

## 3. Runs, bounds, fairness

| Run | Instance | Shows |
|---|---|---|
| posts | 2 goroutines of one process and 1 of another (or 3 of one), one page or two, 3 lock cells, both engines, new, old and damaged databases, failing connections and commits | RefsCountUsers, ImplementsMutex (the lock), NumbersFollowCommits, ToldTruthfully, RefusedOnlyByOthers, EveryoneAnswered, no deadlock |
| save | 3 requests on one page, any failure, 1 kill, 1 power loss | UniqueNumbers, WriteAhead, AcknowledgedSurvives, NoLostUpdate, CompleteOrMarked, FailedSaveLeavesPage |
| save_queue | 3 posts, channel of 2, 2 workers, 2 errors | NoSilentLoss, SavedOnce, OrderKept, EventuallySaved, no deadlock |
| freeze_turns | 2 publications in turn, 1 visitor, 2 pages, 3 edits, 1 kill, all failures but one | NoDraftShown, FrozenIsPublished, PublishesWhatWasSaved, FailureChangesNothing |
| move | 3 moves or creations in turn, 1 failure each, 1 page at first (scene Turns); the same without failures, where no redirect leads to one of the URIs (scene Astray); 2 moves, creations or edits at once, 2 failures each, 2 pages (scene Pair); 3 URIs | NoDeadLinks, BodiesKept, StoresAgree, Answered |
| backup | 2 backups and 1 restore at once, 4 files, 3 changes of the tree, any failure | BackupIsFaithful, FailedRestoreLeavesNoTrace, RestoreBringsBack |
| auth | 3 requests of any kind, 2 passwords, the environment's among them, any failure, 1 kill, 1 power loss | FirstAdminStands, PasswordStands, TokenOnce, LoggedOutStaysOut |
| upload | 3 uploads of one content, 2 failures, 1 kill or power loss | AcknowledgedIsKept, RefusedLeavesNothing |
| save_collision, save_reservation, freeze_overtaken, move_conflict | small | the findings of section 5 |

Each passing run also checks the type invariant of its module, except posts,
where RefsCountUsers and the refinement take its place.

Why the bounds are enough to be interesting.  Three savers of a Post row are two
that share a lock and one that only shares the database.  Three saves are one
that is acknowledged, one that fails or is killed and one that meets what both
left.  A channel of two with three posts is full while the worker holds one.
Three URIs allow a move there, back and onwards, and three requests close a loop
of redirects.  Three edits put one before, one into and one after a copy. Three
changes of the tree are a replaced page (stage, rename) and one more: a page
that changes its directory behind the walk's back, or a lost directory in which
a page is put while it is being restored.  Three requests on the user store are
a join beside two logins, a change of the password inside a session beside
another login, a token that is issued and offered twice.  Three uploads are one
that is acknowledged, one that began before it and one that begins after.  Two
requests at once are allowed where the properties are about that, one
(`Concurrent = 1`, scene Turns) where the code makes no promise for two; section
5 says what happens then.  Symmetry is used for requests, archives' names and
the like, in runs without liveness only.

Exceptions, each described in section 5.  FailedSaveLeavesPage excepts the error
of the directory sync after the page's rename; CompleteOrMarked the error of the
warning marker.  freeze_turns leaves out the error of putting the old snapshot
back.  BodiesKept speaks of requests that do not overlap, and NoDeadLinks of
requests that, besides, move only pages that are there and meet one failure each
at most (`Orderly`), and excepts a URI whose page, or a page on the way, was
moved to where `handle` redirects nobody (`Refused`); StoresAgree excepts the
URIs whose last redirect a failure left in doubt, until the next successful move
from there (`torn`): an error of the directory sync after the file was replaced,
of putting the file back, or of a commit that was done.  AcknowledgedIsKept
names the failed uploads that may spoil it; RefusedLeavesNothing excepts errors
of stat, sync and removal, which the code does not undo, and a misreported
commit.  SavedOnce excepts the posts whose commit was misreported, OrderKept
those that were put back.  FrozenIsPublished excepts kills, and
FailureChangesNothing the failures after the exchange.

A run that may stop when every request has been answered says
`CHECK_DEADLOCK FALSE`.  posts and save_queue do not: in posts a goroutine that
has returned may stutter (`Ended`), and nobody else may be stuck.

Fairness.  posts: weak fairness of whatever a goroutine does next, because a
runnable goroutine is run and the database answers, and strong fairness of the
return of `lock.mu.Lock()`, because a waiter of Go's `sync.Mutex` that has
waited a millisecond is handed the lock (starvation mode).  save_queue: weak
fairness of the worker's steps, of `Run`'s loop and of a parked goroutine; the
database recovers, since errors are bounded.  move: weak fairness of every step
of a request that has arrived and strong fairness of the redirects' lock;
requests need not arrive.

## 4. Proofs

All are for any number of requests, goroutines, keys, pages, directories,
posts, uploads, failures, kills and power losses; the assumptions are the named
ASSUMEs of the modules, which say what the constants are and which values
differ from `None`.  None of the checked invariants is inductive by itself;
each module of proofs names the parts of one that is, and has one lemma or step
for each action that can disturb it.

`PostsProofs` begins with the lock: its invariant ties every pointer in use to
the table's entry and counts its users, which gives exclusion (`Exclusion`),
exact counts (`CountIsExact`) and `Refinement`: `Spec => Abstract!Spec`.  A step
of Posts is a step of KeyedMutex or leaves its variables alone (`UsesTheLock`),
so what holds of the lock holds in the composed system (`PostLocksAreCounted`,
`PostLocksExclude`).  The numbers need no lock: a page has the revisions
1..Total, whoever holds an uncommitted row has number Total + 1, and there is
one such at a time, by the engine or by the index (`RevisionsAreConsecutive`).
What the lock adds is that callers of one page in one process wait for each
other and never fail over each other (`RefusedByOthers`).  `CallersAreTold`
counts the rows of a caller.  Together: `RevisionsAreAtomic`, Posts implements
RevisionTable, where a commit is the abstract save and every other step, the
failing ones included, changes at most an answer.

`PageSaveProofs`: nine parts.  A request is inside its directory's lock exactly
from LockDir to Unlock (`LockHeld`); what it has decided and how far its file
has got follow from its step (`Decided`, `FileStage`); so between reading the
directory and being done with the page nobody else's record gets on disk, and
its number stays the highest (`FreshNumber`), whence numbers are unique
(`Numbered`); likewise the page is still what it read (`PageUnderLock`); a page
is only replaced by a body whose record is durable (`PagesBacked`); hence an
acknowledged save with no newer durable record of the page is what the page
holds (`Kept`).  Results: `Types`, `RecordsAreNumbered`, `PageIsRecorded`,
`UpdatesAreKept`, `AcknowledgedIsDurable`, `LocksAreReleased`, and, with one
more part each, `SaveIsCompleteOrMarked` and `FailuresLeaveThePage`.  Of the two
properties that the code violates (section 5) the proofs say where the limit is:
`OwnRevisions`, a restore brings back a revision of its own page if no two pages
share a directory; `FailuresKeepHistoryReadable`, without kills and power losses
no save meets a record it cannot read, whatever else fails, as long as a
reservation that became no record can be removed (`Undisturbed`); when it
cannot, the code goes on and the entry stays.  `SavesAreAtomic`: PageSave
implements PageHistory.  The rename of the page is the abstract save; a sync, a
kill or a loss of power may reveal records of saves that did not get so far; and
success is answered when the page, visible and durable, is what the newest entry
says.  It takes three more parts: a record that could still be undone is newer
than all that could not (`Ahead`), a save that has replaced the page has the
newest record until it unlocks (`StillNewest`), and a record says what it
replaced and is durable once its request is answered (`Recorded`).

`SaveQueueProofs`: a worker has a post exactly while it saves, so that receiving
never overwrites one (`NothingIsLost`); a post is in one place at a time unless
a commit was misreported (`NothingIsSavedTwice`); one worker at most is at work,
for it needs the token; and table, hand and channel, read in this order, keep
the order of the posts that were never put back (`OrderIsKept`).
`PostsAreDelivered`: SaveQueue implements Delivery; receiving, requeueing,
parking, dying and being replaced are stutters, for they only move a post
between channel, goroutine and hand, and a post that is sent is nowhere else
(`Placed`).

`FreezeProofs`: `DraftsStayHidden` with any overlap of publications and any
failure: whatever is in the two directories was published, and a visitor who
has seen a frozen site since it came has chosen the published one.  If
operators take turns (`Concurrent = 1`) and what was retired can be put back, a
publication has the directories to itself, they hold what its stage says, with
a way back, and nothing in them is older than what was answered for:
`SnapshotIsThere`, `SnapshotIsCurrent`, `FailuresAreUndone`.  Without the first
assumption `SnapshotIsCurrent` is false: that is the run freeze_overtaken.

`MovePageProofs`: `RedirectsAgree`, however requests overlap: who holds the lock
of the redirects knows what it has written over the file (`Written`), and that
what it read there before is what the table has (`Ledger`), but for the URIs
whose redirect a failure left in doubt. `NoBodyIsLost`, for requests that do not
overlap: each rename has a free target when it runs, also the one that undoes
another, and an edit still sees the page it has read (`Footing`).
`LinksResolve`, for requests that also move pages that are there and meet one
failure each at most (`Orderly`): a *trap* is a set of URIs without a page whose
redirects, if any, stay in it, and no URI that had a page is in one.  A redirect
that `handle` refuses counts here like any other, and is an end when somebody
meets it.  A page under way counts where it came from (`Stands`), so a redirect
is only changed at a URI where a page counts, and the one new redirect, at the
URI the page leaves for good, leads to where it now counts (`NoTrap`).
`OnCourse` says what a request knows at each of its steps: that the rename was
done, or undone, and which redirect it has put in which store.  From the same
invariant, `MovesAreAtomic`: MovePage implements MovedSite, and the step that
moves the page there is the commit of its redirect.

`AuthProofs`: whoever is between loading and syncing the store holds
authStoreMu, so what it writes is an effect of the store as it is; an effect
never takes away an administrator or a used token, and what was answered is on
disk (`FirstAdminIsForGood`, `PasswordIsForGood`, `TokenWorksOnce`); a session
that has ended is not valid, and only the request that opened it could make it
so (`LogoutIsFinal`).  `StoreIsAtomic`: Auth implements Accounts.

`UploadProofs`: an upload that began after another was acknowledged, and could
look, has seen the files and spares them; an upload that runs alone knows which
files are there (`UploadsAreKept`, `FailuresLeaveNothing`).

`BackupProofs`: a name that a backup has reserved is its own until it publishes
or gives it up, so that no archive is ever replaced (`Owned`, `Immutable`).  A
file that a walk has not copied is still to come, in a directory that it has to
list or in one listed, or was missing at some moment since the walk began; and
what it copied was there (`Covered`, `Faithful`).  A restore that nobody
disturbs (`Alone`) finds the tree as it was, changed exactly by the writes it
has done and the undoing it has left; hence an undo that runs to its end gives
back the files and the directories, and one that is not needed leaves what the
archive has (`Undoable`, `NoTrace`, `BringsBack`).

Each of the abstract specifications, RevisionTable, PageHistory, Delivery,
MovedSite and Accounts, has no step for what its implementation does between two
visible changes: the theorem says that this is invisible.  They are stated and
proved, not run; the properties of the runs are the ones in section 3, and the
lock's refinement of Mutex, which is both.

Only model-checked:

- liveness (`EveryoneAnswered`, `EventuallySaved`, `Answered`), which is out of
  the prover's reach;
- the four properties that the code violates (section 5), which hold of no
  larger instance either.

Every safety property of a passing run is proved.

## 5. Findings and observations

Runs that TLC must find violated, each against a sentence of
`docs/mvp-scope-and-contracts.md`:

- save_collision: `/a/b` and `/a_b` share a revision directory (functions.go
  2008), so a restore of one can bring back the other.
- save_reservation: a kill between the O_EXCL reservation (2049) and the record
  leaves an empty `.json`, after which the page's revisions can be neither
  listed nor restored and the page cannot be saved. A record that cannot be
  written leaves the same entry without a kill when its removal fails too: the
  error of `os.Remove` is ignored (2057, 2061).
- freeze_overtaken: of two publications at once the one that copied first may
  install last (2267); visitors then see the older site after both were
  answered.
- move_conflict: a move to a URI that has a page is refused only after that
  page's sidecar was overwritten (1490), and it is then removed.

Seen while modelling, and excepted from the properties as said above:

Pages and revisions
- The sync after the page's rename fails (575): the save is reported as failed
  and is not copied to the database, but the page is replaced. The same holds of
  the user store and of redirects.json: a failed sync is answered as a failure
  although the store has changed.
- The insert fails and so does the marker (481): both are only logged.
- `atomicWriteFile` syncs the directory of the file, but neither it nor
  `MkdirAll` syncs the parent of a directory that was just made (540).  The
  modules take the creation of a directory as durable; a file system that does
  no more than POSIX demands may lose, with its directory, the first revision of
  a page, the first page of a directory, the first user store or the first
  media.  WriteAhead, AcknowledgedSurvives, FirstAdminStands, PasswordStands,
  TokenOnce and AcknowledgedIsKept are to be read so.
- A restore or listing that meets another save's empty reservation (2104) fails
  although the revision exists.

Database
- Two first connections both find no DBWatchDog row (database/functions.go 161);
  the second one's insert meets the primary key and its save is refused.
- In a database older than the unique index, rows that share a number keep the
  index from being built (429), and every save is refused from then on.
- When `createTables` fails, the connection that was opened is not closed.
- When no driver could be opened, the worker's deferred `db.Close()` is called
  on a nil `*sql.DB` (database.go 46): it panics, and with it the process.
- A post that is put back after an error comes after posts sent later, and takes
  a higher revision number (database.go 147); one whose commit was done, though
  reported as failed, is inserted twice (141).
- Redirect rows are deleted and inserted without an index that would keep two
  processes from inserting one each (603); the lock is one process's.
- Nothing drains or persists the save queue (database.go 27): a restart loses
  what is in it.

Freeze
- Between the two renames of a publication (2264-2267) a frozen site shows 404s;
  a kill there leaves it so until the next freeze.
- A state file that cannot be read counts as not frozen (2196).
- An error after the exchange (2274), or of the state file, is answered as a
  failed freeze although visitors see the new snapshot.

Moves
- A move of a URI without a page still saves a redirect (1548): two make a loop.
- A move to a URI between an edit's read and write there loses the moved body
  (1556); a kill between rename and redirect (1513) leaves a dead link.
- A move to `/a b.html` is accepted, carried out and answered with success, but
  `validInternalRedirectTarget` (1775) turns its redirect down: the old URI is a
  404 from then on.  `docs/mvp-scope-and-contracts.md` says (line 44) that an
  MVP release "must avoid creating broken links during its own
  edit/save/navigation actions".  Which other URIs it concerns is up to the text
  of the URI; one with a `?`, a `#` or an escape, besides, a browser does not
  read back as the path that was moved to.
- The commit of a redirect is reported as failed after it was done
  (database/functions.go 659): redirects.json is put back and the page moved
  back, but the row stays.  The page hides it until it is moved again, and a
  successful move replaces it.
- NoDeadLinks is about the site itself.  What a visitor of a frozen site finds
  is in Freeze, which knows of no redirects.
- A Post row, which an edit writes without metadata, hides the sidecar (1425).

Backup
- A restore takes no lock: its rollback overwrites what was saved meanwhile
  (2789), and a kill leaves it half done (2739).
- A backup may miss a page that is moved during the walk from a directory not
  yet listed to one that has been: it is in neither.  BackupIsFaithful therefore
  speaks of each file by itself.

Users and sessions
- Sessions opened with an old password stay valid when it is changed
  (auth_store.go 186).
- A request that passed `requireAuth` before the logout (functions.go 256) goes
  on; LoggedOutStaysOut speaks of requests that arrive after it.
- When no random token can be made, a join has created the user although it is
  answered as a failure.

Upload
- An upload that fails removes files that it did not find when it looked, also
  if another upload of the same content found them, or wrote them, and was
  acknowledged since (upload.go 390).
- Any error of stat counts as absence (399): such an upload, if it fails later,
  removes files that were there.
- The sidecar that was there is overwritten with the metadata of an upload whose
  row is then refused; and a file whose sync failed stays without sidecar or
  row.

## 6. What is not modelled

Text and formats: HTML, JSON layout, zip encoding, names of files, titles.
Confinement of paths and rejection of symbolic links, except as a reason for
which an operation fails before it has done anything: pure functions on strings,
which table tests cover and a translation would only repeat.  The migration plan
is a dry run, a pure mapping from legacy rows to a list that nothing executes.
GET views, which only read.  SQL beyond the order of statements and what a
transaction promises; the seeding of templates, which is a list of idempotent
statements; the engine genji.  Hashing of passwords and comparison of tokens are
equalities.  The grab's fetching and rewriting, the error log, configuration,
start-up and the GUI variant are I/O.  A failed rollback is a step of MovePage,
Upload and Backup, but what a second failure leaves is not claimed to be
anything.  Kills are modelled for page saves, publications, the user store and
uploads, power losses for all of these but publications.

## 7. Plan

Done, in this order: KeyedMutex, PageSave, SaveQueue, Freeze, MovePage, Backup;
then Posts (with the lock table it uses), Auth, Upload; the proofs of all of
them; the abstract specifications of Posts, PageSave, SaveQueue, MovePage and
Auth.  What is left:

1. A composition of PageHistory with MovedSite, where an edit and a move of one
   page meet: section 5 says what is lost today, the composition would say what
   a lock over both would have to cover.
2. An abstract site for Freeze, where a publication is one step, and one for
   Upload, where an upload is.
3. Posts for genji, which gets no unique index (database/functions.go 430):
   there the numbers rest on the lock and on the engine's transactions alone.
