------------------------------ MODULE PageSave ------------------------------
(***************************************************************************)
(* saveEditedFile and its two callers that decide what to write: a page    *)
(* edit (POST ?edit, and a grabbed import, which saves the same way) and   *)
(* the restore of a numbered revision (POST ?revisions).                   *)
(*                                                                         *)
(* A save holds the lock of the page's revision directory while it reads   *)
(* the page, numbers and writes the revision record, replaces the page,    *)
(* and copies the revision to the database.  Each system call that other   *)
(* requests, or a crash, can observe is one action.  Files are replaced by *)
(* atomicWriteFile: a rename, visible at once, and a sync of the directory *)
(* that makes it survive a power loss; *Disk variables hold what would.    *)
(*                                                                         *)
(* Request r writes at most one revision file, so r names the file; its    *)
(* JSON record is {Revision: rev[r], RequestURI: of[r], BeforeContent:     *)
(* base[r], AfterContent: want[r]}, and file[r] says what is on disk.      *)
(***************************************************************************)
EXTENDS Naturals, FiniteSets

CONSTANTS
  Requests,      \* the HTTP requests, each served by a goroutine of its own
  Pages,         \* canonical request URIs
  Dirs, DirOf,   \* DirOf[p]: the revision directory of p (not injective!)
  Contents,      \* page bodies
  Blank,         \* the body of a page that has no file
  Site,          \* Site[p]: the body of p when the server is first started
  None,
  DBConfigured,  \* dbPostRevisionConfigured()
  Faults,        \* the steps whose system calls may fail
  MaxKills,      \* bound: kills of the process
  MaxPowerLosses \* bound: power losses

Steps == {"load", "reserve", "record", "syncRecord", "remove", "page", "syncPage", "db", "mark"}

FileStates == {"absent", "reserved", "written", "marked"}

ASSUME PageSaveAssumption ==
  /\ DirOf \in [Pages -> Dirs]
  /\ Site \in [Pages -> Contents \cup {Blank}]
  /\ None \notin Contents \cup {Blank} \cup Dirs \cup Pages
  /\ Blank \notin Contents
  /\ DBConfigured \in BOOLEAN
  /\ Faults \subseteq Steps
  /\ MaxKills \in Nat /\ MaxPowerLosses \in Nat

VARIABLES
  pc,        \* pc[r]: the next step of r's handler
  of,        \* of[r]: the page r is about
  ask,       \* ask[r]: the revision number r wants restored, 0 for an edit
  want,      \* want[r]: the body to save, None until findRevision has it
  todo,      \* todo[r]: the directory entries findRevision has yet to read
  base,      \* base[r]: oldContent
  rev,       \* rev[r]: the revision number allocated, 0 before
  reply,     \* reply[r]: the answer, "none" before there is one
  inside,    \* inside[r]: the revision directory whose lock r holds
  file, fileDisk,  \* the revision file of r: visible, and durable
  page, pageDisk,  \* the page files: visible, and durable
  post,      \* post[r]: r's revision in the database: "none", a committed
             \* "row", or "lost" when neither it nor the warning could be stored
  kills, losses

local == <<of, ask, want, todo, base, rev>>
disk  == <<file, fileDisk, page, pageDisk, post>>
downs == <<kills, losses>>
vars  == <<pc, local, reply, inside, disk, downs>>

Lock == INSTANCE Mutex WITH Clients <- Requests, Keys <- Dirs

Dir(r) == DirOf[of[r]]

\* The entries of a revision directory, and those that parse as records.  An
\* empty reservation is an entry that does not parse.
Among(d)   == {r \in Requests : of[r] # None /\ Dir(r) = d}
Entries(d) == {r \in Among(d) : file[r] # "absent"}
Records(d) == {r \in Among(d) : file[r] \in {"written", "marked"}}

Goto(r, from, to) == pc[r] = from /\ pc' = [pc EXCEPT ![r] = to]

\* An error return of saveEditedFile: the deferred unlock is still to run.
Fail(r, step) == /\ step \in Faults
                 /\ Goto(r, step, "unlock")
                 /\ reply' = [reply EXCEPT ![r] = "failed"]
-----------------------------------------------------------------------------
Init ==
  /\ pc = [r \in Requests |-> "idle"]
  /\ of = [r \in Requests |-> None]
  /\ ask = [r \in Requests |-> 0]
  /\ want = [r \in Requests |-> None]
  /\ todo = [r \in Requests |-> {}]
  /\ base = [r \in Requests |-> None]
  /\ rev = [r \in Requests |-> 0]
  /\ reply = [r \in Requests |-> "none"]
  /\ Lock!Init
  /\ file = [r \in Requests |-> "absent"] /\ fileDisk = file
  /\ page = Site /\ pageDisk = Site
  /\ post = [r \in Requests |-> "none"]
  /\ kills = 0 /\ losses = 0

\* POST ?edit, authenticated and with a CSRF token; or a grabbed page.
Edit(r, p, c) ==
  /\ Goto(r, "idle", "lock")
  /\ of' = [of EXCEPT ![r] = p]
  /\ want' = [want EXCEPT ![r] = c]
  /\ UNCHANGED <<ask, todo, base, rev, reply, inside, disk, downs>>

\* POST ?revisions: findRevision lists the directory ...
Restore(r, p, n) ==
  /\ Goto(r, "idle", "find")
  /\ of' = [of EXCEPT ![r] = p]
  /\ ask' = [ask EXCEPT ![r] = n]
  /\ todo' = [todo EXCEPT ![r] = Entries(DirOf[p])]
  /\ UNCHANGED <<want, base, rev, reply, inside, disk, downs>>

\* ... reads its entries in the order of their names, without the lock ...
ReadEntry(r, x) ==
  /\ pc[r] = "find" /\ x \in todo[r]
  /\ \A y \in todo[r] : rev[x] <= rev[y]
  /\ file[x] \notin {"absent", "reserved"}
  /\ todo' = [todo EXCEPT ![r] = @ \ {x}]
  /\ want' = [want EXCEPT ![r] = IF rev[x] = ask[r] /\ @ = None THEN want[x] ELSE @]
  /\ UNCHANGED <<pc, of, ask, base, rev, reply, inside, disk, downs>>

\* ... and saves the first match,
Found(r) ==
  /\ Goto(r, "find", "lock")
  /\ todo[r] = {} /\ want[r] # None
  /\ UNCHANGED <<local, reply, inside, disk, downs>>

\* Mutant: the error is dropped and the zero record is restored.
NotFound_Restored(r) ==
  /\ Goto(r, "find", "lock")
  /\ todo[r] = {} /\ want[r] = None
  /\ UNCHANGED <<local, reply, inside, disk, downs>>

\* or answers 404: no match, or an entry that cannot be read or parsed.
NotFound(r) ==
  /\ Goto(r, "find", "done")
  /\ \/ todo[r] = {} /\ want[r] = None
     \/ \E x \in todo[r] : /\ \A y \in todo[r] : rev[x] <= rev[y]
                           /\ file[x] \in {"absent", "reserved"}
  /\ reply' = [reply EXCEPT ![r] = "notfound"]
  /\ UNCHANGED <<local, inside, disk, downs>>

\* Mutant: no lock.
LockDir_Open(r) ==
  /\ Goto(r, "lock", "load")
  /\ inside' = [inside EXCEPT ![r] = Dir(r)]
  /\ UNCHANGED <<local, reply, disk, downs>>

LockDir(r) ==
  /\ Goto(r, "lock", "load")
  /\ Lock!Acquire(r, Dir(r))
  /\ UNCHANGED <<local, reply, disk, downs>>

\* oldContent, and nextRevision: one more than the highest record.
Load(r) ==
  /\ Goto(r, "load", "reserve")
  /\ Entries(Dir(r)) = Records(Dir(r))
  /\ base' = [base EXCEPT ![r] = page[of[r]]]
  /\ \E max \in {0} \cup {rev[x] : x \in Records(Dir(r))} :
       /\ \A x \in Records(Dir(r)) : rev[x] <= max
       /\ rev' = [rev EXCEPT ![r] = max + 1]
  /\ UNCHANGED <<of, ask, want, todo, reply, inside, disk, downs>>

\* The page or an entry cannot be read, or an entry does not parse.
LoadFails(r) ==
  /\ Goto(r, "load", "unlock")
  /\ "load" \in Faults \/ Entries(Dir(r)) # Records(Dir(r))
  /\ reply' = [reply EXCEPT ![r] = "failed"]
  /\ UNCHANGED <<local, inside, disk, downs>>

\* writeRevision: an empty file reserves the name (O_EXCL) ...
Reserve(r) ==
  /\ Goto(r, "reserve", "record")
  /\ file' = [file EXCEPT ![r] = "reserved"]
  /\ UNCHANGED <<local, reply, inside, fileDisk, page, pageDisk, post, downs>>

ReserveFails(r) == /\ Fail(r, "reserve")
                   /\ UNCHANGED <<local, inside, disk, downs>>

\* Mutant: the record is renamed into place but never synced.
WriteRecord_Unsynced(r) ==
  /\ Goto(r, "record", "page")
  /\ file' = [file EXCEPT ![r] = "written"]
  /\ UNCHANGED <<local, reply, inside, fileDisk, page, pageDisk, post, downs>>

\* ... the record is renamed over it ...
WriteRecord(r) ==
  /\ Goto(r, "record", "syncRecord")
  /\ file' = [file EXCEPT ![r] = "written"]
  /\ UNCHANGED <<local, reply, inside, fileDisk, page, pageDisk, post, downs>>

\* ... and the directory is synced, with every entry in it.
SyncRecord(r) ==
  /\ Goto(r, "syncRecord", "page")
  /\ fileDisk' = [x \in Requests |-> IF x \in Among(Dir(r)) THEN file[x] ELSE fileDisk[x]]
  /\ UNCHANGED <<local, reply, inside, file, page, pageDisk, post, downs>>

\* Whichever of the two fails, the reservation or the record is removed, if that
\* can be done: the error of os.Remove is dropped.
RecordFails(r) ==
  /\ Fail(r, "record") \/ Fail(r, "syncRecord")
  /\ \/ file' = [file EXCEPT ![r] = "absent"]
     \/ "remove" \in Faults /\ UNCHANGED file
  /\ UNCHANGED <<local, inside, fileDisk, page, pageDisk, post, downs>>

\* Mutant: the page is not synced.
ReplacePage_Unsynced(r) ==
  /\ Goto(r, "page", "db")
  /\ page' = [page EXCEPT ![of[r]] = want[r]]
  /\ UNCHANGED <<local, reply, inside, file, fileDisk, pageDisk, post, downs>>

\* atomicWriteFile(fileName, newContent): the rename ...
ReplacePage(r) ==
  /\ Goto(r, "page", "syncPage")
  /\ page' = [page EXCEPT ![of[r]] = want[r]]
  /\ UNCHANGED <<local, reply, inside, file, fileDisk, pageDisk, post, downs>>

ReplaceFails(r) == /\ Fail(r, "page")
                   /\ UNCHANGED <<local, inside, disk, downs>>

\* ... and the sync, whose error is returned although the rename is done.
SyncPage(r) ==
  /\ Goto(r, "syncPage", "db")
  /\ pageDisk' = [pageDisk EXCEPT ![of[r]] = page[of[r]]]
  /\ UNCHANGED <<local, reply, inside, file, fileDisk, page, post, downs>>

SyncPageFails(r) == /\ Fail(r, "syncPage")
                    /\ UNCHANGED <<local, inside, disk, downs>>

\* saveDBPostRevision: one transaction; nothing to do without a database.
SaveDB(r) ==
  /\ Goto(r, "db", "unlock")
  /\ post' = [post EXCEPT ![r] = IF DBConfigured THEN "row" ELSE @]
  /\ reply' = [reply EXCEPT ![r] = "ok"]
  /\ UNCHANGED <<local, inside, file, fileDisk, page, pageDisk, downs>>

\* Mutants: a database error is ignored, or fails a save already done.
SaveDBFails_Ignored(r) ==
  /\ DBConfigured /\ "db" \in Faults
  /\ Goto(r, "db", "unlock")
  /\ reply' = [reply EXCEPT ![r] = "ok"]
  /\ UNCHANGED <<local, inside, disk, downs>>

SaveDBFails_FailsSave(r) ==
  /\ DBConfigured
  /\ Fail(r, "db")
  /\ UNCHANGED <<local, inside, disk, downs>>

\* Its failure does not fail the save ...
SaveDBFails(r) ==
  /\ DBConfigured /\ "db" \in Faults
  /\ Goto(r, "db", "mark")
  /\ UNCHANGED <<local, reply, inside, disk, downs>>

\* ... but is marked in the record, which is replaced once more ...
Mark(r) ==
  /\ Goto(r, "mark", "unlock")
  /\ file' = [file EXCEPT ![r] = "marked"]
  /\ \/ fileDisk' = [fileDisk EXCEPT ![r] = "marked"] /\ UNCHANGED post
     \/ "mark" \in Faults /\ UNCHANGED fileDisk /\ post' = [post EXCEPT ![r] = "lost"]
  /\ reply' = [reply EXCEPT ![r] = "ok"]
  /\ UNCHANGED <<local, inside, page, pageDisk, downs>>

\* ... unless that fails too: both failures are only logged.
MarkFails(r) ==
  /\ "mark" \in Faults
  /\ Goto(r, "mark", "unlock")
  /\ post' = [post EXCEPT ![r] = "lost"]
  /\ reply' = [reply EXCEPT ![r] = "ok"]
  /\ UNCHANGED <<local, inside, file, fileDisk, page, pageDisk, downs>>

Unlock(r) ==
  /\ Goto(r, "unlock", "done")
  /\ Lock!Release(r)
  /\ UNCHANGED <<local, reply, disk, downs>>

\* What a restart finds of the requests in flight: nothing.
Abandon ==
  /\ pc' = [r \in Requests |-> IF pc[r] \in {"idle", "done"} THEN pc[r] ELSE "killed"]
  /\ inside' = [r \in Requests |-> None]
  /\ UNCHANGED <<local, reply, post>>

\* The process dies and is restarted; the files are as they were.
Kill ==
  /\ kills < MaxKills /\ kills' = kills + 1
  /\ Abandon
  /\ UNCHANGED <<file, fileDisk, page, pageDisk, losses>>

\* The machine loses power: a rename that was not synced may be undone, for a
\* record as far back as its reservation, independently for every file.
Survivors(r) ==
  {file[r], fileDisk[r]} \cup
  (IF file[r] = "written" /\ fileDisk[r] = "absent" THEN {"reserved"} ELSE {})

PowerLoss ==
  /\ losses < MaxPowerLosses /\ losses' = losses + 1
  /\ Abandon
  /\ file' \in {f \in [Requests -> FileStates] : \A r \in Requests : f[r] \in Survivors(r)}
  /\ fileDisk' = file'
  /\ page' \in {q \in [Pages -> Contents \cup {Blank}] :
                  \A p \in Pages : q[p] \in {page[p], pageDisk[p]}}
  /\ pageDisk' = page'
  /\ UNCHANGED kills

Arrive(r) == \E p \in Pages : \/ \E c \in Contents : Edit(r, p, c)
                              \/ \E n \in 1..Cardinality(Requests) : Restore(r, p, n)

\* findRevision, and what saveEditedFile does once it holds the lock.
Find(r) == (\E x \in Requests : ReadEntry(r, x)) \/ Found(r) \/ NotFound(r)
Save(r) == \/ Load(r) \/ LoadFails(r)
           \/ Reserve(r) \/ ReserveFails(r)
           \/ WriteRecord(r) \/ SyncRecord(r) \/ RecordFails(r)
           \/ ReplacePage(r) \/ ReplaceFails(r)
           \/ SyncPage(r) \/ SyncPageFails(r)
           \/ SaveDB(r) \/ SaveDBFails(r) \/ Mark(r) \/ MarkFails(r)
           \/ Unlock(r)

Next == \/ \E r \in Requests : Arrive(r) \/ Find(r) \/ LockDir(r) \/ Save(r)
        \/ Kill \/ PowerLoss

Spec == Init /\ [][Next]_vars
-----------------------------------------------------------------------------
(* Correctness *)

TypeOK ==
  /\ pc \in [Requests -> (Steps \ {"remove"}) \cup {"idle", "find", "lock", "unlock", "done", "killed"}]
  /\ of \in [Requests -> Pages \cup {None}]
  /\ ask \in [Requests -> Nat]
  /\ want \in [Requests -> Contents \cup {Blank, None}]
  /\ todo \in [Requests -> SUBSET Requests]
  /\ base \in [Requests -> Contents \cup {Blank, None}]
  /\ rev \in [Requests -> Nat]
  /\ reply \in [Requests -> {"none", "ok", "failed", "notfound"}]
  /\ inside \in [Requests -> Dirs \cup {None}]
  /\ file \in [Requests -> FileStates] /\ fileDisk \in [Requests -> FileStates]
  /\ page \in [Pages -> Contents \cup {Blank}]
  /\ pageDisk \in [Pages -> Contents \cup {Blank}]
  /\ post \in [Requests -> {"none", "row", "lost"}]
  /\ kills \in 0..MaxKills /\ losses \in 0..MaxPowerLosses

\* "Clear ordering" of concurrent edits: no two records of a directory carry
\* one number, whatever saves fail, crash or overlap.
UniqueNumbers ==
  \A d \in Dirs : \A x, y \in Records(d) : rev[x] = rev[y] => x = y

\* The record is written ahead of the page: whatever is in a page file, now or
\* after a power loss, was there from the start or is the AfterContent of a
\* record of that page.
WriteAhead ==
  \A p \in Pages :
    /\ \/ page[p] = Site[p]
       \/ \E r \in Records(DirOf[p]) : of[r] = p /\ want[r] = page[p]
    /\ \/ pageDisk[p] = Site[p]
       \/ \E r \in Requests : /\ of[r] = p /\ want[r] = pageDisk[p]
                              /\ fileDisk[r] \in {"written", "marked"}

\* "Preserves previous content for rollback": what a save overwrites is the
\* BeforeContent of its record, never the work of a save it did not see.
ReplacesWhatItRead ==
  \A p \in Pages : page'[p] # page[p] /\ losses' = losses =>
    \E r \in Records(DirOf[p]) : of[r] = p /\ base[r] = page[p] /\ want[r] = page'[p]

NoLostUpdate == [][ReplacesWhatItRead]_vars

\* A save answered with success is on disk for good: its record exists, and
\* until a newer record of the page exists, the page is what was saved.
AcknowledgedSurvives ==
  \A r \in Requests : reply[r] = "ok" =>
    /\ r \in Records(Dir(r))
    /\ (\A x \in Records(Dir(r)) : of[x] = of[r] => rev[x] <= rev[r])
         => page[of[r]] = want[r] /\ pageDisk[of[r]] = want[r]

\* "Failed saves must not corrupt the existing file": when the error is
\* returned, the page is still what the save found.  The one exception is the
\* error of a directory sync, which comes after the replacement.
FailsWithPageAsFound ==
  \A r \in Requests : /\ reply'[r] = "failed" /\ reply[r] = "none"
                      /\ base[r] # None /\ pc[r] # "syncPage"
    => page'[of[r]] = base[r]

FailedSaveLeavesPage == [][FailsWithPageAsFound]_vars

\* "Saves either complete fully or report a durable error": with a database, a
\* save answered with success is in it, or its record durably says that it is
\* not, unless writing that warning failed as well.
CompleteOrMarked ==
  \A r \in Requests : reply[r] = "ok" /\ DBConfigured =>
    post[r] # "none" \/ (file[r] = "marked" /\ fileDisk[r] = "marked")

\* "Revision list is scoped by request URI": what a restore brings back was
\* saved for that page, under the number the operator picked.
RestoresOwnPage ==
  \A r \in Requests : ask[r] # 0 /\ want[r] # None =>
    \E x \in Requests : of[x] = of[r] /\ rev[x] = ask[r] /\ want[x] = want[r]

\* A restart finds every entry of the revision history readable.
HistoryReadable ==
  \A r \in Requests : pc[r] = "killed" => file[r] # "reserved"

\* Whatever way a request ends, it does not leave its directory locked: every
\* later save of the page would wait for ever.
NoLockLeftBehind ==
  \A r \in Requests : pc[r] \in {"done", "killed"} => inside[r] = None
=============================================================================
