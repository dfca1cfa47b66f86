------------------------------- MODULE Freeze -------------------------------
(***************************************************************************)
(* POST ?freeze and ?unfreeze, and what an anonymous visitor is shown.     *)
(*                                                                         *)
(* Both publish a snapshot first (publishSnapshot: copy the web root and   *)
(* the media to a temporary directory, move the published directory to     *)
(* published.old, the copy in its place, remove published.old) and write   *)
(* the state file second.  Nothing serialises two of them, or them and the *)
(* edits.  Visitors without a session are served from the published        *)
(* directory while the state file says frozen, from the web root else.     *)
(*                                                                         *)
(* A page's content is the number of the edit that wrote it: an edit       *)
(* replaces the file (PageSave), so the copy of one file is never torn.    *)
(***************************************************************************)
EXTENDS Naturals, FiniteSets

CONSTANTS
  Requests,   \* the operators' requests
  Visitors,   \* the visitors' requests
  Pages, Home,\* the files of the web root; the one that exists at first
  None,
  Faults,     \* the steps that may fail
  Concurrent, \* bound: setFreeze calls in flight at once
  MaxEdits, MaxKills

Steps == {"copy", "retire", "install", "putBack", "sync", "clean", "write", "syncState", "read"}

ASSUME FreezeAssumption ==
  /\ Home \in Pages
  /\ None \notin Pages /\ None \notin Nat /\ None \notin [Pages -> 0..MaxEdits]
  /\ Faults \subseteq Steps
  /\ Concurrent \in Nat \ {0} /\ MaxEdits \in Nat \ {0} /\ MaxKills \in Nat

Gone == 0                       \* "no such file"
Versions == 0..MaxEdits
Trees == [Pages -> Versions]    \* a directory, as a visitor can tell it

VARIABLES
  live,      \* the web root
  edits,     \* the number of edits
  published, old,  \* the directories "published" and "published.old"
  frozen,    \* the state file
  pc, want,  \* of each request: its next step; freeze or unfreeze
  tmp,       \* its temporary directory
  todo, at, seen,  \* the files it has to copy, the one it is at, its Lstat
  reply,
  found,     \* what each request found: history, for the properties
  stage, page, root, got,  \* of each visitor: progress, URL, choice, answer
  calm,      \* it has been frozen, and readably so, since the visitor came: history
  issued,    \* issued[p]: what was ever published of p: history
  kills

site    == <<live, edits>>
dirs    == <<published, old, frozen, issued>>
request == <<pc, want, tmp, todo, at, seen, reply, found>>
visitor == <<stage, page, root, got, calm>>
vars    == <<site, dirs, request, visitor, kills>>

Goto(r, from, to) == pc[r] = from /\ pc' = [pc EXCEPT ![r] = to]

\* An error return of publishSnapshot; its defer removes the copy.
Fail(r, from) == /\ Goto(r, from, "done")
                 /\ tmp' = [tmp EXCEPT ![r] = None]
                 /\ reply' = [reply EXCEPT ![r] = "failed"]
                 /\ UNCHANGED <<want, todo, at, seen, found>>

Active == {r \in Requests : pc[r] \notin {"idle", "done"}}

Init ==
  /\ live = [p \in Pages |-> IF p = Home THEN 1 ELSE Gone] /\ edits = 1
  /\ published = None /\ old = None /\ frozen = FALSE
  /\ pc = [r \in Requests |-> "idle"] /\ want = [r \in Requests |-> FALSE]
  /\ tmp = [r \in Requests |-> None]
  /\ todo = [r \in Requests |-> {}] /\ at = [r \in Requests |-> None]
  /\ seen = [r \in Requests |-> Gone]
  /\ reply = [r \in Requests |-> "none"] /\ found = [r \in Requests |-> None]
  /\ stage = [v \in Visitors |-> "idle"] /\ page = [v \in Visitors |-> None]
  /\ root = [v \in Visitors |-> None] /\ got = [v \in Visitors |-> None]
  /\ calm = [v \in Visitors |-> FALSE]
  /\ issued = [p \in Pages |-> {}] /\ kills = 0

\* A page is saved, or created.
Edit(p) ==
  /\ edits < MaxEdits /\ edits' = edits + 1
  /\ live' = [live EXCEPT ![p] = edits']
  /\ UNCHANGED <<dirs, request, visitor, kills>>
-----------------------------------------------------------------------------
(* setFreeze *)

\* Mutant: only files that are not published yet are copied.
Begin_OnlyNew(r, f) ==
  /\ Cardinality(Active) < Concurrent
  /\ Goto(r, "idle", "copy")
  /\ want' = [want EXCEPT ![r] = f]
  /\ tmp' = [tmp EXCEPT ![r] = IF published = None THEN [p \in Pages |-> Gone] ELSE published]
  /\ todo' = [todo EXCEPT ![r] = {p \in Pages : live[p] # Gone /\ tmp'[r][p] = Gone}]
  /\ found' = [found EXCEPT ![r] =
                 [live |-> live, published |-> published, frozen |-> frozen]]
  /\ UNCHANGED <<at, seen, reply, site, dirs, visitor, kills>>

\* Mutant: to freeze is only to write the state file.
Begin_OnlyState(r, f) ==
  /\ Cardinality(Active) < Concurrent
  /\ Goto(r, "idle", IF f THEN "write" ELSE "copy")
  /\ want' = [want EXCEPT ![r] = f]
  /\ tmp' = [tmp EXCEPT ![r] = [p \in Pages |-> Gone]]
  /\ todo' = [todo EXCEPT ![r] = {p \in Pages : live[p] # Gone}]
  /\ found' = [found EXCEPT ![r] =
                 [live |-> live, published |-> published, frozen |-> frozen]]
  /\ UNCHANGED <<at, seen, reply, site, dirs, visitor, kills>>

\* The web root is listed.
Begin(r, f) ==
  /\ Cardinality(Active) < Concurrent
  /\ Goto(r, "idle", "copy")
  /\ want' = [want EXCEPT ![r] = f]
  /\ tmp' = [tmp EXCEPT ![r] = [p \in Pages |-> Gone]]
  /\ todo' = [todo EXCEPT ![r] = {p \in Pages : live[p] # Gone}]
  /\ found' = [found EXCEPT ![r] =
                 [live |-> live, published |-> published, frozen |-> frozen]]
  /\ UNCHANGED <<at, seen, reply, site, dirs, visitor, kills>>

\* copyRegularFile: Lstat ...
Look(r, p) ==
  /\ pc[r] = "copy" /\ at[r] = None /\ p \in todo[r]
  /\ at' = [at EXCEPT ![r] = p]
  /\ seen' = [seen EXCEPT ![r] = live[p]]
  /\ UNCHANGED <<pc, want, tmp, todo, reply, found, site, dirs, visitor, kills>>

\* ... and Open, of the same file ...
Copy(r) ==
  /\ pc[r] = "copy" /\ at[r] # None
  /\ live[at[r]] = seen[r]
  /\ tmp' = [tmp EXCEPT ![r][at[r]] = seen[r]]
  /\ todo' = [todo EXCEPT ![r] = @ \ {at[r]}]
  /\ at' = [at EXCEPT ![r] = None]
  /\ UNCHANGED <<pc, want, seen, reply, found, site, dirs, visitor, kills>>

\* ... for an edit in between fails the publication, as any error does.
CopyFails(r) ==
  /\ "copy" \in Faults \/ (at[r] # None /\ live[at[r]] # seen[r])
  /\ Fail(r, "copy")
  /\ UNCHANGED <<site, dirs, visitor, kills>>

\* RemoveAll(published.old); its error is ignored.
DropOld(r) ==
  /\ Goto(r, "copy", "retire")
  /\ todo[r] = {}
  /\ old' = None
  /\ UNCHANGED <<want, tmp, todo, at, seen, reply, found, published, frozen, issued, site, visitor, kills>>

\* Rename(published, published.old); there may be nothing to rename, and a
\* directory in the way is an error.
Retire(r) ==
  /\ Goto(r, "retire", "install")
  /\ IF published = None
       THEN UNCHANGED <<published, old>>
       ELSE old = None /\ old' = published /\ published' = None
  /\ UNCHANGED <<want, tmp, todo, at, seen, reply, found, frozen, issued, site, visitor, kills>>

RetireFails(r) ==
  /\ "retire" \in Faults \/ (published # None /\ old # None)
  /\ Fail(r, "retire")
  /\ UNCHANGED <<site, dirs, visitor, kills>>

\* Rename(tmp, published), unless another publication is there already ...
Install(r) ==
  /\ Goto(r, "install", "sync")
  /\ published = None
  /\ published' = tmp[r]
  /\ issued' = [p \in Pages |-> issued[p] \cup {tmp[r][p]}]
  /\ tmp' = [tmp EXCEPT ![r] = None]
  /\ UNCHANGED <<want, todo, at, seen, reply, found, old, frozen, site, visitor, kills>>

\* Mutant: no way back.
InstallFails_Leaves(r) ==
  /\ "install" \in Faults \/ published # None
  /\ Fail(r, "install")
  /\ UNCHANGED <<site, dirs, visitor, kills>>

\* ... which fails; what was retired is put back, if that works.
InstallFails(r) ==
  /\ "install" \in Faults \/ published # None
  /\ Fail(r, "install")
  /\ \/ /\ published = None
        /\ published' = old /\ old' = None
     \/ /\ "putBack" \in Faults \/ published # None
        /\ UNCHANGED <<published, old>>
  /\ UNCHANGED <<frozen, issued, site, visitor, kills>>

\* The directory is synced, and published.old removed: an error of either is
\* returned although the new snapshot is in its place.
Sync(r) ==
  /\ Goto(r, "sync", "clean")
  /\ UNCHANGED <<want, tmp, todo, at, seen, reply, found, site, dirs, visitor, kills>>

SyncFails(r) ==
  /\ "sync" \in Faults
  /\ Fail(r, "sync")
  /\ UNCHANGED <<site, dirs, visitor, kills>>

Clean(r) ==
  /\ Goto(r, "clean", "write")
  /\ old' = None
  /\ UNCHANGED <<want, tmp, todo, at, seen, reply, found, published, frozen, issued, site, visitor, kills>>

CleanFails(r) ==
  /\ "clean" \in Faults
  /\ Fail(r, "clean")
  /\ UNCHANGED <<site, dirs, visitor, kills>>

\* Mutant: to unfreeze is to remove the state file.
Write_Removes(r) ==
  /\ Goto(r, "write", "done")
  /\ frozen' = IF want[r] THEN TRUE ELSE None
  /\ reply' = [reply EXCEPT ![r] = "ok"]
  /\ UNCHANGED <<want, tmp, todo, at, seen, found, published, old, issued, site, visitor, kills>>

\* writeSiteState.
Write(r) ==
  /\ Goto(r, "write", "done")
  /\ frozen' = want[r]
  /\ calm' = [v \in Visitors |-> calm[v] /\ frozen']
  /\ reply' = [reply EXCEPT ![r] = "ok"]
  /\ UNCHANGED <<want, tmp, todo, at, seen, found, published, old, issued, site, stage, page, root, got, kills>>

WriteFails(r) ==
  /\ Fail(r, "write")
  /\ \/ "write" \in Faults /\ UNCHANGED frozen
     \/ "syncState" \in Faults /\ frozen' = want[r]
  /\ calm' = [v \in Visitors |-> calm[v] /\ frozen']
  /\ UNCHANGED <<published, old, issued, site, stage, page, root, got, kills>>
-----------------------------------------------------------------------------
(* A visitor without a session: snapshotFileForAnonymousRequest, and handle *)

Visit(v, p) ==
  /\ stage[v] = "idle" /\ stage' = [stage EXCEPT ![v] = "state"]
  /\ page' = [page EXCEPT ![v] = p]
  /\ calm' = [calm EXCEPT ![v] = frozen]
  /\ UNCHANGED <<root, got, site, dirs, request, kills>>

\* loadSiteState ...
ReadState(v) ==
  /\ stage[v] = "state" /\ stage' = [stage EXCEPT ![v] = "file"]
  /\ root' = [root EXCEPT ![v] = IF frozen THEN "published" ELSE "live"]
  /\ UNCHANGED <<page, got, calm, site, dirs, request, kills>>

\* ... of which an error counts as "not frozen".
ReadStateFails(v) ==
  /\ "read" \in Faults
  /\ stage[v] = "state" /\ stage' = [stage EXCEPT ![v] = "file"]
  /\ root' = [root EXCEPT ![v] = "live"]
  /\ calm' = [calm EXCEPT ![v] = FALSE]
  /\ UNCHANGED <<page, got, site, dirs, request, kills>>

\* What is published of p, as far as a visitor can tell.
Shown(p) == IF published = None THEN Gone ELSE published[p]

\* Mutant: a page that is not in the snapshot is looked up in the web root.
Serve_FallsBack(v) ==
  /\ stage[v] = "file" /\ stage' = [stage EXCEPT ![v] = "done"]
  /\ got' = [got EXCEPT ![v] = IF root[v] = "live" \/ Shown(page[v]) = Gone
                                 THEN live[page[v]] ELSE Shown(page[v])]
  /\ UNCHANGED <<page, root, calm, site, dirs, request, kills>>

\* checkFileExist and ServeFile: a page that is not there is a 404, or a
\* redirect.
Serve(v) ==
  /\ stage[v] = "file" /\ stage' = [stage EXCEPT ![v] = "done"]
  /\ got' = [got EXCEPT ![v] = IF root[v] = "live" THEN live[page[v]] ELSE Shown(page[v])]
  /\ UNCHANGED <<page, root, calm, site, dirs, request, kills>>

\* The process dies and is restarted; files and directories stay as they are.
Kill ==
  /\ kills < MaxKills /\ kills' = kills + 1
  /\ pc' = [r \in Requests |-> IF pc[r] = "idle" THEN "idle" ELSE "done"]
  /\ stage' = [v \in Visitors |-> IF stage[v] = "idle" THEN "idle" ELSE "done"]
  /\ UNCHANGED <<want, tmp, todo, at, seen, reply, found, page, root, got, calm, site, dirs>>

SetFreeze(r) == \/ \E f \in BOOLEAN : Begin(r, f)
                \/ \E p \in Pages : Look(r, p)
                \/ Copy(r) \/ CopyFails(r)
                \/ DropOld(r) \/ Retire(r) \/ RetireFails(r)
                \/ Install(r) \/ InstallFails(r)
                \/ Sync(r) \/ SyncFails(r) \/ Clean(r) \/ CleanFails(r)
                \/ Write(r) \/ WriteFails(r)

Browse(v) == \/ \E p \in Pages : Visit(v, p)
             \/ ReadState(v) \/ ReadStateFails(v) \/ Serve(v)

Next == \/ \E p \in Pages : Edit(p)
        \/ \E r \in Requests : SetFreeze(r)
        \/ \E v \in Visitors : Browse(v)
        \/ Kill

Spec == Init /\ [][Next]_vars
-----------------------------------------------------------------------------
(* Correctness *)

TypeOK ==
  /\ live \in Trees /\ edits \in Versions
  /\ published \in Trees \cup {None} /\ old \in Trees \cup {None}
  /\ frozen \in BOOLEAN
  /\ pc \in [Requests -> {"idle", "copy", "retire", "install", "sync", "clean", "write", "done"}]
  /\ want \in [Requests -> BOOLEAN]
  /\ tmp \in [Requests -> Trees \cup {None}]
  /\ todo \in [Requests -> SUBSET Pages]
  /\ at \in [Requests -> Pages \cup {None}]
  /\ seen \in [Requests -> Versions]
  /\ reply \in [Requests -> {"none", "ok", "failed"}]
  /\ stage \in [Visitors -> {"idle", "state", "file", "done"}]
  /\ page \in [Visitors -> Pages \cup {None}]
  /\ root \in [Visitors -> {"live", "published", None}]
  /\ got \in [Visitors -> Versions \cup {None}]
  /\ calm \in [Visitors -> BOOLEAN]
  /\ issued \in [Pages -> SUBSET Versions]
  /\ kills \in 0..MaxKills

\* "Must not expose draft content": while the site stays frozen, and its state
\* file can be read, a visitor gets what was published, or nothing.
NoDraftShown ==
  \A v \in Visitors : calm[v] /\ got[v] \notin {None, Gone} => got[v] \in issued[page[v]]

\* A frozen site has a snapshot to show whenever nobody is changing it, unless
\* the server was killed half-way through an exchange.
FrozenIsPublished == frozen /\ Active = {} /\ kills = 0 => published # None

\* "Unfreeze publishes approved changes": the snapshot has at least what had
\* been saved when a freeze or unfreeze that succeeded was asked for.
PublishesWhatWasSaved ==
  \A r \in Requests : reply[r] = "ok" /\ Active = {} /\ published # None =>
    \A p \in Pages : published[p] >= found[r].live[p]

\* "Clear rollback behavior": a publication that fails before or at the exchange
\* leaves visitors with the snapshot and the mode they had.
FailureChangesNothing ==
  [][\A r \in Requests :
       pc[r] \in {"copy", "retire", "install"} /\ reply'[r] = "failed" =>
         published' = found[r].published /\ frozen' = found[r].frozen]_vars
=============================================================================
