---------------------------- MODULE FreezeProofs ----------------------------
(***************************************************************************)
(* What visitors see of a frozen site, for any number of operators,        *)
(* visitors, pages, edits and kills.  NoDraftShown holds with any overlap  *)
(* of publications and any failure: whatever is in the two directories was *)
(* published (Issued), and who is calm has chosen the published one        *)
(* (Chosen).  The other two are about operators who take turns and need    *)
(* that what was retired can be put back, as the run assumes: a            *)
(* publication then has the directories to itself (Alone), they hold what  *)
(* its stage says (Exchange), with a way back (Undoable), and nothing in   *)
(* them is older than what was answered for (Fresh).                       *)
(***************************************************************************)
EXTENDS Freeze, FiniteSetTheorems, TLAPS

\* While it has nothing to show, a visit has no answer; a visitor for whom the
\* site has been frozen all along reads from the published directory.
Chosen ==
  \A v \in Visitors :
    /\ stage[v] # "done" => got[v] = None
    /\ got[v] # None => page[v] \in Pages
    /\ calm[v] => frozen
    /\ calm[v] /\ stage[v] = "file" => root[v] = "published"

Issued ==
  \A p \in Pages : /\ published # None => published[p] \in issued[p]
                   /\ old # None => old[p] \in issued[p]

\* A temporary directory is there while its request needs it, and a visitor
\* has asked for a page.
Working ==
  /\ \A r \in Requests : pc[r] \in {"copy", "retire", "install"} => tmp[r] \in Trees
  /\ \A v \in Visitors : stage[v] \in {"state", "file"} => page[v] \in Pages

ShownInv == TypeOK /\ Chosen /\ Issued /\ Working /\ NoDraftShown
-----------------------------------------------------------------------------
(* Types *)

LEMMA TypeStep == TypeOK /\ Working /\ [Next]_vars => TypeOK' /\ Working'
  <1> SUFFICES ASSUME TypeOK, Working, [Next]_vars PROVE TypeOK' /\ Working'
    OBVIOUS
  <1> USE FreezeAssumption DEF Versions, Gone, Goto, site, dirs, request, visitor
  <1>1. ASSUME NEW p \in Pages, Edit(p) PROVE TypeOK' /\ Working'
    <2>1. edits' \in Versions /\ live' \in Trees
      BY <1>1 DEF Edit, TypeOK, Trees
    <2>2. QED
      BY <1>1, <2>1 DEF Edit, TypeOK, Working
  <1>2. ASSUME NEW r \in Requests, NEW f \in BOOLEAN, Begin(r, f) PROVE TypeOK' /\ Working'
    <2>1. tmp' = [tmp EXCEPT ![r] = [p \in Pages |-> Gone]] /\ [p \in Pages |-> Gone] \in Trees
      BY <1>2 DEF Begin, Trees
    <2>2. todo' \in [Requests -> SUBSET Pages]
      BY <1>2 DEF Begin, TypeOK
    <2>3. QED
      BY <1>2, <2>1, <2>2 DEF Begin, TypeOK, Working
  <1>3. ASSUME NEW r \in Requests, NEW p \in Pages, Look(r, p) PROVE TypeOK' /\ Working'
    <2>1. p \in Pages /\ live[p] \in Versions
      BY <1>3 DEF TypeOK, Trees
    <2>2. QED
      BY <1>3, <2>1 DEF Look, TypeOK, Working
  <1>4. ASSUME NEW r \in Requests, Copy(r) PROVE TypeOK' /\ Working'
    <2>1. at[r] \in Pages /\ tmp[r] \in Trees /\ seen[r] \in Versions
      BY <1>4 DEF Copy, TypeOK, Working
    <2>2. PICK t \in Trees : t = [tmp[r] EXCEPT ![at[r]] = seen[r]]
      BY <2>1 DEF Trees
    <2>3. tmp' = [tmp EXCEPT ![r] = t]
      BY <1>4, <2>2 DEF Copy
    <2>4. todo' \in [Requests -> SUBSET Pages]
      BY <1>4 DEF Copy, TypeOK
    <2>5. TypeOK'
      <3>1. tmp' \in [Requests -> Trees \cup {None}]
        BY <2>3 DEF TypeOK
      <3>2. at' \in [Requests -> Pages \cup {None}]
        BY <1>4 DEF Copy, TypeOK
      <3>3. QED
        BY <1>4, <2>4, <3>1, <3>2 DEF Copy, TypeOK
    <2>6. \A x \in Requests : tmp'[x] \in {tmp[x], t} /\ pc'[x] = pc[x]
      BY <1>4, <2>3 DEF Copy, TypeOK
    <2>7. Working'
      BY <1>4, <2>1, <2>6 DEF Copy, Working
    <2>8. QED
      BY <2>5, <2>7
  <1>5. ASSUME NEW r \in Requests, DropOld(r) \/ Retire(r) \/ Install(r) \/ Sync(r) \/ Clean(r)
        PROVE  TypeOK' /\ Working'
    <2>1. published' \in Trees \cup {None} /\ old' \in Trees \cup {None}
      BY <1>5 DEF DropOld, Retire, Install, Sync, Clean, TypeOK, Working
    <2>2. issued' \in [Pages -> SUBSET Versions]
      <3>1. CASE Install(r)
        <4>1. tmp[r] \in [Pages -> Versions]
          BY <3>1 DEF Install, Working, Trees
        <4>2. QED
          BY <3>1, <4>1 DEF Install, TypeOK
      <3>2. QED
        BY <1>5, <3>1 DEF DropOld, Retire, Sync, Clean, TypeOK
    <2>3. QED
      BY <1>5, <2>1, <2>2 DEF DropOld, Retire, Install, Sync, Clean, TypeOK, Working
  <1>6. ASSUME NEW r \in Requests,
               \/ CopyFails(r) \/ RetireFails(r) \/ InstallFails(r) \/ SyncFails(r)
               \/ CleanFails(r) \/ WriteFails(r)
        PROVE  TypeOK' /\ Working'
    <2>1. \E from \in {"copy", "retire", "install", "sync", "clean", "write"} : Fail(r, from)
      BY <1>6 DEF CopyFails, RetireFails, InstallFails, SyncFails, CleanFails, WriteFails
    <2>2. /\ published' \in Trees \cup {None} /\ old' \in Trees \cup {None}
          /\ frozen' \in BOOLEAN /\ calm' \in [Visitors -> BOOLEAN]
      BY <1>6 DEF CopyFails, RetireFails, InstallFails, SyncFails, CleanFails, WriteFails, Fail, TypeOK
    <2>3. UNCHANGED <<site, issued, stage, page, root, got, kills>>
      BY <1>6 DEF CopyFails, RetireFails, InstallFails, SyncFails, CleanFails, WriteFails
    <2>4. QED
      BY <2>1, <2>2, <2>3 DEF Fail, TypeOK, Working
  <1>7. ASSUME NEW r \in Requests, Write(r) PROVE TypeOK' /\ Working'
    BY <1>7 DEF Write, TypeOK, Working
  <1>8. ASSUME NEW v \in Visitors, Browse(v) PROVE TypeOK' /\ Working'
    <2>1. CASE Serve(v)
      <3>1. page[v] \in Pages
        BY <2>1 DEF Serve, Working
      <3>2. live[page[v]] \in Versions /\ Shown(page[v]) \in Versions
        BY <3>1 DEF TypeOK, Trees, Shown
      <3>3. got' \in [Visitors -> Versions \cup {None}]
        BY <2>1, <3>2 DEF Serve, TypeOK
      <3>4. stage' = [stage EXCEPT ![v] = "done"] /\ UNCHANGED <<page, root, calm, site, dirs, request, kills>>
        BY <2>1 DEF Serve
      <3>5. QED
        BY <3>3, <3>4 DEF TypeOK, Working, site, dirs, request
    <2>2. CASE ReadState(v) \/ ReadStateFails(v)
      BY <2>2 DEF ReadState, ReadStateFails, TypeOK, Working
    <2>3. ASSUME NEW p \in Pages, Visit(v, p) PROVE TypeOK' /\ Working'
      BY <2>3 DEF Visit, TypeOK, Working
    <2>4. QED
      BY <1>8, <2>1, <2>2, <2>3 DEF Browse
  <1>9. CASE Kill
    BY <1>9 DEF Kill, TypeOK, Working
  <1>10. CASE UNCHANGED vars
    BY <1>10 DEF vars, TypeOK, Working
  <1>11. QED
    BY <1>1, <1>2, <1>3, <1>4, <1>5, <1>6, <1>7, <1>8, <1>9, <1>10 DEF Next, SetFreeze
-----------------------------------------------------------------------------
(* No draft is shown *)

LEMMA ShownStep == ShownInv /\ [Next]_vars => Chosen' /\ Issued' /\ NoDraftShown'
  <1> SUFFICES ASSUME ShownInv, [Next]_vars PROVE Chosen' /\ Issued' /\ NoDraftShown'
    OBVIOUS
  <1> USE FreezeAssumption DEF Versions, Gone, Goto, site, dirs, request, visitor
  <1>1. CASE \/ UNCHANGED <<published, old, frozen, issued, visitor>>
             \/ Kill
    BY <1>1 DEF Kill, ShownInv, TypeOK, Chosen, Issued, NoDraftShown
  <1>2. ASSUME NEW r \in Requests, DropOld(r) \/ Retire(r) \/ Clean(r) \/ InstallFails(r)
        PROVE  Chosen' /\ Issued' /\ NoDraftShown'
    <2>1. /\ published' \in {published, old, None} /\ old' \in {published, old, None}
          /\ UNCHANGED <<frozen, issued, visitor>>
      BY <1>2 DEF DropOld, Retire, Clean, InstallFails
    <2>2. QED
      BY <2>1 DEF ShownInv, Chosen, Issued, NoDraftShown
  <1>3. ASSUME NEW r \in Requests, Install(r)
        PROVE  Chosen' /\ Issued' /\ NoDraftShown'
    <2>1. /\ published' = tmp[r] /\ UNCHANGED <<old, frozen, visitor>>
          /\ issued' = [p \in Pages |-> issued[p] \cup {tmp[r][p]}]
      BY <1>3 DEF Install
    <2>2. \A p \in Pages : issued'[p] = issued[p] \cup {tmp[r][p]}
      BY <2>1
    <2>3. Issued'
      BY <2>1, <2>2 DEF ShownInv, Issued
    <2>4. Chosen'
      BY <2>1 DEF ShownInv, Chosen
    <2>5. \A v \in Visitors : got[v] \notin {None, Gone} => page[v] \in Pages
      BY DEF ShownInv, Chosen
    <2>6. NoDraftShown'
      BY <2>1, <2>2, <2>5 DEF ShownInv, NoDraftShown
    <2>7. QED
      BY <2>3, <2>4, <2>6
  <1>4. ASSUME NEW r \in Requests, Write(r) \/ WriteFails(r)
        PROVE  Chosen' /\ Issued' /\ NoDraftShown'
    <2>1. /\ calm' = [v \in Visitors |-> calm[v] /\ frozen']
          /\ UNCHANGED <<published, old, issued, stage, page, root, got>>
      BY <1>4 DEF Write, WriteFails
    <2>2. \A v \in Visitors : calm'[v] <=> calm[v] /\ frozen'
      BY <2>1
    <2>3. QED
      BY <2>1, <2>2 DEF ShownInv, Chosen, Issued, NoDraftShown
  <1>5. ASSUME NEW v \in Visitors, Browse(v)
        PROVE  Chosen' /\ Issued' /\ NoDraftShown'
    <2>1. CASE ReadState(v) \/ ReadStateFails(v)
      BY <2>1 DEF ReadState, ReadStateFails, ShownInv, TypeOK, Chosen, Issued, NoDraftShown
    <2>2. ASSUME NEW p \in Pages, Visit(v, p) PROVE Chosen' /\ Issued' /\ NoDraftShown'
      BY <2>2 DEF Visit, ShownInv, TypeOK, Chosen, Issued, NoDraftShown
    <2>3. CASE Serve(v)
      <3>1. page[v] \in Pages /\ stage[v] = "file"
        BY <2>3 DEF Serve, ShownInv, Working
      <3>2. calm[v] => root[v] = "published"
        BY <3>1 DEF ShownInv, Chosen
      <3>3. Shown(page[v]) = Gone \/ Shown(page[v]) \in issued[page[v]]
        BY <3>1 DEF Shown, ShownInv, Issued
      <3>4. calm[v] => got'[v] = Shown(page[v])
        BY <2>3, <3>2 DEF Serve, ShownInv, TypeOK
      <3>5. /\ \A w \in Visitors \ {v} : got'[w] = got[w] /\ stage'[w] = stage[w]
            /\ stage'[v] = "done"
            /\ UNCHANGED <<published, old, issued, frozen, calm, page, root>>
        BY <2>3 DEF Serve, ShownInv, TypeOK
      <3>6. Chosen' /\ Issued'
        BY <3>1, <3>5 DEF ShownInv, Chosen, Issued
      <3>7. NoDraftShown'
        BY <3>3, <3>4, <3>5 DEF ShownInv, NoDraftShown
      <3>8. QED
        BY <3>6, <3>7
    <2>4. QED
      BY <1>5, <2>1, <2>2, <2>3 DEF Browse
  <1>6. ASSUME NEW r \in Requests,
               \/ \E f \in BOOLEAN : Begin(r, f)
               \/ \E p \in Pages : Look(r, p)
               \/ Copy(r) \/ CopyFails(r) \/ RetireFails(r) \/ Sync(r) \/ SyncFails(r) \/ CleanFails(r)
        PROVE  UNCHANGED <<published, old, frozen, issued, visitor>>
    BY <1>6 DEF Begin, Look, Copy, CopyFails, RetireFails, Sync, SyncFails, CleanFails
  <1>7. (\E p \in Pages : Edit(p)) \/ UNCHANGED vars
        => UNCHANGED <<published, old, frozen, issued, visitor>>
    BY DEF Edit, vars
  <1>8. QED
    BY <1>1, <1>2, <1>3, <1>4, <1>5, <1>6, <1>7 DEF Next, SetFreeze

LEMMA ShownStart == Init => ShownInv
  <1>1. ASSUME Init PROVE TypeOK
    <2>1. live \in Trees /\ edits \in Versions /\ kills \in 0..MaxKills
      BY <1>1, FreezeAssumption DEF Init, Trees, Versions, Gone
    <2>2. /\ published \in Trees \cup {None} /\ old \in Trees \cup {None} /\ frozen \in BOOLEAN
          /\ pc \in [Requests -> {"idle", "copy", "retire", "install", "sync", "clean", "write", "done"}]
          /\ want \in [Requests -> BOOLEAN]
          /\ tmp \in [Requests -> Trees \cup {None}]
          /\ todo \in [Requests -> SUBSET Pages]
          /\ at \in [Requests -> Pages \cup {None}]
          /\ reply \in [Requests -> {"none", "ok", "failed"}]
      BY <1>1 DEF Init
    <2>3. 0 \in Versions
      BY FreezeAssumption DEF Versions
    <2>4. /\ seen \in [Requests -> Versions]
          /\ stage \in [Visitors -> {"idle", "state", "file", "done"}]
          /\ page \in [Visitors -> Pages \cup {None}]
          /\ root \in [Visitors -> {"live", "published", None}]
          /\ got \in [Visitors -> Versions \cup {None}]
          /\ calm \in [Visitors -> BOOLEAN]
          /\ issued \in [Pages -> SUBSET Versions]
      BY <1>1, <2>3 DEF Init, Gone
    <2>5. QED
      BY <2>1, <2>2, <2>4 DEF TypeOK
  <1>2. QED
    BY <1>1 DEF Init, ShownInv, Chosen, Issued, Working, NoDraftShown

LEMMA ShownInvariance == Spec => []ShownInv
  <1>1. ShownInv /\ [Next]_vars => ShownInv'
    BY TypeStep, ShownStep DEF ShownInv
  <1>2. QED
    BY ShownStart, <1>1, PTL DEF Spec

\* Every variable has its type.
THEOREM Types == Spec => []TypeOK
  BY ShownInvariance, PTL DEF ShownInv

\* While a site stays frozen, and readably so, a visitor is shown what was
\* published or nothing, however publications, edits, failures and kills
\* overlap (snapshotFileForAnonymousRequest, publishSnapshot).
THEOREM DraftsStayHidden == Spec => []NoDraftShown
  BY ShownInvariance, PTL DEF ShownInv
-----------------------------------------------------------------------------
(* Operators who take turns *)

Alone == \A r, x \in Requests : r \in Active /\ x \in Active => r = x

\* The directories at the stages of a publication.
Exchange ==
  /\ \A r \in Requests :
       /\ pc[r] = "retire" => old = None
       /\ pc[r] = "install" => published = None
       /\ pc[r] \in {"sync", "clean", "write"} => published # None
       /\ pc[r] = "write" => old = None
  /\ kills = 0 /\ frozen =>
       published # None \/ \E r \in Requests : pc[r] = "install" /\ old # None

\* A request can go back to what it found.
Undoable ==
  /\ DOMAIN found = Requests
  /\ \A r \in Requests :
       /\ pc[r] \in {"copy", "retire"} =>
            published = found[r].published /\ frozen = found[r].frozen
       /\ pc[r] = "install" => old = found[r].published /\ frozen = found[r].frozen

AtLeast(tree, r) == \A p \in Pages : tree[p] >= found[r].live[p]

\* What is copied, published or kept to go back to is at least as new as what a
\* request found; who was answered found less than who is still at work.
Fresh ==
  /\ \A p \in Pages : live[p] <= edits
  /\ \A r \in Requests :
       /\ pc[r] \in {"idle", "copy", "retire", "install", "sync", "clean", "write"} => reply[r] = "none"
       /\ pc[r] # "idle" => found[r].live \in Trees /\ AtLeast(live, r)
       /\ pc[r] = "copy" => \A p \in Pages \ todo[r] : tmp[r][p] >= found[r].live[p]
       /\ pc[r] \in {"retire", "install"} => AtLeast(tmp[r], r)
       /\ pc[r] \in {"sync", "clean", "write"} => AtLeast(published, r)
       /\ reply[r] = "ok" =>
            /\ published # None => AtLeast(published, r)
            /\ old # None => AtLeast(old, r)
            /\ \A x \in Active : AtLeast(found[x].live, r)

TurnInv == ShownInv /\ Alone /\ Exchange /\ Undoable /\ Fresh
\* The others are not at work.
LEMMA OthersRest ==
  ASSUME TurnInv, NEW r \in Requests, pc[r] \notin {"idle", "done"}
  PROVE  \A x \in Requests \ {r} : pc[x] \in {"idle", "done"}
  BY DEF TurnInv, Alone, Active

\* A request that goes on, alone.
LEMMA GoesOn ==
  ASSUME TurnInv, NEW r \in Requests, NEW from, NEW to, Goto(r, from, to),
         from \notin {"idle", "done"}
  PROVE  /\ pc[r] = from /\ pc'[r] = to
         /\ \A x \in Requests \ {r} : pc'[x] = pc[x] /\ pc[x] \in {"idle", "done"}
         /\ Alone' /\ Active = {r} /\ Active' \subseteq {r}
  <1>1. /\ pc[r] = from /\ pc'[r] = to
        /\ \A x \in Requests \ {r} : pc'[x] = pc[x] /\ pc[x] \in {"idle", "done"}
    BY OthersRest DEF Goto, TurnInv, ShownInv, TypeOK
  <1>2. QED
    BY <1>1 DEF Alone, Active

LEMMA BeginTurn ==
  ASSUME TurnInv, Concurrent = 1, NEW r \in Requests, NEW f \in BOOLEAN, Begin(r, f)
  PROVE  Alone' /\ Exchange' /\ Undoable' /\ Fresh'
  <1>1. Active = {}
    <2>1. SUFFICES ASSUME NEW x \in Requests, x \in Active PROVE FALSE
      BY DEF Active
    <2>2. Active = {x}
      BY <2>1 DEF TurnInv, Alone, Active
    <2>3. QED
      BY <2>2, FS_Singleton DEF Begin
  <1>2. /\ pc[r] = "idle" /\ pc'[r] = "copy" /\ reply[r] = "none"
        /\ \A x \in Requests \ {r} : pc'[x] = pc[x] /\ pc[x] \in {"idle", "done"}
    BY <1>1 DEF Begin, Goto, Active, TurnInv, ShownInv, TypeOK, Fresh
  <1>3. UNCHANGED <<live, edits, published, old, frozen, reply, kills>>
    BY DEF Begin, site, dirs
  <1>4. /\ found'[r].live = live /\ found'[r].published = published /\ found'[r].frozen = frozen
        /\ \A x \in Requests \ {r} : found'[x] = found[x]
    <2>1. PICK x : x = [live |-> live, published |-> published, frozen |-> frozen]
      OBVIOUS
    <2>2. x.live = live /\ x.published = published /\ x.frozen = frozen
      BY <2>1
    <2>3. found' = [found EXCEPT ![r] = x]
      BY <2>1 DEF Begin
    <2>4. QED
      BY <2>2, <2>3 DEF TurnInv, Undoable
  <1>5. \A p \in Pages \ todo'[r] : live[p] = 0 /\ tmp'[r][p] = 0
    BY DEF Begin, Gone, TurnInv, ShownInv, TypeOK
  <1>6. \A p \in Pages : live[p] \in Nat
    BY DEF TurnInv, ShownInv, TypeOK, Trees, Versions
  <1>7. Alone' /\ Active' = {r}
    BY <1>1, <1>2 DEF Alone, Active
  <1>8. Exchange'
    BY <1>2, <1>3 DEF TurnInv, Exchange
  <1>9. Undoable'
    <2>1. DOMAIN found' = Requests
      BY DEF Begin, TurnInv, Undoable
    <2>2. QED
      BY <1>2, <1>3, <1>4, <2>1 DEF Undoable
  <1>10. Fresh'
    <2>1. \A p \in Pages : live'[p] <= edits'
      BY <1>3 DEF TurnInv, Fresh
    <2>2. ASSUME NEW x \in Requests \ {r}
          PROVE  /\ pc'[x] = "idle" => reply'[x] = "none"
                 /\ pc'[x] # "idle" => found'[x].live \in Trees /\ AtLeast(live, x)'
                 /\ reply'[x] = "ok" =>
                      /\ published' # None => AtLeast(published, x)'
                      /\ old' # None => AtLeast(old, x)'
                      /\ \A y \in Active' : AtLeast(found[y].live, x)'
      <3>1. pc[x] # "idle" => AtLeast(live, x)' /\ AtLeast(live, x)
        BY <1>3, <1>4 DEF TurnInv, Fresh, AtLeast
      <3>2. reply[x] = "ok" => pc[x] # "idle"
        BY DEF TurnInv, Fresh
      <3>3. pc[x] # "idle" => \A y \in Active' : AtLeast(found[y].live, x)'
        BY <1>3, <1>4, <1>7, <3>1 DEF AtLeast
      <3>4. QED
        BY <1>2, <1>3, <1>4, <3>1, <3>2, <3>3 DEF TurnInv, Fresh, AtLeast
    <2>3. /\ found'[r].live \in Trees /\ AtLeast(live, r)'
          /\ \A p \in Pages \ todo'[r] : tmp'[r][p] >= found'[r].live[p]
      BY <1>3, <1>4, <1>5, <1>6 DEF TurnInv, ShownInv, TypeOK, AtLeast
    <2>4. QED
      BY <1>2, <1>3, <2>1, <2>2, <2>3 DEF Fresh
  <1>11. QED
    BY <1>7, <1>8, <1>9, <1>10

\* An edit only makes pages newer.
LEMMA EditTurn ==
  ASSUME TurnInv, NEW p \in Pages, Edit(p)
  PROVE  Alone' /\ Exchange' /\ Undoable' /\ Fresh'
  <1>1. UNCHANGED <<published, old, frozen, kills, pc, tmp, todo, reply, found>>
    BY DEF Edit, dirs, request
  <1>2. /\ edits \in Nat /\ edits' = edits + 1
        /\ \A q \in Pages : live[q] \in Nat /\ live[q] <= edits
        /\ \A q \in Pages : live'[q] \in {live[q], edits'}
    BY FreezeAssumption DEF Edit, TurnInv, ShownInv, TypeOK, Trees, Versions, Fresh
  <1>3. \A q \in Pages : live'[q] >= live[q] /\ live'[q] <= edits' /\ live'[q] \in Nat
    BY <1>2
  <1>4. Active' = Active
    BY <1>1 DEF Active
  <1>5. ASSUME NEW r \in Requests, pc[r] # "idle"
        PROVE  AtLeast(live, r)'
    <2>1. found[r].live \in Trees /\ AtLeast(live, r)
      BY <1>5 DEF TurnInv, Fresh
    <2>2. \A q \in Pages : found[r].live[q] \in Nat
      BY <2>1 DEF Trees, Versions
    <2>3. QED
      BY <1>1, <1>2, <1>3, <2>1, <2>2 DEF AtLeast
  <1>6. Alone' /\ Exchange' /\ Undoable'
    BY <1>1, <1>4 DEF TurnInv, Alone, Exchange, Undoable
  <1>7. Fresh'
    BY <1>1, <1>3, <1>4, <1>5 DEF TurnInv, Fresh, AtLeast
  <1>8. QED
    BY <1>6, <1>7

\* Copying touches nothing but the request's own directory.
LEMMA CopyTurn ==
  ASSUME TurnInv, NEW r \in Requests, (\E p \in Pages : Look(r, p)) \/ Copy(r)
  PROVE  Alone' /\ Exchange' /\ Undoable' /\ Fresh'
  <1>1. UNCHANGED <<live, edits, published, old, frozen, kills, pc, reply, found>> /\ pc[r] = "copy"
    BY DEF Look, Copy, site, dirs
  <1>2. Active' = Active
    BY <1>1 DEF Active
  <1>3. Alone' /\ Exchange' /\ Undoable'
    BY <1>1, <1>2 DEF TurnInv, Alone, Exchange, Undoable
  <1>4. \A x \in Requests \ {r} : tmp'[x] = tmp[x] /\ todo'[x] = todo[x]
    BY DEF Look, Copy, TurnInv, ShownInv, TypeOK
  <1>5. ASSUME NEW p \in Pages \ todo'[r]
        PROVE  tmp'[r][p] >= found[r].live[p]
    <2>1. CASE p \notin todo[r] /\ tmp'[r][p] = tmp[r][p]
      BY <1>1, <2>1 DEF TurnInv, Fresh
    <2>2. CASE tmp'[r][p] = live[p]
      BY <1>1, <2>2 DEF TurnInv, Fresh, AtLeast
    <2>3. CASE Copy(r)
      <3>1. tmp[r] \in Trees /\ at[r] \in Pages
        BY <2>3 DEF Copy, TurnInv, ShownInv, Working, TypeOK
      <3>2. tmp'[r] = [tmp[r] EXCEPT ![at[r]] = live[at[r]]] /\ todo'[r] = todo[r] \ {at[r]}
        BY <2>3 DEF Copy, TurnInv, ShownInv, TypeOK
      <3>3. tmp'[r][p] = IF p = at[r] THEN live[p] ELSE tmp[r][p]
        BY <3>1, <3>2 DEF Trees
      <3>4. QED
        BY <2>1, <2>2, <3>2, <3>3
    <2>4. CASE \E q \in Pages : Look(r, q)
      BY <2>1, <2>4 DEF Look
    <2>5. QED
      BY <2>3, <2>4
  <1>6. Fresh'
    <2>1. AtLeast(live, r)'  = AtLeast(live, r)
      BY <1>1 DEF AtLeast
    <2>2. QED
      BY <1>1, <1>2, <1>4, <1>5, <2>1 DEF TurnInv, Fresh, AtLeast
  <1>7. QED
    BY <1>3, <1>6
\* The exchange of the directories, for which the request is alone.
LEMMA RetireTurn ==
  ASSUME TurnInv, NEW r \in Requests, DropOld(r) \/ Retire(r)
  PROVE  Alone' /\ Exchange' /\ Undoable' /\ Fresh'
  <1>1. UNCHANGED <<live, edits, frozen, kills, tmp, todo, reply, found>>
    BY DEF DropOld, Retire, site
  <1>2. \/ /\ Goto(r, "copy", "retire") /\ todo[r] = {}
           /\ old' = None /\ published' = published
        \/ /\ Goto(r, "retire", "install")
           /\ old' = published /\ published' = None
    BY DEF DropOld, Retire, Goto, TurnInv, Exchange
  <1>3. CASE Goto(r, "copy", "retire") /\ todo[r] = {} /\ old' = None /\ published' = published
    <2>1. /\ pc[r] = "copy" /\ pc'[r] = "retire" /\ Alone' /\ Active' \subseteq {r} /\ Active = {r}
          /\ \A x \in Requests \ {r} : pc'[x] = pc[x] /\ pc[x] \in {"idle", "done"}
      BY <1>3, GoesOn
    <2>2. Exchange' /\ Undoable'
      BY <1>1, <1>3, <2>1 DEF TurnInv, Exchange, Undoable
    <2>3. AtLeast(tmp[r], r)
      BY <1>3, <2>1 DEF TurnInv, Fresh, AtLeast
    <2>4. Fresh'
      BY <1>1, <1>3, <2>1, <2>3 DEF TurnInv, Fresh, AtLeast
    <2>5. QED
      BY <2>1, <2>2, <2>4
  <1>4. CASE Goto(r, "retire", "install") /\ old' = published /\ published' = None
    <2>1. /\ pc[r] = "retire" /\ pc'[r] = "install" /\ Alone' /\ Active' \subseteq {r} /\ Active = {r}
          /\ \A x \in Requests \ {r} : pc'[x] = pc[x] /\ pc[x] \in {"idle", "done"}
      BY <1>4, GoesOn
    <2>2. Exchange' /\ Undoable'
      BY <1>1, <1>4, <2>1 DEF TurnInv, Exchange, Undoable
    <2>3. Fresh'
      BY <1>1, <1>4, <2>1 DEF TurnInv, Fresh, AtLeast
    <2>4. QED
      BY <2>1, <2>2, <2>3
  <1>5. QED
    BY <1>2, <1>3, <1>4

LEMMA InstallTurn ==
  ASSUME TurnInv, NEW r \in Requests, Install(r)
  PROVE  Alone' /\ Exchange' /\ Undoable' /\ Fresh'
  <1>1. /\ UNCHANGED <<live, edits, frozen, kills, todo, reply, found, old>>
        /\ published' = tmp[r] /\ \A x \in Requests \ {r} : tmp'[x] = tmp[x]
    BY DEF Install, site, TurnInv, ShownInv, TypeOK
  <1>2. /\ pc[r] = "install" /\ pc'[r] = "sync" /\ Alone' /\ Active' \subseteq {r} /\ Active = {r}
        /\ \A x \in Requests \ {r} : pc'[x] = pc[x] /\ pc[x] \in {"idle", "done"}
    BY GoesOn DEF Install
  <1>3. tmp[r] \in Trees /\ tmp[r] # None
    <2>1. tmp[r] \in Trees
      BY <1>2 DEF TurnInv, ShownInv, Working
    <2>2. None \notin Trees
      BY FreezeAssumption DEF Trees, Versions
    <2>3. QED
      BY <2>1, <2>2
  <1>4. Exchange' /\ Undoable'
    BY <1>1, <1>2, <1>3 DEF TurnInv, Exchange, Undoable
  <1>5. AtLeast(published, r)'
    BY <1>1, <1>2 DEF TurnInv, Fresh, AtLeast
  <1>6. ASSUME NEW x \in Requests, reply[x] = "ok"
        PROVE  AtLeast(published, x)'
    <2>1. AtLeast(tmp[r], r) /\ AtLeast(found[r].live, x)
      BY <1>2, <1>6 DEF TurnInv, Fresh
    <2>2. /\ \A p \in Pages : tmp[r][p] \in Nat /\ found[r].live[p] \in Nat /\ found[x].live[p] \in Nat
      BY <1>2, <1>3, <1>6 DEF TurnInv, Fresh, Trees, Versions
    <2>3. QED
      BY <1>1, <2>1, <2>2 DEF AtLeast
  <1>7. Fresh'
    BY <1>1, <1>2, <1>5, <1>6 DEF TurnInv, Fresh, AtLeast
  <1>8. QED
    BY <1>2, <1>4, <1>7

\* The publication is over, and so is the request in the end.
LEMMA FinishTurn ==
  ASSUME TurnInv, NEW r \in Requests, Sync(r) \/ Clean(r) \/ Write(r)
  PROVE  Alone' /\ Exchange' /\ Undoable' /\ Fresh'
  <1>1. /\ UNCHANGED <<live, edits, kills, tmp, todo, found, published>>
        /\ \A x \in Requests \ {r} : reply'[x] = reply[x]
    BY DEF Sync, Clean, Write, site, dirs, TurnInv, ShownInv, TypeOK
  <1>2. \/ Goto(r, "sync", "clean") /\ UNCHANGED <<old, frozen, reply>>
        \/ Goto(r, "clean", "write") /\ old' = None /\ UNCHANGED <<frozen, reply>>
        \/ Goto(r, "write", "done") /\ UNCHANGED old
    BY DEF Sync, Clean, Write, dirs
  <1>3. /\ \/ pc[r] = "sync" /\ pc'[r] = "clean" /\ UNCHANGED <<old, frozen, reply>>
           \/ pc[r] = "clean" /\ pc'[r] = "write" /\ old' = None /\ UNCHANGED <<frozen, reply>>
           \/ pc[r] = "write" /\ pc'[r] = "done" /\ UNCHANGED old
        /\ Alone' /\ Active' \subseteq {r} /\ Active = {r}
        /\ \A x \in Requests \ {r} : pc'[x] = pc[x] /\ pc[x] \in {"idle", "done"}
    BY <1>2, GoesOn
  <1>4. published # None /\ AtLeast(published, r)
    BY <1>3 DEF TurnInv, Exchange, Fresh
  <1>5. Exchange' /\ Undoable'
    BY <1>1, <1>3, <1>4 DEF TurnInv, Exchange, Undoable
  <1>6. pc'[r] = "done" => Active' = {} /\ old = None
    BY <1>3 DEF TurnInv, Exchange, Active
  <1>7. Fresh'
    BY <1>1, <1>3, <1>4, <1>6 DEF TurnInv, Fresh, AtLeast
  <1>8. QED
    BY <1>3, <1>5, <1>7

\* An error ends the request; what it retired is put back.
LEMMA FailTurn ==
  ASSUME TurnInv, "putBack" \notin Faults, NEW r \in Requests,
         \/ CopyFails(r) \/ RetireFails(r) \/ InstallFails(r) \/ SyncFails(r)
         \/ CleanFails(r) \/ WriteFails(r)
  PROVE  Alone' /\ Exchange' /\ Undoable' /\ Fresh'
  <1>1. PICK from \in {"copy", "retire", "install", "sync", "clean", "write"} : Fail(r, from)
    BY DEF CopyFails, RetireFails, InstallFails, SyncFails, CleanFails, WriteFails
  <1>2. /\ UNCHANGED <<live, edits, kills, todo, found>> /\ reply'[r] = "failed"
        /\ \A x \in Requests \ {r} : reply'[x] = reply[x] /\ tmp'[x] = tmp[x]
    BY <1>1 DEF CopyFails, RetireFails, InstallFails, SyncFails, CleanFails, WriteFails, Fail, site,
                TurnInv, ShownInv, TypeOK
  <1>3. /\ pc[r] = from /\ pc'[r] = "done" /\ Alone' /\ Active' \subseteq {r} /\ Active = {r}
        /\ \A x \in Requests \ {r} : pc'[x] = pc[x] /\ pc[x] \in {"idle", "done"}
    BY <1>1, GoesOn DEF Fail
  <1>4. Active' = {}
    BY <1>3 DEF Active
  <1>5. \/ UNCHANGED <<published, old, frozen>> /\ from # "install"
        \/ from = "install" /\ published' = old /\ old' = None /\ UNCHANGED frozen
        \/ from = "write" /\ UNCHANGED <<published, old>>
    <2>1. CASE InstallFails(r)
      <3>1. pc[r] = "install"
        BY <2>1 DEF InstallFails, Fail, Goto
      <3>2. published = None
        BY <3>1 DEF TurnInv, Exchange
      <3>3. QED
        BY <1>3, <2>1, <3>1, <3>2 DEF InstallFails
    <2>2. CASE WriteFails(r)
      BY <1>3, <2>2 DEF WriteFails, Fail, Goto
    <2>3. CASE CopyFails(r) \/ RetireFails(r) \/ SyncFails(r) \/ CleanFails(r)
      BY <1>3, <2>3 DEF CopyFails, RetireFails, SyncFails, CleanFails, Fail, Goto, dirs
    <2>4. QED
      BY <2>1, <2>2, <2>3
  <1>6. kills' = 0 /\ frozen' => published' # None
    BY <1>2, <1>3, <1>5 DEF TurnInv, Exchange
  <1>7. Exchange'
    BY <1>3, <1>6 DEF Exchange
  <1>8. Undoable'
    BY <1>2, <1>3 DEF TurnInv, Undoable
  <1>9. Fresh'
    BY <1>2, <1>3, <1>4, <1>5 DEF TurnInv, Fresh, AtLeast
  <1>10. QED
    BY <1>3, <1>7, <1>8, <1>9

LEMMA TurnStep ==
  ASSUME Concurrent = 1, "putBack" \notin Faults, TurnInv, [Next]_vars
  PROVE  TurnInv'
  <1>1. ShownInv'
    BY TypeStep, ShownStep DEF TurnInv, ShownInv
  <1>2. CASE UNCHANGED <<live, edits, published, old, frozen, kills, pc, tmp, todo, reply, found>>
    <2>1. Active' = Active
      BY <1>2 DEF Active
    <2>2. Alone' /\ Exchange' /\ Undoable'
      BY <1>2, <2>1 DEF TurnInv, Alone, Exchange, Undoable
    <2>3. Fresh'
      BY <1>2, <2>1 DEF TurnInv, Fresh, AtLeast
    <2>4. QED
      BY <1>1, <2>2, <2>3 DEF TurnInv
  <1>3. CASE Kill
    <2>1. /\ UNCHANGED <<live, edits, published, old, frozen, tmp, todo, reply, found>>
          /\ kills' # 0 /\ Active' = {} /\ \A r \in Requests : pc'[r] \in {"idle", "done"}
          /\ \A r \in Requests : pc'[r] = "idle" <=> pc[r] = "idle"
      BY <1>3 DEF Kill, site, dirs, Active, TurnInv, ShownInv, TypeOK
    <2>2. Alone' /\ Exchange' /\ Undoable'
      BY <2>1 DEF TurnInv, Alone, Exchange, Undoable
    <2>3. Fresh'
      BY <2>1 DEF TurnInv, Fresh, AtLeast
    <2>4. QED
      BY <1>1, <2>2, <2>3 DEF TurnInv
  <1>4. ASSUME NEW r \in Requests, SetFreeze(r)
        PROVE  Alone' /\ Exchange' /\ Undoable' /\ Fresh'
    BY <1>4, BeginTurn, CopyTurn, RetireTurn, InstallTurn, FinishTurn, FailTurn DEF SetFreeze
  <1>5. ASSUME NEW v \in Visitors, Browse(v)
        PROVE  UNCHANGED <<live, edits, published, old, frozen, kills, pc, tmp, todo, reply, found>>
    BY <1>5 DEF Browse, Visit, ReadState, ReadStateFails, Serve, site, dirs, request
  <1>6. UNCHANGED vars =>
          UNCHANGED <<live, edits, published, old, frozen, kills, pc, tmp, todo, reply, found>>
    BY DEF vars, site, dirs, request
  <1>7. QED
    BY <1>1, <1>2, <1>3, <1>4, <1>5, <1>6, EditTurn DEF Next, TurnInv

LEMMA TurnInvariance ==
  ASSUME Concurrent = 1, "putBack" \notin Faults
  PROVE  Spec => []TurnInv
  <1>1. Init => TurnInv
    <2> SUFFICES ASSUME Init PROVE TurnInv
      OBVIOUS
    <2>1. ShownInv
      BY ShownStart
    <2>2. Active = {} /\ \A r \in Requests : pc[r] = "idle" /\ reply[r] = "none"
      BY DEF Init, Active
    <2>3. Alone /\ Exchange /\ Undoable
      BY <2>2 DEF Init, Alone, Exchange, Undoable
    <2>4. Fresh
      BY <2>2 DEF Init, Fresh, Gone
    <2>5. QED
      BY <2>1, <2>3, <2>4 DEF TurnInv
  <1>2. TurnInv /\ [Next]_vars => TurnInv'
    BY TurnStep
  <1>3. QED
    BY <1>1, <1>2, PTL DEF Spec

\* If operators take turns and what was retired can be put back, a frozen site
\* has a snapshot to show unless the server was killed (publishSnapshot).
THEOREM SnapshotIsThere ==
  ASSUME Concurrent = 1, "putBack" \notin Faults
  PROVE  Spec => []FrozenIsPublished
  <1>1. TurnInv => FrozenIsPublished
    BY DEF TurnInv, Exchange, FrozenIsPublished, Active
  <1>2. QED
    BY <1>1, TurnInvariance, PTL

\* ... the snapshot has at least what had been saved when a request that
\* succeeded was made, however often the server was killed (publishSnapshot) ...
THEOREM SnapshotIsCurrent ==
  ASSUME Concurrent = 1, "putBack" \notin Faults
  PROVE  Spec => []PublishesWhatWasSaved
  <1>1. TurnInv => PublishesWhatWasSaved
    BY DEF TurnInv, Fresh, AtLeast, PublishesWhatWasSaved
  <1>2. QED
    BY <1>1, TurnInvariance, PTL

\* ... and a publication that fails up to the exchange changes nothing for
\* visitors (publishSnapshot, setFreeze).
THEOREM FailuresAreUndone ==
  ASSUME Concurrent = 1, "putBack" \notin Faults
  PROVE  Spec => FailureChangesNothing
  <1>1. TurnInv /\ [Next]_vars =>
          [\A r \in Requests :
             pc[r] \in {"copy", "retire", "install"} /\ reply'[r] = "failed" =>
               published' = found[r].published /\ frozen' = found[r].frozen]_vars
    <2> SUFFICES ASSUME TurnInv, Next, NEW r \in Requests,
                        pc[r] \in {"copy", "retire", "install"}, reply'[r] = "failed"
                 PROVE  published' = found[r].published /\ frozen' = found[r].frozen
      OBVIOUS
    <2>1. reply[r] = "none"
      BY DEF TurnInv, Fresh
    <2>2. CopyFails(r) \/ RetireFails(r) \/ InstallFails(r)
      <3>1. ASSUME NEW x \in Requests, SetFreeze(x)
            PROVE  \/ reply' = reply
                   \/ reply' = [reply EXCEPT ![x] = "ok"]
                   \/ CopyFails(x) \/ RetireFails(x) \/ InstallFails(x)
                   \/ pc[x] \in {"sync", "clean", "write"} /\ reply' = [reply EXCEPT ![x] = "failed"]
        BY <3>1 DEF SetFreeze, Begin, Look, Copy, DropOld, Retire, Install, Sync, SyncFails, Clean,
                    CleanFails, Write, WriteFails, Fail, Goto
      <3>2. ASSUME NEW x \in Requests, CopyFails(x) \/ RetireFails(x) \/ InstallFails(x)
            PROVE  reply' = [reply EXCEPT ![x] = "failed"]
        BY <3>2 DEF CopyFails, RetireFails, InstallFails, Fail
      <3>3. \/ \E x \in Requests : SetFreeze(x)
            \/ reply' = reply
        BY DEF Next, Edit, Browse, Visit, ReadState, ReadStateFails, Serve, Kill, request
      <3>4. QED
        BY <2>1, <3>1, <3>2, <3>3 DEF TurnInv, ShownInv, TypeOK
    <2>3. CASE InstallFails(r)
      <3>1. pc[r] = "install"
        BY <2>3 DEF InstallFails, Fail, Goto
      <3>2. published = None
        BY <3>1 DEF TurnInv, Exchange
      <3>3. old = found[r].published /\ frozen = found[r].frozen
        BY <3>1 DEF TurnInv, Undoable
      <3>4. QED
        BY <2>3, <3>2, <3>3 DEF InstallFails
    <2>4. CASE CopyFails(r) \/ RetireFails(r)
      <3>1. pc[r] \in {"copy", "retire"} /\ UNCHANGED <<published, frozen>>
        BY <2>4 DEF CopyFails, RetireFails, Fail, Goto, dirs
      <3>2. QED
        BY <3>1 DEF TurnInv, Undoable
    <2>5. QED
      BY <2>2, <2>3, <2>4
  <1>2. QED
    BY <1>1, TurnInvariance, PTL DEF Spec, FailureChangesNothing
=============================================================================
