-------------------------------- MODULE Auth --------------------------------
(***************************************************************************)
(* Who may act on the site: the user store auth/users.json (join, login,   *)
(* change of the password, recovery tokens) and the session map in memory  *)
(* (login, logout, requireAuth).                                           *)
(*                                                                         *)
(* Every change of the store reads the whole file, changes it and replaces *)
(* it (atomicWriteFile) under authStoreMu; a login does so too, for        *)
(* LastVisitTime.  hasPersistentUsers reads it without the mutex.  A       *)
(* session is named by the request that opened it, a recovery token by the *)
(* request that issued it.  Calls carry the CSRF token of their session.   *)
(***************************************************************************)
EXTENDS Naturals, Sequences, FiniteSets

CONSTANTS
  Requests,
  Passwords,
  EnvPassword,   \* SITEBRUSH_ADMIN_PASSWORD (None: not configured)
  None,
  Faults,        \* the steps whose system calls may fail
  MaxKills,      \* bound: kills of the process
  MaxPowerLosses \* bound: power losses

Kinds == {"join", "login", "change", "logout", "issue", "redeem"}

ASSUME AuthAssumption ==
  /\ EnvPassword \in Passwords \cup {None}
  /\ None \notin Requests \cup Passwords
  /\ Faults \subseteq {"read", "write", "sync", "random"}
  /\ MaxKills \in Nat /\ MaxPowerLosses \in Nat

VARIABLES
  pc,       \* pc[r]: the next step of r's handler
  call,     \* call[r]: what it asks for
  copy,     \* copy[r]: the store as it loaded it
  reply,    \* reply[r]: the answer, "none" before there is one
  mutex,    \* who holds authStoreMu
  store, disk,  \* users.json: visible, and durable
  sessions, \* sessionStore.sessions, by the request that opened them
  expired,  \* those whose ExpiresAt is past
  source,   \* source[r]: AuthSource of the session r opened
  ended,    \* sessions destroyed, expired or lost: history
  late,     \* requests whose session had ended when they arrived: history
  known,    \* requests that arrived after a join was answered: history
  order,    \* those that set the password, in order: history
  kills, losses

history == <<ended, late, known, order>>
downs   == <<kills, losses>>
vars    == <<pc, call, copy, reply, mutex, store, disk, sessions, expired, source, history, downs>>

NoStore == [admin |-> None, pw |-> None, by |-> None, issued |-> {}, used |-> {}]
NoCall  == [kind |-> "none", pw |-> None, new |-> None, email |-> "", key |-> None]

Init ==
  /\ pc = [r \in Requests |-> "idle"]
  /\ call = [r \in Requests |-> NoCall]
  /\ copy = [r \in Requests |-> NoStore]
  /\ reply = [r \in Requests |-> "none"]
  /\ mutex = None
  /\ store = NoStore /\ disk = NoStore
  /\ sessions = {} /\ expired = {}
  /\ source = [r \in Requests |-> "none"]
  /\ ended = {} /\ late = {} /\ known = {} /\ order = <<>>
  /\ kills = 0 /\ losses = 0

Kind(r) == call[r].kind

Goto(r, from, to) == pc[r] = from /\ pc' = [pc EXCEPT ![r] = to]

Answer(r, from, what) == Goto(r, from, "done") /\ reply' = [reply EXCEPT ![r] = what]

Joined == {r \in Requests : Kind(r) = "join" /\ reply[r] = "ok"}
-----------------------------------------------------------------------------
(* The requests *)

Begin(r, c, first) ==
  /\ Goto(r, "idle", first)
  /\ call' = [call EXCEPT ![r] = c]
  /\ late' = IF c.key \in ended THEN late \cup {r} ELSE late
  /\ known' = IF Joined # {} THEN known \cup {r} ELSE known
  /\ UNCHANGED <<copy, reply, mutex, store, disk, sessions, expired, source, ended, order, downs>>

\* POST ?join with the bootstrap token.
Join(r) == \E p \in Passwords :
  Begin(r, [NoCall EXCEPT !.kind = "join", !.pw = p], "has")

\* POST ?login: without an email, with the administrator's, or with another.
Login(r) == \E p \in Passwords, e \in {"", "admin", "other"} :
  Begin(r, [NoCall EXCEPT !.kind = "login", !.pw = p, !.email = e], "has")

\* The cookie of session x was handed out.
Cookie(x) == reply[x] = "ok" /\ source[x] # "none"

\* POST ?profile with the cookie of session x.
Change(r) == \E p, q \in Passwords, x \in Requests :
  /\ Cookie(x)
  /\ Begin(r, [NoCall EXCEPT !.kind = "change", !.pw = p, !.new = q, !.key = x], "auth")

\* POST ?logout.
Logout(r) == \E x \in Requests :
  /\ Cookie(x)
  /\ Begin(r, [NoCall EXCEPT !.kind = "logout", !.key = x], "auth")

\* createRecoveryToken and verifyRecoveryToken, for which no handler exists yet.
Issue(r) == Begin(r, [NoCall EXCEPT !.kind = "issue"], "load")

Redeem(r) == \E x \in Requests :
  /\ Kind(x) = "issue" /\ reply[x] = "ok"
  /\ Begin(r, [NoCall EXCEPT !.kind = "redeem", !.key = x], "load")
-----------------------------------------------------------------------------
(* The user store *)

\* login: hasPersistentUsers decides which password counts; the environment's
\* is for a site without users, or for a login that names no email.
HasLogin(r) ==
  /\ pc[r] = "has" /\ Kind(r) = "login"
  /\ IF store.admin # None /\ call[r].email # ""
     THEN Goto(r, "has", "load") /\ UNCHANGED <<reply, source>>
     ELSE IF call[r].pw = EnvPassword
     THEN /\ Goto(r, "has", "open") /\ source' = [source EXCEPT ![r] = "env"]
          /\ UNCHANGED reply
     ELSE Answer(r, "has", "refused") /\ UNCHANGED source
  /\ UNCHANGED <<call, copy, mutex, store, disk, sessions, expired, history, downs>>

\* join: only for a site without users.
HasJoin(r) ==
  /\ pc[r] = "has" /\ Kind(r) = "join"
  /\ IF store.admin # None
     THEN Answer(r, "has", "refused")
     ELSE Goto(r, "has", "load") /\ UNCHANGED reply
  /\ UNCHANGED <<call, copy, mutex, store, disk, sessions, expired, source, history, downs>>

\* Mutant: createFirstAdmin relies on what join has seen.
Accepts_UncheckedJoin(r, s) ==
  CASE Kind(r) \in {"join", "issue"} -> TRUE
    [] Kind(r) = "login"  -> call[r].email = "admin" /\ s.pw = call[r].pw
    [] Kind(r) = "change" -> s.pw = call[r].pw
    [] Kind(r) = "redeem" -> call[r].key \in s.issued \ s.used

\* What each operation demands of the store it loads under the mutex ...
Accepts(r, s) ==
  CASE Kind(r) = "join"   -> s.admin = None
    [] Kind(r) = "login"  -> call[r].email = "admin" /\ s.pw = call[r].pw
    [] Kind(r) = "change" -> s.pw = call[r].pw
    [] Kind(r) = "issue"  -> TRUE
    [] Kind(r) = "redeem" -> call[r].key \in s.issued \ s.used

\* ... and makes of it.  A login changes LastVisitTime only.
Effect(r, s) ==
  CASE Kind(r) = "join"   -> [s EXCEPT !.admin = r, !.pw = call[r].pw, !.by = r]
    [] Kind(r) = "login"  -> s
    [] Kind(r) = "change" -> [s EXCEPT !.pw = call[r].new, !.by = r]
    [] Kind(r) = "issue"  -> [s EXCEPT !.issued = @ \cup {r}]
    [] Kind(r) = "redeem" -> [s EXCEPT !.used = @ \cup {call[r].key}]

\* Mutant: no mutex.
Load_Open(r) ==
  /\ Goto(r, "load", "write")
  /\ Accepts(r, store)
  /\ copy' = [copy EXCEPT ![r] = store]
  /\ UNCHANGED <<call, reply, mutex, store, disk, sessions, expired, source, history, downs>>

\* authStoreMu.Lock and loadAuthStore.
Load(r) ==
  /\ Goto(r, "load", "write")
  /\ mutex = None
  /\ Accepts(r, store)
  /\ mutex' = r
  /\ copy' = [copy EXCEPT ![r] = store]
  /\ UNCHANGED <<call, reply, store, disk, sessions, expired, source, history, downs>>

\* Wrong credentials, a used or expired token, or users exist already.
Refuse(r) ==
  /\ Answer(r, "load", "refused")
  /\ mutex = None
  /\ ~Accepts(r, store) \/ Kind(r) = "redeem"
  /\ UNCHANGED <<call, copy, mutex, store, disk, sessions, expired, source, history, downs>>

LoadFails(r) ==
  /\ "read" \in Faults
  /\ \/ Answer(r, "has", "failed")
     \/ Answer(r, "load", "failed") /\ mutex = None
  /\ UNCHANGED <<call, copy, mutex, store, disk, sessions, expired, source, history, downs>>

\* saveAuthStore: the rename ...
Write(r) ==
  /\ Goto(r, "write", "sync")
  /\ store' = Effect(r, copy[r])
  /\ order' = IF Kind(r) \in {"join", "change"} THEN Append(order, r) ELSE order
  /\ UNCHANGED <<call, copy, reply, mutex, disk, sessions, expired, source, ended, late, known, downs>>

\* Mutants: the error keeps the mutex, or is not looked at.
SaveFails_Locked(r) ==
  /\ \/ "write" \in Faults /\ Answer(r, "write", "failed")
     \/ "sync" \in Faults /\ Answer(r, "sync", "failed")
  /\ UNCHANGED <<call, copy, mutex, store, disk, sessions, expired, source, history, downs>>

SaveFails_Ignored(r) ==
  /\ \/ "write" \in Faults /\ Answer(r, "write", "ok")
     \/ "sync" \in Faults /\ Answer(r, "sync", "ok")
  /\ mutex' = None
  /\ UNCHANGED <<call, copy, store, disk, sessions, expired, source, history, downs>>

\* ... which may fail, as may the directory sync after it.
SaveFails(r) ==
  /\ \/ "write" \in Faults /\ Answer(r, "write", "failed")
     \/ "sync" \in Faults /\ Answer(r, "sync", "failed")
  /\ mutex' = None
  /\ UNCHANGED <<call, copy, store, disk, sessions, expired, source, history, downs>>

\* ... and the sync; login and join go on to open a session.
Sync(r) ==
  /\ IF Kind(r) \in {"login", "join"}
     THEN Goto(r, "sync", "open") /\ UNCHANGED reply
     ELSE Answer(r, "sync", "ok")
  /\ disk' = store
  /\ mutex' = None
  /\ UNCHANGED <<call, copy, store, sessions, expired, source, history, downs>>
-----------------------------------------------------------------------------
(* The sessions *)

\* createForUser.
Open(r) ==
  /\ Answer(r, "open", "ok")
  /\ sessions' = sessions \cup {r}
  /\ source' = [source EXCEPT ![r] = IF @ = "env" THEN "env" ELSE "persistent"]
  /\ UNCHANGED <<call, copy, mutex, store, disk, expired, history, downs>>

\* randomToken fails: the user may exist, or have been verified, all the same.
OpenFails(r) ==
  /\ "random" \in Faults
  /\ Answer(r, "open", "failed")
  /\ source' = [source EXCEPT ![r] = "none"]
  /\ UNCHANGED <<call, copy, mutex, store, disk, sessions, expired, history, downs>>

\* requireAuth; the profile of a session of the environment cannot be changed.
Authorise(r) ==
  /\ call[r].key \in sessions \ expired
  /\ IF Kind(r) = "logout" THEN Goto(r, "auth", "destroy") /\ UNCHANGED reply
     ELSE IF source[call[r].key] = "env" THEN Answer(r, "auth", "refused")
     ELSE Goto(r, "auth", "load") /\ UNCHANGED reply
  /\ UNCHANGED <<call, copy, mutex, store, disk, sessions, expired, source, history, downs>>

\* No session, or an expired one, which is deleted.
Unauthorised(r) ==
  /\ Answer(r, "auth", "refused")
  /\ call[r].key \notin sessions \ expired
  /\ sessions' = sessions \ {call[r].key}
  /\ UNCHANGED <<call, copy, mutex, store, disk, expired, source, history, downs>>

\* Mutant: only the cookie is cleared.
Destroy_CookieOnly(r) ==
  /\ Answer(r, "destroy", "ok")
  /\ ended' = ended \cup {call[r].key}
  /\ UNCHANGED <<call, copy, mutex, store, disk, sessions, expired, source, late, known, order, downs>>

\* logout: sessions.destroy.
Destroy(r) ==
  /\ Answer(r, "destroy", "ok")
  /\ sessions' = sessions \ {call[r].key}
  /\ ended' = ended \cup {call[r].key}
  /\ UNCHANGED <<call, copy, mutex, store, disk, expired, source, late, known, order, downs>>

\* sessionDuration passes.
Expire(x) ==
  /\ x \in sessions \ expired
  /\ expired' = expired \cup {x}
  /\ ended' = ended \cup {x}
  /\ UNCHANGED <<pc, call, copy, reply, mutex, store, disk, sessions, source, late, known, order, downs>>

\* A restart finds no session, no mutex held and no request in flight.
Restart ==
  /\ pc' = [r \in Requests |-> IF pc[r] \in {"idle", "done"} THEN pc[r] ELSE "killed"]
  /\ source' = [r \in Requests |-> IF pc[r] = "open" THEN "none" ELSE source[r]]
  /\ mutex' = None /\ sessions' = {}
  /\ ended' = ended \cup sessions
  /\ UNCHANGED <<call, copy, reply, expired, late, known, order>>

Kill == /\ kills < MaxKills /\ kills' = kills + 1
        /\ Restart
        /\ UNCHANGED <<store, disk, losses>>

\* A rename that was not synced may be undone.
PowerLoss == /\ losses < MaxPowerLosses /\ losses' = losses + 1
             /\ Restart
             /\ store' \in {store, disk} /\ disk' = store'
             /\ UNCHANGED kills

Arrive(r) == Join(r) \/ Login(r) \/ Change(r) \/ Logout(r) \/ Issue(r) \/ Redeem(r)

Step(r) == \/ HasLogin(r) \/ HasJoin(r)
           \/ Load(r) \/ Refuse(r) \/ LoadFails(r) \/ Write(r) \/ SaveFails(r) \/ Sync(r)
           \/ Open(r) \/ OpenFails(r) \/ Authorise(r) \/ Unauthorised(r) \/ Destroy(r)
           \/ Expire(r)

Next == (\E r \in Requests : Arrive(r) \/ Step(r)) \/ Kill \/ PowerLoss

Spec == Init /\ [][Next]_vars
-----------------------------------------------------------------------------
(* Correctness *)

Stores == [admin : Requests \cup {None}, pw : Passwords \cup {None},
           by : Requests \cup {None}, issued : SUBSET Requests, used : SUBSET Requests]

TypeOK ==
  /\ pc \in [Requests -> {"idle", "has", "load", "write", "sync", "open", "auth",
                          "destroy", "done", "killed"}]
  /\ \A r \in Requests : Kind(r) \in Kinds \cup {"none"}
  /\ reply \in [Requests -> {"none", "ok", "refused", "failed"}]
  /\ copy \in [Requests -> Stores] /\ store \in Stores /\ disk \in Stores
  /\ sessions \subseteq Requests /\ expired \subseteq Requests
  /\ source \in [Requests -> {"none", "env", "persistent"}]
  /\ mutex \in Requests \cup {None}
  /\ mutex # None => pc[mutex] \in {"write", "sync"}

\* The first administrator, once acknowledged, is there for good: no second
\* join, however it overlaps the first, and no crash takes the account away,
\* and a login that names an email is never let in by the environment's
\* password again (createFirstAdmin, login).
FirstAdminStands ==
  /\ \A r \in Joined : store.admin = r /\ disk.admin = r
  /\ \A x \in known : call[x].email # "" => source[x] # "env"

\* A password, once its change (or the join) is acknowledged, is only ever
\* superseded by a later one: no login that saves the store it loaded before,
\* no failed save and no crash brings an older password back.
PasswordStands ==
  \A r \in Requests : Kind(r) \in {"join", "change"} /\ reply[r] = "ok" =>
    \E i \in DOMAIN order : /\ order[i] = r
                            /\ store.by \in {order[j] : j \in i..Len(order)}
                            /\ disk.by \in {order[j] : j \in i..Len(order)}

\* A recovery token is accepted once: not by two requests at once, and not
\* again after a failed save or a crash (verifyRecoveryToken).
TokenOnce ==
  \A x, y \in Requests :
    /\ Kind(x) = "redeem" /\ Kind(y) = "redeem" /\ call[x].key = call[y].key
    /\ reply[x] = "ok" /\ reply[y] = "ok"
    => x = y

\* "Logout invalidates the current session and prevents reuse of the old
\* cookie": a request that comes after its session was destroyed, had expired
\* or was lost in a restart does nothing.
LoggedOutStaysOut ==
  \A r \in late : pc[r] \in {"auth", "killed"} \/ reply[r] = "refused"
=============================================================================
