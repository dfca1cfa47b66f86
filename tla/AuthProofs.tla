----------------------------- MODULE AuthProofs -----------------------------
(***************************************************************************)
(* The safety properties of Auth for any number of requests, passwords,    *)
(* failures, kills and power losses.  The argument: whoever is between     *)
(* loading and syncing the store holds authStoreMu, so what it writes is   *)
(* an effect of the store as it is; administrators and used tokens are     *)
(* never taken away by an effect, and what an answer was given for is on   *)
(* disk; a session that ended is not among the valid ones, and only the    *)
(* request that opened it could put it there.                              *)
(***************************************************************************)
EXTENDS Auth, SequenceTheorems, TLAPS

EmailsOf == {"", "admin", "other"}

Typed ==
  /\ pc \in [Requests -> {"idle", "has", "load", "write", "sync", "open", "auth",
                          "destroy", "done", "killed"}]
  /\ reply \in [Requests -> {"none", "ok", "refused", "failed"}]
  /\ copy \in [Requests -> Stores] /\ store \in Stores /\ disk \in Stores
  /\ sessions \subseteq Requests /\ expired \subseteq Requests
  /\ source \in [Requests -> {"none", "env", "persistent"}]
  /\ mutex \in Requests \cup {None}
  /\ call \in [Requests -> [kind : Kinds \cup {"none"}, pw : Passwords \cup {None},
                            new : Passwords \cup {None}, email : EmailsOf,
                            key : Requests \cup {None}]]
  /\ ended \subseteq Requests /\ late \subseteq Requests /\ known \subseteq Requests
  /\ order \in Seq(Requests)

\* Which operation is at which step, and what its session or token is.
Staged == \A r \in Requests :
  /\ (pc[r] = "done") <=> (reply[r] # "none")
  /\ (pc[r] = "idle") <=> (Kind(r) = "none")
  /\ pc[r] = "idle" => source[r] = "none"
  /\ pc[r] \in {"has", "open"} => Kind(r) \in {"join", "login"}
  /\ pc[r] = "auth" => Kind(r) \in {"change", "logout"}
  /\ pc[r] = "destroy" => Kind(r) = "logout"
  /\ pc[r] \in {"load", "write", "sync"} => Kind(r) \notin {"none", "logout"}
  /\ source[r] # "none" => Kind(r) \in {"join", "login"}
  /\ Kind(r) \in {"change", "logout"} => call[r].key \in Requests /\ Cookie(call[r].key)
  /\ Kind(r) = "redeem" => call[r].key \in Requests /\ Kind(call[r].key) = "issue"
  /\ Kind(r) \in {"none", "join", "login", "issue"} => call[r].key = None

\* authStoreMu is held from the load to the sync, so the copy is the store.
Guarded == \A r \in Requests :
  /\ (pc[r] \in {"write", "sync"}) <=> (mutex = r)
  /\ pc[r] = "write" =>
       /\ copy[r] = store
       /\ Kind(r) = "join" => store.admin = None
       /\ Kind(r) = "redeem" => call[r].key \notin store.used

Setter(r) == Kind(r) \in {"join", "change"}

\* What a request has written is in the store until it is synced.
Written == \A r \in Requests : pc[r] = "sync" =>
  /\ Kind(r) = "join" => store.admin = r
  /\ Kind(r) = "redeem" => call[r].key \in store.used
  /\ Setter(r) => store.by = r /\ order # <<>> /\ order[Len(order)] = r

\* The durable store is never ahead of the visible one.
Behind == /\ disk.used \subseteq store.used
          /\ disk.admin # None => store.admin = disk.admin

Past(r) == reply[r] = "ok" \/ pc[r] = "open"

\* What has been answered, or is about to be, is durable.
Durable == \A r \in Requests : Past(r) =>
  /\ Kind(r) = "join" => disk.admin = r
  /\ Kind(r) = "redeem" => call[r].key \in disk.used

\* A used token is in nobody's hands.
Spent == \A x, y \in Requests :
  Kind(x) = "redeem" /\ Kind(y) = "redeem" /\ call[x].key = call[y].key
    /\ reply[x] = "ok" /\ x # y
  => reply[y] # "ok" /\ pc[y] \notin {"write", "sync"}

Since(i) == {order[j] : j \in i..Len(order)}

\* PasswordStands, from the sync on.
Standing == \A r \in Requests : Setter(r) /\ Past(r) =>
  \E i \in DOMAIN order : order[i] = r /\ store.by \in Since(i) /\ disk.by \in Since(i)

\* Requests that arrived after a join were not let in by the environment.
Settled ==
  /\ known # {} => \E j \in Requests : Kind(j) = "join" /\ reply[j] = "ok"
  /\ \A x \in Requests : x \in known =>
       pc[x] # "idle" /\ (call[x].email # "" => source[x] # "env")

\* A session that has ended was open, and is not valid any more.
Over ==
  /\ \A x \in Requests : x \in sessions \/ x \in ended => Cookie(x)
  /\ \A x \in Requests : x \in sessions /\ x \in ended => x \in expired

Barred == \A r \in Requests : r \in late =>
  /\ Kind(r) \in {"change", "logout"} /\ call[r].key \in ended
  /\ pc[r] \in {"auth", "killed"} \/ reply[r] = "refused"

IndInv == /\ Typed /\ Staged /\ Guarded /\ Written /\ Behind /\ Durable /\ Spent
          /\ Standing /\ Settled /\ Over /\ Barred
-----------------------------------------------------------------------------
(* The steps, the simple ones first *)

\* A request is turned down, or fails before it has changed anything.
LEMMA Ends ==
  ASSUME IndInv, NEW r \in Requests, NEW answer \in {"refused", "failed"},
         pc[r] \in {"has", "load"} \/ (pc[r] = "auth" /\ answer = "refused"),
         pc' = [pc EXCEPT ![r] = "done"], reply' = [reply EXCEPT ![r] = answer],
         sessions' \subseteq sessions,
         UNCHANGED <<call, copy, mutex, store, disk, expired, source, ended, late, known, order>>
  PROVE  IndInv'
  <1>1. /\ \A x \in Requests \ {r} : pc'[x] = pc[x] /\ reply'[x] = reply[x]
        /\ pc'[r] = "done" /\ reply'[r] = answer /\ reply[r] = "none"
    BY DEF IndInv, Typed, Staged
  <1>2. Typed'
    BY DEF IndInv, Typed
  <1>3. Staged'
    BY <1>1 DEF IndInv, Staged, Kind, Cookie
  <1>4. Guarded'
    BY <1>1 DEF IndInv, Guarded, Kind, Staged
  <1>5. Written'
    BY <1>1 DEF IndInv, Written, Setter, Kind, Staged
  <1>6. Behind'
    BY <1>1 DEF IndInv, Behind
  <1>7. Durable'
    BY <1>1 DEF IndInv, Durable, Past, Kind, Staged
  <1>8. Spent'
    BY <1>1 DEF IndInv, Spent, Kind, Staged
  <1>9. Standing'
    BY <1>1 DEF IndInv, Standing, Setter, Past, Since, Kind, Staged
  <1>10. Settled'
    BY <1>1 DEF IndInv, Settled, Kind
  <1>11. Over'
    BY <1>1 DEF IndInv, Over, Cookie, Kind, Staged
  <1>12. Barred'
    BY <1>1 DEF IndInv, Barred, Kind, Staged
  <1>13. QED
    BY <1>2, <1>3, <1>4, <1>5, <1>6, <1>7, <1>8, <1>9, <1>10, <1>11, <1>12 DEF IndInv

\* A request goes on to the store or to the session map.
LEMMA Advances ==
  ASSUME IndInv, NEW r \in Requests, NEW next \in {"load", "destroy"},
         pc[r] \in {"has", "auth"}, pc' = [pc EXCEPT ![r] = next],
         (next = "destroy") <=> (Kind(r) = "logout"),
         pc[r] = "auth" => call[r].key \in sessions \ expired,
         UNCHANGED <<call, copy, reply, mutex, store, disk, sessions, expired, source,
                     ended, late, known, order>>
  PROVE  IndInv'
  <1>1. /\ \A x \in Requests \ {r} : pc'[x] = pc[x]
        /\ pc'[r] = next /\ reply[r] = "none"
    BY DEF IndInv, Typed, Staged
  <1>2. Typed'
    BY DEF IndInv, Typed
  <1>3. Staged'
    BY <1>1 DEF IndInv, Staged, Kind, Cookie
  <1>4. Guarded'
    BY <1>1 DEF IndInv, Guarded, Kind, Staged
  <1>5. Written'
    BY <1>1 DEF IndInv, Written, Setter, Kind, Staged
  <1>6. Behind'
    BY <1>1 DEF IndInv, Behind
  <1>7. Durable'
    BY <1>1 DEF IndInv, Durable, Past, Kind, Staged
  <1>8. Spent'
    BY <1>1 DEF IndInv, Spent, Kind, Staged
  <1>9. Standing'
    BY <1>1 DEF IndInv, Standing, Setter, Past, Since, Kind, Staged
  <1>10. Settled'
    BY <1>1 DEF IndInv, Settled, Kind
  <1>11. Over'
    BY <1>1 DEF IndInv, Over, Cookie, Kind, Staged
  <1>12. Barred'
    BY <1>1 DEF IndInv, Barred, Over, Kind, Staged
  <1>13. QED
    BY <1>2, <1>3, <1>4, <1>5, <1>6, <1>7, <1>8, <1>9, <1>10, <1>11, <1>12 DEF IndInv

LEMMA HasLoginStep ==
  ASSUME IndInv, NEW r \in Requests, HasLogin(r)
  PROVE  IndInv'
  <1>1. CASE pc' = [pc EXCEPT ![r] = "load"] /\ UNCHANGED <<reply, source>>
    BY <1>1, Advances DEF HasLogin, history, Kind
  <1>2. CASE pc' = [pc EXCEPT ![r] = "done"] /\ UNCHANGED source
             /\ reply' = [reply EXCEPT ![r] = "refused"]
    BY <1>2, Ends DEF HasLogin, history
  <1>3. CASE /\ pc' = [pc EXCEPT ![r] = "open"] /\ source' = [source EXCEPT ![r] = "env"]
             /\ UNCHANGED reply
             /\ store.admin = None \/ call[r].email = ""
    <2>0. /\ pc[r] = "has" /\ Kind(r) = "login"
          /\ UNCHANGED <<call, copy, reply, mutex, store, disk, sessions, expired,
                         ended, late, known, order>>
      BY <1>3 DEF HasLogin, history
    <2>1. /\ \A x \in Requests \ {r} : pc'[x] = pc[x] /\ source'[x] = source[x]
          /\ pc'[r] = "open" /\ source'[r] = "env" 
      BY <1>3, <2>0 DEF IndInv, Typed
    <2>11. reply[r] = "none"
      BY <2>0 DEF IndInv, Staged
    <2>2. Typed'
      BY <1>3, <2>0 DEF IndInv, Typed
    <2>3. Staged'
      BY <2>0, <2>1, <2>11 DEF IndInv, Staged, Kind, Cookie
    <2>4. Guarded' /\ Written' /\ Behind'
      BY <2>0, <2>1, <2>11 DEF IndInv, Guarded, Written, Behind, Setter, Kind
    <2>5. Durable'
      BY <2>0, <2>1, <2>11 DEF IndInv, Durable, Past, Kind
    <2>6. Spent'
      BY <2>0, <2>1, <2>11 DEF IndInv, Spent, Kind
    <2>7. Standing'
      BY <2>0, <2>1, <2>11 DEF IndInv, Standing, Setter, Past, Since, Kind
    <2>8. Settled'
      <3>1. known # {} => store.admin # None
        BY AuthAssumption DEF IndInv, Settled, Durable, Past, Behind, Kind
      <3>2. QED
        BY <1>3, <2>0, <2>1, <3>1 DEF IndInv, Settled, Kind
    <2>9. Over' /\ Barred'
      BY <2>0, <2>1, <2>11 DEF IndInv, Over, Barred, Cookie, Kind
    <2>10. QED
      BY <2>2, <2>3, <2>4, <2>5, <2>6, <2>7, <2>8, <2>9 DEF IndInv
  <1>4. QED
    BY <1>1, <1>2, <1>3 DEF HasLogin, Goto, Answer

LEMMA HasJoinStep ==
  ASSUME IndInv, NEW r \in Requests, HasJoin(r)
  PROVE  IndInv'
  <1>1. CASE store.admin # None
    BY <1>1, Ends DEF HasJoin, Answer, Goto, history
  <1>2. CASE store.admin = None
    BY <1>2, Advances DEF HasJoin, Goto, history, Kind
  <1>3. QED
    BY <1>1, <1>2

LEMMA RefuseStep ==
  ASSUME IndInv, NEW r \in Requests, Refuse(r) \/ LoadFails(r)
  PROVE  IndInv'
  <1>1. \E answer \in {"refused", "failed"} :
          /\ pc[r] \in {"has", "load"}
          /\ pc' = [pc EXCEPT ![r] = "done"] /\ reply' = [reply EXCEPT ![r] = answer]
    BY DEF Refuse, LoadFails, Answer, Goto
  <1>2. QED
    BY <1>1, Ends DEF Refuse, LoadFails, history

LEMMA AuthoriseStep ==
  ASSUME IndInv, NEW r \in Requests, Authorise(r) \/ Unauthorised(r)
  PROVE  IndInv'
  <1>1. CASE Unauthorised(r)
    BY <1>1, Ends DEF Unauthorised, Answer, Goto, history
  <1>2. CASE Authorise(r) /\ Kind(r) = "logout"
    BY <1>2, Advances DEF Authorise, Goto, history
  <1>3. CASE Authorise(r) /\ Kind(r) # "logout" /\ source[call[r].key] = "env"
    BY <1>3, Ends DEF Authorise, Answer, Goto, history
  <1>4. CASE Authorise(r) /\ Kind(r) # "logout" /\ source[call[r].key] # "env"
    BY <1>4, Advances DEF Authorise, Goto, history
  <1>5. QED
    BY <1>1, <1>2, <1>3, <1>4

LEMMA LoadStep ==
  ASSUME IndInv, NEW r \in Requests, Load(r)
  PROVE  IndInv'
  <1>1. /\ UNCHANGED <<call, reply, store, disk, sessions, expired, source, ended, late, known, order>>
        /\ pc[r] = "load" /\ mutex = None /\ mutex' = r
        /\ \A x \in Requests \ {r} : pc'[x] = pc[x] /\ copy'[x] = copy[x]
        /\ pc'[r] = "write" /\ copy'[r] = store
    BY DEF IndInv, Typed, Load, Goto, history
  <1>2. reply[r] = "none" /\ Kind(r) \notin {"none", "logout"}
    BY <1>1 DEF IndInv, Staged
  <1>3. /\ Kind(r) = "join" => store.admin = None
        /\ Kind(r) = "redeem" => call[r].key \notin store.used
    BY DEF Load, Accepts
  <1>4. Typed'
    BY DEF IndInv, Typed, Load, Goto, history
  <1>5. Staged'
    BY <1>1, <1>2 DEF IndInv, Staged, Kind, Cookie
  <1>6. Guarded'
    BY <1>1, <1>3, AuthAssumption DEF IndInv, Guarded, Kind
  <1>7. Written'
    BY <1>1 DEF IndInv, Written, Setter, Kind, Staged
  <1>8. Behind'
    BY <1>1 DEF IndInv, Behind
  <1>9. Durable'
    BY <1>1 DEF IndInv, Durable, Past, Kind, Staged
  <1>10. Spent'
    BY <1>1, <1>3 DEF IndInv, Spent, Durable, Behind, Past, Kind
  <1>11. Standing'
    BY <1>1 DEF IndInv, Standing, Setter, Past, Since, Kind, Staged
  <1>12. Settled'
    BY <1>1 DEF IndInv, Settled, Kind
  <1>13. Over'
    BY <1>1 DEF IndInv, Over, Cookie, Kind, Staged
  <1>14. Barred'
    BY <1>1 DEF IndInv, Barred, Kind, Staged
  <1>15. QED
    BY <1>4, <1>5, <1>6, <1>7, <1>8, <1>9, <1>10, <1>11, <1>12, <1>13, <1>14 DEF IndInv

LEMMA WriteStep ==
  ASSUME IndInv, NEW r \in Requests, Write(r)
  PROVE  IndInv'
  <1>1. /\ UNCHANGED <<call, copy, reply, mutex, disk, sessions, expired, source, ended, late, known>>
        /\ pc[r] = "write" /\ pc'[r] = "sync" /\ mutex = r /\ reply[r] = "none"
        /\ \A x \in Requests \ {r} : pc'[x] = pc[x]
        /\ order' = IF Setter(r) THEN Append(order, r) ELSE order
    BY DEF IndInv, Typed, Staged, Guarded, Write, Goto, Setter, Kind, history
  <1>2. /\ store' = Effect(r, store) /\ store \in Stores /\ Kind(r) \notin {"none", "logout"}
        /\ call[r].pw \in Passwords \cup {None} /\ call[r].new \in Passwords \cup {None}
        /\ Kind(r) = "redeem" => call[r].key \in Requests
        /\ Kind(r) \in Kinds \cup {"none"}
    BY DEF IndInv, Typed, Staged, Guarded, Write, Goto, Kind, history
  <1>3. /\ store' \in Stores
        /\ store'.admin = IF Kind(r) = "join" THEN r ELSE store.admin
        /\ store'.used = IF Kind(r) = "redeem" THEN store.used \cup {call[r].key} ELSE store.used
        /\ store'.by = IF Setter(r) THEN r ELSE store.by
    BY <1>2 DEF Effect, Stores, Setter, Kinds
  <1>4. Kind(r) = "join" => store.admin = None
    BY <1>1 DEF IndInv, Guarded
  <1>5. order \in Seq(Requests) /\ order' \in Seq(Requests)
    BY <1>1 DEF IndInv, Typed
  <1>6. Typed'
    BY <1>1, <1>3, <1>5 DEF IndInv, Typed, Write, Goto
  <1>7. Staged'
    BY <1>1 DEF IndInv, Staged, Kind, Cookie
  <1>8. Guarded'
    BY <1>1 DEF IndInv, Guarded, Kind
  <1>9. Written'
    BY <1>1, <1>3, <1>5 DEF IndInv, Written, Guarded, Setter, Kind
  <1>10. Behind'
    BY <1>1, <1>3, <1>4 DEF IndInv, Behind
  <1>11. Durable'
    BY <1>1 DEF IndInv, Durable, Past, Kind, Staged
  <1>12. Spent'
    BY <1>1 DEF IndInv, Spent, Kind, Staged
  <1>13. Standing'
    <2>1. SUFFICES ASSUME NEW x \in Requests, Setter(x)', Past(x)'
                   PROVE  \E i \in DOMAIN order' : /\ order'[i] = x
                            /\ store'.by \in Since(i)' /\ disk'.by \in Since(i)'
      BY DEF Standing
    <2>2. Setter(x) /\ Past(x)
      BY <1>1, <2>1 DEF Setter, Past, Kind
    <2>3. PICK i \in DOMAIN order : /\ order[i] = x
                                    /\ store.by \in Since(i) /\ disk.by \in Since(i)
      BY <2>2 DEF IndInv, Standing
    <2>4. CASE Setter(r)
      <3>1. order' = Append(order, r)
        BY <1>1, <2>4
      <3>2. /\ i \in DOMAIN order' /\ order'[i] = x /\ Len(order') = Len(order) + 1
            /\ order'[Len(order')] = r /\ \A j \in 1..Len(order) : order'[j] = order[j]
            /\ i \in 1..Len(order)
        BY <1>5, <2>3, <3>1
      <3>3. Since(i) \subseteq Since(i)' /\ r \in Since(i)'
        BY <1>5, <3>2 DEF Since
      <3>4. QED
        BY <1>1, <1>3, <2>3, <2>4, <3>2, <3>3
    <2>5. CASE ~Setter(r)
      BY <1>1, <1>3, <2>3, <2>5 DEF Since
    <2>6. QED
      BY <2>4, <2>5
  <1>14. Settled'
    BY <1>1 DEF IndInv, Settled, Kind
  <1>15. Over'
    BY <1>1 DEF IndInv, Over, Cookie, Kind, Staged
  <1>16. Barred'
    BY <1>1 DEF IndInv, Barred, Kind, Staged
  <1>17. QED
    BY <1>6, <1>7, <1>8, <1>9, <1>10, <1>11, <1>12, <1>13, <1>14, <1>15, <1>16 DEF IndInv

LEMMA SaveFailsStep ==
  ASSUME IndInv, NEW r \in Requests, SaveFails(r)
  PROVE  IndInv'
  <1>1. /\ UNCHANGED <<call, copy, store, disk, sessions, expired, source, ended, late, known, order>>
        /\ pc[r] \in {"write", "sync"} /\ mutex = r /\ mutex' = None
        /\ \A x \in Requests \ {r} : pc'[x] = pc[x] /\ reply'[x] = reply[x]
        /\ pc'[r] = "done" /\ reply'[r] = "failed"
        /\ reply[r] = "none"
    BY DEF IndInv, Typed, Staged, Guarded, SaveFails, Goto, Answer, Accepts, Setter, Kind, history
  <1>2. Typed'
    BY DEF IndInv, Typed, SaveFails, Goto, Answer, history
  <1>3. Staged'
    BY <1>1 DEF IndInv, Staged, Kind, Cookie
  <1>4. Guarded'
    BY <1>1, AuthAssumption DEF IndInv, Guarded, Kind
  <1>5. Written'
    BY <1>1 DEF IndInv, Written, Setter, Kind, Staged
  <1>6. Behind'
    BY <1>1 DEF IndInv, Behind
  <1>7. Durable'
    BY <1>1 DEF IndInv, Durable, Past, Kind, Staged
  <1>8. Spent'
    BY <1>1 DEF IndInv, Spent, Kind, Staged
  <1>9. Standing'
    BY <1>1 DEF IndInv, Standing, Setter, Past, Since, Kind, Staged
  <1>10. Settled'
    BY <1>1 DEF IndInv, Settled, Kind
  <1>11. Over'
    BY <1>1 DEF IndInv, Over, Cookie, Kind, Staged
  <1>12. Barred'
    BY <1>1 DEF IndInv, Barred, Kind, Staged
  <1>13. QED
    BY <1>2, <1>3, <1>4, <1>5, <1>6, <1>7, <1>8, <1>9, <1>10, <1>11, <1>12 DEF IndInv

LEMMA SyncStep ==
  ASSUME IndInv, NEW r \in Requests, Sync(r)
  PROVE  IndInv'
  <1>1. /\ UNCHANGED <<call, copy, store, sessions, expired, source, ended, late, known, order>>
        /\ pc[r] = "sync" /\ mutex = r /\ mutex' = None /\ disk' = store
        /\ \A x \in Requests \ {r} : pc'[x] = pc[x] /\ reply'[x] = reply[x]
        /\ \/ Kind(r) \in {"login", "join"} /\ pc'[r] = "open" /\ reply'[r] = reply[r]
           \/ Kind(r) \notin {"login", "join"} /\ pc'[r] = "done" /\ reply'[r] = "ok"
        /\ reply[r] = "none"
    BY DEF IndInv, Typed, Staged, Guarded, Sync, Goto, Answer, Accepts, Setter, Kind, history
  <1>2. Typed'
    BY DEF IndInv, Typed, Sync, Goto, Answer, history
  <1>3. Staged'
    BY <1>1 DEF IndInv, Staged, Kind, Cookie
  <1>4. Guarded'
    BY <1>1, AuthAssumption DEF IndInv, Guarded, Kind
  <1>5. Written'
    BY <1>1 DEF IndInv, Written, Setter, Kind, Staged
  <1>6. Behind'
    BY <1>1 DEF IndInv, Behind
  <1>7. Durable'
    BY <1>1, AuthAssumption DEF IndInv, Durable, Written, Behind, Past, Kind
  <1>8. Spent'
    BY <1>1 DEF IndInv, Spent, Guarded, Kind
  <1>9. Standing'
    <2>1. SUFFICES ASSUME NEW x \in Requests, Setter(x)', Past(x)'
                   PROVE  \E i \in DOMAIN order : order[i] = x /\ store.by \in Since(i)
      BY <1>1 DEF Standing, Since
    <2>2. CASE x = r
      <3>1. store.by = r /\ order # <<>> /\ order[Len(order)] = r /\ order \in Seq(Requests)
        BY <1>1, <2>1, <2>2 DEF IndInv, Typed, Written, Setter, Kind
      <3>2. Len(order) \in DOMAIN order /\ r \in Since(Len(order))
        BY <3>1 DEF Since
      <3>3. QED
        BY <2>2, <3>1, <3>2
    <2>3. CASE x # r
      BY <1>1, <2>1, <2>3 DEF IndInv, Standing, Setter, Past, Kind
    <2>4. QED
      BY <2>2, <2>3
  <1>10. Settled'
    BY <1>1 DEF IndInv, Settled, Kind
  <1>11. Over'
    BY <1>1 DEF IndInv, Over, Cookie, Kind, Staged
  <1>12. Barred'
    BY <1>1 DEF IndInv, Barred, Kind, Staged
  <1>13. QED
    BY <1>2, <1>3, <1>4, <1>5, <1>6, <1>7, <1>8, <1>9, <1>10, <1>11, <1>12 DEF IndInv

LEMMA OpenStep ==
  ASSUME IndInv, NEW r \in Requests, Open(r)
  PROVE  IndInv'
  <1>1. /\ UNCHANGED <<call, copy, mutex, store, disk, expired, ended, late, known, order>>
        /\ pc[r] = "open"
        /\ \A x \in Requests \ {r} : pc'[x] = pc[x] /\ reply'[x] = reply[x] /\ source'[x] = source[x]
        /\ pc'[r] = "done" /\ reply'[r] = "ok"
        /\ source'[r] # "none" /\ (source'[r] = "env" => source[r] = "env")
        /\ sessions' = sessions \cup {r}
        /\ reply[r] = "none"
    BY DEF IndInv, Typed, Staged, Guarded, Open, Goto, Answer, Accepts, Setter, Kind, history
  <1>2. Typed'
    BY DEF IndInv, Typed, Staged, Open, Goto, Answer, history
  <1>3. Staged'
    BY <1>1 DEF IndInv, Staged, Kind, Cookie
  <1>4. Guarded'
    BY <1>1 DEF IndInv, Guarded, Kind, Staged
  <1>5. Written'
    BY <1>1 DEF IndInv, Written, Setter, Kind, Staged
  <1>6. Behind'
    BY <1>1 DEF IndInv, Behind
  <1>7. Durable'
    BY <1>1 DEF IndInv, Durable, Past, Kind, Staged
  <1>8. Spent'
    BY <1>1 DEF IndInv, Spent, Kind, Staged
  <1>9. Standing'
    BY <1>1 DEF IndInv, Standing, Setter, Past, Since, Kind, Staged
  <1>10. Settled'
    BY <1>1 DEF IndInv, Settled, Kind
  <1>11. Over'
    BY <1>1 DEF IndInv, Over, Cookie, Kind, Staged
  <1>12. Barred'
    BY <1>1 DEF IndInv, Barred, Kind, Staged
  <1>13. QED
    BY <1>2, <1>3, <1>4, <1>5, <1>6, <1>7, <1>8, <1>9, <1>10, <1>11, <1>12 DEF IndInv

LEMMA OpenFailsStep ==
  ASSUME IndInv, NEW r \in Requests, OpenFails(r)
  PROVE  IndInv'
  <1>1. /\ UNCHANGED <<call, copy, mutex, store, disk, sessions, expired, ended, late, known, order>>
        /\ pc[r] = "open"
        /\ \A x \in Requests \ {r} : pc'[x] = pc[x] /\ reply'[x] = reply[x] /\ source'[x] = source[x]
        /\ pc'[r] = "done" /\ reply'[r] = "failed" /\ source'[r] = "none"
        /\ reply[r] = "none"
    BY DEF IndInv, Typed, Staged, Guarded, OpenFails, Goto, Answer, Accepts, Setter, Kind, history
  <1>2. Typed'
    BY DEF IndInv, Typed, Staged, OpenFails, Goto, Answer, history
  <1>3. Staged'
    BY <1>1 DEF IndInv, Staged, Kind, Cookie
  <1>4. Guarded'
    BY <1>1 DEF IndInv, Guarded, Kind, Staged
  <1>5. Written'
    BY <1>1 DEF IndInv, Written, Setter, Kind, Staged
  <1>6. Behind'
    BY <1>1 DEF IndInv, Behind
  <1>7. Durable'
    BY <1>1 DEF IndInv, Durable, Past, Kind, Staged
  <1>8. Spent'
    BY <1>1 DEF IndInv, Spent, Kind, Staged
  <1>9. Standing'
    BY <1>1 DEF IndInv, Standing, Setter, Past, Since, Kind, Staged
  <1>10. Settled'
    BY <1>1 DEF IndInv, Settled, Kind
  <1>11. Over'
    BY <1>1 DEF IndInv, Over, Cookie, Kind, Staged
  <1>12. Barred'
    BY <1>1 DEF IndInv, Barred, Kind, Staged
  <1>13. QED
    BY <1>2, <1>3, <1>4, <1>5, <1>6, <1>7, <1>8, <1>9, <1>10, <1>11, <1>12 DEF IndInv

LEMMA DestroyStep ==
  ASSUME IndInv, NEW r \in Requests, Destroy(r)
  PROVE  IndInv'
  <1>1. /\ UNCHANGED <<call, copy, mutex, store, disk, expired, source, late, known, order>>
        /\ pc[r] = "destroy"
        /\ \A x \in Requests \ {r} : pc'[x] = pc[x] /\ reply'[x] = reply[x]
        /\ pc'[r] = "done" /\ reply'[r] = "ok"
        /\ sessions' = sessions \ {call[r].key} /\ ended' = ended \cup {call[r].key}
        /\ reply[r] = "none"
    BY DEF IndInv, Typed, Staged, Guarded, Destroy, Goto, Answer, Accepts, Setter, Kind, history
  <1>2. Typed'
    BY DEF IndInv, Typed, Staged, Destroy, Goto, Answer, history
  <1>3. Staged'
    BY <1>1 DEF IndInv, Staged, Kind, Cookie
  <1>4. Guarded'
    BY <1>1 DEF IndInv, Guarded, Kind, Staged
  <1>5. Written'
    BY <1>1 DEF IndInv, Written, Setter, Kind, Staged
  <1>6. Behind'
    BY <1>1 DEF IndInv, Behind
  <1>7. Durable'
    BY <1>1 DEF IndInv, Durable, Past, Kind, Staged
  <1>8. Spent'
    BY <1>1 DEF IndInv, Spent, Kind, Staged
  <1>9. Standing'
    BY <1>1 DEF IndInv, Standing, Setter, Past, Since, Kind, Staged
  <1>10. Settled'
    BY <1>1 DEF IndInv, Settled, Kind
  <1>11. Over'
    BY <1>1 DEF IndInv, Over, Cookie, Kind, Staged
  <1>12. Barred'
    BY <1>1 DEF IndInv, Barred, Kind, Staged
  <1>13. QED
    BY <1>2, <1>3, <1>4, <1>5, <1>6, <1>7, <1>8, <1>9, <1>10, <1>11, <1>12 DEF IndInv

LEMMA ExpireStep ==
  ASSUME IndInv, NEW r \in Requests, Expire(r)
  PROVE  IndInv'
  <1>1. /\ UNCHANGED <<call, copy, reply, mutex, store, disk, sessions, source, late, known, order>>
        /\ UNCHANGED pc
        /\ r \in sessions
        /\ expired' = expired \cup {r} /\ ended' = ended \cup {r}
    BY DEF IndInv, Typed, Staged, Guarded, Expire, Goto, Answer, Accepts, Setter, Kind, history
  <1>2. Typed'
    BY DEF IndInv, Typed, Staged, Expire, Goto, Answer, history
  <1>3. Staged'
    BY <1>1 DEF IndInv, Staged, Kind, Cookie
  <1>4. Guarded'
    BY <1>1 DEF IndInv, Guarded, Kind, Staged
  <1>5. Written'
    BY <1>1 DEF IndInv, Written, Setter, Kind, Staged
  <1>6. Behind'
    BY <1>1 DEF IndInv, Behind
  <1>7. Durable'
    BY <1>1 DEF IndInv, Durable, Past, Kind, Staged
  <1>8. Spent'
    BY <1>1 DEF IndInv, Spent, Kind, Staged
  <1>9. Standing'
    BY <1>1 DEF IndInv, Standing, Setter, Past, Since, Kind, Staged
  <1>10. Settled'
    BY <1>1 DEF IndInv, Settled, Kind
  <1>11. Over'
    BY <1>1 DEF IndInv, Over, Cookie, Kind, Staged
  <1>12. Barred'
    BY <1>1 DEF IndInv, Barred, Kind, Staged
  <1>13. QED
    BY <1>2, <1>3, <1>4, <1>5, <1>6, <1>7, <1>8, <1>9, <1>10, <1>11, <1>12 DEF IndInv

\* A request arrives.
LEMMA BeginStep ==
  ASSUME IndInv, NEW r \in Requests, NEW c, NEW first \in {"has", "auth", "load"},
         Begin(r, c, first),
         c \in [kind : Kinds, pw : Passwords \cup {None}, new : Passwords \cup {None},
                email : EmailsOf, key : Requests \cup {None}],
         first = "has" => c.kind \in {"join", "login"},
         first = "auth" => c.kind \in {"change", "logout"},
         first = "load" => c.kind \in {"issue", "redeem"},
         c.kind \in {"change", "logout"} => c.key \in Requests /\ Cookie(c.key),
         c.kind = "redeem" => c.key \in Requests /\ Kind(c.key) = "issue",
         c.kind \in {"join", "login", "issue"} => c.key = None
  PROVE  IndInv'
  <1>1. /\ UNCHANGED <<copy, reply, mutex, store, disk, sessions, expired, source, ended, order>>
        /\ pc[r] = "idle" /\ pc'[r] = first /\ call'[r] = c
        /\ \A x \in Requests \ {r} : pc'[x] = pc[x] /\ call'[x] = call[x]
        /\ late' = IF c.key \in ended THEN late \cup {r} ELSE late
        /\ known' = IF Joined # {} THEN known \cup {r} ELSE known
    BY DEF IndInv, Typed, Begin, Goto
  <1>2. reply[r] = "none" /\ source[r] = "none" /\ Kind(r) = "none"
    BY <1>1 DEF IndInv, Staged
  <1>3. c.kind # "none"
    BY DEF Kinds
  <1>4. Typed'
    BY DEF IndInv, Typed, Begin, Goto
  <1>5. Staged'
    BY <1>1, <1>2, <1>3 DEF IndInv, Staged, Kind, Cookie
  <1>6. Guarded'
    BY <1>1, <1>2 DEF IndInv, Guarded, Kind
  <1>7. Written'
    BY <1>1, <1>2 DEF IndInv, Written, Setter, Kind
  <1>8. Behind'
    BY <1>1 DEF IndInv, Behind
  <1>9. Durable'
    BY <1>1, <1>2 DEF IndInv, Durable, Past, Kind
  <1>10. Spent'
    BY <1>1, <1>2 DEF IndInv, Spent, Kind
  <1>11. Standing'
    BY <1>1, <1>2 DEF IndInv, Standing, Setter, Past, Since, Kind
  <1>12. Settled'
    <2>1. Joined # {} => \E j \in Requests \ {r} : Kind(j) = "join" /\ reply[j] = "ok"
      BY <1>2 DEF Joined
    <2>2. known # {} => \E j \in Requests \ {r} : Kind(j) = "join" /\ reply[j] = "ok"
      BY <1>2 DEF IndInv, Settled
    <2>3. known' # {} => \E j \in Requests \ {r} : Kind(j) = "join" /\ reply[j] = "ok"
      BY <1>1, <2>1, <2>2
    <2>4. known' # {} => \E j \in Requests : Kind(j)' = "join" /\ reply'[j] = "ok"
      BY <1>1, <2>3 DEF Kind
    <2>5. ASSUME NEW x \in Requests, x \in known'
          PROVE  pc'[x] # "idle" /\ (call'[x].email # "" => source'[x] # "env")
      <3>1. CASE x = r
        BY <1>1, <1>2, <3>1
      <3>2. CASE x # r
        BY <1>1, <2>5, <3>2 DEF IndInv, Settled
      <3>3. QED
        BY <3>1, <3>2
    <2>6. QED
      BY <2>4, <2>5 DEF Settled
  <1>13. Over'
    BY <1>1, <1>2 DEF IndInv, Over, Cookie
  <1>14. Barred'
    <2>1. ASSUME c.key \in ended
          PROVE  c.kind \in {"change", "logout"}
      <3>1. c.key \in Requests /\ Cookie(c.key)
        BY <2>1, AuthAssumption DEF IndInv, Over, Typed
      <3>2. Kind(c.key) # "issue"
        BY <3>1 DEF IndInv, Staged, Cookie
      <3>3. QED
        BY <3>1, <3>2, AuthAssumption DEF Kinds
    <2>2. r \in late' => c.key \in ended
      BY <1>1, <1>2 DEF IndInv, Barred
    <2>3. c.kind \in {"change", "logout"} => first = "auth"
      OBVIOUS
    <2>4. QED
      BY <1>1, <2>1, <2>2, <2>3 DEF IndInv, Barred, Kind
  <1>15. QED
    BY <1>4, <1>5, <1>6, <1>7, <1>8, <1>9, <1>10, <1>11, <1>12, <1>13, <1>14 DEF IndInv

LEMMA ArriveStep ==
  ASSUME IndInv, NEW r \in Requests, Arrive(r)
  PROVE  IndInv'
  <1> USE AuthAssumption DEF NoCall, Kinds, EmailsOf
  <1>1. CASE Join(r)
    BY <1>1, BeginStep DEF Join
  <1>2. CASE Login(r)
    BY <1>2, BeginStep DEF Login
  <1>3. CASE Change(r)
    BY <1>3, BeginStep DEF Change
  <1>4. CASE Logout(r)
    BY <1>4, BeginStep DEF Logout
  <1>5. CASE Issue(r)
    BY <1>5, BeginStep DEF Issue
  <1>6. CASE Redeem(r)
    BY <1>6, BeginStep DEF Redeem
  <1>7. QED
    BY <1>1, <1>2, <1>3, <1>4, <1>5, <1>6 DEF Arrive

\* A kill and a power loss differ in what is left of the store.
LEMMA DownStep ==
  ASSUME IndInv, Restart, store' \in {store, disk},
         disk' = store' \/ (UNCHANGED <<store, disk>>)
  PROVE  IndInv'
  <1>1. /\ UNCHANGED <<call, copy, reply, expired, late, known, order>>
        /\ mutex' = None /\ sessions' = {} /\ ended' = ended \cup sessions
    BY DEF Restart
  <1>2. \A x \in Requests :
          /\ pc'[x] = IF pc[x] \in {"idle", "done"} THEN pc[x] ELSE "killed"
          /\ source'[x] = IF pc[x] = "open" THEN "none" ELSE source[x]
    BY DEF Restart
  <1>3. Typed'
    BY <1>1 DEF IndInv, Typed, Restart
  <1>4. Staged'
    BY <1>1, <1>2 DEF IndInv, Staged, Cookie, Kind
  <1>5. Guarded'
    BY <1>1, <1>2, AuthAssumption DEF IndInv, Guarded
  <1>6. Written'
    BY <1>1, <1>2 DEF IndInv, Written
  <1>7. Behind'
    BY <1>1 DEF IndInv, Behind
  <1>8. Durable'
    BY <1>1, <1>2, AuthAssumption DEF IndInv, Durable, Behind, Past, Kind
  <1>9. Spent'
    BY <1>1, <1>2 DEF IndInv, Spent, Kind
  <1>10. Standing'
    BY <1>1, <1>2 DEF IndInv, Standing, Setter, Past, Since, Kind
  <1>11. Settled'
    BY <1>1, <1>2 DEF IndInv, Settled, Kind
  <1>12. Over'
    BY <1>1, <1>2 DEF IndInv, Over, Staged, Cookie
  <1>13. Barred'
    BY <1>1, <1>2 DEF IndInv, Barred, Staged, Kind
  <1>14. QED
    BY <1>3, <1>4, <1>5, <1>6, <1>7, <1>8, <1>9, <1>10, <1>11, <1>12, <1>13 DEF IndInv

LEMMA InitInv == Init => IndInv
  <1> SUFFICES ASSUME Init PROVE IndInv
    OBVIOUS
  <1>1. Typed
    <2>1. order \in Seq(Requests)
      BY DEF Init
    <2>2. NoCall \in [kind : Kinds \cup {"none"}, pw : Passwords \cup {None},
                      new : Passwords \cup {None}, email : EmailsOf,
                      key : Requests \cup {None}]
      BY DEF NoCall, EmailsOf
    <2>3. NoStore \in Stores
      BY DEF NoStore, Stores
    <2>4. QED
      BY <2>1, <2>2, <2>3 DEF Init, Typed
  <1>2. Staged
    BY DEF Init, Staged, NoCall, Kind, Cookie
  <1>3. Guarded /\ Written /\ Behind
    BY AuthAssumption DEF Init, Guarded, Written, Behind, NoStore
  <1>4. Durable /\ Spent /\ Standing
    BY DEF Init, Durable, Spent, Standing, Past, Setter
  <1>5. Settled /\ Over /\ Barred
    BY DEF Init, Settled, Over, Barred
  <1>6. QED
    BY <1>1, <1>2, <1>3, <1>4, <1>5 DEF IndInv

LEMMA Invariance == Spec => []IndInv
  <1>1. IndInv /\ [Next]_vars => IndInv'
    <2> SUFFICES ASSUME IndInv, [Next]_vars PROVE IndInv'
      OBVIOUS
    <2>1. ASSUME NEW r \in Requests, Arrive(r) PROVE IndInv'
      BY <2>1, ArriveStep
    <2>2. ASSUME NEW r \in Requests, Step(r) PROVE IndInv'
      BY <2>2, HasLoginStep, HasJoinStep, LoadStep, RefuseStep, WriteStep, SaveFailsStep,
         SyncStep, OpenStep, OpenFailsStep, AuthoriseStep, DestroyStep, ExpireStep DEF Step
    <2>3. CASE Kill
      BY <2>3, DownStep DEF Kill
    <2>4. CASE PowerLoss
      BY <2>4, DownStep DEF PowerLoss
    <2>5. CASE UNCHANGED vars
      <3>1. Typed' /\ Staged' /\ Guarded' /\ Written' /\ Behind'
        BY <2>5 DEF IndInv, Typed, Staged, Guarded, Written, Behind, Kind, Cookie, Setter,
                    vars, history, downs
      <3>2. Durable' /\ Spent' /\ Standing'
        BY <2>5 DEF IndInv, Durable, Spent, Standing, Past, Since, Kind, Setter,
                    vars, history, downs
      <3>3. Settled' /\ Over' /\ Barred'
        BY <2>5 DEF IndInv, Settled, Over, Barred, Kind, Cookie, vars, history, downs
      <3>4. QED
        BY <3>1, <3>2, <3>3 DEF IndInv
    <2>6. QED
      BY <2>1, <2>2, <2>3, <2>4, <2>5 DEF Next
  <1>2. QED
    BY InitInv, <1>1, PTL DEF Spec
-----------------------------------------------------------------------------
(* The results *)

\* Every variable keeps its type, and authStoreMu is only ever held between the
\* load and the sync of a change: no error path keeps it.
THEOREM TypesHold == Spec => []TypeOK
  <1>1. IndInv => TypeOK
    BY AuthAssumption DEF IndInv, Typed, Guarded, TypeOK, Kind
  <1>2. QED
    BY Invariance, <1>1, PTL

\* However many joins and logins overlap, fail or are cut short, the first
\* administrator who was told so stands, and no login with an email that came
\* later is let in by the environment's password (createFirstAdmin, login).
THEOREM FirstAdminIsForGood == Spec => []FirstAdminStands
  <1>1. IndInv => FirstAdminStands
    <2>1. ASSUME IndInv, NEW r \in Joined PROVE store.admin = r /\ disk.admin = r
      <3>1. r \in Requests /\ Kind(r) = "join" /\ Past(r)
        BY <2>1 DEF Joined, Past
      <3>2. disk.admin = r /\ r # None
        BY <2>1, <3>1, AuthAssumption DEF IndInv, Durable
      <3>3. QED
        BY <2>1, <3>2 DEF IndInv, Behind
    <2>2. ASSUME IndInv, NEW x \in known, call[x].email # "" PROVE source[x] # "env"
      BY <2>2 DEF IndInv, Typed, Settled
    <2>3. QED
      BY <2>1, <2>2 DEF FirstAdminStands
  <1>2. QED
    BY Invariance, <1>1, PTL

\* No login that saves the store, no failed save and no crash brings back a
\* password that an acknowledged change has replaced (changePersistentPassword).
THEOREM PasswordIsForGood == Spec => []PasswordStands
  <1>1. IndInv => PasswordStands
    BY DEF IndInv, Standing, Since, Setter, Past, PasswordStands
  <1>2. QED
    BY Invariance, <1>1, PTL

\* verifyRecoveryToken accepts a token for one request only.
THEOREM TokenWorksOnce == Spec => []TokenOnce
  <1>1. IndInv => TokenOnce
    BY DEF IndInv, Spent, TokenOnce
  <1>2. QED
    BY Invariance, <1>1, PTL

\* No request that arrives after its session ended passes requireAuth.
THEOREM LogoutIsFinal == Spec => []LoggedOutStaysOut
  <1>1. IndInv => LoggedOutStaysOut
    BY DEF IndInv, Typed, Barred, LoggedOutStaysOut
  <1>2. QED
    BY Invariance, <1>1, PTL
-----------------------------------------------------------------------------
(* The store as an atomic object *)

Account == INSTANCE Accounts WITH Names <- Requests

ImplementsAccounts == Account!Spec

\* The passwords a request brings along.
Supplied == \A r \in Requests :
  /\ Kind(r) \in {"join", "change"} => call[r].pw \in Passwords
  /\ Kind(r) = "change" => call[r].new \in Passwords

\* What an operation has loaded satisfies it until it is replaced.
Accepted == \A r \in Requests : pc[r] = "write" =>
  Kind(r) \in Kinds \ {"logout"} /\ Accepts(r, copy[r])

LEMMA SuppliedStep == IndInv /\ Supplied /\ [Next]_vars => Supplied'
  <1> SUFFICES ASSUME IndInv, Supplied, [Next]_vars PROVE Supplied'
    OBVIOUS
  <1> USE DEF IndInv, Typed, Supplied, Kind
  <1>1. ASSUME NEW r \in Requests, NEW c, NEW first, Begin(r, c, first),
               c.kind \in {"join", "change"} => c.pw \in Passwords,
               c.kind = "change" => c.new \in Passwords
        PROVE  Supplied'
    BY <1>1 DEF Begin
  <1>2. ASSUME NEW r \in Requests, Arrive(r) PROVE Supplied'
    BY <1>1, <1>2 DEF Arrive, Join, Login, Change, Logout, Issue, Redeem, NoCall
  <1>3. ASSUME NEW r \in Requests, Step(r) PROVE UNCHANGED call
    BY <1>3 DEF Step, HasLogin, HasJoin, Load, Refuse, LoadFails, Write, SaveFails, Sync,
                Open, OpenFails, Authorise, Unauthorised, Destroy, Expire
  <1>4. Kill \/ PowerLoss \/ UNCHANGED vars => UNCHANGED call
    BY DEF Kill, PowerLoss, Restart, vars
  <1>5. UNCHANGED call => Supplied'
    OBVIOUS
  <1>6. QED
    BY <1>2, <1>3, <1>4, <1>5 DEF Next

LEMMA AcceptedStep == IndInv /\ Accepted /\ [Next]_vars => Accepted'
  <1> SUFFICES ASSUME IndInv, Accepted, [Next]_vars, NEW q \in Requests, pc'[q] = "write"
               PROVE  Kind(q)' \in Kinds \ {"logout"} /\ Accepts(q, copy[q])'
    BY DEF Accepted
  <1> USE DEF IndInv, Typed
  <1>1. ASSUME pc[q] = "write", call'[q] = call[q], copy'[q] = copy[q]
        PROVE  Kind(q)' \in Kinds \ {"logout"} /\ Accepts(q, copy[q])'
    <2>1. Accepts(q, copy[q])' <=> Accepts(q, copy[q])
      BY <1>1 DEF Accepts, Kind
    <2>2. QED
      BY <1>1, <2>1 DEF Accepted, Kind
  <1>2. ASSUME NEW r \in Requests, Arrive(r)
        PROVE  pc[q] = "write" /\ call'[q] = call[q] /\ copy'[q] = copy[q]
    <2>1. ASSUME NEW c, NEW first, Begin(r, c, first), first # "write"
          PROVE  pc[q] = "write" /\ call'[q] = call[q] /\ copy'[q] = copy[q]
      BY <2>1 DEF Begin, Goto
    <2>2. QED
      BY <1>2, <2>1 DEF Arrive, Join, Login, Change, Logout, Issue, Redeem
  <1>3. ASSUME Load(q)
        PROVE  Kind(q)' \in Kinds \ {"logout"} /\ Accepts(q, copy[q])'
    <2>1. /\ call'[q] = call[q] /\ copy'[q] = store /\ Accepts(q, store)
          /\ Kind(q) \in Kinds \ {"logout"}
      BY <1>3 DEF Load, Goto, Staged, Kind
    <2>2. Accepts(q, copy[q])' <=> Accepts(q, store)
      BY <2>1 DEF Accepts, Kind
    <2>3. QED
      BY <2>1, <2>2 DEF Kind
  <1>4. ASSUME NEW r \in Requests, Step(r), ~Load(q)
        PROVE  pc[q] = "write" /\ call'[q] = call[q] /\ copy'[q] = copy[q]
    BY <1>4 DEF Step, Load, HasLogin, HasJoin, Refuse, LoadFails, Write, SaveFails, Sync, Open,
                OpenFails, Authorise, Unauthorised, Destroy, Expire, Goto, Answer
  <1>5. ASSUME Kill \/ PowerLoss
        PROVE  pc[q] = "write" /\ call'[q] = call[q] /\ copy'[q] = copy[q]
    BY <1>5 DEF Kill, PowerLoss, Restart
  <1>6. CASE UNCHANGED vars
    BY <1>1, <1>6 DEF vars
  <1>7. QED
    BY <1>1, <1>2, <1>3, <1>4, <1>5, <1>6 DEF Next

\* A write replaces the store by an effect of what it is, at a moment at which
\* the operation is allowed.
LEMMA WriteIsAtomic ==
  ASSUME IndInv, Supplied, Accepted, NEW r \in Requests, Write(r)
  PROVE  Account!Change \/ UNCHANGED <<store, disk>>
  <1>1. /\ store' = Effect(r, store) /\ disk' = disk /\ Accepts(r, store)
        /\ Kind(r) \in Kinds \ {"logout"}
    BY DEF IndInv, Guarded, Accepted, Write, Goto
  <1>2. CASE Kind(r) = "join"
    <2>1. Account!Register(r)
      BY <1>1, <1>2 DEF Effect, Accepts, Supplied, Account!Register
    <2>2. QED
      BY <1>1, <2>1 DEF Account!Change
  <1>3. CASE Kind(r) = "change"
    <2>1. Account!SetPassword(r)
      BY <1>1, <1>3, AuthAssumption DEF Effect, Accepts, Supplied, Account!SetPassword
    <2>2. QED
      BY <1>1, <2>1 DEF Account!Change
  <1>4. CASE Kind(r) = "issue"
    <2>1. Account!IssueToken(r)
      BY <1>1, <1>4 DEF Effect, Account!IssueToken
    <2>2. QED
      BY <1>1, <2>1 DEF Account!Change
  <1>5. CASE Kind(r) = "redeem"
    <2>1. Account!UseToken
      BY <1>1, <1>5 DEF Effect, Accepts, Account!UseToken
    <2>2. QED
      BY <1>1, <2>1 DEF Account!Change
  <1>6. CASE Kind(r) = "login"
    BY <1>1, <1>6 DEF Effect
  <1>7. QED
    BY <1>1, <1>2, <1>3, <1>4, <1>5, <1>6 DEF Kinds

\* Between the load of users.json and its replacement no operation's change is
\* lost: the store goes through whole operations, each on what the one before
\* it left, however requests overlap, fail or are cut short (createFirstAdmin,
\* changePersistentPassword, createRecoveryToken, verifyRecoveryToken, and the
\* login, which replaces the store by what it is).
THEOREM StoreIsAtomic == Spec => ImplementsAccounts
  <1>1. Init => Account!Init /\ Supplied /\ Accepted
    <2>1. Init => Account!Init
      BY DEF Init, NoStore, Account!Init, Account!Empty
    <2>2. ASSUME Init, NEW r \in Requests
          PROVE  Kind(r) = "none" /\ pc[r] = "idle"
      <3>1. call[r] = NoCall /\ pc[r] = "idle"
        BY <2>2 DEF Init
      <3>2. NoCall.kind = "none"
        BY DEF NoCall
      <3>3. QED
        BY <3>1, <3>2 DEF Kind
    <2>3. Init => Supplied /\ Accepted
      BY <2>2 DEF Supplied, Accepted
    <2>4. QED
      BY <2>1, <2>3
  <1>2. IndInv /\ Supplied /\ Accepted /\ [Next]_vars => [Account!Next]_<<store, disk>>
    <2> SUFFICES ASSUME IndInv, Supplied, Accepted, [Next]_vars
                 PROVE  Account!Next \/ UNCHANGED <<store, disk>>
      OBVIOUS
    <2>1. ASSUME NEW r \in Requests, Arrive(r) PROVE UNCHANGED <<store, disk>>
      BY <2>1 DEF Arrive, Join, Login, Change, Logout, Issue, Redeem, Begin
    <2>2. ASSUME NEW r \in Requests, Step(r), ~Write(r), ~Sync(r)
          PROVE  UNCHANGED <<store, disk>>
      BY <2>2 DEF Step, HasLogin, HasJoin, Load, Refuse, LoadFails, SaveFails, Open,
                  OpenFails, Authorise, Unauthorised, Destroy, Expire
    <2>3. ASSUME NEW r \in Requests, Write(r)
          PROVE  Account!Next \/ UNCHANGED <<store, disk>>
      BY <2>3, WriteIsAtomic DEF Account!Next
    <2>4. ASSUME NEW r \in Requests, Sync(r) PROVE Account!Next
      BY <2>4 DEF Sync, Account!Next, Account!Sync
    <2>5. CASE Kill
      BY <2>5 DEF Kill
    <2>6. CASE PowerLoss
      BY <2>6 DEF PowerLoss, Account!Next, Account!PowerLoss
    <2>7. CASE UNCHANGED vars
      BY <2>7 DEF vars
    <2>8. QED
      BY <2>1, <2>2, <2>3, <2>4, <2>5, <2>6, <2>7 DEF Next
  <1>3. QED
    BY Invariance, SuppliedStep, AcceptedStep, <1>1, <1>2, PTL
       DEF Spec, ImplementsAccounts, Account!Spec
=============================================================================
