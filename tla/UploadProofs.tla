---------------------------- MODULE UploadProofs ----------------------------
(***************************************************************************)
(* The safety properties of Upload for any number of uploads, failures,    *)
(* kills and power losses.  The argument: an upload that began after       *)
(* another was acknowledged, and could look, has seen the files and spares *)
(* them; one that began before, or could not look, takes them away only if *)
(* it fails, and has failed for good.  An upload that runs alone knows     *)
(* exactly which files are there: those it found and those it has added.   *)
(***************************************************************************)
EXTENDS Upload, TLAPS

(* What the step p of an upload says about a file *)

Save == At("save", "")

Live(p)     == p \notin {Idle, Done}
Undoing(p)  == p \in {At("remove", "media"), At("remove", "sidecar")}
SyncingOf(p, f) == p = At("sync", f)

\* It has not looked for f.
Unseen(p, f) ==
  \/ p \in {Idle, At("look", "media")}
  \/ f = "sidecar" /\ p \in {At("rename", "media"), At("sync", "media"), At("look", "sidecar")}

\* It has looked for f, and what it saw still matters.
Looked(p, f) ==
  \/ f = "media" /\ p \notin {Idle, Done, At("look", "media")}
  \/ f = "sidecar" /\ p \in {At("rename", f), At("sync", f), Save, At("remove", f)}

\* It has written and synced f.
Synced(p, f) ==
  \/ p = Save
  \/ f = "media" /\ p \in {At("look", "sidecar"), At("rename", "sidecar"), At("sync", "sidecar")}

\* It has added f if it did not find it, and not taken it away.
Added(p, f) ==
  \/ p \in {At("sync", f), Save, At("remove", "sidecar")}
  \/ f = "media" /\ p \in {At("look", "sidecar"), At("rename", "sidecar"), At("sync", "sidecar"),
                           At("remove", "media")}
-----------------------------------------------------------------------------
(* The invariant *)

Lost(u) == \E v \in Uploads \ {u} : Spoils(v, u)

Answers == \A u \in Uploads :
  /\ result[u] = "ok" => pc[u] = Done /\ (DBConfigured => u \in rows)
  /\ pc[u] = Idle => result[u] = "none"
  /\ Undoing(pc[u]) => result[u] = "failed"
  /\ result[u] = "failed" => pc[u] = Done \/ Undoing(pc[u])
  /\ u \in rows => pc[u] = Done \/ "commit" \in met[u]
  /\ \A v \in earlier[u] : result[v] = "ok"

\* What an upload has written, or was acknowledged for, is there.
Kept == \A u \in Uploads, f \in Files :
  /\ SyncingOf(pc[u], f) => f \in visible \/ Lost(u)
  /\ result[u] = "ok" \/ Synced(pc[u], f) => f \in visible \cap durable \/ Lost(u)

\* What was acknowledged when v began, v has seen.
Seen == \A u, v \in Uploads, f \in Files :
  u \in earlier[v] /\ "stat" \notin met[v] /\ Looked(pc[v], f) => f \in pre[v] \/ Lost(u)

Fresh == \A u \in Uploads, f \in Files : Unseen(pc[u], f) => f \notin pre[u]

Alone(u) == u \notin shared /\ Live(pc[u])

Troubled(u) == met[u] \cap {"stat", "sync", "remove", "commit"} # {}

Known(u) == \A f \in Files :
  /\ (f \in visible) <=> (f \in before[u] \/ Added(pc[u], f))
  /\ Looked(pc[u], f) => ((f \in pre[u]) <=> (f \in before[u]))

\* An upload that is alone knows the files.
Clean == \A u \in Uploads : Alone(u) =>
  /\ \A v \in Uploads \ {u} : ~Live(pc[v])
  /\ Troubled(u) \/ Known(u)

IndInv == TypeOK /\ Answers /\ Kept /\ Seen /\ Fresh /\ Clean
-----------------------------------------------------------------------------
\* What spoils an upload has failed for good.
LEMMA LostStays ==
  ASSUME NEW u \in Uploads, Lost(u),
         \A v \in Uploads : result[v] = "failed" =>
           /\ result'[v] = "failed" /\ earlier'[v] = earlier[v]
           /\ "stat" \in met[v] => "stat" \in met'[v]
  PROVE  Lost(u)'
  BY DEF Lost, Spoils

\* The upload that takes a step is the only one that can be alone.
LEMMA CleanStep ==
  ASSUME Clean, NEW w \in Uploads, Live(pc[w]), shared' = shared,
         \A u \in Uploads \ {w} : pc'[u] = pc[u],
         Live(pc'[w]) /\ Clean /\ (Troubled(w) \/ Known(w)) => Troubled(w)' \/ Known(w)'
  PROVE  Clean'
  BY DEF Clean, Alone

LEMMA InitInv == Init => IndInv
  <1>1. 0 \in 0..MaxDowns
    BY UploadAssumption
  <1>2. /\ \A f \in Files : ~Synced(Idle, f) /\ ~SyncingOf(Idle, f) /\ ~Looked(Idle, f)
        /\ ~Live(Idle) /\ ~Undoing(Idle)
    BY DEF Synced, SyncingOf, Looked, Live, Undoing, Idle, Done, At, Save
  <1> SUFFICES ASSUME Init PROVE IndInv
    OBVIOUS
  <1>3. TypeOK
    BY <1>1 DEF TypeOK, Init
  <1>4. Answers /\ Kept /\ Seen /\ Fresh
    BY <1>2 DEF Answers, Kept, Seen, Fresh, Init
  <1>5. Clean
    BY <1>2 DEF Clean, Alone, Init
  <1>6. QED
    BY <1>3, <1>4, <1>5 DEF IndInv

LEMMA BeginStep ==
  ASSUME IndInv, NEW w \in Uploads, Begin(w)
  PROVE  IndInv'
  <1> DEFINE q == At("look", "media")
  <1>1. /\ pc[w] = Idle /\ pc'[w] = q
        /\ \A u \in Uploads \ {w} : /\ pc'[u] = pc[u] /\ earlier'[u] = earlier[u]
                                    /\ before'[u] = before[u]
        /\ earlier'[w] = Acknowledged /\ before'[w] = visible
        /\ UNCHANGED <<pre, result, visible, durable, rows, met, downs>>
    BY DEF Begin, Goto, IndInv, TypeOK
  <1>2. /\ Idle # Done /\ q # Done /\ q # Idle /\ ~Undoing(q) /\ Live(q) /\ ~Live(Idle)
        /\ \A f \in Files : /\ ~SyncingOf(q, f) /\ ~Synced(q, f) /\ ~Looked(q, f)
                            /\ ~Added(q, f) /\ Unseen(q, f) /\ Unseen(Idle, f)
    BY DEF Synced, SyncingOf, Looked, Added, Unseen, Live, Undoing, Idle, Done, At, Save
  <1> HIDE DEF q
  <1>3. result[w] = "none"
    BY <1>1 DEF IndInv, Answers
  <1>4. \A u \in Uploads : Lost(u) => Lost(u)'
    BY <1>1, <1>3, LostStays
  <1>5. TypeOK'
    <2>1. pc' \in [Uploads -> {Idle, Done, At("save", "")} \cup
                     {"look", "rename", "sync", "remove"} \X Files]
      BY DEF Begin, Goto, IndInv, TypeOK, At, Files
    <2>2. shared' \subseteq Uploads /\ earlier' \in [Uploads -> SUBSET Uploads]
          /\ before' \in [Uploads -> SUBSET Files]
      BY DEF Begin, IndInv, TypeOK, Acknowledged
    <2>3. QED
      BY <1>1, <1>3, <2>1, <2>2 DEF IndInv, TypeOK
  <1>6. Answers'
    BY <1>1, <1>2, <1>3 DEF IndInv, Answers, Acknowledged
  <1>7. Kept'
    BY <1>1, <1>2, <1>3, <1>4 DEF IndInv, Kept
  <1>8. Seen'
    BY <1>1, <1>2, <1>4 DEF IndInv, Seen
  <1>9. Fresh'
    BY <1>1, <1>2 DEF IndInv, Fresh
  <1>10. Clean'
    <2>1. CASE \A v \in Uploads : ~Live(pc[v])
      BY <1>1, <1>2, <2>1 DEF Clean, Alone, Known
    <2>2. CASE \E v \in Uploads : Live(pc[v])
      <3>1. \A u \in Uploads : ~Alone(u)'
        BY <1>1, <2>2 DEF Begin, Alone, Running, Live
      <3>2. QED
        BY <3>1 DEF Clean
    <2>3. QED
      BY <2>1, <2>2
  <1>11. QED
    BY <1>5, <1>6, <1>7, <1>8, <1>9, <1>10 DEF IndInv

LEMMA LookStep ==
  ASSUME IndInv, NEW w \in Uploads, NEW f \in Files, Look(w, f)
  PROVE  IndInv'
  <1> DEFINE p == At("look", f)
             q == At("rename", f)
  <1>1. /\ pc[w] = p /\ pc'[w] = q
        /\ \A u \in Uploads \ {w} : pc'[u] = pc[u] /\ pre'[u] = pre[u] /\ met'[u] = met[u]
        /\ \/ pre'[w] = pre[w] \cup ({f} \cap visible) /\ met'[w] = met[w]
           \/ pre'[w] = pre[w] /\ met'[w] = met[w] \cup {"stat"}
        /\ UNCHANGED <<result, visible, durable, rows, earlier, before, shared, downs>>
    BY DEF Look, Fails, Goto, IndInv, TypeOK
  <1>2. /\ p \notin {Idle, Done} /\ q \notin {Idle, Done} /\ ~Undoing(p) /\ ~Undoing(q)
        /\ \A g \in Files : /\ ~SyncingOf(q, g) /\ (Synced(q, g) <=> Synced(p, g))
                            /\ Looked(q, g) <=> Looked(p, g) \/ g = f
                            /\ Added(q, g) <=> Added(p, g)
                            /\ Unseen(q, g) => Unseen(p, g) /\ g # f
        /\ Unseen(p, f) /\ ~Added(p, f)
    BY DEF Synced, SyncingOf, Looked, Added, Unseen, Undoing, Idle, Done, At, Save, Files
  <1> HIDE DEF p, q
  <1>3. \A u \in Uploads : Lost(u) => Lost(u)'
    BY <1>1, LostStays
  <1>4. TypeOK'
    <2>1. pc' \in [Uploads -> {Idle, Done, At("save", "")} \cup
                     {"look", "rename", "sync", "remove"} \X Files]
      BY DEF Look, Goto, IndInv, TypeOK, At
    <2>2. pre' \in [Uploads -> SUBSET Files]
      <3>1. pre[w] \cup ({f} \cap visible) \in SUBSET Files
        BY DEF IndInv, TypeOK
      <3>2. pre' = [pre EXCEPT ![w] = pre[w] \cup ({f} \cap visible)] \/ pre' = pre
        BY DEF Look
      <3>3. QED
        BY <3>1, <3>2 DEF IndInv, TypeOK
    <2>4. met' \in [Uploads -> SUBSET Faults]
      <3>1. "stat" \in Faults => met[w] \cup {"stat"} \in SUBSET Faults
        BY DEF IndInv, TypeOK
      <3>2. ("stat" \in Faults /\ met' = [met EXCEPT ![w] = met[w] \cup {"stat"}]) \/ met' = met
        BY DEF Look, Fails
      <3>3. QED
        BY <3>1, <3>2 DEF IndInv, TypeOK
    <2>3. result[w] # "failed"
      BY <1>1, <1>2 DEF IndInv, Answers
    <2>5. QED
      BY <1>1, <2>1, <2>2, <2>3, <2>4 DEF IndInv, TypeOK
  <1>5. Answers'
    BY <1>1, <1>2 DEF IndInv, Answers
  <1>6. Kept'
    BY <1>1, <1>2, <1>3 DEF IndInv, Kept
  <1>7. Seen'
    <2>1. ASSUME NEW u \in Uploads, u \in earlier[w], pre'[w] = pre[w] \cup ({f} \cap visible)
          PROVE  f \in pre'[w] \/ Lost(u)
      BY <2>1 DEF IndInv, Answers, Kept
    <2>2. \A u \in Uploads, g \in Files :
            u \in earlier'[w] /\ "stat" \notin met'[w] /\ Looked(pc'[w], g) => g \in pre'[w] \/ Lost(u)
      BY <1>1, <1>2, <2>1 DEF IndInv, Seen
    <2>3. QED
      BY <1>1, <1>3, <2>2 DEF IndInv, Seen
  <1>8. Fresh'
    BY <1>1, <1>2 DEF IndInv, Fresh
  <1>9. Clean'
    <2>1. Troubled(w) \/ Known(w) => Troubled(w)' \/ Known(w)'
      <3>1. f \notin pre[w]
        BY <1>1, <1>2 DEF IndInv, Fresh
      <3>2. QED
        BY <1>1, <1>2, <3>1 DEF Troubled, Known
    <2>2. QED
      BY <1>1, <1>2, <2>1, CleanStep DEF IndInv, Live
  <1>10. QED
    BY <1>4, <1>5, <1>6, <1>7, <1>8, <1>9 DEF IndInv

LEMMA RenameStep ==
  ASSUME IndInv, NEW w \in Uploads, NEW f \in Files, Rename(w, f)
  PROVE  IndInv'
  <1> DEFINE p == At("rename", f)
             q == At("sync", f)
  <1>1. /\ pc[w] = p /\ pc'[w] = q /\ visible' = visible \cup {f}
        /\ \A u \in Uploads \ {w} : pc'[u] = pc[u]
        /\ UNCHANGED <<pre, result, durable, rows, met, earlier, before, shared, downs>>
    BY DEF Rename, history, Goto, IndInv, TypeOK
  <1>2. /\ p \notin {Idle, Done} /\ q \notin {Idle, Done} /\ ~Undoing(p) /\ ~Undoing(q)
        /\ \A g \in Files : /\ SyncingOf(q, g) <=> g = f
                            /\ Synced(q, g) <=> Synced(p, g)
                            /\ Looked(q, g) <=> Looked(p, g)
                            /\ Added(q, g) <=> Added(p, g) \/ g = f
                            /\ Unseen(q, g) => Unseen(p, g)
    BY DEF Synced, SyncingOf, Looked, Added, Unseen, Undoing, Idle, Done, At, Save, Files
  <1> HIDE DEF p, q
  <1>3. \A u \in Uploads : Lost(u) => Lost(u)'
    BY <1>1, LostStays
  <1>4. TypeOK'
    <2>1. pc' \in [Uploads -> {Idle, Done, At("save", "")} \cup
                     {"look", "rename", "sync", "remove"} \X Files]
      BY DEF Rename, Goto, IndInv, TypeOK, At
    <2>2. result[w] # "failed"
      BY <1>1, <1>2 DEF IndInv, Answers
    <2>3. QED
      BY <1>1, <2>1, <2>2 DEF IndInv, TypeOK
  <1>5. Answers'
    BY <1>1, <1>2 DEF IndInv, Answers
  <1>6. Kept'
    BY <1>1, <1>2, <1>3 DEF IndInv, Kept
  <1>7. Seen'
    BY <1>1, <1>2, <1>3 DEF IndInv, Seen
  <1>8. Fresh'
    BY <1>1, <1>2 DEF IndInv, Fresh
  <1>9. Clean'
    <2>1. Troubled(w) \/ Known(w) => Troubled(w)' \/ Known(w)'
      BY <1>1, <1>2 DEF Troubled, Known
    <2>2. QED
      BY <1>1, <1>2, <2>1, CleanStep DEF IndInv, Live
  <1>10. QED
    BY <1>4, <1>5, <1>6, <1>7, <1>8, <1>9 DEF IndInv

LEMMA SyncStep ==
  ASSUME IndInv, NEW w \in Uploads, NEW f \in Files, Sync(w, f)
  PROVE  IndInv'
  <1> DEFINE p == At("sync", f)
             q == After(f)
  <1>1. /\ pc[w] = p /\ pc'[w] = q
        /\ durable' = (durable \ {f}) \cup (visible \cap {f})
        /\ \A u \in Uploads \ {w} : pc'[u] = pc[u]
        /\ UNCHANGED <<pre, result, visible, rows, met, earlier, before, shared, downs>>
    BY DEF Sync, history, Goto, IndInv, TypeOK
  <1>2. /\ p \notin {Idle, Done} /\ q \notin {Idle, Done} /\ ~Undoing(p) /\ ~Undoing(q)
        /\ \A g \in Files : /\ SyncingOf(p, g) <=> g = f
                            /\ ~SyncingOf(q, g)
                            /\ Synced(q, g) <=> Synced(p, g) \/ g = f
                            /\ Looked(q, g) <=> Looked(p, g)
                            /\ Added(q, g) <=> Added(p, g)
                            /\ Unseen(q, g) => Unseen(p, g)
    <2> USE DEF Synced, SyncingOf, Looked, Added, Unseen, Undoing, After, Idle, Done, At, Save, Files
    <2>1. CASE f = "media"
      BY <2>1
    <2>2. CASE f = "sidecar"
      BY <2>2
    <2>3. QED
      BY <2>1, <2>2
  <1> HIDE DEF p, q
  <1>3. \A u \in Uploads : Lost(u) => Lost(u)'
    BY <1>1, LostStays
  <1>4. TypeOK'
    <2>1. pc' \in [Uploads -> {Idle, Done, At("save", "")} \cup
                     {"look", "rename", "sync", "remove"} \X Files]
      BY DEF Sync, After, Goto, IndInv, TypeOK, At, Files
    <2>2. result[w] # "failed"
      BY <1>1, <1>2 DEF IndInv, Answers
    <2>3. QED
      BY <1>1, <2>1, <2>2 DEF IndInv, TypeOK
  <1>5. Answers'
    BY <1>1, <1>2 DEF IndInv, Answers
  <1>6. Kept'
    BY <1>1, <1>2, <1>3 DEF IndInv, Kept
  <1>7. Seen'
    BY <1>1, <1>2, <1>3 DEF IndInv, Seen
  <1>8. Fresh'
    BY <1>1, <1>2 DEF IndInv, Fresh
  <1>9. Clean'
    <2>1. Troubled(w) \/ Known(w) => Troubled(w)' \/ Known(w)'
      BY <1>1, <1>2 DEF Troubled, Known
    <2>2. QED
      BY <1>1, <1>2, <2>1, CleanStep DEF IndInv, Live
  <1>10. QED
    BY <1>4, <1>5, <1>6, <1>7, <1>8, <1>9 DEF IndInv

\* What is acknowledged is not what takes a step.
LEMMA AnswersOf ==
  ASSUME Answers, NEW w \in Uploads, result[w] # "ok"
  PROVE  /\ \A u \in Uploads : \A v \in earlier[u] : v # w /\ result[v] = "ok"
         /\ \A u \in Uploads \ {w} :
            /\ result[u] = "ok" => pc[u] = Done /\ (DBConfigured => u \in rows)
            /\ pc[u] = Idle => result[u] = "none"
            /\ Undoing(pc[u]) => result[u] = "failed"
            /\ result[u] = "failed" => pc[u] = Done \/ Undoing(pc[u])
            /\ u \in rows => pc[u] = Done \/ "commit" \in met[u]
  BY DEF Answers

\* A write or the row fails: the upload ends or begins to clean up.
LEMMA FailStep ==
  ASSUME IndInv, NEW w \in Uploads, NEW f \in Files \cup {""}, NEW step, NEW call,
         Fail(w, At(step, f), call),
         \/ step \in {"rename", "sync"} /\ f \in Files
         \/ step = "look" /\ f = "sidecar"
         \/ step = "save" /\ f = "",
         step = "sync" => call = "sync",
         rows' = IF call = "commit" THEN rows \cup {w} ELSE rows
  PROVE  IndInv'
  <1> DEFINE p == At(step, f)
             q == Undo(f)
  <1>1. /\ pc[w] = p /\ pc'[w] = q /\ result'[w] = "failed"
        /\ \A u \in Uploads \ {w} : pc'[u] = pc[u] /\ met'[u] = met[u] /\ result'[u] = result[u]
        /\ met'[w] = met[w] \cup {call} /\ call \in Faults
        /\ UNCHANGED <<pre, visible, durable, earlier, before, shared, downs>>
    BY DEF Fail, Fails, Goto, Undo, At, IndInv, TypeOK
  <1>2. /\ p \notin {Idle, Done} /\ q # Idle /\ ~Undoing(p) /\ (q = Done \/ Undoing(q))
        /\ \A g \in Files : /\ ~SyncingOf(q, g) /\ ~Synced(q, g)
                            /\ Looked(q, g) => Looked(p, g)
                            /\ step # "sync" /\ q # Done => (Added(q, g) <=> Added(p, g))
                            /\ ~Unseen(q, g)
    <2> USE DEF Synced, SyncingOf, Looked, Added, Unseen, Undoing, Undo, Idle, Done, At, Save, Files
    <2>1. CASE f = "media"
      BY <2>1
    <2>2. CASE f = "sidecar"
      BY <2>2
    <2>3. CASE f = ""
      BY <2>3
    <2>4. QED
      BY <2>1, <2>2, <2>3
  <1> HIDE DEF p, q
  <1>3. result[w] # "failed" /\ result[w] # "ok"
    BY <1>1, <1>2 DEF IndInv, Answers
  <1>4. \A u \in Uploads : Lost(u) => Lost(u)'
    BY <1>1, <1>3, LostStays
  <1>5. TypeOK'
    <2>1. pc' \in [Uploads -> {Idle, Done, At("save", "")} \cup
                     {"look", "rename", "sync", "remove"} \X Files]
      BY DEF Fail, Undo, Goto, IndInv, TypeOK, At, Files
    <2>2. q \in {Done} \cup {"remove"} \X Files
      BY DEF q, Undo, At, Files
    <2>3. met' \in [Uploads -> SUBSET Faults] /\ result' \in [Uploads -> {"none", "ok", "failed"}]
      BY DEF Fail, Fails, IndInv, TypeOK
    <2>4. QED
      BY <1>1, <2>1, <2>2, <2>3 DEF IndInv, TypeOK
  <1>6. Answers'
    <2>1. \A u \in Uploads : earlier[u] \subseteq Uploads
      BY DEF IndInv, TypeOK
    <2>2. \A u \in Uploads : \A v \in earlier[u] : v # w /\ result[v] = "ok"
      BY <1>3, AnswersOf DEF IndInv
    <2>3. /\ \A u \in Uploads \ {w} : u \in rows' <=> u \in rows
          /\ w \in rows' => w \in rows \/ "commit" \in met'[w]
      BY <1>1
    <2>4. \A u \in Uploads : \A v \in earlier'[u] : result'[v] = "ok"
      BY <1>1, <2>1, <2>2
    <2>5. ASSUME NEW u \in Uploads \ {w}
          PROVE  /\ result'[u] = "ok" => pc'[u] = Done /\ (DBConfigured => u \in rows')
                 /\ pc'[u] = Idle => result'[u] = "none"
                 /\ Undoing(pc'[u]) => result'[u] = "failed"
                 /\ result'[u] = "failed" => pc'[u] = Done \/ Undoing(pc'[u])
                 /\ u \in rows' => pc'[u] = Done \/ "commit" \in met'[u]
      <3>1. /\ pc'[u] = pc[u] /\ result'[u] = result[u] /\ met'[u] = met[u]
            /\ u \in rows' <=> u \in rows
        BY <1>1, <2>3
      <3>2. /\ result[u] = "ok" => pc[u] = Done /\ (DBConfigured => u \in rows)
            /\ pc[u] = Idle => result[u] = "none"
            /\ Undoing(pc[u]) => result[u] = "failed"
            /\ result[u] = "failed" => pc[u] = Done \/ Undoing(pc[u])
            /\ u \in rows => pc[u] = Done \/ "commit" \in met[u]
        BY <1>3, AnswersOf DEF IndInv
      <3>3. QED
        BY <3>1, <3>2
    <2>6. w \in rows' => "commit" \in met'[w]
      BY <1>1, <1>2, <2>3 DEF IndInv, Answers
    <2>7. QED
      BY <1>1, <1>2, <2>4, <2>5, <2>6 DEF Answers
  <1>7. Kept'
    BY <1>1, <1>2, <1>3, <1>4 DEF IndInv, Kept
  <1>8. Seen'
    BY <1>1, <1>2, <1>4 DEF IndInv, Seen
  <1>9. Fresh'
    BY <1>1, <1>2 DEF IndInv, Fresh
  <1>10. Clean'
    <2>1. Live(q) /\ (Troubled(w) \/ Known(w)) => Troubled(w)' \/ Known(w)'
      BY <1>1, <1>2 DEF Troubled, Known, Live
    <2>2. QED
      BY <1>1, <1>2, <2>1, CleanStep DEF IndInv, Live
  <1>11. QED
    BY <1>5, <1>6, <1>7, <1>8, <1>9, <1>10 DEF IndInv

LEMMA SaveStep ==
  ASSUME IndInv, NEW w \in Uploads, SaveMedia(w)
  PROVE  IndInv'
  <1>1. /\ pc[w] = Save /\ pc'[w] = Done /\ result'[w] = "ok"
        /\ \A u \in Uploads \ {w} : pc'[u] = pc[u] /\ result'[u] = result[u]
        /\ rows' = IF DBConfigured THEN rows \cup {w} ELSE rows
        /\ UNCHANGED <<pre, visible, durable, met, earlier, before, shared, downs>>
    BY DEF SaveMedia, history, Goto, IndInv, TypeOK, Save
  <1>2. /\ Save # Idle /\ Save # Done /\ Done # Idle /\ ~Undoing(Save) /\ ~Undoing(Done)
        /\ \A g \in Files : /\ ~SyncingOf(Done, g) /\ Synced(Save, g)
                            /\ ~Synced(Done, g) /\ ~Looked(Done, g) /\ ~Unseen(Done, g)
    BY DEF Synced, SyncingOf, Looked, Unseen, Undoing, Idle, Done, At, Save, Files
  <1>3. result[w] # "failed"
    BY <1>1, <1>2 DEF IndInv, Answers
  <1>4. \A u \in Uploads : Lost(u) => Lost(u)'
    BY <1>1, <1>3, LostStays
  <1>5. TypeOK'
    <2>1. pc' \in [Uploads -> {Idle, Done, At("save", "")} \cup
                     {"look", "rename", "sync", "remove"} \X Files]
      BY DEF SaveMedia, Goto, IndInv, TypeOK, At
    <2>2. result' \in [Uploads -> {"none", "ok", "failed"}]
      BY DEF SaveMedia, IndInv, TypeOK
    <2>3. QED
      BY <1>1, <2>1, <2>2 DEF IndInv, TypeOK
  <1>6. Answers'
    <2>1. \A u \in Uploads : earlier[u] \subseteq Uploads
      BY DEF IndInv, TypeOK
    <2>2. \A u \in Uploads : \A v \in earlier[u] : result'[v] = "ok"
      BY <1>1, <2>1 DEF IndInv, Answers
    <2>3. \A u \in Uploads \ {w} : u \in rows' <=> u \in rows
      BY <1>1
    <2>4. DBConfigured => w \in rows'
      BY <1>1
    <2>5. QED
      BY <1>1, <1>2, <2>2, <2>3, <2>4 DEF IndInv, Answers
  <1>7. Kept'
    BY <1>1, <1>2, <1>3, <1>4 DEF IndInv, Kept
  <1>8. Seen'
    BY <1>1, <1>2, <1>4 DEF IndInv, Seen
  <1>9. Fresh'
    BY <1>1, <1>2 DEF IndInv, Fresh
  <1>10. Clean'
    BY <1>1, <1>2, CleanStep DEF IndInv, Live
  <1>11. QED
    BY <1>5, <1>6, <1>7, <1>8, <1>9, <1>10 DEF IndInv

LEMMA RemoveStep ==
  ASSUME IndInv, NEW w \in Uploads, NEW f \in Files, Remove(w, f)
  PROVE  IndInv'
  <1> DEFINE p == At("remove", f)
             q == AfterRemove(f)
  <1>1. /\ pc[w] = p /\ pc'[w] = q
        /\ \A u \in Uploads \ {w} : pc'[u] = pc[u] /\ met'[u] = met[u]
        /\ \/ /\ visible' = IF f \in pre[w] THEN visible ELSE visible \ {f}
              /\ met' = met
           \/ visible' = visible /\ met'[w] = met[w] \cup {"remove"}
        /\ UNCHANGED <<pre, result, durable, rows, earlier, before, shared, downs>>
    BY DEF Remove, Spares, Fails, Goto, IndInv, TypeOK
  <1>2. /\ p \notin {Idle, Done} /\ q # Idle /\ Undoing(p) /\ (q = Done \/ Undoing(q))
        /\ \A g \in Files : /\ ~SyncingOf(q, g) /\ ~Synced(q, g) /\ ~Unseen(q, g)
                            /\ Looked(q, g) => Looked(p, g)
                            /\ q # Done => (Added(q, g) <=> Added(p, g) /\ g # f)
                            /\ ~Synced(p, g)
        /\ Looked(p, f) /\ Added(p, f)
    <2> USE DEF Synced, SyncingOf, Looked, Added, Unseen, Undoing, AfterRemove, Idle, Done, At, Save, Files
    <2>1. CASE f = "media"
      BY <2>1
    <2>2. CASE f = "sidecar"
      BY <2>2
    <2>3. QED
      BY <2>1, <2>2
  <1> HIDE DEF p, q
  <1>3. result[w] = "failed"
    BY <1>1, <1>2 DEF IndInv, Answers
  <1>4. \A u \in Uploads : Lost(u) => Lost(u)'
    BY <1>1, LostStays
  <1>5. TypeOK'
    <2>1. pc' \in [Uploads -> {Idle, Done, At("save", "")} \cup
                     {"look", "rename", "sync", "remove"} \X Files]
      BY DEF Remove, AfterRemove, Goto, IndInv, TypeOK, At, Files
    <2>2. q \in {Done} \cup {"remove"} \X Files
      BY DEF q, AfterRemove, At, Files
    <2>3. met' \in [Uploads -> SUBSET Faults]
      <3>1. "remove" \in Faults => met[w] \cup {"remove"} \in SUBSET Faults
        BY DEF IndInv, TypeOK
      <3>2. ("remove" \in Faults /\ met' = [met EXCEPT ![w] = met[w] \cup {"remove"}]) \/ met' = met
        BY DEF Remove, Fails
      <3>3. QED
        BY <3>1, <3>2 DEF IndInv, TypeOK
    <2>4. visible' \subseteq Files
      BY <1>1 DEF IndInv, TypeOK
    <2>5. QED
      BY <1>1, <2>1, <2>2, <2>3, <2>4 DEF IndInv, TypeOK
  <1>6. Answers'
    BY <1>1, <1>2, <1>3 DEF IndInv, Answers
  <1>7. Kept'
    <2>1. ASSUME NEW u \in Uploads \ {w}, f \notin pre[w]
          PROVE  Lost(u)
      <3>1. CASE u \in earlier[w] /\ "stat" \notin met[w]
        BY <1>1, <1>2, <2>1, <3>1 DEF IndInv, Seen
      <3>2. CASE ~(u \in earlier[w] /\ "stat" \notin met[w])
        BY <1>3, <3>2 DEF Lost, Spoils
      <3>3. QED
        BY <3>1, <3>2
    <2>2. \A u \in Uploads \ {w} : visible' = visible \/ Lost(u)'
      BY <1>1, <1>4, <2>1
    <2>3. QED
      BY <1>1, <1>2, <1>3, <1>4, <2>2 DEF IndInv, Kept
  <1>8. Seen'
    BY <1>1, <1>2, <1>4 DEF IndInv, Seen
  <1>9. Fresh'
    BY <1>1, <1>2 DEF IndInv, Fresh
  <1>10. Clean'
    <2>1. Live(q) /\ (Troubled(w) \/ Known(w)) => Troubled(w)' \/ Known(w)'
      BY <1>1, <1>2 DEF Troubled, Known, Live
    <2>2. QED
      BY <1>1, <1>2, <2>1, CleanStep DEF IndInv, Live
  <1>11. QED
    BY <1>5, <1>6, <1>7, <1>8, <1>9, <1>10 DEF IndInv

LEMMA DownStep ==
  ASSUME IndInv, Kill \/ PowerLoss
  PROVE  IndInv'
  <1>1. /\ \A u \in Uploads : pc'[u] = IF Live(pc[u]) THEN Done ELSE pc[u]
        /\ visible \cap durable \subseteq visible' \cap durable'
        /\ UNCHANGED <<pre, result, rows, met, earlier, before, shared>>
    BY DEF Kill, PowerLoss, Stop, Running, Live, history
  <1>2. Idle # Done
    BY DEF Idle, Done, At
  <1>3. \A u \in Uploads : /\ ~Live(pc'[u]) /\ (pc'[u] = Idle <=> pc[u] = Idle)
                           /\ pc[u] = Done => pc'[u] = Done
    BY <1>2, <1>1 DEF Live
  <1>4. /\ \A g \in Files : /\ ~SyncingOf(Done, g) /\ ~Synced(Done, g) /\ ~Looked(Done, g)
                            /\ ~SyncingOf(Idle, g) /\ ~Synced(Idle, g) /\ ~Looked(Idle, g)
                            /\ ~Unseen(Done, g)
        /\ ~Undoing(Idle) /\ ~Undoing(Done)
    BY DEF SyncingOf, Synced, Looked, Unseen, Undoing, Idle, Done, At, Save
  <1>5. \A u \in Uploads : pc'[u] = Idle \/ pc'[u] = Done
    BY <1>3 DEF Live
  <1>6. \A u \in Uploads : Lost(u) => Lost(u)'
    BY <1>1, LostStays
  <1>7. TypeOK'
    <2>1. pc' \in [Uploads -> {Idle, Done, At("save", "")} \cup
                     {"look", "rename", "sync", "remove"} \X Files]
      BY DEF Kill, PowerLoss, Stop, IndInv, TypeOK
    <2>2. downs' \in 0..MaxDowns
      <3>1. downs \in 0..MaxDowns /\ downs < MaxDowns /\ downs' = downs + 1
        BY DEF Kill, PowerLoss, Stop, IndInv, TypeOK
      <3>2. MaxDowns \in Nat
        BY UploadAssumption
      <3>3. QED
        BY <3>1, <3>2
    <2>3. visible' \subseteq Files /\ durable' \subseteq Files
      BY DEF Kill, PowerLoss, IndInv, TypeOK
    <2>4. \A u \in Uploads : result[u] = "failed" => pc'[u] = Done
      BY <1>3, <1>5 DEF IndInv, Answers
    <2>5. QED
      BY <1>1, <2>1, <2>2, <2>3, <2>4 DEF IndInv, TypeOK
  <1>8. Answers'
    <2>1. \A u \in Uploads : /\ result[u] = "ok" \/ result[u] = "failed" => pc'[u] = Done
                             /\ u \in rows => pc'[u] = Done \/ "commit" \in met[u]
      BY <1>3, <1>4, <1>5 DEF IndInv, Answers
    <2>2. \A u \in Uploads : pc'[u] = Idle => result[u] = "none"
      BY <1>3 DEF IndInv, Answers
    <2>3. \A u \in Uploads : ~Undoing(pc'[u])
      BY <1>4, <1>5
    <2>4. \A u \in Uploads : /\ result[u] = "ok" => (DBConfigured => u \in rows)
                             /\ \A v \in earlier[u] : result[v] = "ok"
      BY DEF IndInv, Answers
    <2>5. QED
      BY <1>1, <2>1, <2>2, <2>3, <2>4 DEF Answers
  <1>9. Kept'
    BY <1>1, <1>3, <1>4, <1>5, <1>6 DEF IndInv, Kept
  <1>10. Seen'
    BY <1>1, <1>3, <1>4, <1>5, <1>6 DEF IndInv, Seen
  <1>11. Fresh'
    BY <1>1, <1>3, <1>4, <1>5 DEF IndInv, Fresh
  <1>12. Clean'
    BY <1>3 DEF Clean, Alone
  <1>13. QED
    BY <1>7, <1>8, <1>9, <1>10, <1>11, <1>12 DEF IndInv

\* A failure before or after the rename, or of the database.
LEMMA FailsStep ==
  ASSUME IndInv, NEW w \in Uploads, NEW f \in Files, WriteFails(w, f) \/ SaveMediaFails(w)
  PROVE  IndInv'
  <1>1. CASE WriteFails(w, f)
    <2>1. CASE Fail(w, At("rename", f), "rename")
      BY <1>1, <2>1, FailStep DEF WriteFails, IndInv, TypeOK
    <2>2. CASE Fail(w, At("sync", f), "sync")
      BY <1>1, <2>2, FailStep DEF WriteFails, IndInv, TypeOK
    <2>3. CASE f = "sidecar" /\ Fail(w, At("look", f), "path")
      BY <1>1, <2>3, FailStep DEF WriteFails, IndInv, TypeOK
    <2>4. QED
      BY <1>1, <2>1, <2>2, <2>3 DEF WriteFails
  <1>2. CASE SaveMediaFails(w)
    <2>1. CASE Fail(w, At("save", ""), "insert") /\ UNCHANGED rows
      BY <2>1, FailStep DEF IndInv, TypeOK, Save
    <2>2. CASE Fail(w, At("save", ""), "commit") /\ rows' = rows \cup {w}
      BY <2>2, FailStep DEF IndInv, TypeOK, Save
    <2>3. QED
      BY <1>2, <2>1, <2>2 DEF SaveMediaFails
  <1>3. QED
    BY <1>1, <1>2

LEMMA NextInv == IndInv /\ [Next]_vars => IndInv'
  <1> SUFFICES ASSUME IndInv, [Next]_vars PROVE IndInv'
    OBVIOUS
  <1>1. CASE UNCHANGED vars
    BY <1>1 DEF IndInv, TypeOK, Answers, Kept, Seen, Fresh, Clean, Lost, Spoils, Alone, Troubled,
                Known, vars, history
  <1>2. ASSUME NEW u \in Uploads, NEW f \in Files, Step(u, f)
        PROVE  IndInv'
    BY <1>2, LookStep, RenameStep, SyncStep, FailsStep, RemoveStep DEF Step
  <1>3. ASSUME NEW u \in Uploads, Begin(u) \/ SaveMedia(u) \/ SaveMediaFails(u)
        PROVE  IndInv'
    <2>1. "media" \in Files
      BY DEF Files
    <2>2. QED
      BY <1>3, <2>1, BeginStep, SaveStep, FailsStep
  <1>4. CASE Kill \/ PowerLoss
    BY <1>4, DownStep
  <1>5. QED
    BY <1>1, <1>2, <1>3, <1>4 DEF Next

THEOREM Invariance == Spec => []IndInv
  BY InitInv, NextInv, PTL DEF Spec
-----------------------------------------------------------------------------
(* The results *)

\* Every variable keeps its type, and an upload whose failure is decided does
\* nothing any more but clean up (saveUploadedMedia).
THEOREM Types == Spec => []TypeOK
  <1>1. IndInv => TypeOK
    BY DEF IndInv
  <1>2. QED
    BY Invariance, <1>1, PTL

\* Whatever fails or is killed later, the file, the sidecar and the row of an
\* acknowledged upload stay, unless a failed upload of the same content began
\* before or could not look (saveUploadedMedia, cleanupWrittenUpload).
THEOREM UploadsAreKept == Spec => []AcknowledgedIsKept
  <1>1. IndInv => AcknowledgedIsKept
    <2> SUFFICES ASSUME IndInv, NEW u \in Acknowledged
                 PROVE  /\ DBConfigured => u \in rows
                        /\ \/ Files \subseteq visible \cap durable
                           \/ \E v \in Uploads \ {u} : Spoils(v, u)
      BY DEF AcknowledgedIsKept
    <2>1. u \in Uploads /\ result[u] = "ok"
      BY DEF Acknowledged
    <2>2. \A f \in Files : f \in visible \cap durable \/ Lost(u)
      BY <2>1 DEF IndInv, Kept
    <2>3. QED
      BY <2>1, <2>2 DEF IndInv, Answers, Lost
  <1>2. QED
    BY Invariance, <1>1, PTL

\* The ways in which an upload that was alone can end as a failure.
LEMMA Ending ==
  ASSUME IndInv, [Next]_vars, NEW u \in Uploads \ shared,
         pc[u] # Done, pc'[u] = Done, result'[u] = "failed", downs' = downs,
         met'[u] \cap {"stat", "sync", "remove", "commit"} = {}
  PROVE  visible' = before[u] /\ u \notin rows'
  <1>1. ASSUME Live(pc[u]), ~Troubled(u)
        PROVE  u \notin rows /\ Known(u)
    BY <1>1 DEF IndInv, Clean, Alone, Answers, Troubled
  <1>2. visible \subseteq Files /\ before[u] \subseteq Files
    BY DEF IndInv, TypeOK
  <1>3. CASE UNCHANGED vars
    BY <1>3 DEF vars
  <1>4. CASE Kill \/ PowerLoss
    <2>1. downs' = downs + 1
      BY <1>4 DEF Kill, PowerLoss, Stop
    <2>2. downs \in Nat
      <3>1. downs \in 0..MaxDowns
        BY DEF IndInv, TypeOK
      <3>2. QED
        BY <3>1
    <2>3. QED
      BY <2>1, <2>2
  <1>5. ASSUME NEW w \in Uploads, Begin(w) \/ SaveMedia(w)
        PROVE  FALSE
    <2>1. w # u => pc'[u] = pc[u]
      BY <1>5 DEF Begin, SaveMedia, Goto, IndInv, TypeOK
    <2>2. pc'[w] = At("look", "media") \/ result'[w] = "ok"
      BY <1>5 DEF Begin, SaveMedia, Goto, IndInv, TypeOK
    <2>3. At("look", "media") # Done
      BY DEF At, Done
    <2>4. QED
      BY <2>1, <2>2, <2>3
  <1>6. ASSUME NEW w \in Uploads, NEW f \in Files, Look(w, f) \/ Rename(w, f) \/ Sync(w, f)
        PROVE  FALSE
    <2>1. w # u => pc'[u] = pc[u]
      BY <1>6 DEF Look, Rename, Sync, Goto, IndInv, TypeOK
    <2>2. pc'[w] \in {At("rename", f), At("sync", f), After(f)}
      BY <1>6 DEF Look, Rename, Sync, Goto, IndInv, TypeOK
    <2>3. Done \notin {At("rename", f), At("sync", f), After(f)}
      BY DEF At, Done, After
    <2>4. QED
      BY <2>1, <2>2, <2>3
  <1>7. ASSUME NEW w \in Uploads, NEW f \in Files \cup {""}, NEW step, NEW call,
               Fail(w, At(step, f), call),
               f = "" \/ (step = "rename" /\ rows' = rows) \/ (step = "sync" /\ call = "sync")
                 \/ f = "sidecar"
        PROVE  visible' = before[u] /\ u \notin rows'
    <2>1. /\ pc[w] = At(step, f) /\ pc' = [pc EXCEPT ![w] = Undo(At(step, f)[2])]
          /\ At(step, f)[2] = f
          /\ met' = [met EXCEPT ![w] = met[w] \cup {call}] /\ visible' = visible
      BY <1>7 DEF Fail, Fails, Goto, At
    <2>2. /\ w # u => pc'[u] = pc[u]
          /\ pc[w] = At(step, f) /\ pc'[w] = Undo(f) /\ met'[w] = met[w] \cup {call}
          /\ visible' = visible
      BY <2>1 DEF IndInv, TypeOK
    <2>3. w = u
      BY <2>2
    <2>4. f = "media" \/ Undo(f) # Done
      BY DEF Undo, At, Done, Files
    <2>5. f = "media"
      BY <2>2, <2>3, <2>4
    <2>6. step = "rename" /\ rows' = rows /\ ~Troubled(u)
      BY <1>7, <2>2, <2>3, <2>5 DEF Troubled
    <2>7. Live(At("rename", "media")) /\ \A g \in Files : ~Added(At("rename", "media"), g)
      BY DEF Live, Added, Idle, Done, At, Save, Files
    <2>8. QED
      <3>1. u \notin rows /\ Known(u) /\ pc[u] = At("rename", "media")
        BY <1>1, <2>2, <2>3, <2>5, <2>6, <2>7
      <3>2. \A g \in Files : g \in visible <=> g \in before[u]
        BY <2>7, <3>1 DEF Known
      <3>3. QED
        BY <1>2, <2>2, <2>6, <3>1, <3>2
  <1>8. ASSUME NEW w \in Uploads, NEW f \in Files, Remove(w, f)
        PROVE  visible' = before[u] /\ u \notin rows'
    <2>1. /\ w # u => pc'[u] = pc[u]
          /\ pc[w] = At("remove", f) /\ pc'[w] = AfterRemove(f) /\ rows' = rows
          /\ \/ /\ visible' = IF f \in pre[w] THEN visible ELSE visible \ {f}
                /\ met' = met
             \/ met'[w] = met[w] \cup {"remove"}
      BY <1>8 DEF Remove, Spares, Fails, Goto, IndInv, TypeOK
    <2>2. w = u
      BY <2>1
    <2>3. f = "media"
      <3>1. AfterRemove("sidecar") # Done
        BY DEF AfterRemove, At, Done
      <3>2. QED
        BY <2>1, <2>2, <3>1 DEF Files
    <2>4. /\ visible' = IF "media" \in pre[u] THEN visible ELSE visible \ {"media"}
          /\ met' = met
      BY <2>1, <2>2, <2>3
    <2>5. ~Troubled(u)
      BY <2>4 DEF Troubled
    <2>6. LET p == At("remove", "media") IN
          /\ Live(p) /\ Looked(p, "media") /\ "media" \in Files
          /\ \A g \in Files : Added(p, g) <=> g = "media"
      BY DEF Live, Looked, Added, Idle, Done, At, Save, Files
    <2>7. Known(u) /\ u \notin rows'
      BY <1>1, <2>1, <2>2, <2>3, <2>5, <2>6
    <2>8. QED
      <3>1. pc[u] = At("remove", "media")
        BY <2>1, <2>2, <2>3
      <3>2. /\ \A g \in Files : g \in visible <=> (g \in before[u] \/ g = "media")
            /\ "media" \in pre[u] <=> "media" \in before[u]
        BY <2>6, <2>7, <3>1 DEF Known
      <3>3. QED
        BY <1>2, <2>4, <2>6, <2>7, <3>2
  <1>9. ASSUME NEW w \in Uploads, NEW f \in Files, WriteFails(w, f)
        PROVE  visible' = before[u] /\ u \notin rows'
    BY <1>7, <1>9 DEF WriteFails
  <1>10. ASSUME NEW w \in Uploads, SaveMediaFails(w)
         PROVE  visible' = before[u] /\ u \notin rows'
    BY <1>7, <1>10 DEF SaveMediaFails
  <1>11. QED
    BY <1>3, <1>4, <1>5, <1>6, <1>8, <1>9, <1>10 DEF Next, Step

\* An upload that fails with nobody beside it leaves the files it found and
\* no row, if none of the errors it does not undo has met it.
THEOREM FailuresLeaveNothing == Spec => RefusedLeavesNothing
  <1>1. IndInv /\ [Next]_vars =>
          [\A u \in Uploads \ shared :
             pc[u] # Done /\ pc'[u] = Done /\ result'[u] = "failed" /\ downs' = downs
               /\ met'[u] \cap {"stat", "sync", "remove", "commit"} = {}
             => visible' = before[u] /\ u \notin rows']_vars
    BY Ending
  <1>2. QED
    BY Invariance, <1>1, PTL DEF Spec, RefusedLeavesNothing
=============================================================================
