------------------------------- MODULE Upload -------------------------------
(***************************************************************************)
(* saveUploadedMedia for one stored name, the hash of the content: two     *)
(* uploads of one content, at once or one after the other, write the same  *)
(* media file and the same sidecar, and a Media row each.                  *)
(*                                                                         *)
(* Nothing is locked.  An upload looks whether a file is there, writes it  *)
(* (atomicWriteFile: a rename, then a sync of the directory) and, when it  *)
(* fails later on, removes what was not there when it looked.  A file is   *)
(* there or not: the media are equal, and whose metadata a sidecar holds   *)
(* is not modelled.  Requests refused before they touch a file (no         *)
(* session, invalid content) change nothing and are left out.              *)
(***************************************************************************)
EXTENDS Naturals, FiniteSets

CONSTANTS
  Uploads,
  DBConfigured,  \* dbPostRevisionConfigured()
  Faults,        \* the calls that may fail
  MaxFaults,     \* bound: failures
  MaxDowns       \* bound: kills of the process and power losses

Files == {"media", "sidecar"}

Calls == {"stat", "path", "rename", "sync", "insert", "commit", "remove"}

ASSUME UploadAssumption ==
  /\ DBConfigured \in BOOLEAN
  /\ Faults \subseteq Calls
  /\ MaxFaults \in Nat /\ MaxDowns \in Nat

VARIABLES
  pc,       \* pc[u]: the next step of u, with the file it is about
  pre,      \* pre[u]: the files u found when it looked (...Preexisting)
  result,   \* result[u]: what u answers: "none" until it is known
  visible, durable, \* the files there: as seen, as a power loss leaves them
  rows,     \* uploads with a committed Media row
  met,      \* met[u]: the calls of u that failed: history
  earlier,  \* earlier[u]: uploads acknowledged before u began: history
  before,   \* before[u]: the files there when u began: history
  shared,   \* uploads during which another was running: history
  downs

history == <<met, earlier, before, shared>>
vars    == <<pc, pre, result, visible, durable, rows, history, downs>>

At(step, f) == <<step, f>>
Idle    == At("idle", "")
Done    == At("done", "")
Running(u) == pc[u] \notin {Idle, Done}

Init ==
  /\ pc = [u \in Uploads |-> Idle]
  /\ pre = [u \in Uploads |-> {}]
  /\ result = [u \in Uploads |-> "none"]
  /\ visible = {} /\ durable = {}
  /\ rows = {}
  /\ met = [u \in Uploads |-> {}]
  /\ earlier = [u \in Uploads |-> {}] /\ before = [u \in Uploads |-> {}]
  /\ shared = {}
  /\ downs = 0

Acknowledged == {u \in Uploads : result[u] = "ok"}

Goto(u, from, to) == pc[u] = from /\ pc' = [pc EXCEPT ![u] = to]

\* A call of u fails, for one of the reasons the instance allows.
Fails(u, call) ==
  /\ call \in Faults
  /\ Cardinality({m \in Uploads \X Calls : m[2] \in met[m[1]]} \cup {<<u, call>>}) <= MaxFaults
  /\ met' = [met EXCEPT ![u] = @ \cup {call}]
-----------------------------------------------------------------------------
Begin(u) ==
  /\ Goto(u, Idle, At("look", "media"))
  /\ earlier' = [earlier EXCEPT ![u] = Acknowledged]
  /\ before' = [before EXCEPT ![u] = visible]
  /\ shared' = LET others == {v \in Uploads : Running(v)}
               IN  IF others = {} THEN shared ELSE shared \cup others \cup {u}
  /\ UNCHANGED <<pre, result, visible, durable, rows, met, downs>>

\* pathExists: any error of stat means "not there".
Look(u, f) ==
  /\ Goto(u, At("look", f), At("rename", f))
  /\ \/ /\ pre' = [pre EXCEPT ![u] = @ \cup ({f} \cap visible)]
        /\ UNCHANGED met
     \/ Fails(u, "stat") /\ UNCHANGED pre
  /\ UNCHANGED <<result, visible, durable, rows, earlier, before, shared, downs>>

\* atomicWriteFile: the temporary file is renamed over the file ...
Rename(u, f) ==
  /\ Goto(u, At("rename", f), At("sync", f))
  /\ visible' = visible \cup {f}
  /\ UNCHANGED <<pre, result, durable, rows, history, downs>>

After(f) == IF f = "media" THEN At("look", "sidecar") ELSE At("save", "")

\* ... and its directory is synced.
Sync(u, f) ==
  /\ Goto(u, At("sync", f), After(f))
  /\ durable' = (durable \ {f}) \cup (visible \cap {f})
  /\ UNCHANGED <<pre, result, visible, rows, history, downs>>

\* Mutant: a failed row leaves the sidecar to the next upload.
Undo_MediaOnly(f) == IF f = "media" THEN Done ELSE At("remove", "media")

\* Mutant: an upload goes on to the database without its sidecar.
Undo_GoesOn(f) == CASE f = "media"   -> Done
                    [] f = "sidecar" -> At("save", "")
                    [] OTHER         -> At("remove", "sidecar")

\* Where the clean-up begins when the call about f fails: nothing after the
\* media file, the media file after the sidecar, both after the row.
Undo(f) == CASE f = "media"   -> Done
             [] f = "sidecar" -> At("remove", "media")
             [] OTHER         -> At("remove", "sidecar")

Fail(u, from, call) ==
  /\ Fails(u, call)
  /\ Goto(u, from, Undo(from[2]))
  /\ result' = [result EXCEPT ![u] = "failed"]
  /\ UNCHANGED <<pre, visible, durable, earlier, before, shared, downs>>

\* atomicWriteFile fails before the rename, or after it; mediaSidecarPath fails.
WriteFails(u, f) ==
  /\ \/ Fail(u, At("rename", f), "rename")
     \/ Fail(u, At("sync", f), "sync")
     \/ f = "sidecar" /\ Fail(u, At("look", f), "path")
  /\ UNCHANGED rows

\* SaveMediaFromConfig, if a database is configured.
SaveMedia(u) ==
  /\ Goto(u, At("save", ""), Done)
  /\ rows' = IF DBConfigured THEN rows \cup {u} ELSE rows
  /\ result' = [result EXCEPT ![u] = "ok"]
  /\ UNCHANGED <<pre, visible, durable, history, downs>>

\* The row is not there, or it is and the answer of the database was lost.
SaveMediaFails(u) ==
  /\ DBConfigured
  /\ \/ Fail(u, At("save", ""), "insert") /\ UNCHANGED rows
     \/ Fail(u, At("save", ""), "commit") /\ rows' = rows \cup {u}

AfterRemove(f) == IF f = "sidecar" THEN At("remove", "media") ELSE Done

\* Mutant: what was there before is removed as well.
Spares_Nothing(u, f) == FALSE

\* cleanupWrittenUpload spares a file that was there before.
Spares(u, f) == f \in pre[u]

\* cleanupWrittenUpload: os.Remove, whose error is ignored, and no sync.
Remove(u, f) ==
  /\ Goto(u, At("remove", f), AfterRemove(f))
  /\ \/ /\ visible' = IF Spares(u, f) THEN visible ELSE visible \ {f}
        /\ UNCHANGED met
     \/ ~Spares(u, f) /\ Fails(u, "remove") /\ UNCHANGED visible
  /\ UNCHANGED <<pre, result, durable, rows, earlier, before, shared, downs>>

Stop == /\ downs < MaxDowns /\ downs' = downs + 1
        /\ pc' = [u \in Uploads |-> IF Running(u) THEN Done ELSE pc[u]]

Kill == Stop /\ UNCHANGED <<pre, result, visible, durable, rows, history>>

\* What was not synced, a rename or a removal, may be undone.
PowerLoss ==
  /\ Stop
  /\ visible' \in {left \in SUBSET (visible \cup durable) : visible \cap durable \subseteq left}
  /\ durable' = visible'
  /\ UNCHANGED <<pre, result, rows, history>>

Step(u, f) == \/ Look(u, f) \/ Rename(u, f) \/ Sync(u, f) \/ WriteFails(u, f)
              \/ Remove(u, f)

Next ==
  \/ \E u \in Uploads : \/ Begin(u) \/ SaveMedia(u) \/ SaveMediaFails(u)
                        \/ \E f \in Files : Step(u, f)
  \/ Kill \/ PowerLoss

Spec == Init /\ [][Next]_vars
-----------------------------------------------------------------------------
(* Correctness *)

TypeOK ==
  /\ pc \in [Uploads -> {Idle, Done, At("save", "")} \cup
               {"look", "rename", "sync", "remove"} \X Files]
  /\ pre \in [Uploads -> SUBSET Files] /\ before \in [Uploads -> SUBSET Files]
  /\ result \in [Uploads -> {"none", "ok", "failed"}]
  /\ visible \subseteq Files /\ durable \subseteq Files
  /\ \A u \in Uploads : result[u] = "failed" => pc[u] \in {Done} \cup {"remove"} \X Files
  /\ rows \subseteq Uploads /\ shared \subseteq Uploads
  /\ downs \in 0..MaxDowns /\ met \in [Uploads -> SUBSET Faults] /\ earlier \in [Uploads -> SUBSET Uploads]

\* Upload v may have removed a file under u: it had begun before u was
\* acknowledged, or its stat failed, and it failed itself.
Spoils(v, u) ==
  /\ result[v] = "failed"
  /\ u \notin earlier[v] \/ "stat" \in met[v]

\* An acknowledged upload's media file and sidecar are there and survive a
\* power loss, and its row is in the database, whatever fails or is killed
\* later: only an upload of the same content that had begun before, or could
\* not look, takes its files away (cleanupWrittenUpload).
AcknowledgedIsKept ==
  \A u \in Acknowledged :
    /\ DBConfigured => u \in rows
    /\ \/ Files \subseteq visible \cap durable
       \/ \E v \in Uploads \ {u} : Spoils(v, u)

\* A failed upload that was alone leaves the files it found and no others,
\* and no row, unless a rename was followed by a failed sync or a removal
\* failed (both errors it does not undo), or the database lied.
RefusedLeavesNothing ==
  [][\A u \in Uploads \ shared :
       pc[u] # Done /\ pc'[u] = Done /\ result'[u] = "failed" /\ downs' = downs
         /\ met'[u] \cap {"stat", "sync", "remove", "commit"} = {}
       => visible' = before[u] /\ u \notin rows']_vars
=============================================================================
