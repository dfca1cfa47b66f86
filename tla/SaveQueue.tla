----------------------------- MODULE SaveQueue -----------------------------
(***************************************************************************)
(* pkg/database/database.go: posts to be saved wait in a buffered channel; *)
(* Run keeps one worker goroutine alive, which takes them one by one, and  *)
(* puts back what it could not save.  A busy database costs a retry, any   *)
(* other error the worker, which Run replaces.                             *)
(***************************************************************************)
EXTENDS Naturals, Sequences, FiniteSets, SequencesExt

CONSTANTS
  Tasks,      \* the posts
  Workers,    \* names for worker goroutines, reused
  None,
  Capacity,   \* of the channel (1000000 in the code)
  MaxErrors   \* bound: errors of the database

ASSUME SaveQueueAssumption ==
  /\ None \notin Tasks
  /\ Capacity \in Nat \ {0}
  /\ MaxErrors \in Nat

VARIABLES
  sent,     \* the posts ever sent to the channel, in that order
  queue,    \* the channel's buffer
  parked,   \* posts held by goroutines that wait to send them again
  token,    \* len(respawnLock)
  pc,       \* pc[w]: what worker w is doing
  hand,     \* hand[w]: currentDatabaseSavePostTask
  dog,      \* dog[w]: the watchdog goroutine of worker w
  rows,     \* the rows of the Post table, in the order of their commits
  retried,  \* the posts that were put back: history
  doubtful, \* those of them whose commit was reported as an error: history
  errors

channel == <<sent, queue, parked>>
worker  == <<token, pc, hand, dog>>
vars    == <<channel, worker, rows, retried, doubtful, errors>>

Stages == {"off", "connecting", "selecting", "saving", "leaving", "closing"}

Goto(w, from, to) == pc[w] = from /\ pc' = [pc EXCEPT ![w] = to]

AnError == errors < MaxErrors /\ errors' = errors + 1

Init ==
  /\ sent = <<>> /\ queue = <<>> /\ parked = {}
  /\ token = 0
  /\ pc = [w \in Workers |-> "off"]
  /\ hand = [w \in Workers |-> None]
  /\ dog = [w \in Workers |-> "off"]
  /\ rows = <<>> /\ retried = {}
  /\ doubtful = {} /\ errors = 0

\* A caller sends a post; it waits while the buffer is full.
Submit(t) ==
  /\ t \notin ToSet(sent) /\ Len(queue) < Capacity
  /\ sent' = Append(sent, t)
  /\ queue' = Append(queue, t)
  /\ UNCHANGED <<parked, worker, rows, retried, doubtful, errors>>

\* Mutant: the worker starts without the token.
Spawn_Unguarded(w) ==
  /\ Goto(w, "off", "connecting")
  /\ token' = 1
  /\ UNCHANGED <<channel, hand, dog, rows, retried, doubtful, errors>>

\* The loop of Run: respawnLock has room for one worker.
Spawn(w) ==
  /\ Goto(w, "off", "connecting")
  /\ token = 0 /\ token' = 1
  /\ UNCHANGED <<channel, hand, dog, rows, retried, doubtful, errors>>

\* databaseWorkerRun: connectToDb, then the watchdog is started.
Connect(w) ==
  /\ Goto(w, "connecting", "selecting")
  /\ dog' = [dog EXCEPT ![w] = "watching"]
  /\ UNCHANGED <<channel, token, hand, rows, retried, doubtful, errors>>

ConnectFails(w) ==
  /\ Goto(w, "connecting", "leaving")
  /\ AnError
  /\ UNCHANGED <<channel, token, hand, dog, rows, retried, doubtful>>

Receive(w) ==
  /\ Goto(w, "selecting", "saving")
  /\ queue # <<>>
  /\ hand' = [hand EXCEPT ![w] = Head(queue)]
  /\ queue' = Tail(queue)
  /\ UNCHANGED <<sent, parked, token, dog, rows, retried, doubtful, errors>>

\* processDatabaseSavePostTask: the insert commits ...
Save(w) ==
  /\ Goto(w, "saving", "selecting")
  /\ rows' = Append(rows, hand[w])
  /\ hand' = [hand EXCEPT ![w] = None]
  /\ UNCHANGED <<channel, token, dog, retried, doubtful, errors>>

\* Mutants: a full channel loses the post, or a list without a bound takes the
\* place of the channel.
Requeue_Drops(t) ==
  /\ retried' = retried \cup {t}
  /\ queue' = IF Len(queue) < Capacity THEN Append(queue, t) ELSE queue
  /\ UNCHANGED <<sent, parked>>

Requeue_Unbounded(t) ==
  /\ retried' = retried \cup {t}
  /\ queue' = Append(queue, t)
  /\ UNCHANGED <<sent, parked>>

\* requeueDatabaseSavePostTask: a select with a default, so that the only
\* receiver never waits for itself; a full channel is left to a goroutine.
Requeue(t) ==
  /\ retried' = retried \cup {t}
  /\ IF Len(queue) < Capacity
       THEN queue' = Append(queue, t) /\ UNCHANGED parked
       ELSE parked' = parked \cup {t} /\ UNCHANGED queue
  /\ UNCHANGED sent

\* Mutant: the error is that of a later statement, the insert is committed.
SaveBusy_Committed(w) ==
  /\ Goto(w, "saving", "selecting")
  /\ AnError
  /\ Requeue(hand[w])
  /\ rows' = Append(rows, hand[w])
  /\ hand' = [hand EXCEPT ![w] = None]
  /\ UNCHANGED <<token, dog, doubtful>>

\* ... or the database is busy: the worker goes on ...
SaveBusy(w) ==
  /\ Goto(w, "saving", "selecting")
  /\ AnError
  /\ Requeue(hand[w])
  /\ hand' = [hand EXCEPT ![w] = None]
  /\ UNCHANGED <<token, dog, rows, doubtful>>

\* ... or fails otherwise, perhaps only to report a commit: it gives up.
SaveFails(w) ==
  /\ Goto(w, "saving", "leaving")
  /\ AnError
  /\ Requeue(hand[w])
  /\ \/ UNCHANGED <<rows, doubtful>>
     \/ rows' = Append(rows, hand[w]) /\ doubtful' = doubtful \cup {hand[w]}
  /\ hand' = [hand EXCEPT ![w] = None]
  /\ UNCHANGED <<token, dog>>

\* The goroutine of requeueDatabaseSavePostTask gets its turn.
Resend(t) ==
  /\ t \in parked /\ Len(queue) < Capacity
  /\ queue' = Append(queue, t)
  /\ parked' = parked \ {t}
  /\ UNCHANGED <<sent, worker, rows, retried, doubtful, errors>>

\* The watchdog touches the database if it finds the channel empty ...
Touch(w) ==
  /\ dog[w] = "watching" /\ queue = <<>>
  /\ dog' = [dog EXCEPT ![w] = "touching"]
  /\ UNCHANGED <<channel, token, pc, hand, rows, retried, doubtful, errors>>

\* ... sleeps, also if the database is busy ...
Rest(w) ==
  /\ dog[w] = "touching"
  /\ dog' = [dog EXCEPT ![w] = "watching"]
  /\ UNCHANGED <<channel, token, pc, hand, rows, retried, doubtful, errors>>

\* ... and sends another error to its worker ...
Bark(w) ==
  /\ dog[w] = "touching"
  /\ AnError
  /\ dog' = [dog EXCEPT ![w] = "barking"]
  /\ UNCHANGED <<channel, token, pc, hand, rows, retried, doubtful>>

\* ... which gives up.
Heed(w) ==
  /\ Goto(w, "selecting", "leaving")
  /\ dog[w] = "barking" /\ dog' = [dog EXCEPT ![w] = "off"]
  /\ UNCHANGED <<channel, token, hand, rows, retried, doubtful, errors>>

\* Mutant: the connection is closed, the token is never given back.
Leave_KeepsToken(w) ==
  /\ Goto(w, "leaving", "closing")
  /\ UNCHANGED <<channel, token, hand, dog, rows, retried, doubtful, errors>>

\* deferCleanup: the token first, so that a new worker may start while the
\* connection is being closed.
Leave(w) ==
  /\ Goto(w, "leaving", "closing")
  /\ token' = 0
  /\ UNCHANGED <<channel, hand, dog, rows, retried, doubtful, errors>>

\* A watchdog left behind finds the connection closed and waits for ever to
\* tell a worker that is gone: it no longer matters to anybody.
Close(w) ==
  /\ Goto(w, "closing", "off")
  /\ dog' = [dog EXCEPT ![w] = "off"]
  /\ UNCHANGED <<channel, token, hand, rows, retried, doubtful, errors>>

Work(w) == \/ Connect(w) \/ ConnectFails(w)
           \/ Receive(w) \/ Heed(w)
           \/ Save(w) \/ SaveBusy(w) \/ SaveFails(w)
           \/ Leave(w) \/ Close(w)

Next == \/ \E t \in Tasks : Submit(t) \/ Resend(t)
        \/ \E w \in Workers : Spawn(w) \/ Work(w) \/ Touch(w) \/ Rest(w) \/ Bark(w)

Spec == Init /\ [][Next]_vars

\* Goroutines run; the database answers, sooner or later without an error.
Fairness == /\ \A t \in Tasks : WF_vars(Resend(t))
            /\ WF_vars(\E w \in Workers : Spawn(w))
            /\ \A w \in Workers : WF_vars(Work(w))

FairSpec == Spec /\ Fairness
-----------------------------------------------------------------------------
(* Correctness *)

TypeOK ==
  /\ sent \in Seq(Tasks) /\ queue \in Seq(Tasks) /\ rows \in Seq(Tasks)
  /\ parked \subseteq Tasks /\ retried \subseteq Tasks
  /\ Len(queue) <= Capacity
  /\ token \in 0..1
  /\ pc \in [Workers -> Stages]
  /\ hand \in [Workers -> Tasks \cup {None}]
  /\ dog \in [Workers -> {"off", "watching", "touching", "barking"}]
  /\ doubtful \subseteq Tasks /\ errors \in 0..MaxErrors

Waiting(t) == t \in ToSet(queue) \cup parked \cup {hand[w] : w \in Workers}

\* "No silent loss from the save queue": a post that was sent is waiting, in
\* somebody's hands, or in the table, whatever errors came in between.
NoSilentLoss == \A t \in ToSet(sent) : Waiting(t) \/ t \in ToSet(rows)

\* A retry never saves a second revision of a post that was saved, unless the
\* database itself misreported the commit.
SavedOnce ==
  \A i \in DOMAIN rows : rows[i] \notin doubtful =>
    ~Waiting(rows[i]) /\ \A j \in DOMAIN rows : rows[j] = rows[i] => j = i

Before(s, t, u) == \E i, j \in DOMAIN s : i < j /\ s[i] = t /\ s[j] = u

\* Posts that never had to be retried get their revision numbers in the order
\* in which they were sent, whatever is requeued around them.
OrderKept ==
  \A t, u \in ToSet(rows) \ retried : Before(sent, t, u) => Before(rows, t, u)

\* A post that was sent is saved, if the database recovers.
EventuallySaved == \A t \in Tasks : (t \in ToSet(sent)) ~> (t \in ToSet(rows))
=============================================================================
