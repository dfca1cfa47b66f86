------------------------------- MODULE Posts -------------------------------
(***************************************************************************)
(* SavePostRevisionFromConfig: connectToDb with createTables, then         *)
(* savePostDataInDB, which numbers a page's revision under the keyed lock  *)
(* postRevisionAllocationLocks and inside a transaction.                   *)
(*                                                                         *)
(* The lock table is KeyedMutex.tla; it lives in one process, so a key is  *)
(* a process and a page (the code's Domain + "\x00" + RequestUri).  Other  *)
(* processes on the same database, and other pages, are kept apart by the  *)
(* transaction and the unique index only.  The two engines are modelled    *)
(* from what the code asks of them: sqlite takes a shared lock with the    *)
(* first SELECT, refuses a second writer at once and lets COMMIT wait for  *)
(* the readers; postgres (read committed) lets the second INSERT of a key  *)
(* wait for the transaction of the first.                                  *)
(***************************************************************************)
EXTENDS KeyedMutex, Sequences

CONSTANTS Engines,    \* the values of DB_TYPE to explore
          ProcessOf,  \* ProcessOf[k], PageOf[k]: the two halves of a lock key
          PageOf,
          Askings,    \* Askings: who calls where, about which page: functions from
                      \* Clients to Keys
          Heap,       \* Heap[p]: the lock cells of process p
          Faults      \* calls that may fail: subset of {"connect", "commit"}

ASSUME PostsAssumption ==
  /\ Engines \subseteq {"sqlite", "postgres"} /\ Engines # {}
  /\ DOMAIN ProcessOf = Keys /\ DOMAIN PageOf = Keys
  /\ Askings \subseteq [Clients -> Keys]
  /\ Faults \subseteq {"connect", "commit"}

VARIABLES engine,   \* DB_TYPE
          watchdog, \* the row of DBWatchDog is there
          index,    \* idx_post_domain_requesturi_revision
          rows,     \* the Post rows, in commit order
          at,       \* at[c]: the next call of client c
          asked,    \* asked[c]: the lock key of its page
          number,   \* number[c]: post.Revision
          why,      \* why[c]: what made its call fail
          rival     \* rival[c]: the key of the transaction it lost against

db == <<engine, watchdog, index, rows>>
postVars == <<engine, watchdog, index, rows, at, asked, number, why, rival>>
allVars == <<vars, postVars>>

Calls == {"probe", "seed", "schema", "lock", "insert", "commit", "rollback",
          "unlock", "answered"}

PostInit ==
  /\ Init
  /\ engine \in Engines
  /\ watchdog \in BOOLEAN      \* FALSE: a new database
  /\ index \in {"absent",      \* new, or older than the index
                "present",
                "impossible"}  \* older, with rows that share a number
  /\ ~watchdog => index = "absent"
  /\ rows = <<>>
  /\ at = [c \in Clients |-> "probe"]
  /\ asked \in Askings
  /\ number = [c \in Clients |-> 0]
  /\ why = [c \in Clients |-> "none"]
  /\ rival = [c \in Clients |-> None]

Page(c) == PageOf[asked[c]]

Goto(c, call) == at' = [at EXCEPT ![c] = call]

Fail(c, reason, call) == why' = [why EXCEPT ![c] = reason] /\ Goto(c, call)

\* Transactions that have read, and those that hold an uncommitted row.
Open    == {c \in Clients : at[c] \in {"insert", "commit", "rollback"}}
Writing == {c \in Clients : at[c] = "commit"}

\* SELECT Id FROM DBWatchDog, after CREATE TABLE IF NOT EXISTS.
Probe(c) ==
  /\ at[c] = "probe"
  /\ Goto(c, IF watchdog THEN "schema" ELSE "seed")
  /\ UNCHANGED <<vars, db, asked, number, why, rival>>

\* INSERT INTO DBWatchDog (Id) VALUES (1): the second of two first connections
\* meets the primary key and gives up.
Seed(c) ==
  /\ at[c] = "seed"
  /\ IF watchdog THEN Fail(c, "seed", "answered") ELSE Goto(c, "schema") /\ UNCHANGED why
  /\ watchdog' = TRUE
  /\ UNCHANGED <<vars, engine, index, rows, asked, number, rival>>

\* Mutant: the index is not unique.
Schema_PlainIndex(c) ==
  /\ at[c] = "schema"
  /\ Goto(c, "lock")
  /\ UNCHANGED <<vars, db, asked, number, why, rival>>

\* The other tables and columns, then the unique index, which cannot be built
\* over rows that already share a number.
Schema(c) ==
  /\ at[c] = "schema"
  /\ IF index = "impossible"
     THEN Fail(c, "legacy", "answered") /\ UNCHANGED index
     ELSE Goto(c, "lock") /\ index' = "present" /\ UNCHANGED why
  /\ UNCHANGED <<vars, engine, watchdog, rows, asked, number, rival>>

\* sql.Open, Ping or any statement of createTables fails.
ConnectFails(c) ==
  /\ "connect" \in Faults
  /\ at[c] = "probe"
  /\ Fail(c, "fault", "answered")
  /\ UNCHANGED <<vars, db, asked, number, rival>>

\* postRevisionAllocationLocks.lock: the table entry, then the mutex itself.
Enrol(c) == /\ at[c] = "lock"
            /\ Join(c, asked[c]) \/ Create(c, asked[c])
            /\ ptr'[c] \in Heap[ProcessOf[asked[c]]]
            /\ UNCHANGED postVars

Acquire(c) == Enter(c) /\ UNCHANGED postVars

Revisions(p) == {rows[i].number : i \in {j \in DOMAIN rows : rows[j].page = p}}

\* Begin and SELECT COALESCE(MAX(Revision), 0) + 1.
ReadMax(c) ==
  /\ pc[c] = "held"
  /\ at[c] = "lock"
  /\ \E n \in 1..Len(rows) + 1 :
       /\ n - 1 \in Revisions(Page(c)) \cup {0}
       /\ \A m \in Revisions(Page(c)) : m < n
       /\ number' = [number EXCEPT ![c] = n]
  /\ Goto(c, "insert")
  /\ UNCHANGED <<vars, db, asked, why, rival>>

\* Rows that already have c's number, and transactions that hold such a row.
Taken(c)   == {i \in DOMAIN rows : rows[i].page = Page(c) /\ rows[i].number = number[c]}
Pending(c) == {d \in Writing : Page(d) = Page(c) /\ number[d] = number[c]}

\* Who makes the INSERT fail: in sqlite any other writer, in postgres the one
\* that committed the number first.
Obstacles(c) ==
  IF engine = "sqlite" THEN {asked[d] : d \in Writing}
  ELSE IF index = "present" THEN {asked[rows[i].by] : i \in Taken(c)} ELSE {}

\* Mutant: the error of the INSERT is not looked at.
Insert_Unchecked(c) ==
  /\ at[c] = "insert"
  /\ engine = "postgres" /\ index = "present" => Pending(c) = {}
  /\ Goto(c, IF Obstacles(c) # {} THEN "unlock" ELSE "commit")
  /\ UNCHANGED <<vars, db, asked, number, why, rival>>

\* INSERT INTO Post.
Insert(c) ==
  /\ at[c] = "insert"
  /\ engine = "postgres" /\ index = "present" => Pending(c) = {}
  /\ IF Obstacles(c) = {}
     THEN Goto(c, "commit") /\ UNCHANGED <<why, rival>>
     ELSE \E k \in Obstacles(c) : /\ Fail(c, "conflict", "rollback")
                                  /\ rival' = [rival EXCEPT ![c] = k]
  /\ UNCHANGED <<vars, db, asked, number>>

CanCommit(c) == /\ at[c] = "commit"
                /\ engine = "sqlite" => Open = {c}

Stored(c) == Append(rows, [by |-> c, page |-> Page(c), number |-> number[c]])

\* tx.Commit.
Commit(c) ==
  /\ CanCommit(c)
  /\ rows' = Stored(c)
  /\ Goto(c, "unlock")
  /\ UNCHANGED <<vars, engine, watchdog, index, asked, number, why, rival>>

\* tx.Commit reports an error: the row is there or it is not.
CommitFails(c) ==
  /\ "commit" \in Faults
  /\ CanCommit(c)
  /\ rows' \in {rows, Stored(c)}
  /\ Fail(c, "fault", "unlock")
  /\ UNCHANGED <<vars, engine, watchdog, index, asked, number, rival>>

\* The deferred tx.Rollback, which runs before the deferred unlock.
Rollback(c) ==
  /\ at[c] = "rollback"
  /\ Goto(c, "unlock")
  /\ UNCHANGED <<vars, db, asked, number, why, rival>>

\* Mutant: the lock is given back before the transaction ends.
Release_Early(c) ==
  /\ \/ at[c] = "commit" /\ Unlock(c) /\ UNCHANGED at
     \/ /\ at[c] = "unlock" /\ Goto(c, "answered")
        /\ Unlock(c) \/ (pc[c] # "held" /\ UNCHANGED vars)
  /\ UNCHANGED <<db, asked, number, why, rival>>

Release(c) ==
  /\ at[c] = "unlock"
  /\ Unlock(c)
  /\ Goto(c, "answered")
  /\ UNCHANGED <<db, asked, number, why, rival>>

Forget(c) == Leave(c) /\ UNCHANGED postVars

Work(c) == \/ Probe(c) \/ Seed(c) \/ Schema(c) \/ ConnectFails(c)
           \/ Enrol(c) \/ ReadMax(c)
           \/ Insert(c) \/ Commit(c) \/ CommitFails(c) \/ Rollback(c)
           \/ Release(c) \/ Forget(c)

\* The goroutine of c has returned.
Returned(c) == at[c] = "answered" /\ pc[c] = "idle"

Ended(c) == Returned(c) /\ UNCHANGED allVars

PostNext == \E c \in Clients : Work(c) \/ Acquire(c) \/ Ended(c)

\* A goroutine keeps running, the database answers, and the mutex serves its
\* waiters in turn.
PostSpec == /\ PostInit /\ [][PostNext]_allVars
            /\ \A c \in Clients : WF_allVars(Work(c)) /\ SF_allVars(Acquire(c))
-----------------------------------------------------------------------------
\* A page's revisions are numbered 1, 2, 3 in the order of their commits, also
\* when two processes, which share no lock, number the same page at once: the
\* history of a page has no duplicate and no revision that sorts before an
\* older one (savePostDataInDB, MAX(Revision) + 1 under lock, tx and index).
NumbersFollowCommits ==
  \A i \in DOMAIN rows :
     rows[i].number = Cardinality({j \in 1..i : rows[j].page = rows[i].page})

\* What a caller is told is what the database holds: success means one row with
\* the number it was given, failure no row, except that an error of Commit
\* itself says nothing.
ToldTruthfully ==
  \A c \in Clients : at[c] = "answered" =>
    LET mine == {i \in DOMAIN rows : rows[i].by = c} IN
    /\ why[c] = "none" => \E i \in mine : mine = {i} /\ rows[i].number = number[c]
    /\ why[c] \in {"seed", "legacy", "conflict"} => mine = {}

\* The lock makes callers of one page in one process wait instead of lose: a
\* transaction is only ever refused for one of another page or process.
RefusedOnlyByOthers ==
  \A c \in Clients : why[c] = "conflict" => rival[c] # asked[c]

\* Every call returns, whatever waits on the lock, on a writer or on readers,
\* and the lock table, which would grow with every page ever saved, is empty
\* again once they all have.
EveryoneAnswered == <>(/\ \A c \in Clients : Returned(c)
                       /\ \A k \in Keys : table[k] = None)
=============================================================================
