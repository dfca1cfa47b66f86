----------------------------- MODULE PostsProofs -----------------------------
(***************************************************************************)
(* The safety properties of Posts for any number of processes, goroutines, *)
(* pages, lock cells and failures, and any mix of new, old and damaged     *)
(* databases.  A step of Posts is a step of KeyedMutex or leaves its       *)
(* variables alone, so what is proved of the lock first holds here too. The *)
(* numbers need no lock, only the transaction and the index: a page has    *)
(* the revisions 1..Total, whoever has an uncommitted row has number       *)
(* Total + 1, and there is one such at a time.  The lock is what turns     *)
(* losing against somebody of the same page and process into waiting.      *)
(***************************************************************************)
EXTENDS Posts, FiniteSetTheorems, SequenceTheorems, TLAPS
-----------------------------------------------------------------------------
(***************************************************************************)
(* KeyedMutex: keyedMutex keeps the promise of Mutex for any number of     *)
(* goroutines, keys and heap cells.  The invariant ties each goroutine's   *)
(* pointer to the table entry of its key; the entry is stable because it   *)
(* is deleted only by its last user, which is what the count is for.       *)
(***************************************************************************)

\* A goroutine between lock() and the end of unlock() points at the lock the
\* table has for its key, and no lock serves two keys.
Linked ==
  /\ \A c \in Clients : IF pc[c] = "idle"
                          THEN ptr[c] = None
                          ELSE key[c] \in Keys /\ ptr[c] \in Locks /\ table[key[c]] = ptr[c]
  /\ \A k, m \in Keys : table[k] = table[m] /\ table[k] # None => k = m

Counted == \A k \in Keys, l \in Locks :
             table[k] = l => refs[l] = Cardinality(Users(l)) /\ Users(l) # {}

Holds == \A c \in Clients : pc[c] = "held" => holder[ptr[c]] = c

IndInv == TypeOK /\ Linked /\ Counted /\ Holds
-----------------------------------------------------------------------------
LEMMA UsersFinite == ASSUME NEW l PROVE IsFiniteSet(Users(l)) /\ Cardinality(Users(l)) \in Nat
  BY KeyedMutexAssumption, FS_Subset, FS_CardinalityType DEF Users

\* A count of one means that the goroutine that leaves is the only user.
LEMMA LastUser ==
  ASSUME NEW c \in Clients, NEW l, ptr[c] = l, Cardinality(Users(l)) = 1
  PROVE  Users(l) = {c}
  <1>1. c \in Users(l)
    BY DEF Users
  <1>2. Cardinality(Users(l) \ {c}) = 0
    BY <1>1, UsersFinite, FS_RemoveElement
  <1>3. IsFiniteSet(Users(l) \ {c})
    BY UsersFinite, FS_RemoveElement
  <1>4. Users(l) \ {c} = {}
    BY <1>2, <1>3, FS_EmptySet
  <1>5. QED
    BY <1>1, <1>4

LEMMA JoinStep ==
  ASSUME IndInv, NEW c \in Clients, NEW k \in Keys, Join(c, k)
  PROVE  IndInv'
  <1> DEFINE l == table[k]
  <1> USE KeyedMutexAssumption DEF IndInv, Join, Enlist
  <1>1. TypeOK' /\ Linked' /\ Holds'
    BY DEF TypeOK, Linked, Holds, Stages
  <1>2. Counted'
    <2>1. c \notin Users(l) /\ l \in Locks
      BY DEF Linked, TypeOK, Users
    <2>2. Users(l)' = Users(l) \cup {c}
      BY DEF TypeOK, Users
    <2>3. Cardinality(Users(l)') = Cardinality(Users(l)) + 1
      BY <2>1, <2>2, UsersFinite, FS_AddElement
    <2>4. \A m \in Locks \ {l} : Users(m)' = Users(m)
      BY <2>1 DEF TypeOK, Linked, Users
    <2>5. QED
      BY <2>1, <2>2, <2>3, <2>4 DEF Counted, TypeOK
  <1>3. QED
    BY <1>1, <1>2

LEMMA CreateStep ==
  ASSUME IndInv, NEW c \in Clients, NEW k \in Keys, Create(c, k)
  PROVE  IndInv'
  <1>1. PICK l \in Locks : /\ pc[c] = "idle" /\ table[k] = None
                           /\ Unreachable(l) /\ Enlist(c, k, l)
                           /\ table' = [table EXCEPT ![k] = l]
                           /\ refs' = [refs EXCEPT ![l] = 1]
                           /\ holder' = [holder EXCEPT ![l] = None]
    BY DEF Create
  <1> USE <1>1, KeyedMutexAssumption DEF IndInv, Enlist, Unreachable
  <1>2. TypeOK'
    BY DEF TypeOK, Stages
  <1>3. Linked' /\ Holds'
    BY DEF TypeOK, Linked, Holds
  <1>4. Counted'
    <2>1. Users(l)' = {c}
      BY DEF TypeOK, Users
    <2>2. \A m \in Locks \ {l} : Users(m)' = Users(m)
      BY DEF TypeOK, Linked, Users
    <2>3. QED
      <3>1. Cardinality(Users(l)') = 1
        BY <2>1, FS_Singleton
      <3>2. \A m \in Keys \ {k} : table[m] # l
        OBVIOUS
      <3>3. QED
        BY <2>1, <2>2, <3>1, <3>2 DEF Counted, TypeOK
  <1>5. QED
    BY <1>2, <1>3, <1>4

LEMMA EnterUnlockStep ==
  ASSUME IndInv, NEW c \in Clients, Enter(c) \/ Unlock(c)
  PROVE  IndInv'
  <1> USE KeyedMutexAssumption DEF IndInv, Enter, Unlock
  <1>1. TypeOK' /\ Linked' /\ Holds'
    BY DEF TypeOK, Linked, Holds, Stages
  <1>2. Counted'
    BY DEF Counted, Users
  <1>3. QED
    BY <1>1, <1>2

LEMMA LeaveStep ==
  ASSUME IndInv, NEW c \in Clients, Leave(c)
  PROVE  IndInv'
  <1> PICK l : l = ptr[c]
    OBVIOUS
  <1> USE KeyedMutexAssumption DEF IndInv, Leave
  <1>1. l \in Locks /\ key[c] \in Keys /\ table[key[c]] = l /\ c \in Users(l)
    BY DEF TypeOK, Linked, Users
  <1>2. refs[l] = Cardinality(Users(l)) /\ refs[l] \in Nat \ {0}
    <2>1. refs[l] = Cardinality(Users(l))
      BY <1>1 DEF Counted
    <2>2. Cardinality(Users(l)) # 0
      BY <1>1, UsersFinite, FS_EmptySet
    <2>3. QED
      BY <2>1, <2>2, UsersFinite
  <1>3. TypeOK'
    BY <1>1, <1>2 DEF TypeOK, Stages
  <1>4. Linked'
    <2>1. CASE refs[l] = 1
      <3>1. \A d \in Clients : d # c /\ pc[d] # "idle" => key[d] # key[c]
        BY <1>1, <1>2, <2>1, LastUser DEF Linked, Users
      <3>2. QED
        BY <1>1, <2>1, <3>1 DEF TypeOK, Linked
    <2>2. CASE refs[l] # 1
      BY <1>1, <2>2 DEF TypeOK, Linked
    <2>3. QED
      BY <2>1, <2>2
  <1>5. Holds'
    BY DEF TypeOK, Holds
  <1>6. Counted'
    <2>1. Users(l)' = Users(l) \ {c}
      BY <1>1 DEF TypeOK, Users
    <2>2. Cardinality(Users(l)') = Cardinality(Users(l)) - 1
      BY <1>1, <2>1, UsersFinite, FS_RemoveElement
    <2>3. \A m \in Locks \ {l} : Users(m)' = Users(m)
      BY DEF TypeOK, Users
    <2>4. ASSUME NEW k \in Keys, NEW m \in Locks, table'[k] = m
          PROVE  refs'[m] = Cardinality(Users(m)') /\ Users(m)' # {}
      <3>1. table[k] = m
        BY <1>1, <2>4 DEF TypeOK
      <3>2. CASE m = l
        <4>1. refs[l] # 1
          BY <1>1, <2>4, <3>2 DEF TypeOK, Linked
        <4>2. Cardinality(Users(l)') # 0
          BY <1>2, <2>2, <4>1
        <4>3. QED
          BY <1>2, <2>2, <3>2, <4>2, FS_EmptySet DEF TypeOK
      <3>3. CASE m # l
        BY <1>1, <2>3, <3>1, <3>3 DEF Counted, TypeOK
      <3>4. QED
        BY <3>2, <3>3
    <2>5. QED
      BY ONLY <2>4 DEF Counted
  <1>7. QED
    BY <1>3, <1>4, <1>5, <1>6

LEMMA StartInv == Init => IndInv
  BY KeyedMutexAssumption DEF Init, IndInv, TypeOK, Linked, Counted, Holds, Stages

LEMMA StepInv == IndInv /\ [Next]_vars => IndInv'
  <1>1. IndInv /\ Next => IndInv'
    BY JoinStep, CreateStep, EnterUnlockStep, LeaveStep DEF Next
  <1>2. IndInv /\ UNCHANGED vars => IndInv'
    <2> SUFFICES ASSUME IndInv, UNCHANGED vars PROVE IndInv'
      OBVIOUS
    <2>1. TypeOK' /\ Linked' /\ Holds'
      BY DEF IndInv, TypeOK, Linked, Holds, vars
    <2>2. \A l : Users(l)' = Users(l)
      BY DEF Users, vars
    <2>3. Counted'
      BY <2>2 DEF IndInv, Counted, vars
    <2>4. QED
      BY <2>1, <2>3 DEF IndInv
  <1>3. QED
    BY <1>1, <1>2

LEMMA Invariance == Spec => []IndInv
  BY StartInv, StepInv, PTL DEF Spec

\* The critical sections of one key exclude each other: keyedMutex.lock is a
\* lock per key although it creates and deletes the locks as it goes.
THEOREM Exclusion == Spec => []MutualExclusion
  <1>1. IndInv => MutualExclusion
    BY DEF IndInv, Linked, Holds, MutualExclusion
  <1>2. QED
    BY Invariance, <1>1, PTL

\* The table entry of a key never changes under a goroutine that uses it, and
\* its reference count is exact: no entry leaks and none is deleted early.
THEOREM CountIsExact == Spec => []RefsCountUsers
  <1>1. IndInv => RefsCountUsers
    BY DEF IndInv, TypeOK, Linked, Counted, RefsCountUsers
  <1>2. QED
    BY Invariance, <1>1, PTL

\* keyedMutex.lock and the closure it returns implement the abstract lock that
\* PageSave takes its critical sections from.
THEOREM Refinement == Spec => ImplementsMutex
  <1> DEFINE in == [c \in Clients |-> IF pc[c] = "held" THEN key[c] ELSE None]
  <1>1. Init => Abstract!Init
    BY DEF Init, Abstract!Init
  <1>2. IndInv /\ [Next]_vars => [Abstract!Next]_in
    <2> SUFFICES ASSUME IndInv, [Next]_vars PROVE Abstract!Next \/ UNCHANGED in
      OBVIOUS
    <2> USE KeyedMutexAssumption DEF IndInv, TypeOK
    <2>1. ASSUME NEW c \in Clients, NEW k \in Keys, Join(c, k) \/ Create(c, k)
          PROVE  UNCHANGED in
      BY <2>1 DEF Join, Create, Enlist
    <2>2. ASSUME NEW c \in Clients, Enter(c)
          PROVE  \E k \in Keys : Abstract!Acquire(c, k)
      <3>1. PICK k \in Keys : k = key[c]
        BY <2>2 DEF Enter, Linked
      <3>2. \A d \in Clients : pc[d] = "held" => key[d] # k
        BY <2>2, <3>1 DEF Enter, Linked, Holds
      <3>3. in[c] = None /\ in' = [in EXCEPT ![c] = k]
        BY <2>2, <3>1 DEF Enter, Stages
      <3>4. Abstract!Acquire(c, k)
        BY <3>2, <3>3 DEF Abstract!Acquire
      <3>5. QED
        BY <3>4
    <2>3. ASSUME NEW c \in Clients, Unlock(c)
          PROVE  Abstract!Release(c)
      BY <2>3 DEF Unlock, Abstract!Release, Linked
    <2>4. ASSUME NEW c \in Clients, Leave(c)
          PROVE  UNCHANGED in
      BY <2>4 DEF Leave
    <2>5. CASE UNCHANGED vars
      BY <2>5 DEF vars
    <2>6. ASSUME NEW c \in Clients, \/ \E k \in Keys : Join(c, k) \/ Create(c, k)
                                   \/ Enter(c) \/ Unlock(c) \/ Leave(c)
          PROVE  Abstract!Next \/ UNCHANGED in
      <3>1. CASE Enter(c)
        BY <2>2, <3>1, Zenon DEF Abstract!Next
      <3>2. CASE Unlock(c)
        BY <2>3, <3>2, Zenon DEF Abstract!Next
      <3>3. CASE Leave(c)
        BY <2>4, <3>3, Zenon
      <3>4. CASE \E k \in Keys : Join(c, k) \/ Create(c, k)
        BY <2>1, <3>4, Zenon
      <3>5. QED
        BY <2>6, <3>1, <3>2, <3>3, <3>4, Zenon
    <2>7. QED
      BY <2>5, <2>6 DEF Next
  <1>3. QED
    BY Invariance, <1>1, <1>2, PTL DEF Spec, ImplementsMutex, Abstract!Spec
-----------------------------------------------------------------------------
(***************************************************************************)
(* Posts: the rows, and the locks of the databases around them.            *)
(***************************************************************************)

Pages == {PageOf[k] : k \in Keys}

Rows == [by : Clients, page : Pages, number : Nat]

PostsTyped ==
  /\ engine \in {"sqlite", "postgres"}
  /\ index \in {"absent", "present", "impossible"}
  /\ rows \in Seq(Rows)
  /\ at \in [Clients -> Calls]
  /\ asked \in [Clients -> Keys]
  /\ number \in [Clients -> Nat]
  /\ rival \in [Clients -> Keys \cup {None}]
  /\ why \in [Clients -> {"none", "seed", "legacy", "fault", "conflict"}]

\* Where a client is in its calls says where it is in the lock.
Locked == \A c \in Clients :
  /\ at[c] \in {"probe", "seed", "schema"} => pc[c] = "idle"
  /\ pc[c] = "waiting" => at[c] = "lock"
  /\ pc[c] = "leaving" => at[c] = "answered"
  /\ pc[c] = "held" => at[c] # "answered"
  /\ at[c] \in {"insert", "commit", "rollback", "unlock"} => pc[c] = "held"
  /\ pc[c] # "idle" => key[c] = asked[c]

Indexed == \A c \in Clients :
  at[c] \in {"lock", "insert", "commit", "rollback", "unlock"} => index = "present"

Upto(p, i) == {j \in 1..i : rows[j].page = p}

Total(p) == Cardinality(Upto(p, Len(rows)))

\* The rows of a page carry 1, 2, 3 ... in their order.
Numbered ==
  /\ \A i \in 1..Len(rows) : rows[i].number = Cardinality(Upto(rows[i].page, i))
  /\ \A p \in Pages : Revisions(p) = 1..Total(p)

\* What transactions have read.
Reserved ==
  /\ \A c \in Open : /\ number[c] \in 1..Total(Page(c)) + 1
                     /\ engine = "sqlite" => number[c] = Total(Page(c)) + 1
  /\ \A c \in Writing : number[c] = Total(Page(c)) + 1
  /\ \A c, d \in Writing : Page(c) = Page(d) => c = d

Mine(c) == {i \in DOMAIN rows : rows[i].by = c}

Told == \A c \in Clients :
  /\ at[c] \notin {"unlock", "answered"} => Mine(c) = {}
  /\ at[c] \notin {"unlock", "answered", "rollback"} => why[c] = "none"
  /\ at[c] = "rollback" => why[c] = "conflict"
  /\ at[c] \in {"unlock", "answered"} /\ why[c] = "none" =>
       \E i \in Mine(c) : Mine(c) = {i} /\ rows[i].number = number[c]
  /\ at[c] \in {"unlock", "answered"} /\ why[c] \in {"seed", "legacy", "conflict"} => Mine(c) = {}

\* A row of the same page and process was there before the transaction began.
Waited ==
  /\ \A c \in Open : \A i \in 1..Len(rows) :
       rows[i].page = Page(c) /\ asked[rows[i].by] = asked[c] => rows[i].number < number[c]
  /\ \A c \in Clients : why[c] = "conflict" => rival[c] # asked[c]

PostInv == /\ PostsTyped /\ Locked /\ Indexed /\ Numbered /\ Reserved /\ Told /\ Waited
-----------------------------------------------------------------------------
(* A step of Posts is a step of the lock table *)

LEMMA LockStep == PostInv /\ [PostNext]_allVars => [Next]_vars
  <1> SUFFICES ASSUME PostInv, [PostNext]_allVars PROVE [Next]_vars
    OBVIOUS
  <1>1. CASE UNCHANGED allVars
    BY <1>1 DEF allVars
  <1>2. ASSUME NEW c \in Clients, Enrol(c) \/ Acquire(c) \/ Release(c) \/ Forget(c)
        PROVE  Next
    <2>1. asked[c] \in Keys
      BY DEF PostInv, PostsTyped
    <2>2. QED
      BY <1>2, <2>1 DEF Next, Enrol, Acquire, Release, Forget
  <1>3. ASSUME NEW c \in Clients, \/ Probe(c) \/ Seed(c) \/ Schema(c) \/ ConnectFails(c)
                                  \/ ReadMax(c) \/ Insert(c) \/ Commit(c) \/ CommitFails(c)
                                  \/ Rollback(c) \/ Ended(c)
        PROVE  UNCHANGED vars
    BY <1>3 DEF Probe, Seed, Schema, ConnectFails, ReadMax, Insert, Commit, CommitFails,
                Rollback, Ended, allVars
  <1>4. QED
    BY <1>1, <1>2, <1>3 DEF PostNext, Work
-----------------------------------------------------------------------------
(* Counting the rows of a page *)

LEMMA UptoFinite ==
  ASSUME NEW p, NEW i \in Nat
  PROVE  IsFiniteSet(Upto(p, i)) /\ Cardinality(Upto(p, i)) \in Nat
  <1>1. IsFiniteSet(1..i) /\ Upto(p, i) \subseteq 1..i
    BY FS_Interval DEF Upto
  <1>2. QED
    BY <1>1, FS_Subset, FS_CardinalityType

\* A row that is added counts for its page and leaves the earlier counts alone.
LEMMA Added ==
  ASSUME rows \in Seq(Rows), NEW r \in Rows, rows' = Append(rows, r)
  PROVE  /\ rows' \in Seq(Rows) /\ Len(rows') = Len(rows) + 1
         /\ rows'[Len(rows) + 1] = r
         /\ \A i \in 1..Len(rows) : rows'[i] = rows[i]
         /\ \A i \in 1..Len(rows) : \A p : Upto(p, i)' = Upto(p, i)
         /\ \A p : Total(p) \in Nat
         /\ \A p : Total(p)' = IF p = r.page THEN Total(p) + 1 ELSE Total(p)
  <1>1. PICK n \in Nat : n = Len(rows)
    OBVIOUS
  <1>2. n + 1 \notin 1..n /\ \A j : j \in 1..(n + 1) <=> j \in 1..n \/ j = n + 1
    OBVIOUS
  <1>3. /\ rows' \in Seq(Rows) /\ Len(rows') = n + 1 /\ rows'[n + 1] = r
        /\ \A i \in 1..n : rows'[i] = rows[i]
    BY <1>1
  <1>4. \A i \in 1..n : \A p : Upto(p, i)' = Upto(p, i)
    <2> SUFFICES ASSUME NEW i \in 1..n, NEW p PROVE Upto(p, i)' = Upto(p, i)
      OBVIOUS
    <2>1. 1..i \subseteq 1..n
      OBVIOUS
    <2>2. QED
      BY <1>3, <2>1 DEF Upto
  <1>5. ASSUME NEW p
        PROVE  /\ Total(p) \in Nat
               /\ Total(p)' = IF p = r.page THEN Total(p) + 1 ELSE Total(p)
    <2>1. /\ Upto(p, n) = {j \in 1..n : rows[j].page = p}
          /\ Upto(p, n + 1)' = {j \in 1..(n + 1) : rows'[j].page = p}
      BY DEF Upto
    <2>2. Total(p) = Cardinality(Upto(p, n)) /\ Total(p)' = Cardinality(Upto(p, n + 1)')
      BY <1>1, <1>3, <2>1 DEF Total, Upto
    <2>3. IsFiniteSet(Upto(p, n)) /\ Cardinality(Upto(p, n)) \in Nat
      BY UptoFinite
    <2>4. CASE p = r.page
      <3>1. Upto(p, n + 1)' = Upto(p, n) \cup {n + 1} /\ n + 1 \notin Upto(p, n)
        BY <1>2, <1>3, <2>1, <2>4
      <3>2. QED
        BY <2>2, <2>3, <2>4, <3>1, FS_AddElement
    <2>5. CASE p # r.page
      <3>1. Upto(p, n + 1)' = Upto(p, n)
        BY <1>2, <1>3, <2>1, <2>5
      <3>2. QED
        BY <2>2, <2>3, <2>5, <3>1
    <2>6. QED
      BY <2>4, <2>5
  <1>6. QED
    BY <1>1, <1>3, <1>4, <1>5
-----------------------------------------------------------------------------
(* The steps *)

LEMMA TotalType == ASSUME PostInv, NEW p PROVE Total(p) \in Nat
  <1>1. Len(rows) \in Nat
    BY DEF PostInv, PostsTyped
  <1>2. QED
    BY <1>1, UptoFinite DEF Total

\* A step that changes no row and opens no transaction.
LEMMA Quiet ==
  ASSUME PostInv, NEW c \in Clients, NEW stage \in {"seed", "schema", "lock", "unlock", "answered"},
         at' = [at EXCEPT ![c] = stage], at[c] # "commit",
         UNCHANGED <<rows, asked, number, rival, engine>>,
         \A d \in Clients : why'[d] = "conflict" => why[d] = "conflict"
  PROVE  Numbered' /\ Reserved' /\ Waited'
  <1>1. Open' \subseteq Open /\ Writing' \subseteq Writing /\ Open \subseteq Clients /\ Writing \subseteq Clients
    BY DEF PostInv, PostsTyped, Open, Writing
  <1>2. /\ \A p : Total(p)' = Total(p) /\ Revisions(p)' = Revisions(p)
        /\ \A p, i : Upto(p, i)' = Upto(p, i)
        /\ \A d \in Clients : Page(d)' = Page(d)
    BY DEF Total, Revisions, Upto, Page
  <1>3. Numbered'
    BY <1>2 DEF PostInv, Numbered
  <1>4. Reserved'
    BY <1>1, <1>2 DEF PostInv, Reserved
  <1>5. Waited'
    BY <1>1, <1>2 DEF PostInv, Waited
  <1>6. QED
    BY <1>3, <1>4, <1>5

\* connectToDb and createTables.
LEMMA ConnectStep ==
  ASSUME PostInv, NEW c \in Clients, Probe(c) \/ Seed(c) \/ Schema(c) \/ ConnectFails(c)
  PROVE  PostInv'
  <1>1. /\ at[c] \in {"probe", "seed", "schema"}
        /\ UNCHANGED <<pc, key, rows, asked, number, rival, engine>>
        /\ index' = index \/ index' = "present"
    BY DEF Probe, Seed, Schema, ConnectFails, vars, db
  <1>2. \/ /\ at' = [at EXCEPT ![c] = "seed"] \/ at' = [at EXCEPT ![c] = "schema"]
           /\ why' = why
        \/ at' = [at EXCEPT ![c] = "lock"] /\ why' = why /\ index' = "present"
        \/ \E reason \in {"seed", "legacy", "fault"} :
             at' = [at EXCEPT ![c] = "answered"] /\ why' = [why EXCEPT ![c] = reason]
    BY DEF Probe, Seed, Schema, ConnectFails, Goto, Fail
  <1>3. /\ at'[c] \in {"seed", "schema", "lock", "answered"}
        /\ at' = [at EXCEPT ![c] = at'[c]]
        /\ \A d \in Clients \ {c} : at'[d] = at[d] /\ why'[d] = why[d]
        /\ why'[c] \in {"none", "seed", "legacy", "fault"}
        /\ at'[c] # "answered" => why'[c] = "none"
        /\ at'[c] = "answered" => why'[c] # "none"
        /\ at'[c] = "lock" => index' = "present"
    BY <1>1, <1>2 DEF PostInv, PostsTyped, Told
  <1>4. Numbered' /\ Reserved' /\ Waited'
    <2>1. \A d \in Clients : why'[d] = "conflict" => why[d] = "conflict"
      BY <1>3
    <2>2. QED
      BY <1>1, <1>3, <2>1, Quiet
  <1>5. PostsTyped'
    BY <1>1, <1>2 DEF PostInv, PostsTyped, Calls
  <1>6. Locked'
    BY <1>1, <1>3 DEF PostInv, Locked
  <1>7. Indexed'
    BY <1>1, <1>3 DEF PostInv, Indexed
  <1>8. Told'
    <2>1. \A d \in Clients : Mine(d)' = Mine(d)
      BY <1>1 DEF Mine
    <2>2. QED
      BY <1>1, <1>3, <2>1 DEF PostInv, Told
  <1>9. QED
    BY <1>4, <1>5, <1>6, <1>7, <1>8 DEF PostInv

\* The lock: everything but Locked is about the database.
LEMMA LockingStep ==
  ASSUME PostInv, NEW c \in Clients, Enrol(c) \/ Acquire(c) \/ Forget(c), IndInv
  PROVE  PostInv'
  <1>1. UNCHANGED postVars
    BY DEF Enrol, Acquire, Forget
  <1>2. PostsTyped' /\ Indexed' /\ Numbered' /\ Reserved' /\ Told' /\ Waited'
    <2>1. PostsTyped' /\ Indexed'
      BY <1>1 DEF PostInv, PostsTyped, Indexed, postVars
    <2>2. Open' = Open /\ Writing' = Writing /\ \A p : Total(p)' = Total(p) /\ Revisions(p)' = Revisions(p)
      BY <1>1 DEF Open, Writing, Total, Revisions, Upto, postVars
    <2>3. \A p, i : Upto(p, i)' = Upto(p, i)
      BY <1>1 DEF Upto, postVars
    <2>4. \A d : Page(d)' = Page(d) /\ Mine(d)' = Mine(d)
      BY <1>1 DEF Page, Mine, postVars
    <2>5. Numbered'
      BY <1>1, <2>2, <2>3 DEF PostInv, Numbered, postVars
    <2>6. Reserved'
      BY <1>1, <2>2, <2>4 DEF PostInv, Reserved, postVars
    <2>7. Told'
      BY <1>1, <2>4 DEF PostInv, Told, postVars
    <2>8. Waited'
      BY <1>1, <2>2, <2>4 DEF PostInv, Waited, postVars
    <2>9. QED
      BY <2>1, <2>5, <2>6, <2>7, <2>8
  <1>3. Locked'
    <2>1. \A d \in Clients \ {c} : pc'[d] = pc[d] /\ key'[d] = key[d]
      BY DEF Enrol, Acquire, Forget, Join, Create, Enlist, Enter, Leave, IndInv, TypeOK
    <2>2. \/ at[c] = "lock" /\ pc'[c] = "waiting" /\ key'[c] = asked[c]
          \/ pc[c] = "waiting" /\ pc'[c] = "held" /\ key'[c] = key[c]
          \/ pc[c] = "leaving" /\ pc'[c] = "idle"
      BY DEF Enrol, Acquire, Forget, Join, Create, Enlist, Enter, Leave, IndInv, TypeOK
    <2>3. QED
      BY <1>1, <2>1, <2>2 DEF PostInv, Locked, postVars
  <1>4. QED
    BY <1>2, <1>3 DEF PostInv

LEMMA ReadMaxStep ==
  ASSUME PostInv, NEW c \in Clients, ReadMax(c)
  PROVE  PostInv'
  <1>1. /\ pc[c] = "held" /\ at[c] = "lock"
        /\ at' = [at EXCEPT ![c] = "insert"]
        /\ UNCHANGED <<pc, key, engine, index, rows, asked, why, rival>>
    BY DEF ReadMax, Goto, vars, db
  <1>2. PICK n \in 1..Len(rows) + 1 :
          /\ n - 1 \in Revisions(Page(c)) \cup {0}
          /\ \A m \in Revisions(Page(c)) : m < n
          /\ number' = [number EXCEPT ![c] = n]
    BY DEF ReadMax
  <1>3. Page(c) \in Pages
    BY DEF PostInv, PostsTyped, Pages, Page
  <1>4. n = Total(Page(c)) + 1
    <2>1. Revisions(Page(c)) = 1..Total(Page(c)) /\ Total(Page(c)) \in Nat
      BY <1>3, TotalType DEF PostInv, Numbered
    <2>2. QED
      BY <1>2, <2>1
  <1>5. /\ at'[c] = "insert" /\ number'[c] = n
        /\ \A d \in Clients \ {c} : at'[d] = at[d] /\ number'[d] = number[d]
    BY <1>1, <1>2 DEF PostInv, PostsTyped
  <1>6. /\ Open' = Open \cup {c} /\ Writing' = Writing /\ c \notin Writing
        /\ \A p : Total(p)' = Total(p) /\ Revisions(p)' = Revisions(p)
        /\ \A p, i : Upto(p, i)' = Upto(p, i)
        /\ \A d \in Clients : Page(d)' = Page(d) /\ Mine(d)' = Mine(d)
    BY <1>1, <1>5 DEF Open, Writing, Total, Revisions, Upto, Page, Mine
  <1>7. PostsTyped'
    <2>1. Len(rows) \in Nat
      BY DEF PostInv, PostsTyped
    <2>2. n \in Nat
      BY <2>1
    <2>3. QED
      BY <1>1, <1>2, <2>2 DEF PostInv, PostsTyped, Calls
  <1>8. Locked'
    BY <1>1, <1>5 DEF PostInv, Locked
  <1>9. Indexed'
    BY <1>1, <1>5 DEF PostInv, Indexed
  <1>10. Numbered'
    BY <1>1, <1>6 DEF PostInv, Numbered
  <1>11. Reserved'
    <2>1. Total(Page(c)) \in Nat
      BY TotalType
    <2>2. \A d \in Writing : d # c /\ number'[d] = number[d]
      BY <1>5, <1>6 DEF Writing
    <2>3. \A d \in Open' : d # c => d \in Open /\ number'[d] = number[d]
      BY <1>5, <1>6 DEF Open
    <2>4. n \in 1..Total(Page(c)) + 1
      BY <1>4, <2>1
    <2>5. Writing \subseteq Clients /\ Open \subseteq Clients
      BY DEF Writing, Open
    <2>6. QED
      BY <1>1, <1>4, <1>5, <1>6, <2>2, <2>3, <2>4, <2>5 DEF PostInv, Reserved
  <1>12. Told'
    BY <1>1, <1>5, <1>6 DEF PostInv, Told
  <1>13. Waited'
    <2>1. \A i \in 1..Len(rows) : rows[i].page = Page(c) => rows[i].number < n
      BY <1>2 DEF Revisions, PostInv, PostsTyped
    <2>2. Open \subseteq Clients
      BY DEF Open
    <2>3. QED
      BY <1>1, <1>5, <1>6, <2>1, <2>2 DEF PostInv, Waited
  <1>14. QED
    BY <1>7, <1>8, <1>9, <1>10, <1>11, <1>12, <1>13 DEF PostInv

\* Two clients inside the lock of one page and process are one.
LEMMA Alone ==
  ASSUME PostInv, IndInv, NEW c \in Clients, NEW d \in Clients,
         at[c] \in {"insert", "commit", "rollback", "unlock"},
         at[d] \in {"insert", "commit", "rollback", "unlock"}, asked[c] = asked[d]
  PROVE  c = d
  <1>1. pc[c] = "held" /\ key[c] = asked[c] /\ pc[d] = "held" /\ key[d] = asked[d]
    BY DEF PostInv, Locked
  <1>2. holder[ptr[c]] = c /\ holder[ptr[d]] = d /\ ptr[c] = table[key[c]] /\ ptr[d] = table[key[d]]
    BY <1>1 DEF IndInv, Linked, Holds
  <1>3. QED
    BY <1>1, <1>2

LEMMA InsertStep ==
  ASSUME PostInv, IndInv, NEW c \in Clients, Insert(c)
  PROVE  PostInv'
  <1>1. /\ at[c] = "insert"
        /\ UNCHANGED <<pc, key, engine, index, rows, asked, number>>
    BY DEF Insert, vars, db
  <1>2. index = "present" /\ pc[c] = "held"
    BY <1>1 DEF PostInv, Indexed, Locked
  <1>3. \/ /\ Obstacles(c) = {} /\ at' = [at EXCEPT ![c] = "commit"] /\ UNCHANGED <<why, rival>>
        \/ \E k \in Obstacles(c) :
             /\ at' = [at EXCEPT ![c] = "rollback"] /\ why' = [why EXCEPT ![c] = "conflict"]
             /\ rival' = [rival EXCEPT ![c] = k]
    BY DEF Insert, Goto, Fail
  <1>4. /\ \A d \in Clients \ {c} : at'[d] = at[d] /\ why'[d] = why[d] /\ rival'[d] = rival[d]
        /\ \/ at'[c] = "commit" /\ why'[c] = "none" /\ Obstacles(c) = {}
           \/ at'[c] = "rollback" /\ why'[c] = "conflict" /\ rival'[c] \in Obstacles(c)
    BY <1>1, <1>3 DEF PostInv, PostsTyped, Told
  <1>5. /\ \A p : Total(p)' = Total(p) /\ Revisions(p)' = Revisions(p)
        /\ \A p, i : Upto(p, i)' = Upto(p, i)
        /\ \A d : Page(d)' = Page(d) /\ Mine(d)' = Mine(d)
    BY <1>1 DEF Total, Revisions, Upto, Page, Mine
  <1>6. Obstacles(c) \subseteq Keys /\ asked[c] \notin Obstacles(c)
    <2>1. CASE engine = "sqlite"
      <3>1. \A d \in Writing : d # c /\ d \in Clients /\ asked[d] \in Keys /\ asked[d] # asked[c]
        BY <1>1, Alone DEF Writing, PostInv, PostsTyped
      <3>2. QED
        BY <2>1, <3>1 DEF Obstacles
    <2>2. CASE engine # "sqlite"
      <3>1. \A i \in Taken(c) : /\ rows[i].by \in Clients /\ asked[rows[i].by] \in Keys
                                /\ asked[rows[i].by] # asked[c]
        <4> SUFFICES ASSUME NEW i \in Taken(c)
                     PROVE  /\ rows[i].by \in Clients /\ asked[rows[i].by] \in Keys
                            /\ asked[rows[i].by] # asked[c]
          OBVIOUS
        <4>1. i \in 1..Len(rows) /\ rows[i] \in Rows /\ rows[i].page = Page(c)
              /\ rows[i].number = number[c]
          BY DEF Taken, PostInv, PostsTyped
        <4>2. c \in Open /\ number[c] \in Nat
          BY <1>1 DEF Open, PostInv, PostsTyped
        <4>3. asked[rows[i].by] # asked[c]
          BY <4>1, <4>2 DEF PostInv, Waited
        <4>4. QED
          BY <4>1, <4>3 DEF Rows, PostInv, PostsTyped
      <3>2. QED
        BY <2>2, <3>1 DEF Obstacles
    <2>3. QED
      BY <2>1, <2>2
  <1>7. PostsTyped'
    BY <1>1, <1>3, <1>6 DEF PostInv, PostsTyped, Calls
  <1>8. Locked'
    BY <1>1, <1>2, <1>4 DEF PostInv, Locked
  <1>9. Indexed'
    BY <1>1, <1>2, <1>4 DEF PostInv, Indexed
  <1>10. Numbered'
    BY <1>1, <1>5 DEF PostInv, Numbered
  <1>11. Reserved'
    <2>1. Open' = Open /\ c \in Open /\ Open \subseteq Clients /\ Writing \subseteq Clients
      BY <1>1, <1>4 DEF Open, Writing
    <2>2. CASE at'[c] = "rollback"
      <3>1. Writing' = Writing
        BY <1>1, <1>4, <2>2 DEF Writing
      <3>2. QED
        BY <1>1, <1>5, <2>1, <3>1 DEF PostInv, Reserved
    <2>3. CASE at'[c] = "commit" /\ Obstacles(c) = {}
      <3>1. Writing' = Writing \cup {c}
        BY <1>1, <1>4, <2>3 DEF Writing
      <3>2. /\ number[c] = Total(Page(c)) + 1
            /\ \A d \in Writing : Page(d) # Page(c)
        <4>1. CASE engine = "sqlite"
          <5>1. Writing = {}
            BY <2>3, <4>1 DEF Obstacles
          <5>2. QED
            BY <2>1, <4>1, <5>1 DEF PostInv, Reserved
        <4>2. CASE engine = "postgres"
          <5>1. Taken(c) = {} /\ Pending(c) = {}
            BY <1>2, <2>3, <4>2 DEF Insert, Obstacles
          <5>2. number[c] \notin Revisions(Page(c))
            BY <5>1 DEF Taken, Revisions
          <5>3. Revisions(Page(c)) = 1..Total(Page(c)) /\ Total(Page(c)) \in Nat
            BY TotalType DEF PostInv, Numbered, PostsTyped, Pages, Page
          <5>4. number[c] \in 1..Total(Page(c)) + 1
            BY <2>1 DEF PostInv, Reserved
          <5>5. number[c] = Total(Page(c)) + 1
            BY <5>2, <5>3, <5>4
          <5>6. \A d \in Writing : Page(d) = Page(c) => number[d] = number[c]
            BY <5>5 DEF PostInv, Reserved
          <5>7. QED
            BY <5>1, <5>5, <5>6 DEF Pending
        <4>3. QED
          BY <4>1, <4>2 DEF PostInv, PostsTyped
      <3>3. QED
        BY <1>1, <1>5, <2>1, <3>1, <3>2 DEF PostInv, Reserved
    <2>4. QED
      BY <1>4, <2>2, <2>3
  <1>12. Told'
    BY <1>1, <1>4, <1>5 DEF PostInv, Told
  <1>13. Waited'
    <2>1. Open' = Open /\ Open \subseteq Clients
      BY <1>1, <1>4 DEF Open
    <2>2. \A d \in Clients : why'[d] = "conflict" => rival'[d] # asked[d]
      BY <1>4, <1>6 DEF PostInv, Waited
    <2>3. \A d \in Open : \A i \in 1..Len(rows) :
            rows[i].page = Page(d) /\ asked[rows[i].by] = asked[d] => rows[i].number < number[d]
      BY DEF PostInv, Waited
    <2>4. QED
      BY <1>1, <1>5, <2>1, <2>2, <2>3 DEF Waited
  <1>14. QED
    BY <1>7, <1>8, <1>9, <1>10, <1>11, <1>12, <1>13 DEF PostInv

\* The transaction ends with its row.
LEMMA StoreStep ==
  ASSUME PostInv, IndInv, NEW c \in Clients, CanCommit(c), rows' = Stored(c),
         at' = [at EXCEPT ![c] = "unlock"],
         why' = why \/ why' = [why EXCEPT ![c] = "fault"],
         UNCHANGED <<pc, key, engine, index, asked, number, rival>>
  PROVE  PostInv'
  <1> DEFINE r == [by |-> c, page |-> Page(c), number |-> number[c]]
  <1>1. PICK n \in Nat : n = Len(rows)
    BY DEF PostInv, PostsTyped
  <1>2. at[c] = "commit" /\ c \in Writing /\ c \in Open
    BY DEF CanCommit, Writing, Open
  <1>3. r \in Rows /\ rows' = Append(rows, r) /\ rows \in Seq(Rows)
    BY DEF PostInv, PostsTyped, Rows, Pages, Page, Stored
  <1>4. /\ rows' \in Seq(Rows) /\ Len(rows') = n + 1
        /\ rows'[n + 1].by = c /\ rows'[n + 1].page = Page(c) /\ rows'[n + 1].number = number[c]
        /\ \A i \in 1..n : rows'[i] = rows[i]
        /\ \A i \in 1..n : \A p : Upto(p, i)' = Upto(p, i)
        /\ \A p : Total(p) \in Nat
        /\ \A p : Total(p)' = IF p = Page(c) THEN Total(p) + 1 ELSE Total(p)
    <2>1. r.page = Page(c) /\ r.by = c /\ r.number = number[c]
      OBVIOUS
    <2> HIDE DEF r
    <2>2. QED
      BY <1>1, <1>3, <2>1, Added
  <1> HIDE DEF r
  <1>5. /\ DOMAIN rows = 1..n /\ DOMAIN rows' = 1..(n + 1)
        /\ \A i : i \in 1..(n + 1) <=> i \in 1..n \/ i = n + 1
        /\ n + 1 \notin 1..n
    BY <1>1, <1>4 DEF PostInv, PostsTyped
  <1>6. /\ at'[c] = "unlock" /\ why'[c] \in {why[c], "fault"}
        /\ \A d \in Clients \ {c} : at'[d] = at[d] /\ why'[d] = why[d]
    BY DEF PostInv, PostsTyped
  <1>7. number[c] = Total(Page(c)) + 1 /\ why[c] = "none" /\ index = "present" /\ pc[c] = "held"
    BY <1>2 DEF PostInv, Reserved, Told, Indexed, Locked
  <1>8. \A d : Page(d)' = Page(d)
    BY DEF Page
  <1>9. Open' = Open \ {c} /\ Writing' = Writing \ {c} /\ Open \subseteq Clients /\ Writing \subseteq Clients
    BY <1>6 DEF Open, Writing
  <1>10. PostsTyped'
    BY <1>4 DEF PostInv, PostsTyped, Calls
  <1>11. Locked'
    BY <1>6, <1>7 DEF PostInv, Locked
  <1>12. Indexed'
    BY <1>7 DEF Indexed
  <1>13. Numbered'
    <2>1. \A i \in 1..n : rows[i].number = Cardinality(Upto(rows[i].page, i))
      BY <1>1 DEF PostInv, Numbered
    <2>2. \A p : Cardinality(Upto(p, n + 1)') = Total(p)'
      BY <1>4 DEF Total, Upto
    <2>3. ASSUME NEW i \in 1..(n + 1)
          PROVE  rows'[i].number = Cardinality({j \in 1..i : rows'[j].page = rows'[i].page})
      <3>1. PICK p : p = rows'[i].page
        OBVIOUS
      <3>2. Upto(p, i)' = {j \in 1..i : rows'[j].page = p}
        BY DEF Upto
      <3>3. CASE i \in 1..n
        <4>1. rows'[i] = rows[i] /\ Upto(p, i)' = Upto(p, i)
          BY <1>4, <3>3
        <4>2. rows[i].number = Cardinality(Upto(p, i))
          BY <2>1, <3>1, <3>3, <4>1
        <4>3. QED
          BY <3>1, <3>2, <4>1, <4>2
      <3>4. CASE i = n + 1
        <4>1. p = Page(c) /\ rows'[i].number = number[c]
          BY <1>4, <3>1, <3>4
        <4>2. Total(p)' = Total(p) + 1 /\ number[c] = Total(p) + 1
          BY <1>4, <1>7, <4>1
        <4>3. Cardinality(Upto(p, i)') = Total(p)'
          BY <2>2, <3>4
        <4>4. QED
          BY <3>1, <3>2, <4>1, <4>2, <4>3
      <3>5. QED
        BY <1>5, <3>3, <3>4
    <2>5. \A i \in 1..Len(rows') : rows'[i].number = Cardinality({j \in 1..i : rows'[j].page = rows'[i].page})
      BY <1>4, <2>3
    <2>6. ASSUME NEW p \in Pages
          PROVE  Revisions(p)' = 1..Total(p)'
      <3>1. Revisions(p) = 1..Total(p) /\ Total(p) \in Nat
        BY <1>4 DEF PostInv, Numbered
      <3>2. CASE p # Page(c)
        <4>1. Revisions(p)' = Revisions(p)
          BY <1>4, <1>5, <3>2 DEF Revisions
        <4>2. QED
          BY <1>4, <3>1, <3>2, <4>1
      <3>3. CASE p = Page(c)
        <4>1. Revisions(p)' = Revisions(p) \cup {number[c]}
          BY <1>4, <1>5, <3>3 DEF Revisions
        <4>2. Total(p)' = Total(p) + 1 /\ number[c] = Total(p) + 1
          BY <1>4, <1>7, <3>3
        <4>3. 1..(Total(p) + 1) = 1..Total(p) \cup {Total(p) + 1}
          BY <3>1
        <4>4. QED
          BY <3>1, <4>1, <4>2, <4>3
      <3>4. QED
        BY <3>2, <3>3
    <2>7. QED
      BY <2>5, <2>6 DEF Numbered, Upto
  <1>14. Reserved'
    <2>1. \A d \in Writing' : Page(d) # Page(c) /\ number[d] = Total(Page(d)) + 1
      BY <1>2, <1>9 DEF PostInv, Reserved
    <2>2. \A d \in Open' : number[d] \in 1..Total(Page(d)) + 1 /\ engine # "sqlite"
      BY <1>2, <1>9 DEF PostInv, Reserved, CanCommit
    <2>3. ASSUME NEW d \in Open'
          PROVE  number[d] \in 1..Total(Page(d))' + 1
      <3>1. PICK p : p = Page(d)
        OBVIOUS
      <3>2. Total(p) \in Nat /\ Total(p)' \in {Total(p), Total(p) + 1}
        BY <1>4
      <3>3. number[d] \in 1..Total(p) + 1
        BY <2>2, <3>1
      <3>4. number[d] \in 1..Total(p)' + 1
        BY <3>2, <3>3
      <3>5. p = Page(d)'
        BY <1>8, <3>1
      <3>6. QED
        BY <3>4, <3>5
    <2>4. \A d, e \in Writing' : Page(d) = Page(e) => d = e
      BY <1>9 DEF PostInv, Reserved
    <2>5. QED
      BY <1>4, <1>8, <2>1, <2>2, <2>3, <2>4 DEF Reserved
  <1>15. Told'
    <2>1. \A d \in Clients \ {c} : Mine(d)' = Mine(d)
      BY <1>4, <1>5 DEF Mine
    <2>2. Mine(c) = {}
      BY <1>2 DEF PostInv, Told
    <2>3. Mine(c)' = {n + 1}
      BY <1>4, <1>5, <2>2 DEF Mine
    <2>4. \A d \in Clients : \A i \in Mine(d) : rows'[i] = rows[i]
      BY <1>4, <1>5 DEF Mine
    <2>5. why'[c] \in {"none", "fault"} /\ rows'[n + 1].number = number'[c]
      BY <1>4, <1>6, <1>7
    <2>6. QED
      BY <1>6, <2>1, <2>3, <2>4, <2>5 DEF PostInv, Told
  <1>16. Waited'
    <2>1. \A d \in Open' : \A i \in 1..n :
            rows[i].page = Page(d) /\ asked[rows[i].by] = asked[d] => rows[i].number < number[d]
      BY <1>1, <1>9 DEF PostInv, Waited
    <2>2. \A d \in Open' : asked[d] # asked[c]
      BY <1>2, <1>9, Alone DEF Open
    <2>3. \A d \in Clients : why'[d] = "conflict" => rival[d] # asked[d]
      BY <1>6, <1>7 DEF PostInv, Waited
    <2>4. QED
      BY <1>4, <1>5, <1>8, <2>1, <2>2, <2>3 DEF Waited
  <1>17. QED
    BY <1>10, <1>11, <1>12, <1>13, <1>14, <1>15, <1>16 DEF PostInv

\* The end of a transaction without a row, and the lock given back.
LEMMA EndStep ==
  ASSUME PostInv, IndInv, NEW c \in Clients,
         \/ Rollback(c) \/ Release(c)
         \/ CommitFails(c) /\ rows' = rows
  PROVE  PostInv'
  <1>1. /\ UNCHANGED <<key, engine, index, rows, asked, number, rival>>
        /\ \A d \in Clients \ {c} : pc'[d] = pc[d]
    BY DEF Rollback, Release, CommitFails, Unlock, vars, db, IndInv, TypeOK
  <1>2. \/ /\ at[c] = "rollback" /\ at' = [at EXCEPT ![c] = "unlock"]
           /\ why' = why /\ pc' = pc
        \/ /\ at[c] = "unlock" /\ at' = [at EXCEPT ![c] = "answered"]
           /\ why' = why /\ pc'[c] = "leaving"
        \/ /\ at[c] = "commit" /\ at' = [at EXCEPT ![c] = "unlock"]
           /\ why' = [why EXCEPT ![c] = "fault"] /\ pc' = pc
    BY DEF Rollback, Release, CommitFails, CanCommit, Goto, Fail, Unlock, vars, IndInv, TypeOK
  <1>3. /\ \A d \in Clients \ {c} : at'[d] = at[d] /\ why'[d] = why[d]
        /\ \/ at[c] = "rollback" /\ at'[c] = "unlock" /\ why'[c] = why[c] /\ pc'[c] = pc[c]
           \/ at[c] = "unlock" /\ at'[c] = "answered" /\ why'[c] = why[c] /\ pc'[c] = "leaving"
           \/ at[c] = "commit" /\ at'[c] = "unlock" /\ why'[c] = "fault" /\ pc'[c] = pc[c]
    BY <1>2 DEF PostInv, PostsTyped
  <1>4. PostsTyped'
    BY <1>1, <1>2 DEF PostInv, PostsTyped, Calls
  <1>5. Locked'
    BY <1>1, <1>3 DEF PostInv, Locked
  <1>6. Indexed'
    BY <1>1, <1>3 DEF PostInv, Indexed
  <1>7. /\ Open' = Open \ {c} /\ Writing' \subseteq Writing /\ Open \subseteq Clients
        /\ Writing \subseteq Clients
        /\ \A p : Total(p)' = Total(p) /\ Revisions(p)' = Revisions(p)
        /\ \A p, i : Upto(p, i)' = Upto(p, i)
        /\ \A d : Page(d)' = Page(d) /\ Mine(d)' = Mine(d)
    BY <1>1, <1>3 DEF Open, Writing, Total, Revisions, Upto, Page, Mine
  <1>8. Numbered'
    BY <1>1, <1>7 DEF PostInv, Numbered
  <1>9. Reserved'
    BY <1>1, <1>7 DEF PostInv, Reserved
  <1>10. Told'
    BY <1>1, <1>3, <1>7 DEF PostInv, Told
  <1>11. Waited'
    BY <1>1, <1>3, <1>7 DEF PostInv, Waited
  <1>12. QED
    BY <1>4, <1>5, <1>6, <1>8, <1>9, <1>10, <1>11 DEF PostInv
-----------------------------------------------------------------------------
LEMMA PostStart == PostInit => PostInv
  <1> SUFFICES ASSUME PostInit PROVE PostInv
    OBVIOUS
  <1>1. rows = <<>> /\ Len(rows) = 0 /\ DOMAIN rows = {} /\ rows \in Seq(Rows)
    BY DEF PostInit
  <1>2. \A p : Total(p) = 0
    <2>1. \A p : Upto(p, 0) = {}
      BY DEF Upto
    <2>2. QED
      BY <1>1, <2>1, FS_EmptySet DEF Total
  <1>3. \A p : Revisions(p) = {}
    BY <1>1 DEF Revisions
  <1>4. PostsTyped
    BY <1>1, PostsAssumption DEF PostInit, PostsTyped, Calls
  <1>5. Locked /\ Indexed /\ Told /\ Waited
    BY <1>1 DEF PostInit, Init, Locked, Indexed, Told, Waited, Mine, Open
  <1>6. Numbered
    <2>1. 1..0 = {}
      OBVIOUS
    <2>2. QED
      BY <1>1, <1>2, <1>3, <2>1 DEF Numbered
  <1>7. Reserved
    <2>1. Open = {} /\ Writing = {}
      BY DEF PostInit, Open, Writing
    <2>2. QED
      BY <2>1 DEF Reserved
  <1>8. QED
    BY <1>4, <1>5, <1>6, <1>7 DEF PostInv

\* Nothing changes.
LEMMA Stutter == ASSUME PostInv, UNCHANGED allVars PROVE PostInv'
  <1>1. UNCHANGED postVars /\ UNCHANGED <<pc, key>>
    BY DEF allVars, vars
  <1>2. PostsTyped' /\ Indexed' /\ Locked'
    BY <1>1 DEF PostInv, PostsTyped, Indexed, Locked, postVars
  <1>3. /\ Open' = Open /\ Writing' = Writing
        /\ \A p : Total(p)' = Total(p) /\ Revisions(p)' = Revisions(p)
        /\ \A p, i : Upto(p, i)' = Upto(p, i)
        /\ \A d : Page(d)' = Page(d) /\ Mine(d)' = Mine(d)
    BY <1>1 DEF Open, Writing, Total, Revisions, Upto, Page, Mine, postVars
  <1>4. Numbered'
    BY <1>1, <1>3 DEF PostInv, Numbered, postVars
  <1>5. Reserved'
    BY <1>1, <1>3 DEF PostInv, Reserved, postVars
  <1>6. Told'
    BY <1>1, <1>3 DEF PostInv, Told, postVars
  <1>7. Waited'
    BY <1>1, <1>3 DEF PostInv, Waited, postVars
  <1>8. QED
    BY <1>2, <1>4, <1>5, <1>6, <1>7 DEF PostInv

LEMMA PostStep == PostInv /\ IndInv /\ [PostNext]_allVars => PostInv'
  <1> SUFFICES ASSUME PostInv, IndInv, [PostNext]_allVars PROVE PostInv'
    OBVIOUS
  <1>1. CASE UNCHANGED allVars
    BY <1>1, Stutter
  <1>2. ASSUME NEW c \in Clients, Commit(c) \/ CommitFails(c)
        PROVE  PostInv'
    <2>1. CASE rows' = Stored(c)
      BY <1>2, <2>1, StoreStep DEF Commit, CommitFails, Goto, Fail, CanCommit, vars
    <2>2. CASE rows' # Stored(c)
      BY <1>2, <2>2, EndStep DEF Commit, CommitFails
    <2>3. QED
      BY <2>1, <2>2
  <1>3. ASSUME NEW c \in Clients, Work(c) \/ Acquire(c)
        PROVE  PostInv'
    BY <1>2, <1>3, ConnectStep, LockingStep, ReadMaxStep, InsertStep, EndStep DEF Work
  <1>4. QED
    BY <1>1, <1>3 DEF PostNext, Ended

LEMMA PostInvariance == PostSpec => [](PostInv /\ IndInv)
  <1>1. PostInit => PostInv /\ IndInv
    BY PostStart, StartInv DEF PostInit
  <1>2. PostInv /\ IndInv /\ [PostNext]_allVars => PostInv' /\ IndInv'
    BY PostStep, LockStep, StepInv
  <1>3. QED
    BY <1>1, <1>2, PTL DEF PostSpec
-----------------------------------------------------------------------------
(* The results *)

\* What is proved of the lock table holds of the one savePostDataInDB uses:
\* the composed system is an instance of KeyedMutex.
THEOREM UsesTheLock == PostSpec => Spec
  <1>1. PostInit => Init
    BY DEF PostInit
  <1>2. QED
    BY <1>1, LockStep, PostInvariance, PTL DEF PostSpec, Spec

\* No entry of postRevisionAllocationLocks leaks or is deleted under a user,
\* however saves fail.
THEOREM PostLocksAreCounted == PostSpec => []RefsCountUsers
  BY UsesTheLock, CountIsExact, PTL

\* The lock of savePostDataInDB keeps the promise of Mutex.
THEOREM PostLocksExclude == PostSpec => ImplementsMutex
  BY UsesTheLock, Refinement, PTL

\* Whatever processes and goroutines number one page at once, and whatever
\* fails, its revisions are 1, 2, 3 in commit order (savePostDataInDB).
THEOREM RevisionsAreConsecutive == PostSpec => []NumbersFollowCommits
  <1>1. PostInv => NumbersFollowCommits
    <2> SUFFICES ASSUME PostInv PROVE NumbersFollowCommits
      OBVIOUS
    <2>1. DOMAIN rows = 1..Len(rows)
      BY DEF PostInv, PostsTyped
    <2>2. QED
      BY <2>1 DEF PostInv, Numbered, Upto, NumbersFollowCommits
  <1>2. QED
    BY PostInvariance, <1>1, PTL

\* A caller of SavePostRevisionFromConfig who is told of success has one row
\* with its number, and none if it was refused.
THEOREM CallersAreTold == PostSpec => []ToldTruthfully
  <1>1. PostInv => ToldTruthfully
    BY DEF PostInv, Told, Mine, ToldTruthfully
  <1>2. QED
    BY PostInvariance, <1>1, PTL

\* Callers of one page in one process wait for each other and never fail over
\* each other (postRevisionAllocationLocks).
THEOREM RefusedByOthers == PostSpec => []RefusedOnlyByOthers
  <1>1. PostInv => RefusedOnlyByOthers
    BY DEF PostInv, Waited, RefusedOnlyByOthers
  <1>2. QED
    BY PostInvariance, <1>1, PTL
-----------------------------------------------------------------------------
(* The Post table as an atomic object *)

Answered(c) == IF at[c] # "answered" THEN "none"
               ELSE IF why[c] = "none" THEN "saved"
               ELSE IF why[c] = "fault" THEN "unknown" ELSE "refused"

Revision == INSTANCE RevisionTable WITH told <- [c \in Clients |-> Answered(c)]

ImplementsRevisionTable == Revision!Spec

\* A transaction that stores its row is the next revision of its page.
LEMMA StoresNext ==
  ASSUME PostInv, NEW c \in Clients, CanCommit(c), rows' = Stored(c),
         at' = [at EXCEPT ![c] = "unlock"],
         why' = why \/ why' = [why EXCEPT ![c] = "fault"]
  PROVE  Revision!Save(c, Page(c))
  <1>1. at[c] = "commit" /\ c \in Writing
    BY DEF CanCommit, Writing
  <1>2. number[c] = Total(Page(c)) + 1 /\ Mine(c) = {}
    BY <1>1 DEF PostInv, Reserved, Told
  <1>3. /\ number[c] \in 1..Len(rows) + 1
        /\ Revision!Numbers(Page(c)) = 1..number[c] - 1
    <2>1. Page(c) \in Pages /\ Total(Page(c)) \in Nat /\ rows \in Seq(Rows)
      BY TotalType DEF Page, Pages, PostInv, PostsTyped
    <2>2. Revisions(Page(c)) = 1..number[c] - 1
      BY <1>2, <2>1 DEF PostInv, Numbered
    <2>3. Total(Page(c)) <= Len(rows)
      <3>1. Upto(Page(c), Len(rows)) \subseteq 1..Len(rows)
        BY DEF Upto
      <3>2. PICK n \in Nat : n = Len(rows)
        BY <2>1
      <3>3. IsFiniteSet(1..n) /\ Cardinality(1..n) = n
        <4>1. 1 \in Int /\ n \in Int /\ (IF 1 > n THEN 0 ELSE n - 1 + 1) = n
          OBVIOUS
        <4>2. IsFiniteSet(1..n) /\ Cardinality(1..n) = IF 1 > n THEN 0 ELSE n - 1 + 1
          BY <4>1, FS_Interval, Zenon
        <4>3. QED
          BY <4>1, <4>2
      <3>4. QED
        BY <3>1, <3>2, <3>3, FS_Subset DEF Total
    <2>4. QED
      BY <1>2, <2>1, <2>2, <2>3 DEF Revisions, Revision!Numbers
  <1>4. Revision!By(c) = {}
    BY <1>2 DEF Mine, Revision!By
  <1>5. \A d \in Clients : Answered(d)' = Answered(d)
    BY <1>1 DEF Answered, PostInv, PostsTyped
  <1>6. Answered(c) = "none"
    BY <1>1 DEF Answered
  <1>7. rows' = Append(rows, [by |-> c, page |-> Page(c), number |-> number[c]])
    BY DEF Stored
  <1>8. UNCHANGED [d \in Clients |-> Answered(d)]
    BY <1>5
  <1>9. QED
    BY <1>3, <1>4, <1>6, <1>7, <1>8 DEF Revision!Save

\* A call that returns.
LEMMA AnswersTruly ==
  ASSUME PostInv, NEW c \in Clients, at[c] # "answered",
         at' = [at EXCEPT ![c] = "answered"], UNCHANGED rows,
         \/ at[c] = "unlock" /\ why' = why
         \/ /\ at[c] \in {"probe", "seed", "schema"}
            /\ \E w \in {"seed", "legacy", "fault"} : why' = [why EXCEPT ![c] = w]
  PROVE  Revision!Answer(c)
  <1>1. \A d \in Clients : d # c => Answered(d)' = Answered(d)
    BY DEF Answered, PostInv, PostsTyped
  <1>2. Answered(c) = "none" /\ at'[c] = "answered"
    BY DEF Answered, PostInv, PostsTyped
  <1>3. Revision!By(c) = Mine(c)
    BY DEF Mine, Revision!By
  <1>4. CASE at[c] = "unlock" /\ why' = why
    <2>1. \/ why[c] = "none" /\ Mine(c) # {}
          \/ why[c] \in {"seed", "legacy", "conflict"} /\ Mine(c) = {}
          \/ why[c] = "fault"
      BY <1>4 DEF PostInv, PostsTyped, Told
    <2>2. \/ Answered(c)' = "saved" /\ Mine(c) # {}
          \/ Answered(c)' = "refused" /\ Mine(c) = {}
          \/ Answered(c)' = "unknown"
      BY <1>2, <1>4, <2>1 DEF Answered
    <2>3. QED
      BY <1>1, <1>2, <1>3, <2>2 DEF Revision!Answer
  <1>5. CASE /\ at[c] \in {"probe", "seed", "schema"}
             /\ \E w \in {"seed", "legacy", "fault"} : why' = [why EXCEPT ![c] = w]
    <2>1. Mine(c) = {} /\ why'[c] \in {"seed", "legacy", "fault"}
      BY <1>5 DEF PostInv, PostsTyped, Told
    <2>2. Answered(c)' \in {"refused", "unknown"}
      BY <1>2, <2>1 DEF Answered
    <2>3. QED
      BY <1>1, <1>2, <1>3, <2>1, <2>2 DEF Revision!Answer
  <1>6. QED
    BY <1>4, <1>5

\* A step inside a call.
LEMMA GoesOn ==
  ASSUME PostInv, NEW c \in Clients, at[c] # "answered", NEW call, call # "answered",
         at' = [at EXCEPT ![c] = call], UNCHANGED rows,
         \A d \in Clients \ {c} : why'[d] = why[d]
  PROVE  UNCHANGED <<rows, [d \in Clients |-> Answered(d)]>>
  <1>1. ASSUME NEW d \in Clients PROVE Answered(d)' = Answered(d)
    BY DEF Answered, PostInv, PostsTyped
  <1>2. QED
    BY <1>1

\* Whatever processes and goroutines save revisions at once, over whatever
\* engine and with whatever failures, SavePostRevisionFromConfig adds whole
\* revisions, one after the other, each with the next number of its page, and
\* tells its callers what it did.
THEOREM RevisionsAreAtomic == PostSpec => ImplementsRevisionTable
  <1>1. PostInit => Revision!Init
    BY DEF PostInit, Answered, Revision!Init
  <1>2. PostInv /\ [PostNext]_allVars
          => [Revision!Next]_<<rows, [c \in Clients |-> Answered(c)]>>
    <2> SUFFICES ASSUME PostInv, [PostNext]_allVars
                 PROVE  Revision!Next \/ UNCHANGED <<rows, [c \in Clients |-> Answered(c)]>>
      OBVIOUS
    <2>1. ASSUME UNCHANGED <<rows, at, why>>
          PROVE  UNCHANGED <<rows, [c \in Clients |-> Answered(c)]>>
      BY <2>1 DEF Answered
    <2>2. ASSUME NEW c \in Clients, Commit(c) \/ CommitFails(c)
          PROVE  Revision!Next \/ UNCHANGED <<rows, [d \in Clients |-> Answered(d)]>>
      <3>1. CASE rows' = Stored(c)
        <4>1. Page(c) \in Pages
          BY DEF Page, Pages, PostInv, PostsTyped
        <4>2. Revision!Save(c, Page(c))
          BY <2>2, <3>1, StoresNext DEF Commit, CommitFails, Goto, Fail
        <4>3. QED
          BY <4>1, <4>2 DEF Revision!Next
      <3>2. CASE rows' # Stored(c)
        <4>1. at[c] = "commit" /\ at' = [at EXCEPT ![c] = "unlock"] /\ rows' = rows
              /\ why' = [why EXCEPT ![c] = "fault"]
          BY <2>2, <3>2 DEF Commit, CommitFails, CanCommit, Fail, Goto
        <4>2. \A d \in Clients \ {c} : why'[d] = why[d]
          BY <4>1 DEF PostInv, PostsTyped
        <4>3. QED
          BY <4>1, <4>2, GoesOn
      <3>3. QED
        BY <3>1, <3>2
    <2>3. ASSUME NEW c \in Clients, ConnectFails(c) \/ Seed(c) \/ Schema(c) \/ Release(c)
          PROVE  Revision!Next \/ UNCHANGED <<rows, [d \in Clients |-> Answered(d)]>>
      <3>1. CASE at' = [at EXCEPT ![c] = "answered"]
        <4>1. ASSUME Release(c) PROVE Revision!Answer(c)
          <5>1. at[c] = "unlock" /\ at[c] # "answered" /\ rows' = rows /\ why' = why
            BY <4>1 DEF Release, db
          <5>2. QED
            BY <3>1, <5>1, AnswersTruly
        <4>2. ASSUME ~Release(c) PROVE Revision!Answer(c)
          <5>1. /\ at[c] \in {"probe", "seed", "schema"} /\ rows' = rows
                /\ \/ \E w \in {"seed", "legacy", "fault"} : why' = [why EXCEPT ![c] = w]
                   \/ at' = [at EXCEPT ![c] = "schema"]
                   \/ at' = [at EXCEPT ![c] = "lock"]
            <6>1. ASSUME ConnectFails(c) PROVE  <5>1!:
              BY <6>1 DEF ConnectFails, Fail, db
            <6>2. ASSUME Seed(c) PROVE  <5>1!:
              BY <6>2 DEF Seed, Fail, Goto
            <6>3. ASSUME Schema(c) PROVE  <5>1!:
              BY <6>3 DEF Schema, Fail, Goto
            <6>4. QED
              BY <2>3, <4>2, <6>1, <6>2, <6>3
          <5>2. at'[c] = "answered"
            BY <3>1 DEF PostInv, PostsTyped
          <5>3. \E w \in {"seed", "legacy", "fault"} : why' = [why EXCEPT ![c] = w]
            BY <5>1, <5>2 DEF PostInv, PostsTyped
          <5>4. QED
            BY <3>1, <5>1, <5>3, AnswersTruly
        <4>3. QED
          BY <4>1, <4>2 DEF Revision!Next
      <3>2. CASE at' # [at EXCEPT ![c] = "answered"]
        <4>1. /\ at[c] # "answered" /\ rows' = rows /\ why' = why
              /\ at' = [at EXCEPT ![c] = "schema"] \/ at' = [at EXCEPT ![c] = "lock"]
          BY <2>3, <3>2 DEF ConnectFails, Seed, Schema, Release, Fail, Goto
        <4>2. QED
          BY <4>1, GoesOn
      <3>3. QED
        BY <3>1, <3>2
    <2>4. ASSUME NEW c \in Clients, Probe(c) \/ ReadMax(c) \/ Insert(c) \/ Rollback(c)
          PROVE  UNCHANGED <<rows, [d \in Clients |-> Answered(d)]>>
      <3>1. /\ at[c] # "answered" /\ rows' = rows
            /\ \E call \in Calls \ {"answered"} : at' = [at EXCEPT ![c] = call]
            /\ why' = why \/ why' = [why EXCEPT ![c] = "conflict"]
        BY <2>4 DEF Probe, ReadMax, Insert, Rollback, Fail, Goto, Calls, db
      <3>2. \A d \in Clients \ {c} : why'[d] = why[d]
        BY <3>1 DEF PostInv, PostsTyped
      <3>3. QED
        BY <3>1, <3>2, GoesOn
    <2>5. ASSUME NEW c \in Clients, Enrol(c) \/ Forget(c) \/ Acquire(c) \/ Ended(c)
          PROVE  UNCHANGED <<rows, at, why>>
      BY <2>5 DEF Enrol, Forget, Acquire, Ended, postVars, allVars
    <2>6. CASE UNCHANGED allVars
      BY <2>1, <2>6 DEF allVars, postVars
    <2>7. QED
      BY <2>1, <2>2, <2>3, <2>4, <2>5, <2>6 DEF PostNext, Work
  <1>3. QED
    BY PostInvariance, <1>1, <1>2, PTL DEF PostSpec, ImplementsRevisionTable, Revision!Spec
=============================================================================
