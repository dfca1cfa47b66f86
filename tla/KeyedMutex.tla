----------------------------- MODULE KeyedMutex -----------------------------
(***************************************************************************)
(* keyedMutex.lock: a table of reference-counted locks, one per key, that  *)
(* are created on the first use of a key and dropped after the last.       *)
(*                                                                         *)
(* Each stretch of code between k.mu.Lock() and k.mu.Unlock() touches      *)
(* memory only, so it is one action.  Lock objects live on the Go heap:    *)
(* ptr[c] is the pointer goroutine c got from the table, and an object     *)
(* nobody points to may be allocated again.                                *)
(***************************************************************************)
EXTENDS Naturals, FiniteSets

CONSTANTS Clients, Keys,
          Locks,    \* the heap cells a keyedLock may live in
          None      \* nil, and "nobody"

ASSUME KeyedMutexAssumption ==
  /\ IsFiniteSet(Clients)
  /\ None \notin Clients
  /\ None \notin Locks
  /\ None \notin Keys

VARIABLES pc,       \* pc[c]: where client c is in lock(key) .. unlock()
          key,      \* key[c]: the argument of its call
          ptr,      \* ptr[c]: the local variable "lock"
          table,    \* k.locks
          refs,     \* refs[l]: keyedLock.refs
          holder    \* holder[l]: who locked keyedLock.mu

vars == <<pc, key, ptr, table, refs, holder>>

Stages == {"idle", "waiting", "held", "leaving"}

Init == /\ pc = [c \in Clients |-> "idle"]
        /\ key = [c \in Clients |-> None]
        /\ ptr = [c \in Clients |-> None]
        /\ table = [k \in Keys |-> None]
        /\ refs = [l \in Locks |-> 0]
        /\ holder = [l \in Locks |-> None]

Unreachable(l) == /\ \A k \in Keys : table[k] # l
                  /\ \A c \in Clients : ptr[c] # l

Enlist(c, k, l) == /\ pc' = [pc EXCEPT ![c] = "waiting"]
                   /\ key' = [key EXCEPT ![c] = k]
                   /\ ptr' = [ptr EXCEPT ![c] = l]

\* The key is in the table: share its lock.
Join(c, k) ==
  /\ pc[c] = "idle"
  /\ table[k] # None
  /\ Enlist(c, k, table[k])
  /\ refs' = [refs EXCEPT ![table[k]] = @ + 1]
  /\ UNCHANGED <<table, holder>>

\* It is not: allocate a zero keyedLock and enter it.
Create(c, k) ==
  /\ pc[c] = "idle"
  /\ table[k] = None
  /\ \E l \in Locks :
       /\ Unreachable(l)
       /\ Enlist(c, k, l)
       /\ table' = [table EXCEPT ![k] = l]
       /\ refs' = [refs EXCEPT ![l] = 1]
       /\ holder' = [holder EXCEPT ![l] = None]

\* lock.mu.Lock() returns.
Enter(c) ==
  /\ pc[c] = "waiting"
  /\ holder[ptr[c]] = None
  /\ holder' = [holder EXCEPT ![ptr[c]] = c]
  /\ pc' = [pc EXCEPT ![c] = "held"]
  /\ UNCHANGED <<key, ptr, table, refs>>

\* Mutant: the closure forgets lock.mu.Unlock().
Unlock_Forgotten(c) ==
  /\ pc[c] = "held"
  /\ pc' = [pc EXCEPT ![c] = "leaving"]
  /\ UNCHANGED <<key, ptr, table, refs, holder>>

\* The returned closure: lock.mu.Unlock() ...
Unlock(c) ==
  /\ pc[c] = "held"
  /\ holder' = [holder EXCEPT ![ptr[c]] = None]
  /\ pc' = [pc EXCEPT ![c] = "leaving"]
  /\ UNCHANGED <<key, ptr, table, refs>>

\* Mutant: the entry is deleted whatever the count is.
Leave_DropsEntry(c) ==
  /\ pc[c] = "leaving"
  /\ refs' = [refs EXCEPT ![ptr[c]] = @ - 1]
  /\ table' = [table EXCEPT ![key[c]] = None]
  /\ pc' = [pc EXCEPT ![c] = "idle"]
  /\ key' = [key EXCEPT ![c] = None]
  /\ ptr' = [ptr EXCEPT ![c] = None]
  /\ UNCHANGED holder

\* ... then the reference is dropped, and with the last one the table entry.
Leave(c) ==
  /\ pc[c] = "leaving"
  /\ refs' = [refs EXCEPT ![ptr[c]] = @ - 1]
  /\ table' = [table EXCEPT ![key[c]] = IF refs[ptr[c]] = 1 THEN None ELSE @]
  /\ pc' = [pc EXCEPT ![c] = "idle"]
  /\ key' = [key EXCEPT ![c] = None]
  /\ ptr' = [ptr EXCEPT ![c] = None]
  /\ UNCHANGED holder

Next == \E c \in Clients : \/ \E k \in Keys : Join(c, k) \/ Create(c, k)
                           \/ Enter(c) \/ Unlock(c) \/ Leave(c)

Spec == Init /\ [][Next]_vars

-----------------------------------------------------------------------------
TypeOK == /\ pc \in [Clients -> Stages]
          /\ key \in [Clients -> Keys \cup {None}]
          /\ ptr \in [Clients -> Locks \cup {None}]
          /\ table \in [Keys -> Locks \cup {None}]
          /\ refs \in [Locks -> Nat]
          /\ holder \in [Locks -> Clients \cup {None}]

\* Two goroutines between lock(key) and unlock() of the same key never overlap,
\* however creation, sharing and deletion of the table entry interleave.
MutualExclusion ==
  \A c, d \in Clients : /\ pc[c] = "held" /\ pc[d] = "held"
                        /\ key[c] = key[d]
                        => c = d

Users(l) == {c \in Clients : ptr[c] = l}

\* The reference count is the number of goroutines that hold the pointer, and
\* every pointer still in use is the one the table gives to a newcomer: the
\* entry is never deleted, or replaced, under a goroutine that relies on it, and
\* an entry nobody relies on is gone.
RefsCountUsers ==
  /\ \A k \in Keys : table[k] # None =>
       Users(table[k]) # {} /\ refs[table[k]] = Cardinality(Users(table[k]))
  /\ \A c \in Clients : pc[c] # "idle" => table[key[c]] = ptr[c]

\* The implementation keeps the promise of Mutex.tla: a client is inside the
\* critical section of its key from Enter to Unlock.
Abstract == INSTANCE Mutex WITH
  inside <- [c \in Clients |-> IF pc[c] = "held" THEN key[c] ELSE None]

ImplementsMutex == Abstract!Spec
=============================================================================
