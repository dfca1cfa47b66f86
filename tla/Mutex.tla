------------------------------- MODULE Mutex -------------------------------
(***************************************************************************)
(* What a keyed mutex promises its callers: no two clients are inside the  *)
(* critical section of one key.  keyedMutex of pkg/webserver (the lock of  *)
(* a revision directory) and postRevisionKeyedMutex of pkg/database (the   *)
(* lock of a page's DB revision numbers) are two copies of one             *)
(* implementation of it, KeyedMutex.tla; PageSave.tla takes its critical   *)
(* sections from this abstraction.                                         *)
(***************************************************************************)
CONSTANTS Clients,  \* goroutines that call lock(key)
          Keys,     \* lock keys: revision directories, or domain/URI pairs
          None      \* "no key"

VARIABLE inside     \* inside[c]: the key whose critical section c is in

Init == inside = [c \in Clients |-> None]

Acquire(c, k) == /\ inside[c] = None
                 /\ \A d \in Clients : inside[d] # k
                 /\ inside' = [inside EXCEPT ![c] = k]

Release(c) == /\ inside[c] # None
              /\ inside' = [inside EXCEPT ![c] = None]

Next == \E c \in Clients : Release(c) \/ \E k \in Keys : Acquire(c, k)

Spec == Init /\ [][Next]_inside
=============================================================================
