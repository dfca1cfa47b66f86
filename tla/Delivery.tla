------------------------------ MODULE Delivery ------------------------------
(***************************************************************************)
(* What the save queue promises to whoever sends it a post: from then on   *)
(* the post waits, until it is saved; it is saved once, unless the         *)
(* database saves it and reports an error, in which case it is tried       *)
(* again; and nobody ever takes it back.  SaveQueue.tla, with its channel, *)
(* its goroutines that wait for room and its workers that die and are      *)
(* replaced, implements it.                                                *)
(***************************************************************************)
EXTENDS Naturals, Sequences

CONSTANT Tasks

VARIABLES waiting,  \* the posts still to be saved
          rows      \* the posts saved, in that order

Saved(t) == \E i \in DOMAIN rows : rows[i] = t

Init == waiting = {} /\ rows = <<>>

Send(t) == /\ t \notin waiting /\ ~Saved(t)
           /\ waiting' = waiting \cup {t}
           /\ UNCHANGED rows

Save(t) == /\ t \in waiting
           /\ rows' = Append(rows, t)
           /\ waiting' = waiting \ {t}

\* The commit is reported as an error.
Misreport(t) == /\ t \in waiting
                /\ rows' = Append(rows, t)
                /\ UNCHANGED waiting

Next == \E t \in Tasks : Send(t) \/ Save(t) \/ Misreport(t)

Spec == Init /\ [][Next]_<<waiting, rows>>
=============================================================================
