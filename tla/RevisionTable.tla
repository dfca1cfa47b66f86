--------------------------- MODULE RevisionTable ---------------------------
(***************************************************************************)
(* What SavePostRevisionFromConfig promises to whoever saves a revision,   *)
(* from however many goroutines and processes: the Post table only grows,  *)
(* by one revision of one page at a time, which has the next number of its *)
(* page; a caller has one revision at most, has it when it is told of      *)
(* success, and never gets it after it was told of a refusal.  Posts.tla,  *)
(* with its connections, locks and transactions, implements it; it is what *)
(* PageSave takes SaveDB and SaveDBFails from.                             *)
(***************************************************************************)
EXTENDS Naturals, Sequences

CONSTANTS Clients, Pages

VARIABLES rows,  \* the committed revisions
          told   \* told[c]: the answer c got

Numbers(p) == {rows[i].number : i \in {j \in DOMAIN rows : rows[j].page = p}}
By(c) == {i \in DOMAIN rows : rows[i].by = c}

Init == rows = <<>> /\ told = [c \in Clients |-> "none"]

Save(c, p) ==
  /\ told[c] = "none" /\ By(c) = {}
  /\ \E n \in 1..Len(rows) + 1 :
       /\ Numbers(p) = 1..n - 1
       /\ rows' = Append(rows, [by |-> c, page |-> p, number |-> n])
  /\ UNCHANGED told

\* "unknown": the connection or the commit itself reported an error.
Answer(c) ==
  /\ told[c] = "none"
  /\ \/ By(c) # {} /\ told' = [told EXCEPT ![c] = "saved"]
     \/ By(c) = {} /\ told' = [told EXCEPT ![c] = "refused"]
     \/ told' = [told EXCEPT ![c] = "unknown"]
  /\ UNCHANGED rows

Next == \E c \in Clients : Answer(c) \/ \E p \in Pages : Save(c, p)

Spec == Init /\ [][Next]_<<rows, told>>
=============================================================================
