---------------------------- MODULE PageHistory ----------------------------
(***************************************************************************)
(* What an operator may expect of saves, however many at once and whatever *)
(* fails: the history of a page only grows, by entries with ever higher    *)
(* numbers; a save replaces the page and enters the history in one step,   *)
(* with the body it replaced; a save that does not get so far leaves the   *)
(* page alone, with an entry, at once or later, or without; and what is    *)
(* answered with success can only be replaced by a later save, not by a    *)
(* loss of power.                                                          *)
(* PageSave.tla, with its lock, its files and its syncs, implements it.    *)
(***************************************************************************)
EXTENDS Naturals

CONSTANTS Requests, Pages, Bodies

VARIABLES page,     \* page[p]: what visitors see
          kept,     \* kept[p]: what a loss of power would leave of it
          history,  \* the entries: who saved what, over what, under which number
          told      \* told[r]: the answer r got

Entries == [by : Requests, page : Pages, number : Nat, before : Bodies, after : Bodies]

Init == /\ page \in [Pages -> Bodies] /\ kept = page
        /\ history = {}
        /\ told = [r \in Requests |-> "none"]

\* An entry of a request that has none yet, numbered above those of its page.
Fresh(e) == /\ e \in Entries /\ told[e.by] \in {"none", "failed"}
            /\ \A x \in history : x.by # e.by /\ (x.page = e.page => x.number < e.number)

Added == history' \ history

\* Entries come, and none goes.
Grows == /\ history \subseteq history'
         /\ \A e \in Added : Fresh(e)
         /\ \A d, e \in Added : d.page = e.page /\ d.number = e.number => d = e

\* saveEditedFile: the page is replaced, and its entry says by whom.
Save(e) ==
  /\ Fresh(e) /\ told[e.by] = "none" /\ e.before = page[e.page]
  /\ history' = history \cup {e}
  /\ page' = [page EXCEPT ![e.page] = e.after]
  /\ UNCHANGED <<kept, told>>

Sync(p) == /\ kept' = [kept EXCEPT ![p] = page[p]]
           /\ UNCHANGED <<page, history, told>>

\* Success: the page is what was saved, also after a loss of power.
Accept(e) ==
  /\ told[e.by] = "none"
  /\ page[e.page] = e.after /\ kept[e.page] = e.after
  /\ \A x \in history : x.page = e.page => x.number <= e.number
  /\ told' = [told EXCEPT ![e.by] = "ok"]
  /\ UNCHANGED <<page, kept, history>>

\* An error, with an entry if the save had got as far as that.
Refuse(r) ==
  /\ told[r] = "none"
  /\ \E a \in {"failed", "notfound"} : told' = [told EXCEPT ![r] = a]
  /\ Grows /\ \A e \in Added : e.by = r
  /\ UNCHANGED <<page, kept>>

\* What saves that were killed had entered is found, and what others left that
\* failed.
Tried == Grows /\ UNCHANGED <<page, kept, told>>

PowerLoss ==
  /\ Grows
  /\ page' \in [Pages -> Bodies] /\ \A p \in Pages : page'[p] \in {page[p], kept[p]}
  /\ kept' = page'
  /\ UNCHANGED told

Next == \/ \E e \in Added : Save(e)
        \/ \E p \in Pages : Sync(p)
        \/ \E e \in history : Accept(e)
        \/ \E r \in Requests : Refuse(r)
        \/ Tried \/ PowerLoss

Spec == Init /\ [][Next]_<<page, kept, history, told>>
=============================================================================
