----------------------------- MODULE MovedSite -----------------------------
(***************************************************************************)
(* What an operator may expect of moves: the site is a set of pages and of *)
(* redirects that stand in for pages that were moved; a page moves, and    *)
(* its redirect appears, in one step or not at all, and only to a URI that *)
(* is free.  MovePage.tla, where a move is a sequence of changes to files  *)
(* and the database and of their undoing, implements it as long as         *)
(* requests do not overlap and meet one failure each at most.              *)
(***************************************************************************)
CONSTANTS Uris, Bodies, None

VARIABLES body,  \* body[u]: the page at u
          link   \* link[u]: the redirect of u, unless there is a page

Init == /\ body \in [Uris -> Bodies \cup {None}]
        /\ link = [u \in Uris |-> None]

\* updateProperties with a new URI: what v redirected to is hidden by the page.
Move(u, v) ==
  /\ body[u] # None /\ body[v] = None
  /\ body' = [body EXCEPT ![v] = body[u], ![u] = None]
  /\ link' = [link EXCEPT ![u] = v, ![v] = None]

\* createSubpage, or an edit.
Put(u) ==
  /\ \E b \in Bodies : body' = [body EXCEPT ![u] = b]
  /\ link' = [link EXCEPT ![u] = None]

Next == \E u \in Uris : Put(u) \/ \E v \in Uris : Move(u, v)

Spec == Init /\ [][Next]_<<body, link>>
=============================================================================
