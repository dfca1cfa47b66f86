----------------------------- MODULE MCPageSave -----------------------------
(* Instances of PageSave: one page that exists, or one that does and one    *)
(* that does not in a shared revision directory, as "/a/b" and "/a_b".      *)
EXTENDS PageSave, TLC

CONSTANTS p1, p2, d1, d2, a

SharedDir == p1 :> d1 @@ p2 :> d1
OnePage   == p1 :> d1

TwoPagesSite == p1 :> a @@ p2 :> Blank
OnePageSite  == p1 :> a

AnyFault == Steps
NoFaults == {}

\* Requests are told apart only by what they ask for.
Symmetry == Permutations(Requests)
=============================================================================
