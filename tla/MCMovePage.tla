----------------------------- MODULE MCMovePage -----------------------------
(* Instances of MovePage.                                                    *)
EXTENDS MovePage

CONSTANTS u1, u2, u3

NoFaults == {}
AnyFault == Steps

\* Three moves or creations one after the other; a failure at any step of each.
Turns == [requests |-> 3, concurrent |-> 1, faults |-> 1, kinds |-> {"move", "create"},
          ghosts |-> FALSE, site |-> {u1}, odd |-> {}]

\* Two requests at once, of which each meets two failures.
Pair == [requests |-> 2, concurrent |-> 2, faults |-> 2, kinds |-> {"move", "create", "edit"},
         ghosts |-> TRUE, site |-> {u1, u2}, odd |-> {}]

\* Three moves or creations one after the other, where no redirect leads to u3.
Astray == [Turns EXCEPT !.faults = 0, !.odd = {u3}]

TurnsAndPair == {Turns, Pair, Astray}

\* Three requests one after the other, none of which meets a failure.
Calm == {[Turns EXCEPT !.faults = 0, !.site = {u1, u2}]}
=============================================================================
