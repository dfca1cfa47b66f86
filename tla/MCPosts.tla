------------------------------ MODULE MCPosts ------------------------------
(* Two writers of one process, on one page or on two, and one of another; or *)
(* three writers of one process on one page.                                *)
EXTENDS Posts

CONSTANTS a, b, x,
          l1, l2, l3

MCClients == {a, b, x}
MCKeys == {<<"here", "p">>, <<"here", "q">>, <<"there", "p">>}
MCProcessOf == [k \in MCKeys |-> k[1]]
MCPageOf == [k \in MCKeys |-> k[2]]
MCLocks == {l1, l2, l3}
MCHeap == [p \in {"here", "there"} |-> IF p = "here" THEN {l1, l2} ELSE {l3}]
Asking(pa, pb, where) == [c \in MCClients |-> CASE c = a -> <<"here", pa>>
                                                [] c = b -> <<"here", pb>>
                                                [] c = x -> <<where, "p">>]
MCAskings == {Asking("p", "p", "there"), Asking("p", "q", "there"), Asking("p", "p", "here")}
=============================================================================
