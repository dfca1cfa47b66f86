------------------------------ MODULE Accounts ------------------------------
(***************************************************************************)
(* What users.json promises, whatever happens between its load and its     *)
(* replacement: the first administrator, the password and the recovery     *)
(* tokens change by one whole operation at a time, each of which finds the *)
(* store as the one before it left it, and what is synced survives a loss  *)
(* of power.  Auth.tla, where every operation loads a copy, changes it and *)
(* writes it back under authStoreMu, implements it.                        *)
(***************************************************************************)
CONSTANTS Names,      \* of operations: who registered, who set the password
          Passwords,
          None

VARIABLES store, disk

Empty == [admin |-> None, pw |-> None, by |-> None, issued |-> {}, used |-> {}]

Init == store = Empty /\ disk = Empty

\* createFirstAdmin, for a site without users.
Register(n) ==
  /\ store.admin = None
  /\ \E p \in Passwords : store' = [store EXCEPT !.admin = n, !.pw = p, !.by = n]

\* changePersistentPassword, by who knows the present one.
SetPassword(n) ==
  /\ store.pw # None
  /\ \E p \in Passwords : store' = [store EXCEPT !.pw = p, !.by = n]

\* createRecoveryToken, and verifyRecoveryToken, which takes it once.
IssueToken(n) == store' = [store EXCEPT !.issued = @ \cup {n}]

UseToken == \E t \in store.issued \ store.used : store' = [store EXCEPT !.used = @ \cup {t}]

Change == /\ UseToken \/ \E n \in Names : Register(n) \/ SetPassword(n) \/ IssueToken(n)
          /\ UNCHANGED disk

Sync == disk' = store /\ UNCHANGED store

PowerLoss == store' \in {store, disk} /\ disk' = store'

Next == Change \/ Sync \/ PowerLoss

Spec == Init /\ [][Next]_<<store, disk>>
=============================================================================
