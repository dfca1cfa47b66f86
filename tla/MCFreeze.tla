------------------------------ MODULE MCFreeze ------------------------------
(* Instances of Freeze: a home page, and a page that an edit may create.     *)
EXTENDS Freeze

CONSTANT p1

NoFaults == {}
\* What was retired can be put back.
PutsBack == Steps \ {"putBack"}
=============================================================================
