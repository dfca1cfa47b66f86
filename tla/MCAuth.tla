------------------------------- MODULE MCAuth -------------------------------
EXTENDS Auth, TLC

\* Requests are told apart only by what they ask for.
Symmetry == Permutations(Requests)
=============================================================================
