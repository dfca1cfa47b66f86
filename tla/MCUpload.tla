------------------------------ MODULE MCUpload ------------------------------
EXTENDS Upload, TLC

\* Uploads of one content differ by their time only.
Symmetry == Permutations(Uploads)
=============================================================================
