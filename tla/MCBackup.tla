------------------------------ MODULE MCBackup ------------------------------
(* Two pages in the root, and a directory that comes and goes.               *)
EXTENDS Backup, TLC

InDirectory(d) == [f \in Files |-> IF f \in {"deep", "deeper"} THEN d ELSE Root]
DirectoryOf == InDirectory("dir")
AnyFault == Steps

Symmetry == Permutations(Names) \cup Permutations(Makers)
=============================================================================
