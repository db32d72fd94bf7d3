----------------------------- MODULE MCSemTable -----------------------------
(* Small instances of SemTable for TLC. *)
EXTENDS SemTable, TLC

CONSTANTS p1, p2, p3, scanners, passengers, long

\* long is a name of 40 characters that begins with the name scanners, which
\* is just as long as the limit.
MCLength == [n \in Name |-> IF n = long THEN 40 ELSE NameLimit]
MCPrefix == [n \in Name |-> IF n = long THEN scanners ELSE n]

Values == {-1, 0, 1, 2}
Symmetry == Permutations(Proc)
=============================================================================
