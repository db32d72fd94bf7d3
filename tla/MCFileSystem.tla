---------------------------- MODULE MCFileSystem ----------------------------
(* Small instances of FileSystem for TLC. *)
EXTENDS FileSystem, TLC

CONSTANTS f, g, h, x, y

Symmetry == Permutations(Name) \cup Permutations(Byte)

\* The result of the last call is looked at when it is returned, never later.
View == <<disk, freeMap, table, file, lost>>
=============================================================================
