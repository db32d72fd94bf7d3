----------------------------- MODULE MCFileTable -----------------------------
(* Small instances of FileTable for TLC. *)
EXTENDS FileTable

CONSTANTS a, b, x

\* Nothing, and one and two characters.
MCData == {<< >>, <<x>>, <<x, x>>}

\* A text with a character 0 in the middle.
MCPreexisting == {<<x, NUL, x>>}
=============================================================================
