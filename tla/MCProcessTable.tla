--------------------------- MODULE MCProcessTable ---------------------------
(* Small instances of ProcessTable for TLC. *)
EXTENDS ProcessTable

CONSTANTS main, p1, p2, p3, progA, progB, noFile
=============================================================================
