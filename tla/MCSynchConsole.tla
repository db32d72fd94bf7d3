--------------------------- MODULE MCSynchConsole ---------------------------
(* Small instances of SynchConsole for TLC. *)
EXTENDS SynchConsole, TLC

CONSTANTS t1, t2, t3, a, b, nl, soh, xff

MCText == [t \in Thread |-> IF t = t1 THEN <<a, nl>> ELSE <<b>>]

\* A line, a character that looks like an empty buffer, the end of the stream.
MCTyped == <<a, b, nl, xff, a, soh>>
=============================================================================
