---------------------------- MODULE MCPostOffice ----------------------------
(* Small instances of PostOffice for TLC. *)
EXTENDS PostOffice

CONSTANTS n1, n2, c1, c2

\* Both clients are on the first machine; the second only gets mail.
MCHome == [c \in Client |-> n1]
=============================================================================
