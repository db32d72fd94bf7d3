---------------------------- MODULE MCAddrSpace ----------------------------
(* Small instances of AddrSpace for TLC. *)
EXTENDS AddrSpace, TLC

CONSTANTS main, p1, p2, p3

\* Programs of two to three pages, without and with initialised data.
None == [p \in Proc |-> 0]
One == [p \in Proc |-> 1]
OneData == [p \in Proc |-> IF p = p2 THEN 1 ELSE 0]
OneOrTwo == [p \in Proc |-> IF p = p2 THEN 2 ELSE 1]
=============================================================================
