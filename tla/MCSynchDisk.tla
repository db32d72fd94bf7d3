----------------------------- MODULE MCSynchDisk -----------------------------
(* Small instances of SynchDisk for TLC. *)
EXTENDS SynchDisk

CONSTANTS t1, t2
=============================================================================
