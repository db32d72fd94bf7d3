----------------------------- MODULE MCThreads -----------------------------
(* Small instances of Threads for TLC. *)
EXTENDS Threads

CONSTANTS main, t1, t2, t3, mutex, done

\* A mutual exclusion semaphore and one a device signals.
MCInitialValue == [s \in Sem |-> IF s = mutex THEN 1 ELSE 0]
=============================================================================
