------------------------------- MODULE MCRWLock -------------------------------
(* Four threads, each free to read or to write: two readers may hold the     *)
(* lock while a reader and a writer, or two writers, wait.                   *)
EXTENDS RWLock

CONSTANTS t1, t2, t3, t4

MCThreads == {t1, t2, t3, t4}
===============================================================================
