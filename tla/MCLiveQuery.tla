----------------------------- MODULE MCLiveQuery -----------------------------
(* Two columns read in chunks of two rows, a store of two rows that grows to  *)
(* seven by flushes of one or two.  The first two rows match, so an index     *)
(* query starts with several candidates and is not selective at first; the    *)
(* fifth matches as well, which indexes loaded beside a flush may know before *)
(* the other column and meta.json have it.                                    *)
EXTENDS LiveQuery

MCMatching == {1, 2, 5, 6}
===============================================================================
