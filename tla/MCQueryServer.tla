---------------------------- MODULE MCQueryServer ----------------------------
(* Three clients and two workers, so that both workers can be busy while      *)
(* somebody waits to put.  The safety run has a queue of one and two          *)
(* requests; the liveness run has a queue of two, where a connection waits    *)
(* beside a sentinel and stop waits behind both, and clients that only        *)
(* connect and hang up.                                                       *)
EXTENDS QueryServer, TLC

\* Neither clients nor workers are told apart (for the safety run only).
ClientsAndWorkers == Permutations(Clients) \cup Permutations(Workers)
===============================================================================
