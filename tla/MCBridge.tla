------------------------------- MODULE MCBridge -------------------------------
(* The program's own numbers; the store grows by two rows at most, so an      *)
(* answer can be older than the request it is taken for.                      *)
EXTENDS Bridge
===============================================================================
