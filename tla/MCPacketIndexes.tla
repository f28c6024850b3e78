--------------------------- MODULE MCPacketIndexes ---------------------------
(* Two processes; one column has a trie and one a bitmap.  A store has at most *)
(* one row and is rebuilt once, so it may have as many rows as before.         *)
EXTENDS PacketIndexes, TLC

Swap == Permutations(Processes)
===============================================================================
