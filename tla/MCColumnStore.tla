----------------------------- MODULE MCColumnStore -----------------------------
(* Two columns, batches of two rows and four rows in all: two batches, so a  *)
(* crash in the second meets a first that is complete; two crashes, so that  *)
(* a writer restarts on what a crash has left and crashes again.             *)
EXTENDS ColumnStore
===============================================================================
