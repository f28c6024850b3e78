--------------------------- MODULE MCCapturePipeline ---------------------------
(* A ring of three slots and eight records: it overflows before, while and   *)
(* after the writer takes a batch, and the batch size doubles up to its cap. *)
EXTENDS CapturePipeline
===============================================================================
