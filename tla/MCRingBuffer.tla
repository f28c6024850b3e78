----------------------------- MODULE MCRingBuffer -----------------------------
(* A ring of three slots, five puts (so it wraps and overflows), one         *)
(* consumer that waits for ever and one that waits with a timeout.           *)
EXTENDS RingBuffer

CONSTANTS a, b, patient, timed

MCItems == {a, b}
MCConsumers == {patient, timed}
MCTimed == {timed}
MCBatchSizes == {1, 2}
===============================================================================
