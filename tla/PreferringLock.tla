---------------------------- MODULE PreferringLock ----------------------------
(***************************************************************************)
(* What the writer-preferring lock of packetql/server.py promises, without  *)
(* counters, condition variable or sleeping: readers share it, a writer    *)
(* has it alone, and no reader enters while a writer waits, so the readers *)
(* that are in it only get fewer until a writer has had it.                *)
(***************************************************************************)

CONSTANT Threads

VARIABLES reading, writing,     \* the threads that hold the lock
          waiting               \* the writers that wait for it

vars == <<reading, writing, waiting>>

Init == reading = {} /\ writing = {} /\ waiting = {}

\* A thread asks for the lock while it has none and waits for none.
Outside(t) == t \notin reading \cup writing \cup waiting

Read(t) ==
  /\ Outside(t)
  /\ writing = {} /\ waiting = {}
  /\ reading' = reading \cup {t}
  /\ UNCHANGED <<writing, waiting>>

ReadDone(t) ==
  /\ t \in reading
  /\ reading' = reading \ {t}
  /\ UNCHANGED <<writing, waiting>>

\* Only who cannot have the lock waits.
Wait(t) ==
  /\ Outside(t)
  /\ reading \cup writing # {}
  /\ waiting' = waiting \cup {t}
  /\ UNCHANGED <<reading, writing>>

\* Of several writers any may be next, also one that has not waited.
Write(t) ==
  /\ Outside(t) \/ t \in waiting
  /\ reading = {} /\ writing = {}
  /\ writing' = {t}
  /\ waiting' = waiting \ {t}
  /\ UNCHANGED reading

WriteDone(t) ==
  /\ writing = {t}
  /\ writing' = {}
  /\ UNCHANGED <<reading, waiting>>

Next == \E t \in Threads : Read(t) \/ ReadDone(t) \/ Wait(t) \/ Write(t) \/ WriteDone(t)

Spec == Init /\ [][Next]_vars
===============================================================================
