-------------------------------- MODULE RWLock --------------------------------
(***************************************************************************)
(* The writer-preferring readers-writer lock of packetql/server.py, over   *)
(* any number of threads.  Method bodies run under the condition's lock;   *)
(* a thread that has to wait leaves it, so each acquire is split there.    *)
(* threading.Condition is modelled from its use: `sleeping' is the set of  *)
(* threads in wait(), and notify_all empties it.  A thread that finds its  *)
(* condition still false goes back to sleep.                               *)
(***************************************************************************)
EXTENDS Integers, FiniteSets

CONSTANT Threads
ASSUME ThreadsAssumption == IsFiniteSet(Threads)

VARIABLES
  readers,            \* _readers
  writer,             \* _writer
  writersWaiting,     \* _writers_waiting
  sleeping,           \* the threads asleep in _cond.wait()
  pc                  \* what each thread is doing with the lock

vars == <<readers, writer, writersWaiting, sleeping, pc>>

Init ==
  /\ readers = 0
  /\ writer = FALSE
  /\ writersWaiting = 0
  /\ sleeping = {}
  /\ pc = [t \in Threads |-> "idle"]

At(place) == {t \in Threads : pc[t] = place}
Goto(t, place) == pc' = [pc EXCEPT ![t] = place]

\* The tests of the two wait loops.  (Faulty variants: a reader that ignores
\* the writer in the lock, or the writers waiting for it.)
ReaderBlockedByQueueOnly == writersWaiting > 0
ReaderBlockedByWriterOnly == writer
ReaderBlocked == writer \/ writersWaiting > 0
WriterBlocked == writer \/ readers > 0

\* (Faulty variant: a notify that is forgotten.)
KeepAsleep(S) == S
NotifyAll(S) == {}

EnterRead(t) ==
  /\ ~ReaderBlocked
  /\ readers' = readers + 1
  /\ Goto(t, "reading")
  /\ UNCHANGED <<writer, writersWaiting, sleeping>>

SleepRead(t) ==
  /\ ReaderBlocked
  /\ sleeping' = sleeping \cup {t}
  /\ Goto(t, "wantsRead")
  /\ UNCHANGED <<readers, writer, writersWaiting>>

AcquireRead(t) == pc[t] = "idle" /\ (EnterRead(t) \/ SleepRead(t))

ResumeRead(t) ==
  /\ pc[t] = "wantsRead"
  /\ t \notin sleeping
  /\ EnterRead(t) \/ SleepRead(t)

\* The last reader out wakes everybody.
ReleaseRead(t) ==
  /\ pc[t] = "reading"
  /\ readers' = readers - 1
  /\ sleeping' = IF readers = 1 THEN NotifyAll(sleeping) ELSE sleeping
  /\ Goto(t, "idle")
  /\ UNCHANGED <<writer, writersWaiting>>

\* A writer is counted as waiting from its call until it holds the lock, so it
\* keeps new readers out while it waits for the present ones.
AcquireWrite(t) ==
  /\ pc[t] = "idle"
  /\ IF WriterBlocked
     THEN /\ writersWaiting' = writersWaiting + 1
          /\ sleeping' = sleeping \cup {t}
          /\ Goto(t, "wantsWrite")
          /\ UNCHANGED writer
     ELSE /\ writer' = TRUE
          /\ Goto(t, "writing")
          /\ UNCHANGED <<writersWaiting, sleeping>>
  /\ UNCHANGED readers

\* (Faulty variant of UncountWaiter: the waiting writer is never uncounted.)
StillCounted == writersWaiting
UncountWaiter == writersWaiting - 1

ResumeWrite(t) ==
  /\ pc[t] = "wantsWrite"
  /\ t \notin sleeping
  /\ IF WriterBlocked
     THEN /\ sleeping' = sleeping \cup {t}
          /\ UNCHANGED <<writer, writersWaiting, pc>>
     ELSE /\ writersWaiting' = UncountWaiter
          /\ writer' = TRUE
          /\ Goto(t, "writing")
          /\ UNCHANGED sleeping
  /\ UNCHANGED readers

ReleaseWrite(t) ==
  /\ pc[t] = "writing"
  /\ writer' = FALSE
  /\ sleeping' = NotifyAll(sleeping)
  /\ Goto(t, "idle")
  /\ UNCHANGED <<readers, writersWaiting>>

Next ==
  \E t \in Threads :
    \/ AcquireRead(t)
    \/ ResumeRead(t)
    \/ ReleaseRead(t)
    \/ AcquireWrite(t)
    \/ ResumeWrite(t)
    \/ ReleaseWrite(t)

\* Critical sections end (read_locked and write_locked release in a finally)
\* and a woken thread gets the condition's lock; nobody has to call.
Fairness ==
  \A t \in Threads :
    /\ WF_vars(ResumeRead(t)) /\ WF_vars(ReleaseRead(t))
    /\ WF_vars(ResumeWrite(t)) /\ WF_vars(ReleaseWrite(t))

Spec == Init /\ [][Next]_vars /\ Fairness

-------------------------------------------------------------------------------

\* Types, and the three counters agree with where the threads are: no exit
\* path of an acquire or a release leaves a count behind.
TypeOK ==
  /\ pc \in [Threads -> {"idle", "wantsRead", "reading", "wantsWrite", "writing"}]
  /\ sleeping \subseteq At("wantsRead") \cup At("wantsWrite")
  /\ readers = Cardinality(At("reading"))
  /\ writersWaiting = Cardinality(At("wantsWrite"))
  /\ writer \in BOOLEAN
  /\ writer <=> At("writing") # {}

\* A writer in the lock is alone in it: no reader, no second writer.
Exclusion ==
  \A t \in At("writing") : At("reading") = {} /\ At("writing") = {t}

\* The class implements a lock that prefers writers (server.py:136, :149): readers
\* and a writer do not interleave (:14-16), a reader that wakes or comes between two
\* writers does not slip in ahead of one that waits, and a writer waits only for a
\* lock that is taken, however the wait loops, the counters and notify_all do it.
PL == INSTANCE PreferringLock
        WITH reading <- At("reading"), writing <- At("writing"), waiting <- At("wantsWrite")
ImplementsPreferringLock == PL!Spec

\* A sleeping thread still has a reason to sleep, so whoever removes the last
\* reason has woken it: no wakeup is lost between the release that lets
\* readers in and the one that lets a writer in, which share one condition.
NoLostWakeup ==
  /\ \A t \in sleeping \cap At("wantsRead") : ReaderBlocked
  /\ \A t \in sleeping \cap At("wantsWrite") : WriterBlocked

\* Writer preference: while a writer waits the lock's readers only drain, so that
\* writer gets the lock however many readers keep coming (server.py:136, 149).  It
\* is promised that against readers only: a writer that has just left may call
\* again and take the lock before the one that its release has woken.
WaitingWriterEnters ==
  \A t \in Threads :
    <>[](At("wantsWrite") \cup At("writing") \subseteq {t})
      => (pc[t] = "wantsWrite" ~> pc[t] = "writing")

\* A waiting reader gets in once no more writers are waiting or writing for
\* good; a stream of writers may starve it.
ReaderEnters ==
  \A t \in Threads :
    <>[](At("wantsWrite") \cup At("writing") = {}) => (pc[t] = "wantsRead" ~> pc[t] = "reading")
===============================================================================
