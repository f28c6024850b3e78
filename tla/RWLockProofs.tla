----------------------------- MODULE RWLockProofs -----------------------------
(***************************************************************************)
(* Type correctness (the counters agree with the threads), mutual          *)
(* exclusion and the absence of lost wakeups, for every finite set of      *)
(* threads.  The three together are inductive: exclusion needs the         *)
(* counters, which the wait loops test, to say where the threads are.      *)
(* With them every step is one of PreferringLock, or none.                 *)
(***************************************************************************)
EXTENDS RWLock, FiniteSetTheorems, TLAPS

Places == {"idle", "wantsRead", "reading", "wantsWrite", "writing"}

IInv == TypeOK /\ Exclusion /\ NoLostWakeup

\* A thread that moves from one place to another leaves the first group of
\* threads, joins the second, and the other groups stay as they are.
LEMMA Move ==
  ASSUME NEW t \in Threads, NEW p \in Places, NEW q \in Places, p # q,
         pc \in [Threads -> Places], pc[t] = p, Goto(t, q)
  PROVE  /\ pc' \in [Threads -> Places]
         /\ At(p)' = At(p) \ {t} /\ t \in At(p)
         /\ At(q)' = At(q) \cup {t} /\ t \notin At(q)
         /\ \A r \in Places \ {p, q} : At(r)' = At(r)
  BY DEF Goto, At, Places

\* The groups are finite, so the library's facts on cardinalities apply.
LEMMA AtFinite == ASSUME NEW p PROVE IsFiniteSet(At(p))
  BY ThreadsAssumption, FS_Subset DEF At

\* What joining and leaving a group does to its size, and when it is empty.
LEMMA Counting ==
  ASSUME NEW p
  PROVE  /\ Cardinality(At(p)) \in Nat
         /\ Cardinality(At(p)) = 0 <=> At(p) = {}
         /\ \A t : t \in At(p) => Cardinality(At(p) \ {t}) = Cardinality(At(p)) - 1
         /\ \A t : t \notin At(p) => Cardinality(At(p) \cup {t}) = Cardinality(At(p)) + 1
  BY AtFinite, FS_CardinalityType, FS_EmptySet, FS_AddElement, FS_RemoveElement

LEMMA InitIInv == Init => IInv
<1> SUFFICES ASSUME Init PROVE IInv
  OBVIOUS
<1>1. \A p \in Places \ {"idle"} : At(p) = {}
  BY DEF Init, At, Places
<1>2. Cardinality({}) = 0
  BY FS_EmptySet
<1>3. TypeOK
  BY <1>1, <1>2 DEF Init, TypeOK, Places
<1>4. Exclusion /\ NoLostWakeup
  BY <1>1 DEF Init, Exclusion, NoLostWakeup, Places
<1> QED
  BY <1>3, <1>4 DEF IInv

LEMMA StepIInv == IInv /\ [Next]_vars => IInv'
<1> SUFFICES ASSUME IInv, [Next]_vars PROVE IInv'
  OBVIOUS
<1> USE DEF IInv
<1>1. ASSUME NEW t \in Threads, NEW p \in {"idle", "wantsRead"}, pc[t] = p, t \notin sleeping,
             EnterRead(t)
      PROVE  IInv'
  <2>1. /\ pc' \in [Threads -> Places]
        /\ At(p)' = At(p) \ {t}
        /\ At("reading")' = At("reading") \cup {t} /\ t \notin At("reading")
        /\ At("wantsWrite")' = At("wantsWrite") /\ At("writing")' = At("writing")
        /\ p = "idle" => At("wantsRead")' = At("wantsRead")
    BY <1>1, Move DEF EnterRead, TypeOK, Places
  <2>2. TypeOK'
    BY <1>1, <2>1, Counting DEF EnterRead, TypeOK, Places
  <2>3. Exclusion'
    BY <1>1, <2>1 DEF EnterRead, TypeOK, Exclusion, ReaderBlocked
  <2>4. NoLostWakeup'
    BY <1>1, <2>1, Counting DEF EnterRead, TypeOK, NoLostWakeup, ReaderBlocked, WriterBlocked
  <2> QED
    BY <2>2, <2>3, <2>4
<1>2. ASSUME NEW t \in Threads, pc[t] = "idle", SleepRead(t)
      PROVE  IInv'
  <2>1. /\ pc' \in [Threads -> Places]
        /\ At("wantsRead")' = At("wantsRead") \cup {t}
        /\ At("reading")' = At("reading")
        /\ At("wantsWrite")' = At("wantsWrite") /\ At("writing")' = At("writing")
    BY <1>2, Move DEF SleepRead, TypeOK, Places
  <2>2. TypeOK'
    BY <1>2, <2>1 DEF SleepRead, TypeOK, Places
  <2>3. Exclusion' /\ NoLostWakeup'
    BY <1>2, <2>1 DEF SleepRead, Exclusion, NoLostWakeup, ReaderBlocked, WriterBlocked, At
  <2> QED
    BY <2>2, <2>3
<1>3. ASSUME NEW t \in Threads, pc[t] = "wantsRead", SleepRead(t)
      PROVE  IInv'
  <2>1. pc' = pc
    BY <1>3 DEF SleepRead, Goto, TypeOK
  <2>2. \A p : At(p)' = At(p)
    BY <2>1 DEF At
  <2>3. t \in At("wantsRead")
    BY <1>3 DEF At
  <2>4. TypeOK'
    BY <1>3, <2>1, <2>2, <2>3 DEF SleepRead, TypeOK
  <2>5. Exclusion' /\ NoLostWakeup'
    BY <1>3, <2>2, <2>3 DEF SleepRead, Exclusion, NoLostWakeup, ReaderBlocked, WriterBlocked, At
  <2> QED
    BY <2>4, <2>5
<1>4. ASSUME NEW t \in Threads, ReleaseRead(t)
      PROVE  IInv'
  <2>1. /\ pc' \in [Threads -> Places]
        /\ At("reading")' = At("reading") \ {t} /\ t \in At("reading")
        /\ At("wantsRead")' = At("wantsRead")
        /\ At("wantsWrite")' = At("wantsWrite") /\ At("writing")' = At("writing")
    BY <1>4, Move DEF ReleaseRead, TypeOK, Places
  <2>2. TypeOK'
    BY <1>4, <2>1, Counting DEF ReleaseRead, NotifyAll, TypeOK, Places
  <2>3. Exclusion'
    BY <1>4, <2>1 DEF ReleaseRead, Exclusion
  <2>4. NoLostWakeup'
    BY <1>4, <2>1, Counting
       DEF ReleaseRead, NotifyAll, TypeOK, NoLostWakeup, ReaderBlocked, WriterBlocked
  <2> QED
    BY <2>2, <2>3, <2>4
<1>5. ASSUME NEW t \in Threads, AcquireWrite(t), WriterBlocked
      PROVE  IInv'
  <2>1. /\ pc' \in [Threads -> Places]
        /\ At("wantsWrite")' = At("wantsWrite") \cup {t} /\ t \notin At("wantsWrite")
        /\ At("wantsRead")' = At("wantsRead")
        /\ At("reading")' = At("reading") /\ At("writing")' = At("writing")
    BY <1>5, Move DEF AcquireWrite, TypeOK, Places
  <2>2. TypeOK'
    BY <1>5, <2>1, Counting DEF AcquireWrite, TypeOK, Places
  <2>3. Exclusion'
    BY <1>5, <2>1 DEF AcquireWrite, Exclusion
  <2>4. NoLostWakeup'
    BY <1>5, <2>1, Counting
       DEF AcquireWrite, TypeOK, NoLostWakeup, ReaderBlocked, WriterBlocked
  <2> QED
    BY <2>2, <2>3, <2>4
<1>6. ASSUME NEW t \in Threads, ResumeWrite(t), WriterBlocked
      PROVE  IInv'
  <2>1. \A p : At(p)' = At(p)
    BY <1>6 DEF ResumeWrite, At
  <2>2. t \in At("wantsWrite")
    BY <1>6 DEF ResumeWrite, At
  <2>3. TypeOK'
    BY <1>6, <2>1, <2>2 DEF ResumeWrite, TypeOK
  <2>4. Exclusion' /\ NoLostWakeup'
    BY <1>6, <2>1, <2>2
       DEF ResumeWrite, Exclusion, NoLostWakeup, ReaderBlocked, WriterBlocked, At
  <2> QED
    BY <2>3, <2>4
<1>7. ASSUME NEW t \in Threads, AcquireWrite(t) \/ ResumeWrite(t), ~WriterBlocked
      PROVE  IInv'
  <2>1. /\ pc' \in [Threads -> Places]
        /\ At("writing")' = At("writing") \cup {t}
        /\ At("reading")' = At("reading") /\ At("wantsRead")' = At("wantsRead")
    BY <1>7, Move DEF AcquireWrite, ResumeWrite, TypeOK, Places
  <2>2. \/ AcquireWrite(t) /\ At("wantsWrite")' = At("wantsWrite")
        \/ /\ ResumeWrite(t)
           /\ At("wantsWrite")' = At("wantsWrite") \ {t} /\ t \in At("wantsWrite")
           /\ t \notin sleeping
    BY <1>7, Move DEF AcquireWrite, ResumeWrite, TypeOK, Places
  <2>3. At("reading") = {} /\ At("writing") = {}
    BY <1>7, Counting DEF WriterBlocked, TypeOK
  <2>4. writer' = TRUE /\ readers' = readers /\ sleeping' = sleeping
    BY <1>7 DEF AcquireWrite, ResumeWrite
  <2>5. writersWaiting' = Cardinality(At("wantsWrite")')
    BY <1>7, <2>2, Counting DEF AcquireWrite, ResumeWrite, UncountWaiter, TypeOK
  <2>6. TypeOK'
    BY <2>1, <2>2, <2>4, <2>5 DEF TypeOK, Places
  <2>7. Exclusion' /\ NoLostWakeup'
    BY <2>1, <2>3, <2>4 DEF Exclusion, NoLostWakeup, ReaderBlocked, WriterBlocked
  <2> QED
    BY <2>6, <2>7
<1>8. ASSUME NEW t \in Threads, ReleaseWrite(t)
      PROVE  IInv'
  <2>1. /\ pc' \in [Threads -> Places]
        /\ At("writing")' = At("writing") \ {t} /\ t \in At("writing")
        /\ At("reading")' = At("reading") /\ At("wantsWrite")' = At("wantsWrite")
    BY <1>8, Move DEF ReleaseWrite, TypeOK, Places
  <2>2. At("writing")' = {}
    BY <2>1 DEF Exclusion
  <2>3. TypeOK'
    BY <1>8, <2>1, <2>2 DEF ReleaseWrite, NotifyAll, TypeOK, Places
  <2>4. Exclusion' /\ NoLostWakeup'
    BY <1>8, <2>2 DEF ReleaseWrite, NotifyAll, Exclusion, NoLostWakeup
  <2> QED
    BY <2>3, <2>4
<1>9. CASE UNCHANGED vars
  BY <1>9 DEF vars, TypeOK, Exclusion, NoLostWakeup, ReaderBlocked, WriterBlocked, At
<1> QED
  <2>1. SUFFICES ASSUME NEW t \in Threads,
                        \/ AcquireRead(t) \/ ResumeRead(t) \/ ReleaseRead(t)
                        \/ AcquireWrite(t) \/ ResumeWrite(t) \/ ReleaseWrite(t)
                 PROVE  IInv'
    BY <1>9 DEF Next
  <2>2. CASE AcquireRead(t)
    <3>1. t \notin sleeping
      BY <2>2 DEF AcquireRead, TypeOK, At
    <3> QED
      BY <2>2, <3>1, <1>1, <1>2 DEF AcquireRead
  <2>3. CASE ResumeRead(t)
    BY <2>3, <1>1, <1>3 DEF ResumeRead
  <2> QED
    BY <2>1, <2>2, <2>3, <1>4, <1>5, <1>6, <1>7, <1>8

-------------------------------------------------------------------------------

\* The counters _readers, _writers_waiting and _writer always agree with where
\* the threads are, for every finite set of threads.
THEOREM TypeCorrectness == Spec => []TypeOK
<1>1. Init => IInv
  BY InitIInv
<1>2. IInv /\ [Next]_vars => IInv'
  BY StepIInv
<1>3. IInv => TypeOK
  BY DEF IInv
<1> QED
  BY <1>1, <1>2, <1>3, PTL DEF Spec

\* acquire_write and acquire_read never let a writer and anybody else hold the
\* lock together, for every finite set of threads.
THEOREM MutualExclusion == Spec => []Exclusion
<1>1. Init => IInv
  BY InitIInv
<1>2. IInv /\ [Next]_vars => IInv'
  BY StepIInv
<1>3. IInv => Exclusion
  BY DEF IInv
<1> QED
  BY <1>1, <1>2, <1>3, PTL DEF Spec

\* No thread sleeps in acquire_read or acquire_write once its reason to wait
\* is gone, for every finite set of threads.
THEOREM NoWakeupIsLost == Spec => []NoLostWakeup
<1>1. Init => IInv
  BY InitIInv
<1>2. IInv /\ [Next]_vars => IInv'
  BY StepIInv
<1>3. IInv => NoLostWakeup
  BY DEF IInv
<1> QED
  BY <1>1, <1>2, <1>3, PTL DEF Spec

-------------------------------------------------------------------------------
(* The lock that the class implements.                                       *)

LEMMA InitMaps == Init => PL!Init
<1>1. Init => At("reading") = {} /\ At("writing") = {} /\ At("wantsWrite") = {}
  BY DEF Init, At
<1> QED
  BY <1>1 DEF PL!Init

\* What the tests of the wait loops say of the threads.
LEMMA TestsMean ==
  ASSUME TypeOK
  PROVE  /\ ReaderBlocked <=> At("writing") # {} \/ At("wantsWrite") # {}
         /\ WriterBlocked <=> At("writing") # {} \/ At("reading") # {}
<1>1. /\ Cardinality(At("reading")) \in Nat /\ (Cardinality(At("reading")) = 0 <=> At("reading") = {})
      /\ Cardinality(At("wantsWrite")) \in Nat
      /\ Cardinality(At("wantsWrite")) = 0 <=> At("wantsWrite") = {}
  BY Counting
<1> QED
  BY <1>1 DEF TypeOK, ReaderBlocked, WriterBlocked

\* Only the places that hold the lock or wait to write are seen; falling asleep and
\* waking are not.
LEMMA StepMaps ==
  ASSUME IInv, [Next]_vars
  PROVE  [PL!Next]_(PL!vars)
<1> USE DEF IInv
<1>1. ASSUME NEW t \in Threads, NEW p \in {"idle", "wantsRead"}, pc[t] = p, EnterRead(t)
      PROVE  PL!Read(t)
  <2>1. /\ At("reading")' = At("reading") \cup {t} /\ t \notin At("reading")
        /\ At("wantsWrite")' = At("wantsWrite") /\ At("writing")' = At("writing")
    BY <1>1, Move DEF EnterRead, TypeOK, Places
  <2>2. t \notin At("wantsWrite") /\ t \notin At("writing")
    BY <1>1 DEF At
  <2>3. At("writing") = {} /\ At("wantsWrite") = {}
    BY <1>1, TestsMean DEF EnterRead
  <2> QED
    BY <2>1, <2>2, <2>3 DEF PL!Read, PL!Outside
<1>2. ASSUME NEW t \in Threads, pc[t] \in {"idle", "wantsRead"}, SleepRead(t)
      PROVE  UNCHANGED PL!vars
  <2>1. \A p \in {"reading", "writing", "wantsWrite"} : At(p)' = At(p)
    BY <1>2 DEF SleepRead, Goto, TypeOK, At
  <2> QED
    BY <2>1 DEF PL!vars
<1>3. ASSUME NEW t \in Threads, ReleaseRead(t)
      PROVE  PL!ReadDone(t)
  <2>1. /\ At("reading")' = At("reading") \ {t} /\ t \in At("reading")
        /\ At("wantsWrite")' = At("wantsWrite") /\ At("writing")' = At("writing")
    BY <1>3, Move DEF ReleaseRead, TypeOK, Places
  <2> QED
    BY <2>1 DEF PL!ReadDone
<1>4. ASSUME NEW t \in Threads, AcquireWrite(t), WriterBlocked
      PROVE  PL!Wait(t)
  <2>1. /\ At("wantsWrite")' = At("wantsWrite") \cup {t} /\ t \notin At("wantsWrite")
        /\ At("reading")' = At("reading") /\ At("writing")' = At("writing")
    BY <1>4, Move DEF AcquireWrite, TypeOK, Places
  <2>2. t \notin At("reading") /\ t \notin At("writing")
    BY <1>4 DEF AcquireWrite, At
  <2>3. At("reading") \cup At("writing") # {}
    BY <1>4, TestsMean
  <2> QED
    BY <2>1, <2>2, <2>3 DEF PL!Wait, PL!Outside
<1>5. ASSUME NEW t \in Threads, ResumeWrite(t), WriterBlocked
      PROVE  UNCHANGED PL!vars
  BY <1>5 DEF ResumeWrite, PL!vars, At
<1>6. ASSUME NEW t \in Threads, AcquireWrite(t) \/ ResumeWrite(t), ~WriterBlocked
      PROVE  PL!Write(t)
  <2>1. At("reading") = {} /\ At("writing") = {}
    BY <1>6, TestsMean
  <2>2. /\ At("writing")' = At("writing") \cup {t} /\ At("reading")' = At("reading")
        /\ \/ t \notin At("wantsWrite") /\ At("wantsWrite")' = At("wantsWrite")
           \/ t \in At("wantsWrite") /\ At("wantsWrite")' = At("wantsWrite") \ {t}
    BY <1>6, Move DEF AcquireWrite, ResumeWrite, TypeOK, Places, At
  <2>3. At("writing")' = {t} /\ At("wantsWrite")' = At("wantsWrite") \ {t}
    BY <2>1, <2>2
  <2> QED
    BY <2>1, <2>2, <2>3 DEF PL!Write, PL!Outside
<1>7. ASSUME NEW t \in Threads, ReleaseWrite(t)
      PROVE  PL!WriteDone(t)
  <2>1. /\ At("writing")' = At("writing") \ {t} /\ t \in At("writing")
        /\ At("reading")' = At("reading") /\ At("wantsWrite")' = At("wantsWrite")
    BY <1>7, Move DEF ReleaseWrite, TypeOK, Places
  <2>2. At("writing") = {t}
    BY <2>1 DEF Exclusion
  <2> QED
    BY <2>1, <2>2 DEF PL!WriteDone
<1>8. CASE UNCHANGED vars
  BY <1>8 DEF vars, PL!vars, At
<1> QED
  <2>1. SUFFICES ASSUME NEW t \in Threads,
                        \/ AcquireRead(t) \/ ResumeRead(t) \/ ReleaseRead(t)
                        \/ AcquireWrite(t) \/ ResumeWrite(t) \/ ReleaseWrite(t)
                 PROVE  [PL!Next]_(PL!vars)
    BY <1>8 DEF Next
  <2>2. PL!Read(t) \/ PL!ReadDone(t) \/ PL!Wait(t) \/ PL!Write(t) \/ PL!WriteDone(t)
        \/ UNCHANGED PL!vars
    BY <2>1, <1>1, <1>2, <1>3, <1>4, <1>5, <1>6, <1>7 DEF AcquireRead, ResumeRead
  <2> QED
    BY <2>2 DEF PL!Next

\* RWLock is a lock that prefers writers, for every finite set of threads: the
\* counters and wait loops let in whom the abstract lock lets in, and no one else.
THEOREM Implementation == Spec => ImplementsPreferringLock
<1>1. Init => IInv
  BY InitIInv
<1>2. IInv /\ [Next]_vars => IInv'
  BY StepIInv
<1>3. IInv /\ [Next]_vars => [PL!Next]_(PL!vars)
  BY StepMaps
<1>4. Init => PL!Init
  BY InitMaps
<1> QED
  BY <1>1, <1>2, <1>3, <1>4, PTL DEF Spec, ImplementsPreferringLock, PL!Spec
===============================================================================
