CONSTANTS
  t1 = t1
  t2 = t2
  t3 = t3
  t4 = t4
  Threads <- MCThreads

SPECIFICATION Spec

INVARIANTS
  TypeOK
  NoLostWakeup

PROPERTIES
  ImplementsPreferringLock
  WaitingWriterEnters
  ReaderEnters
