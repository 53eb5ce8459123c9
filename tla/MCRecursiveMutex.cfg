CONSTANTS
  t1 = t1
  t2 = t2
  t3 = t3
  Callers = {t1, t2, t3}
  NoThread = NoThread
  MaxDepth = 2
SPECIFICATION FairSpec
INVARIANTS
  MutexTypeOK
  MutualExclusion
  CountIsDepth
PROPERTIES
  NoLostUnlock
  ImplementsReentrantLock
