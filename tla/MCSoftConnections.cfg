CONSTANTS
  t1 = t1
  t2 = t2
  u1 = u1
  u2 = u2
  r1 = r1
  r2 = r2
  Threads = {t1, t2}
  Users = {u1, u2}
  Readers = {r1, r2}
  Handles = {1, 2}
  NoReader = NoReader
  NoHandle = NoHandle
  NoThread = NoThread
  NoUser = NoUser
  OFFSET = 10
  MaxCards = 2
SYMMETRY Symmetric
SPECIFICATION Spec
INVARIANTS
  TypeOK
  ObjectsKept
  OneCardPerUser
  RightCard
PROPERTY ImplementsCardThreadPool
