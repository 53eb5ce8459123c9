CONSTANTS
  t1 = t1
  t2 = t2
  t3 = t3
  u1 = u1
  u2 = u2
  u3 = u3
  u4 = u4
  r1 = r1
  r2 = r2
  h1 = h1
  h2 = h2
  h3 = h3
  Threads = {t1, t2, t3}
  Users = {u1, u2, u3, u4}
  Readers = {r1, r2}
  Handles = {h1, h2, h3}
  NoReader = NoReader
  NoHandle = NoHandle
  NoThread = NoThread
SPECIFICATION Spec
INVARIANTS
  TypeOK
  HandlesUsable
  NoLeak
PROPERTY ImplementsHandleSharing
