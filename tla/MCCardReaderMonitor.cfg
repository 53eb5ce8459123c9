CONSTANTS
  Readers = {r1, r2}
  NoReader = NoReader
  Plugged = {r1, r2}
  Monitors = {m1, m2}
  Unblockers = {u1, u2}
  NoThread = NoThread
  MaxEvents = 3
SPECIFICATION Spec
CHECK_DEADLOCK FALSE
INVARIANTS TypeOK MenuTrue UnblockAlone
PROPERTY UnblockEnds
