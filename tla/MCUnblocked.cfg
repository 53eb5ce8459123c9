CONSTANTS
  t1 = t1
  t2 = t2
  t3 = t3
  o1 = o1
  o2 = o2
  o3 = o3
  n1 = n1
  n2 = n2
  Threads = {t1, t2}
  Objects = {o1}
  Names = {n1}
  objectOf <- SharedCard
  nameOf <- OneName
  NoThread = NoThread
  MaxDepth = 1
SPECIFICATION FairSpec
PROPERTY Unblocked
CHECK_DEADLOCK FALSE
