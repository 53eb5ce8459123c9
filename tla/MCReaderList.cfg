CONSTANTS
  Threads = {t1, t2}
  Readers = {1, 2}
  NameLength <- MCNameLength
  PrefixLetters = {2}
  PrefixLength = 9
  Arrays <- MCArrays
  MaxStatusCalls = 1
  NULL = NULL
SYMMETRY Symmetry
SPECIFICATION Spec
INVARIANTS TypeOK ListFits ListOrdered StatusReported
