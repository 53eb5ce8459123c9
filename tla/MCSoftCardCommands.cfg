CONSTANTS
  root = root
  df00 = df00
  df01 = df01
  ef2f00 = ef2f00
  ef5031 = ef5031
  chip = chip
  FIDs = {root, df00, df01, ef2f00, ef5031}
  DirIds = {root, df00, df01}
  ROOT_ID = root
  BELPIC_DIR_ID = df00
  Cards <- MCCards
  HardChip <- MCHardChip
  Paths <- MCPaths
  AidLens = {4, 12, 15}
  LeBytes = {0, 1, 16, 28, 37}
  Offsets = {0, 37, 44, 299}
  Rooms = {1, 16, 17, 258}
SPECIFICATION Spec
INVARIANTS
  TypeOK
  AnswerFits
  RestIsAnnounced
  RetryIsAnswered
  SearchIsDepthFirst
