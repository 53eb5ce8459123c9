CONSTANTS
  rootDir = rootDir
  authFile = authFile
  testFile = testFile
  otherFile = otherFile
  Root = rootDir
  SoftFiles = {rootDir, authFile, testFile}
  HardFiles = {rootDir, authFile, otherFile}
  HasApplet = TRUE
  Reliable = FALSE
  MaxNest = 3
SPECIFICATION Spec
INVARIANTS
  TypeOK
  VirtualInsidePhysical
  StaysSynced
  RestIsRouted
PROPERTIES
  OneSelectPerTransaction
  RefusedOnlyIfMissing
