CONSTANTS
  rootDir = rootDir
  authFile = authFile
  testFile = testFile
  otherFile = otherFile
  Root = rootDir
  SoftFiles = {rootDir, authFile}
  HardFiles = {rootDir, authFile, otherFile}
  HasApplet = TRUE
  Reliable = TRUE
  MaxNest = 3
SPECIFICATION Spec
PROPERTY WithinTransactionSynced
