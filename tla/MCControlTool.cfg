CONSTANTS
  Savers = {s1, s2}
  Loader = loader
  Exiter = exiter
  Visibility = {"HIDE_REAL", "REAL_LAST"}
  Chips = {c1}
  Files = {f1}
  NoFile = NoFile
  Missing = Missing
  Empty = Empty
  Part = Part
  Nothing = Nothing
  Given <- MCGiven
  MaxEvents = 4
SPECIFICATION Spec
SYMMETRY Symmetry
CHECK_DEADLOCK FALSE
INVARIANTS TypeOK EditsKept
PROPERTY ImplementsAtomicSave
