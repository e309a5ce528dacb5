SPECIFICATION DistinctKeysSpec
CONSTANTS
  Cli = {c1, c2}
  Workspace = {w1, w2}
  Key = {k1, k2}
  MaxRuns = 3
  MaxRotations = 1
  MaxRemovals = 1
  MaxEdits = 1
  Set = Set
  Unwritten = Unwritten
  None = None
CHECK_DEADLOCK FALSE
SYMMETRY Alike
INVARIANTS
  TypeOK
  OneKeyTrusted
  ConfiguredStays
PROPERTIES
  UserTextKept
