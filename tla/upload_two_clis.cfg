SPECIFICATION Spec
CONSTANTS
  CLI = {c1, c2}
  Op = {o1, o2}
  a = a
  b = b
  Name = {a, b}
  Batches <- DistinctNames
  MaxPending = 1
  Protocols = {"relay", "channel"}
  LateErrors = TRUE
  LateArrival = TRUE
  ForeignPath = TRUE
  None = None
SYMMETRY Symmetry
INVARIANTS
  CapacityHolds
