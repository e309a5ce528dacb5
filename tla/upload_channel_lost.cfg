SPECIFICATION Spec
CONSTANTS
  CLI = {c1}
  Op = {o1, o2}
  a = a
  b = b
  Name = {a, b}
  Batches <- DistinctNames
  MaxPending = 2
  Protocols = {"channel"}
  LateErrors = FALSE
  LateArrival = FALSE
  ForeignPath = FALSE
  None = None
INVARIANTS
  Recoverable
