SPECIFICATION FairSpec
CONSTANTS
  CLI = {c1}
  Op = {o1, o2, o3}
  a = a
  b = b
  Name = {a, b}
  Batches <- DistinctNames
  MaxPending = 2
  Protocols = {"relay"}
  LateErrors = FALSE
  LateArrival = FALSE
  ForeignPath = TRUE
  None = None
INVARIANTS
  TypeOK
  Recoverable
PROPERTIES
  OnlyResolvedDeleted
  RecordedBeforeDispatch
  KeepsPromise
  CommandsEnd
