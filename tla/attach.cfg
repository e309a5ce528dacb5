SPECIFICATION FairSpec
CONSTANTS
  Good <- GoodSizes
  Bad <- BadSizes
  MaxEvents = 4
CHECK_DEADLOCK FALSE
INVARIANTS
  TypeOK
  KeysArrive
  RawRestored
  NothingLeftOpen
  LastWordsShown
  SizeFollows
PROPERTIES
  SignalEnds
