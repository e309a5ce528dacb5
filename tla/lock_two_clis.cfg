SPECIFICATION Spec
CONSTANTS
  c1 = c1
  c2 = c2
  CLI = {c1, c2}
  Commands <- TwoTerminals
  Workspace = {w1}
  Identity = {i1, i2}
  Session = {s1}
  MaxEpoch = 1
  MaxTime = 2
  Lifetime = 1
  None = None
SYMMETRY Symmetry
INVARIANTS
  TypeOK
  GrantGenuine
  HonestPin
  FactorsOnlyToAccepted
  ProofsAreWelcome
  RelockGivesUp
  LogoutForgets
PROPERTIES
  PinsChangeByComparison
