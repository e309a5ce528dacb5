SPECIFICATION Spec
CONSTANTS
  c1 = c1
  c2 = c2
  CLI = {c1}
  Commands <- AnyCommand
  Workspace = {w1, w2}
  Identity = {i1, i2}
  Session = {s1, s2}
  MaxEpoch = 1
  MaxTime = 2
  Lifetime = 1
  None = None
SYMMETRY Symmetry
INVARIANTS
  SaysLockedIsLocked
