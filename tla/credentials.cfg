SPECIFICATION Spec
CONSTANTS
  c1 = c1
  c2 = c2
  prod = prod
  other = other
  p1 = p1
  p2 = p2
  o1 = o1
  Cli = {c1, c2}
  Host = {prod, other}
  Production = prod
  Token = {p1, p2, o1}
  IssuedBy <- Issuers
  Runs <- Uses
  FromEnv = {o1}
  Life = 2
  None = None
SYMMETRY Alike
INVARIANTS
  TypeOK
  TokenStaysHome
  ExpiredUnseen
PROPERTIES
  LiveNotRemoved
