SPECIFICATION Spec
CONSTANTS
  ia = ia
  sa = sa
  ib = ib
  x = x
  r = r
  c = c
  g = g
  h = h
  A = A
  B = B
  C = C
  X = X
  NoIncident = NoIncident
  NoAgent = NoAgent
  Malformed = Malformed
  BadType = BadType
  Keys <- MCKeys
  Required <- MCRequired
  Known = {ia, sa, ib, r, c}
  Feasible = {ia, sa, ib, x, c}
  Reachable = {ia, sa, ib, x, r}
  Incident <- MCIncident
  Agents = {g, h}
  Candidates <- MCCandidates
  Patches <- MCPatches
CHECK_DEADLOCK FALSE
INVARIANTS
  CommittedIsValid
  OrderSurvives
  ValidationDecides
PROPERTIES
  ExistingKept
