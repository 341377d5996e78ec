SPECIFICATION Spec
CONSTANTS
  u = u
  g = g
  NoValue = NoValue
  Fleet <- PairFleet
  Able <- PairAble
  Zones = {1}
  Fires = {1}
  Steps = 2
  MaxIncidents = 2
  Faults = {}
CHECK_DEADLOCK FALSE
INVARIANTS
  TeamAgrees
