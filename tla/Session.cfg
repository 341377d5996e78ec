SPECIFICATION Spec
CONSTANTS
  u = u
  g = g
  NoValue = NoValue
  Fleet <- PairFleet
  Able <- PairAble
  Zones = {1}
  Fires = {1}
  Steps = 2
  MaxIncidents = 2
  Faults = {"advance"}
CHECK_DEADLOCK FALSE
INVARIANTS
  RuntimeIsSession
  PhaseTable
  PendingResumable
PROPERTIES
  CommitmentsKept
