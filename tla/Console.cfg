SPECIFICATION ConsoleSpec
CONSTANTS
  u = u
  g = g
  NoValue = NoValue
  Fleet <- PairFleet
  Able <- PairAble
  Zones = {1}
  Fires = {1}
  Steps = 1
  MaxIncidents = 2
  MaxQueue = 1
  MaxSubmits = 1
  Faults = {"advance", "transaction"}
CHECK_DEADLOCK FALSE
INVARIANTS
  FiresOnce
  RunIsPaused
PROPERTIES
  SegmentIsFrozen
  FireServed
