SPECIFICATION FairSpec
CONSTANTS
  Bidders = {1, 2, 3}
  Tasks = {1, 2, 3}
  Epsilon = 1
  Scenarios <- EpochScenarios
CHECK_DEADLOCK FALSE
INVARIANTS
  ConflictFree
  AwardsComplete
  HeldLocked
  MatchesGreedy
PROPERTIES
  Converges
