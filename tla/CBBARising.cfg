SPECIFICATION Spec
CONSTANTS
  Bidders = {1, 2}
  Tasks = {1, 2, 3, 4}
  Epsilon = 0
  Scenarios <- RisingScenarios
CHECK_DEADLOCK FALSE
INVARIANTS
  NeverFails
