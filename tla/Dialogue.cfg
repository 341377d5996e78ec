\* A replay stops where the recorded conversation stops.
SPECIFICATION DialogueSpec
CONSTANTS
  here = here
  Nonsense = Nonsense
  Deictic = Deictic
  Invalid = Invalid
  None = None
  Utterances = {here}
  Intents <- MCIntents
  Modes = {"live", "mock"}
  InScene = 2
  MaxIncidents = 3
  Steps = 2
  MaxTurns = 3
  MaxFaulty = 1
  Window = 2
CHECK_DEADLOCK FALSE
INVARIANTS
  ReplayExact
  CacheWhole
  CallsInOrder
  WindowHolds
PROPERTIES
  TurnEnds
