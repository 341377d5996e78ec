SPECIFICATION Spec
CONSTANTS
  u1 = u1
  g1 = g1
  g2 = g2
  r1 = r1
  i1 = i1
  s1 = s1
  i2 = i2
  s2 = s2
  NoTask = NoTask
  NoAgent = NoAgent
  Tasks <- GroundTasks
  Agents <- GroundAgents
  Preds <- ScenePreds
  Eligible <- SceneEligible
  Durations = {1, 2}
  InitialGraphs <- GroundGraphs
  InitialTeams <- GroundTeams
  NextTeams <- AnyTeam
  Policies = {"SELECTIVE", "FULL_RESET", "NO_RESET"}
CHECK_DEADLOCK FALSE
INVARIANTS
  HoldersAgree
  ClocksAgree
  DepartsAfterPreds
  DeadlockJustified
PROPERTIES
  RunningIsKept
  SelectiveKeeps
  ImplementsLifecycle
