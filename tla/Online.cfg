SPECIFICATION OnlineSpec
CONSTANTS
  u1 = u1
  g1 = g1
  g2 = g2
  r1 = r1
  i1 = i1
  s1 = s1
  NoTask = NoTask
  NoAgent = NoAgent
  None = None
  Tasks = {r1, i1, s1}
  Agents = {u1, g1, g2}
  Preds <- ScenePreds
  Eligible <- SceneEligible
  Durations = {1, 2}
  InitialGraphs <- SceneGraphs
  InitialTeams <- SceneTeams
  NextTeams <- AnyTeam
  Policies = {"SELECTIVE"}
  MaxRaises = 1
CHECK_DEADLOCK FALSE
INVARIANTS
  RuntimeAtRest
  NothingLeftToBid
  RehearsalDecides
PROPERTIES
  WorkIsKept
  ImplementsRun
  RunSettles
