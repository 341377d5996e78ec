\* The planner stops where its call returns, so deadlock is not checked.
SPECIFICATION PlannerSpec
CONSTANTS
  u = u
  v = v
  g = g
  h = h
  r = r
  i = i
  j = j
  s = s
  NoTrip = NoTrip
  Unreachable = Unreachable
  NoRequest = NoRequest
  NoAgent = NoAgent
  NoCount = NoCount
  Nodes <- MCNodes
  Tasks <- MCTasks
  Preds <- MCPreds
  Eligible <- MCEligible
  Agents <- MCAgents
  Drones = {u, v}
  Rank <- MCRank
  Home <- MCHome
  Site <- MCSite
  Grounded = {i, j, s}
  Flight <- MCFlight
  Duration <- MCDuration
  MaxEpochs = 4
  Scenarios <- MCScenarios
CHECK_DEADLOCK FALSE
INVARIANTS
  RefusalJustified
