SPECIFICATION Spec
CONSTANTS
  begin = begin  work = work  repair = repair  last = last  box = box
  inner = inner  outerPath = outerPath  innerPath = innerPath
  worker1 = worker1  worker2 = worker2  agent1 = agent1  agent2 = agent2
  None = None
  Neurons <- AllNeurons
  Pathways <- AllPathways
  PathwayOf <- OnlyInner
  Roots <- Begins
  Axons <- BoxAxons
  Invokes <- BoxInvokes
  Mode <- AgentModes
  Agents <- BothAgents
  Pinned <- PinnedInner
  MainPathway = outerPath
  Workers <- TwoWorkers
  MaxSpikes = 5
  Ops = {"terminate", "stop", "crash", "vanish", "rerun", "race"}
  OpTrains = {0, 1, 2, 3, 4}
  MaxOps = 1
  MaxChecks = 0
INVARIANTS
  DispatchesApart
  FollowedOnce
