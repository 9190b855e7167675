SPECIFICATION PolledSpec
CONSTANTS
  begin = begin  work = work  repair = repair  last = last  box = box
  inner = inner  outerPath = outerPath  innerPath = innerPath
  worker1 = worker1  worker2 = worker2  agent1 = agent1  agent2 = agent2
  None = None
  Neurons <- AllNeurons
  Pathways <- AllPathways
  PathwayOf <- OnlyInner
  Roots <- Begins
  Axons <- ForkAxons
  Invokes <- BoxInvokes
  Mode <- AgentModes
  Agents <- OneAgent
  Pinned <- PinnedInner
  MainPathway = outerPath
  Workers <- OneWorker
  MaxSpikes = 4
  Ops = {"stop", "poll", "crash"}
  OpTrains = {0}
  MaxOps = 1
  MaxChecks = 1
PROPERTIES
  StopSettles
  PollFreesTrain
