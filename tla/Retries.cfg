SPECIFICATION LogicSpec
CONSTANTS
  begin = begin  work = work  repair = repair  last = last  box = box
  inner = inner  outerPath = outerPath  innerPath = innerPath
  worker1 = worker1  worker2 = worker2  agent1 = agent1  agent2 = agent2
  None = None
  Neurons <- AllNeurons
  Pathways <- AllPathways
  PathwayOf <- OnlyInner
  Roots <- Begins
  Axons <- LoopAxons
  Invokes <- BoxInvokes
  Mode <- AllLocal
  Agents = {}
  Pinned <- NoPins
  MainPathway = outerPath
  Workers <- TwoWorkers
  MaxSpikes = 10
  Ops = {"terminate", "stop", "crash", "rerun"}
  OpTrains = {0, 4, 7}
  MaxOps = 2
  MaxChecks = 0
  Logic <- LoopLogic
  Prints <- BeginPrints
  Given <- BoxGives
  Fluid <- NoFluid
  Values = {3}
INVARIANTS
  RetriesCounted
CHECK_DEADLOCK FALSE
