SPECIFICATION FairSpec
CONSTANTS
  begin = begin  work = work  repair = repair  last = last  box = box
  inner = inner  outerPath = outerPath  innerPath = innerPath
  worker1 = worker1  worker2 = worker2  agent1 = agent1  agent2 = agent2
  None = None
  Neurons <- AllNeurons
  Pathways <- AllPathways
  PathwayOf <- InnerAndLast
  Roots <- Begins
  Axons <- NestedAxons
  Invokes <- BoxInvokes
  Mode <- AllLocal
  Agents = {}
  Pinned <- NoPins
  MainPathway = outerPath
  Workers <- TwoWorkers
  MaxSpikes = 6
  Ops = {"terminate"}
  OpTrains = {0, 1, 2, 3}
  MaxOps = 2
  MaxChecks = 0
INVARIANTS
  RootsOnce
  WiresMatchStatus
  NoLostWakeUp
  DelegationInStep
PROPERTIES
  TraversalCompletes
