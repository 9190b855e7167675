SPECIFICATION FairSpec
CONSTANTS
  MaxMessages = 2
  MaxTurns = 2
  MaxLoops = 2
  Ops = {"clear", "pause", "stop", "rerun", "crash"}
  MaxOps = 1
INVARIANTS
  TurnBudget
  NothingLeftBehind
PROPERTIES
  KeepsConversation
  LoopsEnd
