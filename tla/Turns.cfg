SPECIFICATION Spec
CONSTANTS
  None = None
  Sessions = {"s1", "s2"}
  Engrams = {"e1", "e2"}
  Titles = {"t1"}
  Facts = {"f1", "f2"}
  Tools <- AllTools
  FocusModifier <- Costs
  XpReward <- Rewards
  Settings <- TwoSettings
INVARIANTS
  CallsAnswered
  EvictionAnnounced
  EffectsOnRecord
  ScreenCurrent
  VectorOfText
  ToldIsKept
CHECK_DEADLOCK FALSE
