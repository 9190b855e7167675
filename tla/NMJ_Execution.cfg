SPECIFICATION FairSpec
CONSTANTS
  Kinds <- AllKinds
  MaxOps = 2
  None = None
PROPERTIES
  ImplementsCNS
  SignalEndsRun
