SPECIFICATION Spec
CONSTANTS
  Slugs <- ThreeSlugs
  Incubator = "incubator"
  Canonical = "canonical"
  Genomes <- SomeGenomes
  Pks = {"core", "knot", "a", "b", "face", "x", "y"}
  FreshPks = {"x", "y"}
  Guards = {"y"}
  Uploads <- Bundles
  Core <- TheCore
  Table <- Tables
  Hard <- ThePathway
  Loose <- ThePathway
  Factory <- TheFactory
  MaxRequests = 2
  MaxEvents = 3
  None = None
INVARIANTS
  InstalledIsThere
  BootLeavesSound
PROPERTIES
  ArchivesKept
  OthersUntouched
  ClonesApart
CHECK_DEADLOCK FALSE
