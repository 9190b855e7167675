SPECIFICATION Spec
CONSTANTS
  Providers <- Three
  Vendor <- VendorOf
  Family <- FamilyOfModel
  Taxon <- TaxonOf
  Parent <- ParentOf
  Rank <- RankOf
  Callable <- Three
  Affordable <- Three
  Filters <- SomeFilters
  Stock = {"llama", "free"}
  Sessions = {"s1", "s2"}
  Syncs = {"y1", "y2"}
  MaxFailovers = 3
  Limits <- SomeLimits
  None = None
INVARIANTS
  FailedIsBenched
  SyncMirrors
CHECK_DEADLOCK FALSE
