CONSTANTS
  d1 = d1
  d2 = d2
  Datasets = {d1, d2}
  Cases <- MCCases
  Existing <- MCExisting
  Loaded = d1
  Orders <- MCOrders
  AsOf = 2
  Filters <- MCFilters
  Facets <- MCFacets
  Pages = {2}
  PageSize = 1
  ExportSize = 1
  MaxCommits = 2
  MaxReruns = 2
SPECIFICATION Spec
CHECK_DEADLOCK FALSE
INVARIANTS
  CountsAgree
  RepliesAreOfOneDataset
  ExportIsComplete
  OwnUpdatesAreSeen
