CONSTANTS
  l1 = l1
  l2 = l2
  i1 = i1
  i2 = i2
  x = x
  y = y
  none = none
  NoSource = none
  NoManifest = none
  SourceIds = {i1, i2}
  Names = {x, y}
  Times = {1, 2}
  Manifests <- AllManifests
  Loaders = {l1, l2}
  Bundles <- AllBundles
  Projections <- Promoted
  MaxLoads = 2
SPECIFICATION Spec
SYMMETRY Symmetric
INVARIANTS
  TypeOK
  ValidationIsExact
  ParentsComeFirst
  VersionsAreWhole
PROPERTIES
  ReloadChangesNothing
  SummariesAreTrue
