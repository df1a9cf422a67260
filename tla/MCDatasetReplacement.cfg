CONSTANTS
  p1 = p1
  p2 = p2
  r1 = r1
  a = a
  b = b
  c = c
  legacy = legacy
  x = x
  y = y
  none = none
  Procs = {p1, p2}
  Readers = {r1}
  Ids <- MCIds
  Keys <- MCKeys
  Contents <- MCContents
  LegacyId = 1
  LegacyIdentity <- MCLegacyIdentity
  NoIdentity = none
  Requests <- LoadAndOperate
  ClockOffset <- SteadyClocks
  MaxRequests = 4
SPECIFICATION Spec
SYMMETRY Symmetric
INVARIANTS
  TypeOK
  OneActiveVersion
  IdentityIsUnique
  NoLostUpdate
  ReadersSeeNoPart
PROPERTIES
  StackDiscipline
  RollbackUndoesWhatItNames
