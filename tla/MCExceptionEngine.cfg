CONSTANTS
  s1 = s1
  s2 = s2
  s3 = s3
  d1 = d1
  d2 = d2
  i1 = i1
  i2 = i2
  none = none
  None = none
  Sessions = {s1, s2}
  Datasets = {d1}
  Issues = {i1, i2}
  IssueOrder <- TwoIssues
  Facts = {1, 2}
  Records = {1, 2, 3}
  Samples <- NoSamples
  Kinds = {"detect", "patch"}
  MaxJobs = 5
SPECIFICATION Spec
SYMMETRY Symmetric
INVARIANTS
  TypeOK
  OneActiveCase
  SettledFactsStayQuiet
  AuditTrailIsSound
  OnlyLosersDeadlock
PROPERTIES
  TerminalIsFinal
