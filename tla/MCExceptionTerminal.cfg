CONSTANTS
  s1 = s1
  s2 = s2
  s3 = s3
  d1 = d1
  d2 = d2
  i1 = i1
  i2 = i2
  none = none
  None = none
  Sessions = {s1, s2}
  Datasets = {d1}
  Issues = {i1}
  IssueOrder <- OneIssue
  Facts = {1}
  Records = {1}
  Samples <- OneSampled
  Kinds = {"detect", "bootstrap", "patch"}
  MaxJobs = 3
SPECIFICATION Spec
PROPERTIES
  TerminalIsFinal
