CONSTANTS
  s1 = s1
  s2 = s2
  s3 = s3
  k1 = k1
  k2 = k2
  v1 = v1
  v2 = v2
  v3 = v3
  n1 = n1
  n2 = n2
  w1 = w1
  b1 = b1
  b2 = b2
  none = none
  None = none
  Sessions = {s1, s2}
  Keys = {k1}
  Versions = {v1, v2, v3}
  Numbers = {n1, n2}
  Sites = {w1}
  Batches = {b1, b2}
  Evidence <- LoadedEvidence
  Newer <- Older
  Scripts <- LoadedScripts
  MaxStarts = 4
SPECIFICATION FairSpec
PROPERTIES
  ProjectionAdvances
  EveryCallReturns
