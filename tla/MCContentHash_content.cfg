CONSTANTS
  u1 = u1
  u2 = u2
  u3 = u3
  s1 = s1
  s2 = s2
  Sends = {u1, u3}
  Saves = {u2}
  Snapshots = {s1}
  MaxRev = 1
SPECIFICATION FairSpec
CHECK_DEADLOCK FALSE
INVARIANTS KeptForUsers NotOlderThanOverlap
           AloneNothingIsMissing AloneNoWarning
PROPERTIES OpsEnd
