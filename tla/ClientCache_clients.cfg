SPECIFICATION FairSpec
CONSTANTS
  Reqs = {r1, r2, r3}
  Clients = {c1, c2, c3}
  Datas = {d1, d2}
  None = None
INVARIANTS RefsExact Shared
PROPERTIES EveryRequestAnswered
CHECK_DEADLOCK FALSE
