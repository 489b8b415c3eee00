CONSTANTS
  a1 = a1
  a2 = a2
  a3 = a3
  c1 = c1
  c2 = c2
  NoMsg = NoMsg
  Async = {a1}
  Calls = {c1, c2}
  Route <- RouteUnordered
  Prio <- PrioMixed
  UnorderedMax = 2
SPECIFICATION Spec
CHECK_DEADLOCK FALSE
PROPERTIES CallersReturn ImplementsJobs
