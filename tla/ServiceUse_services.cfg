SPECIFICATION FairSpec
CONSTANTS
  Threads = {t1, t2, t3, t4}
  Cancellable = {t1}
  Services = {s1, s2}
INVARIANTS OneUser
PROPERTIES FreeIsTaken
