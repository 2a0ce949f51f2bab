SPECIFICATION FairSpec
CONSTANTS
  a = a
  b = b
  t1 = t1
  p1 = p1
  p2 = p2
  Nobody = Nobody
  Tabs = {t1}
  Runs = {p1}
  TabOf <- OneTab
  Threads = {a, b}
  MaxDay = 2
  MaxCycles = 1
  Scenes <- LiveScenes
CHECK_DEADLOCK FALSE
PROPERTIES
  RunsEnd
  CycleFinishes
