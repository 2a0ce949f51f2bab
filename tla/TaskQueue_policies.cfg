SPECIFICATION FairSpec
CONSTANTS
  TaskCount = 3
  Keys = {k1, k2, k3}
  Policies <- SomePolicies
  MaxPending = 2
  HasTimeout = TRUE
  MaxRoute = 1
CHECK_DEADLOCK FALSE
INVARIANTS
  TypeOK
  NothingForgotten
  LosersAreTold
PROPERTIES
  AcceptedSettles
  ImplementsSerialTasks
