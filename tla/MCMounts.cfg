CONSTANTS
  Threads = {"t1", "t2"}
  Scenario <- MCScenario
SPECIFICATION Spec
\* A finished workload stops.
CHECK_DEADLOCK FALSE
INVARIANTS
  RootfsExact
  MountsAgree
  BootstrapIntact
  UsedKept
  BitmapHasData
  HelperExact
