SPECIFICATION Spec
CONSTANTS
  p1 = p1
  p2 = p2
  mirror = mirror
  registry = registry
  None = None
  Proc = {p1, p2}
  Host = {mirror, registry}
  Size = 2
  MaxEpoch = 1
  Scenario <- Safe
INVARIANTS OneTokenJob BytesInOrder ResolvedIsServed CommittedIsStored
PROPERTY CallsEnd
CHECK_DEADLOCK FALSE
