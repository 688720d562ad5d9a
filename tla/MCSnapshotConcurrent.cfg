SPECIFICATION Spec
CONSTANTS
  Key = {k1, k2}
  Proc = {p1, p2}
  NoKey = NoKey
  SyncRemove = TRUE
  Proxy = TRUE
  Faults = {}
  MaxID = 3
  MaxCrash = 0
  MaxFault = 0
SYMMETRY Symmetry
INVARIANTS DirOfSnapshot RafsHasDir DeletesOnlyOrphans
