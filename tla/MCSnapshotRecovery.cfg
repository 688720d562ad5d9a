SPECIFICATION FairSpec
CONSTANTS
  Key = {k1, k2}
  Proc = {p1}
  NoKey = NoKey
  SyncRemove = FALSE
  Proxy = TRUE
  Faults = {"commit", "umount", "unlink"}
  MaxID = 2
  MaxCrash = 2
  MaxFault = 2
INVARIANTS OneIDAhead DirOfSnapshot
PROPERTIES OrphansReclaimed
