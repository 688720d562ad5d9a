CONSTANTS
  l1 = l1
  l2 = l2
  b1 = b1
  b2 = b2
  Layer = {l1, l2}
  Blob = {b1, b2}
  BlobOf <- MCBlobOf
  Filled = {l1}
  Stack <- MCStack
  Task = {t1, t2}
  Limit = 1
  ExportMode = "image_block"
  OnHost = TRUE
  Races = {}
  Faults = {"hint", "stream", "diffid", "convert", "copy", "mismatch", "inspect", "tool", "attach", "mount", "detach", "crash"}
  MaxFault = 1
  None = None
SPECIFICATION FairSpec
INVARIANTS ReadyHasFiles MountedComplete DevicesOwned
PROPERTIES WaitEnds KeepsPromise
CHECK_DEADLOCK FALSE
