SPECIFICATION FairSpec
CONSTANTS
  d1 = d1
  d2 = d2
  i1 = i1
  i2 = i2
  t1 = t1
  None = None
  Id = {d1, d2}
  Inst = {i1, i2}
  InstOf <- MCInstOf
  MaxPid = 3
  MaxFd = 2
  QueueCap = 1
  Thread = {t1}
  Slot = {1, 2}
  Scenario <- Live
  First = d1
  MaxFault = 1
  MaxDeath = 1
PROPERTIES FetchEnds Recovered
CHECK_DEADLOCK FALSE
