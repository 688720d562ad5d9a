SPECIFICATION Spec
CONSTANTS
  r1 = r1
  r2 = r2
  i1 = i1
  i2 = i2
  s1 = s1
  None = None
  Global = Global
  Ref = {r1, r2}
  Inst = {i1, i2}
  Secret = {s1}
  UrlOf <- MCUrlOf
  Interval = 6
  MaxTime = 13
  MaxGen = 2
  Scenario <- Scenes
INVARIANTS Reloaded FollowsSecrets
PROPERTIES NoExpired BestCredential
CHECK_DEADLOCK FALSE
