CONSTANTS
  Snap = {s1}
  Daemon = {d1}
  Thread = {t1}
  Closer = closer
  None = none
  Modes <- MountErrorModes
SPECIFICATION Spec
INVARIANT MountedOrRevoked
