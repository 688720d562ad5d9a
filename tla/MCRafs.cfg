CONSTANTS
  Snap = {s1, s2}
  Daemon = {d1, d2, d3, d4, d5}
  Thread = {t1, t2}
  Closer = closer
  None = none
  Modes <- MCModes
SYMMETRY Symmetry
SPECIFICATION Spec
INVARIANTS RefCountExact DestroyedUnused NoDanglingInstance DaemonsInUse PersistedIsServed
