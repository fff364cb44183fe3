\* Two snapshots and a repository share three bytes; every write may need room.
CONSTANTS
  Snapshots = {s1, s2}
  Repos = {r1}
  None = None
  MaxBytes = 3
  TTL = 1
  SweepAge = 1
  Growths = {1, 2, 4}
  MaxTime = 2
SPECIFICATION Spec
SYMMETRY Symmetry
INVARIANTS
  BytesBounded
  CapacityMeansInUse
PROPERTY
  EvictionHasReason
