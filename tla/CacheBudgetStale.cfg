\* The same cache, asked whether what expires has been left untouched.
CONSTANTS
  Snapshots = {s1}
  Repos = {r1}
  None = None
  MaxBytes = 3
  TTL = 1
  SweepAge = 1
  Growths = {1}
  MaxTime = 2
SPECIFICATION Spec
PROPERTY
  ExpiresUntouched
