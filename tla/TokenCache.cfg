\* Three requests with two tokens, and room for one
\* user, one rejection and two probes.
CONSTANTS
  Requests = {q1, q2, q3}
  Tokens = {t1, t2}
  Good = {t1, t2}
  None = None
  MaxUsers = 1
  MaxInvalid = 1
  Slots = 2
  UserTTL = 1
  InvalidTTL = 1
  MaxTime = 2
SPECIFICATION Spec
SYMMETRY Symmetry
INVARIANTS
  ProbesLimited
  AdmittedWasProven
  RefusedWasDenied
  CacheConsistent
  FollowersAreServed
PROPERTY
  HitsDoNotExtend
